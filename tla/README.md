# Code Collab backend: verification development

TLA+ models of the server in `src/app`: a FastAPI process that lets people edit
one project together from VS Code. TLC checks the models on small instances,
TLAPS proves the main safety properties for every instance.

- [The system](#the-system)
- [Modules](#modules)
- [Runs](#runs)
- [Fairness](#fairness)
- [Proofs](#proofs)
- [What the runs refute](#what-the-runs-refute)
- [Not modelled](#not-modelled)
- [Plan](#plan)

Run everything from this directory: `tlc -workers 2 -config MCLifecycle.cfg
MCLifecycle`, `tlapm LifecycleProofs.tla`. `PROJECT.json` lists the runs, the
source lines behind each definition, a mutated definition that each property
catches, the hazards of the code and the theorems.

## The system

One process, one event loop, one worker (`app/ratelimit.py:3`). Sessions,
participants, files, chat, strokes and attachments are rows of a database
(MySQL or SQLite through SQLAlchemy's asyncio). Who is connected, who edits
which file and which countdown is running exists only in memory, in the `hub`.
Everything the process does between two awaits is atomic; at every await
anything else may run. Almost every hazard below is something that was true
before an await and is used after it.

| component | state | operations | hard part | correct when |
|---|---|---|---|---|
| hub registry `app/hub.py` | rooms, file locks, status cache, countdown table | register, unregister, send, broadcast, disconnect, close_room, claim / release, arm / cancel / forget | the newest socket of a person replaces the older one, whose coroutine still says farewell | an open socket is the one the hub writes to; no entry outlives its coroutine; a file has one holder |
| collaboration socket `app/routers/ws.py` | one coroutine and one database session per socket, with the rows it cached | connect, greet, frames (presence, edit, delete, chat, board, host commands), farewell, countdown | a cached row is reloaded once and never again; a commit that fails leaves the database session unusable | admission, presence and locks survive every order of connect, replace, command and farewell |
| shared mutations `app/actions.py` | rows | approve, deny, remove, change role, set status, file, chat and board updates, attachment purge | the row is committed first and the hub is told later (set_status: the hub first) | the row and the live connections agree once nothing is in flight |
| REST sessions `app/routers/sessions.py` | rows | create, join, settings, pause / resume / end, approve / deny / remove, snapshot upload and download | an upload deletes and inserts every file row in one transaction while edits are under way | edits settle |
| dashboard `app/routers/admin.py` | rows | the same actions, code rotation, deletion, pruning | it can act on an ended session | an empty session still ends |
| housekeeping `app/housekeeping.py` | rows, files on disk | startup reconciliation, hourly sweep, retention, pruning | runs beside everything else, across two media | what is dead goes, what is alive stays |
| attachments `app/routers/attachments.py`, `app/storage.py` | rows and bytes on disk | upload, list, bundle, download, detach | no transaction spans the row and the bytes | nothing listed loses its bytes, nothing dead keeps any |
| session tokens `app/security.py` | none | resolve_session_token | what it checked may change before the socket is registered | a refused person is out |
| rate limiting `app/ratelimit.py` | hits per key | allow, retry_after, reset | pruning and eviction must not show; the window's edge | a call is refused exactly when `limit` were granted in the last window; the table stays small |
| join codes, capacity `app/services.py` | rows | unique_join_code, counts | looked for in one statement, written in another; codes are given up and not remembered | a code is drawn that no session ever used; the cap is passed by a known number |
| accounts `app/routers/admin.py`, `app/security.py`, `app/main.py` | users, cookies | bootstrap, login, logout, user_action | administrators may take each other's rights | somebody stays in charge |
| extension publishing `app/routers/extension.py`, `scripts/publish_extension.py` | a package and its manifest on disk | publish, unpublish, latest, download | two files, two processes, no lock | what an undisturbed publication leaves can be installed |
| schema, configuration, utilities, pages, scripts | constants, or one value at a time | | | |

How they meet: a socket resolves its token, registers in the hub, marks its row,
re-reads it, is greeted, pumps frames into `_dispatch`, and says farewell when
the socket ends for whatever reason. REST, the dashboard and the host's socket
call the same functions of `actions.py`, each on a database session of its own;
these commit and then call the hub, which closes or informs sockets, whose
coroutines notice at their next receive. The last farewell of a room starts a
countdown task that ends the session. The sweeper ends what is idle and deletes
what is dead. All of that is interleaved at awaits. Before any of it stands the
rate limiter, a join code and the cap; beside it the dashboard's own accounts and
the directory from which clients fetch new builds, which a script also writes to.

The hazards are in `PROJECT.json`, each at its line, with the property that
would catch it going wrong.

## Modules

Five models of a session, each leaving to the others what is not its subject,
and six smaller ones of what surrounds it.

| module | models | proofs | model checking |
|---|---|---|---|
| `Membership` | who is in: participant rows, cached rows, connections, host commands | `MembershipProofs` | `MCMembership` |
| `Lifecycle` | active, paused, ended: row, hub cache, cached row, countdowns, sweep, restart | `LifecycleProofs` | `MCLifecycle` |
| `FileSync` | editing: soft locks, edit path, rows, snapshot upload, failed commits | `FileSyncProofs` | `MCFileSync` |
| `Lease` | what the soft locks promise, and nothing else | (implemented by `FileSync`) | |
| `Attachments` | rows and bytes: upload, detach, end, deletion, sweep, restart | `AttachmentsProofs` | `MCAttachments` |
| `Feed` | chat and board: insert, trim, clear, broadcast, the history of an arrival | `FeedProofs` | `MCSurroundings` |
| `Timeline` | what the feed promises its readers, and nothing else | (implemented by `Feed`) | |
| `RateLimiter` | the sliding window, pruning and eviction | `RateLimiterProofs` | `MCSurroundings` |
| `Permits` | what the limiter promises, and nothing else | (implemented by `RateLimiter`) | |
| `Joining` | requests to join, the cap, how the host hears of them, deletion | `ArrivalProofs` | `MCSurroundings`, `Joining` itself |
| `JoinCodes` | drawing, rotating and freeing codes | `ArrivalProofs` | `MCSurroundings`, `JoinCodes` itself |
| `Roles` | the role in the row and in the connection, edits, the pause | `ArrivalProofs` | `MCSurroundings` |
| `Accounts` | the dashboard's accounts, cookies and changes of rights | `SurroundingsProofs` | `MCSurroundings` |
| `Publishing` | package and manifest, written by the server and by the script | `SurroundingsProofs` | `MCSurroundings` |

An action is what the code does from one await to the next, so that the
interleavings of the model are those of the event loop. Where a value is read
from the database and used at a later await, it is kept in a variable
(`seenState`, `seen`, `task`, `edit.base`, `sweep.names`). Where it is read and
used at once, reading and using are one action; the module's header says so.

**Membership.** `state`, `connected` are columns of `Participant`; `room` is
`Hub._rooms`; `pc`, `open` are each socket's coroutine and transport;
`approved` is `Connection.approved`; `seenState`, `seenConn` are the row as the
coroutine's identity map holds it (`expire_on_commit=False`, so a commit does
not refresh it). `Flush` is SQLAlchemy's unit of work: a column is written only
if the value assigned differs from the one loaded. `Resolve`, `Register`,
`MarkConnected`, `RefreshRead`, `Greet`, `ShowsProject`, `FarewellRelease`,
`FarewellCommit` are `session_socket`, cut at its awaits. `Greet` has both branches of
`_greet`: who is pending waits, and everybody else, whatever the row says, is on
the way to `ShowsProject`, the snapshot and the side channels; `Receives` says
whether the person's entry takes what is sent, which asks for no approval. `task` is a host command: `BeginCommand`
loads the row, `CommitCommand` writes it, `ApplyApproval` or `Disconnect` tells
the hub. Whether a newcomer must be approved is free at every join (`Gates`): the
settings may have been changed. `admitted` is history: whom a host or an open session ever let in.

**Lifecycle.** `db` is `CollabSession.status`, `hub` is `Hub._status`, `seen` the
status of the row each coroutine cached. `op` holds `set_status` calls in flight
(the host's socket, REST, the dashboard): `BeginStatus` changes the hub,
`CommitStatus` the row, `AnnounceStatus` closes the room, `ReturnStatus` is the
socket handler's second write to the hub. `timer` is the countdown tasks and
`entry` the one the hub knows (`Graced`: whether `empty_session_grace_seconds` allows
any at all): a cancelled countdown ends at once if asleep, and
at its next await otherwise; its `finally` forgets the entry whatever it holds.
`SweepReads` and `SweepCommits` are `end_idle_sessions`; `Restart` is a crash and
`close_orphaned_sessions`.

**FileSync.** `lock` is `Hub._file_locks`, with what is left of each lease in
place of its expiry, so that time needs no bound. `edit` is the frame a coroutine
works on and what it found in the database (`base`). `UploadDeletes` and
`UploadCommits` are `upload_snapshot`: the deleted rows are locked until the
commit, and an edit that found one of them fails to commit afterwards
(`CommitFails`), which poisons its database session (`FarewellFails`). An edit
that waits for such a row has already updated the session's, which the upload
needs to commit: the database ends that deadlock with `CommitFails` or
`UploadFails`. The countdown that the last farewell arms is `Lifecycle`'s.

**Lease.** A file is taken only while free, and passes from one person to
another only by having been free. `FileSync` implements it under the refinement
`Holder == [f \in Paths |-> IF lock[f].left > 0 THEN lock[f].owner ELSE None]`.

**Attachments.** `row` and `disk` are the two media. An upload is `Admit`,
`Count`, `Write` (bytes) and `CommitUpload` (row), or `Reject`; a detach is
`AdmitDetach`, `Unlink` (bytes) and `CommitDetach` (row); the end of the session
is `EndBegins`, `EndReads` (bytes), `EndDeletes`, `EndCommits` (rows); the sweep is
`SweepEnds`, `SweepDrops`, `SweepPurges`, `SweepCommits` or `SweepFails`, `SweepLists`,
`SweepUnlinks`. Deletion from the dashboard is `EraseReads` (bytes) and
`EraseCommits` (the session and every row of it, by cascade); after it a commit that
refers to the session fails (`Storable`). `Restart` drops all of them where they
are, and may end the session, as `close_orphaned_sessions` does. A file may refuse to be removed (`Removes`, `Reject`, `SweepUnlinks`), which
the code only logs. `excused` is history: rows whose bytes a restart or the orphan
sweep cost.

**Feed.** `rows` are the ids of `ChatMessage` or `BoardStroke` (`kind` says
which). A writing frame is `Inserts`, `Shares`, `Flush` or in their place
`UpdatesFirst`, then `Counts`, `Cuts`, `Commit`, `Broadcast`; a clearing one `Clear`,
`Commit`, `Broadcast`; any of them may end in `RollsBack`. Nothing in `_trim` keeps two
writers apart: that is done by `touch`, whose UPDATE of the session's row goes out in
the same flush as the item and holds the row until the commit (`Holding`, `Turn`). The
INSERT refers to that row by a foreign key, so the database has it shared until the
commit (`Sharing`, `Shareable`). No relationship orders the two tables, so the flush
may send either statement first; when the INSERT comes first in two transactions, each
shares what the other is to update, and one of them is rolled back. An item may have
its id before its turn, so commits need not follow ids. A share is granted here
whenever nobody holds the row, where InnoDB may have it queue behind an update that
waits: that only delays it. A viewer is `Arrive` (in the room, approved),
`ReadsHistory`, `Greet`, `Leave`; `got` is what they were sent. `sent` is history:
the items whose broadcast is over. A statement is one step: the rows a DELETE takes
are locked together, so that a circle over two DELETEs that lock the same rows in
different orders is not modelled.

**Timeline.** One list: `Add` puts in an item and drops what is no longer among the
`Keep` newest, `Wipe` clears some of the board. There are no writers, no transactions
and no order of commits in it. `Feed` implements it with `items <- rows`.

**RateLimiter.** `hits` is `RateLimiter._hits`, as the ages of the hits, and `table`
the keys that have a bucket. `Granted` and `Refused` are `allow` and what `enforce`
makes of it; `TimePasses` lets all ages grow up to the first that no longer counts.
`Permits` knows neither buckets nor pruning: a key has as many permits as the limit,
and each is out for one window. `RateLimiter` implements it under the refinement that
reads from each hit how long its permit stays out.

**Joining.** `place` is `Participant.state`, as far as the cap and the host tell
states apart, and `ask` a `POST /join` cut at its awaits: `Find` (session and cap as
loaded), `Count`, `Insert`, `Notify`, `RosterRead`, `RosterSent`. `host` is the host's
connection: `HostResolves`, `HostRegisters`, `GreetingReads`, `GreetingSends`; `told`
is whom it has heard of. `EraseBegins` is `delete_session` up to the closing of the
room, `PurgeBegins` is `purge_sessions`, `Erased` the commit of either. `high` and
`readmitted` are history: the highest cap, and those the host let in again.

**JoinCodes.** `DrawsNew` and `DrawsNext` are `unique_join_code` for a creation and for
a rotation, `Writes` and `WriteFails` the flush that the unique index decides. `used`
is history: the codes that any row has or had, which the code does not remember.

**Roles.** One admitted person: `role` is the column, `conn` the field of the
connection that `_edit` asks. `Begins`, `Commits`, `Applies` are `change_role` and
`approve_participant`; `Rereads` and `Greets` the greeting; `Accept` and `Store` the
two ends of `_edit`. `taking` is whether the hub's status lets edits through, which
is where this model meets `Lifecycle`. `raced` and `late` are history.

**Accounts.** `Boots` is `bootstrap_admin` at a start with any `ADMIN_EMAIL`;
`ChangeBegins` and `ChangeCommits` are `user_action`, whose author is looked up only
when it begins. `lapsed` is history: a change was committed for an author who was no
longer entitled to it.

**Publishing.** `file` and `manifest` are what is on disk. A publication is
`PublishBegins`, `PackageWritten`, `ManifestOpened`, `ManifestWritten`,
`StaleListed`, `Unlinked` for each old build, `Finishes`; `Dies` may come after any of
these. Opening a file for writing empties it, and what two processes write into one
file at a time may be torn. `alone` and `outcome` are history.

## Runs

Deadlock is checked in every run: none of these systems ever stops.

| run | instance | checks |
|---|---|---|
| `membership` | one guest with two sockets, the host, one command | types; `HubMatchesSockets`; `RefusalSilences`; `NoGhostPresence`; `OnlyApprovalReadmits`; `GoneIsForgotten`; `LobbyEmpties` |
| `lifecycle` | the host's and a guest's socket, the dashboard, which may revive, a countdown, restarts | types; `ArmedMeansEmpty`; `EmptyIsWatched`; `EmptySessionEnds`; `EndReachesEveryone` |
| `file_sync` | two people, a socket each, two files, lease of 1 tick | types; `LeaseCoversEdit`; `NoOrphanLeases`; `Leases` (refinement of `Lease`); `EditsSettle`; `GoneLetGo` |
| `attachments` | two uploads, a detach, two names, cap 1, one restart | types; `OvershootBounded`; `LossExplained`; `DeletedForGood`; `DeadLeaveNothing`; `OrphansGo` |
| `surroundings` | the feed (three writers, a viewer, two items kept, four written) and the six models around a session, side by side | types; `RowsBounded`; `NothingMissed`; `OnlyTheseBlock`; `TrimIsExact`; `KeepsPromise` (refinement of `Timeline`); `LimitKept` (refinement of `Permits`); `TableBounded`; `SeatsBounded`; `KnockHeard`; `OneEditLate`; `RolesAgree`; `SomebodyInCharge`; `UndisturbedHolds` |
| `lost_admission`, `greet_race`, `refused_greeted`, `pause_lost`, `swept`, `deletion`, `recycled` | smallest instance | one violated property each, see below |

`surroundings` explores seven components that share no variable: its initial states
choose one of them (`subject`), and only that one moves. Each behaviour is one
component's, all of whose behaviours are explored.

Bounds and why they are enough:

- *Sockets.* Every hazard of replacement is about the older and the newer
  connection of one person, so two sockets that share a token. In `Lifecycle` and
  `FileSync` a socket may be opened again and again, so two give unboundedly many
  connections with two at a time. In `Membership` a socket is used once: an older
  and a newer one.
- *Commands.* One host command at a time in `membership`; the proofs allow any
  number.
- *Countdowns.* One task in `lifecycle`: a sleeping countdown that is cancelled frees
  it at once, and a farewell waits while one that was cancelled at work finishes, so
  the overlap of two is left to the theorems, which allow any number, and to
  `pause_lost`, which has two.
- *Time.* A lease of 1 tick is held until time passes and has expired after. The idle
  timeout is a Boolean, `stale`. A window of 2 ticks has hits that are fresh, at its
  edge, and too old.
- *Sockets that replace each other* hold no leases in `file_sync`, where everybody has
  one; `No_Orphans` is proved for any assignment of sockets to people.
- *Attachments.* Two uploads with a cap of 1 pass it by one, and two names let both
  have a file, or one beside a listed attachment. Names are used again
  once nothing remembers them, where the code draws 128 random bits. One end,
  one deletion and one sweep at a time: the dashboard may also run a sweep of its
  own, which is left out. One restart is enough to interrupt each operation
  anywhere, and what follows is a state that further restarts start from as well.
- *Feed.* Four items of which two are kept trim twice, and three writers
  put one between the count and the commit of another while a third clears.
- *Rate limiter.* Three keys, two hits each, a table that may keep one: buckets are
  evicted while others are full.
- *Joining.* Two requests race for the last of 0 or 1 seats besides the host's, with
  a third guest to be there before them; the cap moves between 1 and 2.
- *Join codes.* Three sessions for three codes, which therefore come round again, and
  two requests that draw at once.
- *Roles.* Two commands: one and the same person's greeting, or two that overlap.
- *Accounts.* Three people, two changes under way, so that one may outlive its
  author's rights while a third is still in charge.
- *Publishing.* Two builds of one version and one of another, the server and the
  script.

Interchangeable guests, requests and writers are a symmetry set of `surroundings`,
which has no liveness property; the runs that have one use none.

The proofs take the bounds on sockets, commands, countdowns, leases, names,
uploads, restarts, writers, viewers and items away, and so those on keys, hits,
guests, requests, caps, codes, users, builds and versions.

What the properties say is above each definition. The ones to know:
`HubMatchesSockets` (an open socket is the one the hub would write to, so that a
removal or an end reaches it), `RefusalSilences` (once the commands about them have
returned, no broadcast reaches somebody denied or removed, not even on a socket that
registered after the hub was told to disconnect them), `EmptyIsWatched` (no
interleaving of farewells, cancellations and firing countdowns loses the last
countdown of an empty session), `EndReachesEveryone` (also a socket that registers between the commit of the end and `close_room`),
`LeaseCoversEdit` (an edit on its way to the database keeps its lease, whatever
others do), `LossExplained` (a listed attachment loses its bytes only to its own
removal, a restart, or the orphan sweep), `TrimIsExact` (count, cutoff and delete
are three statements, and yet a commit leaves exactly the newest items),
`NothingMissed` (whoever is greeted has every stored message that was sent),
`OnlyTheseBlock` (when everybody who writes waits, two have inserted and want the
session's row both share, or a trim meets a clearing of the board, since `touch` comes
before `_trim` and after the DELETE of `clear_board`; both states are reached),
`KeepsPromise` (to its readers the feed is
one list, whatever transactions write it),
`SeatsBounded` (racing joins pass the highest cap by at most one seat each but for
the first), `KnockHeard` (a host who has been greeted has heard of everybody who
waits, whichever of the two came first), `OneEditLate` (the pause and the loss of a
role stop all but the one edit that had passed the test), `LimitKept` (pruning and
eviction are invisible), `SomebodyInCharge` (the last administrator is not lost by
permitted changes in any order), `UndisturbedHolds` (whatever crashes and overlaps
came before, a publication that runs alone can be installed).

## Fairness

The safety properties need none. For liveness:

- weak fairness of every coroutine, command and countdown: the event loop resumes
  a coroutine whose await has been answered, and the database answers;
- weak fairness of time and the sweep: `asyncio.sleep` ends, and `sweeper` loops
  for ever and survives every exception;
- strong fairness of an edit's commit in `FileSync`: a commit that waits for a row
  lock gets it when the upload lets go and before the next upload does, because
  the database serves its lock queue in order. Under weak fairness uploads could
  take turns for ever;
- strong fairness of an orphan sweep that meets no file it cannot unlink, in
  `Attachments`: whatever keeps a file (an open handle, a full journal) does not do
  so at every sweep for ever;
- none of clients: nobody has to connect, type, approve, or leave. `Drop` is not
  fair, so a client may stay for ever. Restarts are not fair either.

## Proofs

`tlapm` proves every obligation; there is no unproved step. Assumptions are the
named `ASSUME` of each model: finite or non-empty sets where they are counted,
distinct model values, `Owner` a function. Everything else that a configuration
gives a value is arbitrary.

| theorem | says |
|---|---|
| `MembershipProofs!TypeCorrect` | `Spec => []TypeOK` |
| `MembershipProofs!HubMatches` | `Spec => []HubMatchesSockets` |
| `MembershipProofs!Approved_Was_Admitted` | `Spec => []AdmissionInv`: who receives broadcasts was let in at some time |
| `MembershipProofs!Admission` | `Spec /\ [][~RefusedOnTheWay]_vars => ProjectForAdmitted` |
| `MembershipProofs!NoGhosts` | `Spec => []NoGhostPresence` |
| `MembershipProofs!Readmission` | `Spec => OnlyApprovalReadmits` |
| `MembershipProofs!Approval_Arrives` | `Spec /\ [][~StaleGreeting]_vars => []ApprovalReachesSocket` |
| `MembershipProofs!Admission_Kept` | `Spec /\ [][~ApprovesBehindBack]_vars => AdmissionSurvivesLeaving` |
| `MembershipProofs!Refusal_Silences` | `Spec /\ [][~RefusesTheAdmitting]_vars => []RefusalSilences` |
| `LifecycleProofs!TypeCorrect` | `Spec => []TypeOK` |
| `LifecycleProofs!Room_Is_Live` | only coroutines between register and farewell are in the room |
| `LifecycleProofs!Armed_Means_Empty` | `Spec => []ArmedMeansEmpty` |
| `LifecycleProofs!Empty_Is_Watched` | `Spec => []EmptyIsWatched` |
| `LifecycleProofs!Room_Has_Status` | `Spec => []RoomHasStatus`: whoever is in a room finds the hub's status for it, which `Pause_Holds` needs |
| `LifecycleProofs!Pause_Holds` | `Spec /\ [][~WritesOldStatus /\ ~WritesMeanwhile]_vars => []PausedIsEnforced` |
| `LifecycleProofs!Ended_Is_Empty` | `Spec /\ [][~EndedUnseen]_vars => []EndedIsEmpty` |
| `FileSyncProofs!WellTyped` | `Spec => []TypeOK` |
| `FileSyncProofs!No_Orphans` | `Spec => []NoOrphanLeases` |
| `FileSyncProofs!Open_Is_Registered` | an open socket is the hub's entry of its person |
| `FileSyncProofs!Covered_Unless_Left` | `Spec /\ [][~LeavesUnderEdit]_vars => []LeaseCoversEdit` |
| `FileSyncProofs!Covered` | `OneSocketEach /\ Spec => []LeaseCoversEdit`, its corollary |
| `FileSyncProofs!Implements_Lease` | `Spec => Leases` |
| `AttachmentsProofs!WellTyped` | `Spec => []TypeOK` |
| `AttachmentsProofs!Overshoot` | `Spec => []OvershootBounded` |
| `AttachmentsProofs!Loss` | `Spec => []LossExplained` |
| `AttachmentsProofs!Deletion` | `Spec => DeletedForGood` |
| `AttachmentsProofs!Sweep_Spares` | `Spec /\ [][~CommitsUnlisted]_vars => SweptHadNoRow` |
| `AttachmentsProofs!Nothing_Else_Loses` | `Spec /\ [][~CommitsUnlisted /\ ~TakesAnUpload]_vars => []BytesOrLeaving` |
| `FeedProofs!FeedTypeCorrect` | `FeedSpec => []FeedTypeOK` |
| `FeedProofs!Bounded` | `FeedSpec => []RowsBounded` |
| `FeedProofs!Exact` | `FeedSpec => TrimIsExact` |
| `FeedProofs!Complete` | `FeedSpec => []NothingMissed` |
| `FeedProofs!Only_These_Block` | `FeedSpec => []OnlyTheseBlock` |
| `FeedProofs!Chat_Trims_Never_Wait` | in the chat, whoever has the session's row to itself does not wait |
| `FeedProofs!Keeps_Promise` | `FeedSpec => KeepsPromise`, the refinement of `Timeline` |
| `RateLimiterProofs!RateTypeCorrect` | `RateSpec => []RateInv`: well typed, and the table finite |
| `RateLimiterProofs!LimitIsKept` | `RateSpec => LimitKept`, the refinement of `Permits` |
| `RateLimiterProofs!TableIsBounded` | `RateSpec => TableBounded` |
| `ArrivalProofs!CodesTypeCorrect` | `CodesSpec => []CodesInv`: well typed, and a request in flight has a row and a code |
| `ArrivalProofs!Recycled_If_Given_Up` | `CodesSpec /\ [][~GivenUp]_codeVars => NeverRecycled` |
| `ArrivalProofs!RolesTypeCorrect` | `RolesSpec => []RolesInv`, from which the next two follow |
| `ArrivalProofs!AtMostOneEditLate` | `RolesSpec => []OneEditLate` |
| `ArrivalProofs!RowAndSocketAgree` | `RolesSpec => []RolesAgree` |
| `ArrivalProofs!JoinTypeCorrect` | `JoinSpec => []JoinTyped` |
| `ArrivalProofs!SeatsAreBounded` | `JoinSpec => []SeatsBounded` |
| `ArrivalProofs!NobodyKnocksUnheard` | `JoinSpec => []KnockHeard` |
| `ArrivalProofs!Disconnected_First` | `JoinSpec /\ [][~RegistersUnderErasure]_joinVars => DisconnectedFirst` |
| `SurroundingsProofs!AccountsTypeCorrect` | `AccountsSpec => []AccountsInv` |
| `SurroundingsProofs!SomebodyStaysInCharge` | `AccountsSpec => []SomebodyInCharge` |
| `SurroundingsProofs!PublishingTypeCorrect` | `PublishingSpec => []PublishingTypeOK` |
| `SurroundingsProofs!UndisturbedOnesHold` | `PublishingSpec => []UndisturbedHolds` |
| `SurroundingsProofs!SideBySide` | `MCSpec` implies the specifications of all seven components |
| `SurroundingsProofs!TypesCorrect` | `MCSpec => []TypesOK` |

Along which argument:

- *HubMatches* is inductive with the types. Its second half is what keeps the
  first: the hub's entry is always an attached coroutine's, so that a replacement
  closes the right socket.
- *Approved_Was_Admitted* must say the same of every stale copy: a cached row, a
  connection between re-read and greeting and an approval that has committed may only
  say "approved" of somebody who was admitted. It says nothing of somebody refused
  later; *Refusal_Silences* does.
- *NoGhosts* needs that the coroutine which will clear `connected` has loaded or
  written it as true, because a unit of work writes nothing for a column it
  believes unchanged.
- *Empty_Is_Watched* rests on *Room_Is_Live* and on: in a session that people have
  entered and that has not ended, either somebody is between register and
  farewell, or a countdown is asleep or at work. `FarewellEnd` keeps it because
  the last one out finds the room empty, `Wake` because a sleeping countdown gives
  up only if somebody is in the room and so has a farewell to come.
- *Covered_Unless_Left* rests on *Open_Is_Registered*: an edit's author is in the
  room, so that neither the emptying of the room nor a claim by somebody else takes
  the lease while it has time left. What remains is a farewell of the same person.
  *Covered* follows, since with one socket each there is no other coroutine that
  could say it.
- *Implements_Lease* maps each step to `Take`, `LetGo` or a stutter. `Claim` over
  an expired entry is a `Take` because the mapping already shows it free.
- *Overshoot* needs no more than what it says: `Count` passes only below the cap,
  when at most the other uploads are past it, and a commit moves one from the uploads
  to the rows.
- *Loss* needs that an upload's file is nobody else's and has no row yet, and is
  there when the row is committed unless the sweep took it; and that a deleted
  session has no rows (`Emptied`), so that a sweep that fails over it leaves none
  without bytes.
- *Deletion* follows from `Emptied`: a commit that finds the session gone stores
  nothing, and those that write a status test for it.

- *Bounded* and *Exact* rest on the order of the items: of finitely many one is the
  oldest, so those that fewer than `Keep` newer ones follow are at most `Keep`
  (`NewestAreFew`). The invariant says that one writer at a time holds the
  session's row, and that what a ready writer has doomed is still exactly what is
  beyond the newest.
- *Complete* uses *Bounded*: since the rows are never more than a history holds,
  the newest and the oldest of them are both all of them.
- *Only_These_Block* follows from the same invariant, which also keeps a holder and a
  sharer apart. Who holds the session's row waits only for rows that are deleted and
  not committed; their deleter is not a trim, since a trim with deleted rows holds
  the session's row as well. If nobody holds it, all who wait wait for somebody else
  who shares it, and that one waits in turn for another.
- *Keeps_Promise* maps a trim's commit to `Add`, by what *Exact* says of it, a
  clearing's to `Wipe`, and everything else to a stutter. `Timeline` counts how an
  item ranks, `_trim` how many follow it (`NewestRankFirst`).
- *SideBySide*: each component's variables move by its own next-state relation or
  not at all, so what is proved of a component holds in the run, and what the run
  found would be true of the component.
- *LimitIsKept* rests on one lemma: a bucket before and after pruning maps to the same
  permits, since what pruning drops no longer counted. Eviction removes only buckets
  that are empty once pruned, which map to a full set of permits, as no bucket does.
- *Recycled_If_Given_Up*: while no row gives its code up, every code ever used is
  still some row's, and the draw asks all rows, those of ended sessions included.
- *AtMostOneEditLate* and *RowAndSocketAgree* need to say, unless two operations
  have overlapped: a command in flight writes over the role it read, and the
  connection, or what the greeting is about to give it, has the row's role but for
  what a committed command still has to tell it (`InStep`).
- *SeatsAreBounded* counts a request that has passed the test as the seat it will
  fill. `Count` passes only below the cap that was loaded, at most the highest, so
  the seats and the requests past the count stay together within that cap and the
  other requests.
- *NobodyKnocksUnheard* covers the two ways to hear of somebody, whichever comes first:
  while the greeting is under way, everybody who waits has been told to the socket
  or is in what the greeting has read (`KnockInv`).
- *SomebodyStaysInCharge*: nobody may ask for a change of their own account
  (`AccountsInv`), so the author of a change that has not lapsed is an
  administrator whom it leaves one.
- *UndisturbedOnesHold* says of an operation that is alone what each of its steps
  finds on disk (`OnCourse`): what it has itself left there, whatever was there
  before.

### The races found are the only ones

Nine safety properties fail, or are stated with a restriction, because of a race in the
code or of something it does not remember. For each a theorem says that the property holds in every behaviour without the
steps of that race, whatever else is interleaved, so that nothing else breaks it. The
excluded steps are predicates over one step, named beside the theorem. None of the
hypotheses is vacuous: they exclude moments, not operations. The situation each
property is about is reached without the steps, and with them TLC finds a
counterexample (the runs below, and for `LeaseCoversEdit` a second socket).

- *Approval_Arrives* excludes `StaleGreeting`: the assignment at `ws.py:190` from a
  re-read that an approval has overtaken. Then a greeted connection of somebody
  approved is approved, or a command that has committed is yet to tell it.
- *Admission_Kept* excludes `ApprovesBehindBack`: the commit of an approval once the
  coroutine has read its row for the last time. Then a cached "pending" is still
  true of the row when the farewell judges by it.
- *Admission* excludes `RefusedOnTheWay`: that a pending person is denied, removed or
  written off as left while a socket of theirs is between its token and the re-read of
  its greeting. Then who was never let in is still pending at that re-read, and is told
  to wait (`StrangersAreWaiting`).
- *Refusal_Silences* says of denial and removal what *Approval_Arrives* says of
  approval: of broadcasts, which ask for `approved`, and not of the greeting, which
  does not. It excludes that they commit between an approval's commit and its return
  (`RefusesTheAdmitting`): the approval would then speak to a connection registered
  since. One command at a time cannot do that, so `membership` does not show it.
- *Pause_Holds* excludes two kinds of write to the hub's cache: of a status the row no
  longer has (a registration, or the second write of the host's socket), and one
  while another `set_status` is between its hub and its return (the same two, and a
  second `set_status`). Each of the five alone breaks the property on a small
  instance; the argument is that with one change at a time the hub may lag behind
  the row only towards refusing edits (`HubIsNotAhead`).
- *Ended_Is_Empty* excludes the idle sweep's end, which closes no room, and a
  registration after the end. Every other way to end a session is followed by the
  closing of the room before anybody is left behind.
- *Sweep_Spares* excludes the commit of an upload under the sweep's list
  (`CommitsUnlisted`). *Nothing_Else_Loses* excludes besides that the sweep takes the
  file of an upload before it has committed (`TakesAnUpload`); until a restart, a
  listed attachment then has its bytes or is being removed.
- *Disconnected_First* excludes the host's registration between a deletion's
  `close_room` and its commit.
- *Recycled_If_Given_Up* excludes that a row's code is written over or goes with its row
  (`GivenUp`): not a race, but the two ways by which a code leaves the only memory
  there is.
- *Covered_Unless_Left* excludes that another coroutine of the same person says
  farewell while the edit is under way.

### What is not proved

Every safety invariant and action property of the runs is stated by a theorem, the
refuted ones by one with the hypothesis above. Only model-checked: every liveness property (`GoneIsForgotten`, `LobbyEmpties`,
`EmptySessionEnds`, `EndReachesEveryone`, `EditsSettle`, `GoneLetGo`,
`DeadLeaveNothing`, `OrphansGo`): they rest on fairness, so on `ENABLED`, which is
beyond this prover.

## What the runs refute

Each of these runs finds a short behaviour of the code that a comment or document
of the repository excludes.

- `lost_admission`: somebody greeted in the lobby and approved afterwards is
  written off as "left" when that socket closes (`ws.py:266` tests the row cached
  at the greeting), and their token is refused from then on.
- `greet_race`: an approval that lands between the greeting's re-read and its
  assignment is undone by the assignment (`ws.py:190`): the row is approved, the
  live connection is not.
- `refused_greeted`: "pending participants sit in a lobby and receive nothing but their
  own status" (`ws.py:6`). Somebody denied after their socket resolved its token and
  before the greeting re-reads the row is not pending by then, and the greeting sends
  the files, the chat and the board to whoever is not (`ws.py:219`).
- `pause_lost`: a socket that loaded the session before a pause and registers
  after it writes "active" into the hub's cache (`ws.py:157`): a paused session
  accepts edits.
- `swept`: the sweep reads the names that have a row, an upload commits, the sweep
  deletes that upload's file (`housekeeping.py:262`).
- `deletion`: `delete_session` closes the room first, "Anyone still connected is
  disconnected first" (`housekeeping.py:182`), and awaits before it commits: a socket
  that had its token resolved registers in between and is connected when the rows go.
- `recycled`: "Generate a join code no session has ever used", "Codes are never recycled"
  (`services.py:50-55`). `unique_join_code` asks only for rows that have the code now;
  what a rotation wrote over or a deletion took is drawn again, and an old link then
  opens the session that drew it. The draw is one of 25^10.

Also reachable, and without a run of its own: the dashboard brings an ended session back to
active; the farewell of a replaced connection clears `connected` and gives back
leases although its successor is there and may be editing (`ws.py:259-264`, what
`LeavesUnderEdit` excludes); a removal or denial that commits between the commit and
the return of an approval of the same person, with a socket that had its token
resolved and registers after it, leaves that person connected and approved (what
`RefusesTheAdmitting` excludes); a clearing of the board and a stroke that trims, or
any two messages or strokes that have both been inserted and not yet touched the
session, wait for each other until the database ends one of them (`OnlyTheseBlock`),
and its socket ends with it (`ws.py:171`); a farewell after a failed commit raises at its first use of the session row, gives no file back and arms no
countdown (`FarewellFails`), so that session waits for the idle sweep; a stroke and
a clearing of the board are broadcast in the other order than they were committed,
so that people and database show different boards; the idle sweep ends a
session without closing the sockets of people who sit in it; an upload that was
admitted before the end of its session commits after it (its row then goes with
the next sweep, `DeadLeaveNothing`); the attachment cap is passed by racing
uploads (by how much, `OvershootBounded`); a session that the dashboard revives after
`purge_sessions` has read which ended sessions to delete is deleted with them,
although "anything still live is left alone" (`housekeeping.py:150`), and the purge
closes no room at all (`PurgeBegins`); a socket whose first commit fails because its
session has just been deleted leaves its entry in the room for good, since that
commit comes before the `try` (`ws.py:164`); two role
changes, or one and the greeting, that overlap leave a connection with a role its
row no longer has (what `raced` excuses); a join and a departure may reach the host in
the other order, so that the roster sent last is not the newest (`RosterSent`); a
change of rights that outlives its author's own takes the last administrator's
(what `lapsed` excuses); the server and the script publishing at once leave a
manifest that names a file one of them has unlinked (what `alone` excuses).

## Not modelled

- *Database failures* other than the conflicts and deadlocks above. In particular a
  statement that fails alone, after which `_pump`'s commit still stores what came
  before it; and the failing first commit of a socket (`ws.py:164`), which would need
  the session's deletion in `Membership`.
- *Retention*: `strip_artefacts` deletes files, chat and board of an old ended session
  in one transaction that no property tells apart from the rest of its sweep. How
  long ago a session ended: a sweep may or may not find it old enough.
- *Two sweeps at once*, in `Attachments`.
- *Client boards*: in which order strokes and clearings reach each screen
  (`ws.py:635`); the code promises none, and there is no property to state.
- *People in an idle session* that the sweep ends (`housekeeping.py:97`): nothing in the
  code says that they should be disconnected; `Lifecycle` reaches the state.
- *Frames without state*: a viewer's request for edit rights, cursors, pings, who
  is told of what besides the host's roster and the feed.
- *Audit rows* (`log_event`), which nothing reads but a page of the dashboard.
- *Time to wait*: `retry_after` is an estimate sent with a refusal; `reset` has no
  caller.
- *Data*: contents, names, sizes, colours, messages. The byte quotas of an upload
  are a choice to refuse.
- *Tokens, passwords, cookies' expiry, CSRF*: cryptography and libraries.
- *Pure functions and pages*: path cleaning, request schemas, templates,
  configuration, which have no state of their own.
- *Maintenance scripts* other than publishing: run by hand while the server stands
  still, one transaction each.

## Plan

Built in this order, the most important first: `Membership`, `Lifecycle`,
`FileSync` with `Lease`, `Attachments`, `Feed` with `Timeline`; then `RateLimiter` with `Permits`,
`Joining`, `JoinCodes`, `Roles`, `Accounts`, `Publishing`, each with its proofs. The
composition of pause and edit, planned as `Lifecycle` over `FileSync`, became `Roles`,
where the hub's status is one Boolean: what a pause promises about what is stored
(`OneEditLate`) needs no more of it.

What would add most next:

1. `Lifecycle!set_status` under `Roles` in place of that Boolean, with
   `HubMatchesSockets` and `RoomIsLive` as the interface between them.
2. The session's deletion in `Membership`: the failing first commit, and a room entry
   that outlives its session.
3. A second sweep, from the dashboard, in `Attachments`.
