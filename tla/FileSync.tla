------------------------------ MODULE FileSync ------------------------------
(***************************************************************************)
(* Editing files in an active session: the soft locks of app/hub.py, the   *)
(* edit path of app/routers/ws.py and the rows it writes.                  *)
(*                                                                         *)
(* Sync is whole-file.  A file_update first claims the file's lease, then  *)
(* awaits the database twice: for the row, and for the commit.  A          *)
(* file_delete and the host's snapshot upload ask no lease.  A row that    *)
(* somebody else inserted or deleted between the two awaits makes the      *)
(* commit fail, and a failed commit ends the socket.                       *)
(*                                                                         *)
(* Time is kept as what is left of a lease, so that it needs no bound: a   *)
(* lease with nothing left has expired but stays in the table until        *)
(* somebody looks.  Status, admission and roles are the other modules'.    *)
(***************************************************************************)
EXTENDS Integers

CONSTANTS
    People, Conns,
    Owner,   \* whose token each socket carries
    Paths,
    Ttl,     \* file_lock_seconds, in ticks
    None     \* nobody

ASSUME FileSyncAssumption ==
    /\ Owner \in [Conns -> People]
    /\ Ttl \in Nat \ {0}
    /\ None \notin People \cup Conns \cup Paths

VARIABLES
    lock,      \* Hub._file_locks of the session
    room,      \* Hub._rooms of the session
    pc, open,  \* each socket's coroutine, and whether the socket is up
    edit,      \* the frame that coroutine is working on
    row,       \* the paths that have a SessionFile row
    upload     \* the host's snapshot upload in flight

tables == <<lock, room>>
sockets == <<pc, open>>
vars == <<tables, sockets, edit, row, upload>>

Free     == [owner |-> None, left |-> 0]
Working(kind, f, left) == [kind |-> kind, path |-> f, base |-> "unread", left |-> left]
NoEdit   == Working("update", None, 0)
NoUpload == [busy |-> FALSE, doomed |-> {}]

\* The coroutine still owes a farewell, or ended without managing one.
Owing(c) == pc[c] \in {"live", "claimed", "read", "failed", "crashed"}

-----------------------------------------------------------------------------
(* The lock table.                                                         *)

\* file_locks drops what has expired.
PrunedMutant(t) == [f \in Paths |-> Free]
Pruned(t) == [f \in Paths |-> IF t[f].left = 0 THEN Free ELSE t[f]]

\* claim_file gives way only to somebody else's lease that is still running.
HeldAgainstMutant(t, f, p) == t[f].owner \notin {None, p} /\ t[f].left > 1
HeldAgainst(t, f, p) == t[f].owner \notin {None, p} /\ t[f].left > 0

\* release_other_files and release_files: keep is None for the latter.
Released(t, p, keep) ==
    [f \in Paths |-> IF t[f].owner = p /\ f # keep THEN Free ELSE t[f]]

\* What a farewell gives back: everything the person holds.
GivenBackMutant(t, c) == IF room[Owner[c]] = c THEN Released(t, Owner[c], None) ELSE t
GivenBack(t, c) == Released(t, Owner[c], None)

\* Hub.unregister.
Unregistered(c) == IF room[Owner[c]] = c THEN [room EXCEPT ![Owner[c]] = None] ELSE room

-----------------------------------------------------------------------------
Init ==
    /\ lock = [f \in Paths |-> Free]
    /\ room = [p \in People |-> None]
    /\ pc = [c \in Conns |-> "idle"]
    /\ open = [c \in Conns |-> FALSE]
    /\ edit = [c \in Conns |-> NoEdit]
    /\ row = {} /\ upload = NoUpload

\* session_socket: register, which closes the connection it replaces.
Connect(c) ==
    LET p == Owner[c] IN
    /\ pc[c] \in {"idle", "crashed"}
    /\ pc' = [pc EXCEPT ![c] = "live"]
    /\ room' = [room EXCEPT ![p] = c]
    /\ open' = [d \in Conns |-> d = c \/ (open[d] /\ d # room[p])]
    /\ UNCHANGED <<lock, edit, row, upload>>

Drop(c) ==
    /\ open[c]
    /\ open' = [open EXCEPT ![c] = FALSE]
    /\ UNCHANGED <<tables, pc, edit, row, upload>>

\* Hub.send meets a dead socket.  (Being removed by the host is a Drop and
\* this, in one step.)
SendFails(c) ==
    /\ room[Owner[c]] = c /\ ~open[c]
    /\ room' = Unregistered(c)
    /\ UNCHANGED <<lock, sockets, edit, row, upload>>

\* A presence frame: the person is in file f now, or in none.
Presence(c, f) ==
    /\ pc[c] = "live" /\ open[c]
    /\ lock' = Released(lock, Owner[c], f)
    /\ UNCHANGED <<room, sockets, edit, row, upload>>

-----------------------------------------------------------------------------
(* _edit.                                                                  *)

\* A file_update, up to its first await: the expired leases are pruned and
\* the file's is taken or renewed.
Claim(c, f) ==
    /\ pc[c] = "live" /\ open[c]
    /\ ~HeldAgainst(lock, f, Owner[c])
    /\ lock' = [Pruned(lock) EXCEPT ![f] = [owner |-> Owner[c], left |-> Ttl]]
    /\ edit' = [edit EXCEPT ![c] = Working("update", f, Ttl)]
    /\ pc' = [pc EXCEPT ![c] = "claimed"]
    /\ UNCHANGED <<room, open, row, upload>>

\* "Someone else is editing this file."
Refuse(c, f) ==
    /\ pc[c] = "live" /\ open[c]
    /\ HeldAgainst(lock, f, Owner[c])
    /\ lock' = Pruned(lock)
    /\ UNCHANGED <<room, sockets, edit, row, upload>>

\* The content is not text, or too long: the claim stays.
Abandon(c) ==
    /\ pc[c] = "claimed"
    /\ pc' = [pc EXCEPT ![c] = "live"]
    /\ edit' = [edit EXCEPT ![c] = NoEdit]
    /\ UNCHANGED <<tables, open, row, upload>>

\* A file_delete goes straight to the database.
BeginDelete(c, f) ==
    /\ pc[c] = "live" /\ open[c]
    /\ edit' = [edit EXCEPT ![c] = Working("delete", f, 0)]
    /\ pc' = [pc EXCEPT ![c] = "claimed"]
    /\ UNCHANGED <<tables, open, row, upload>>

\* The SELECT of apply_file_update or delete_file is answered.
ReadRow(c) ==
    /\ pc[c] = "claimed"
    /\ pc' = [pc EXCEPT ![c] = "read"]
    /\ edit' = [edit EXCEPT ![c].base = IF edit[c].path \in row THEN "found" ELSE "absent"]
    /\ UNCHANGED <<tables, open, row, upload>>

\* The rows at these paths are gone: whoever found one has lost it.
LostRows(e, gone) ==
    [c \in Conns |-> IF e[c].base = "found" /\ e[c].path \in gone
                     THEN [e[c] EXCEPT !.base = "lost"] ELSE e[c]]

\* A row the upload has deleted and not committed keeps whoever writes or
\* inserts it waiting.
Touches(c) ==
    \/ edit[c].base = "found"
    \/ edit[c].base = "absent" /\ edit[c].kind = "update"
BlockedMutant(c) == Touches(c) /\ edit[c].path \in row
Blocked(c) == Touches(c) /\ edit[c].path \in row \cap upload.doomed

\* The UPDATE would match no row, or the INSERT would meet one.
Conflict(c) ==
    /\ edit[c].kind = "update"
    /\ \/ edit[c].base = "lost"
       \/ edit[c].base = "absent" /\ edit[c].path \in row

CommitEdit(c) ==
    LET f == edit[c].path
        removes == edit[c].kind = "delete" /\ edit[c].base = "found"
    IN
    /\ pc[c] = "read" /\ ~Blocked(c) /\ ~Conflict(c)
    /\ pc' = [pc EXCEPT ![c] = "live"]
    /\ row' = CASE edit[c].kind = "update" -> row \cup {f}
                [] removes -> row \ {f}
                [] OTHER -> row
    /\ edit' = LostRows([edit EXCEPT ![c] = NoEdit], IF removes THEN {f} ELSE {})
    /\ UNCHANGED <<tables, open, upload>>

\* The flush raises, and so does every use of this database session after it.
\* An edit that waits for a row has updated the session's by then (touch), and
\* the upload needs that one to commit: the database fails one of the two.
CommitFails(c) ==
    /\ pc[c] = "read" /\ (Blocked(c) \/ Conflict(c))
    /\ pc' = [pc EXCEPT ![c] = "failed"]
    /\ edit' = [edit EXCEPT ![c] = NoEdit]
    /\ UNCHANGED <<tables, open, row, upload>>

-----------------------------------------------------------------------------
(* _farewell.                                                              *)

\* Leave the room and give the files back.
Farewell(c) ==
    /\ pc[c] = "live" /\ ~open[c]
    /\ pc' = [pc EXCEPT ![c] = "leaving"]
    /\ room' = Unregistered(c)
    /\ lock' = GivenBack(lock, c)
    /\ UNCHANGED <<open, edit, row, upload>>

RoomEmptyMutant == TRUE
RoomEmpty == \A p \in People : room[p] = None

\* After its commit and its broadcasts: the last one out forgets the locks.
\* (The countdown it arms is Lifecycle.tla's.)
FarewellEnd(c) ==
    /\ pc[c] = "leaving"
    /\ pc' = [pc EXCEPT ![c] = "idle"]
    /\ lock' = IF RoomEmpty THEN [f \in Paths |-> Free] ELSE lock
    /\ UNCHANGED <<room, open, edit, row, upload>>

\* The failed flush rolled back and expired every row this database session
\* holds: session.public_id raises, and the farewell gets no further than
\* leaving the room.
FarewellFails(c) ==
    /\ pc[c] = "failed"
    /\ pc' = [pc EXCEPT ![c] = "crashed"]
    /\ open' = [open EXCEPT ![c] = FALSE]
    /\ room' = Unregistered(c)
    /\ UNCHANGED <<lock, edit, row, upload>>

-----------------------------------------------------------------------------
(* PUT /files: one upload at a time (a bound).                             *)

UploadDeletes ==
    /\ ~upload.busy
    /\ upload' = [busy |-> TRUE, doomed |-> row]
    /\ UNCHANGED <<tables, sockets, edit, row>>

\* The new rows are inserted and committed; one that an edit has inserted
\* since makes the whole upload fail.
UploadCommits(files) ==
    LET kept == row \ upload.doomed
        fails == files \cap kept # {}
    IN
    /\ upload.busy
    /\ upload' = NoUpload
    /\ row' = IF fails THEN row ELSE kept \cup files
    /\ edit' = IF fails THEN edit ELSE LostRows(edit, upload.doomed)
    /\ UNCHANGED <<tables, sockets>>

\* The deadlock with an edit, when it is the upload that the database fails.
UploadFails ==
    /\ upload.busy /\ \E c \in Conns : pc[c] = "read" /\ Blocked(c)
    /\ upload' = NoUpload
    /\ UNCHANGED <<tables, sockets, edit, row>>

\* Time passes.
LessMutant(n) == n - 1
LessFrozen(n) == n
Less(n) == IF n = 0 THEN 0 ELSE n - 1
Tick ==
    /\ (\E f \in Paths : lock[f].left > 0) \/ (\E c \in Conns : edit[c].left > 0)
    /\ lock' = [f \in Paths |-> [lock[f] EXCEPT !.left = Less(@)]]
    /\ edit' = [c \in Conns |-> [edit[c] EXCEPT !.left = Less(@)]]
    /\ UNCHANGED <<room, sockets, row, upload>>

-----------------------------------------------------------------------------
Commit(c) == CommitEdit(c) \/ (CommitFails(c) /\ ~Blocked(c))
Handler(c) ==
    \/ ReadRow(c) \/ Commit(c)
    \/ Farewell(c) \/ FarewellEnd(c) \/ FarewellFails(c)
Frame(c, f) == Claim(c, f) \/ Refuse(c, f) \/ BeginDelete(c, f)
Upload == UploadFails \/ \E files \in SUBSET Paths : UploadCommits(files)

Next ==
    \/ \E c \in Conns : Connect(c) \/ Drop(c) \/ SendFails(c) \/ Abandon(c)
                        \/ Handler(c) \/ CommitFails(c)
    \/ \E c \in Conns, f \in Paths \cup {None} : Presence(c, f)
    \/ \E c \in Conns, f \in Paths : Frame(c, f)
    \/ UploadDeletes \/ Upload \/ Tick

Spec == Init /\ [][Next]_vars

\* Awaits are answered, uploads end and time passes; nobody has to type.  A
\* commit that waits for a row gets it when the upload lets go, before the next
\* upload does: the database serves its lock queue in order.  That it gets it is not
\* left to the deadlocks the database may find.
FairSpec ==
    /\ Spec
    /\ \A c \in Conns : WF_vars(Handler(c)) /\ SF_vars(Commit(c))
    /\ WF_vars(Upload) /\ WF_vars(Tick)

-----------------------------------------------------------------------------
(* Properties.                                                             *)

\* No person has two coroutines at a time.
OneSocketEach == \A c, d \in Conns : Owner[c] = Owner[d] => c = d

Writing(c) == pc[c] \in {"claimed", "read"} /\ edit[c].kind = "update"

\* Every variable has its type.
TypeOK ==
    /\ lock \in [Paths -> [owner : People \cup {None}, left : 0..Ttl]]
    /\ room \in [People -> Conns \cup {None}]
    /\ pc \in [Conns -> {"idle", "live", "claimed", "read", "failed", "leaving", "crashed"}]
    /\ open \in [Conns -> BOOLEAN]
    /\ edit \in [Conns -> [kind : {"update", "delete"}, path : Paths \cup {None},
                           base : {"unread", "absent", "found", "lost"}, left : 0..Ttl]]
    /\ row \subseteq Paths
    /\ upload \in [busy : BOOLEAN, doomed : SUBSET Paths]

\* An edit on its way to the database is covered by its author's lease for as
\* long as that lease was to run, whoever else connects, moves, deletes or
\* leaves meanwhile: with one socket each, nobody who is in the room can have
\* their file taken from under their edit (_edit, claim_file, forget_locks).
LeaseCoversEdit ==
    \A c \in Conns :
        (Writing(c) /\ edit[c].left > 0 /\ room[Owner[c]] = c)
            => lock[edit[c].path] = [owner |-> Owner[c], left |-> edit[c].left]

\* Nobody holds a file once every coroutine of theirs has said farewell, even
\* one that was replaced or unregistered first; only a farewell that failed can
\* leave an entry behind (_farewell).
NoOrphanLeases ==
    \A f \in Paths : lock[f].owner # None =>
        \E c \in Conns : Owner[c] = lock[f].owner /\ Owing(c)

\* The hub's table keeps the promise of Lease.tla.
Holder == [f \in Paths |-> IF lock[f].left > 0 THEN lock[f].owner ELSE None]
Promise == INSTANCE Lease WITH holder <- Holder
Leases == Promise!Spec

\* An edit that reached the database is settled, one way or the other: row
\* locks held by an upload delay it, and never for good.
EditsSettle == \A c \in Conns : []<>(pc[c] # "read")

\* A person whose sockets are all gone lets every file go, also when their
\* farewell failed: the lease runs out.
Gone(p) == \A c \in Conns : Owner[c] = p => ~open[c]
GoneLetGo ==
    \A p \in People : []<>(~Gone(p) \/ \A f \in Paths : Holder[f] # p)

=============================================================================
