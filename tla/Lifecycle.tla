------------------------------ MODULE Lifecycle ------------------------------
(***************************************************************************)
(* The life of one session: active, paused, ended.                         *)
(*                                                                         *)
(* The status is kept three times: in the database row (db), in the hub's  *)
(* hot-path cache that every edit consults (hub), and in the copy of the   *)
(* row that each socket's coroutine loaded when its token was resolved     *)
(* (seen).  Five parties change it: the host's socket, the REST endpoints, *)
(* the dashboard, the countdown that the last farewell arms, and the       *)
(* hourly sweep.  set_status changes the hub before it awaits and the row  *)
(* when it commits.                                                        *)
(*                                                                         *)
(* Every socket here belongs to a different person: replacement and        *)
(* admission are Membership.tla's.  A row that is read and used without    *)
(* another await in between is one action, except when a socket connects:  *)
(* Hub.register may first have to close the person's previous connection.  *)
(***************************************************************************)

CONSTANTS
    Conns,      \* people's sockets; a closed one may be opened again
    HostConns,  \* those whose connection is the host's
    Desks,      \* requests outside the sockets: "rest", "admin"
    Timers,     \* countdown tasks that may exist at one time (a bound)
    Graced,     \* empty_session_grace_seconds > 0: empty rooms are counted down
    None        \* no hub entry, no countdown

ASSUME LifecycleAssumption ==
    /\ HostConns \subseteq Conns
    /\ Desks \subseteq {"rest", "admin"} /\ Desks \cap Conns = {}
    /\ Graced \in BOOLEAN
    /\ None \notin Timers \cup {"active", "paused", "ended"}

Statuses == {"active", "paused", "ended"}
Actors == HostConns \cup Desks

VARIABLES
    db,        \* CollabSession.status
    stale,     \* last_activity_at is older than the idle timeout
    hub,       \* Hub._status
    room,      \* Hub._rooms: the sockets registered
    pc, open,  \* each socket's coroutine, and whether the socket is up
    seen,      \* session.status as each coroutine has it
    op,        \* set_status calls in flight, one per actor
    entry,     \* Hub._empty_timers
    timer,     \* the countdown tasks
    sweep,     \* the sweeper: idle, or holding an uncommitted "ended"
    unwatched  \* history: restarted, revived or never entered since

sockets == <<pc, open, seen>>
vars == <<db, stale, hub, room, sockets, op, entry, timer, sweep, unwatched>>

-----------------------------------------------------------------------------
IdleOp == [step |-> "idle", new |-> "active"]

\* create_session has committed; nobody has connected yet.
Init ==
    /\ db = "active" /\ stale = FALSE
    /\ hub = None /\ room = {}
    /\ pc = [c \in Conns |-> "idle"]
    /\ open = [c \in Conns |-> FALSE]
    /\ seen = [c \in Conns |-> "active"]
    /\ op = [a \in Actors |-> IdleOp]
    /\ entry = None /\ timer = [k \in Timers |-> "off"]
    /\ sweep = "idle"
    /\ unwatched = TRUE

\* Task.cancel: a countdown still asleep just ends; one that is already
\* ending the session meets CancelledError at its next await.
CancelledTask(k, tm) ==
    IF k = None THEN tm
    ELSE [tm EXCEPT ![k] =
            CASE @ = "sleeping" -> "off"
              [] @ \in {"reading", "committing", "committed"} -> "closing"
              [] @ \in {"off", "closing"} -> @]

\* A commit moves the row.  A row that stops being ended has no countdown.
Committed(new) ==
    /\ db' = new
    /\ unwatched' = (unwatched \/ (db = "ended" /\ new # "ended"))

-----------------------------------------------------------------------------
(* Sockets.                                                                *)

\* The status a coroutine starts from is the row's.
LoadedStatusMutant == hub
LoadedStatus == db

\* resolve_session_token refuses an ended session, else keeps the row.
Resolve(c) ==
    /\ pc[c] = "idle" /\ db # "ended"
    /\ pc' = [pc EXCEPT ![c] = "resolved"]
    /\ open' = [open EXCEPT ![c] = TRUE]
    /\ seen' = [seen EXCEPT ![c] = LoadedStatus]
    /\ UNCHANGED <<db, stale, hub, room, op, entry, timer, sweep, unwatched>>

\* Hub.cancel_empty_timer.
CancelEmptyTimerMutant == UNCHANGED <<entry, timer>>
CancelEmptyTimer == entry' = None /\ timer' = CancelledTask(entry, timer)

\* register, set_room_status, cancel_empty_timer: one step of the loop.  Only
\* the host's handler consults its copy of the status again.
Register(c) ==
    /\ pc[c] = "resolved"
    /\ pc' = [pc EXCEPT ![c] = "live"]
    /\ room' = room \cup {c}
    /\ hub' = seen[c]
    /\ CancelEmptyTimer
    /\ unwatched' = FALSE
    /\ seen' = [seen EXCEPT ![c] = IF c \in HostConns THEN @ ELSE "active"]
    /\ UNCHANGED <<db, stale, open, op, sweep>>

\* The client goes away.
Drop(c) ==
    /\ open[c]
    /\ open' = [open EXCEPT ![c] = FALSE]
    /\ UNCHANGED <<db, stale, hub, room, pc, seen, op, entry, timer, sweep, unwatched>>

\* Hub.room_status is "active" when there is no entry.
Accepting == hub \in {"active", None}

\* An edit of a live socket is stored, which touches the session.
Edit(c) ==
    /\ pc[c] = "live" /\ open[c]
    /\ Accepting
    /\ stale' = FALSE
    /\ UNCHANGED <<db, hub, room, sockets, op, entry, timer, sweep, unwatched>>

\* A coroutine handles one frame at a time: no farewell inside a command.
Busy(c) == c \in HostConns /\ op[c].step # "idle"

\* _farewell: leave the room, then release, commit and tell the others.
LeaveRoom(c) ==
    /\ pc[c] = "live" /\ ~open[c] /\ ~Busy(c)
    /\ pc' = [pc EXCEPT ![c] = "leaving"]
    /\ room' = room \ {c}
    /\ seen' = [seen EXCEPT ![c] = "active"]
    /\ UNCHANGED <<db, stale, hub, open, op, entry, timer, sweep, unwatched>>

\* _start_empty_countdown: arm_empty_timer cancels the countdown it replaces,
\* whose place may be taken at once if it only slept.
ArmedMutant(k) == UNCHANGED <<entry, timer>>
Armed(k) ==
    /\ CancelledTask(entry, timer)[k] = "off"
    /\ entry' = k
    /\ timer' = [CancelledTask(entry, timer) EXCEPT ![k] = "sleeping"]

\* The end of _farewell: the last one out forgets the room and arms the
\* countdown, if empty rooms are given one.
FarewellEnd(c) ==
    /\ pc[c] = "leaving"
    /\ pc' = [pc EXCEPT ![c] = "idle"]
    /\ hub' = IF room = {} THEN None ELSE hub
    /\ IF room = {} /\ Graced
       THEN \E k \in Timers : Armed(k)
       ELSE UNCHANGED <<entry, timer>>
    /\ UNCHANGED <<db, stale, room, open, seen, op, sweep, unwatched>>

-----------------------------------------------------------------------------
(* set_status, from a host's socket, over REST or from the dashboard.      *)

\* The status the caller's own copy of the row shows: a request has just
\* loaded it, a socket loaded it when it connected.
Known(a) == IF a \in Conns THEN seen[a] ELSE db

\* REST resolves the host's token first, which an ended session refuses; the
\* host's socket must be up; the dashboard asks nothing.
May(a) ==
    /\ a \in Conns => pc[a] = "live" /\ open[a]
    /\ a = "rest" => db # "ended"

\* set_status up to its first await.
BeginStatus(a, new) ==
    /\ op[a].step = "idle" /\ May(a) /\ Known(a) # new
    /\ op' = [op EXCEPT ![a] = [step |-> "committing", new |-> new]]
    /\ hub' = new
    /\ seen' = IF a \in Conns THEN [seen EXCEPT ![a] = new] ELSE seen
    /\ UNCHANGED <<db, stale, room, pc, open, entry, timer, sweep, unwatched>>

\* set_status returns at once when the copy already says so; the socket's
\* handler sets the hub all the same.
RepeatStatus(a, new) ==
    /\ a \in HostConns
    /\ op[a].step = "idle" /\ May(a) /\ Known(a) = new
    /\ hub' = new
    /\ UNCHANGED <<db, stale, room, sockets, op, entry, timer, sweep, unwatched>>

CommitStatus(a) ==
    /\ op[a].step = "committing"
    /\ Committed(op[a].new)
    /\ stale' = FALSE
    /\ op' = [op EXCEPT ![a].step = "committed"]
    /\ UNCHANGED <<hub, room, sockets, entry, timer, sweep>>

\* Hub.close_room.
CloseRoomMutant == room' = {} /\ UNCHANGED open
CloseRoom == room' = {} /\ open' = [c \in Conns |-> open[c] /\ c \notin room]

\* After the commit: everybody is told, or the ended session's room closed.
AnnounceStatus(a) ==
    /\ op[a].step = "committed"
    /\ IF op[a].new = "ended" THEN CloseRoom ELSE UNCHANGED <<room, open>>
    /\ op' = [op EXCEPT ![a] = IF a \in Conns THEN [@ EXCEPT !.step = "told"] ELSE IdleOp]
    /\ UNCHANGED <<db, stale, hub, pc, seen, entry, timer, sweep, unwatched>>

\* The socket's handler sets the hub once more when set_status returns.
ReturnStatus(a) ==
    /\ op[a].step = "told"
    /\ hub' = op[a].new
    /\ op' = [op EXCEPT ![a] = IdleOp]
    /\ UNCHANGED <<db, stale, room, sockets, entry, timer, sweep, unwatched>>

-----------------------------------------------------------------------------
(* The countdown: _end_if_still_empty.                                     *)

\* The grace period is over: give up if anybody is there.
Wake(k) ==
    /\ timer[k] = "sleeping"
    /\ timer' = [timer EXCEPT ![k] = IF room = {} THEN "reading" ELSE "off"]
    /\ UNCHANGED <<db, stale, hub, room, sockets, op, entry, sweep, unwatched>>

\* The row is loaded: nothing to do if it is ended, else set_status begins.
TimerReads(k) ==
    /\ timer[k] = "reading"
    /\ timer' = [timer EXCEPT ![k] = IF db = "ended" THEN "closing" ELSE "committing"]
    /\ hub' = IF db = "ended" THEN hub ELSE "ended"
    /\ UNCHANGED <<db, stale, room, sockets, op, entry, sweep, unwatched>>

TimerCommits(k) ==
    /\ timer[k] = "committing"
    /\ timer' = [timer EXCEPT ![k] = "committed"]
    /\ Committed("ended")
    /\ stale' = FALSE
    /\ UNCHANGED <<hub, room, sockets, op, entry, sweep>>

TimerCloses(k) ==
    /\ timer[k] = "committed"
    /\ timer' = [timer EXCEPT ![k] = "closing"]
    /\ CloseRoom
    /\ UNCHANGED <<db, stale, hub, pc, seen, op, entry, sweep, unwatched>>

\* finally: forget_empty_timer, whichever countdown the entry holds by now.
ForgetEmptyTimer(k) ==
    /\ timer[k] = "closing"
    /\ timer' = [timer EXCEPT ![k] = "off"]
    /\ entry' = None
    /\ UNCHANGED <<db, stale, hub, room, sockets, op, sweep, unwatched>>

Countdown(k) ==
    \/ Wake(k) \/ TimerReads(k) \/ TimerCommits(k) \/ TimerCloses(k)
    \/ ForgetEmptyTimer(k)

-----------------------------------------------------------------------------
(* Time, the sweep and restarts.                                           *)

GrowStale ==
    /\ ~stale /\ stale' = TRUE
    /\ UNCHANGED <<db, hub, room, sockets, op, entry, timer, sweep, unwatched>>

\* end_idle_sessions selects what has not ended and was not touched in time.
IdleMutant == db = "active" /\ stale
Idle == db # "ended" /\ stale

SweepReads ==
    /\ sweep = "idle" /\ Idle
    /\ sweep' = "ending"
    /\ hub' = "ended"
    /\ UNCHANGED <<db, stale, room, sockets, op, entry, timer, unwatched>>

SweepCommits ==
    /\ sweep = "ending"
    /\ sweep' = "idle"
    /\ Committed("ended")
    /\ UNCHANGED <<stale, hub, room, sockets, op, entry, timer>>

\* The process restarts: memory is gone; close_orphaned_sessions ends what
\* is idle.
Restart ==
    /\ db' = IF Idle THEN "ended" ELSE db
    /\ hub' = None /\ room' = {}
    /\ pc' = [c \in Conns |-> "idle"]
    /\ open' = [c \in Conns |-> FALSE]
    /\ seen' = [c \in Conns |-> "active"]
    /\ op' = [a \in Actors |-> IdleOp]
    /\ entry' = None /\ timer' = [k \in Timers |-> "off"]
    /\ sweep' = "idle"
    /\ unwatched' = TRUE
    /\ UNCHANGED stale

-----------------------------------------------------------------------------
Socket(c) == Register(c) \/ LeaveRoom(c) \/ FarewellEnd(c)
StatusCall(a) == CommitStatus(a) \/ AnnounceStatus(a) \/ ReturnStatus(a)

Next ==
    \/ \E c \in Conns : Resolve(c) \/ Drop(c) \/ Edit(c) \/ Socket(c)
    \/ \E a \in Actors, new \in Statuses : BeginStatus(a, new) \/ RepeatStatus(a, new)
    \/ \E a \in Actors : StatusCall(a)
    \/ \E k \in Timers : Countdown(k)
    \/ GrowStale \/ SweepReads \/ SweepCommits \/ Restart

Spec == Init /\ [][Next]_vars

\* Coroutines whose await is answered are resumed, sleeps end, time passes,
\* the sweep comes round.  Nothing obliges clients, hosts or crashes.
FairSpec ==
    /\ Spec
    /\ \A c \in Conns : WF_vars(Socket(c))
    /\ \A a \in Actors : WF_vars(StatusCall(a))
    /\ \A k \in Timers : WF_vars(Countdown(k))
    /\ WF_vars(GrowStale) /\ WF_vars(SweepReads) /\ WF_vars(SweepCommits)

-----------------------------------------------------------------------------
(* Properties.                                                             *)

TimerSteps == {"off", "sleeping", "reading", "committing", "committed", "closing"}

\* Every variable has its type.
TypeOK ==
    /\ db \in Statuses /\ stale \in BOOLEAN
    /\ hub \in Statuses \cup {None} /\ room \subseteq Conns
    /\ pc \in [Conns -> {"idle", "resolved", "live", "leaving"}]
    /\ open \in [Conns -> BOOLEAN] /\ seen \in [Conns -> Statuses]
    /\ op \in [Actors -> [step : {"idle", "committing", "committed", "told"}, new : Statuses]]
    /\ entry \in Timers \cup {None} /\ timer \in [Timers -> TimerSteps]
    /\ sweep \in {"idle", "ending"} /\ unwatched \in BOOLEAN

\* A countdown the hub holds is running, and the room is empty: nobody can
\* be inside a session whose end is being counted down (hub.py
\* cancel_empty_timer: "the room is not empty after all").
ArmedMeansEmpty ==
    entry # None => timer[entry] # "off" /\ room = {}

\* A session that people have entered and left, and that has not ended, is
\* being counted down, where there is a grace period at all: no interleaving of connections, farewells and
\* cancellations loses the last countdown (_farewell, arm_empty_timer).
EmptyIsWatched ==
    (/\ Graced /\ db # "ended" /\ ~unwatched
     /\ \A c \in Conns : pc[c] \in {"idle", "resolved"})
        => \E k \in Timers : timer[k] \in {"sleeping", "reading", "committing"}

\* A session nobody is in, left alone, ends: by its countdown, or by the
\* sweep when a restart or a revival left it without one (config.py
\* empty_session_grace_seconds, sweep_once).
LeftAlone == room = {} /\ \A a \in Actors : op[a].step = "idle"
EmptySessionEnds == []<>(db = "ended" \/ ~LeftAlone)

\* An end by a host or an administrator reaches every socket of the room:
\* each is closed and says farewell (set_status, Hub.close_room).
Ending == \E a \in Actors : op[a].step = "committed" /\ op[a].new = "ended"
EndReachesEveryone ==
    \A c \in Conns : (Ending /\ c \in room) ~> (pc[c] # "live")

-----------------------------------------------------------------------------
(* What the docs promise and these interleavings refute.                   *)

\* "Nothing propagates or is stored while paused": with no status change in
\* flight, the hub of a paused session refuses edits.
Settled == sweep = "idle" /\ \A a \in Actors : op[a].step = "idle"
PausedIsEnforced == (db = "paused" /\ room # {} /\ Settled) => ~Accepting
=============================================================================
