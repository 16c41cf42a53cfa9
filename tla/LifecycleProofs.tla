--------------------------- MODULE LifecycleProofs ---------------------------
(***************************************************************************)
(* Theorems about Lifecycle.tla, for any sockets, actors and countdowns.   *)
(***************************************************************************)
EXTENDS Lifecycle, TLAPS

USE DEF TimerSteps, Statuses

-----------------------------------------------------------------------------
\* Cancelling a countdown leaves it at one of the steps (Task.cancel).
LEMMA CancelKeepsSteps ==
    ASSUME TypeOK
    PROVE  CancelledTask(entry, timer) \in [Timers -> TimerSteps]
BY DEF TypeOK, CancelledTask

(* Every variable keeps its type.                                          *)
THEOREM TypeCorrect == Spec => []TypeOK
<1>1. Init => TypeOK
  <2> SUFFICES ASSUME Init PROVE TypeOK
    OBVIOUS
  <2>1. IdleOp \in [step : {"idle", "committing", "committed", "told"}, new : Statuses]
    BY DEF IdleOp
  <2>2. op \in [Actors -> [step : {"idle", "committing", "committed", "told"},
                           new : Statuses]]
    BY <2>1 DEF Init
  <2> QED
    BY <2>2 DEF Init, TypeOK
<1>2. TypeOK /\ [Next]_vars => TypeOK'
  <2> SUFFICES ASSUME TypeOK, [Next]_vars PROVE TypeOK'
    OBVIOUS
  <2>0. CancelledTask(entry, timer) \in [Timers -> TimerSteps]
    BY CancelKeepsSteps
  <2> USE LifecycleAssumption DEF TypeOK
  <2>1. ASSUME NEW c \in Conns, Resolve(c) PROVE TypeOK'
    BY <2>1 DEF Resolve, LoadedStatus
  <2>2. ASSUME NEW c \in Conns, Register(c) PROVE TypeOK'
    BY <2>0, <2>2 DEF Register, CancelEmptyTimer
  <2>3. ASSUME NEW c \in Conns, Drop(c) PROVE TypeOK'
    BY <2>3 DEF Drop
  <2>4. ASSUME NEW c \in Conns, Edit(c) PROVE TypeOK'
    BY <2>4 DEF Edit, sockets
  <2>5. ASSUME NEW c \in Conns, LeaveRoom(c) PROVE TypeOK'
    BY <2>5 DEF LeaveRoom
  <2>6. ASSUME NEW c \in Conns, FarewellEnd(c) PROVE TypeOK'
    <3>1. CASE room = {} /\ Graced
      BY <2>0, <2>6, <3>1 DEF FarewellEnd, Armed
    <3>2. CASE ~(room = {} /\ Graced)
      BY <2>6, <3>2 DEF FarewellEnd
    <3> QED
      BY <3>1, <3>2
  <2>7. ASSUME NEW a \in Actors, NEW new \in Statuses, BeginStatus(a, new)
        PROVE TypeOK'
    BY <2>7 DEF BeginStatus
  <2>8. ASSUME NEW a \in Actors, NEW new \in Statuses, RepeatStatus(a, new)
        PROVE TypeOK'
    BY <2>8 DEF RepeatStatus, sockets
  <2>9. ASSUME NEW a \in Actors, CommitStatus(a) PROVE TypeOK'
    BY <2>9 DEF CommitStatus, Committed, sockets
  <2>10. ASSUME NEW a \in Actors, AnnounceStatus(a) PROVE TypeOK'
    <3>1. room' \subseteq Conns /\ open' \in [Conns -> BOOLEAN]
      BY <2>10 DEF AnnounceStatus, CloseRoom
    <3>2. op' \in [Actors -> [step : {"idle", "committing", "committed", "told"},
                              new : Statuses]]
      BY <2>10 DEF AnnounceStatus, IdleOp
    <3> QED
      BY <2>10, <3>1, <3>2 DEF AnnounceStatus
  <2>11. ASSUME NEW a \in Actors, ReturnStatus(a) PROVE TypeOK'
    BY <2>11 DEF ReturnStatus, IdleOp, sockets
  <2>12. ASSUME NEW k \in Timers, Wake(k) PROVE TypeOK'
    BY <2>12 DEF Wake, sockets
  <2>13. ASSUME NEW k \in Timers, TimerReads(k) PROVE TypeOK'
    BY <2>13 DEF TimerReads, sockets
  <2>14. ASSUME NEW k \in Timers, TimerCommits(k) PROVE TypeOK'
    BY <2>14 DEF TimerCommits, Committed, sockets
  <2>15. ASSUME NEW k \in Timers, TimerCloses(k) PROVE TypeOK'
    BY <2>15 DEF TimerCloses, CloseRoom
  <2>16. ASSUME NEW k \in Timers, ForgetEmptyTimer(k) PROVE TypeOK'
    BY <2>16 DEF ForgetEmptyTimer, sockets
  <2>17. CASE GrowStale \/ SweepReads \/ SweepCommits
    BY <2>17 DEF GrowStale, SweepReads, SweepCommits, Committed, sockets
  <2>18. CASE Restart
    BY <2>18 DEF Restart, IdleOp
  <2>19. CASE UNCHANGED vars
    BY <2>19 DEF vars, sockets
  <2> QED
    BY <2>1, <2>2, <2>3, <2>4, <2>5, <2>6, <2>7, <2>8, <2>9, <2>10, <2>11, <2>12,
       <2>13, <2>14, <2>15, <2>16, <2>17, <2>18, <2>19
       DEF Next, Socket, StatusCall, Countdown
<1> QED
  BY <1>1, <1>2, PTL DEF Spec

-----------------------------------------------------------------------------
(***************************************************************************)
(* A countdown in the hub's entry is running and the room is empty.        *)
(***************************************************************************)
THEOREM Armed_Means_Empty == Spec => []ArmedMeansEmpty
<1>1. Init => ArmedMeansEmpty
  BY DEF Init, ArmedMeansEmpty
<1>2. TypeOK /\ ArmedMeansEmpty /\ [Next]_vars => ArmedMeansEmpty'
  <2> SUFFICES ASSUME TypeOK, ArmedMeansEmpty, [Next]_vars PROVE ArmedMeansEmpty'
    OBVIOUS
  <2> USE LifecycleAssumption DEF ArmedMeansEmpty
  <2>1. ASSUME UNCHANGED <<entry, timer>>, room' \subseteq room PROVE ArmedMeansEmpty'
    BY <2>1
  <2>2. ASSUME NEW c \in Conns, Register(c) PROVE ArmedMeansEmpty'
    BY <2>2 DEF Register, CancelEmptyTimer
  <2>3. ASSUME NEW c \in Conns, FarewellEnd(c) PROVE ArmedMeansEmpty'
    <3>1. CASE room = {} /\ Graced
      <4>1. PICK k \in Timers : Armed(k)
        BY <2>3, <3>1 DEF FarewellEnd
      <4>2. entry' = k /\ timer'[k] = "sleeping"
        BY <4>1, CancelKeepsSteps DEF Armed
      <4> QED
        BY <2>3, <3>1, <4>2 DEF FarewellEnd
    <3>2. CASE ~(room = {} /\ Graced)
      BY <2>1, <2>3, <3>2 DEF FarewellEnd
    <3> QED
      BY <3>1, <3>2
  <2>4. ASSUME NEW c \in Conns, Resolve(c) \/ Drop(c) \/ Edit(c) \/ LeaveRoom(c)
        PROVE ArmedMeansEmpty'
    BY <2>1, <2>4 DEF Resolve, Drop, Edit, LeaveRoom
  <2>5. ASSUME NEW a \in Actors, NEW new \in Statuses,
               BeginStatus(a, new) \/ RepeatStatus(a, new)
        PROVE ArmedMeansEmpty'
    BY <2>1, <2>5 DEF BeginStatus, RepeatStatus
  <2>6. ASSUME NEW a \in Actors, StatusCall(a) PROVE ArmedMeansEmpty'
    BY <2>1, <2>6 DEF StatusCall, CommitStatus, AnnounceStatus, ReturnStatus, CloseRoom
  <2>7. ASSUME NEW k \in Timers, Wake(k) PROVE ArmedMeansEmpty'
    BY <2>7 DEF Wake, TypeOK
  <2>8. ASSUME NEW k \in Timers, TimerReads(k) \/ TimerCommits(k) \/ TimerCloses(k)
        PROVE ArmedMeansEmpty'
    <3>1. UNCHANGED entry /\ room' \subseteq room
      BY <2>8 DEF TimerReads, TimerCommits, TimerCloses, CloseRoom
    <3>2. \A j \in Timers : timer[j] # "off" => timer'[j] # "off"
      BY <2>8 DEF TimerReads, TimerCommits, TimerCloses, TypeOK
    <3> QED
      BY <3>1, <3>2 DEF TypeOK
  <2>9. ASSUME NEW k \in Timers, ForgetEmptyTimer(k) PROVE ArmedMeansEmpty'
    BY <2>9 DEF ForgetEmptyTimer
  <2>10. CASE GrowStale \/ SweepReads \/ SweepCommits
    BY <2>1, <2>10 DEF GrowStale, SweepReads, SweepCommits
  <2>11. CASE Restart
    BY <2>11 DEF Restart
  <2>12. CASE UNCHANGED vars
    BY <2>1, <2>12 DEF vars
  <2> QED
    BY <2>2, <2>3, <2>4, <2>5, <2>6, <2>7, <2>8, <2>9, <2>10, <2>11, <2>12
       DEF Next, Socket, Countdown
<1> QED
  BY <1>1, <1>2, TypeCorrect, PTL DEF Spec

-----------------------------------------------------------------------------
(***************************************************************************)
(* The last countdown is never lost.  What has to be added: only live      *)
(* coroutines are in the room, so that the farewell that finds the room    *)
(* not empty is not the last.                                              *)
(***************************************************************************)
\* Who is in the room is inside _greet or _pump (register, _farewell).
RoomIsLive == \A c \in room : pc[c] = "live"

\* Only coroutines between their registration and their farewell are in the room.
THEOREM Room_Is_Live == Spec => []RoomIsLive
<1>1. Init => RoomIsLive
  BY DEF Init, RoomIsLive
<1>2. TypeOK /\ RoomIsLive /\ [Next]_vars => RoomIsLive'
  <2> SUFFICES ASSUME TypeOK, RoomIsLive, [Next]_vars PROVE RoomIsLive'
    OBVIOUS
  <2> USE DEF RoomIsLive
  <2>1. ASSUME UNCHANGED pc, room' \subseteq room PROVE RoomIsLive'
    BY <2>1
  <2>2. ASSUME NEW c \in Conns, Resolve(c) \/ Register(c) \/ LeaveRoom(c) \/ FarewellEnd(c)
        PROVE RoomIsLive'
    BY <2>2 DEF Resolve, Register, LeaveRoom, FarewellEnd, TypeOK
  <2>3. ASSUME NEW c \in Conns, Drop(c) \/ Edit(c) PROVE RoomIsLive'
    BY <2>1, <2>3 DEF Drop, Edit, sockets
  <2>4. ASSUME NEW a \in Actors, NEW new \in Statuses,
               BeginStatus(a, new) \/ RepeatStatus(a, new)
        PROVE RoomIsLive'
    BY <2>1, <2>4 DEF BeginStatus, RepeatStatus, sockets
  <2>5. ASSUME NEW a \in Actors, StatusCall(a) PROVE RoomIsLive'
    BY <2>1, <2>5 DEF StatusCall, CommitStatus, AnnounceStatus, ReturnStatus, CloseRoom,
       sockets
  <2>6. ASSUME NEW k \in Timers, Countdown(k) PROVE RoomIsLive'
    BY <2>1, <2>6 DEF Countdown, Wake, TimerReads, TimerCommits, TimerCloses,
       ForgetEmptyTimer, CloseRoom, sockets
  <2>7. CASE GrowStale \/ SweepReads \/ SweepCommits
    BY <2>1, <2>7 DEF GrowStale, SweepReads, SweepCommits, sockets
  <2>8. CASE Restart
    BY <2>8 DEF Restart
  <2>9. CASE UNCHANGED vars
    BY <2>1, <2>9 DEF vars, sockets
  <2> QED
    BY <2>2, <2>3, <2>4, <2>5, <2>6, <2>7, <2>8, <2>9 DEF Next, Socket
<1> QED
  BY <1>1, <1>2, TypeCorrect, PTL DEF Spec

Watching(k) == timer[k] \in {"sleeping", "reading", "committing"}

\* A session people have entered and left is ended or being counted down
\* (_farewell, arm_empty_timer, cancel_empty_timer).
THEOREM Empty_Is_Watched == Spec => []EmptyIsWatched
<1>1. Init => EmptyIsWatched
  BY DEF Init, EmptyIsWatched
<1>2. TypeOK /\ RoomIsLive /\ EmptyIsWatched /\ [Next]_vars => EmptyIsWatched'
  <2> SUFFICES ASSUME TypeOK, RoomIsLive, EmptyIsWatched, [Next]_vars,
                      Graced, db' # "ended", ~unwatched',
                      \A c \in Conns : pc'[c] \in {"idle", "resolved"}
               PROVE  \E k \in Timers : Watching(k)'
    BY DEF EmptyIsWatched, Watching
  <2> USE DEF TypeOK, EmptyIsWatched, Watching
  \* Nobody inside before the step, and nothing about the countdowns changed.
  <2>1. ASSUME UNCHANGED timer, db # "ended" \/ unwatched', ~unwatched,
               \A c \in Conns : pc[c] \in {"idle", "resolved"}
        PROVE  \E k \in Timers : Watching(k)'
    BY <2>1
  <2>2. ASSUME NEW c \in Conns, Resolve(c) PROVE \E k \in Timers : Watching(k)'
    BY <2>1, <2>2 DEF Resolve
  <2>3. ASSUME NEW c \in Conns, Register(c) \/ LeaveRoom(c) PROVE FALSE
    BY <2>3 DEF Register, LeaveRoom
  <2>4. ASSUME NEW c \in Conns, FarewellEnd(c) PROVE \E k \in Timers : Watching(k)'
    <3>1. \A d \in Conns : pc[d] # "live"
      BY <2>4 DEF FarewellEnd
    <3>2. room = {}
      BY <3>1 DEF RoomIsLive
    <3>3. PICK k \in Timers : Armed(k)
      BY <2>4, <3>2 DEF FarewellEnd
    <3>4. timer'[k] = "sleeping"
      BY <3>3, CancelKeepsSteps DEF Armed
    <3> QED
      BY <3>4
  <2>5. ASSUME NEW c \in Conns, Drop(c) \/ Edit(c)
        PROVE  \E k \in Timers : Watching(k)'
    BY <2>1, <2>5 DEF Drop, Edit, sockets
  <2>6. ASSUME NEW a \in Actors, NEW new \in Statuses,
               BeginStatus(a, new) \/ RepeatStatus(a, new)
        PROVE  \E k \in Timers : Watching(k)'
    BY <2>1, <2>6 DEF BeginStatus, RepeatStatus, sockets
  <2>7. ASSUME NEW a \in Actors, CommitStatus(a)
        PROVE  \E k \in Timers : Watching(k)'
    BY <2>1, <2>7 DEF CommitStatus, Committed, sockets
  <2>8. ASSUME NEW a \in Actors, AnnounceStatus(a) \/ ReturnStatus(a)
        PROVE  \E k \in Timers : Watching(k)'
    BY <2>1, <2>8 DEF AnnounceStatus, ReturnStatus, sockets
  <2>9. ASSUME NEW k \in Timers, Countdown(k)
        PROVE  \E j \in Timers : Watching(j)'
    <3>1. \A c \in Conns : pc[c] \in {"idle", "resolved"}
      BY <2>9 DEF Countdown, Wake, TimerReads, TimerCommits, TimerCloses,
         ForgetEmptyTimer, sockets
    <3>2. room = {}
      BY <3>1 DEF RoomIsLive
    <3>3. ~TimerCommits(k)
      BY DEF TimerCommits, Committed
    <3>4. db # "ended" /\ ~unwatched
      BY <2>9, <3>3 DEF Countdown, Wake, TimerReads, TimerCloses, ForgetEmptyTimer
    <3>5. PICK j \in Timers : Watching(j)
      BY <3>1, <3>4
    <3>6. Watching(j)'
      BY <2>9, <3>2, <3>3, <3>4, <3>5 DEF Countdown, Wake, TimerReads, TimerCloses,
         ForgetEmptyTimer
    <3> QED
      BY <3>6
  <2>10. CASE GrowStale \/ SweepReads
    BY <2>1, <2>10 DEF GrowStale, SweepReads, sockets
  <2>11. CASE SweepCommits \/ Restart
    BY <2>11 DEF SweepCommits, Restart, Committed
  <2>12. CASE UNCHANGED vars
    BY <2>1, <2>12 DEF vars, sockets
  <2> QED
    BY <2>2, <2>3, <2>4, <2>5, <2>6, <2>7, <2>8, <2>9, <2>10, <2>11, <2>12
       DEF Next, Socket, StatusCall
<1> QED
  BY <1>1, <1>2, TypeCorrect, Room_Is_Live, PTL DEF Spec

-----------------------------------------------------------------------------
\* While anybody is registered the hub has an entry for the session, so that
\* nobody edits on the strength of a missing one (room_status's default).
RoomHasStatus == room # {} => hub # None

\* The entry comes with the registration and goes with the last farewell
\* (set_room_status, forget_room_status).
THEOREM Room_Has_Status == Spec => []RoomHasStatus
<1>1. Init => RoomHasStatus
  BY DEF Init, RoomHasStatus
<1>2. TypeOK /\ RoomHasStatus /\ [Next]_vars => RoomHasStatus'
  <2> SUFFICES ASSUME TypeOK, RoomHasStatus, [Next]_vars PROVE RoomHasStatus'
    OBVIOUS
  <2> USE LifecycleAssumption DEF TypeOK, RoomHasStatus
  <2>1. ASSUME room' \subseteq room, hub' = hub \/ hub' # None PROVE RoomHasStatus'
    BY <2>1
  <2>2. ASSUME NEW c \in Conns, Socket(c) PROVE RoomHasStatus'
    BY <2>2 DEF Socket, Register, LeaveRoom, FarewellEnd
  <2>3. ASSUME NEW c \in Conns, Resolve(c) \/ Drop(c) \/ Edit(c) PROVE RoomHasStatus'
    BY <2>1, <2>3 DEF Resolve, Drop, Edit
  <2>4. ASSUME NEW a \in Actors, NEW new \in Statuses, BeginStatus(a, new) \/ RepeatStatus(a, new)
        PROVE  RoomHasStatus'
    BY <2>1, <2>4 DEF BeginStatus, RepeatStatus
  <2>5. ASSUME NEW a \in Actors, StatusCall(a) PROVE RoomHasStatus'
    BY <2>1, <2>5 DEF StatusCall, CommitStatus, AnnounceStatus, ReturnStatus, CloseRoom
  <2>6. ASSUME NEW k \in Timers, Countdown(k) PROVE RoomHasStatus'
    BY <2>1, <2>6 DEF Countdown, Wake, TimerReads, TimerCommits, TimerCloses,
       ForgetEmptyTimer, CloseRoom
  <2>7. CASE GrowStale \/ SweepReads \/ SweepCommits
    BY <2>1, <2>7 DEF GrowStale, SweepReads, SweepCommits
  <2>8. CASE Restart
    BY <2>8 DEF Restart
  <2>9. CASE UNCHANGED vars
    BY <2>1, <2>9 DEF vars
  <2> QED
    BY <2>2, <2>3, <2>4, <2>5, <2>6, <2>7, <2>8, <2>9 DEF Next
<1> QED
  BY <1>1, <1>2, TypeCorrect, PTL DEF Spec

-----------------------------------------------------------------------------
(***************************************************************************)
(* What breaks a pause, and nothing else does.  The documents' promise     *)
(* fails (PausedIsEnforced), and the steps below are how: a copy of the    *)
(* status that is no longer the row's is put into the hub, or a step       *)
(* writes the hub while another change of the status is on its way to the  *)
(* row.  In every behaviour without such a step the promise holds.         *)
(***************************************************************************)
Quiet == \A a \in Actors : op[a].step = "idle"

\* set_room_status(session.status) or host_lifecycle's, from an old copy.
WritesOldStatus ==
    \/ \E c \in Conns : Register(c) /\ seen[c] # db
    \/ \E a \in Actors, new \in Statuses : RepeatStatus(a, new) /\ new # db

\* The hub is written between another set_status's hub and its return.
WritesMeanwhile ==
    \/ \E c \in Conns : Register(c) /\ ~Quiet
    \/ \E a \in Actors, new \in Statuses :
          (BeginStatus(a, new) \/ RepeatStatus(a, new)) /\ ~Quiet

\* One change at a time; when none is under way the hub may lag behind the
\* row, but it does not say "active" of a paused one; while one is, the hub
\* says "active" only if that is what the row is going to say, or says.
OneChange ==
    \A a, b \in Actors : op[a].step # "idle" /\ op[b].step # "idle" => a = b
HubIsNotAhead ==
    /\ Quiet /\ hub = "active" => db # "paused"
    /\ \A a \in Actors :
          /\ op[a].step = "committing" /\ op[a].new = "paused" => hub # "active"
          /\ op[a].step \in {"committed", "told"} =>
                (op[a].new = "active" \/ hub = "active" => db # "paused")


\* A step that leaves the calls alone and can only end the session, or the
\* hub's entry, does not disturb the bookkeeping.
LEMMA HubIsLeftAlone ==
    ASSUME OneChange, HubIsNotAhead, UNCHANGED op,
           db' \in {db, "ended"}, hub' \in {hub, None, "ended"}
    PROVE  OneChange' /\ HubIsNotAhead'
BY LifecycleAssumption DEF OneChange, HubIsNotAhead, Quiet

\* Unless an old status is written, or one while another is under way, a
\* pause holds: once set_status has returned, the hub of the paused session
\* does not let edits through (the README: "Nothing propagates or is stored
\* while paused").
THEOREM Pause_Holds ==
    Spec /\ [][~WritesOldStatus /\ ~WritesMeanwhile]_vars => []PausedIsEnforced
<1> DEFINE Inv == OneChange /\ HubIsNotAhead
<1>1. Init => Inv
  BY LifecycleAssumption DEF Init, IdleOp, OneChange, HubIsNotAhead
<1>2. TypeOK /\ Inv /\ [Next]_vars /\ [~WritesOldStatus /\ ~WritesMeanwhile]_vars => Inv'
  <2> SUFFICES ASSUME TypeOK, Inv, [Next]_vars,
                      [~WritesOldStatus /\ ~WritesMeanwhile]_vars
               PROVE  Inv'
    OBVIOUS
  <2>1. ASSUME UNCHANGED op, db' \in {db, "ended"}, hub' \in {hub, None, "ended"}
        PROVE  Inv'
    BY <2>1, HubIsLeftAlone
  <2> USE DEF TypeOK
  <2>2. ASSUME NEW c \in Conns, Register(c) PROVE Inv'
    <3>1. CASE UNCHANGED vars
      BY <2>1, <3>1 DEF vars
    <3>2. CASE seen[c] = db /\ Quiet
      <4>1. hub' = db /\ UNCHANGED <<db, op>>
        BY <2>2, <3>2 DEF Register
      <4> QED
        BY <3>2, <4>1 DEF OneChange, HubIsNotAhead, Quiet
    <3> QED
      BY <2>2, <3>1, <3>2 DEF WritesOldStatus, WritesMeanwhile
  <2>3. ASSUME NEW a \in Actors, NEW new \in Statuses, BeginStatus(a, new) PROVE Inv'
    <3>1. Quiet
      <4>1. op' # op
        BY <2>3 DEF BeginStatus
      <4> QED
        BY <2>3, <4>1 DEF WritesMeanwhile, vars
    <3>2. op' = [op EXCEPT ![a] = [step |-> "committing", new |-> new]] /\ hub' = new
      BY <2>3 DEF BeginStatus
    <3>3. op'[a] = [step |-> "committing", new |-> new]
          /\ \A b \in Actors \ {a} : op'[b].step = "idle"
      BY <3>1, <3>2 DEF Quiet
    <3> QED
      BY <3>2, <3>3 DEF OneChange, HubIsNotAhead, Quiet
  <2>4. ASSUME NEW a \in Actors, NEW new \in Statuses, RepeatStatus(a, new) PROVE Inv'
    <3>1. CASE UNCHANGED vars
      BY <2>1, <3>1 DEF vars
    <3>2. CASE new = db /\ Quiet
      <4>1. hub' = db /\ UNCHANGED <<db, op>>
        BY <2>4, <3>2 DEF RepeatStatus
      <4> QED
        BY <3>2, <4>1 DEF OneChange, HubIsNotAhead, Quiet
    <3> QED
      BY <2>4, <3>1, <3>2 DEF WritesOldStatus, WritesMeanwhile
  <2>5. ASSUME NEW a \in Actors, StatusCall(a) PROVE Inv'
    <3>1. op[a].step # "idle"
      BY <2>5 DEF StatusCall, CommitStatus, AnnounceStatus, ReturnStatus
    <3>2. \A b \in Actors \ {a} : op[b].step = "idle"
      BY <3>1 DEF OneChange
    <3>3. \A b \in Actors \ {a} : op'[b].step = "idle"
      BY <2>5, <3>2 DEF StatusCall, CommitStatus, AnnounceStatus, ReturnStatus
    <3>4. CASE CommitStatus(a)
      <4>1. op'[a] = [op[a] EXCEPT !.step = "committed"]
            /\ db' = op[a].new /\ hub' = hub /\ op[a].step = "committing"
        BY <3>4 DEF CommitStatus, Committed
      <4>2. op'[a].step = "committed" /\ op'[a].new = op[a].new
        BY <4>1
      <4> QED
        BY <3>3, <4>1, <4>2 DEF OneChange, HubIsNotAhead, Quiet
    <3>5. CASE AnnounceStatus(a)
      <4>1. UNCHANGED <<db, hub>> /\ op[a].step = "committed"
            /\ (\/ op'[a] = [op[a] EXCEPT !.step = "told"]
                \/ op'[a] = IdleOp)
        BY <3>5 DEF AnnounceStatus
      <4>2. op'[a].step \in {"told", "idle"}
            /\ (op'[a].step = "told" => op'[a].new = op[a].new)
        BY <4>1 DEF IdleOp
      <4> QED
        BY <3>3, <4>1, <4>2 DEF OneChange, HubIsNotAhead, Quiet
    <3>6. CASE ReturnStatus(a)
      <4>1. db' = db /\ hub' = op[a].new /\ op[a].step = "told" /\ op'[a].step = "idle"
        BY <3>6 DEF ReturnStatus, IdleOp
      <4> QED
        BY <3>3, <4>1 DEF OneChange, HubIsNotAhead, Quiet
    <3> QED
      BY <2>5, <3>4, <3>5, <3>6 DEF StatusCall
  <2>6. ASSUME NEW c \in Conns,
               Resolve(c) \/ Drop(c) \/ Edit(c) \/ LeaveRoom(c) \/ FarewellEnd(c)
        PROVE  Inv'
    BY <2>1, <2>6 DEF Resolve, Drop, Edit, LeaveRoom, FarewellEnd
  <2>7. ASSUME NEW k \in Timers, Countdown(k) PROVE Inv'
    BY <2>1, <2>7 DEF Countdown, Wake, TimerReads, TimerCommits, TimerCloses,
       ForgetEmptyTimer, Committed
  <2>8. CASE GrowStale \/ SweepReads \/ SweepCommits
    BY <2>1, <2>8 DEF GrowStale, SweepReads, SweepCommits, Committed
  <2>9. CASE Restart
    <3>1. hub' = None /\ \A a \in Actors : op'[a].step = "idle"
      BY <2>9 DEF Restart, IdleOp
    <3> QED
      BY <3>1, LifecycleAssumption DEF OneChange, HubIsNotAhead, Quiet
  <2>10. CASE UNCHANGED vars
    BY <2>1, <2>10 DEF vars
  <2> QED
    BY <2>2, <2>3, <2>4, <2>5, <2>6, <2>7, <2>8, <2>9, <2>10 DEF Next, Socket
<1>3. RoomHasStatus /\ Inv => PausedIsEnforced
  BY DEF RoomHasStatus, HubIsNotAhead, PausedIsEnforced, Settled, Quiet, Accepting
<1> QED
  BY <1>1, <1>2, <1>3, TypeCorrect, Room_Has_Status, PTL DEF Spec

-----------------------------------------------------------------------------
(***************************************************************************)
(* Who can be left inside a session that has ended.  The sweep ends an     *)
(* idle session without closing its room, and a socket that was resolved   *)
(* before the end may register after it; in every behaviour without those  *)
(* two, whoever is in the room of an ended session is about to be closed.  *)
(***************************************************************************)
Closing == Ending \/ \E k \in Timers : timer[k] = "committed"
EndedIsEmpty == db = "ended" => room = {} \/ Closing

EndedUnseen == SweepCommits \/ \E c \in Conns : Register(c) /\ db = "ended"

\* Every other end is followed by its close_room before anybody can be left
\* behind (set_status, _end_if_still_empty, close_orphaned_sessions).
THEOREM Ended_Is_Empty == Spec /\ [][~EndedUnseen]_vars => []EndedIsEmpty
<1>1. Init => EndedIsEmpty
  BY DEF Init, EndedIsEmpty
<1>2. TypeOK /\ EndedIsEmpty /\ [Next]_vars /\ [~EndedUnseen]_vars
        => EndedIsEmpty'
  <2> SUFFICES ASSUME TypeOK, EndedIsEmpty, [Next]_vars,
                      [~EndedUnseen]_vars, db' = "ended", room' # {}
               PROVE  Closing'
    BY DEF EndedIsEmpty
  <2> USE DEF TypeOK, EndedIsEmpty, Closing, Ending
  <2>1. ASSUME db = "ended", room # {}, UNCHANGED <<op, timer>> PROVE Closing'
    BY <2>1
  <2>2. ASSUME NEW c \in Conns, Register(c) PROVE Closing'
    BY <2>1, <2>2 DEF Register, EndedUnseen, vars
  <2>3. ASSUME NEW c \in Conns, Resolve(c) \/ Drop(c) \/ Edit(c) \/ LeaveRoom(c)
        PROVE  Closing'
    BY <2>1, <2>3 DEF Resolve, Drop, Edit, LeaveRoom
  <2>4. ASSUME NEW c \in Conns, FarewellEnd(c) PROVE Closing'
    BY <2>1, <2>4 DEF FarewellEnd
  <2>5. ASSUME NEW a \in Actors, NEW new \in Statuses,
               BeginStatus(a, new) \/ RepeatStatus(a, new)
        PROVE  Closing'
    <3>1. UNCHANGED <<db, room, timer>>
      BY <2>5 DEF BeginStatus, RepeatStatus
    <3>2. \A b \in Actors : op[b].step = "committed" => op'[b] = op[b]
      BY <2>5 DEF BeginStatus, RepeatStatus
    <3> QED
      BY <3>1, <3>2
  <2>6. ASSUME NEW a \in Actors, CommitStatus(a) PROVE Closing'
    <3>1. op'[a].step = "committed" /\ op'[a].new = "ended"
      BY <2>6 DEF CommitStatus, Committed
    <3> QED
      BY <3>1
  <2>7. ASSUME NEW a \in Actors, AnnounceStatus(a) \/ ReturnStatus(a) PROVE Closing'
    <3>1. UNCHANGED <<db, timer>> /\ room # {}
      BY <2>7 DEF AnnounceStatus, ReturnStatus, CloseRoom
    <3>2. op[a].step = "committed" => op[a].new # "ended"
      BY <2>7 DEF AnnounceStatus, ReturnStatus, CloseRoom
    <3>3. \A b \in Actors \ {a} : op'[b] = op[b]
      BY <2>7 DEF AnnounceStatus, ReturnStatus
    <3> QED
      BY <3>1, <3>2, <3>3
  <2>8. ASSUME NEW k \in Timers, TimerCommits(k) PROVE Closing'
    BY <2>8 DEF TimerCommits
  <2>9. ASSUME NEW k \in Timers, Wake(k) \/ TimerReads(k) \/ ForgetEmptyTimer(k)
        PROVE  Closing'
    <3>1. UNCHANGED <<db, room, op>>
      BY <2>9 DEF Wake, TimerReads, ForgetEmptyTimer
    <3>2. \A j \in Timers : timer[j] = "committed" => timer'[j] = "committed"
      BY <2>9 DEF Wake, TimerReads, ForgetEmptyTimer
    <3> QED
      BY <3>1, <3>2
  <2>10. ASSUME NEW k \in Timers, TimerCloses(k) PROVE FALSE
    BY <2>10 DEF TimerCloses, CloseRoom
  <2>11. CASE GrowStale \/ SweepReads
    BY <2>1, <2>11 DEF GrowStale, SweepReads
  <2>12. CASE SweepCommits
    BY <2>1, <2>12 DEF SweepCommits, EndedUnseen, vars
  <2>13. CASE Restart
    BY <2>13 DEF Restart
  <2>14. CASE UNCHANGED vars
    BY <2>1, <2>14 DEF vars
  <2> QED
    BY <2>2, <2>3, <2>4, <2>5, <2>6, <2>7, <2>8, <2>9, <2>10, <2>11, <2>12, <2>13,
       <2>14
       DEF Next, Socket, StatusCall, Countdown
<1> QED
  BY <1>1, <1>2, TypeCorrect, PTL DEF Spec
=============================================================================
