-------------------------- MODULE MembershipProofs --------------------------
(***************************************************************************)
(* Theorems about Membership.tla, for any guests, sockets and number of    *)
(* host commands in flight.                                                *)
(***************************************************************************)
EXTENDS Membership, TLAPS

USE DEF People, States, Kinds, Pcs

-----------------------------------------------------------------------------
(* Every variable keeps its type.                                          *)
THEOREM TypeCorrect == Spec => []TypeOK
<1>1. Init => TypeOK
  BY MembershipAssumption DEF Init, TypeOK, TaskType, IdleTask
<1>2. TypeOK /\ [Next]_vars => TypeOK'
  <2> SUFFICES ASSUME TypeOK, [Next]_vars PROVE TypeOK'
    OBVIOUS
  <2> USE MembershipAssumption DEF TypeOK
  <2>1. ASSUME NEW g \in Guests, Join(g) PROVE TypeOK'
    BY <2>1 DEF Join, socketVars, cacheVars
  <2>2. ASSUME NEW c \in Conns, Resolve(c) PROVE TypeOK'
    BY <2>2 DEF Resolve, MayReceive, rowVars
  <2>3. ASSUME NEW c \in Conns, Register(c) PROVE TypeOK'
    BY <2>3 DEF Register, Registered, rowVars, cacheVars
  <2>4. ASSUME NEW c \in Conns, MarkConnected(c) PROVE TypeOK'
    BY <2>4 DEF MarkConnected, Flush
  <2>5. ASSUME NEW c \in Conns, RefreshRead(c) PROVE TypeOK'
    BY <2>5 DEF RefreshRead, rowVars
  <2>6. ASSUME NEW c \in Conns, Greet(c) \/ ShowsProject(c) PROVE TypeOK'
    BY <2>6 DEF Greet, ShowsProject, MayReceive, rowVars, cacheVars
  <2>7. ASSUME NEW c \in Conns, Drop(c) PROVE TypeOK'
    BY <2>7 DEF Drop, rowVars, cacheVars
  <2>8. ASSUME NEW c \in Conns, SendFails(c) PROVE TypeOK'
    BY <2>8 DEF SendFails, Unregistered, rowVars, socketVars, cacheVars
  <2>9. ASSUME NEW c \in Conns, FarewellRelease(c) PROVE TypeOK'
    BY <2>9 DEF FarewellRelease, Unregistered, rowVars, cacheVars
  <2>10. ASSUME NEW c \in Conns, FarewellCommit(c) PROVE TypeOK'
    BY <2>10 DEF FarewellCommit, Flush, PartingState
  <2>11. ASSUME NEW t \in Tasks, NEW kind \in Kinds, NEW p \in People,
                BeginCommand(t, kind, p)
         PROVE TypeOK'
    BY <2>11 DEF BeginCommand, TaskType, rowVars, socketVars, cacheVars
  <2>12. ASSUME NEW t \in Tasks, CommitCommand(t) PROVE TypeOK'
    <3>1. task[t] \in TaskType
      OBVIOUS
    <3>2. AssignedState(task[t].kind) \in States
      BY <3>1 DEF AssignedState, TaskType
    <3>3. state' \in [People -> States] /\ connected' \in [People -> BOOLEAN]
      BY <2>12, <3>1, <3>2 DEF CommitCommand, Flush, TaskType
    <3>4. task' \in [Tasks -> TaskType] /\ admitted' \subseteq People
      BY <2>12, <3>1 DEF CommitCommand, IdleTask, TaskType
    <3> QED
      BY <2>12, <3>3, <3>4 DEF CommitCommand, socketVars, cacheVars
  <2>13. ASSUME NEW t \in Tasks, ApplyApproval(t) PROVE TypeOK'
    BY <2>13 DEF ApplyApproval, IdleTask, TaskType, rowVars, socketVars, cacheVars
  <2>14. ASSUME NEW t \in Tasks, Disconnect(t) PROVE TypeOK'
    BY <2>14 DEF Disconnect, Disconnected, IdleTask, TaskType, rowVars, cacheVars
  <2>15. CASE UNCHANGED vars
    BY <2>15 DEF vars, rowVars, socketVars, cacheVars
  <2> QED
    BY <2>1, <2>2, <2>3, <2>4, <2>5, <2>6, <2>7, <2>8, <2>9, <2>10, <2>11, <2>12,
       <2>13, <2>14, <2>15 DEF Next, Handler, Command
<1> QED
  BY <1>1, <1>2, PTL DEF Spec

-----------------------------------------------------------------------------
(***************************************************************************)
(* The hub and the sockets agree: an open socket is the registered one,    *)
(* and the room holds no entry of a coroutine that has said farewell.  The *)
(* invariant is inductive, given the types.                                *)
(***************************************************************************)
THEOREM HubMatches == Spec => []HubMatchesSockets
<1>1. Init => HubMatchesSockets
  BY DEF Init, HubMatchesSockets, Attached
<1>2. TypeOK /\ HubMatchesSockets /\ [Next]_vars => HubMatchesSockets'
  <2> SUFFICES ASSUME TypeOK, HubMatchesSockets, [Next]_vars PROVE HubMatchesSockets'
    OBVIOUS
  <2> USE MembershipAssumption DEF TypeOK, HubMatchesSockets, Attached
  <2>1. ASSUME NEW c \in Conns, Resolve(c) PROVE HubMatchesSockets'
    BY <2>1 DEF Resolve
  <2>2. ASSUME NEW c \in Conns, Register(c) PROVE HubMatchesSockets'
    BY <2>2 DEF Register, Registered
  <2>3. ASSUME NEW c \in Conns,
               MarkConnected(c) \/ RefreshRead(c) \/ Greet(c) \/ ShowsProject(c)
        PROVE HubMatchesSockets'
    <3>1. UNCHANGED <<room, open>>
      BY <2>3 DEF MarkConnected, RefreshRead, Greet, ShowsProject
    <3>2. PICK s \in {"marked", "refreshed", "greeted", "live"} : pc' = [pc EXCEPT ![c] = s]
      BY <2>3 DEF MarkConnected, RefreshRead, Greet, ShowsProject
    <3>3. Attached(c)
      BY <2>3 DEF MarkConnected, RefreshRead, Greet, ShowsProject
    <3>4. \A d \in Conns : Attached(d)' <=> Attached(d)
      BY <3>2, <3>3
    <3>5. \A p \in People : room[p] # None => room[p] \in Conns
      OBVIOUS
    <3> QED
      BY <3>1, <3>4, <3>5
  <2>4. ASSUME NEW c \in Conns, Drop(c) PROVE HubMatchesSockets'
    BY <2>4 DEF Drop
  <2>5. ASSUME NEW c \in Conns, SendFails(c) PROVE HubMatchesSockets'
    BY <2>5 DEF SendFails, Unregistered, socketVars
  <2>6. ASSUME NEW c \in Conns, FarewellRelease(c) PROVE HubMatchesSockets'
    BY <2>6 DEF FarewellRelease, HangUp, Unregistered
  <2>7. ASSUME NEW c \in Conns, FarewellCommit(c) PROVE HubMatchesSockets'
    BY <2>7 DEF FarewellCommit
  <2>8. ASSUME NEW t \in Tasks, Disconnect(t) PROVE HubMatchesSockets'
    <3>1. task[t].target \in People
      BY DEF TaskType
    <3> QED
      BY <2>8, <3>1 DEF Disconnect, Disconnected
  <2>9. ASSUME UNCHANGED <<room, socketVars>> PROVE HubMatchesSockets'
    BY <2>9 DEF socketVars
  <2>10. ASSUME NEW g \in Guests, Join(g) PROVE HubMatchesSockets'
    BY <2>10, <2>9 DEF Join
  <2>11. ASSUME NEW t \in Tasks, CommitCommand(t) \/ ApplyApproval(t)
         PROVE HubMatchesSockets'
    BY <2>11, <2>9 DEF CommitCommand, ApplyApproval
  <2>12. ASSUME NEW t \in Tasks, NEW kind \in Kinds, NEW p \in People,
                BeginCommand(t, kind, p)
         PROVE HubMatchesSockets'
    BY <2>12, <2>9 DEF BeginCommand
  <2>13. CASE UNCHANGED vars
    BY <2>13, <2>9 DEF vars
  <2> QED
    BY <2>1, <2>2, <2>3, <2>4, <2>5, <2>6, <2>7, <2>8, <2>10, <2>11, <2>12, <2>13
       DEF Next, Handler, Command
<1> QED
  BY <1>1, <1>2, TypeCorrect, PTL DEF Spec

-----------------------------------------------------------------------------
(***************************************************************************)
(* Only admitted people's connections are approved.  The flag is set from  *)
(* a cached row and by commands resumed after their commit, so the         *)
(* invariant must also speak of the rows, the caches and the commands.     *)
(* Admitted is whoever was ever let in, so this says nothing of somebody   *)
(* removed later (Refusal_Silences does).                                  *)
(***************************************************************************)
AdmissionInv ==
    /\ \A p \in People : state[p] = "approved" => p \in admitted
    /\ \A c \in Conns : seenState[c] = "approved" => Owner[c] \in admitted
    /\ \A c \in Conns : approved[c] => Owner[c] \in admitted
    /\ \A t \in Tasks :
          task[t].step = "committed" /\ task[t].kind = "approve"
              => task[t].target \in admitted

\* A connection that receives the room's broadcasts belongs to somebody who was
\* let in at some time (session_socket, _greet, approve_participant).
THEOREM Approved_Was_Admitted == Spec => []AdmissionInv
<1>1. Init => AdmissionInv
  <2> SUFFICES ASSUME Init PROVE AdmissionInv
    OBVIOUS
  <2>1. \A p \in People : state[p] = "approved" => p \in admitted
    BY DEF Init
  <2>2. \A c \in Conns : seenState[c] = "none" /\ approved[c] = FALSE
    BY DEF Init
  <2>3. \A t \in Tasks : task[t].step = "idle"
    BY DEF Init, IdleTask
  <2> QED
    BY <2>1, <2>2, <2>3 DEF AdmissionInv
<1>2. TypeOK /\ HubMatchesSockets /\ AdmissionInv /\ [Next]_vars => AdmissionInv'
  <2> SUFFICES ASSUME TypeOK, HubMatchesSockets, AdmissionInv, [Next]_vars
               PROVE AdmissionInv'
    OBVIOUS
  <2> USE MembershipAssumption DEF TypeOK, AdmissionInv
  <2>1. ASSUME NEW g \in Guests, Join(g) PROVE AdmissionInv'
    BY <2>1 DEF Join, cacheVars
  <2>2. ASSUME NEW c \in Conns, Resolve(c) PROVE AdmissionInv'
    BY <2>2 DEF Resolve, MayReceive, rowVars
  <2>3. ASSUME NEW c \in Conns, RefreshRead(c) PROVE AdmissionInv'
    BY <2>3 DEF RefreshRead, rowVars
  <2>4. ASSUME NEW c \in Conns, Greet(c) PROVE AdmissionInv'
    BY <2>4 DEF Greet, MayReceive, rowVars, cacheVars
  <2>5. ASSUME NEW c \in Conns, FarewellCommit(c) PROVE AdmissionInv'
    <3>1. \A p \in People : state'[p] = "approved" => p \in admitted
      BY <2>5 DEF FarewellCommit, Flush, PartingState
    <3> QED
      BY <2>5, <3>1 DEF FarewellCommit
  <2>6. ASSUME NEW t \in Tasks, NEW kind \in Kinds, NEW p \in People,
               BeginCommand(t, kind, p)
        PROVE AdmissionInv'
    BY <2>6 DEF BeginCommand, rowVars, cacheVars
  <2>7. ASSUME NEW t \in Tasks, CommitCommand(t) PROVE AdmissionInv'
    <3>1. task[t] \in TaskType
      OBVIOUS
    <3>2. CASE task[t].kind = "approve"
      <4>1. admitted' = admitted \cup {task[t].target}
        BY <2>7, <3>2 DEF CommitCommand
      <4>2. \A p \in People : p # task[t].target => state'[p] = state[p]
        BY <2>7, <3>1 DEF CommitCommand
      <4>3. \A u \in Tasks : u # t => task'[u] = task[u]
        BY <2>7 DEF CommitCommand
      <4>4. task'[t].target = task[t].target
        BY <2>7, <3>1 DEF CommitCommand, IdleTask
      <4> QED
        BY <2>7, <4>1, <4>2, <4>3, <4>4 DEF CommitCommand, cacheVars
    <3>3. CASE task[t].kind # "approve"
      <4>1. AssignedState(task[t].kind) # "approved"
        BY <3>1, <3>3 DEF AssignedState, TaskType
      <4>2. \A p \in People : state'[p] = "approved" => state[p] = "approved"
        BY <2>7, <3>1, <4>1 DEF CommitCommand, Flush
      <4>3. admitted' = admitted
        BY <2>7, <3>3 DEF CommitCommand
      <4>4. \A u \in Tasks : u # t => task'[u] = task[u]
        BY <2>7 DEF CommitCommand
      <4>5. task'[t].kind # "approve"
        BY <2>7, <3>1, <3>3 DEF CommitCommand, IdleTask
      <4> QED
        BY <2>7, <4>2, <4>3, <4>4, <4>5 DEF CommitCommand, cacheVars
    <3> QED
      BY <3>2, <3>3
  <2>8. ASSUME NEW t \in Tasks, ApplyApproval(t) PROVE AdmissionInv'
    <3>1. task[t].target \in People /\ task[t].target \in admitted
      BY <2>8 DEF ApplyApproval, TaskType
    <3>2. \A c \in Conns : room[task[t].target] = c => Owner[c] \in admitted
      BY <3>1 DEF HubMatchesSockets
    <3> QED
      BY <2>8, <3>1, <3>2 DEF ApplyApproval, IdleTask, rowVars, cacheVars
  <2>9. ASSUME NEW t \in Tasks, Disconnect(t) PROVE AdmissionInv'
    BY <2>9 DEF Disconnect, IdleTask, rowVars, cacheVars
  <2>10. ASSUME UNCHANGED <<state, approved, seenState, task, admitted>>
         PROVE AdmissionInv'
    BY <2>10
  <2>11. ASSUME NEW c \in Conns,
                \/ Register(c) \/ MarkConnected(c) \/ ShowsProject(c) \/ Drop(c)
                \/ SendFails(c) \/ FarewellRelease(c)
         PROVE AdmissionInv'
    BY <2>10, <2>11 DEF Register, MarkConnected, ShowsProject, Drop, SendFails, FarewellRelease,
       rowVars, cacheVars
  <2>12. CASE UNCHANGED vars
    BY <2>10, <2>12 DEF vars, rowVars, cacheVars
  <2> QED
    BY <2>1, <2>2, <2>3, <2>4, <2>5, <2>6, <2>7, <2>8, <2>9, <2>11, <2>12
       DEF Next, Handler, Command
<1> QED
  BY <1>1, <1>2, TypeCorrect, HubMatches, PTL DEF Spec

-----------------------------------------------------------------------------
(***************************************************************************)
(* How the greeting can send the project to somebody who was never let in, *)
(* and no other way.  It sends it to everybody who is not pending by then, *)
(* and a socket may be on its way, its token resolved while its owner was  *)
(* pending and the row not read again yet, when the owner is refused or    *)
(* another of their sockets gives the lobby up for them.                   *)
(***************************************************************************)
OnTheWay(c) == pc[c] \in {"resolved", "registered", "marked"}

\* A pending row becomes denied, removed or left with a socket on its way.
RefusedOnTheWay ==
    \E c \in Conns :
        /\ OnTheWay(c) /\ state[Owner[c]] = "pending"
        /\ state'[Owner[c]] \in {"denied", "removed", "left"}

StrangersAreWaiting ==
    \A c \in Conns : Owner[c] \notin admitted =>
        /\ OnTheWay(c) => state[Owner[c]] = "pending"
        /\ pc[c] = "refreshed" => seenState[c] = "pending"
        /\ pc[c] # "greeted"

\* Unless that happens, the greeting sends the project to nobody who was never
\* let in (ws.py: "pending participants sit in a lobby and receive nothing but
\* their own status"; session_socket, _greet, send_snapshot).
THEOREM Admission == Spec /\ [][~RefusedOnTheWay]_vars => ProjectForAdmitted
<1>1. Init => StrangersAreWaiting
  BY DEF Init, StrangersAreWaiting, OnTheWay
<1>2. TypeOK /\ AdmissionInv /\ StrangersAreWaiting /\ [Next]_vars /\ [~RefusedOnTheWay]_vars
        => StrangersAreWaiting'
  <2> SUFFICES ASSUME TypeOK, AdmissionInv, StrangersAreWaiting, [Next]_vars,
                      [~RefusedOnTheWay]_vars
               PROVE  StrangersAreWaiting'
    OBVIOUS
  <2> USE MembershipAssumption DEF TypeOK, StrangersAreWaiting, OnTheWay
  \* A row that was pending and whose owner has a socket on its way stays so.
  <2>1. ASSUME admitted \subseteq admitted', UNCHANGED <<pc, seenState>>,
               \A p \in People : p \notin admitted' /\ state[p] = "pending" =>
                                  state'[p] \in {"pending", "denied", "removed", "left"}
        PROVE  StrangersAreWaiting'
    <3>1. \A c \in Conns : OnTheWay(c) /\ state[Owner[c]] = "pending"
                              /\ Owner[c] \notin admitted' => state'[Owner[c]] = "pending"
      <4> SUFFICES ASSUME NEW c \in Conns, OnTheWay(c), state[Owner[c]] = "pending",
                          Owner[c] \notin admitted', state'[Owner[c]] # "pending"
                   PROVE  FALSE
        OBVIOUS
      <4>1. state'[Owner[c]] \in {"denied", "removed", "left"}
        BY <2>1
      <4>2. vars' # vars
        BY DEF vars, rowVars
      <4> QED
        BY <4>1, <4>2 DEF RefusedOnTheWay
    <3> QED
      BY <2>1, <3>1
  <2>2. ASSUME NEW g \in Guests, Join(g) PROVE StrangersAreWaiting'
    BY <2>1, <2>2 DEF Join, socketVars, cacheVars
  <2>3. ASSUME NEW c \in Conns, Resolve(c) PROVE StrangersAreWaiting'
    BY <2>3 DEF Resolve, rowVars, AdmissionInv
  <2>4. ASSUME NEW c \in Conns, Register(c) \/ MarkConnected(c) PROVE StrangersAreWaiting'
    BY <2>4 DEF Register, MarkConnected, rowVars, cacheVars
  <2>5. ASSUME NEW c \in Conns, RefreshRead(c) PROVE StrangersAreWaiting'
    BY <2>5 DEF RefreshRead, rowVars
  <2>6. ASSUME NEW c \in Conns, Greet(c) \/ ShowsProject(c) PROVE StrangersAreWaiting'
    BY <2>6 DEF Greet, ShowsProject, rowVars, cacheVars
  <2>7. ASSUME NEW c \in Conns, Drop(c) \/ SendFails(c) \/ FarewellRelease(c)
        PROVE  StrangersAreWaiting'
    BY <2>7 DEF Drop, SendFails, FarewellRelease, rowVars, cacheVars, socketVars
  <2>8. ASSUME NEW c \in Conns, FarewellCommit(c) PROVE StrangersAreWaiting'
    <3>1. state' = [state EXCEPT ![Owner[c]] =
                       Flush(state[Owner[c]], seenState[c], PartingState(seenState[c]))]
          /\ UNCHANGED admitted
      BY <2>8 DEF FarewellCommit
    <3>2. \A p \in People : state'[p] \in {state[p], "left"}
      BY <3>1 DEF Flush, PartingState
    <3>3. \A d \in Conns : OnTheWay(d) /\ state[Owner[d]] = "pending" =>
                               state'[Owner[d]] = "pending"
      <4>1. vars' # vars
        BY <2>8 DEF FarewellCommit, vars, socketVars
      <4> QED
        BY <3>2, <4>1 DEF RefusedOnTheWay
    <3>4. \A d \in Conns \ {c} : pc'[d] = pc[d] /\ seenState'[d] = seenState[d]
      BY <2>8 DEF FarewellCommit
    <3>5. pc'[c] = "done"
      BY <2>8 DEF FarewellCommit
    <3> QED
      BY <3>1, <3>3, <3>4, <3>5
  <2>9. ASSUME NEW t \in Tasks, CommitCommand(t) PROVE StrangersAreWaiting'
    <3>1. task[t] \in TaskType /\ task[t].target \in People
      BY DEF TaskType
    <3>2. UNCHANGED <<pc, seenState>> /\ admitted \subseteq admitted'
      BY <2>9 DEF CommitCommand, socketVars, cacheVars
    <3>3. task[t].kind = "approve" => task[t].target \in admitted'
      BY <2>9 DEF CommitCommand
    <3>4. task[t].kind # "approve" => AssignedState(task[t].kind) \in {"denied", "removed"}
      BY <3>1 DEF AssignedState, TaskType
    <3>5. \A p \in People : state'[p] = state[p] \/
                (p = task[t].target /\ state'[p] = AssignedState(task[t].kind))
      BY <2>9, <3>1 DEF CommitCommand, Flush
    <3> QED
      BY <2>1, <3>2, <3>3, <3>4, <3>5
  <2>10. ASSUME NEW t \in Tasks, NEW kind \in Kinds, NEW p \in People,
                \/ BeginCommand(t, kind, p) \/ ApplyApproval(t) \/ Disconnect(t)
         PROVE  StrangersAreWaiting'
    BY <2>1, <2>10 DEF BeginCommand, ApplyApproval, Disconnect, rowVars, socketVars, cacheVars
  <2>11. ASSUME NEW t \in Tasks, Command(t) PROVE StrangersAreWaiting'
    <3>1. "approve" \in Kinds /\ Host \in People
      OBVIOUS
    <3> QED
      BY <2>9, <2>10, <2>11, <3>1 DEF Command
  <2>12. CASE UNCHANGED vars
    BY <2>1, <2>12 DEF vars, rowVars, socketVars, cacheVars
  <2> QED
    BY <2>2, <2>3, <2>4, <2>5, <2>6, <2>7, <2>8, <2>10, <2>11, <2>12 DEF Next, Handler
<1>3. StrangersAreWaiting =>
        [\A c \in Conns : ShowsProject(c) /\ Receives(Owner[c]) => Owner[c] \in admitted]_vars
  BY DEF StrangersAreWaiting, ShowsProject
<1> QED
  BY <1>1, <1>2, <1>3, TypeCorrect, Approved_Was_Admitted, PTL DEF Spec, ProjectForAdmitted

-----------------------------------------------------------------------------
(***************************************************************************)
(* A row that says "connected" has a coroutine that will clear it.         *)
(***************************************************************************)
THEOREM NoGhosts == Spec => []NoGhostPresence
<1>1. Init => NoGhostPresence
  BY DEF Init, NoGhostPresence
<1>2. TypeOK /\ NoGhostPresence /\ [Next]_vars => NoGhostPresence'
  <2> SUFFICES ASSUME TypeOK, NoGhostPresence, [Next]_vars PROVE NoGhostPresence'
    OBVIOUS
  <2> USE MembershipAssumption DEF TypeOK, NoGhostPresence, Answerable
  <2>1. ASSUME NEW c \in Conns, Resolve(c) PROVE NoGhostPresence'
    BY <2>1 DEF Resolve, rowVars
  <2>2. ASSUME NEW c \in Conns, Register(c) PROVE NoGhostPresence'
    BY <2>2 DEF Register, rowVars, cacheVars
  <2>3. ASSUME NEW c \in Conns, MarkConnected(c) PROVE NoGhostPresence'
    <3> SUFFICES ASSUME NEW p \in People, connected'[p]
                 PROVE  \E d \in Conns : Owner[d] = p /\ Answerable(d)' /\ seenConn'[d]
      OBVIOUS
    <3>1. CASE p = Owner[c]
      BY <2>3, <3>1 DEF MarkConnected
    <3>2. CASE p # Owner[c]
      BY <2>3, <3>2 DEF MarkConnected
    <3> QED
      BY <3>1, <3>2
  <2>4. ASSUME NEW c \in Conns, RefreshRead(c) PROVE NoGhostPresence'
    BY <2>4 DEF RefreshRead, rowVars
  <2>5. ASSUME NEW c \in Conns, Greet(c) \/ ShowsProject(c) PROVE NoGhostPresence'
    BY <2>5 DEF Greet, ShowsProject, rowVars, cacheVars
  <2>6. ASSUME NEW c \in Conns, FarewellRelease(c) PROVE NoGhostPresence'
    BY <2>6 DEF FarewellRelease, rowVars, cacheVars
  <2>7. ASSUME NEW c \in Conns, FarewellCommit(c) PROVE NoGhostPresence'
    <3> SUFFICES ASSUME NEW p \in People, connected'[p]
                 PROVE  \E d \in Conns : Owner[d] = p /\ Answerable(d)' /\ seenConn'[d]
      OBVIOUS
    <3>1. connected[p] /\ (p = Owner[c] => ~seenConn[c])
      BY <2>7 DEF FarewellCommit, Flush
    <3>2. PICK d \in Conns : Owner[d] = p /\ Answerable(d) /\ seenConn[d]
      BY <3>1
    <3>3. d # c
      BY <3>1, <3>2
    <3> QED
      BY <2>7, <3>2, <3>3 DEF FarewellCommit
  <2>8. ASSUME NEW t \in Tasks, CommitCommand(t) PROVE NoGhostPresence'
    <3>1. \A p \in People : connected'[p] => connected[p]
      BY <2>8 DEF CommitCommand, Flush, TaskType
    <3>2. UNCHANGED <<pc, seenConn>>
      BY <2>8 DEF CommitCommand, socketVars, cacheVars
    <3> QED
      BY <3>1, <3>2
  <2>9. ASSUME UNCHANGED <<connected, pc, seenConn>> PROVE NoGhostPresence'
    BY <2>9
  <2>10. ASSUME NEW c \in Conns, Drop(c) \/ SendFails(c) PROVE NoGhostPresence'
    BY <2>9, <2>10 DEF Drop, SendFails, rowVars, socketVars, cacheVars
  <2>11. ASSUME NEW g \in Guests, Join(g) PROVE NoGhostPresence'
    BY <2>9, <2>11 DEF Join, socketVars, cacheVars
  <2>12. ASSUME NEW t \in Tasks, ApplyApproval(t) \/ Disconnect(t)
         PROVE NoGhostPresence'
    BY <2>9, <2>12 DEF ApplyApproval, Disconnect, rowVars, socketVars, cacheVars
  <2>13. ASSUME NEW t \in Tasks, NEW kind \in Kinds, NEW p \in People,
                BeginCommand(t, kind, p)
         PROVE NoGhostPresence'
    BY <2>9, <2>13 DEF BeginCommand, rowVars, socketVars, cacheVars
  <2>14. CASE UNCHANGED vars
    BY <2>9, <2>14 DEF vars, rowVars, socketVars, cacheVars
  <2> QED
    BY <2>1, <2>2, <2>3, <2>4, <2>5, <2>6, <2>7, <2>8, <2>10, <2>11, <2>12, <2>13,
       <2>14 DEF Next, Handler, Command
<1> QED
  BY <1>1, <1>2, TypeCorrect, PTL DEF Spec

-----------------------------------------------------------------------------
(***************************************************************************)
(* Nobody returns from denied, removed or left but by a host's approval:   *)
(* in particular no farewell's late write of a stale row brings them back. *)
(***************************************************************************)
Readmits(p) ==
    state[p] \in {"denied", "removed", "left"} /\ state'[p] \in {"pending", "approved"}
Approving(t, p) ==
    /\ task[t].kind = "approve" /\ task[t].target = p
    /\ task[t].step = "read" /\ task'[t].step = "committed"

\* Only the commit of an approval readmits anybody (_farewell, approve_participant).
THEOREM Readmission == Spec => OnlyApprovalReadmits
<1>1. ASSUME TypeOK, [Next]_vars, NEW p \in People, Readmits(p)
      PROVE  \E t \in Tasks : Approving(t, p)
  <2> USE DEF TypeOK, Readmits
  <2>1. ASSUME NEW g \in Guests, Join(g) PROVE FALSE
    BY <1>1, <2>1 DEF Join
  <2>2. ASSUME NEW c \in Conns, FarewellCommit(c) PROVE FALSE
    BY <1>1, <2>2 DEF FarewellCommit, Flush, PartingState
  <2>3. ASSUME NEW t \in Tasks, CommitCommand(t) PROVE Approving(t, p)
    <3>1. task[t] \in TaskType
      BY <1>1
    <3>2. p = task[t].target
      BY <1>1, <2>3 DEF CommitCommand
    <3>3. state'[p] = AssignedState(task[t].kind)
      BY <1>1, <2>3, <3>1, <3>2 DEF CommitCommand, Flush
    <3>4. task[t].kind = "approve"
      BY <1>1, <3>1, <3>3 DEF AssignedState, TaskType
    <3>5. task[t].step = "read" /\ task'[t].step = "committed"
      BY <1>1, <2>3, <3>1 DEF CommitCommand, IdleTask
    <3> QED
      BY <3>2, <3>4, <3>5 DEF Approving
  <2>4. ASSUME state' = state PROVE FALSE
    BY <1>1, <2>4
  <2>5. ASSUME NEW c \in Conns,
               \/ Resolve(c) \/ Register(c) \/ MarkConnected(c) \/ RefreshRead(c)
               \/ Greet(c) \/ ShowsProject(c) \/ Drop(c) \/ SendFails(c) \/ FarewellRelease(c)
        PROVE FALSE
    BY <2>4, <2>5 DEF Resolve, Register, MarkConnected, RefreshRead, Greet, ShowsProject, Drop,
       SendFails, FarewellRelease, rowVars
  <2>6. ASSUME NEW t \in Tasks, ApplyApproval(t) \/ Disconnect(t) PROVE FALSE
    BY <2>4, <2>6 DEF ApplyApproval, Disconnect, rowVars
  <2>7. ASSUME NEW t \in Tasks, NEW kind \in Kinds, NEW q \in People,
               BeginCommand(t, kind, q)
        PROVE FALSE
    BY <2>4, <2>7 DEF BeginCommand, rowVars
  <2>8. CASE UNCHANGED vars
    BY <2>4, <2>8 DEF vars, rowVars
  <2> QED
    BY <1>1, <2>1, <2>2, <2>3, <2>5, <2>6, <2>7, <2>8 DEF Next, Handler, Command
<1>2. TypeOK /\ [Next]_vars =>
        [\A p \in People :
            /\ state[p] \in {"denied", "removed", "left"}
            /\ state'[p] \in {"pending", "approved"}
            => \E t \in Tasks : task[t].kind = "approve" /\ task[t].target = p
                                /\ task[t].step = "read" /\ task'[t].step = "committed"]_vars
  BY <1>1 DEF Readmits, Approving
<1> QED
  BY <1>2, TypeCorrect, PTL DEF Spec, OnlyApprovalReadmits

-----------------------------------------------------------------------------
(***************************************************************************)
(* How an approval can miss the connection it is about, and no other way.  *)
(* _greet reads the row again, but the answer is itself awaited: what is   *)
(* approved in that moment is greeted as it was before.  Where no greeting *)
(* is overtaken like that, the connection learns of the approval, from the *)
(* greeting or from the command, whichever comes last.                     *)
(***************************************************************************)
StaleGreeting ==
    \E c \in Conns :
        Greet(c) /\ seenState[c] # "approved" /\ state[Owner[c]] = "approved"

\* The approval of p is in the row; its command has not resumed yet.
Admitting(t, p) ==
    task[t].step = "committed" /\ task[t].kind = "approve" /\ task[t].target = p

JoinedBefore == \A c \in Conns : pc[c] # "idle" => state[Owner[c]] # "none"
ApprovalUnderWay ==
    \A c \in Conns :
        (/\ Greeted(c) /\ room[Owner[c]] = c
         /\ state[Owner[c]] = "approved" /\ ~approved[c])
            => \E t \in Tasks : Admitting(t, Owner[c])

\* Unless a greeting is overtaken by the approval, a connection greeted and
\* registered whose owner is approved is approved, once the commands about
\* the owner have returned (ws.py _greet: "or we would greet an
\* already-approved person as pending").
THEOREM Approval_Arrives == Spec /\ [][~StaleGreeting]_vars => []ApprovalReachesSocket
<1> DEFINE Inv == JoinedBefore /\ ApprovalUnderWay
<1>1. Init => Inv
  BY DEF Init, JoinedBefore, ApprovalUnderWay, Greeted
<1>2. TypeOK /\ Inv /\ [Next]_vars /\ [~StaleGreeting]_vars => Inv'
  <2> SUFFICES ASSUME TypeOK, Inv, [Next]_vars, [~StaleGreeting]_vars PROVE Inv'
    OBVIOUS
  <2> USE MembershipAssumption DEF TypeOK, JoinedBefore, ApprovalUnderWay, Admitting, Greeted
  <2>1. ASSUME NEW g \in Guests, Join(g) PROVE Inv'
    BY <2>1 DEF Join, socketVars
  <2>2. ASSUME NEW c \in Conns, Resolve(c) PROVE Inv'
    BY <2>2 DEF Resolve, rowVars
  <2>3. ASSUME NEW c \in Conns, Register(c) PROVE Inv'
    BY <2>3 DEF Register, Registered, rowVars
  <2>4. ASSUME NEW c \in Conns, MarkConnected(c) \/ RefreshRead(c) PROVE Inv'
    <3>1. CASE MarkConnected(c)
      BY <3>1 DEF MarkConnected
    <3>2. CASE RefreshRead(c)
      BY <3>2 DEF RefreshRead, rowVars
    <3> QED
      BY <2>4, <3>1, <3>2
  <2>5. ASSUME NEW c \in Conns, Greet(c) PROVE Inv'
    <3>1. pc[c] = "refreshed" /\ pc'[c] \in {"greeted", "live"}
          /\ \A d \in Conns : d # c => pc'[d] = pc[d]
      BY <2>5 DEF Greet
    <3>2. UNCHANGED <<state, room, task>>
      BY <2>5 DEF Greet, rowVars
    <3>3. state[Owner[c]] = "approved" => approved'[c]
      <4>1. vars' # vars
        BY <3>1 DEF vars, socketVars
      <4> QED
        BY <2>5, <4>1 DEF Greet, StaleGreeting, MayReceive
    <3>4. \A d \in Conns : d # c => approved'[d] = approved[d]
      BY <2>5 DEF Greet
    <3>5. JoinedBefore'
      BY <3>1, <3>2
    <3>6. ASSUME NEW d \in Conns, Greeted(d)', room'[Owner[d]] = d,
                 state'[Owner[d]] = "approved", ~approved'[d]
          PROVE  \E t \in Tasks : Admitting(t, Owner[d])'
      <4>1. d # c
        BY <3>2, <3>3, <3>6
      <4>2. Greeted(d) /\ ~approved[d]
        BY <3>1, <3>4, <3>6, <4>1
      <4>3. PICK t \in Tasks : Admitting(t, Owner[d])
        BY <3>2, <3>6, <4>2
      <4> QED
        BY <3>2, <4>3
    <3> QED
      BY <3>5, <3>6
  <2>6. ASSUME NEW c \in Conns,
               ShowsProject(c) \/ Drop(c) \/ SendFails(c) \/ FarewellRelease(c)
        PROVE  Inv'
    BY <2>6 DEF ShowsProject, Drop, SendFails, FarewellRelease, Unregistered, rowVars,
       socketVars
  <2>7. ASSUME NEW c \in Conns, FarewellCommit(c) PROVE Inv'
    BY <2>7 DEF FarewellCommit, Flush, PartingState
  <2>8. ASSUME NEW t \in Tasks, NEW kind \in Kinds, NEW p \in People,
               BeginCommand(t, kind, p)
        PROVE  Inv'
    BY <2>8 DEF BeginCommand, rowVars, socketVars
  <2>9. ASSUME NEW t \in Tasks, CommitCommand(t) PROVE Inv'
    <3> DEFINE p == task[t].target
    <3>1. task[t] \in TaskType /\ p \in People
      BY DEF TaskType
    <3>2. \A u \in Tasks : u # t => task'[u] = task[u]
      BY <2>9 DEF CommitCommand
    <3>3. UNCHANGED <<pc, room, approved>> /\ task[t].step = "read"
      BY <2>9 DEF CommitCommand, socketVars
    <3>4. \A q \in People : q # p => state'[q] = state[q]
      BY <2>9 DEF CommitCommand
    <3>5. state'[p] \in {state[p], AssignedState(task[t].kind)}
      BY <2>9, <3>1 DEF CommitCommand, Flush
    <3>6. task'[t].step = "committed" /\ task'[t].kind = task[t].kind
          /\ task'[t].target = p
      BY <2>9, <3>1 DEF CommitCommand, IdleTask
    <3>7. AssignedState(task[t].kind) # "none"
          /\ (AssignedState(task[t].kind) = "approved" => task[t].kind = "approve")
      BY <3>1 DEF AssignedState, TaskType
    <3> QED
      BY <3>1, <3>2, <3>3, <3>4, <3>5, <3>6, <3>7
  <2>10. ASSUME NEW t \in Tasks, ApplyApproval(t) PROVE Inv'
    <3>1. \A u \in Tasks : u # t => task'[u] = task[u]
      BY <2>10 DEF ApplyApproval
    <3>2. UNCHANGED <<pc, room, state>>
      BY <2>10 DEF ApplyApproval, rowVars, socketVars
    <3>3. \A d \in Conns : approved[d] \/ room[task[t].target] = d => approved'[d]
      BY <2>10 DEF ApplyApproval
    <3> QED
      BY <3>1, <3>2, <3>3
  <2>11. ASSUME NEW t \in Tasks, Disconnect(t) PROVE Inv'
    BY <2>11 DEF Disconnect, Ejects, rowVars
  <2>12. CASE UNCHANGED vars
    BY <2>12 DEF vars, rowVars, socketVars
  <2> QED
    BY <2>1, <2>2, <2>3, <2>4, <2>5, <2>6, <2>7, <2>8, <2>9, <2>10, <2>11, <2>12
       DEF Next, Handler, Command
<1>3. TypeOK /\ HubMatchesSockets /\ Inv => ApprovalReachesSocket
  BY MembershipAssumption DEF TypeOK, HubMatchesSockets, ApprovalUnderWay, Admitting,
     ApprovalReachesSocket, Settled, Greeted
<1> QED
  BY <1>1, <1>2, <1>3, TypeCorrect, HubMatches, PTL DEF Spec

-----------------------------------------------------------------------------
(***************************************************************************)
(* Whose admission a farewell undoes: those who were approved after their  *)
(* own connection read for the last time that they were pending, and whom  *)
(* it still remembers so when it says farewell.  Nobody else's, whichever  *)
(* of a person's connections leaves and whatever else is under way.        *)
(***************************************************************************)
\* The row is not read again from here on (_greet, _pump, _farewell).
ReadForGood(c) == pc[c] \in {"refreshed", "greeted", "live", "leaving"}

ApprovesBehindBack ==
    \E t \in Tasks, c \in Conns :
        /\ CommitCommand(t) /\ task[t].kind = "approve"
        /\ Owner[c] = task[t].target /\ ReadForGood(c) /\ seenState[c] = "pending"

PendingIsTrue ==
    \A c \in Conns :
        ReadForGood(c) /\ seenState[c] = "pending" => state[Owner[c]] # "approved"

\* Unless an approval is committed behind the back of such a connection, a
\* person whose row is approved keeps it when a connection of theirs leaves
\* (_farewell: "Someone who closed the lobby before being admitted is simply
\* gone").
THEOREM Admission_Kept == Spec /\ [][~ApprovesBehindBack]_vars => AdmissionSurvivesLeaving
<1>1. Init => PendingIsTrue
  BY DEF Init, PendingIsTrue, ReadForGood
<1>2. TypeOK /\ JoinedBefore /\ PendingIsTrue /\ [Next]_vars /\ [~ApprovesBehindBack]_vars
        => JoinedBefore' /\ PendingIsTrue'
  <2> SUFFICES ASSUME TypeOK, JoinedBefore, PendingIsTrue, [Next]_vars,
                      [~ApprovesBehindBack]_vars
               PROVE  JoinedBefore' /\ PendingIsTrue'
    OBVIOUS
  <2> USE MembershipAssumption DEF TypeOK, JoinedBefore, PendingIsTrue, ReadForGood
  <2>1. ASSUME UNCHANGED <<state, seenState>>,
               \A c \in Conns : pc[c] = "idle" => pc'[c] = "idle",
               \A c \in Conns : ReadForGood(c)' => ReadForGood(c)
        PROVE  JoinedBefore' /\ PendingIsTrue'
    BY <2>1
  <2>2. ASSUME NEW g \in Guests, Join(g) PROVE JoinedBefore' /\ PendingIsTrue'
    BY <2>2 DEF Join, socketVars, cacheVars
  <2>3. ASSUME NEW c \in Conns, Resolve(c) PROVE JoinedBefore' /\ PendingIsTrue'
    BY <2>3 DEF Resolve, rowVars
  <2>4. ASSUME NEW c \in Conns, RefreshRead(c) PROVE JoinedBefore' /\ PendingIsTrue'
    <3>1. UNCHANGED state /\ pc[c] = "marked" /\ seenState'[c] = state[Owner[c]]
      BY <2>4 DEF RefreshRead, rowVars
    <3>2. \A d \in Conns : d # c => pc'[d] = pc[d] /\ seenState'[d] = seenState[d]
      BY <2>4 DEF RefreshRead
    <3> QED
      BY <3>1, <3>2
  <2>5. ASSUME NEW c \in Conns, FarewellCommit(c) PROVE JoinedBefore' /\ PendingIsTrue'
    BY <2>5 DEF FarewellCommit, Flush, PartingState
  <2>6. ASSUME NEW t \in Tasks, CommitCommand(t) PROVE JoinedBefore' /\ PendingIsTrue'
    <3> DEFINE p == task[t].target
    <3>1. task[t] \in TaskType /\ p \in People /\ task[t].step = "read"
      BY <2>6 DEF TaskType, CommitCommand
    <3>2. UNCHANGED <<pc, seenState>>
      BY <2>6 DEF CommitCommand, socketVars, cacheVars
    <3>3. state' = [state EXCEPT ![p] =
                        Flush(state[p], task[t].oldState, AssignedState(task[t].kind))]
      BY <2>6 DEF CommitCommand
    <3>4. AssignedState(task[t].kind) # "none"
          /\ (AssignedState(task[t].kind) = "approved" => task[t].kind = "approve")
      BY <3>1 DEF AssignedState, TaskType
    <3>5. task'[t].step = "committed"
      BY <2>6, <3>1 DEF CommitCommand, IdleTask
    <3>6. task[t].kind = "approve" =>
            \A c \in Conns : Owner[c] = p /\ ReadForGood(c) => seenState[c] # "pending"
      BY <2>6, <3>1, <3>5 DEF ApprovesBehindBack, vars
    <3> QED
      BY <3>1, <3>2, <3>3, <3>4, <3>6 DEF Flush
  <2>7. ASSUME NEW c \in Conns, Register(c) \/ MarkConnected(c)
        PROVE  JoinedBefore' /\ PendingIsTrue'
    <3>1. UNCHANGED <<state, seenState>>
      BY <2>7 DEF Register, MarkConnected, rowVars, cacheVars
    <3>2. \A d \in Conns : pc'[d] = pc[d] \/ (pc[d] # "idle" /\ ~ReadForGood(d)')
      BY <2>7 DEF Register, MarkConnected
    <3> QED
      BY <2>1, <3>1, <3>2
  <2>8. ASSUME NEW c \in Conns,
               \/ Greet(c) \/ ShowsProject(c) \/ Drop(c) \/ SendFails(c)
               \/ FarewellRelease(c)
        PROVE  JoinedBefore' /\ PendingIsTrue'
    <3>1. UNCHANGED <<state, seenState>>
      BY <2>8 DEF Greet, ShowsProject, Drop, SendFails, FarewellRelease, rowVars, cacheVars
    <3>2. \A d \in Conns : pc'[d] = pc[d] \/ ReadForGood(d)
      BY <2>8 DEF Greet, ShowsProject, Drop, SendFails, FarewellRelease, socketVars
    <3> QED
      BY <2>1, <3>1, <3>2
  <2>9. ASSUME NEW t \in Tasks, NEW kind \in Kinds, NEW p \in People,
               \/ BeginCommand(t, kind, p) \/ ApplyApproval(t) \/ Disconnect(t)
        PROVE  JoinedBefore' /\ PendingIsTrue'
    BY <2>1, <2>9 DEF BeginCommand, ApplyApproval, Disconnect, rowVars, socketVars, cacheVars
  <2>10. ASSUME NEW t \in Tasks, Command(t) PROVE JoinedBefore' /\ PendingIsTrue'
    <3>1. "approve" \in Kinds /\ Host \in People
      OBVIOUS
    <3> QED
      BY <2>6, <2>9, <2>10, <3>1 DEF Command
  <2>11. CASE UNCHANGED vars
    BY <2>1, <2>11 DEF vars, rowVars, socketVars, cacheVars
  <2> QED
    BY <2>2, <2>3, <2>4, <2>5, <2>7, <2>8, <2>9, <2>10, <2>11 DEF Next, Handler
<1>3. Init => JoinedBefore
  BY DEF Init, JoinedBefore
<1>4. TypeOK /\ PendingIsTrue /\ [Next]_vars =>
        [\A c \in Conns :
            /\ pc[c] = "leaving" /\ pc'[c] = "done"
            /\ approved[c] /\ state[Owner[c]] = "approved"
            => state'[Owner[c]] = "approved"]_vars
  <2> SUFFICES ASSUME TypeOK, PendingIsTrue, Next, NEW c \in Conns,
                      pc[c] = "leaving", pc'[c] = "done", state[Owner[c]] = "approved"
               PROVE  state'[Owner[c]] = "approved"
    OBVIOUS
  <2> USE MembershipAssumption DEF TypeOK
  <2>1. FarewellCommit(c)
    <3>1. ASSUME NEW d \in Conns, d # c, FarewellCommit(d) PROVE FALSE
      BY <3>1 DEF FarewellCommit
    <3>2. ASSUME NEW d \in Conns,
                 \/ Resolve(d) \/ Register(d) \/ MarkConnected(d) \/ RefreshRead(d)
                 \/ Greet(d) \/ ShowsProject(d) \/ Drop(d) \/ SendFails(d)
                 \/ FarewellRelease(d)
          PROVE  FALSE
      BY <3>2 DEF Resolve, Register, MarkConnected, RefreshRead, Greet, ShowsProject, Drop,
         SendFails, FarewellRelease, socketVars
    <3>3. pc' # pc
      OBVIOUS
    <3>4. ASSUME NEW g \in Guests, Join(g) PROVE FALSE
      BY <3>3, <3>4 DEF Join, socketVars
    <3>5. ASSUME NEW t \in Tasks, Command(t) PROVE FALSE
      BY <3>3, <3>5 DEF Command, CommitCommand, ApplyApproval, Disconnect, socketVars
    <3>6. ASSUME NEW t \in Tasks, NEW kind \in Kinds, NEW p \in People,
                 BeginCommand(t, kind, p)
          PROVE  FALSE
      BY <3>3, <3>6 DEF BeginCommand, socketVars
    <3> QED
      BY <3>1, <3>2, <3>4, <3>5, <3>6 DEF Next, Handler
  <2>2. seenState[c] # "pending"
    BY DEF PendingIsTrue, ReadForGood
  <2> QED
    BY <2>1, <2>2 DEF FarewellCommit, Flush, PartingState
<1> QED
  BY <1>1, <1>2, <1>3, <1>4, TypeCorrect, PTL DEF Spec, AdmissionSurvivesLeaving

-----------------------------------------------------------------------------
(***************************************************************************)
(* What a refusal silences.  Whoever was denied or removed may still hold  *)
(* a socket: one that was resolved before and registers after the hub was  *)
(* told to disconnect them.  Its flag is set from the row as it is then,   *)
(* so no broadcast of the room reaches it, whatever the greeting itself    *)
(* sends (ProjectForAdmitted); unless the refusal was committed while an   *)
(* approval of the same person, already in the row, still had to reach the *)
(* hub.                                                                    *)
(***************************************************************************)
Refusing(t, p) == task[t].step = "committed" /\ Ejects(task[t]) /\ task[t].target = p

\* deny or remove commits between the commit and the return of an approval.
RefusesTheAdmitting ==
    \E t, u \in Tasks :
        CommitCommand(t) /\ Ejects(task[t]) /\ Admitting(u, task[t].target)

\* What holds at each step of a command and of a greeting.
ApprovalReadsUnapproved ==
    \A t \in Tasks :
        task[t].step = "read" /\ task[t].kind = "approve" => task[t].oldState # "approved"
AdmittingIsNotRefused ==
    \A p \in People, t \in Tasks : Admitting(t, p) => ~Refused(p)
RefusalUnderWay ==
    \A c \in Conns :
        (/\ room[Owner[c]] = c /\ Refused(Owner[c])
         /\ \/ Greeted(c) /\ approved[c]
            \/ pc[c] = "refreshed" /\ seenState[c] = "approved")
            => \E t \in Tasks : Refusing(t, Owner[c])

\* Nobody denied or removed receives what the room broadcasts once the commands
\* about them have returned (Hub.broadcast, deny_participant,
\* remove_participant, _greet), unless two of them crossed as said.
THEOREM Refusal_Silences == Spec /\ [][~RefusesTheAdmitting]_vars => []RefusalSilences
<1> DEFINE Inv == ApprovalReadsUnapproved /\ AdmittingIsNotRefused /\ RefusalUnderWay
<1>1. Init => Inv
  BY DEF Init, IdleTask, ApprovalReadsUnapproved, AdmittingIsNotRefused, Admitting,
     RefusalUnderWay
<1>2. TypeOK /\ HubMatchesSockets /\ Inv /\ [Next]_vars /\ [~RefusesTheAdmitting]_vars
        => Inv'
  <2> SUFFICES ASSUME TypeOK, HubMatchesSockets, Inv, [Next]_vars,
                      [~RefusesTheAdmitting]_vars
               PROVE  Inv'
    OBVIOUS
  <2> USE MembershipAssumption
      DEF TypeOK, ApprovalReadsUnapproved, AdmittingIsNotRefused, RefusalUnderWay,
          Admitting, Refusing, Refused, Ejects, Greeted
  \* Steps that change neither rows nor commands and approve nobody.
  <2>1. ASSUME UNCHANGED <<state, task, seenState>>,
               \A c \in Conns : room'[Owner[c]] = c =>
                   \/ pc'[c] \notin {"greeted", "live", "refreshed"}
                   \/ room[Owner[c]] = c /\ pc'[c] = pc[c] /\ approved'[c] = approved[c]
        PROVE  Inv'
    BY <2>1
  <2>2. ASSUME NEW g \in Guests, Join(g) PROVE Inv'
    BY <2>2 DEF Join, socketVars, cacheVars
  <2>3. ASSUME NEW c \in Conns, Resolve(c) PROVE Inv'
    BY <2>3 DEF Resolve, rowVars
  <2>4. ASSUME NEW c \in Conns, Register(c) PROVE Inv'
    BY <2>1, <2>4 DEF Register, Registered, rowVars, cacheVars
  <2>5. ASSUME NEW c \in Conns, MarkConnected(c) PROVE Inv'
    BY <2>1, <2>5 DEF MarkConnected
  <2>6. ASSUME NEW c \in Conns, RefreshRead(c) PROVE Inv'
    <3>1. UNCHANGED <<state, room, approved, task>>
      BY <2>6 DEF RefreshRead, rowVars
    <3>2. \A d \in Conns : d # c => pc'[d] = pc[d] /\ seenState'[d] = seenState[d]
      BY <2>6 DEF RefreshRead
    <3>3. pc'[c] = "refreshed" /\ seenState'[c] = state[Owner[c]]
      BY <2>6 DEF RefreshRead
    <3> QED
      BY <3>1, <3>2, <3>3
  <2>7. ASSUME NEW c \in Conns, Greet(c) PROVE Inv'
    <3>1. UNCHANGED <<state, room, seenState, task>>
      BY <2>7 DEF Greet, rowVars, cacheVars
    <3>2. \A d \in Conns : d # c => pc'[d] = pc[d] /\ approved'[d] = approved[d]
      BY <2>7 DEF Greet
    <3>3. pc[c] = "refreshed" /\ pc'[c] \in {"greeted", "live"}
          /\ (approved'[c] => seenState[c] = "approved")
      BY <2>7 DEF Greet, MayReceive
    <3> QED
      BY <3>1, <3>2, <3>3
  <2>8. ASSUME NEW c \in Conns, Drop(c) \/ SendFails(c) \/ FarewellRelease(c) PROVE Inv'
    <3>1. UNCHANGED <<state, task, seenState, approved>>
      BY <2>8 DEF Drop, SendFails, FarewellRelease, rowVars, cacheVars
    <3>2. \A d \in Conns : room'[Owner[d]] = d => room[Owner[d]] = d
      BY <2>8 DEF Drop, SendFails, FarewellRelease, Unregistered
    <3>3. \A d \in Conns : pc'[d] = pc[d] \/ pc'[d] = "leaving"
      BY <2>8 DEF Drop, SendFails, FarewellRelease, socketVars
    <3> QED
      BY <2>1, <3>1, <3>2, <3>3
  <2>15. ASSUME NEW c \in Conns, ShowsProject(c) PROVE Inv'
    <3>1. UNCHANGED <<state, room, approved, seenState, task>>
      BY <2>15 DEF ShowsProject, rowVars, cacheVars
    <3>2. \A d \in Conns : pc'[d] = pc[d] \/ (Greeted(d) /\ pc'[d] = "live")
      BY <2>15 DEF ShowsProject
    <3> QED
      BY <3>1, <3>2
  <2>9. ASSUME NEW c \in Conns, FarewellCommit(c) PROVE Inv'
    <3>1. UNCHANGED <<room, task>>
      BY <2>9 DEF FarewellCommit
    <3>2. \A p \in People : Refused(p)' => Refused(p)
      BY <2>9 DEF FarewellCommit, Flush, PartingState
    <3>3. pc'[c] = "done"
          /\ \A d \in Conns : d # c => /\ pc'[d] = pc[d] /\ approved'[d] = approved[d]
                                       /\ seenState'[d] = seenState[d]
      BY <2>9 DEF FarewellCommit
    <3> QED
      BY <3>1, <3>2, <3>3
  <2>10. ASSUME NEW t \in Tasks, NEW kind \in Kinds, NEW p \in People,
                BeginCommand(t, kind, p)
         PROVE  Inv'
    <3>1. UNCHANGED <<state, room, pc, approved, seenState>>
      BY <2>10 DEF BeginCommand, rowVars, socketVars, cacheVars
    <3>2. task[t].step = "idle" /\ task'[t].step = "read"
          /\ (task'[t].kind = "approve" => task'[t].oldState # "approved")
      BY <2>10 DEF BeginCommand, Accepts
    <3>3. \A u \in Tasks : u # t => task'[u] = task[u]
      BY <2>10 DEF BeginCommand
    <3> QED
      BY <3>1, <3>2, <3>3
  <2>11. ASSUME NEW t \in Tasks, CommitCommand(t) PROVE Inv'
    <3> DEFINE p == task[t].target
    <3>1. task[t] \in TaskType /\ p \in People /\ task[t].step = "read"
      BY <2>11 DEF TaskType, CommitCommand
    <3>2. \A u \in Tasks : u # t => task'[u] = task[u]
      BY <2>11 DEF CommitCommand
    <3>3. UNCHANGED <<pc, room, approved, seenState>>
      BY <2>11 DEF CommitCommand, socketVars, cacheVars
    <3>4. \A q \in People : q # p => state'[q] = state[q]
      BY <2>11 DEF CommitCommand
    <3>5. task'[t].step = "committed" /\ task'[t].kind = task[t].kind
          /\ task'[t].target = p
      BY <2>11, <3>1 DEF CommitCommand, IdleTask
    <3>6. CASE task[t].kind = "approve"
      <4>1. state'[p] = "approved"
        BY <2>11, <3>1, <3>6 DEF CommitCommand, Flush, AssignedState
      <4> QED
        BY <3>1, <3>2, <3>3, <3>4, <3>5, <3>6, <4>1
    <3>7. CASE Ejects(task[t])
      <4>1. vars' # vars
        BY <3>1, <3>5 DEF vars
      <4>2. \A u \in Tasks : ~Admitting(u, p)
        BY <2>11, <3>7, <4>1 DEF RefusesTheAdmitting
      <4>3. Refusing(t, p)'
        BY <3>5, <3>7
      <4> QED
        BY <3>1, <3>2, <3>3, <3>4, <3>5, <3>7, <4>2, <4>3
    <3> QED
      BY <3>1, <3>6, <3>7 DEF TaskType
  <2>12. ASSUME NEW t \in Tasks, ApplyApproval(t) PROVE Inv'
    <3> DEFINE p == task[t].target
    <3>1. UNCHANGED <<state, room, pc, seenState>> /\ p \in People
      BY <2>12 DEF ApplyApproval, TaskType, rowVars, socketVars, cacheVars
    <3>2. Admitting(t, p) /\ task'[t].step = "idle"
      BY <2>12 DEF ApplyApproval, IdleTask
    <3>3. \A u \in Tasks : u # t => task'[u] = task[u]
      BY <2>12 DEF ApplyApproval
    <3>4. \A d \in Conns : d # room[p] => approved'[d] = approved[d]
      BY <2>12 DEF ApplyApproval
    <3>5. ~Refused(p)
      BY <3>1, <3>2
    <3>6. \A d \in Conns : room[Owner[d]] = d /\ Refused(Owner[d]) => d # room[p]
      BY <3>1, <3>5 DEF HubMatchesSockets
    <3>7. \A q \in People, u \in Tasks : Refusing(u, q) => Refusing(u, q)'
      BY <3>2, <3>3
    <3>8. RefusalUnderWay'
      BY <3>1, <3>4, <3>6, <3>7
    <3> QED
      BY <3>1, <3>2, <3>3, <3>8
  <2>13. ASSUME NEW t \in Tasks, Disconnect(t) PROVE Inv'
    <3> DEFINE p == task[t].target
    <3>1. UNCHANGED <<state, pc, approved, seenState>> /\ p \in People
      BY <2>13 DEF Disconnect, TaskType, rowVars, cacheVars
    <3>2. room' = [room EXCEPT ![p] = None] /\ task'[t].step = "idle"
      BY <2>13 DEF Disconnect, IdleTask
    <3>3. \A u \in Tasks : u # t => task'[u] = task[u]
      BY <2>13 DEF Disconnect
    <3> QED
      BY <3>1, <3>2, <3>3
  <2>14. CASE UNCHANGED vars
    BY <2>14 DEF vars, rowVars, socketVars, cacheVars
  <2> QED
    BY <2>2, <2>3, <2>4, <2>5, <2>6, <2>7, <2>8, <2>9, <2>10, <2>11, <2>12, <2>13, <2>14,
       <2>15 DEF Next, Handler, Command
<1>3. TypeOK /\ HubMatchesSockets /\ Inv => RefusalSilences
  BY MembershipAssumption DEF TypeOK, HubMatchesSockets, RefusalUnderWay, Refusing,
     RefusalSilences, Settled, Greeted
<1> QED
  BY <1>1, <1>2, <1>3, TypeCorrect, HubMatches, PTL DEF Spec
=============================================================================
