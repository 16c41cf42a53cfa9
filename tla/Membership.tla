----------------------------- MODULE Membership -----------------------------
(***************************************************************************)
(* Who is in a session, and what the hub believes about it.                *)
(*                                                                         *)
(* A participant is a database row (app/models.py), and, while a socket is *)
(* up, an entry of the hub's room (app/hub.py).  The coroutine behind each *)
(* socket (app/routers/ws.py, session_socket) keeps one database session   *)
(* for its whole life, and with it one cached copy of its own row: the     *)
(* copy is loaded when the token is resolved, reloaded once while greeting *)
(* and never again.  Commits write the columns whose cached value was      *)
(* assigned a different one, and nothing else.  Host commands              *)
(* (app/actions.py) run on other database sessions: they read the row,     *)
(* commit it, and only then touch the hub.                                 *)
(*                                                                         *)
(* Everything runs on one event loop, so what an action does is atomic;    *)
(* an action ends where the code awaits the database.  The session itself  *)
(* stays active here: its life is Lifecycle.tla's subject.                *)
(***************************************************************************)

CONSTANTS
    Host,    \* the participant that create_session made
    Guests,  \* people who may join by code
    Conns,   \* sockets; each is accepted at most once
    Owner,   \* whose token each socket carries
    Tasks,   \* host commands that may be in flight at one time
    None     \* no connection registered

ASSUME MembershipAssumption ==
    /\ Host \notin Guests
    /\ None \notin Conns
    /\ Owner \in [Conns -> Guests \cup {Host}]

People == Guests \cup {Host}

States == {"none", "pending", "approved", "denied", "removed", "left"}
Kinds  == {"approve", "deny", "remove"}
Pcs    == {"idle", "resolved", "registered", "marked", "refreshed",
           "greeted", "live", "leaving", "done"}

VARIABLES
    state, connected,       \* columns of the Participant rows
    room,                   \* Hub._rooms of this session
    pc, open,               \* the coroutine of each socket
    approved,               \* Connection.approved
    seenState, seenConn,    \* the row as that coroutine cached it
    task,                   \* host commands in flight
    admitted                \* history: whom the host or an open session let in

rowVars    == <<state, connected>>
socketVars == <<pc, open>>
cacheVars  == <<seenState, seenConn>>
vars == <<rowVars, room, socketVars, approved, cacheVars, task, admitted>>

-----------------------------------------------------------------------------
(***************************************************************************)
(* A unit of work: a column is written only when the value assigned        *)
(* differs from the value that was loaded.                                 *)
(***************************************************************************)
FlushMutant(stored, loaded, assigned) == assigned
Flush(stored, loaded, assigned) == IF assigned = loaded THEN stored ELSE assigned

\* Hub.register: the newest socket of a person takes the entry.
RegisteredMutant(r, c) == IF r[Owner[c]] = None THEN [r EXCEPT ![Owner[c]] = c] ELSE r
Registered(r, c) == [r EXCEPT ![Owner[c]] = c]

\* Hub.unregister: only when this very connection is still the registered one.
UnregisteredMutant(r, c) == [r EXCEPT ![Owner[c]] = None]
Unregistered(r, c) == IF r[Owner[c]] = c THEN [r EXCEPT ![Owner[c]] = None] ELSE r

\* Connection.approved as it stands when the socket is accepted and greeted.
MayReceiveMutant(s) == s # "denied"
MayReceive(s) == s = "approved"

\* What _farewell makes of the cached state.
PartingStateMutant(s) == s
PartingStateTypo(s) == IF s = "pending" THEN "gone" ELSE s
PartingState(s) == IF s = "pending" THEN "left" ELSE s

-----------------------------------------------------------------------------
IdleTask == [step |-> "idle", kind |-> "approve", target |-> Host,
             oldState |-> "none", oldConn |-> FALSE]

\* create_session has just committed: the host's row is there and approved.
Init ==
    /\ state = [p \in People |-> IF p = Host THEN "approved" ELSE "none"]
    /\ connected = [p \in People |-> FALSE]
    /\ room = [p \in People |-> None]
    /\ pc = [c \in Conns |-> "idle"]
    /\ open = [c \in Conns |-> FALSE]
    /\ approved = [c \in Conns |-> FALSE]
    /\ seenState = [c \in Conns |-> "none"]
    /\ seenConn = [c \in Conns |-> FALSE]
    /\ task = [t \in Tasks |-> IdleTask]
    /\ admitted = {Host}

-----------------------------------------------------------------------------
(* People.                                                                 *)

\* Whether the session asks for approval: update_settings may have changed it.
Gates == BOOLEAN

\* POST /join: the row is pending when the session asks for approval, and
\* approved on the spot when it does not.
Join(g) ==
    /\ state[g] = "none"
    /\ \E gate \in Gates :
          /\ state' = [state EXCEPT ![g] = IF gate THEN "pending" ELSE "approved"]
          /\ admitted' = IF gate THEN admitted ELSE admitted \cup {g}
    /\ UNCHANGED <<connected, room, socketVars, approved, cacheVars, task>>

\* The socket is accepted and its token resolved: the row is loaded, and must
\* be pending or approved.
Resolve(c) ==
    LET p == Owner[c] IN
    /\ pc[c] = "idle"
    /\ state[p] \in {"approved", "pending"}
    /\ pc' = [pc EXCEPT ![c] = "resolved"]
    /\ open' = [open EXCEPT ![c] = TRUE]
    /\ seenState' = [seenState EXCEPT ![c] = state[p]]
    /\ seenConn' = [seenConn EXCEPT ![c] = connected[p]]
    /\ approved' = [approved EXCEPT ![c] = MayReceive(state[p])]
    /\ UNCHANGED <<rowVars, room, task, admitted>>

\* Hub.register, which closes the socket it replaces.
Register(c) ==
    /\ pc[c] = "resolved"
    /\ pc' = [pc EXCEPT ![c] = "registered"]
    /\ room' = Registered(room, c)
    /\ open' = IF room[Owner[c]] \in Conns
               THEN [open EXCEPT ![room[Owner[c]]] = FALSE] ELSE open
    /\ UNCHANGED <<rowVars, approved, cacheVars, task, admitted>>

\* participant.connected = True; commit.
MarkConnected(c) ==
    /\ pc[c] = "registered"
    /\ pc' = [pc EXCEPT ![c] = "marked"]
    /\ connected' = [connected EXCEPT ![Owner[c]] = Flush(@, seenConn[c], TRUE)]
    /\ seenConn' = [seenConn EXCEPT ![c] = TRUE]
    /\ UNCHANGED <<state, room, open, approved, seenState, task, admitted>>

\* The SELECT of db.refresh, answered by the database.
RefreshRead(c) ==
    /\ pc[c] = "marked"
    /\ pc' = [pc EXCEPT ![c] = "refreshed"]
    /\ seenState' = [seenState EXCEPT ![c] = state[Owner[c]]]
    /\ seenConn' = [seenConn EXCEPT ![c] = connected[Owner[c]]]
    /\ UNCHANGED <<rowVars, room, open, approved, task, admitted>>

\* _greet resumes with that answer: who is pending is told to wait, and
\* everybody else, whatever the answer was, is to be sent the project.
Greet(c) ==
    /\ pc[c] = "refreshed"
    /\ pc' = [pc EXCEPT ![c] = IF seenState[c] = "pending" THEN "live" ELSE "greeted"]
    /\ approved' = [approved EXCEPT ![c] = MayReceive(seenState[c])]
    /\ UNCHANGED <<rowVars, room, open, cacheVars, task, admitted>>

\* send_snapshot and send_side_channels, once the files, the chat and the
\* board have been read.  Hub.send_to_participant sends to the person's entry
\* as it is by then; Receives says whether there is one to take it.
Receives(p) == room[p] \in Conns /\ open[room[p]]
ShowsProject(c) ==
    /\ pc[c] = "greeted"
    /\ pc' = [pc EXCEPT ![c] = "live"]
    /\ UNCHANGED <<rowVars, room, open, approved, cacheVars, task, admitted>>

\* The socket ends: the client goes away, or the server closes it because a
\* frame was too big or they came too fast.
Drop(c) ==
    /\ open[c]
    /\ open' = [open EXCEPT ![c] = FALSE]
    /\ UNCHANGED <<rowVars, room, pc, approved, cacheVars, task, admitted>>

\* Hub.send meets a dead socket before its own coroutine noticed.
SendFails(c) ==
    /\ ~open[c]
    /\ room[Owner[c]] = c
    /\ room' = Unregistered(room, c)
    /\ UNCHANGED <<rowVars, socketVars, approved, cacheVars, task, admitted>>

\* receive_text raises once the socket is closed, by either side.
HangUpMutant(c) == ~open[c] /\ room[Owner[c]] = c
HangUp(c) == ~open[c]

\* _farewell up to its first await.
FarewellRelease(c) ==
    /\ pc[c] = "live"
    /\ HangUp(c)
    /\ pc' = [pc EXCEPT ![c] = "leaving"]
    /\ room' = Unregistered(room, c)
    /\ UNCHANGED <<rowVars, open, approved, cacheVars, task, admitted>>

\* _farewell's commit, of the row as this coroutine cached it.  The coroutine
\* returns and what it held is garbage: reset, so that dead copies do not count.
FarewellCommit(c) ==
    LET p == Owner[c] IN
    /\ pc[c] = "leaving"
    /\ pc' = [pc EXCEPT ![c] = "done"]
    /\ connected' = [connected EXCEPT ![p] = Flush(@, seenConn[c], FALSE)]
    /\ state' = [state EXCEPT ![p] = Flush(@, seenState[c], PartingState(seenState[c]))]
    /\ approved' = [approved EXCEPT ![c] = FALSE]
    /\ seenState' = [seenState EXCEPT ![c] = "none"]
    /\ seenConn' = [seenConn EXCEPT ![c] = FALSE]
    /\ UNCHANGED <<room, open, task, admitted>>

-----------------------------------------------------------------------------
(***************************************************************************)
(* Host commands: from the host's socket, over REST or from the dashboard. *)
(***************************************************************************)

\* The early return of approve_participant, and remove's refusal of the host.
Accepts(kind, p) ==
    /\ state[p] # "none"
    /\ kind = "approve" => state[p] # "approved"
    /\ kind = "remove" => p # Host

\* The target's row is loaded.
BeginCommand(t, kind, p) ==
    /\ task[t].step = "idle"
    /\ Accepts(kind, p)
    /\ task' = [task EXCEPT ![t] =
          [step |-> "read", kind |-> kind, target |-> p,
           oldState |-> state[p], oldConn |-> connected[p]]]
    /\ UNCHANGED <<rowVars, room, socketVars, approved, cacheVars, admitted>>

\* The state each of the three functions assigns.
AssignedState(kind) ==
    CASE kind = "approve" -> "approved"
      [] kind = "deny"    -> "denied"
      [] kind = "remove"  -> "removed"

Ejects(x) == x.kind \in {"deny", "remove"}

CommitCommand(t) ==
    LET x == task[t]
        p == x.target
    IN
    /\ x.step = "read"
    /\ state' = [state EXCEPT ![p] = Flush(@, x.oldState, AssignedState(x.kind))]
    /\ connected' = [connected EXCEPT ![p] =
                        Flush(@, x.oldConn, IF Ejects(x) THEN FALSE ELSE x.oldConn)]
    /\ admitted' = IF x.kind = "approve" THEN admitted \cup {p} ELSE admitted
    /\ task' = [task EXCEPT ![t] = [IdleTask EXCEPT
                    !.step = "committed", !.kind = x.kind, !.target = p]]
    /\ UNCHANGED <<room, socketVars, approved, cacheVars>>

\* approve_participant, resumed: the live connection learns of it and is sent
\* the project.
ApplyApproval(t) ==
    LET c == room[task[t].target] IN
    /\ task[t].step = "committed" /\ task[t].kind = "approve"
    /\ approved' = IF c \in Conns THEN [approved EXCEPT ![c] = TRUE] ELSE approved
    /\ task' = [task EXCEPT ![t] = IdleTask]
    /\ UNCHANGED <<rowVars, room, socketVars, cacheVars, admitted>>

\* Hub.disconnect_participant, for deny and remove: unregister and close.
DisconnectedMutant(o, c) == o
Disconnected(o, c) == IF c \in Conns THEN [o EXCEPT ![c] = FALSE] ELSE o

Disconnect(t) ==
    LET x == task[t]
        c == room[x.target]
    IN
    /\ x.step = "committed" /\ Ejects(x)
    /\ room' = [room EXCEPT ![x.target] = None]
    /\ open' = Disconnected(open, c)
    /\ task' = [task EXCEPT ![t] = IdleTask]
    /\ UNCHANGED <<rowVars, pc, approved, cacheVars, admitted>>

-----------------------------------------------------------------------------
Handler(c) ==
    \/ Register(c) \/ MarkConnected(c) \/ RefreshRead(c) \/ Greet(c)
    \/ ShowsProject(c) \/ FarewellRelease(c) \/ FarewellCommit(c)

Command(t) == CommitCommand(t) \/ ApplyApproval(t) \/ Disconnect(t)

Next ==
    \/ \E g \in Guests : Join(g)
    \/ \E c \in Conns : Resolve(c) \/ Handler(c) \/ Drop(c) \/ SendFails(c)
    \/ \E t \in Tasks, kind \in Kinds, p \in People : BeginCommand(t, kind, p)
    \/ \E t \in Tasks : Command(t)

Spec == Init /\ [][Next]_vars

\* The event loop resumes every coroutine whose await has been answered.
FairSpec ==
    /\ Spec
    /\ \A c \in Conns : WF_vars(Handler(c))
    /\ \A t \in Tasks : WF_vars(Command(t))

-----------------------------------------------------------------------------
(* Properties.                                                             *)

TaskType ==
    [step : {"idle", "read", "committed"}, kind : Kinds, target : People,
     oldState : States, oldConn : BOOLEAN]

\* Every variable has its type.
TypeOK ==
    /\ state \in [People -> States]
    /\ connected \in [People -> BOOLEAN]
    /\ room \in [People -> Conns \cup {None}]
    /\ pc \in [Conns -> Pcs]
    /\ open \in [Conns -> BOOLEAN]
    /\ approved \in [Conns -> BOOLEAN]
    /\ seenState \in [Conns -> States]
    /\ seenConn \in [Conns -> BOOLEAN]
    /\ task \in [Tasks -> TaskType]
    /\ admitted \subseteq People

\* Between register and farewell.
Attached(c) == pc[c] \in {"registered", "marked", "refreshed", "greeted", "live"}

\* A socket that is still open is the one the hub would write to, so a
\* removal, a pause or the end of the session reaches it; and the hub never
\* keeps the entry of a coroutine that has said farewell (hub.py register,
\* unregister, disconnect_participant).
HubMatchesSockets ==
    /\ \A c \in Conns : Attached(c) /\ open[c] => room[Owner[c]] = c
    /\ \A p \in People : room[p] # None => Owner[room[p]] = p /\ Attached(room[p])

\* No command about this person is under way.
Settled(p) == \A t \in Tasks : task[t].target = p => task[t].step = "idle"

\* Nobody denied or removed receives what the room broadcasts, once the command
\* has returned: not even on a socket that was resolved before and registered
\* after the hub was told to disconnect them (Connection.approved, which
\* Hub.broadcast trusts; deny_participant, remove_participant, _greet).
Refused(p) == state[p] \in {"denied", "removed"}
Greeted(c) == pc[c] \in {"greeted", "live"}
RefusalSilences ==
    \A p \in People :
        (room[p] # None /\ Greeted(room[p]) /\ Refused(p) /\ Settled(p))
            => ~approved[room[p]]

\* A row never shows somebody as connected when no coroutine is left that
\* will clear the flag (session_socket and _farewell).
Answerable(c) == pc[c] \in {"marked", "refreshed", "greeted", "live", "leaving"}
NoGhostPresence ==
    \A p \in People : connected[p] =>
        \E c \in Conns : Owner[c] = p /\ Answerable(c) /\ seenConn[c]

\* Nobody who was refused, removed or had left is back without a host's
\* approval: no late write of a stale row may re-admit them.
OnlyApprovalReadmits ==
    [][\A p \in People :
         /\ state[p] \in {"denied", "removed", "left"}
         /\ state'[p] \in {"pending", "approved"}
         => \E t \in Tasks : task[t].kind = "approve" /\ task[t].target = p
                             /\ task[t].step = "read" /\ task'[t].step = "committed"]_vars

\* A socket that has gone, for whatever reason, is eventually out of the room
\* and its coroutine over (session_socket's finally clause).
GoneIsForgotten ==
    \A c \in Conns : (Attached(c) /\ ~open[c]) ~> (pc[c] = "done" /\ room[Owner[c]] # c)

\* Somebody who closes the lobby does not stay in the waiting list (_farewell).
LobbyEmpties ==
    \A c \in Conns :
        (pc[c] = "live" /\ ~open[c] /\ seenState[c] = "pending") ~> (state[Owner[c]] # "pending")

-----------------------------------------------------------------------------
(* What the code's own comments promise and these interleavings refute.    *)

\* "Someone who closed the lobby before being admitted is simply gone": only
\* they are.  When a connection that was admitted goes away, its owner's row
\* stays approved, so that the same token opens the next socket.
AdmissionSurvivesLeaving ==
    [][\A c \in Conns :
         /\ pc[c] = "leaving" /\ pc'[c] = "done"
         /\ approved[c] /\ state[Owner[c]] = "approved"
         => state'[Owner[c]] = "approved"]_vars

\* "Re-read the row, or we would greet an already-approved person as pending
\* and undo their own approval": with no command in flight, a greeted
\* connection whose owner is approved is one.
ApprovalReachesSocket ==
    \A p \in People :
        (room[p] # None /\ Greeted(room[p]) /\ state[p] = "approved" /\ Settled(p))
            => approved[room[p]]

\* "pending participants sit in a lobby and receive nothing but their own
\* status": the greeting sends the project to nobody who was never let in.
ProjectForAdmitted ==
    [][\A c \in Conns :
         ShowsProject(c) /\ Receives(Owner[c]) => Owner[c] \in admitted]_vars
=============================================================================
