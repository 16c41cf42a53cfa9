-------------------------------- MODULE Roles --------------------------------
(***************************************************************************)
(* What one admitted person may do: their role, and whether the session    *)
(* takes edits at all.                                                     *)
(*                                                                         *)
(* The role is a column of the row and, while a socket is up, a field of   *)
(* its connection, which _edit consults (app/routers/ws.py).  Commands     *)
(* write the row first and the connection when their commit has returned   *)
(* (change_role, approve_participant in app/actions.py); the greeting      *)
(* assigns the connection what it re-read one await earlier.  An edit that *)
(* passed both tests is stored two awaits later, whatever has changed.     *)
(*                                                                         *)
(* Admission is Membership.tla's, how the hub's status follows the row's   *)
(* Lifecycle.tla's: here the hub's is either open to edits or not.         *)
(***************************************************************************)
EXTENDS Naturals

CONSTANTS Tasks \* commands about this person in flight at one time (a bound)

RoleNames == {"viewer", "editor"}

VARIABLES
    role,    \* Participant.role
    socket,  \* the coroutine of the person's socket
    conn,    \* Connection.role of that socket
    reread,  \* the role that the greeting has re-read
    taking,  \* Hub._status lets edits through
    frame,   \* an edit on its way to the database
    grant,   \* the commands
    raced,   \* history: the last commands, or command and greeting, overlapped
    late     \* history: edits stored since this person could do none

roleVars == <<role, socket, conn, reread, taking, frame, grant, raced, late>>

IdleGrant == [step |-> "idle", from |-> "viewer", to |-> "viewer"]

RolesInit ==
    /\ role = "viewer"
    /\ socket = "away" /\ conn = "viewer" /\ reread = "viewer"
    /\ taking = TRUE /\ frame = FALSE
    /\ grant = [t \in Tasks |-> IdleGrant]
    /\ raced = FALSE /\ late = 0

AtRest == \A t \in Tasks : grant[t].step = "idle"

\* The person may not edit, and nothing is under way that will still make it so.
Barred ==
    /\ socket = "live" /\ ~raced /\ AtRest
    /\ role = "viewer" \/ ~taking

\* Edits are counted for as long as the person is barred.
Recount ==
    late' = IF ~Barred' THEN 0
            ELSE IF Barred /\ frame /\ ~frame' /\ late < 2 THEN late + 1 ELSE late

-----------------------------------------------------------------------------
(* The socket.                                                             *)

\* The token is resolved and the connection made and registered.
Opens ==
    /\ socket = "away"
    /\ socket' = "registered" /\ conn' = role
    /\ UNCHANGED <<role, reread, taking, frame, grant, raced>>
    /\ Recount

\* The SELECT of db.refresh is answered.
Rereads ==
    /\ socket = "registered"
    /\ socket' = "reread" /\ reread' = role
    /\ raced' = (raced /\ ~AtRest)
    /\ UNCHANGED <<role, conn, taking, frame, grant>>
    /\ Recount

Greets ==
    /\ socket = "reread"
    /\ socket' = "live" /\ conn' = reread
    /\ UNCHANGED <<role, reread, taking, frame, grant, raced>>
    /\ Recount

\* The socket is gone, at any moment but while a frame is being handled.
Closes ==
    /\ socket # "away" /\ ~frame
    /\ socket' = "away"
    /\ UNCHANGED <<role, conn, reread, taking, frame, grant, raced>>
    /\ Recount

\* _edit: the role and the hub's status are looked at, before any await.
MayEditMutant == taking
MayEdit == conn = "editor" /\ taking

Accept ==
    /\ socket = "live" /\ ~frame
    /\ MayEdit
    /\ frame' = TRUE
    /\ UNCHANGED <<role, socket, conn, reread, taking, grant, raced>>
    /\ Recount

\* The edit is committed.
Store ==
    /\ frame
    /\ frame' = FALSE
    /\ UNCHANGED <<role, socket, conn, reread, taking, grant, raced>>
    /\ Recount

-----------------------------------------------------------------------------
(* Commands, from the host's socket or over REST.                          *)

\* The row is loaded by a database session of the command's own.
Begins(t, to) ==
    /\ grant[t].step = "idle"
    /\ grant' = [grant EXCEPT ![t] = [step |-> "read", from |-> role, to |-> to]]
    /\ raced' = ~AtRest
    /\ UNCHANGED <<role, socket, conn, reread, taking, frame>>
    /\ Recount

\* A column assigned the value it was loaded with is not written.
Commits(t) ==
    /\ grant[t].step = "read"
    /\ role' = IF grant[t].to = grant[t].from THEN role ELSE grant[t].to
    /\ grant' = [grant EXCEPT ![t].step = "committed"]
    /\ raced' = (raced \/ socket = "reread")
    /\ UNCHANGED <<socket, conn, reread, taking, frame>>
    /\ Recount

\* hub.get finds the connection from the moment it is registered.
ToldRoleMutant(t) == conn
ToldRole(t) == IF socket = "away" THEN conn ELSE grant[t].to

Applies(t) ==
    /\ grant[t].step = "committed"
    /\ conn' = ToldRole(t)
    /\ grant' = [grant EXCEPT ![t] = IdleGrant]
    /\ UNCHANGED <<role, socket, reread, taking, frame, raced>>
    /\ Recount

\* The host pauses or resumes.
Pauses ==
    /\ taking' = ~taking
    /\ UNCHANGED <<role, socket, conn, reread, frame, grant, raced>>
    /\ Recount

RolesNext ==
    \/ Opens \/ Rereads \/ Greets \/ Closes \/ Accept \/ Store \/ Pauses
    \/ \E t \in Tasks : Commits(t) \/ Applies(t) \/ \E to \in RoleNames : Begins(t, to)

RolesSpec == RolesInit /\ [][RolesNext]_roleVars

-----------------------------------------------------------------------------
(* Properties.                                                             *)

RolesTypeOK ==
    /\ role \in RoleNames /\ conn \in RoleNames /\ reread \in RoleNames
    /\ socket \in {"away", "registered", "reread", "live"}
    /\ taking \in BOOLEAN /\ frame \in BOOLEAN /\ raced \in BOOLEAN
    /\ grant \in [Tasks -> [step : {"idle", "read", "committed"},
                            from : RoleNames, to : RoleNames]]
    /\ late \in 0..2

\* Whoever was made a viewer, or whose session was paused, gets at most the
\* one edit stored that had been accepted before, unless two commands, or a
\* command and the greeting, overlapped (_edit, change_role, _greet).
OneEditLate == late <= 1

\* Unless they overlapped, the row and the live connection agree on the role
\* as soon as no command is in flight (change_role, _greet).
RolesAgree == socket = "live" /\ AtRest /\ ~raced => conn = role
=============================================================================
