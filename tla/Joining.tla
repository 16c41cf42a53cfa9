------------------------------- MODULE Joining -------------------------------
(***************************************************************************)
(* Guests joining one session by its code (join_session in                 *)
(* app/routers/sessions.py), its capacity, and the host who must hear of   *)
(* everybody that waits.                                                   *)
(*                                                                         *)
(* A request loads the session, counts the people in it and inserts the    *)
(* newcomer, awaiting the database each time, and goes on with the session *)
(* as it loaded it.  Only then is the host told: by a join_request, and by *)
(* a roster that is read after the commit.  A host who connects is sent a  *)
(* roster that is read after the connection was registered.                *)
(*                                                                         *)
(* Whether an address may ask at all is RateLimiter.tla's, which code      *)
(* belongs to which session JoinCodes.tla's; how a row changes once it is  *)
(* there, and what else is sent then, is Membership.tla's, and one step    *)
(* here.                                                                   *)
(***************************************************************************)
EXTENDS Integers, FiniteSets

CONSTANTS
    Guests,   \* everybody who may get a row; asking again makes a new one
    Requests, \* POST /join in flight at one time (a bound)
    Caps,     \* what session_edit may set max_participants to
    Nobody    \* a request that is not in flight

ASSUME JoiningAssumption ==
    /\ IsFiniteSet(Guests) /\ Nobody \notin Guests
    /\ IsFiniteSet(Requests) /\ Requests # {}
    /\ Caps \subseteq Nat \ {0} /\ Caps # {}

VARIABLES
    life,       \* the session: live, ended, or its row gone
    erasing,    \* who is about to delete it: the desk, which has closed the
                \* room, or the sweep
    cap, high,  \* max_participants, and history: the highest it ever was
    place,      \* the participant rows, but for the host's own, which stays
    ask,        \* the requests
    host,       \* the host's connection
    listed,     \* who waits, on the roster that its greeting has read
    told,       \* who that connection was told is waiting
    readmitted  \* history: those there who were approved after they had left
                \* or been refused

joinVars == <<life, erasing, cap, high, place, ask, host, listed, told, readmitted>>

IdleAsk == [step |-> "idle", who |-> Nobody, cap |-> 1, state |-> "approved", seen |-> {}]

JoinInit ==
    /\ life = "live" /\ erasing = "nobody"
    /\ cap \in Caps /\ high = cap
    /\ place = [p \in Guests |-> "none"]
    /\ ask = [r \in Requests |-> IdleAsk]
    /\ host = "away" /\ listed = {} /\ told = {}
    /\ readmitted = {}

Active(p) == place[p] \in {"pending", "approved"}
Seated == {p \in Guests : Active(p)}
Waiting == {p \in Guests : place[p] = "pending"}
AskedBy(p) == \E r \in Requests : ask[r].who = p

-----------------------------------------------------------------------------
(* join_session.                                                           *)

\* The code is some live session's that takes guests, and the caller has not
\* asked too often; otherwise nothing happens.
Find(r, p) ==
    /\ ask[r].step = "idle" /\ life = "live"
    /\ place[p] = "none" /\ ~AskedBy(p)
    /\ \E state \in {"pending", "approved"} :
          ask' = [ask EXCEPT ![r] =
            [step |-> "found", who |-> p, cap |-> cap, state |-> state, seen |-> {}]]
    /\ UNCHANGED <<life, erasing, cap, high, place, host, listed, told, readmitted>>

\* active_participant_count, the host included, against the cap as loaded.
HasSeatMutant(r) == 1 + Cardinality(Seated) <= ask[r].cap
HasSeat(r) == 1 + Cardinality(Seated) < ask[r].cap

Count(r) ==
    /\ ask[r].step = "found"
    /\ ask' = [ask EXCEPT ![r] = IF HasSeat(r) THEN [@ EXCEPT !.step = "counted"] ELSE IdleAsk]
    /\ UNCHANGED <<life, erasing, cap, high, place, host, listed, told, readmitted>>

\* A session that ended meanwhile takes the row all the same.
Insert(r) ==
    /\ ask[r].step = "counted" /\ life # "gone"
    /\ place' = [place EXCEPT ![ask[r].who] = ask[r].state]
    /\ ask' = [ask EXCEPT ![r].step = "stored"]
    /\ UNCHANGED <<life, erasing, cap, high, host, listed, told, readmitted>>

\* The session was deleted; or two requests, which each hold the session's row
\* for their newcomer and want to touch it, are a deadlock that costs one.
InsertFails(r) ==
    /\ ask[r].step = "counted"
    /\ \/ life = "gone"
       \/ \E q \in Requests \ {r} : ask[q].step = "counted"
    /\ ask' = [ask EXCEPT ![r] = IdleAsk]
    /\ UNCHANGED <<life, erasing, cap, high, place, host, listed, told, readmitted>>

\* notify_hosts reaches whatever the hub has registered, greeted or not.
NotifiedMutant == host = "live"
Notified == host \in {"registered", "reading", "live"}

Notify(r) ==
    /\ ask[r].step = "stored"
    /\ told' = IF Notified /\ ask[r].state = "pending" THEN told \cup {ask[r].who} ELSE told
    /\ ask' = [ask EXCEPT ![r].step = "asked"]
    /\ UNCHANGED <<life, erasing, cap, high, place, host, listed, readmitted>>

\* broadcast_roster: read, then sent.
RosterRead(r) ==
    /\ ask[r].step = "asked"
    /\ ask' = [ask EXCEPT ![r].step = "read", ![r].seen = Waiting]
    /\ UNCHANGED <<life, erasing, cap, high, place, host, listed, told, readmitted>>

RosterSent(r) ==
    /\ ask[r].step = "read"
    /\ told' = IF Notified THEN told \cup ask[r].seen ELSE told
    /\ ask' = [ask EXCEPT ![r] = IdleAsk]
    /\ UNCHANGED <<life, erasing, cap, high, place, host, listed, readmitted>>

-----------------------------------------------------------------------------
(* The host's connection: the token is resolved, then register, then       *)
(* _greet.                                                                 *)

HostResolves ==
    /\ host = "away" /\ life = "live"
    /\ host' = "resolved"
    /\ UNCHANGED <<life, erasing, cap, high, place, ask, listed, told, readmitted>>

HostRegisters ==
    /\ host = "resolved"
    /\ host' = "registered"
    /\ UNCHANGED <<life, erasing, cap, high, place, ask, listed, told, readmitted>>

GreetingReads ==
    /\ host = "registered" /\ life # "gone"
    /\ host' = "reading"
    /\ listed' = Waiting
    /\ UNCHANGED <<life, erasing, cap, high, place, ask, told, readmitted>>

GreetingSends ==
    /\ host = "reading"
    /\ host' = "live"
    /\ told' = told \cup listed
    /\ listed' = {}
    /\ UNCHANGED <<life, erasing, cap, high, place, ask, readmitted>>

HostGoneMutant == host' = "away" /\ UNCHANGED <<listed, told>>
HostGone == host' = "away" /\ listed' = {} /\ told' = {}

\* close_room finds nobody who has not registered yet.
RoomCloses ==
    /\ host' = IF host = "resolved" THEN host ELSE "away"
    /\ listed' = {} /\ told' = {}

HostLeaves ==
    /\ host # "away" /\ HostGone
    /\ UNCHANGED <<life, erasing, cap, high, place, ask, readmitted>>

-----------------------------------------------------------------------------
(* Everything else that moves the rows.                                    *)

\* Denied, removed, or gone from the lobby.
Departs(p) ==
    /\ Active(p)
    /\ place' = [place EXCEPT ![p] = "out"]
    /\ readmitted' = readmitted \ {p}
    /\ UNCHANGED <<life, erasing, cap, high, ask, host, listed, told>>

\* approve_participant asks neither about the cap nor whether they had left.
Approved(p) ==
    /\ place[p] \in {"pending", "out"}
    /\ place' = [place EXCEPT ![p] = "approved"]
    /\ readmitted' = IF place[p] = "out" THEN readmitted \cup {p} ELSE readmitted
    /\ UNCHANGED <<life, erasing, cap, high, ask, host, listed, told>>

\* session_edit, which may go below the number of people there.  It refuses an
\* ended session, but one may end before the edit is committed.
SetCap(n) ==
    /\ life # "gone" /\ n # cap
    /\ cap' = n
    /\ high' = IF n > high THEN n ELSE high
    /\ UNCHANGED <<life, erasing, place, ask, host, listed, told, readmitted>>

\* set_status, from whoever, closes the room; end_idle_sessions does not.  The
\* dashboard can bring the session back.
Ends ==
    /\ life = "live" /\ life' = "ended"
    /\ RoomCloses
    /\ UNCHANGED <<erasing, cap, high, place, ask, readmitted>>

EndsIdle ==
    /\ life = "live" /\ life' = "ended"
    /\ UNCHANGED <<erasing, cap, high, place, ask, host, listed, told, readmitted>>

Revives ==
    /\ life = "ended" /\ life' = "live"
    /\ UNCHANGED <<erasing, cap, high, place, ask, host, listed, told, readmitted>>

\* delete_session closes the room, then deletes row after row.
EraseBegins ==
    /\ erasing = "nobody" /\ life # "gone"
    /\ erasing' = "desk"
    /\ RoomCloses
    /\ UNCHANGED <<life, cap, high, place, ask, readmitted>>

\* purge_sessions reads which sessions have ended, and closes no room.
PurgeBegins ==
    /\ erasing = "nobody" /\ life = "ended"
    /\ erasing' = "sweep"
    /\ UNCHANGED <<life, cap, high, place, ask, host, listed, told, readmitted>>

\* The commit of either: the rows go with the session.
Erased ==
    /\ erasing # "nobody" /\ erasing' = "nobody"
    /\ life' = "gone"
    /\ place' = [p \in Guests |-> "none"] /\ readmitted' = {}
    /\ UNCHANGED <<cap, high, ask, host, listed, told>>

\* The process restarts.
JoinRestart ==
    /\ ask' = [r \in Requests |-> IdleAsk]
    /\ erasing' = "nobody"
    /\ HostGone
    /\ UNCHANGED <<life, cap, high, place, readmitted>>

JoinRequest(r) ==
    Count(r) \/ Insert(r) \/ InsertFails(r) \/ Notify(r) \/ RosterRead(r) \/ RosterSent(r)

JoinNext ==
    \/ \E r \in Requests : JoinRequest(r) \/ \E p \in Guests : Find(r, p)
    \/ HostResolves \/ HostRegisters \/ GreetingReads \/ GreetingSends \/ HostLeaves
    \/ \E p \in Guests : Departs(p) \/ Approved(p)
    \/ \E n \in Caps : SetCap(n)
    \/ Ends \/ EndsIdle \/ Revives \/ EraseBegins \/ PurgeBegins \/ Erased \/ JoinRestart

JoinSpec == JoinInit /\ [][JoinNext]_joinVars

-----------------------------------------------------------------------------
(* Properties.                                                             *)

Places == {"none", "pending", "approved", "out"}

JoinTypeOK ==
    /\ life \in {"live", "ended", "gone"} /\ erasing \in {"nobody", "desk", "sweep"}
    /\ cap \in Caps /\ high \in Caps
    /\ place \in [Guests -> Places]
    /\ ask \in [Requests ->
         [step : {"idle", "found", "counted", "stored", "asked", "read"}, who : Guests \cup {Nobody},
          cap : Nat \ {0}, state : {"pending", "approved"}, seen : SUBSET Guests]]
    /\ host \in {"away", "resolved", "registered", "reading", "live"}
    /\ listed \subseteq Guests /\ (host # "reading" => listed = {})
    /\ told \subseteq Guests /\ (host \in {"away", "resolved"} => told = {})
    /\ readmitted \subseteq Guests

\* Requests that race for the last seat pass the cap by at most one seat each
\* but for the first, whatever the dashboard makes of the cap meanwhile and
\* however many have left; only a host who lets somebody back in goes further
\* (join_session, active_participant_count).
SeatsBounded ==
    Cardinality(Seated \ readmitted) + 1 < high + Cardinality(Requests)

\* A greeted host has heard of everybody who waits and whose request has been
\* answered, in whatever order the two of them arrived: nobody knocks unheard
\* (join_session, _greet; db.py on "a newcomer in the lobby").
KnockHeard ==
    host = "live" =>
        \A p \in Guests : place[p] = "pending" /\ ~AskedBy(p) => p \in told

-----------------------------------------------------------------------------
(* What a comment promises and these interleavings refute.                 *)

\* "Anyone still connected is disconnected first: deleting the row under an
\* open socket would leave the extension talking to a session that no longer
\* exists": when the dashboard's deletion is committed, no host sits in the
\* session, connected and greeted (delete_session).
DisconnectedFirst ==
    [][erasing = "desk" /\ erasing' = "nobody" /\ life' = "gone" => host # "live"]_joinVars
=============================================================================
