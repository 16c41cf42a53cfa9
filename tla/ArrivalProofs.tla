---------------------------- MODULE ArrivalProofs ----------------------------
(***************************************************************************)
(* Theorems about Joining.tla, JoinCodes.tla and Roles.tla, for any        *)
(* guests, requests, caps, sessions, codes and commands in flight.         *)
(***************************************************************************)
EXTENDS Joining, JoinCodes, Roles, FiniteSetTheorems, TLAPS

-----------------------------------------------------------------------------
(* Join codes.                                                             *)

\* A request that is in flight has a row and a code.
CodesInv ==
    /\ CodesTypeOK
    /\ \A d \in Drawers : draw[d].kind # "none" => draw[d].row \in Sessions /\ draw[d].code \in Codes

\* Every variable keeps its type (create_session, rotate_code, set_status,
\* session_delete).
THEOREM CodesTypeCorrect == CodesSpec => []CodesInv
<1> USE DEF CodesInv, CodesTypeOK
<1>1. CodesInit => CodesInv
  BY DEF CodesInit, IdleDraw
<1>2. CodesInv /\ [CodesNext]_codeVars => CodesInv'
  <2> SUFFICES ASSUME CodesInv, [CodesNext]_codeVars PROVE CodesInv'
    OBVIOUS
  <2>1. ASSUME NEW d \in Drawers, NEW s \in Sessions, NEW c \in Codes,
               DrawsNew(d, s, c) \/ DrawsNext(d, s, c)
        PROVE  CodesInv'
    BY <2>1 DEF DrawsNew, DrawsNext
  <2>2. ASSUME NEW d \in Drawers, Writes(d) PROVE CodesInv'
    BY <2>2 DEF Writes, IdleDraw
  <2>3. ASSUME NEW d \in Drawers, WriteFails(d) PROVE CodesInv'
    BY <2>3 DEF WriteFails, IdleDraw
  <2>4. ASSUME NEW s \in Sessions, EndOrRevive(s) \/ Deletes(s) PROVE CodesInv'
    BY <2>4 DEF EndOrRevive, Deletes
  <2>5. CASE UNCHANGED codeVars
    BY <2>5 DEF codeVars
  <2> QED BY <2>1, <2>2, <2>3, <2>4, <2>5 DEF CodesNext
<1> QED BY <1>1, <1>2, PTL DEF CodesSpec

(***************************************************************************)
(* How a code comes to be drawn again, and no other way: a row that was    *)
(* written over or deleted gave it up.  What no row gives up stays taken,  *)
(* because the rows of ended sessions are asked too.                       *)
(***************************************************************************)
GivenUp == \E s \in Sessions : code[s] # NoRow /\ code'[s] # code[s]

\* Without a rotation or a deletion no code is drawn that any session ever had,
\* however many requests draw and write at once and whatever has ended
\* (unique_join_code).
THEOREM Recycled_If_Given_Up == CodesSpec /\ [][~GivenUp]_codeVars => NeverRecycled
<1> DEFINE StillTaken == \A c \in used : ~Unused(c)
<1>1. CodesInit => StillTaken
  BY DEF CodesInit
<1>2. CodesInv /\ StillTaken /\ [CodesNext]_codeVars /\ [~GivenUp]_codeVars => StillTaken'
  <2> SUFFICES ASSUME CodesInv, StillTaken, [CodesNext]_codeVars, [~GivenUp]_codeVars
               PROVE  StillTaken'
    OBVIOUS
  <2> USE DEF CodesInv, CodesTypeOK, Unused
  <2>1. \A s \in Sessions : code[s] # NoRow => code'[s] = code[s]
    BY DEF GivenUp, codeVars
  <2>2. ASSUME NEW d \in Drawers, Writes(d) PROVE StillTaken'
    <3>1. /\ draw[d].row \in Sessions /\ used' = used \cup {draw[d].code}
          /\ code' = [code EXCEPT ![draw[d].row] = draw[d].code]
      BY <2>2 DEF Writes
    <3>2. code'[draw[d].row] = draw[d].code
      BY <3>1
    <3>3. ASSUME NEW c \in used PROVE \E s \in Sessions : code'[s] = c
      <4>1. PICK s \in Sessions : code[s] = c
        OBVIOUS
      <4>2. c # NoRow
        BY JoinCodesAssumption
      <4> QED
        BY <2>1, <4>1, <4>2
    <3> QED
      BY <3>1, <3>2, <3>3
  <2>3. CASE UNCHANGED used
    <3>1. ASSUME NEW c \in used PROVE \E s \in Sessions : code'[s] = c
      <4>1. PICK s \in Sessions : code[s] = c
        OBVIOUS
      <4> QED
        BY <2>1, <4>1, JoinCodesAssumption
    <3> QED
      BY <2>3, <3>1
  <2> QED
    BY <2>2, <2>3 DEF CodesNext, codeVars, DrawsNew, DrawsNext, WriteFails, EndOrRevive, Deletes
<1>3. CodesInv /\ StillTaken /\ [CodesNext]_codeVars =>
        [\A d \in Drawers : draw[d].kind = "none" /\ draw'[d].kind # "none" =>
            draw'[d].code \notin used]_codeVars
  <2> SUFFICES ASSUME CodesInv, StillTaken, CodesNext, NEW d \in Drawers,
                      draw[d].kind = "none", draw'[d].kind # "none"
               PROVE  draw'[d].code \notin used
    OBVIOUS
  <2> USE DEF CodesInv, CodesTypeOK
  <2>1. ASSUME NEW e \in Drawers, NEW s \in Sessions, NEW c \in Codes,
               DrawsNew(e, s, c) \/ DrawsNext(e, s, c)
        PROVE  draw'[d].code \notin used
    <3>1. Unused(c) /\ draw'[d].code = c
      BY <2>1 DEF DrawsNew, DrawsNext
    <3> QED
      BY <3>1
  <2>2. ASSUME NEW e \in Drawers, Writes(e) \/ WriteFails(e) PROVE FALSE
    BY <2>2 DEF Writes, WriteFails, IdleDraw
  <2>3. ASSUME NEW s \in Sessions, EndOrRevive(s) \/ Deletes(s) PROVE FALSE
    BY <2>3 DEF EndOrRevive, Deletes
  <2> QED
    BY <2>1, <2>2, <2>3 DEF CodesNext
<1> QED BY <1>1, <1>2, <1>3, CodesTypeCorrect, PTL DEF CodesSpec, NeverRecycled

-----------------------------------------------------------------------------
(* Roles.                                                                  *)

Committed(t) == grant[t].step = "committed"

\* What is true while no two commands, and no command and the greeting, have
\* overlapped: at most one command is in flight, it wrote over the role it had
\* read, and what the connection has or is about to be given is the row's role
\* but for what that command still has to tell it.
InStep ==
    /\ \A t, u \in Tasks : grant[t].step # "idle" /\ grant[u].step # "idle" => t = u
    /\ \A t \in Tasks : grant[t].step = "read" => grant[t].from = role
    /\ \A t \in Tasks : Committed(t) => grant[t].to = role
    /\ AtRest /\ socket = "live" => conn = role
    /\ socket = "reread" /\ (AtRest \/ \E t \in Tasks : Committed(t)) => reread = role

RolesInv ==
    /\ RolesTypeOK
    /\ ~raced => InStep
    /\ late > 0 => late = 1 /\ Barred /\ ~frame

\* What commands, greeting and edits keep of it, one operation at a time
\* (change_role, approve_participant, _greet, _edit).
LEMMA RolesInductive == RolesInv /\ [RolesNext]_roleVars => RolesTypeOK' /\ (~raced => InStep)'
<1> SUFFICES ASSUME RolesInv, [RolesNext]_roleVars
             PROVE  RolesTypeOK' /\ (~raced => InStep)'
  OBVIOUS
<1> USE DEF RolesInv, RolesTypeOK, RoleNames
<1>1. ASSUME Recount PROVE late' \in 0..2
  BY <1>1 DEF Recount
<1>2. CASE Opens
  BY <1>1, <1>2 DEF Opens, InStep, AtRest, Committed
<1>3. CASE Rereads
  BY <1>1, <1>3 DEF Rereads, InStep, AtRest, Committed
<1>4. CASE Greets
  BY <1>1, <1>4 DEF Greets, InStep, AtRest, Committed
<1>5. CASE Closes
  BY <1>1, <1>5 DEF Closes, InStep, AtRest, Committed
<1>6. CASE Accept \/ Store \/ Pauses
  <2>1. UNCHANGED <<role, socket, conn, reread, grant, raced>> /\ Recount
    BY <1>6 DEF Accept, Store, Pauses
  <2>2. frame' \in BOOLEAN /\ taking' \in BOOLEAN
    BY <1>6 DEF Accept, Store, Pauses
  <2> QED BY <1>1, <2>1, <2>2 DEF InStep, AtRest, Committed
<1>7. ASSUME NEW t \in Tasks, NEW to \in RoleNames, Begins(t, to)
      PROVE  RolesTypeOK' /\ (~raced => InStep)'
  <2>1. RolesTypeOK'
    BY <1>1, <1>7 DEF Begins
  <2>2. ASSUME ~raced' PROVE InStep'
    BY <1>7, <2>2 DEF Begins, InStep, AtRest, Committed
  <2> QED BY <2>1, <2>2
<1>8. ASSUME NEW t \in Tasks, Commits(t)
      PROVE  RolesTypeOK' /\ (~raced => InStep)'
  <2>1. RolesTypeOK'
    BY <1>1, <1>8 DEF Commits
  <2>2. ASSUME ~raced' PROVE InStep'
    BY <1>8, <2>2 DEF Commits, InStep, AtRest, Committed
  <2> QED BY <2>1, <2>2
<1>9. ASSUME NEW t \in Tasks, Applies(t)
      PROVE  RolesTypeOK' /\ (~raced => InStep)'
  <2>1. RolesTypeOK'
    BY <1>1, <1>9 DEF Applies, ToldRole, IdleGrant
  <2>2. ASSUME ~raced' PROVE InStep'
    BY <1>9, <2>2 DEF Applies, ToldRole, IdleGrant, InStep, AtRest, Committed
  <2> QED BY <2>1, <2>2
<1>10. CASE UNCHANGED roleVars
  BY <1>10 DEF roleVars, InStep, AtRest, Committed
<1> QED BY <1>2, <1>3, <1>4, <1>5, <1>6, <1>7, <1>8, <1>9, <1>10 DEF RolesNext

\* Nobody who is barred has another edit accepted: the connection's role is
\* the row's, and it is a viewer's, or the hub takes none.
LEMMA NoEditWhileBarred == RolesInv /\ Barred /\ MayEdit => FALSE
BY DEF RolesInv, InStep, Barred, MayEdit, RolesTypeOK, RoleNames

\* Every variable keeps its type, and the last two theorems' invariant.
THEOREM RolesTypeCorrect == RolesSpec => []RolesInv
<1>1. RolesInit => RolesInv
  <2> SUFFICES ASSUME RolesInit PROVE RolesInv
    OBVIOUS
  <2>1. RolesTypeOK /\ late = 0
    <3>1. grant \in [Tasks -> [step : {"idle", "read", "committed"}, from : RoleNames, to : RoleNames]]
      BY DEF RolesInit, RoleNames, IdleGrant
    <3>2. taking \in BOOLEAN /\ frame \in BOOLEAN /\ raced \in BOOLEAN
      BY Zenon DEF RolesInit
    <3>3. /\ role \in RoleNames /\ conn \in RoleNames /\ reread \in RoleNames
          /\ socket = "away" /\ late = 0
      BY DEF RolesInit, RoleNames
    <3> QED BY <3>1, <3>2, <3>3 DEF RolesTypeOK
  <2>2. InStep
    BY DEF RolesInit, InStep, AtRest, Committed, IdleGrant
  <2> QED BY <2>1, <2>2 DEF RolesInv
<1>2. RolesInv /\ [RolesNext]_roleVars => RolesInv'
  <2> SUFFICES ASSUME RolesInv, [RolesNext]_roleVars
               PROVE  late' > 0 => late' = 1 /\ Barred' /\ ~frame'
    BY RolesInductive DEF RolesInv
  <2>1. late \in 0..2 /\ (late > 0 => late = 1 /\ Barred /\ ~frame)
    BY DEF RolesInv, RolesTypeOK
  <2>2. CASE UNCHANGED roleVars
    BY <2>1, <2>2 DEF roleVars, Barred, AtRest
  <2>3. CASE RolesNext
    <3>1. Recount
      BY <2>3 DEF RolesNext, Opens, Rereads, Greets, Closes, Accept, Store, Begins, Commits,
                  Applies, Pauses
    <3>2. frame' => frame \/ (socket = "live" /\ MayEdit)
      BY <2>3 DEF RolesNext, Opens, Rereads, Greets, Closes, Accept, Store, Begins, Commits,
                  Applies, Pauses
    <3>3. Barred => ~MayEdit
      BY NoEditWhileBarred
    <3> QED BY <2>1, <3>1, <3>2, <3>3 DEF Recount
  <2> QED BY <2>2, <2>3
<1> QED BY <1>1, <1>2, PTL DEF RolesSpec

\* Whoever may edit no longer gets at most the one edit stored that had been
\* accepted before (_edit, change_role, _greet).
THEOREM AtMostOneEditLate == RolesSpec => []OneEditLate
<1>1. RolesInv => OneEditLate
  BY DEF RolesInv, RolesTypeOK, OneEditLate
<1> QED BY <1>1, RolesTypeCorrect, PTL

\* Row and connection agree on the role whenever no command is in flight and
\* none overlapped another or the greeting (change_role, _greet).
THEOREM RowAndSocketAgree == RolesSpec => []RolesAgree
<1>1. RolesInv => RolesAgree
  BY DEF RolesInv, RolesAgree, InStep
<1> QED BY <1>1, RolesTypeCorrect, PTL

-----------------------------------------------------------------------------
(* Joining.                                                                *)

\* A request has a person exactly while it is in flight.
JoinTyped ==
    /\ JoinTypeOK
    /\ \A r \in Requests : ask[r].step # "idle" => ask[r].who \in Guests
    /\ \A r \in Requests : ask[r].step = "idle" => ask[r].who = Nobody

\* Every variable keeps its type (join_session, approve_participant,
\* session_edit, _greet).
THEOREM JoinTypeCorrect == JoinSpec => []JoinTyped
<1> USE JoiningAssumption
<1>1. JoinInit => JoinTyped
  BY DEF JoinInit, JoinTyped, JoinTypeOK, Places, IdleAsk
<1>2. JoinTyped /\ [JoinNext]_joinVars => JoinTyped'
  <2> SUFFICES ASSUME JoinTyped, [JoinNext]_joinVars PROVE JoinTyped'
    OBVIOUS
  <2> USE DEF JoinTyped, JoinTypeOK, Places
  <2>1. ASSUME NEW r \in Requests, NEW p \in Guests, Find(r, p) PROVE JoinTyped'
    BY <2>1 DEF Find
  <2>2. ASSUME NEW r \in Requests, Count(r) \/ InsertFails(r) PROVE JoinTyped'
    <3>1. UNCHANGED <<life, erasing, cap, high, place, host, listed, told, readmitted>>
      BY <2>2 DEF Count, InsertFails
    <3>2. \/ ask[r].step = "found" /\ ask' = [ask EXCEPT ![r] = [ask[r] EXCEPT !.step = "counted"]]
          \/ ask' = [ask EXCEPT ![r] = IdleAsk]
      BY <2>2 DEF Count, InsertFails
    <3>3. CASE ask[r].step = "found" /\ ask' = [ask EXCEPT ![r] = [ask[r] EXCEPT !.step = "counted"]]
      BY <3>1, <3>3
    <3>4. CASE ask' = [ask EXCEPT ![r] = IdleAsk]
      BY <3>1, <3>4 DEF IdleAsk
    <3> QED BY <3>2, <3>3, <3>4
  <2>3. ASSUME NEW r \in Requests, Insert(r) PROVE JoinTyped'
    BY <2>3 DEF Insert
  <2>4. ASSUME NEW r \in Requests, Notify(r) PROVE JoinTyped'
    <3>1. told' \subseteq Guests /\ (host \in {"away", "resolved"} => told' = told)
      BY <2>4 DEF Notify, Notified
    <3>2. UNCHANGED <<life, erasing, cap, high, place, host, listed, readmitted>>
      BY <2>4 DEF Notify
    <3>3. ask' = [ask EXCEPT ![r].step = "asked"] /\ ask[r].step = "stored"
      BY <2>4 DEF Notify
    <3> QED BY <3>1, <3>2, <3>3
  <2>5. ASSUME NEW r \in Requests, RosterRead(r) PROVE JoinTyped'
    <3>1. Waiting \in SUBSET Guests
      BY DEF Waiting
    <3>2. ask[r].who \in Guests /\ ask[r].step = "asked"
      BY <2>5 DEF RosterRead
    <3>3. ask' = [ask EXCEPT ![r] = [ask[r] EXCEPT !.step = "read", !.seen = Waiting]]
      BY <2>5 DEF RosterRead
    <3>4. UNCHANGED <<life, erasing, cap, high, place, host, listed, told, readmitted>>
      BY <2>5 DEF RosterRead
    <3> QED BY <3>1, <3>2, <3>3, <3>4
  <2>6. ASSUME NEW r \in Requests, RosterSent(r) PROVE JoinTyped'
    <3>1. told' \subseteq Guests /\ (host \in {"away", "resolved"} => told' = told)
      BY <2>6 DEF RosterSent, Notified
    <3>2. UNCHANGED <<life, erasing, cap, high, place, host, listed, readmitted>>
      BY <2>6 DEF RosterSent
    <3>3. ask' = [ask EXCEPT ![r] = IdleAsk]
      BY <2>6 DEF RosterSent
    <3> QED BY <3>1, <3>2, <3>3 DEF IdleAsk
  <2>7. CASE HostResolves \/ HostRegisters \/ HostLeaves
    BY <2>7 DEF HostResolves, HostRegisters, HostLeaves, HostGone
  <2>13. CASE GreetingReads
    BY <2>13 DEF GreetingReads, Waiting
  <2>14. CASE GreetingSends
    BY <2>14 DEF GreetingSends
  <2>8. ASSUME NEW p \in Guests, Departs(p) \/ Approved(p) PROVE JoinTyped'
    BY <2>8 DEF Departs, Approved
  <2>9. ASSUME NEW n \in Caps, SetCap(n) PROVE JoinTyped'
    BY <2>9 DEF SetCap
  <2>10. CASE Ends \/ EndsIdle \/ Revives \/ EraseBegins \/ PurgeBegins \/ Erased
    BY <2>10 DEF Ends, EndsIdle, Revives, EraseBegins, PurgeBegins, Erased, RoomCloses
  <2>11. CASE JoinRestart
    BY <2>11 DEF JoinRestart, HostGone, IdleAsk
  <2>12. CASE UNCHANGED joinVars
    BY <2>12 DEF joinVars
  <2> QED
    BY <2>1, <2>2, <2>3, <2>4, <2>5, <2>6, <2>7, <2>8, <2>9, <2>10, <2>11, <2>12,
       <2>13, <2>14
       DEF JoinNext, JoinRequest
<1> QED BY <1>1, <1>2, PTL DEF JoinSpec

\* The requests that will take a seat, and the seats that nobody gave back to
\* somebody who had lost theirs.
Counted == {r \in Requests : ask[r].step = "counted"}
FairSeats == Seated \ readmitted

\* SeatsBounded is inductive once a request that has counted is taken for the
\* seat it is going to fill.
SeatsInv ==
    /\ cap <= high
    /\ \A r \in Requests : ask[r].cap <= high
    /\ \A r \in Counted : ask[r].cap > 1
    /\ Cardinality(FairSeats) + Cardinality(Counted) + 1 < high + Cardinality(Requests)

\* Seats and requests can be counted.
LEMMA SeatsAreFinite ==
    /\ IsFiniteSet(Seated) /\ IsFiniteSet(FairSeats) /\ IsFiniteSet(Counted)
    /\ Cardinality(Seated) \in Nat /\ Cardinality(FairSeats) \in Nat
    /\ Cardinality(FairSeats) <= Cardinality(Seated)
    /\ Cardinality(Counted) \in Nat /\ Cardinality(Requests) \in Nat
    /\ Cardinality(Counted) <= Cardinality(Requests)
    /\ Cardinality(Requests) > 0
<1>1. Seated \subseteq Guests /\ FairSeats \subseteq Seated /\ Counted \subseteq Requests
  BY DEF Seated, FairSeats, Counted
<1>2. IsFiniteSet(Seated) /\ IsFiniteSet(Counted)
  BY <1>1, FS_Subset, JoiningAssumption
<1>3. Cardinality(Requests) # 0
  BY FS_EmptySet, JoiningAssumption
<1> QED
  BY <1>1, <1>2, <1>3, FS_Subset, FS_CardinalityType, JoiningAssumption

\* ... and after a step.
LEMMA SeatsArePrimedFinite ==
    /\ Cardinality(FairSeats)' \in Nat /\ IsFiniteSet(FairSeats')
    /\ Cardinality(Counted)' \in Nat /\ IsFiniteSet(Counted')
    /\ Cardinality(Counted)' <= Cardinality(Requests)
<1>1. FairSeats' \subseteq Guests /\ Counted' \subseteq Requests
  BY DEF Seated, FairSeats, Counted
<1> QED
  BY <1>1, FS_Subset, FS_CardinalityType, JoiningAssumption

\* All that a step may do without a look at the numbers.
LEMMA FewerSeats ==
    ASSUME SeatsInv, high \in Nat, high' \in Nat, high <= high',
           FairSeats' \subseteq FairSeats, Counted' \subseteq Counted
    PROVE  (Cardinality(FairSeats) + Cardinality(Counted) + 1 < high + Cardinality(Requests))'
<1>1. Cardinality(FairSeats') <= Cardinality(FairSeats) /\ Cardinality(Counted') <= Cardinality(Counted)
  BY SeatsAreFinite, FS_Subset
<1> QED
  BY <1>1, SeatsAreFinite, SeatsArePrimedFinite DEF SeatsInv

\* Caps, as they are and as requests have loaded them, are positive numbers.
LEMMA Numbers == JoinTyped => cap \in Nat \ {0} /\ high \in Nat \ {0} /\ \A r \in Requests : ask[r].cap \in Nat \ {0}
BY JoiningAssumption DEF JoinTyped, JoinTypeOK

\* A request that passes the test at the cap it loaded is counted as a seat from
\* then on (active_participant_count).
LEMMA CountKeepsSeats ==
    ASSUME JoinTyped, SeatsInv, NEW r \in Requests, Count(r)
    PROVE  SeatsInv'
<1>0. high \in Nat \ {0} /\ \A q \in Requests : ask[q].cap \in Nat \ {0}
  BY Numbers
<1>1. UNCHANGED <<cap, high>> /\ FairSeats' = FairSeats
  BY DEF Count, FairSeats, Seated, Active
<1>2. CASE HasSeat(r)
  <2>1. ask' = [ask EXCEPT ![r] = [@ EXCEPT !.step = "counted"]] /\ ask[r].step = "found"
    BY <1>2 DEF Count
  <2>2. \A q \in Requests : ask'[q].cap = ask[q].cap
    BY <2>1 DEF JoinTyped, JoinTypeOK
  <2>3. Counted' = Counted \cup {r} /\ r \notin Counted
    BY <2>1 DEF Counted, JoinTyped, JoinTypeOK
  <2>4. 1 + Cardinality(Seated) < ask[r].cap /\ ask[r].cap <= high
    BY <1>2 DEF HasSeat, SeatsInv
  <2>5. Cardinality(FairSeats) + Cardinality(Counted') + 1 < high + Cardinality(Requests)
    BY <1>0, <2>4, SeatsAreFinite, SeatsArePrimedFinite
  <2>6. \A q \in Counted' : ask'[q].cap > 1
    <3>1. ask[r].cap > 1
      BY <1>0, <2>4, SeatsAreFinite
    <3>2. \A q \in Counted : q \in Requests /\ ask[q].cap > 1
      BY DEF SeatsInv, Counted
    <3> QED BY <2>2, <2>3, <3>1, <3>2
  <2> QED BY <1>1, <2>2, <2>5, <2>6 DEF SeatsInv
<1>3. CASE ~HasSeat(r)
  <2>1. ask' = [ask EXCEPT ![r] = IdleAsk]
    BY <1>3 DEF Count
  <2>2. Counted' \subseteq Counted /\ \A q \in Requests : ask'[q].cap <= high
    BY <1>0, <2>1 DEF Counted, JoinTyped, JoinTypeOK, IdleAsk, SeatsInv
  <2>3. \A q \in Counted' : ask'[q].cap > 1
    BY <2>1 DEF Counted, JoinTyped, JoinTypeOK, IdleAsk, SeatsInv
  <2>4. (Cardinality(FairSeats) + Cardinality(Counted) + 1 < high + Cardinality(Requests))'
    BY <1>0, <1>1, <2>2, FewerSeats
  <2> QED BY <1>1, <2>2, <2>3, <2>4 DEF SeatsInv
<1> QED BY <1>2, <1>3

\* Its row is then that seat (join_session).
LEMMA InsertKeepsSeats ==
    ASSUME JoinTyped, SeatsInv, NEW r \in Requests, Insert(r)
    PROVE  SeatsInv'
<1>0. high \in Nat \ {0}
  BY Numbers
<1>1. UNCHANGED <<cap, high, readmitted>> /\ ask[r].step = "counted"
  BY DEF Insert
<1>2. FairSeats' \subseteq FairSeats \cup {ask[r].who}
  BY DEF Insert, FairSeats, Seated, Active, JoinTyped, JoinTypeOK, Places
<1>3. Counted' = Counted \ {r} /\ r \in Counted
  BY DEF Insert, Counted, JoinTyped, JoinTypeOK
<1>4. Cardinality(Counted') = Cardinality(Counted) - 1
  BY <1>3, FS_RemoveElement, SeatsAreFinite
<1>5. Cardinality(FairSeats') <= Cardinality(FairSeats) + 1
  <2>0. /\ IsFiniteSet(FairSeats \cup {ask[r].who})
        /\ \/ Cardinality(FairSeats \cup {ask[r].who}) = Cardinality(FairSeats)
           \/ Cardinality(FairSeats \cup {ask[r].who}) = Cardinality(FairSeats) + 1
    BY FS_AddElement, SeatsAreFinite, Zenon
  <2>1. Cardinality(FairSeats \cup {ask[r].who}) <= Cardinality(FairSeats) + 1
    BY <2>0, SeatsAreFinite
  <2>2. IsFiniteSet(FairSeats \cup {ask[r].who})
    BY <2>0
  <2>3. Cardinality(FairSeats') <= Cardinality(FairSeats \cup {ask[r].who})
    BY <1>2, <2>2, FS_Subset
  <2>4. Cardinality(FairSeats \cup {ask[r].who}) \in Nat
    BY <2>2, FS_CardinalityType
  <2> QED BY <2>1, <2>3, <2>4, SeatsAreFinite, SeatsArePrimedFinite
<1>6. (Cardinality(FairSeats) + Cardinality(Counted) + 1 < high + Cardinality(Requests))'
  BY <1>0, <1>1, <1>4, <1>5, SeatsAreFinite, SeatsArePrimedFinite DEF SeatsInv
<1>7. \A q \in Requests : ask'[q].cap = ask[q].cap
  BY DEF Insert, JoinTyped, JoinTypeOK
<1> QED BY <1>1, <1>3, <1>6, <1>7 DEF SeatsInv, Counted

\* A deletion frees every seat (delete_session).
LEMMA DeletionKeepsSeats ==
    ASSUME JoinTyped, SeatsInv, Erased
    PROVE  SeatsInv'
<1>0. high \in Nat \ {0} /\ \A q \in Requests : ask[q].cap \in Nat \ {0}
  BY Numbers
<1>1. UNCHANGED <<cap, high, ask>>
  BY DEF Erased
<1>2. Counted' = Counted
  BY <1>1 DEF Counted
<1>3. FairSeats' = {}
  BY DEF Erased, FairSeats, Seated, Active
<1>4. Cardinality(FairSeats') = 0
  BY <1>3, FS_EmptySet
<1>5. Cardinality(Counted) + 1 < high + Cardinality(Requests)
  <2>1. CASE Counted = {}
    BY <1>0, <2>1, FS_EmptySet, SeatsAreFinite, SeatsArePrimedFinite DEF SeatsInv
  <2>2. CASE Counted # {}
    <3>1. PICK q \in Requests : ask[q].cap > 1 /\ ask[q].cap <= high
      BY <2>2 DEF Counted, SeatsInv
    <3>2. high > 1
      BY <1>0, <3>1
    <3> QED BY <1>0, <3>2, SeatsAreFinite
  <2> QED BY <2>1, <2>2
<1> QED BY <1>0, <1>1, <1>2, <1>4, <1>5, SeatsAreFinite DEF SeatsInv

\* No other step fills a seat or passes the test.
LEMMA OthersKeepSeats ==
    ASSUME JoinTyped, SeatsInv, [JoinNext]_joinVars,
           ~Erased, \A r \in Requests : ~Count(r) /\ ~Insert(r)
    PROVE  SeatsInv'
<1>0. /\ cap \in Nat \ {0} /\ high \in Nat \ {0}
      /\ \A q \in Requests : ask[q].cap \in Nat \ {0}
  BY Numbers
<1> USE DEF SeatsInv, Counted, FairSeats, Seated, Active, IdleAsk
<1>1. ASSUME UNCHANGED <<cap, high>>, FairSeats' \subseteq FairSeats,
             \A q \in Requests : \/ ask'[q].step # "counted" /\ ask'[q].cap <= high
                                 \/ ask'[q] = ask[q]
      PROVE  SeatsInv'
  <2>1. Counted' \subseteq Counted /\ \A q \in Counted' : ask'[q].cap > 1
    BY <1>1
  <2>2. \A q \in Requests : ask'[q].cap <= high
    BY <1>1
  <2>3. (Cardinality(FairSeats) + Cardinality(Counted) + 1 < high + Cardinality(Requests))'
    BY <1>0, <1>1, <2>1, FewerSeats
  <2> QED BY <1>1, <2>1, <2>2, <2>3
<1>2. ASSUME NEW r \in Requests, NEW p \in Guests, Find(r, p) PROVE SeatsInv'
  BY <1>0, <1>1, <1>2 DEF Find, JoinTyped, JoinTypeOK
<1>3. ASSUME NEW r \in Requests,
             InsertFails(r) \/ Notify(r) \/ RosterRead(r) \/ RosterSent(r)
      PROVE  SeatsInv'
  <2>1. UNCHANGED <<cap, high, place, readmitted>>
    BY <1>3 DEF InsertFails, Notify, RosterRead, RosterSent
  <2>2. \A q \in Requests : \/ ask'[q].step # "counted" /\ ask'[q].cap <= high
                            \/ ask'[q] = ask[q]
    BY <1>0, <1>3 DEF InsertFails, Notify, RosterRead, RosterSent, JoinTyped, JoinTypeOK
  <2> QED BY <1>1, <2>1, <2>2
<1>4. CASE \/ HostResolves \/ HostRegisters \/ GreetingReads \/ GreetingSends \/ HostLeaves
           \/ Ends \/ EndsIdle \/ Revives \/ EraseBegins \/ PurgeBegins
  BY <1>1, <1>4 DEF HostResolves, HostRegisters, GreetingReads, GreetingSends, HostLeaves,
                    Ends, EndsIdle, Revives, EraseBegins, PurgeBegins
<1>5. ASSUME NEW p \in Guests, Departs(p) \/ Approved(p) PROVE SeatsInv'
  <2>1. UNCHANGED <<cap, high, ask>>
    BY <1>5 DEF Departs, Approved
  <2>2. FairSeats' \subseteq FairSeats
    BY <1>5 DEF Departs, Approved, JoinTyped, JoinTypeOK
  <2> QED BY <1>1, <2>1, <2>2
<1>6. ASSUME NEW n \in Caps, SetCap(n) PROVE SeatsInv'
  <2>1. cap' = n /\ n \in Nat /\ high' \in Nat /\ high <= high' /\ cap' <= high'
    BY <1>0, <1>6, JoiningAssumption DEF SetCap
  <2>2. UNCHANGED <<ask, place, readmitted>>
    BY <1>6 DEF SetCap
  <2>3. Counted' = Counted /\ FairSeats' = FairSeats
    BY <2>2
  <2>4. (Cardinality(FairSeats) + Cardinality(Counted) + 1 < high + Cardinality(Requests))'
    BY <1>0, <2>1, <2>3, FewerSeats
  <2>5. \A q \in Requests : ask'[q].cap <= high'
    BY <1>0, <2>1, <2>2
  <2> QED BY <2>1, <2>2, <2>3, <2>4, <2>5
<1>7. CASE JoinRestart
  BY <1>0, <1>1, <1>7 DEF JoinRestart
<1>8. CASE UNCHANGED joinVars
  BY <1>1, <1>8 DEF joinVars
<1> QED
  BY <1>2, <1>3, <1>4, <1>5, <1>6, <1>7, <1>8 DEF JoinNext, JoinRequest

\* However requests race for the last seat, and whatever the dashboard makes of
\* the cap meanwhile, they pass it by at most one seat each but for the first
\* (join_session, active_participant_count).
THEOREM SeatsAreBounded == JoinSpec => []SeatsBounded
<1>1. JoinInit => SeatsInv
  <2> SUFFICES ASSUME JoinInit PROVE SeatsInv
    OBVIOUS
  <2>1. cap \in Nat \ {0} /\ high = cap
    BY JoiningAssumption DEF JoinInit
  <2>2. Counted = {} /\ FairSeats = {} /\ \A r \in Requests : ask[r].cap = 1
    BY DEF JoinInit, Counted, FairSeats, Seated, Active, IdleAsk
  <2> QED BY <2>1, <2>2, SeatsAreFinite, FS_EmptySet DEF SeatsInv
<1>2. JoinTyped /\ SeatsInv /\ [JoinNext]_joinVars => SeatsInv'
  BY CountKeepsSeats, InsertKeepsSeats, DeletionKeepsSeats, OthersKeepSeats
<1>3. JoinTyped /\ SeatsInv => SeatsBounded
  <2> SUFFICES ASSUME JoinTyped, SeatsInv PROVE SeatsBounded
    OBVIOUS
  <2>1. high \in Nat
    BY Numbers
  <2> QED BY <2>1, SeatsAreFinite DEF SeatsInv, SeatsBounded, FairSeats
<1> QED BY <1>1, <1>2, <1>3, JoinTypeCorrect, PTL DEF JoinSpec

\* p waits, and no request is still about to tell the host so.
Knocked(p) == place[p] = "pending" /\ \A r \in Requests : ask[r].who = p => ask[r].step # "stored"

\* KnockHeard is inductive once it also says what the greeting has read: the
\* two ways to hear of somebody overlap whichever of them comes first.
KnockInv ==
    /\ \A r \in Requests : ask[r].step \in {"found", "counted"} => place[ask[r].who] = "none"
    /\ \A r, q \in Requests : ask[r].who = ask[q].who /\ ask[r].who # Nobody => r = q
    /\ \A r \in Requests :
          ask[r].step = "stored" /\ place[ask[r].who] = "pending" => ask[r].state = "pending"
    /\ \A p \in Guests : Knocked(p) =>
          /\ host = "live" => p \in told
          /\ host = "reading" => p \in told \cup listed

\* No step of a request leaves somebody waiting whom the host has not heard of
\* and will not hear of (join_session, broadcast_roster).
LEMMA RequestsKeepKnocks ==
    ASSUME JoinTyped, KnockInv, NEW r \in Requests, JoinRequest(r)
    PROVE  KnockInv'
<1> USE JoiningAssumption DEF JoinTyped, JoinTypeOK, KnockInv, Knocked
<1>1. CASE Count(r)
  BY <1>1 DEF Count, IdleAsk
<1>2. CASE Insert(r)
  <2>1. /\ ask[r].who \in Guests /\ place[ask[r].who] = "none"
        /\ place' = [place EXCEPT ![ask[r].who] = ask[r].state]
        /\ ask' = [ask EXCEPT ![r].step = "stored"]
        /\ UNCHANGED <<host, listed, told>>
    BY <1>2 DEF Insert
  <2>2. \A q \in Requests : /\ ask'[q].who = ask[q].who /\ ask'[q].state = ask[q].state
                             /\ ask'[q].step = IF q = r THEN "stored" ELSE ask[q].step
    BY <2>1
  <2>3. \A p \in Guests : place'[p] = IF p = ask[r].who THEN ask[r].state ELSE place[p]
    BY <2>1
  <2>4. \A p \in Guests : Knocked(p)' => Knocked(p)
    BY <2>1, <2>2, <2>3
  <2> QED BY <2>1, <2>2, <2>3, <2>4
<1>3. CASE InsertFails(r)
  BY <1>3 DEF InsertFails, IdleAsk
<1>4. CASE Notify(r)
  <2>1. /\ ask[r].step = "stored" /\ ask[r].who \in Guests
        /\ ask' = [ask EXCEPT ![r].step = "asked"]
        /\ UNCHANGED <<place, host, listed>>
    BY <1>4 DEF Notify
  <2>2. \A q \in Requests : /\ ask'[q].who = ask[q].who /\ ask'[q].state = ask[q].state
                             /\ ask'[q].step = IF q = r THEN "asked" ELSE ask[q].step
    BY <2>1
  <2>3. told \subseteq told'
    BY <1>4 DEF Notify
  <2>4. host \in {"reading", "live"} /\ place[ask[r].who] = "pending" => ask[r].who \in told'
    BY <1>4, <2>1 DEF Notify, Notified
  <2>5. \A p \in Guests : Knocked(p)' => Knocked(p) \/ (p = ask[r].who /\ place[p] = "pending")
    BY <2>1, <2>2
  <2> QED BY <2>1, <2>2, <2>3, <2>4, <2>5
<1>5. CASE RosterRead(r)
  <2>1. /\ ask[r].step = "asked"
        /\ ask' = [ask EXCEPT ![r] = [ask[r] EXCEPT !.step = "read", !.seen = Waiting]]
        /\ UNCHANGED <<place, host, listed, told>>
    BY <1>5 DEF RosterRead
  <2>2. \A q \in Requests : /\ ask'[q].who = ask[q].who /\ ask'[q].state = ask[q].state
                             /\ ask'[q].step = IF q = r THEN "read" ELSE ask[q].step
    BY <2>1
  <2> QED BY <2>1, <2>2
<1>6. CASE RosterSent(r)
  <2>1. /\ ask[r].step = "read" /\ ask' = [ask EXCEPT ![r] = IdleAsk]
        /\ told \subseteq told' /\ UNCHANGED <<place, host, listed>>
    BY <1>6 DEF RosterSent
  <2>2. \A p \in Guests : Knocked(p)' => Knocked(p)
    BY <2>1 DEF IdleAsk
  <2> QED BY <2>1, <2>2 DEF IdleAsk
<1> QED BY <1>1, <1>2, <1>3, <1>4, <1>5, <1>6 DEF JoinRequest

\* A host who has been greeted has heard of everybody who waits and whose
\* request has been answered (join_session, notify_hosts, _greet).
THEOREM NobodyKnocksUnheard == JoinSpec => []KnockHeard
<1>1. JoinInit => KnockInv
  BY JoiningAssumption DEF JoinInit, KnockInv, Knocked, IdleAsk
<1>2. JoinTyped /\ KnockInv /\ [JoinNext]_joinVars => KnockInv'
  <2> SUFFICES ASSUME JoinTyped, KnockInv, [JoinNext]_joinVars PROVE KnockInv'
    OBVIOUS
  <2> USE JoiningAssumption DEF JoinTyped, JoinTypeOK, KnockInv, Knocked
  <2>1. ASSUME NEW r \in Requests, JoinRequest(r) PROVE KnockInv'
    BY <2>1, RequestsKeepKnocks
  <2>2. ASSUME NEW r \in Requests, NEW p \in Guests, Find(r, p) PROVE KnockInv'
    <3>1. ask[r].step = "idle" /\ ask[r].who = Nobody /\ place[p] = "none"
      BY <2>2 DEF Find
    <3>2. UNCHANGED <<place, host, listed, told>> /\ \A q \in Requests : ask[q].who # p
      BY <2>2 DEF Find, AskedBy
    <3>3. \A q \in Requests :
             IF q = r THEN ask'[q].who = p /\ ask'[q].step = "found" ELSE ask'[q] = ask[q]
      BY <2>2 DEF Find
    <3>4. \A g \in Guests : Knocked(g)' => Knocked(g)
      BY <3>1, <3>2, <3>3
    <3> QED BY <3>1, <3>2, <3>3, <3>4
  <2>3. CASE HostResolves \/ HostRegisters \/ HostLeaves \/ GreetingSends
    BY <2>3 DEF HostResolves, HostRegisters, HostLeaves, HostGone, GreetingSends
  <2>4. CASE GreetingReads
    BY <2>4 DEF GreetingReads, Waiting
  <2>5. ASSUME NEW p \in Guests, Departs(p) \/ Approved(p) PROVE KnockInv'
    <3>1. place' \in [Guests -> Places] /\ place'[p] # "pending" /\ place[p] # "none"
      BY <2>5 DEF Departs, Approved, Active, Places
    <3>2. \A g \in Guests : g # p => place'[g] = place[g]
      BY <2>5 DEF Departs, Approved
    <3>3. UNCHANGED <<ask, host, listed, told>>
      BY <2>5 DEF Departs, Approved
    <3> QED BY <3>1, <3>2, <3>3
  <2>6. CASE \/ Ends \/ EndsIdle \/ Revives \/ EraseBegins \/ PurgeBegins
             \/ \E n \in Caps : SetCap(n)
    BY <2>6 DEF Ends, EndsIdle, Revives, EraseBegins, PurgeBegins, SetCap, RoomCloses
  <2>7. CASE Erased
    BY <2>7 DEF Erased
  <2>8. CASE JoinRestart
    BY <2>8 DEF JoinRestart, HostGone, IdleAsk
  <2>9. CASE UNCHANGED joinVars
    BY <2>9 DEF joinVars
  <2> QED BY <2>1, <2>2, <2>3, <2>4, <2>5, <2>6, <2>7, <2>8, <2>9 DEF JoinNext
<1>3. JoinTyped /\ KnockInv => KnockHeard
  <2> SUFFICES ASSUME JoinTyped, KnockInv, host = "live",
                      NEW p \in Guests, place[p] = "pending", ~AskedBy(p)
               PROVE  p \in told
    BY DEF KnockHeard
  <2> QED BY DEF KnockInv, Knocked, AskedBy
<1> QED BY <1>1, <1>2, <1>3, JoinTypeCorrect, PTL DEF JoinSpec

-----------------------------------------------------------------------------
(***************************************************************************)
(* A deletion disconnects whoever is registered when it begins; only a     *)
(* host resolved before and registered after can sit in the session while  *)
(* its rows go.                                                            *)
(***************************************************************************)
RegistersUnderErasure == erasing = "desk" /\ HostRegisters

\* Whom close_room left is not registered.
RoomStaysClosed == erasing = "desk" => host \in {"away", "resolved"}

\* Unless the host registers between delete_session's close_room and its
\* commit, no host is connected to the session it deletes ("Anyone still
\* connected is disconnected first").
THEOREM Disconnected_First ==
    JoinSpec /\ [][~RegistersUnderErasure]_joinVars => DisconnectedFirst
<1>1. JoinInit => RoomStaysClosed
  BY DEF JoinInit, RoomStaysClosed
<1>2. RoomStaysClosed /\ [JoinNext]_joinVars /\ [~RegistersUnderErasure]_joinVars
        => RoomStaysClosed'
  <2> SUFFICES ASSUME RoomStaysClosed, [JoinNext]_joinVars,
                      [~RegistersUnderErasure]_joinVars
               PROVE  RoomStaysClosed'
    OBVIOUS
  <2> USE DEF RoomStaysClosed
  <2>1. ASSUME NEW r \in Requests, JoinRequest(r) \/ \E p \in Guests : Find(r, p)
        PROVE  RoomStaysClosed'
    BY <2>1 DEF JoinRequest, Count, Insert, InsertFails, Notify, RosterRead, RosterSent, Find
  <2>2. CASE HostRegisters
    BY <2>2 DEF HostRegisters, RegistersUnderErasure, joinVars
  <2>3. CASE HostResolves \/ GreetingReads \/ GreetingSends \/ HostLeaves
    BY <2>3 DEF HostResolves, GreetingReads, GreetingSends, HostLeaves, HostGone
  <2>4. ASSUME NEW p \in Guests, Departs(p) \/ Approved(p) PROVE RoomStaysClosed'
    BY <2>4 DEF Departs, Approved
  <2>5. CASE Ends \/ EndsIdle \/ Revives \/ EraseBegins \/ PurgeBegins \/ Erased
    BY <2>5 DEF Ends, EndsIdle, Revives, EraseBegins, PurgeBegins, Erased, RoomCloses
  <2>6. CASE JoinRestart \/ \E n \in Caps : SetCap(n)
    BY <2>6 DEF JoinRestart, HostGone, SetCap
  <2>7. CASE UNCHANGED joinVars
    BY <2>7 DEF joinVars
  <2> QED
    BY <2>1, <2>2, <2>3, <2>4, <2>5, <2>6, <2>7 DEF JoinNext
<1>3. RoomStaysClosed =>
        [erasing = "desk" /\ erasing' = "nobody" /\ life' = "gone" => host # "live"]_joinVars
  BY DEF RoomStaysClosed
<1> QED
  BY <1>1, <1>2, <1>3, PTL DEF JoinSpec, DisconnectedFirst
=============================================================================
