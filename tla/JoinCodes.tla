------------------------------ MODULE JoinCodes ------------------------------
(***************************************************************************)
(* Join codes: which session an invite opens (unique_join_code in          *)
(* app/services.py, create_session, rotate_code).                          *)
(*                                                                         *)
(* A request draws a code that no row has and awaits the database before   *)
(* it writes the code; the unique index of the column decides between two  *)
(* that drew the same.  Codes are drawn at random from 25^10: the few here *)
(* make them meet.                                                         *)
(***************************************************************************)

CONSTANTS
    Sessions, \* rows there may be; one that was deleted may be made again
    Codes,
    Drawers,  \* create_session and rotate_code in flight at one time (a bound)
    NoRow     \* no row, no code, no request

ASSUME JoinCodesAssumption == NoRow \notin Sessions \cup Codes

VARIABLES
    code,   \* CollabSession.join_code, or NoRow without a row
    ended,  \* the rows whose session has ended
    draw,   \* the requests
    used    \* history: the codes that a row has or had

codeVars == <<code, ended, draw, used>>

IdleDraw == [kind |-> "none", row |-> NoRow, code |-> NoRow]

CodesInit ==
    /\ code = [s \in Sessions |-> NoRow]
    /\ ended = {}
    /\ draw = [d \in Drawers |-> IdleDraw]
    /\ used = {}

\* unique_join_code asks all rows, those of ended sessions included.
Unused(c) == \A s \in Sessions : code[s] # c

DrawsNew(d, s, c) ==
    /\ draw[d].kind = "none" /\ Unused(c)
    /\ code[s] = NoRow /\ \A e \in Drawers : draw[e].row # s
    /\ draw' = [draw EXCEPT ![d] = [kind |-> "create", row |-> s, code |-> c]]
    /\ UNCHANGED <<code, ended, used>>

\* rotate_code refuses an ended session; the row gives its old code up.
DrawsNext(d, s, c) ==
    /\ draw[d].kind = "none" /\ Unused(c)
    /\ code[s] # NoRow /\ s \notin ended
    /\ draw' = [draw EXCEPT ![d] = [kind |-> "rotate", row |-> s, code |-> c]]
    /\ UNCHANGED <<code, ended, used>>

\* The unique index on join_code; and a row to rotate must still be there.
Acceptable(d) ==
    /\ \A s \in Sessions \ {draw[d].row} : code[s] # draw[d].code
    /\ draw[d].kind = "rotate" => code[draw[d].row] # NoRow

Writes(d) ==
    LET x == draw[d] IN
    /\ x.kind # "none" /\ Acceptable(d)
    /\ code' = [code EXCEPT ![x.row] = x.code]
    /\ draw' = [draw EXCEPT ![d] = IdleDraw]
    /\ used' = used \cup {x.code}
    /\ UNCHANGED ended

WriteFails(d) ==
    /\ draw[d].kind # "none" /\ ~Acceptable(d)
    /\ draw' = [draw EXCEPT ![d] = IdleDraw]
    /\ UNCHANGED <<code, ended, used>>

\* set_status.
EndOrRevive(s) ==
    /\ code[s] # NoRow
    /\ ended' = IF s \in ended THEN ended \ {s} ELSE ended \cup {s}
    /\ UNCHANGED <<code, draw, used>>

\* session_delete, purge_sessions.
Deletes(s) ==
    /\ code[s] # NoRow
    /\ code' = [code EXCEPT ![s] = NoRow]
    /\ ended' = ended \ {s}
    /\ UNCHANGED <<draw, used>>

CodesNext ==
    \/ \E d \in Drawers : Writes(d) \/ WriteFails(d)
    \/ \E d \in Drawers, s \in Sessions, c \in Codes : DrawsNew(d, s, c) \/ DrawsNext(d, s, c)
    \/ \E s \in Sessions : EndOrRevive(s) \/ Deletes(s)

CodesSpec == CodesInit /\ [][CodesNext]_codeVars

-----------------------------------------------------------------------------
(* Properties.                                                             *)

CodesTypeOK ==
    /\ code \in [Sessions -> Codes \cup {NoRow}]
    /\ ended \subseteq Sessions /\ used \subseteq Codes
    /\ draw \in [Drawers -> [kind : {"none", "create", "rotate"},
                             row : Sessions \cup {NoRow}, code : Codes \cup {NoRow}]]

\* "Generate a join code no session has ever used ... Codes are never recycled":
\* what a request draws, no row has or ever had (unique_join_code).
NeverRecycled ==
    [][\A d \in Drawers : draw[d].kind = "none" /\ draw'[d].kind # "none" =>
          draw'[d].code \notin used]_codeVars
=============================================================================
