------------------------------ MODULE Timeline ------------------------------
(***************************************************************************)
(* What the chat and the shared board promise to those who read them       *)
(* (app/actions.py): one list, to which items are added one at a time.  It *)
(* has the newest, as many as are kept, and nothing else ever goes away,   *)
(* unless the board is cleared.                                            *)
(***************************************************************************)
EXTENDS Integers, FiniteSets

CONSTANTS Keep, MaxId

VARIABLES kind, items

Rank(all, i) == Cardinality({j \in all : j >= i})

Init == kind \in {"chat", "board"} /\ items = {}

Add(i) == items' = {j \in items \cup {i} : Rank(items \cup {i}, j) <= Keep} /\ UNCHANGED kind

Wipe(gone) == kind = "board" /\ items' = items \ gone /\ UNCHANGED kind

Next ==
    \/ \E i \in (1..MaxId) \ items : Add(i)
    \/ \E gone \in SUBSET items : Wipe(gone)

Spec == Init /\ [][Next]_<<kind, items>>
=============================================================================
