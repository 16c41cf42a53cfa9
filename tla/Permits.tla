------------------------------- MODULE Permits -------------------------------
(***************************************************************************)
(* What the rate limiter of app/ratelimit.py promises.  Every key has one  *)
(* permit per slot.  A call that is granted takes a permit, which comes    *)
(* back when the window that starts with the grant is over; a call is      *)
(* refused only when every permit is out.  So a key is granted no more     *)
(* calls in a window than it has slots, and never refused one of these.    *)
(***************************************************************************)
EXTENDS Integers

CONSTANTS Keys, Slots, Window

VARIABLES
    out,    \* how long each permit stays out; 0 when it is in
    answer  \* the last call's answer, until time passes

Quiet == [key |-> {}, granted |-> FALSE]

Init ==
    /\ out = [k \in Keys |-> [s \in Slots |-> 0]]
    /\ answer = Quiet

Grant(k) ==
    /\ answer' = [key |-> {k}, granted |-> TRUE]
    /\ \E s \in Slots :
          /\ out[k][s] = 0
          /\ out' = [out EXCEPT ![k][s] = Window + 1]

Refuse(k) ==
    /\ \A s \in Slots : out[k][s] > 0
    /\ answer' = [key |-> {k}, granted |-> FALSE]
    /\ UNCHANGED out

Tick ==
    /\ out' = [k \in Keys |-> [s \in Slots |-> IF out[k][s] > 0 THEN out[k][s] - 1 ELSE 0]]
    /\ answer' = Quiet

Next == Tick \/ \E k \in Keys : Grant(k) \/ Refuse(k)

Spec == Init /\ [][Next]_<<out, answer>>
=============================================================================
