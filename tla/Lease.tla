-------------------------------- MODULE Lease --------------------------------
(***************************************************************************)
(* What the soft locks of app/hub.py promise: a file is held by at most    *)
(* one person, is taken only while nobody holds it, and passes from one    *)
(* person to another only by having been free in between.                  *)
(***************************************************************************)
CONSTANTS People, Paths, None

VARIABLE holder

Init == holder = [f \in Paths |-> None]

Take(f, p) == holder[f] = None /\ holder' = [holder EXCEPT ![f] = p]

\* Several files may become free at once: somebody left, or time passed.
LetGo(freed) == holder' = [f \in Paths |-> IF f \in freed THEN None ELSE holder[f]]

Next ==
    \/ \E f \in Paths, p \in People : Take(f, p)
    \/ \E freed \in SUBSET Paths : LetGo(freed)

Spec == Init /\ [][Next]_holder
=============================================================================
