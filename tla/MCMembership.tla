---------------------------- MODULE MCMembership ----------------------------
(***************************************************************************)
(* Membership.tla with one guest who may connect twice (so that a newer    *)
(* connection can replace an older one) and one host command at a time.    *)
(***************************************************************************)
EXTENDS Membership

TheGuest == CHOOSE g \in Guests : TRUE
MCOwner == [c \in Conns |-> TheGuest]
=============================================================================
