----------------------------- MODULE MCFileSync -----------------------------
(***************************************************************************)
(* FileSync.tla with two people, each with a socket of their own that they *)
(* open again and again.                                                   *)
(***************************************************************************)
EXTENDS FileSync

\* One socket each.
MCApart == CHOOSE o \in [Conns -> People] : \A p \in People : \E c \in Conns : o[c] = p
=============================================================================
