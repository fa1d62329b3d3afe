------------------------------- MODULE MCRBuf -------------------------------
(***************************************************************************)
(* Instances of RBuf for model checking.  Octets are only ever compared    *)
(* with each other, and buffers are all alike.                             *)
(***************************************************************************)
EXTENDS RBuf, TLC

Alike == Permutations(Octets) \union Permutations(Buffers)
=============================================================================
