------------------------------ MODULE MCRefCnt ------------------------------
(***************************************************************************)
(* Instances of RefCnt for model checking.  Threads, with their links, and *)
(* addresses are interchangeable.                                          *)
(***************************************************************************)
EXTENDS RefCnt, TLC

Alike == Permutations(Threads) \union Permutations(Nodes)
=============================================================================
