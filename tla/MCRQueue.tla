------------------------------ MODULE MCRQueue ------------------------------
(***************************************************************************)
(* Instances of RQueue for model checking.                                 *)
(***************************************************************************)
EXTENDS RQueue, TLC

(* Readers are interchangeable, and so are writers.                        *)
Threads == Permutations(Readers) \union Permutations(Writers)
=============================================================================
