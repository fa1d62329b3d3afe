------------------------------ MODULE MCQueue -------------------------------
(***************************************************************************)
(* A thread that calls everything, one that pops at the left,              *)
(* and one that pushes at the right.                                       *)
(***************************************************************************)
EXTENDS Queue, TLC

CONSTANTS user, consumer, producer

MCCalls ==
  user :> {<<"push", "left">>, <<"push", "right">>, <<"pop", "left">>, <<"pop", "right">>, <<"clear", "left">>}
    @@ consumer :> {<<"pop", "left">>}
    @@ producer :> {<<"push", "right">>}
=============================================================================
