------------------------------ MODULE MCMarsNet ----------------------------
(* Two sessions on one connection: one sends a long request, the other one *)
(* reads a long answer, both long enough to close the window.              *)
EXTENDS MarsNet, TLC

CONSTANTS asker, reader

LongAsk == asker :> 3 @@ reader :> 1
LongAnswer == asker :> 1 @@ reader :> 3

ShortAnswer == asker :> 1 @@ reader :> 1
============================================================================
