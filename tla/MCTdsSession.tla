---------------------------- MODULE MCTdsSession ----------------------------
(* Bounds for TLC: see the .cfg files.                                     *)
EXTENDS TdsSession
=============================================================================
