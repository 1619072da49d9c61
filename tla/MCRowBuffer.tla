---------------------------- MODULE MCRowBuffer ----------------------------
(* A connection that switches between no buffering and buffers of two and  *)
(* three rows, over result sets of up to five rows: every ring wraps.      *)
EXTENDS RowBuffer

const_Capacities == {2, 3}
============================================================================
