----------------------------- MODULE RowWindow -----------------------------
(***************************************************************************)
(* What db-lib's row buffer promises, without a ring: the application sees *)
(* a window lo..hi of consecutive row numbers.  Reading a new row extends  *)
(* the window at the top, dbclrbuf() cuts it at the bottom but never       *)
(* empties it, and only rows inside the window can be read.                *)
(***************************************************************************)
EXTENDS Naturals

CONSTANT Sizes              \* the capacities a buffer may have; 1 is "no buffering"

VARIABLES
    size,                   \* how many rows the window may hold
    lo, hi,                 \* the window, empty when lo = hi + 1
    out                     \* the row handed to the application, 0 for none

vars == <<size, lo, hi, out>>

(* dbopen(): no buffering, nothing read.                                   *)
Init == size = 1 /\ lo = 1 /\ hi = 0 /\ out = 0

(* A new row enters; without buffering it replaces the one before.         *)
Fetch ==
    /\ size = 1 \/ hi + 1 < lo + size
    /\ hi' = hi + 1
    /\ lo' = IF size = 1 THEN hi' ELSE lo
    /\ out' = hi'
    /\ UNCHANGED size

(* A row inside the window is read again.                                  *)
Read == out' \in lo .. hi /\ UNCHANGED <<size, lo, hi>>

(* The oldest rows leave, the newest stays.                                *)
Forget == lo' \in lo .. hi /\ out' = 0 /\ UNCHANGED <<size, hi>>

(* A new result set or a new capacity starts with an empty window.         *)
Restart == size' \in Sizes /\ lo' = 1 /\ hi' = 0 /\ out' = 0

(* A call that delivers no row.                                            *)
Nothing == out' = 0 /\ UNCHANGED <<size, lo, hi>>

Next == Fetch \/ Read \/ Forget \/ Restart \/ Nothing

Spec == Init /\ [][Next]_vars
============================================================================
