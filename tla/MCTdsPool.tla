----------------------------- MODULE MCTdsPool -----------------------------
(* Small pools.  Users and members are interchangeable.                    *)
EXTENDS TdsPool, TLC

Symmetry == Permutations(Users) \cup Permutations(Members)
============================================================================
