-------------------------- MODULE MCOdbcStatements --------------------------
EXTENDS OdbcStatements, TLC

Symmetry == Permutations(Stmts)

=============================================================================
