----------------------------- MODULE MCCtResults -----------------------------
EXTENDS CtResults, TLC

T(kind) == Token(kind, TRUE, FALSE)
Bad(kind) == Token(kind, TRUE, TRUE)

\* Statements of a batch and of a procedure, as the last of an answer.
Statements == {
    <<T("rowfmt"), T("row"), T("row"), T("row"), T("done")>>,
    <<T("rowfmt"), T("done")>>,
    <<T("rowfmt"), T("computefmt"), T("compute"), T("row"), T("done")>>,
    <<T("rowfmt"), T("row"), T("msg"), Bad("done")>>,
    <<T("doneinproc"), T("rowfmt"), T("row"), T("doneinproc"), T("param"), T("doneproc")>>,
    <<T("rowfmt"), T("doneinproc"), T("status"), T("doneproc")>> }

\* Statements that a result set follows: an empty result set, an error, a procedure.
Followed == {
    <<T("rowfmt"), T("done")>>,
    <<T("msg"), Bad("done")>>,
    <<T("status"), T("param"), T("doneproc")>> }
Second == <<T("rowfmt"), T("row"), T("done")>>

Last(s) == [s EXCEPT ![Len(s)].more = FALSE]
Lost(s) == Append(SubSeq(s, 1, Len(s) - 1), T("eof"))

AnswersDef == {Last(s) : s \in Statements}
         \cup {Last(s \o Second) : s \in Followed}
         \cup {Lost(Second)}

ASSUME OrderAssumption == ProceduresInOrder

Symmetry == Permutations(Cmds)
=============================================================================
