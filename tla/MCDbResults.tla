----------------------------- MODULE MCDbResults -----------------------------
EXTENDS DbResults

T(kind) == Token(kind, TRUE, FALSE)
Bad(kind) == Token(kind, TRUE, TRUE)

\* Statements of a batch and of a procedure.
Statements == {
    <<T("rowfmt"), T("row"), T("row"), T("done")>>,
    <<T("rowfmt"), T("done")>>,
    <<T("rowfmt"), T("computefmt"), T("row"), T("compute"), T("done")>>,
    <<T("done")>>,
    <<T("msg"), Bad("done")>>,
    <<T("rowfmt"), T("row"), T("msg"), Bad("done")>>,
    <<T("doneinproc"), T("rowfmt"), T("row"), T("doneinproc"), T("status"), T("param"), T("doneproc")>>,
    <<T("rowfmt"), T("row"), T("doneinproc"), T("status"), T("doneinproc"), T("rowfmt"),
      T("doneinproc"), T("status"), T("doneproc")>>,
    <<T("status"), Bad("doneproc")>> }

Last(s) == [s EXCEPT ![Len(s)].more = FALSE]
Lost(s) == Append(SubSeq(s, 1, Len(s) - 1), T("eof"))

\* What may follow.
Seconds == {s \in Statements : Len(s) \in {1, 2, 7}}

AnswersDef == {Last(s \o t) : s \in Statements, t \in Seconds}
         \cup {Lost(s) : s \in Statements}
AcksDef == {<<Token("done", FALSE, FALSE)>>, <<T("msg"), Token("done", FALSE, TRUE)>>, <<T("eof")>>}
=============================================================================
