------------------------------- MODULE Tokens -------------------------------
(***************************************************************************)
(* The token loop of libtds (tds_process_tokens() of src/tds/token.c) as   *)
(* the client libraries see it: a function from the part of the answer     *)
(* that is not yet read and the flags of the caller to what it returns and *)
(* to where the next call goes on.                                         *)
(*                                                                         *)
(* An answer is a sequence of tokens.  It ends with the only DONE token    *)
(* that has not the flag TDS_DONE_MORE_RESULTS, or with "eof" where the    *)
(* connection is lost.  Consecutive PARAM tokens are read together         *)
(* (tds_process_param_result_tokens()) and are one token here.  What a     *)
(* token carries is left out.  Cancels, which turn the flags into          *)
(* TDS_HANDLE_ALL, are in TdsSession.                                      *)
(***************************************************************************)
EXTENDS Integers, Sequences, FiniteSetsExt

Kinds == {"rowfmt", "row", "computefmt", "compute", "param", "status",
          "doneinproc", "doneproc", "done", "msg", "eof"}

Token(kind, more, error) == [kind |-> kind, more |-> more, error |-> error]

Dones == {"done", "doneproc", "doneinproc"}

\* The last token of an answer: tds_process_end() sets the session IDLE.
Final(t) == t.kind \in Dones /\ ~t.more

(* What the server sends: the last token, and only that one, ends the      *)
(* answer; a DONE ends each result set before the next one begins; the     *)
(* rows of a result set come between its format and that DONE, its compute *)
(* formats before the rows, and parameters and statuses outside.           *)
IsAnswer(a) ==
    /\ a \in Seq([kind : Kinds, more : BOOLEAN, error : BOOLEAN]) /\ a # <<>>
    /\ \A j \in DOMAIN a : (j = Len(a)) <=> (Final(a[j]) \/ a[j].kind = "eof")
    /\ \A f, g \in DOMAIN a : f < g /\ a[f].kind = "rowfmt" /\ a[g].kind = "rowfmt" =>
           \E j \in f .. g : a[j].kind \in Dones
    /\ \A j \in DOMAIN a : a[j].kind \in {"row", "compute", "computefmt"} =>
           \E f \in 1 .. j : /\ a[f].kind = "rowfmt"
                             /\ \A i \in f .. j : a[i].kind \notin Dones
    /\ \A f, j \in DOMAIN a :
           f < j /\ a[f].kind = "rowfmt" /\ (\A i \in f .. j : a[i].kind \notin Dones) =>
              /\ a[j].kind \notin {"param", "status"}
              /\ a[j].kind = "computefmt" =>
                    \A i \in f .. j : a[i].kind \notin {"row", "compute"}

\* A return status counts when what follows ends the procedure's results.
Reported(ans, j) == ans[j + 1].kind \in {"param", "doneproc", "done"}

(* The X of the SET_RETURN(.., X) of a token: the flags TDS_RETURN_X and   *)
(* TDS_STOPAT_X are about it.                                              *)
Class(ans, j) ==
    CASE ans[j].kind = "rowfmt" -> "ROWFMT"
      [] ans[j].kind = "computefmt" -> "COMPUTEFMT"
      [] ans[j].kind = "row" -> "ROW"
      [] ans[j].kind = "compute" -> "COMPUTE"
      [] ans[j].kind = "param" -> "PROC"
      [] ans[j].kind = "status" -> IF Reported(ans, j) THEN "PROC" ELSE "NONE"
      [] ans[j].kind \in Dones -> "DONE"
      [] ans[j].kind = "msg" -> "MSG"
      [] ans[j].kind = "eof" -> "NONE"

Flags(return, stopat) == [return |-> return, stopat |-> stopat]

TDS_TOKEN_RESULTS == Flags({"ROWFMT", "COMPUTEFMT", "DONE", "PROC"}, {"ROW", "COMPUTE"})

\* Mutant: TDS_STOPAT_ROW is missing.
TDS_TOKEN_TRAILING_rows == Flags({}, {"ROWFMT", "COMPUTEFMT", "COMPUTE", "MSG"})

TDS_TOKEN_TRAILING == Flags({}, {"ROWFMT", "COMPUTEFMT", "ROW", "COMPUTE", "MSG"})

\* SET_RETURN() leaves the loop before the token is read: it is put back.
\* (A return status is read before and clears TDS_STOPAT_PROC.)
StopsAt(ans, flag, j) == Class(ans, j) \in flag.stopat /\ ans[j].kind # "status"

Returns(ans, flag, j) == Class(ans, j) \in flag.return

Leaves(ans, flag, j) ==
    StopsAt(ans, flag, j) \/ Returns(ans, flag, j) \/ Final(ans[j]) \/ ans[j].kind = "eof"

(* rc: the value returned; type: the kind of the token it is about         *)
(* (result_type); error, more: done_flags; next: the next token to read.   *)
tds_process_tokens(ans, pos, flag) ==
    IF pos > Len(ans)
    THEN [rc |-> "NO_MORE_RESULTS", type |-> "done", error |-> FALSE, more |-> FALSE, next |-> pos]
    ELSE LET at == Min({j \in pos .. Len(ans) : Leaves(ans, flag, j)})
             stops == StopsAt(ans, flag, at)
         IN  [rc |-> IF ans[at].kind = "eof" THEN "FAIL"
                     ELSE IF stops \/ Returns(ans, flag, at) THEN "SUCCESS"
                     ELSE "NO_MORE_RESULTS",
              type |-> ans[at].kind,
              error |-> ans[at].error,
              more |-> ans[at].more,
              next |-> IF stops \/ ans[at].kind = "eof" THEN at ELSE at + 1]

-----------------------------------------------------------------------------
(* What the tokens from..to-1 leave in the session.  A row format frees    *)
(* what earlier results left (tds_free_all_results()).                     *)

Read(ans, from, to, kind) == {j \in from .. to - 1 : ans[j].kind = kind}

\* res_info: the last row format, 0 when there is none.
ResInfo(ans, from, to, old) ==
    LET fmts == Read(ans, from, to, "rowfmt") IN IF fmts = {} THEN old ELSE Max(fmts)

\* param_info is not NULL.
ParamInfo(ans, from, to, old) ==
    LET fmts == Read(ans, from, to, "rowfmt")
        params == Read(ans, from, to, "param")
    IN  IF params # {} /\ Max(params) > ResInfo(ans, from, to, 0) THEN TRUE
        ELSE old /\ fmts = {}
=============================================================================
