------------------------------ MODULE DbResults ------------------------------
(***************************************************************************)
(* The commands and the results of a db-lib DBPROCESS (src/dblib/dblib.c,  *)
(* rpc.c): the command buffer, dbsqlsend(), dbsqlok(), dbresults(),        *)
(* dbnextrow() and the other calls that read the answer of the server, and *)
(* the remote procedure calls.  The calls share one stream of tokens, and  *)
(* dbresults_state says what the program was told of it.                   *)
(*                                                                         *)
(* A call that loops over tds_process_tokens() is one step for each turn   *)
(* of its loop.  A call made of calls (dbsqlexec(), dbuse(),               *)
(* dbwritetext()) puts the ones still to be made in todo; the first that   *)
(* fails ends it.  Rows are not buffered here (RowBuffer has the buffer),  *)
(* column data and messages are left out, and the program may make any     *)
(* call at any time, but for dbsqlok(), which it calls after it sent.      *)
(***************************************************************************)
EXTENDS Tokens

CONSTANTS
    Answers,    \* answers to a batch or to a procedure (see Tokens)
    Acks,       \* answers without result sets: to USE, SET and WRITETEXT
    MaxProcs,   \* bound: procedures of one dbrpcsend()
    MaxQueries, \* bound: requests sent
    MaxCommands \* bound: strings in the command buffer

ASSUME AnswersAssumption ==
    \A a \in Answers \cup Acks :
        /\ IsAnswer(a)
        /\ \A j \in DOMAIN a : a \in Acks => a[j].kind \notin {"rowfmt", "row", "compute"}

ASSUME BoundsAssumption == MaxProcs \in Nat /\ MaxQueries \in Nat /\ MaxCommands \in Nat

VARIABLES
    \* TDSSOCKET
    answer, pos,     \* the answer of the last request and the next token to read
    dead,            \* TDS_DEAD
    res_info,        \* the row format of the current result set, 0: NULL
    param_info,      \* output parameters were read
    \* DBPROCESS
    dbresults_state,
    command_state,   \* DBCMDNONE, DBCMDPEND, DBCMDSENT
    dbbuf,           \* strings in the command buffer
    dboptcmd,        \* an option is to be sent before the next command
    rpc,             \* number of procedures of dbrpcinit()
    \* the program
    in,              \* the call whose loop runs, or "app"
    todo,            \* calls still to be made by the current one
    \* history, about the current answer
    q,               \* requests sent
    taken,           \* rows the program got
    dropped,         \* rows that it asked to discard, by dbcanquery() or dbcancel()
    announced,       \* result sets dbresults() returned SUCCEED for
    excused          \* result sets that dbresults() need not announce: discarded, passed
                     \* by a call that looks for trailing tokens, or forgotten by one
                     \* that set dbresults_state back to INIT and was then refused

sessionVars == <<answer, pos, dead, res_info, param_info>>
commandVars == <<command_state, dbbuf, dboptcmd, rpc>>
histVars == <<q, taken, dropped, announced, excused>>
vars == <<answer, pos, dead, res_info, param_info, dbresults_state, command_state, dbbuf,
          dboptcmd, rpc, in, todo, q, taken, dropped, announced, excused>>

States == {"INIT", "SUCCEED", "RESULTSET_EMPTY", "RESULTSET_ROWS", "NEXT_RESULT",
           "NO_MORE_RESULTS"}
Calls == {"dbsqlsend", "dbsqlok", "dbresults", "dbcanquery"}
Loops == {"dbsqlok", "dbresults", "dbnextrow"}

TypeOK ==
    /\ answer \in Answers \cup Acks \cup {<<>>} /\ pos \in 1 .. Len(answer) + 1
    /\ dead \in BOOLEAN /\ res_info \in 0 .. Len(answer) /\ param_info \in BOOLEAN
    /\ dbresults_state \in States
    /\ command_state \in {"NONE", "PEND", "SENT"} /\ dbbuf \in 0 .. MaxCommands
    /\ dboptcmd \in BOOLEAN /\ rpc \in 0 .. MaxProcs
    /\ in \in Loops \cup {"app"} /\ todo \in Seq(Calls)
    /\ q \in 0 .. MaxQueries
    /\ \A s \in {taken, dropped, announced, excused} : s \subseteq DOMAIN answer

idle == pos > Len(answer)

\* dbopen() returned a DBPROCESS.
Init ==
    /\ answer = <<>> /\ pos = 1 /\ dead = FALSE /\ res_info = 0 /\ param_info = FALSE
    /\ dbresults_state = "INIT" /\ command_state = "NONE" /\ dbbuf = 0
    /\ dboptcmd = FALSE /\ rpc = 0 /\ in = "app" /\ todo = <<>>
    /\ q = 0 /\ taken = {} /\ dropped = {} /\ announced = {} /\ excused = {}

-----------------------------------------------------------------------------
\* A call of the program, or the next call of one that is made of calls.
Calling(f) ==
    /\ in = "app" /\ ~dead
    /\ todo # <<>> => Head(todo) = f

Left == IF todo = <<>> THEN <<>> ELSE Tail(todo)

\* The call returns: the one it is part of goes on, unless it failed.
Return(ok) == in' = "app" /\ todo' = IF ok THEN Left ELSE <<>>

\* The session after a call of the token loop; a lost connection is closed.
Advance(r) ==
    /\ pos' = r.next
    /\ dead' = (r.rc = "FAIL")
    /\ res_info' = ResInfo(answer, pos, r.next, res_info)
    /\ param_info' = ParamInfo(answer, pos, r.next, param_info)
    /\ UNCHANGED answer

Rows(from, to) == Read(answer, from, to, "row") \cup Read(answer, from, to, "compute")

\* Result sets that were read and not announced.
Unannounced == Read(answer, 1, pos, "rowfmt") \ announced

\* Those that end before the token at to.
Ended(to) == {f \in Unannounced : \E j \in f .. to - 1 : answer[j].kind \in Dones}

\* Mutant: the results of the last request stay.
Submit_kept(answers) ==
    /\ q < MaxQueries /\ q' = q + 1
    /\ answer' \in answers /\ pos' = 1 /\ dead' = FALSE
    /\ UNCHANGED <<res_info, param_info>>
    /\ taken' = {} /\ dropped' = {} /\ announced' = {} /\ excused' = {}

\* tds_submit_query() and tds_submit_rpc() on an idle session: tds_set_state()
\* frees the results of the last request.
Submit(answers) ==
    /\ q < MaxQueries /\ q' = q + 1
    /\ answer' \in answers /\ pos' = 1 /\ dead' = FALSE
    /\ res_info' = 0 /\ param_info' = FALSE
    /\ taken' = {} /\ dropped' = {} /\ announced' = {} /\ excused' = {}

-----------------------------------------------------------------------------
(* The command buffer.                                                     *)

\* The buffer is freed when its command was sent (DBNOAUTOFREE is off).
dbcmd ==
    LET kept == IF command_state = "SENT" THEN 0 ELSE dbbuf
    IN  /\ Calling("dbcmd") /\ todo = <<>> /\ kept < MaxCommands
        /\ dbbuf' = kept + 1 /\ command_state' = "PEND"
        /\ UNCHANGED <<sessionVars, dbresults_state, dboptcmd, rpc, in, todo, histVars>>

dbfreebuf ==
    /\ in = "app" /\ todo = <<>>
    /\ dbbuf' = 0
    /\ UNCHANGED <<sessionVars, dbresults_state, command_state, dboptcmd, rpc, in, todo, histVars>>

\* An option that is kept for the next command (dbsetopt(), dbclropt()).
dbsetopt ==
    /\ Calling("dbsetopt") /\ todo = <<>> /\ q < MaxQueries
    /\ dboptcmd' = TRUE
    /\ UNCHANGED <<sessionVars, dbresults_state, command_state, dbbuf, rpc, in, todo, histVars>>

\* A pending session is read up to the next result, which must not exist.
Trailing == tds_process_tokens(answer, pos, TDS_TOKEN_TRAILING)

\* SYBERPND: results are pending.  What was before them has been read.
Refused(forgotten) ==
    /\ ~idle /\ Trailing.rc # "NO_MORE_RESULTS"
    /\ Advance(Trailing)
    /\ excused' = excused \cup forgotten
    /\ command_state' = "SENT"
    /\ Return(FALSE)
    /\ UNCHANGED <<dbbuf, dboptcmd, rpc, q, taken, dropped, announced>>

MaySend == idle \/ Trailing.rc = "NO_MORE_RESULTS"

dbsqlsend ==
    /\ Calling("dbsqlsend") /\ q < MaxQueries /\ dbbuf > 0
    /\ \/ Refused(Ended(Trailing.next)) /\ UNCHANGED dbresults_state
       \/ \* the option is sent first, and its answer is read to the end
          /\ MaySend /\ dboptcmd
          /\ dboptcmd' = FALSE /\ dbresults_state' = "INIT"
          /\ \E opt \in Acks :
                /\ answer' = opt /\ res_info' = 0 /\ param_info' = FALSE
                /\ dead' = (opt[Len(opt)].kind = "eof")
                /\ pos' = IF dead' THEN Len(opt) ELSE Len(opt) + 1
                /\ in' = "app" /\ todo' = IF dead' THEN <<>> ELSE <<"dbsqlsend">> \o Left
          /\ taken' = {} /\ dropped' = {} /\ announced' = {} /\ excused' = {}
          /\ UNCHANGED <<command_state, dbbuf, rpc, q>>
       \/ /\ MaySend /\ ~dboptcmd
          /\ Submit(Answers)
          /\ dbresults_state' = "INIT" /\ command_state' = "SENT"
          /\ Return(TRUE)
          /\ UNCHANGED <<dbbuf, dboptcmd, rpc>>

dbsqlexec ==
    /\ Calling("dbsqlexec") /\ todo = <<>> /\ q < MaxQueries /\ dbbuf > 0
    /\ todo' = <<"dbsqlsend", "dbsqlok">>
    /\ UNCHANGED <<sessionVars, dbresults_state, commandVars, in, histVars>>

\* USE is appended to the command buffer.
dbuse ==
    LET kept == IF command_state = "SENT" THEN 0 ELSE dbbuf
    IN  /\ Calling("dbuse") /\ todo = <<>> /\ kept < MaxCommands /\ q < MaxQueries
        /\ dbbuf' = kept + 1 /\ command_state' = "PEND"
        /\ todo' = <<"dbsqlsend", "dbsqlok", "dbresults", "dbcanquery">>
        /\ UNCHANGED <<sessionVars, dbresults_state, dboptcmd, rpc, in, histVars>>

\* The whole text is sent at once.  The state is reset before anything is tested.
dbwritetext ==
    /\ Calling("dbwritetext") /\ todo = <<>> /\ q < MaxQueries
    /\ dbresults_state' = "INIT"
    /\ \/ Refused(Unannounced)
       \/ /\ MaySend /\ Submit(Acks)
          /\ in' = "app" /\ todo' = <<"dbsqlok", "dbresults">>
          /\ UNCHANGED commandVars

-----------------------------------------------------------------------------
(* Remote procedure calls.                                                 *)

\* With the name of another procedure than before; a second time it fails.
dbrpcinit ==
    /\ Calling("dbrpcinit") /\ todo = <<>> /\ rpc < MaxProcs
    /\ rpc' = rpc + 1
    /\ UNCHANGED <<sessionVars, dbresults_state, command_state, dbbuf, dboptcmd, in, todo, histVars>>

\* With DBRPCRESET.
dbrpcreset ==
    /\ Calling("dbrpcinit") /\ todo = <<>>
    /\ rpc' = 0
    /\ UNCHANGED <<sessionVars, dbresults_state, command_state, dbbuf, dboptcmd, in, todo, histVars>>

(* Every procedure is submitted, each under the name of the first; a       *)
(* session that is not idle refuses, so that the second always fails.  The *)
(* list is freed only when none does.                                      *)
dbrpcsend ==
    /\ Calling("dbrpcsend") /\ todo = <<>> /\ rpc > 0 /\ q < MaxQueries
    /\ dbresults_state' = "INIT"
    /\ rpc' = IF idle /\ rpc = 1 THEN 0 ELSE rpc
    /\ \/ idle /\ Submit(Answers)
       \/ /\ ~idle /\ excused' = excused \cup Unannounced
          /\ UNCHANGED <<sessionVars, q, taken, dropped, announced>>
    /\ UNCHANGED <<command_state, dbbuf, dboptcmd, in, todo>>

-----------------------------------------------------------------------------
(* Reading the answer.                                                     *)

Enter(f) == in' = f /\ UNCHANGED <<sessionVars, dbresults_state, commandVars, todo, histVars>>

dbsqlok == Calling("dbsqlok") /\ ~idle /\ pos = 1 /\ Enter("dbsqlok")

\* One turn of the loop of dbsqlok().  The error of a statement in a procedure
\* is only part of the return code, which nothing else depends on.
dbsqlok_turn ==
    LET r == tds_process_tokens(answer, pos, TDS_TOKEN_RESULTS)
        ok == r.rc = "NO_MORE_RESULTS" \/ r.type \notin Dones \/ ~r.error
    IN  /\ in = "dbsqlok"
        /\ Advance(r)
        /\ dbresults_state' =
              IF r.rc # "SUCCESS" THEN dbresults_state
              ELSE IF r.type \in {"rowfmt", "computefmt"} THEN "RESULTSET_EMPTY"
              ELSE IF r.type \notin {"done", "doneproc"} THEN dbresults_state
              ELSE IF ~r.error THEN "SUCCEED"
              ELSE IF r.more THEN "NEXT_RESULT" ELSE "NO_MORE_RESULTS"
        /\ IF r.rc = "SUCCESS" /\ r.type \in {"doneinproc", "status", "param"}
           THEN UNCHANGED <<in, todo>> ELSE Return(ok /\ r.rc # "FAIL")
        /\ UNCHANGED <<commandVars, histVars>>

\* dbresults() without reading: the state alone decides.
dbresults ==
    /\ Calling("dbresults")
    /\ \/ /\ dbresults_state = "SUCCEED"
          /\ dbresults_state' = "NEXT_RESULT" /\ Return(TRUE)
          /\ UNCHANGED <<sessionVars, commandVars, histVars>>
       \/ /\ dbresults_state = "RESULTSET_ROWS"       \* SYBERPND
          /\ Return(FALSE)
          /\ UNCHANGED <<sessionVars, dbresults_state, commandVars, histVars>>
       \/ /\ dbresults_state = "NO_MORE_RESULTS"
          /\ Return(TRUE)
          /\ UNCHANGED <<sessionVars, dbresults_state, commandVars, histVars>>
       \/ /\ dbresults_state \in {"INIT", "RESULTSET_EMPTY", "NEXT_RESULT"}
          /\ Enter("dbresults")

\* Mutant: a command of a procedure is passed although it had a result set.
Ends_inproc(r) == r.type = "done" \/ (r.type = "doneproc" /\ r.error)

\* A DONE token ends a command: with a result set, or one to be reported.
Ends(r) ==
    \/ dbresults_state = "RESULTSET_EMPTY"
    \/ r.type = "done"
    \/ r.type = "doneproc" /\ r.error

\* One turn of the loop of dbresults().
dbresults_turn ==
    LET r == tds_process_tokens(answer, pos, TDS_TOKEN_RESULTS)
        done == r.rc = "SUCCESS" /\ r.type \in Dones
        rows == r.rc = "SUCCESS" /\ r.type \in {"row", "compute"}
        set == dbresults_state = "RESULTSET_EMPTY"
    IN  /\ in = "dbresults"
        /\ pos' = r.next /\ dead' = (r.rc = "FAIL") /\ UNCHANGED answer
        /\ \* tds_free_all_results() after a command without result set
           IF done /\ ~set /\ r.type = "done" /\ ~r.error
           THEN res_info' = 0 /\ param_info' = FALSE
           ELSE /\ res_info' = ResInfo(answer, pos, r.next, res_info)
                /\ param_info' = ParamInfo(answer, pos, r.next, param_info)
        /\ dbresults_state' =
              IF rows THEN "RESULTSET_ROWS"
              ELSE IF done THEN "NEXT_RESULT"
              ELSE IF r.rc = "SUCCESS" /\ r.type = "rowfmt" THEN "RESULTSET_EMPTY"
              ELSE IF r.rc = "NO_MORE_RESULTS" THEN "NO_MORE_RESULTS"
              ELSE IF r.rc = "FAIL" THEN "INIT" ELSE dbresults_state
        /\ announced' = IF rows \/ (done /\ set /\ Ends(r)) THEN announced \cup {res_info} ELSE announced
        /\ IF r.rc = "SUCCESS" /\ ~rows /\ ~(done /\ Ends(r))
           THEN UNCHANGED <<in, todo>>
           ELSE Return(r.rc # "FAIL" /\ (done => set \/ ~r.error))
        /\ UNCHANGED <<commandVars, q, taken, dropped, excused>>

dbnextrow ==
    /\ Calling("dbnextrow") /\ todo = <<>>
    /\ res_info # 0 /\ dbresults_state = "RESULTSET_ROWS"
    /\ Enter("dbnextrow")

\* Mutant: the next result set does not stop dbnextrow().
NextRowMask_over == Flags({"DONE", "ROW", "COMPUTE"}, {})

NextRowMask == Flags({"DONE", "ROW", "COMPUTE"}, {"ROWFMT"})

\* One turn: a row, the end of a statement of a procedure (and on to the tokens
\* that trail it), or the end of the rows.
dbnextrow_turn ==
    LET r == tds_process_tokens(answer, pos, NextRowMask)
        row == r.rc = "SUCCESS" /\ r.type \in {"row", "compute"}
    IN  /\ in = "dbnextrow"
        /\ Advance(r)
        /\ taken' = IF row THEN taken \cup {r.next - 1} ELSE taken
        /\ IF r.rc = "SUCCESS" /\ r.type = "doneinproc"
           THEN UNCHANGED <<in, todo, dbresults_state>>
           ELSE /\ Return(TRUE)
                /\ dbresults_state' = IF row \/ r.rc = "FAIL" THEN dbresults_state ELSE "NEXT_RESULT"
        /\ UNCHANGED <<commandVars, q, dropped, announced, excused>>

\* A text column is read: dbresults_state is neither tested nor set, and the
\* end of the rows is not read.
dbreadtext ==
    LET r == tds_process_tokens(answer, pos, Flags({"ROW", "COMPUTE"}, {"ROWFMT", "DONE"}))
    IN  /\ Calling("dbreadtext") /\ todo = <<>> /\ res_info # 0
        /\ Advance(r)
        /\ taken' = taken \cup Rows(pos, r.next)
        /\ UNCHANGED <<dbresults_state, commandVars, in, todo, q, dropped, announced, excused>>

dbcanquery ==
    LET r == tds_process_tokens(answer, pos, Flags({"DONE"}, {"ROWFMT"}))
    IN  /\ Calling("dbcanquery")
        /\ Advance(r)
        /\ dropped' = dropped \cup Rows(pos, r.next)
        /\ excused' = excused \cup Ended(r.next)
        /\ dbresults_state' = IF r.rc = "FAIL" THEN dbresults_state ELSE "NEXT_RESULT"
        /\ Return(r.rc # "FAIL")
        /\ UNCHANGED <<commandVars, q, taken, announced>>

(* tds_send_cancel() and tds_process_cancel(): the rest of the answer is   *)
(* read and ignored (TdsSession has the protocol).  dbresults_state stays. *)
dbcancel ==
    /\ Calling("dbcancel") /\ todo = <<>>
    /\ IF answer # <<>> /\ answer[Len(answer)].kind = "eof"
       THEN pos' = Len(answer) /\ dead' = TRUE
       ELSE pos' = Len(answer) + 1 /\ dead' = FALSE
    /\ res_info' = ResInfo(answer, pos, pos', res_info)
    /\ param_info' = ParamInfo(answer, pos, pos', param_info)
    /\ dropped' = dropped \cup Rows(pos, pos')
    /\ excused' = excused \cup (Read(answer, 1, pos', "rowfmt") \ announced)
    /\ UNCHANGED <<answer, dbresults_state, commandVars, in, todo, q, taken, announced>>

\* Also dbretname(), dbretdata(), dbretlen(), dbrettype().
dbnumrets ==
    /\ Calling("dbnumrets") /\ todo = <<>> /\ ~param_info
    /\ Advance(Trailing)
    /\ excused' = excused \cup Ended(Trailing.next)
    /\ UNCHANGED <<dbresults_state, commandVars, in, todo, q, taken, dropped, announced>>

Next ==
    \/ dbcmd \/ dbfreebuf \/ dbsetopt \/ dbsqlsend \/ dbsqlexec \/ dbuse \/ dbwritetext
    \/ dbrpcinit \/ dbrpcreset \/ dbrpcsend
    \/ dbsqlok \/ dbsqlok_turn \/ dbresults \/ dbresults_turn
    \/ dbnextrow \/ dbnextrow_turn \/ dbreadtext
    \/ dbcanquery \/ dbcancel \/ dbnumrets

Spec == Init /\ [][Next]_vars
-----------------------------------------------------------------------------
(* No row is lost: whatever a program calls between the rows of a result   *)
(* set (dbresults(), dbsqlok(), dbnumrets(), a command or a procedure call *)
(* that is refused), the rows that the session has read were given to it   *)
(* by dbnextrow() or dbreadtext(), or discarded because it asked for it.   *)
NoRowIsSwallowed == Rows(1, pos) \subseteq taken \cup dropped

(* Every result set is announced: when dbresults() says that there are no  *)
(* more results the answer is read to its end, and it returned SUCCEED for *)
(* every result set, but for the ones that the program discarded, and for  *)
(* one that it had not yet asked for when dbnumrets() or a refused request *)
(* passed its end.                                                         *)
ResultSetsAreAnnounced ==
    dbresults_state = "NO_MORE_RESULTS" /\ ~dead =>
        /\ idle
        /\ Read(answer, 1, pos, "rowfmt") \subseteq announced \cup excused

(* A result set is announced once, and dbnextrow() never returns a row of  *)
(* another result set than the one announced last.  Only a procedure call  *)
(* or a text that the pending rows refused makes dbresults() announce the  *)
(* rest of the same rows again: it set the state back to INIT.             *)
RowsFollowTheirAnnouncement ==
    [][/\ in = "dbresults" /\ dbresults_state' = "RESULTSET_ROWS" /\ res_info \in announced
            => dbresults_state = "INIT"
       /\ in = "dbnextrow" /\ taken' # taken
            => /\ announced # {} /\ Max(announced) = res_info
               /\ \A j \in res_info + 1 .. pos' - 1 : answer[j].kind # "rowfmt"]_vars
=============================================================================
