------------------------------ MODULE CtResults ------------------------------
(***************************************************************************)
(* Commands and results of ct-lib (src/ctlib/ct.c): the command structures *)
(* of a connection share one session, hence one stream of tokens, and each *)
(* keeps its own idea of where its results stand (command_state,           *)
(* results_state, cancel_state, curr_result_type).                         *)
(*                                                                         *)
(* ct_results() is one step for each turn of its loop.  Column data,       *)
(* formats and messages are left out, and so are cursors and CS_EXPOSE_FMTS.*)
(* A cancelled answer is read to its end by whoever reads next (TdsSession *)
(* has the protocol).                                                      *)
(***************************************************************************)
EXTENDS Tokens

CONSTANTS
    Cmds,        \* the command structures
    Answers,     \* answers of the server (see Tokens)
    MaxSends,    \* bound: requests sent
    BindCount,   \* rows of one ct_fetch() (array binding)
    Disciplined  \* the program sends another command only after CS_END_RESULTS or a
                 \* cancel, or while the answer is pending, so that it is refused

ASSUME AnswersAssumption == \A a \in Answers : IsAnswer(a)
ASSUME NamesAssumption == "app" \notin Cmds /\ "none" \notin Cmds
ASSUME ParametersAssumption ==
    MaxSends \in Nat /\ BindCount \in Nat \ {0} /\ Disciplined \in BOOLEAN

(* How servers answer procedures, as far as ct_results() relies on it: a   *)
(* result set of a procedure ends with DONEINPROC, not with the DONEPROC   *)
(* of the procedure, and the parameters are the last results before it.    *)
ProceduresInOrder ==
    \A a \in Answers : \A f, j \in DOMAIN a :
        f < j /\ (\A i \in f .. j - 1 : a[i].kind \notin Dones) =>
            /\ a[f].kind = "rowfmt" => a[j].kind # "doneproc"
            /\ a[f].kind = "param" => a[j].kind \notin {"param", "status"}

VARIABLES
    \* TDSSOCKET
    answer, pos,      \* the answer of the last request and the next token to read
    in_cancel,        \* a cancel was sent and its acknowledgement not yet read
    dead,             \* TDS_DEAD
    \* CS_COMMAND
    command_type,     \* "LANG" (or RPC), "DYNAMIC" (CS_EXECUTE)
    command_state,    \* "IDLE", "BUILDING", "READY", "SENT"
    results_state,    \* "NONE", "INIT", "EMPTY", "ROWS", "STATUS", "CMD_DONE"
    cancel_pending,   \* cancel_state is _CS_CANCEL_PENDING
    curr_result_type, \* kind of the token ct_results() last stopped at, or "none"
    row_prefetched,
    \* the program
    in,               \* the command whose ct_results() runs, or "app"
    keepdone,         \* process_flags of that call: DONE tokens are not read
    stuck,            \* a call waits for data of an idle session
    \* history
    sends,            \* requests sent
    owner,            \* the command that sent the last request, or "none"
    told,             \* what ct_results() last returned for a command: "sent" before its
                      \* first result, "closed" when the program was told the end
    taken,            \* rows fetched, with the command that fetched them
    dropped,          \* tokens discarded by ct_cancel()
    reported          \* row formats, parameters and statuses of the answer reported

sessionVars == <<answer, pos, in_cancel, dead>>
cmdVars == <<command_type, command_state, results_state, cancel_pending, curr_result_type,
             row_prefetched>>
callVars == <<in, keepdone, stuck>>
histVars == <<sends, owner, told, taken, dropped, reported>>
vars == <<answer, pos, in_cancel, dead, command_type, command_state, results_state,
          cancel_pending, curr_result_type, row_prefetched, in, keepdone, stuck,
          sends, owner, told, taken, dropped, reported>>

idle == pos > Len(answer)

\* Result types that ct_fetch() may be called for.
Fetchable == {"row", "compute", "param", "status"}

TypeOK ==
    /\ answer \in Answers \cup {<<>>} /\ pos \in 1 .. Len(answer) + 1
    /\ in_cancel \in BOOLEAN /\ (in_cancel => ~idle) /\ dead \in BOOLEAN
    /\ command_type \in [Cmds -> {"LANG", "DYNAMIC"}]
    /\ command_state \in [Cmds -> {"IDLE", "BUILDING", "READY", "SENT"}]
    /\ results_state \in [Cmds -> {"NONE", "INIT", "EMPTY", "ROWS", "STATUS", "CMD_DONE"}]
    /\ cancel_pending \in [Cmds -> BOOLEAN]
    /\ curr_result_type \in [Cmds -> Kinds \cup {"none"}]
    /\ row_prefetched \in [Cmds -> BOOLEAN]
    /\ in \in Cmds \cup {"app"} /\ keepdone \in BOOLEAN /\ stuck \in BOOLEAN
    /\ sends \in 0 .. MaxSends /\ owner \in Cmds \cup {"none"}
    /\ told \in [Cmds -> {"closed", "sent", "row", "compute", "param", "status",
                          "CMD_SUCCEED", "CMD_FAIL", "CMD_DONE"}]
    /\ taken \subseteq (DOMAIN answer) \X Cmds
    /\ dropped \cup reported \subseteq DOMAIN answer

Init ==
    /\ answer = <<>> /\ pos = 1 /\ in_cancel = FALSE /\ dead = FALSE
    /\ command_type = [c \in Cmds |-> "LANG"]
    /\ command_state = [c \in Cmds |-> "IDLE"]
    /\ results_state = [c \in Cmds |-> "INIT"]
    /\ cancel_pending = [c \in Cmds |-> FALSE]
    /\ curr_result_type = [c \in Cmds |-> "none"]
    /\ row_prefetched = [c \in Cmds |-> FALSE]
    /\ in = "app" /\ keepdone = FALSE /\ stuck = FALSE
    /\ sends = 0 /\ owner = "none" /\ told = [c \in Cmds |-> "closed"]
    /\ taken = {} /\ dropped = {} /\ reported = {}

-----------------------------------------------------------------------------
Calling == in = "app" /\ ~dead /\ ~stuck

\* The commands that were sent and whose end the program has not been told.
open == {c \in Cmds : told[c] # "closed"}

Set(f, c, v) == [f EXCEPT ![c] = v]

Rows(from, to) == Read(answer, from, to, "row") \cup Read(answer, from, to, "compute")

\* tds_process_cancel(), or the token loop after a cancel: all that is left.
DrainTo == IF answer[Len(answer)].kind = "eof" THEN Len(answer) ELSE Len(answer) + 1

\* Mutant: the acknowledgement stays expected.
Drain_pending ==
    /\ pos' = DrainTo /\ dead' = (DrainTo = Len(answer)) /\ dropped' = dropped \cup (pos .. DrainTo - 1)
    /\ UNCHANGED <<answer, in_cancel>>

Drain ==
    /\ pos' = DrainTo /\ dead' = (DrainTo = Len(answer)) /\ in_cancel' = FALSE
    /\ dropped' = dropped \cup (pos .. DrainTo - 1)
    /\ UNCHANGED answer

\* _ct_cancel_cleanup(): the acknowledgement of a cancel is read.
_ct_cancel_cleanup(c) ==
    /\ cancel_pending' = Set(cancel_pending, c, FALSE)
    /\ IF in_cancel THEN Drain ELSE UNCHANGED <<sessionVars, dropped>>
    /\ told' = Set(told, c, "closed")

-----------------------------------------------------------------------------
(* Building and sending commands.                                          *)

\* Also ct_dynamic(), which does not build in parts.  A disciplined program
\* has read the results of the last command.
ct_command(c, type, state) ==
    /\ Calling /\ (Disciplined => c \notin open)
    /\ type = "DYNAMIC" => state = "READY"
    /\ command_state' = Set(command_state, c, state)
    /\ command_type' = Set(command_type, c, type)
    /\ UNCHANGED <<sessionVars, results_state, cancel_pending, curr_result_type, row_prefetched,
                   callVars, histVars>>

\* Mutant: a request is sent while an answer is pending.
MaySend_pending == TRUE

\* tds_submit_query() and the others need an idle session.
MaySend == idle

(* The session refuses a request while an answer is pending: a language    *)
(* command is SENT all the same, a dynamic one is not.                     *)
ct_send(c) ==
    /\ Calling /\ (Disciplined => open \subseteq {c} \/ ~idle)
    /\ \/ /\ cancel_pending[c]                        \* CS_CANCELED
          /\ _ct_cancel_cleanup(c)
          /\ UNCHANGED <<command_type, command_state, results_state, curr_result_type,
                         row_prefetched, callVars, sends, owner, taken, reported>>
       \/ /\ ~cancel_pending[c] /\ command_state[c] \in {"READY", "SENT", "BUILDING"}
          /\ results_state' = Set(results_state, c, "NONE")
          /\ IF MaySend
             THEN /\ sends < MaxSends /\ sends' = sends + 1
                  /\ owner' = c /\ told' = Set(told, c, "sent")
                  /\ answer' \in Answers /\ pos' = 1
                  /\ taken' = {} /\ dropped' = {} /\ reported' = {}
                  /\ command_state' = Set(command_state, c, "SENT")
                  /\ UNCHANGED <<in_cancel, dead>>
             ELSE /\ command_state' = IF command_type[c] = "LANG"
                                      THEN Set(command_state, c, "SENT") ELSE command_state
                  /\ UNCHANGED <<sessionVars, histVars>>
          /\ UNCHANGED <<command_type, cancel_pending, curr_result_type, row_prefetched, callVars>>

\* The structure is dropped and another one allocated.
ct_cmd_drop(c) ==
    /\ Calling /\ (Disciplined => c \notin open)
    /\ command_type' = Set(command_type, c, "LANG")
    /\ command_state' = Set(command_state, c, "IDLE")
    /\ results_state' = Set(results_state, c, "INIT")
    /\ cancel_pending' = Set(cancel_pending, c, FALSE)
    /\ curr_result_type' = Set(curr_result_type, c, "none")
    /\ row_prefetched' = Set(row_prefetched, c, FALSE)
    /\ told' = Set(told, c, "closed")
    /\ UNCHANGED <<sessionVars, callVars, sends, owner, taken, dropped, reported>>

-----------------------------------------------------------------------------
(* ct_results().                                                           *)

\* The entry: a cancel is completed, or the state alone gives the answer, or the
\* loop begins.
ct_results(c) ==
    /\ Calling /\ c \in open
    /\ \/ /\ cancel_pending[c]                        \* CS_CANCELED
          /\ _ct_cancel_cleanup(c)
          /\ UNCHANGED <<command_type, command_state, results_state, curr_result_type,
                         row_prefetched, callVars, sends, owner, taken, reported>>
       \/ /\ ~cancel_pending[c] /\ results_state[c] = "CMD_DONE"
          /\ results_state' = Set(results_state, c, "INIT")
          /\ row_prefetched' = Set(row_prefetched, c, FALSE)
          /\ told' = Set(told, c, "CMD_DONE")
          /\ UNCHANGED <<sessionVars, command_type, command_state, cancel_pending,
                         curr_result_type, callVars, sends, owner, taken, dropped, reported>>
       \/ /\ ~cancel_pending[c] /\ results_state[c] # "CMD_DONE"
          /\ results_state' = Set(results_state, c,
                                  IF results_state[c] = "NONE" THEN "INIT" ELSE results_state[c])
          /\ row_prefetched' = Set(row_prefetched, c, FALSE)
          /\ in' = c /\ keepdone' = FALSE
          /\ UNCHANGED <<sessionVars, command_type, command_state, cancel_pending,
                         curr_result_type, stuck, histVars>>

\* Mutant: TDS_STOPAT_ROW is missing when DONE tokens are kept.
ResultsFlags_rows == IF keepdone THEN Flags({"ROWFMT", "COMPUTEFMT", "PROC"}, {"DONE", "COMPUTE"})
                     ELSE TDS_TOKEN_RESULTS

\* process_flags.
ResultsFlags == IF keepdone THEN Flags({"ROWFMT", "COMPUTEFMT", "PROC"}, {"DONE", "ROW", "COMPUTE"})
                ELSE TDS_TOKEN_RESULTS

\* The loop goes on with the next token, or the program is told something.
Tell(c, what, token) ==
    /\ in' = "app" /\ told' = Set(told, c, what)
    /\ reported' = IF token = 0 THEN reported ELSE reported \cup {token}

\* The row format of the result set at pos.
Fmt(p) == ResInfo(answer, 1, p, 0)

Is(what, state) == [what |-> what, state |-> state]

\* Mutant: no row result is made for an empty result set of a procedure.
DoneInProc_empty(rs) == IF rs \in {"EMPTY", "ROWS"} THEN Is("CMD_DONE", "INIT") ELSE Is("none", rs)

DoneInProc(rs) ==
    CASE rs = "EMPTY" -> Is("row", "ROWS")
      [] rs = "ROWS" -> Is("CMD_DONE", "INIT")
      [] OTHER -> Is("none", rs)

\* What a token makes of results_state and what is reported; "none": the loop
\* goes on.  prefetch: ct_fetch() will find the row read.
Turn(c, r) ==
    LET rs == results_state[c]
        done == Is(IF r.error THEN "CMD_FAIL" ELSE "CMD_SUCCEED", "CMD_DONE")
    IN  CASE r.type \in {"computefmt", "rowfmt"} -> Is("none", "EMPTY")
          [] r.type = "row" -> Is("row", "ROWS")
          [] r.type = "compute" -> Is(IF rs = "EMPTY" THEN "row" ELSE "compute", "ROWS")
          [] r.type = "done" /\ rs \in {"INIT", "STATUS"} -> done
          [] r.type = "done" /\ rs = "EMPTY" -> Is("row", "ROWS")
          [] r.type = "done" /\ rs = "ROWS" -> Is("CMD_DONE", "INIT")
          [] r.type = "doneinproc" -> DoneInProc(rs)
          [] r.type = "doneproc" -> done
          [] r.type = "param" -> Is("param", rs)
          [] r.type = "status" -> Is("status", "STATUS")

\* Mutant: the DONE of an empty result set is always read.
KeepsDone_never(c, r) == FALSE

\* The DONE that follows the rows of a language command is left to the next call.
KeepsDone(c, r) == r.type = "rowfmt" /\ command_type[c] # "DYNAMIC"

\* A compute row is read at once, unless the row result was not yet reported.
Prefetches(c, t) == t = "compute" /\ results_state[c] # "EMPTY"

ct_results_turn(c) ==
    LET r == tds_process_tokens(answer, pos, ResultsFlags)
        t == Turn(c, r)
        \* the token that is reported: a row format, parameters or a status
        token == IF t.what = "row" THEN Fmt(r.next)
                 ELSE IF t.what \in {"param", "status"} THEN r.next - 1 ELSE 0
    IN  /\ in = c
        /\ \/ \* TDS_CANCELLED
              /\ in_cancel /\ Drain
              /\ in' = "app" /\ told' = Set(told, c, "closed")
              /\ UNCHANGED <<cmdVars, keepdone, stuck, sends, owner, taken, reported>>
           \/ /\ ~in_cancel /\ r.rc = "NO_MORE_RESULTS"
              /\ pos' = r.next
              /\ command_state' = Set(command_state, c, "READY")
              /\ in' = "app" /\ told' = Set(told, c, "closed")
              /\ UNCHANGED <<answer, in_cancel, dead, command_type, results_state, cancel_pending,
                             curr_result_type, row_prefetched, keepdone, stuck, sends, owner,
                             taken, dropped, reported>>
           \/ /\ ~in_cancel /\ r.rc = "FAIL"
              /\ pos' = r.next /\ dead' = TRUE /\ in' = "app"
              /\ UNCHANGED <<answer, in_cancel, cmdVars, keepdone, stuck, histVars>>
           \/ /\ ~in_cancel /\ r.rc = "SUCCESS"
              /\ pos' = IF Prefetches(c, r.type) THEN r.next + 1 ELSE r.next
              /\ taken' = IF Prefetches(c, r.type) THEN taken \cup {<<r.next, c>>} ELSE taken
              /\ row_prefetched' = Set(row_prefetched, c,
                                       r.type \in {"param", "status"} \/ Prefetches(c, r.type))
              /\ curr_result_type' = Set(curr_result_type, c,
                                         IF r.type = "rowfmt" THEN "row" ELSE r.type)
              /\ results_state' = Set(results_state, c, t.state)
              /\ keepdone' = (keepdone \/ KeepsDone(c, r))
              /\ IF t.what = "none" THEN UNCHANGED <<in, told, reported>> ELSE Tell(c, t.what, token)
              /\ UNCHANGED <<answer, in_cancel, dead, command_type, command_state, cancel_pending,
                             stuck, sends, owner, dropped>>

-----------------------------------------------------------------------------
(* ct_fetch().                                                             *)

FetchFlags == Flags({"ROW", "COMPUTE"}, {"ROWFMT", "DONE"})

\* The rows that follow one another from p on, at most n.
RowsFrom(p, n) == {j \in p .. Len(answer) : j < p + n /\ \A i \in p .. j : answer[i].kind = "row"}

(* One call of ct_fetch() up to the tokens: a prefetched row, a result     *)
(* without more rows, or a look at the next token (tds_peek()), which      *)
(* waits for the server when the session is idle.                          *)
FetchEnds(c) ==
    \/ results_state[c] = "CMD_DONE"
    \/ curr_result_type[c] = "compute"
    \/ /\ ~idle
       /\ \/ curr_result_type[c] = "row" /\ answer[pos].kind # "row"
          \/ curr_result_type[c] = "status" /\ answer[pos].kind # "status"

FetchWaits(c) ==
    ~row_prefetched[c] /\ results_state[c] # "CMD_DONE" /\ curr_result_type[c] # "compute" /\ idle

\* The tokens of one ct_fetch(): where it gets to.
Fetched(c) ==
    IF row_prefetched[c] \/ FetchEnds(c) THEN pos
    ELSE LET r == tds_process_tokens(answer, pos, FetchFlags)
         IN  IF r.rc = "SUCCESS" /\ r.type \in {"row", "compute"}
             THEN r.next + (IF curr_result_type[c] = "row"
                            THEN Cardinality(RowsFrom(r.next, BindCount - 1)) ELSE 0)
             ELSE r.next

\* A disciplined program fetches what ct_results() told it of.
MayFetch(c) == c \in open /\ (Disciplined => told[c] \in Fetchable)

\* CS_CANCELED.
FetchCancelled(c) ==
    \/ /\ cancel_pending[c]
       /\ _ct_cancel_cleanup(c)
       /\ UNCHANGED <<command_type, command_state, results_state, curr_result_type,
                      row_prefetched, callVars, sends, owner, taken, reported>>
    \/ /\ ~cancel_pending[c] /\ in_cancel /\ ~row_prefetched[c] /\ ~FetchEnds(c)
       /\ Drain /\ told' = Set(told, c, "closed")
       /\ UNCHANGED <<cmdVars, callVars, sends, owner, taken, reported>>

ct_fetch(c) ==
    /\ Calling /\ MayFetch(c) /\ command_state[c] # "IDLE"
    /\ \/ FetchCancelled(c)
       \/ /\ ~cancel_pending[c] /\ FetchWaits(c)
          /\ stuck' = TRUE
          /\ UNCHANGED <<sessionVars, cmdVars, in, keepdone, histVars>>
       \/ /\ ~cancel_pending[c] /\ ~FetchWaits(c)
          /\ in_cancel => row_prefetched[c] \/ FetchEnds(c)
          /\ pos' = Fetched(c)
          /\ dead' = (~idle /\ Fetched(c) = Len(answer) /\ answer[Len(answer)].kind = "eof"
                      /\ ~row_prefetched[c] /\ ~FetchEnds(c))
          /\ taken' = taken \cup (Rows(pos, Fetched(c)) \X {c})
          /\ row_prefetched' = Set(row_prefetched, c, FALSE)
          /\ UNCHANGED <<answer, in_cancel, command_type, command_state, results_state,
                         cancel_pending, curr_result_type, callVars, sends, owner, told,
                         dropped, reported>>

-----------------------------------------------------------------------------
(* ct_cancel().                                                            *)

(* CS_CANCEL_CURRENT: ct_fetch() until it returns no more rows.  The code  *)
(* looks at curr_result_type, which may be left from the last request; a   *)
(* disciplined program was told of the results that it cancels.            *)
CancelCurrent(c) ==
    LET ends == FetchEnds(c) \/ idle
        to == IF ends THEN pos
              ELSE tds_process_tokens(answer, pos, Flags({}, {"ROWFMT", "DONE"})).next
        rest == {j \in pos .. to - 1 : curr_result_type[c] = "row" =>
                                          \A i \in pos .. j : answer[i].kind = "row"}
    IN  /\ Calling /\ MayFetch(c)
        /\ curr_result_type[c] \in Fetchable /\ command_state[c] # "IDLE"
        /\ \/ FetchCancelled(c)
           \/ /\ ~cancel_pending[c] /\ (in_cancel => FetchEnds(c))
              /\ stuck' = (~FetchEnds(c) /\ idle)
              /\ pos' = pos + Cardinality(rest)
              /\ dead' = (~ends /\ answer[to].kind = "eof" /\ pos' = to)
              /\ dropped' = dropped \cup Rows(pos, pos')
              /\ row_prefetched' = Set(row_prefetched, c, FALSE)
              /\ UNCHANGED <<answer, in_cancel, command_type, command_state, results_state,
                             cancel_pending, curr_result_type, in, keepdone, sends, owner,
                             told, taken, reported>>

\* The commands of ct_cancel(): one, or all of the connection.  A disciplined
\* program does not cancel a command whose end it was told.
Targets == {{c} : c \in IF Disciplined THEN open ELSE Cmds} \cup {Cmds}

(* CS_CANCEL_ATTN: the acknowledgement is left to the next call.           *)
CancelAttn(s) ==
    LET hit == {c \in s : command_state[c] = "SENT" /\ results_state[c] # "NONE"}
    IN  /\ Calling /\ s \in Targets /\ hit # {}
        /\ in_cancel' = (in_cancel \/ ~idle)
        /\ cancel_pending' = [c \in Cmds |-> cancel_pending[c] \/ c \in hit]
        /\ UNCHANGED <<answer, pos, dead, command_type, command_state, results_state,
                       curr_result_type, row_prefetched, callVars, histVars>>

(* CS_CANCEL_ALL: the answer is read to its end.                           *)
CancelAll(s) ==
    LET hit == {c \in s : command_state[c] = "SENT"}
    IN  /\ Calling /\ s \in Targets
        /\ IF hit # {} /\ ~idle THEN Drain ELSE UNCHANGED <<sessionVars, dropped>>
        /\ command_state' = [c \in Cmds |-> IF c \in s THEN "IDLE" ELSE command_state[c]]
        /\ cancel_pending' = [c \in Cmds |-> cancel_pending[c] \/ c \in hit]
        /\ told' = [c \in Cmds |-> IF c \in s THEN "closed" ELSE told[c]]
        /\ UNCHANGED <<command_type, results_state, curr_result_type, row_prefetched, callVars,
                       sends, owner, taken, reported>>

Next ==
    \/ \E c \in Cmds :
          \/ \E type \in {"LANG", "DYNAMIC"}, state \in {"BUILDING", "READY"} :
                ct_command(c, type, state)
          \/ ct_send(c) \/ ct_cmd_drop(c) \/ ct_results(c) \/ ct_results_turn(c)
          \/ ct_fetch(c) \/ CancelCurrent(c)
    \/ \E s \in Targets : CancelAttn(s) \/ CancelAll(s)

Spec == Init /\ [][Next]_vars

-----------------------------------------------------------------------------
(* A command gets the rows of its own request, never those of another      *)
(* command of the connection.                                              *)
RowsGoToTheirCommand == \A t \in taken : t[2] = owner

(* No row is lost: the rows that the session has read were fetched, or     *)
(* discarded by a cancel, whatever the program called in between.          *)
NoRowIsSwallowed == Rows(1, pos) \subseteq {t[1] : t \in taken} \cup dropped

(* ct_results() returns CS_END_RESULTS for a language command only when    *)
(* every result set, every list of output parameters and every return      *)
(* status of its answer was reported, or discarded by a cancel.  The       *)
(* answers of procedures are in order.                                     *)
ResultsAreReported ==
    [][\A c \in Cmds :
          in = c /\ in' = "app" /\ command_state'[c] = "READY" /\ command_type[c] = "LANG" =>
            {j \in DOMAIN answer : \/ answer[j].kind \in {"rowfmt", "param"}
                                   \/ (answer[j].kind = "status" /\ Reported(answer, j))}
            \subseteq reported \cup dropped]_vars

(* ct_fetch() of a language command waits for data that will not come only *)
(* after a cancel made for another command threw the rest of the answer    *)
(* away: else, when it looks for the next row, there is an answer to read. *)
FetchFindsAnAnswer ==
    stuck => \A c \in open : command_type[c] = "DYNAMIC" \/ Len(answer) \in dropped

(* The same for every command: after the end of an empty result set        *)
(* ct_results() reports a row result that ct_fetch() can end.              *)
NoFetchWaits == ~stuck
=============================================================================
