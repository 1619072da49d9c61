--------------------------- MODULE OdbcStatements ---------------------------
(***************************************************************************)
(* The statements of an ODBC connection (src/odbc/odbc.c): which of them   *)
(* owns which session (odbc_lock_statement(), odbc_unlock_statement()),    *)
(* and what they hold at the server: prepared statements and cursors,      *)
(* which libtds keeps in two lists of the connection with reference        *)
(* counters, and closes later when the session is busy (src/tds/mem.c,     *)
(* query.c, token.c).  The protocol is TDS 7.1 or later, built with        *)
(* ENABLE_ODBC_MARS.                                                       *)
(*                                                                         *)
(* The whole connection is the record d, and the functions of the code are *)
(* operators from one value of d to the next.  A call that sends a request *)
(* is two steps: Enter, up to the end of the part of odbc_lock_statement() *)
(* that is under the mutex of the connection, and the rest.  Rows,         *)
(* parameters and messages are left out: an answer is read in part or to   *)
(* its end.                                                                *)
(***************************************************************************)
EXTENDS Integers, FiniteSets, Sequences, SequencesExt

CONSTANTS
    Stmts, Dyns, Cursors, \* statement handles; bounds: prepared statements and cursors
    MaxSid,               \* bound: sessions besides the one of the connection (0)
    None,
    Threads,              \* statements are used by different threads
    Careful               \* a statement is prepared again only when its answer was read;
                          \* parameters bound again are executed before the columns are
                          \* asked for, and are not bound again while MARS is on

ASSUME ParametersAssumption ==
    /\ MaxSid \in Nat /\ Threads \in BOOLEAN /\ Careful \in BOOLEAN
    /\ IsFiniteSet(Stmts) /\ Dyns \cap Cursors = {}
    /\ None \notin Stmts \cup Dyns \cup Cursors \cup (0 .. MaxSid)

VARIABLES
    d,    \* the connection
    pc    \* the call each statement is in, or "app"

vars == <<d, pc>>

Sids == 0 .. MaxSid
Handles == Dyns \cup Cursors
Ops == {"none", "query", "prepare", "prepexec", "execute", "unprepare", "cursoropen",
        "cursoroption", "cursorfetch", "cursorclose"}
Calls == {"exec", "execcursor", "fetch", "describe"}
Results == {"ok", "err", "dead"}

Connection == [
    \* TDS_DBC
    connected : BOOLEAN, mars : BOOLEAN, current : Stmts \cup {None},
    \* TDS_STMT: its session (got: the one odbc_lock_statement() chose), what it holds
    alive : SUBSET Stmts,
    tds : [Stmts -> Sids \cup {None}], got : [Stmts -> Sids \cup {None}],
    dyn : [Stmts -> Dyns \cup {None}], cursor : [Stmts -> Cursors \cup {None}],
    is_prepared : [Stmts -> BOOLEAN], need_reprepare : [Stmts -> BOOLEAN],
    \* TDSSOCKET
    state : [Sids -> {"free", "IDLE", "PENDING", "DEAD"}],
    current_op : [Sids -> Ops],
    cur_dyn : [Sids -> Dyns \cup {None}], cur_cursor : [Sids -> Cursors \cup {None}],
    \* TDSCONNECTION and its handles; known: num_id is not 0, or the cursor is open
    dyns : Seq(Dyns), cursors : Seq(Cursors),
    ref_count : [Handles -> Nat], known : SUBSET Handles,
    defer_close : SUBSET Handles, pending_close : BOOLEAN,
    \* history: what the server holds; who sent the last request of a session;
    \* the first use of a freed session or failed assertion
    server : SUBSET Handles, asker : [Sids -> Stmts \cup {None}],
    fault : {"none", "freed", "assert"}]

TypeOK == pc \in [Stmts -> Calls \cup {"app"}] /\ d \in Connection

All(S, v) == [x \in S |-> v]

Init ==
    /\ pc = All(Stmts, "app")
    /\ \E mars \in BOOLEAN :
          d = [connected |-> TRUE, mars |-> mars, current |-> None, alive |-> {},
               tds |-> All(Stmts, None), got |-> All(Stmts, None),
               dyn |-> All(Stmts, None), cursor |-> All(Stmts, None),
               is_prepared |-> All(Stmts, FALSE), need_reprepare |-> All(Stmts, FALSE),
               state |-> [x \in Sids |-> IF x = 0 THEN "IDLE" ELSE "free"],
               current_op |-> All(Sids, "none"),
               cur_dyn |-> All(Sids, None), cur_cursor |-> All(Sids, None),
               dyns |-> <<>>, cursors |-> <<>>, ref_count |-> All(Handles, 0),
               known |-> {}, defer_close |-> {}, pending_close |-> FALSE,
               server |-> {}, asker |-> All(Sids, None), fault |-> "none"]

-----------------------------------------------------------------------------
(* Handles of libtds.                                                      *)

\* tds_release_dynamic(), tds_release_cursor(): freed when the counter is 0.
Release(c, h) == IF h = None THEN c ELSE [c EXCEPT !.ref_count[h] = @ - 1]

FreeHandles(S) == {h \in S : d.ref_count[h] = 0}

\* tds_alloc_dynamic(), tds_alloc_cursor(): the caller and the list refer to it.
tds_alloc_dynamic(c, h) ==
    [c EXCEPT !.ref_count[h] = 2, !.dyns = <<h>> \o @, !.known = @ \ {h}, !.defer_close = @ \ {h}]

tds_alloc_cursor(c, h) ==
    [c EXCEPT !.ref_count[h] = 2, !.cursors = Append(@, h), !.known = @ \ {h}, !.defer_close = @ \ {h}]

\* tds_dynamic_deallocated(), tds_cursor_deallocated(): nothing when not listed.
tds_dynamic_deallocated(c, h) ==
    IF ~Contains(c.dyns, h) THEN c
    ELSE Release([c EXCEPT !.dyns = RemoveFirst(@, h), !.known = @ \ {h}], h)

tds_cursor_deallocated(c, h) ==
    IF ~Contains(c.cursors, h) THEN c ELSE Release([c EXCEPT !.cursors = RemoveFirst(@, h)], h)

\* Also tds_cursor_dealloc(): a cursor that is closed is removed from the list.
tds_cursor_check_allocated(c, h) == IF h \in c.known THEN c ELSE tds_cursor_deallocated(c, h)

\* Mutant: the handles of the session are not released.
ReleaseCur_kept(c, x) == [c EXCEPT !.cur_dyn[x] = None, !.cur_cursor[x] = None]

\* The lists let go of what is in them.
Listed(c, h) == Contains(c.dyns, h) \/ Contains(c.cursors, h)
tds_deinit_connection(c) ==
    [c EXCEPT !.dyns = <<>>, !.cursors = <<>>, !.known = {h \in @ : ~Contains(c.dyns, h)},
              !.ref_count = [h \in Handles |-> IF Listed(c, h) THEN @[h] - 1 ELSE @[h]]]

\* What the session refers to.
ReleaseCur(c, x) ==
    [Release(Release(c, c.cur_dyn[x]), c.cur_cursor[x])
        EXCEPT !.cur_dyn[x] = None, !.cur_cursor[x] = None]

(* A request for the handle h (or None) on an idle session: tds_set_state() *)
(* lets go of the handles of the last one, tds_set_cur_dyn() and            *)
(* tds_set_cur_cursor() take this one.  The server does it at once.         *)
Submit(c, s, x, op, h) ==
    LET e == ReleaseCur(c, x)
        r == IF h = None THEN e ELSE [e EXCEPT !.ref_count[h] = @ + 1]
    IN  [r EXCEPT !.state[x] = "PENDING", !.current_op[x] = op, !.asker[x] = s,
                  !.cur_dyn[x] = IF h \in Dyns THEN h ELSE None,
                  !.cur_cursor[x] = IF h \in Cursors THEN h ELSE None,
                  !.server = IF op \in {"unprepare", "cursorclose"} THEN @ \ {h} ELSE @]

-----------------------------------------------------------------------------
(* The end of an answer.                                                   *)

\* The DONEPROC token of the session's current operation, after tds_process_end().
DoneProc(c, x, ok) ==
    CASE c.current_op[x] = "cursorclose" -> [c EXCEPT !.known = @ \ {c.cur_cursor[x]}]
      [] c.current_op[x] = "unprepare" /\ ok -> tds_dynamic_deallocated(c, c.cur_dyn[x])
      [] OTHER -> c

\* One close of tds_process_pending_closes() on the session x, that succeeds.
Close(c, x, h) ==
    LET op == IF h \in Dyns THEN "unprepare" ELSE "cursorclose"
        e == [Submit(c, c.asker[x], x, op, h) EXCEPT !.state[x] = "IDLE"]
        r == [DoneProc(e, x, TRUE) EXCEPT !.defer_close = @ \ {h}]
    IN  IF h \in Dyns THEN r ELSE tds_cursor_check_allocated(r, h)

\* The cursors and then the prepared statements of the connection, one after the other.
tds_process_pending_closes(c, x) ==
    LET all == c.cursors \o c.dyns
        after[n \in 0 .. Len(all)] ==
            IF n = 0 THEN [c EXCEPT !.pending_close = FALSE]
            ELSE IF all[n] \in after[n - 1].defer_close THEN Close(after[n - 1], x, all[n])
            ELSE after[n - 1]
    IN  after[Len(all)]

\* What the server made of the request, when its return value or its answer names it.
New(c, x, res) ==
    IF res = "ok" /\ c.current_op[x] \in {"prepare", "prepexec"} THEN {c.cur_dyn[x]}
    ELSE IF res = "ok" /\ c.current_op[x] = "cursoropen" THEN {c.cur_cursor[x]} ELSE {}

\* The last token of the answer: the session is idle, and makes the closes that wait for it.
tds_process_end(c, x, new) ==
    LET r == [c EXCEPT !.state[x] = "IDLE", !.known = @ \cup new, !.server = @ \cup new]
    IN  IF c.pending_close THEN tds_process_pending_closes(r, x) ELSE r

\* The connection is lost, for all its sessions.
tds_connection_close(c) ==
    [c EXCEPT !.state = [y \in Sids |-> IF @[y] = "free" THEN "free" ELSE "DEAD"],
              !.current_op = All(Sids, "none"), !.asker = All(Sids, None), !.server = {}]

(* The rest of the answer on session x is read.  res: "ok", "err" (the     *)
(* server refused), "cancel" (it ends in a DONE token) or "dead" (the      *)
(* connection is lost).  The pending closes are made inside                *)
(* tds_process_end(), so that the end of the outer operation then sees the *)
(* operation of the last close.  What an idle session was last asked for   *)
(* is forgotten: every request sets it again.                              *)
Finish(c, x, res) ==
    LET e == tds_process_end(c, x, New(c, x, res))
        plain == c.current_op[x] = "query" \/ res = "cancel"
    IN  IF c.state[x] # "PENDING" THEN c
        ELSE IF res = "dead" THEN tds_connection_close(c)
        ELSE [IF plain THEN e ELSE DoneProc(e, x, res = "ok")
                EXCEPT !.current_op[x] = "none", !.asker[x] = None]

-----------------------------------------------------------------------------
(* Sessions and statements.                                                *)

\* Mutant: the statement that had the session is not told.
Steal_both(c, s) == [c EXCEPT !.current = s, !.got[s] = 0]

\* The session of the connection is taken from a statement that is done with it.
Steal(c, s) == [c EXCEPT !.tds[c.current] = None, !.current = s, !.got[s] = 0]

\* odbc_lock_statement() under the mutex; got is None when there is no session.
Choose(c, s) ==
    LET unused == {x \in Sids : c.state[x] = "free"}
        x == CHOOSE x \in unused : TRUE
    IN  CASE c.tds[s] # None -> [c EXCEPT !.got[s] = c.tds[s]]
          [] c.tds[s] = None /\ c.current \in {None, s} -> [c EXCEPT !.current = s, !.got[s] = 0]
          [] c.tds[s] = None /\ c.current \notin {None, s} /\ c.state[0] = "IDLE" -> Steal(c, s)
          [] c.tds[s] = None /\ c.current \notin {None, s} /\ c.state[0] # "IDLE" ->
                IF c.mars /\ c.state[0] # "DEAD" /\ unused # {}
                THEN [c EXCEPT !.state[x] = "IDLE", !.got[s] = x]
                ELSE [c EXCEPT !.got[s] = None]

\* The rest of it.
Assign(c, s) == IF c.got[s] = None THEN c ELSE [c EXCEPT !.tds[s] = c.got[s]]

odbc_lock_statement(c, s) == Assign(Choose(c, s), s)

tds_free_socket(c, x) == [ReleaseCur(c, x) EXCEPT !.state[x] = "free", !.current_op[x] = "none"]

odbc_unlock_statement(c, s) ==
    LET x == c.tds[s]
    IN  CASE c.current = s /\ x # 0 -> [c EXCEPT !.fault = "assert"]
          [] c.current = s /\ x = 0 ->
                IF c.state[0] \in {"IDLE", "DEAD"}
                THEN [c EXCEPT !.current = None, !.tds[s] = None] ELSE c
          [] c.current # s ->
                IF x = None \/ c.state[x] \notin {"IDLE", "DEAD"} THEN c
                ELSE IF x = 0 THEN [c EXCEPT !.fault = "assert"]
                ELSE [tds_free_socket(c, x) EXCEPT !.tds[s] = None]

Locked(c, s) == c.got[s] # None

\* Mutant: the pointer of the statement is kept.
ReleaseDyn_kept(c, s) == Release(c, c.dyn[s])

\* tds_release_dynamic() and tds_release_cursor() on the pointers of a statement.
ReleaseDyn(c, s) == [Release(c, c.dyn[s]) EXCEPT !.dyn[s] = None]
ReleaseCursor(c, s) == [Release(c, c.cursor[s]) EXCEPT !.cursor[s] = None]

\* Mutant: a prepared statement that cannot be closed now is forgotten.
Defer_never(c, h) == c

\* tds_deferred_unprepare(), tds_deferred_cursor_dealloc().
Defer(c, h) == [c EXCEPT !.defer_close = @ \cup {h}, !.pending_close = TRUE]

odbc_free_dynamic(c, s, res) ==
    LET h == c.dyn[s]
        l == odbc_lock_statement(c, s)
        f == Finish(Submit(l, s, l.tds[s], "unprepare", h), l.tds[s], res)
    IN  IF h = None THEN c
        ELSE IF h \notin c.known THEN ReleaseDyn(c, s)
        ELSE IF Locked(l, s) /\ l.state[l.tds[s]] = "IDLE"
        THEN IF res = "dead" THEN ReleaseDyn(Defer(f, h), s)
             ELSE ReleaseDyn(odbc_unlock_statement(f, s), s)
        ELSE ReleaseDyn(Defer(l, h), s)

odbc_free_cursor(c, s, res) ==
    LET h == c.cursor[s]
        l == odbc_lock_statement(c, s)
        f == Finish(Submit(l, s, l.tds[s], "cursorclose", h), l.tds[s], res)
        deferred(e) == IF h \in e.known THEN Defer(e, h) ELSE tds_cursor_deallocated(e, h)
    IN  IF h = None THEN c
        ELSE IF Locked(l, s) /\ l.state[l.tds[s]] = "IDLE"
        THEN IF res = "dead" THEN ReleaseCursor(deferred(f), s)
             ELSE ReleaseCursor(tds_cursor_check_allocated(f, h), s)
        ELSE ReleaseCursor(deferred(l), s)

-----------------------------------------------------------------------------
(* The calls of a statement.  how: the answer is read up to some rows, to  *)
(* its end, or until there is nothing more, which also lets go of the      *)
(* session; and how it ends.                                               *)

Hows == ({"end", "done"} \X {"ok", "err"}) \cup {<<"rows", "ok">>, <<"done", "dead">>}

\* The loop on odbc_process_tokens() of odbc_SQLExecute() and SQLMoreResults().
Reads(c, s, how) ==
    LET l == odbc_lock_statement(c, s)
        x == l.tds[s]
        f == Finish(l, x, how[2])
        pending == l.state[x] = "PENDING"
    IN  IF ~Locked(l, s) \/ (pending /\ how[1] = "rows") THEN l
        ELSE IF f.state[x] = "DEAD" \/ (pending /\ how[1] = "end") THEN f
        ELSE odbc_unlock_statement(f, s)

Ready(c, s) == Locked(c, s) /\ c.state[c.got[s]] = "IDLE"

\* One of the statements or cursors that are not used: they are all alike.
Fresh(S) == CHOOSE h \in S : d.ref_count[h] = 0

NewDyn(c, s, h) == [tds_alloc_dynamic(ReleaseDyn(c, s), h) EXCEPT !.dyn[s] = h]
NewCursor(c, s, h) == [tds_alloc_cursor(ReleaseCursor(c, s), h) EXCEPT !.cursor[s] = h]

\* tds71_submit_prepexec() on the session x the call began with.
PrepExec(c, s, x, r, how) ==
    LET f == [odbc_free_dynamic(c, s, r) EXCEPT !.need_reprepare[s] = FALSE]
        h == Fresh(Dyns)
    IN  CASE f.state[x] = "free" -> [f EXCEPT !.fault = "freed"]
          [] f.state[x] = "DEAD" -> f
          [] OTHER -> Reads(Submit(NewDyn(f, s, h), s, x, "prepexec", h), s, how)

\* odbc_SQLExecute() without a cursor.
odbc_SQLExecute(c, s, r, how) ==
    LET x == c.got[s]
    IN  CASE ~Ready(c, s) -> c
          [] Ready(c, s) /\ ~c.is_prepared[s] ->
                Reads(Submit(c, s, x, "query", None), s, how)
          [] Ready(c, s) /\ c.is_prepared[s] /\ c.dyn[s] \in c.known /\ ~c.need_reprepare[s] ->
                Reads(Submit(c, s, x, "execute", c.dyn[s]), s, how)
          [] OTHER -> PrepExec(c, s, x, r, how)

\* odbc_cursor_execute(), then the rest of odbc_SQLExecute(); named: the answer of the
\* open was read to its end and the name of the cursor is sent.
odbc_cursor_execute(c, s, r, named, how) ==
    LET x == c.got[s]
        h == Fresh(Cursors)
        o == Finish(Submit(NewCursor(c, s, h), s, x, "cursoropen", h), x, r)
        u == ReleaseCursor(tds_cursor_check_allocated(o, h), s)
    IN  CASE ~Ready(c, s) -> c
          [] Ready(c, s) /\ r = "dead" -> u
          [] Ready(c, s) /\ r = "err" -> Reads(u, s, how)
          [] Ready(c, s) /\ r = "ok" ->
                Reads(IF named THEN Submit(o, s, x, "cursoroption", h) ELSE o, s, how)

\* odbc_SQLFetch() of a statement with a cursor.
odbc_SQLFetch(c, s, res) ==
    LET x == c.got[s]
        f == Finish(Submit(c, s, x, "cursorfetch", c.cursor[s]), x, res)
    IN  IF ~Ready(c, s) THEN c
        ELSE IF res = "dead" THEN f ELSE odbc_unlock_statement(f, s)

\* odbc_update_ird() and odbc_prepare().
odbc_update_ird(c, s, res) ==
    LET x == c.got[s]
        h == Fresh(Dyns)
        f == Finish(Submit(NewDyn(c, s, h), s, x, "prepare", h), x, res)
        g == IF res = "ok" THEN f ELSE ReleaseDyn(f, s)
    IN  IF ~Ready(c, s) THEN c
        ELSE [odbc_unlock_statement(g, s) EXCEPT !.need_reprepare[s] = FALSE]

-----------------------------------------------------------------------------
(* Actions.                                                                *)

Alone == \A t \in Stmts : pc[t] = "app"

\* The program may make a call with the statement s.
Callable(s) ==
    /\ d.connected /\ d.fault = "none"
    /\ s \in d.alive /\ pc[s] = "app" /\ (Threads \/ Alone)

\* A call returns.
Return(s, c) == d' = [c EXCEPT !.got[s] = None] /\ pc' = [pc EXCEPT ![s] = "app"]

\* The first half of a call on the connection c.
Enter(s, call, c) == Callable(s) /\ d' = Choose(c, s) /\ pc' = [pc EXCEPT ![s] = call]

\* _SQLAllocStmt().
SQLAllocStmt(s) ==
    /\ d.connected /\ d.fault = "none" /\ s \notin d.alive /\ (Threads \/ Alone)
    /\ d' = [d EXCEPT !.alive = @ \cup {s}]
    /\ UNCHANGED pc

\* odbc_set_stmt_query(), then as SQLExecute().
SQLExecDirect(s, cursor) ==
    /\ d.cursor[s] = None /\ (cursor => FreeHandles(Cursors) # {})
    /\ Enter(s, IF cursor THEN "execcursor" ELSE "exec",
             [d EXCEPT !.is_prepared[s] = FALSE, !.need_reprepare[s] = FALSE])

\* cursor: the attributes of the statement ask for one.
SQLExecute(s, cursor) ==
    /\ d.is_prepared[s] /\ d.cursor[s] = None
    /\ FreeHandles(IF cursor THEN Cursors ELSE Dyns) # {}
    /\ Enter(s, IF cursor THEN "execcursor" ELSE "exec", d)

SQLFetch(s) == d.cursor[s] # None /\ Enter(s, "fetch", d)

\* The columns of the result are asked for: IRD_UPDATE.
SQLNumResultCols(s) ==
    /\ d.need_reprepare[s] /\ FreeHandles(Dyns) # {}
    /\ Careful => d.dyn[s] = None
    /\ Enter(s, "describe", d)

Execute(s) ==
    /\ pc[s] \in {"exec", "execcursor"}
    /\ \E r \in Results, how \in Hows :
          IF pc[s] = "exec" THEN Return(s, odbc_SQLExecute(Assign(d, s), s, r, how))
          ELSE \E named \in BOOLEAN :
                  Return(s, odbc_cursor_execute(Assign(d, s), s, r, named, how))

Fetch(s) ==
    pc[s] = "fetch" /\ \E res \in Results : Return(s, odbc_SQLFetch(Assign(d, s), s, res))

Describe(s) ==
    pc[s] = "describe" /\ \E res \in Results : Return(s, odbc_update_ird(Assign(d, s), s, res))

\* Also odbc_SQLFetch() of a statement without a cursor, that never ends in "done".
SQLMoreResults(s) ==
    /\ Callable(s) /\ d.tds[s] # None
    /\ \E how \in Hows : Return(s, Reads(d, s, how))

\* forward: its attributes ask for no cursor.
SQLPrepare(s) ==
    /\ Callable(s) /\ d.cursor[s] = None
    /\ Careful /\ d.tds[s] # None => d.state[d.tds[s]] # "PENDING"
    /\ \E res \in Results, forward \in BOOLEAN :
          Return(s, [odbc_free_dynamic(d, s, res)
                        EXCEPT !.is_prepared[s] = TRUE, !.need_reprepare[s] = forward])

SQLBindParameter(s) ==
    /\ Callable(s) /\ (Careful => ~d.mars)
    /\ Return(s, [d EXCEPT !.need_reprepare[s] = TRUE])

\* odbc_SQLFreeStmt(): what is left of an answer is cancelled, the cursor is closed.
CloseStmt(c, s, r, res) ==
    LET x == c.tds[s]
    IN  odbc_free_cursor(IF x = None THEN c ELSE Finish(c, x, IF r = "dead" THEN r ELSE "cancel"), s, res)

SQLFreeStmt_CLOSE(s) ==
    /\ Callable(s)
    /\ \E r \in {"ok", "dead"}, res \in Results : Return(s, CloseStmt(d, s, r, res))

SQLFreeStmt_DROP(s) ==
    /\ Callable(s)
    /\ \E r \in {"ok", "dead"}, res, res2 \in Results :
          LET c == odbc_unlock_statement(odbc_free_dynamic(CloseStmt(d, s, r, res), s, res2), s)
          IN  Return(s, [c EXCEPT !.alive = @ \ {s}, !.tds[s] = None,
                                  !.is_prepared[s] = FALSE, !.need_reprepare[s] = FALSE])

\* SQLEndTran() with manual commit.
change_transaction ==
    /\ d.connected /\ d.fault = "none" /\ Alone
    /\ \E r, res \in Results :
          LET pending == d.state[0] = "PENDING" /\ d.current # None
              f == IF pending THEN Finish(d, 0, r) ELSE d
              n == IF f.current = None THEN f ELSE [f EXCEPT !.tds[f.current] = None, !.current = None]
          IN  d' = IF pending /\ r # "ok" THEN f
                   ELSE IF n.state[0] # "IDLE" THEN n
                   ELSE Finish(Submit(n, None, 0, "query", None), 0, res)
    /\ UNCHANGED pc

\* The statements were dropped.  The last session takes the connection with it.
SQLDisconnect ==
    /\ d.connected /\ d.fault = "none" /\ Alone /\ d.alive = {}
    /\ LET f == tds_free_socket(d, 0)
       IN  d' = [IF \A x \in Sids : f.state[x] = "free" THEN tds_deinit_connection(f) ELSE f
                   EXCEPT !.connected = FALSE, !.server = {}]
    /\ UNCHANGED pc

Next ==
    \/ \E s \in Stmts :
          \/ SQLAllocStmt(s)
          \/ \E cursor \in BOOLEAN : SQLExecDirect(s, cursor) \/ SQLExecute(s, cursor)
          \/ SQLFetch(s) \/ SQLNumResultCols(s)
          \/ Execute(s) \/ Fetch(s) \/ Describe(s)
          \/ SQLMoreResults(s) \/ SQLPrepare(s) \/ SQLBindParameter(s)
          \/ SQLFreeStmt_CLOSE(s) \/ SQLFreeStmt_DROP(s)
    \/ change_transaction
    \/ SQLDisconnect

Spec == Init /\ [][Next]_vars

-----------------------------------------------------------------------------
(* Properties.                                                             *)

Users(c, h) == {s \in Stmts : h \in {c.dyn[s], c.cursor[s]}}
Served(c, h) == {x \in Sids : h \in {c.cur_dyn[x], c.cur_cursor[x]}}

(* A prepared statement or cursor is freed when the last of the statement, *)
(* the sessions and the list of the connection lets go of it, and not      *)
(* before: ref_count of TDSDYNAMIC and TDSCURSOR counts exactly those.     *)
(* SQLDisconnect() leaves none of them, and no session.                    *)
RefCountsMatch ==
    /\ \A h \in Handles :
          d.ref_count[h] = Cardinality(Users(d, h)) + Cardinality(Served(d, h)) + IF Listed(d, h) THEN 1 ELSE 0
    /\ ~d.connected => /\ \A h \in Handles : d.ref_count[h] = 0
                       /\ \A x \in Sids : d.state[x] = "free"

(* A session belongs to at most one statement, the one of the connection   *)
(* to its current statement, and an answer that is being read to the       *)
(* statement that asked for it: odbc_lock_statement() takes a session from *)
(* another statement only when nothing of that one is left on it.  No call *)
(* works on a session that it freed (CHECK_TDS_EXTRA in                    *)
(* tds71_submit_prepexec()), and the assertions of odbc_unlock_statement() *)
(* hold.                                                                   *)
AnswersHaveTheirOwner ==
    /\ d.fault = "none"
    /\ Alone =>
          /\ \A s \in Stmts : d.tds[s] # None =>
                /\ s \in d.alive /\ d.state[d.tds[s]] # "free"
                /\ \A t \in Stmts \ {s} : d.tds[t] # d.tds[s]
                /\ d.tds[s] = 0 <=> d.current = s
          /\ \A x \in Sids : d.state[x] = "PENDING" => d.tds[d.asker[x]] = x

(* What was prepared or opened at the server is closed in the end, also    *)
(* when its statement is dropped, prepared again or closed while every     *)
(* session is busy: some statement still holds it, or it is in the list    *)
(* with defer_close set, pending_close tells the end of an answer to close *)
(* it, and some session has such an answer to read.                        *)
NoForgottenClose ==
    \A h \in d.server :
        \/ Users(d, h) # {}
        \/ /\ h \in d.defer_close /\ Listed(d, h) /\ d.pending_close
           /\ \E x \in Sids : d.state[x] = "PENDING"

=============================================================================
