----------------------------- MODULE TdsSession -----------------------------
(***************************************************************************)
(* The life of a libtds session: the states of a query (tds_set_state() of *)
(* src/tds/util.c), the token loop that reads an answer                    *)
(* (tds_process_tokens(), tds_process_end() and tds_process_cancel() of    *)
(* token.c), bulk requests (bulk.c) and the cancel protocol                *)
(* (tds_send_cancel() of query.c, tds_check_cancel() of net.c).            *)
(*                                                                         *)
(* The calls of a statement are serialised by its mutex (stmt->mtx of the  *)
(* ODBC driver; db-lib and ct-lib are used by one thread): they are the    *)
(* worker.  SQLCancel() may be called by another thread while the worker   *)
(* is in a call; then it only runs tds_send_cancel(): the canceller.       *)
(* MarsNet has the details of the network; here a request is one packet, a *)
(* write ends when it is begun, and the socket carries packets one way and *)
(* tokens the other.  The server is external: it acknowledges every cancel *)
(* with a DONE token that has the cancelled flag, also when it is idle.    *)
(***************************************************************************)
EXTENDS Integers, Sequences

CONSTANTS
    Apps,       \* what the application does, see app
    MaxQueries, \* bound: queries submitted
    MaxTokens,  \* bound: tokens on the way at once
    MaxPackets  \* bound: packets on the way at once, when a bulk record is sent

ASSUME AppsAssumption == Apps \subseteq {"plain", "bulkcancel", "threads", "race"}
ASSUME BoundsAssumption == MaxQueries \in Nat /\ {MaxTokens, MaxPackets} \subseteq Nat \ {0}

VARIABLES
    app,        \* "plain": one thread, does not cancel while it sends bulk data;
                \* "bulkcancel": one thread, may do so; "threads": a second thread
                \* cancels, and the first waits for it before its next call;
                \* "race": it does not wait
    \* TDSSOCKET
    state,      \* IDLE, WRITING, SENDING, PENDING, READING, DEAD
    wire,       \* wire_mtx is locked
    in_cancel,  \* 0, 1 (to be sent), 2 (sent)
    out_flag,   \* the type of the packet that is being built
    bulk_query,
    \* the two threads
    pc,         \* worker: "app", "write", "read", "ending", "net" (it is in_net_tds)
    job,        \* what it writes: "query", "insertbulk", "row", "end"
    stops,      \* flag of tds_process_tokens() may stop the loop
    cancel_seen,
    bcp,        \* the application was told that a bulk copy is open
    cpc,        \* canceller: "out", "set", "send", "flush"
    \* the connection
    wakeup,     \* the eventfd is readable
    up, buf, down, \* packets to the server; tokens received; tokens on the way
    srv,        \* the server: what it does and for which query
    q,          \* history: the query that was last submitted
    in_step     \* history: no request was begun while an answer was on the way

sessionVars == <<state, wire, in_cancel, out_flag, bulk_query>>
workerVars == <<pc, job, stops, cancel_seen, bcp>>
wireVars == <<wakeup, up, buf, down, srv>>
vars == <<app, state, wire, in_cancel, out_flag, bulk_query, pc, job, stops, cancel_seen, bcp,
          cpc, wakeup, up, buf, down, srv, q, in_step>>

histVars == <<q, in_step>>
States == {"IDLE", "WRITING", "SENDING", "PENDING", "READING", "DEAD"}
Jobs == {"query", "insertbulk", "row", "end"}
Kinds == {"row", "more", "done", "error", "cancelled"}

Item(kind) == [kind |-> kind, q |-> q]
Only(kinds, queue) == \A i \in DOMAIN queue : queue[i].kind \in kinds
Way == buf \o down
InStep == in_step /\ Way = <<>> /\ srv.mode # "busy" /\ Only({"row"}, up)

(* What the server has answered and what it has yet to read, in order, and *)
(* the places in it of the cancels that are under way.                     *)
Pipe == Way \o up
Unanswered == {i \in DOMAIN Pipe : Pipe[i].kind \in {"cancel", "cancelled"}}

----------------------------------------------------------------------------
(* tds_set_state().                                                        *)

(* Mutant: a session that goes to PENDING keeps the lock.                  *)
Unlocks_kept(prior) == FALSE

(* Leaving READING or WRITING for another state releases wire_mtx.         *)
Unlocks(prior) == prior \in {"READING", "WRITING"}

To(new) ==
    /\ state' = new
    /\ wire' = IF Unlocks(state) THEN FALSE ELSE wire

(* To PENDING: from READING or WRITING, or it stays as it is (DEAD).       *)
ToPending ==
    IF state \in {"READING", "WRITING"} THEN To("PENDING") ELSE UNCHANGED <<state, wire>>

(* To WRITING and READING: the lock is tried, and only some states allow   *)
(* it; otherwise the call fails and nothing changes.                       *)
ToWriting == ~wire /\ state \in {"IDLE", "SENDING"} /\ state' = "WRITING" /\ wire' = TRUE
ToReading == ~wire /\ state = "PENDING" /\ state' = "READING" /\ wire' = TRUE

----------------------------------------------------------------------------
(* tds_write_packet() down to the socket.  The thread that enters the      *)
(* network finds the eventfd readable if there was a wakeup, and           *)
(* tds_check_cancel() appends the cancel that is still to be sent.         *)

tds_check_cancel(cancel, queue) ==
    /\ wakeup' = FALSE
    /\ IF wakeup /\ cancel = 1
       THEN up' = Append(queue, Item("cancel")) /\ in_cancel' = 2
       ELSE up' = queue /\ in_cancel' = cancel

PacketType == IF out_flag = "cancel" THEN "cancel" ELSE job

(* Mutant: the thread in the network is not woken.                         *)
tds_wakeup_send_lost == UNCHANGED wakeup
tds_wakeup_send == wakeup' = TRUE

----------------------------------------------------------------------------
(* The worker: requests.                                                   *)

(* The application makes a call.                                           *)
Calls == pc = "app" /\ (cpc = "out" \/ app = "race")

(* tds_submit_query() and the like: the state, and the type of the packet. *)
Submit(kind) ==
    /\ Calls /\ q < MaxQueries /\ ~bcp
    /\ ToWriting
    /\ out_flag' = "query" /\ job' = kind /\ pc' = "write"
    /\ q' = q + 1 /\ in_step' = InStep
    /\ UNCHANGED <<app, in_cancel, bulk_query, stops, cancel_seen, bcp, cpc, wireVars>>

(* The query cannot be converted: it is given up before anything is sent.  *)
Abandon ==
    /\ pc = "write" /\ pc' = "app" /\ job \in {"query", "insertbulk"}
    /\ IF state = "DEAD" THEN UNCHANGED <<state, wire>> ELSE To("IDLE")
    /\ UNCHANGED <<app, in_cancel, out_flag, bulk_query, job, stops, cancel_seen, bcp, cpc,
                   wireVars, histVars>>

(* tds_bcp_send_record() and tds_bcp_done().                               *)
Bulk(kind) ==
    /\ Calls /\ bcp /\ out_flag = "bulk" /\ (kind = "row" => Len(up) < MaxPackets)
    /\ ToWriting
    /\ job' = kind /\ pc' = "write" /\ q' = q /\ in_step' = InStep
    /\ UNCHANGED <<app, in_cancel, out_flag, bulk_query, stops, cancel_seen, bcp, cpc,
                   wireVars>>

(* The end of these calls: the packet is sent and the state is PENDING, or *)
(* SENDING if more records may follow (and then the packet may not have    *)
(* been full); or the write fails.                                         *)
Flush ==
    /\ pc = "write" /\ pc' = "app"
    /\ \/ /\ state # "DEAD"
          /\ \/ tds_check_cancel(in_cancel, Append(up, Item(PacketType)))
             \/ job = "row" /\ UNCHANGED <<in_cancel, wakeup, up>>
          /\ IF job = "row" THEN To("SENDING") ELSE ToPending
       \/ To("DEAD") /\ UNCHANGED <<in_cancel, wakeup, up>>
    /\ bulk_query' = (bulk_query \/ (job = "insertbulk" /\ state' # "DEAD"))
    /\ bcp' = (bcp /\ job = "row")
    /\ UNCHANGED <<app, out_flag, job, stops, cancel_seen, cpc, buf, down, srv, histVars>>

----------------------------------------------------------------------------
(* The worker: tds_process_tokens().                                       *)

(* An ordinary call, or the one of tds_process_cancel(), which never stops *)
(* before the end.                                                         *)
tds_process_tokens == \E may \in BOOLEAN :
    /\ Calls /\ ToReading
    /\ pc' = "read" /\ stops' = may /\ cancel_seen' = FALSE
    /\ UNCHANGED <<app, in_cancel, out_flag, bulk_query, job, bcp, cpc, wireVars, histVars>>

Seen == cancel_seen \/ in_cancel # 0

MayStop == stops /\ ~Seen

(* TDS_STOPAT_ROW: the token is put back.                                  *)
StopAt ==
    /\ pc = "read" /\ buf # <<>> /\ Head(buf).kind = "row" /\ MayStop
    /\ ToPending /\ pc' = "app"
    /\ UNCHANGED <<app, in_cancel, out_flag, bulk_query, job, stops, cancel_seen, bcp, cpc,
                   wireVars, histVars>>

(* A token that is not the end of the answer.                              *)
Token ==
    /\ pc = "read" /\ buf # <<>> /\ Head(buf).kind \in {"row", "more"}
    /\ buf' = Tail(buf)
    /\ cancel_seen' = Seen
    /\ \/ pc' = (IF state = "DEAD" THEN "app" ELSE pc) /\ UNCHANGED <<state, wire>>
       \/ MayStop /\ ToPending /\ pc' = "app"
    /\ UNCHANGED <<app, in_cancel, out_flag, bulk_query, job, stops, bcp, cpc, wakeup, up, down,
                   srv, histVars>>

(* Mutants: the first DONE ends the query although a cancel is under way;  *)
(* the cancelled flag is not looked at.                                    *)
Ends_any(t) == TRUE
Ends_uncancelled(t) == in_cancel = 0

(* tds_process_end(): is this DONE the end of the query?                   *)
Ends(t) == t.kind = "cancelled" \/ in_cancel = 0

(* The test of tds_process_end(); a DONE that a cancel overtook is skipped.*)
Done ==
    /\ pc = "read" /\ buf # <<>> /\ Head(buf).kind \in {"done", "error", "cancelled"}
    /\ IF Ends(Head(buf))
       THEN pc' = "ending" /\ UNCHANGED <<buf, cancel_seen>>
       ELSE /\ buf' = Tail(buf) /\ cancel_seen' = Seen
            /\ pc' = IF state = "DEAD" THEN "app" ELSE pc
    /\ UNCHANGED <<app, sessionVars, job, stops, bcp, cpc, wakeup, up, down, srv, histVars>>

(* The rest of it.  tds_bcp_start() tells the caller about the bulk copy.  *)
tds_process_end ==
    /\ pc = "ending" /\ pc' = "app"
    /\ buf' = Tail(buf)
    /\ in_cancel' = 0
    /\ IF state = "DEAD" THEN UNCHANGED <<state, wire>>
       ELSE To(IF bulk_query THEN "SENDING" ELSE "IDLE")
    /\ out_flag' = IF bulk_query THEN "bulk" ELSE out_flag
    /\ bulk_query' = FALSE
    /\ bcp' = (bulk_query /\ Head(buf).kind = "done" /\ state' = "SENDING")
    /\ UNCHANGED <<app, job, stops, cancel_seen, cpc, wakeup, up, down, srv, histVars>>

(* tds_read_packet(): no token left, so the worker goes into the network;  *)
(* or the session has died.                                                *)
Enter ==
    /\ pc = "read" /\ buf = <<>>
    /\ pc' = IF state = "DEAD" THEN "app" ELSE "net"
    /\ UNCHANGED <<app, sessionVars, job, stops, cancel_seen, bcp, cpc, wireVars, histVars>>

(* poll() returns: a wakeup comes first, then what can be read.            *)
NetWakeup ==
    /\ pc = "net" /\ wakeup
    /\ tds_check_cancel(in_cancel, up)
    /\ UNCHANGED <<app, state, wire, out_flag, bulk_query, workerVars, cpc, buf, down, srv, histVars>>

NetRead ==
    /\ pc = "net" /\ ~wakeup
    /\ \E n \in 1 .. Len(down) :
        /\ buf' = SubSeq(down, 1, n)
        /\ down' = SubSeq(down, n + 1, Len(down))
    /\ pc' = "read"
    /\ UNCHANGED <<app, sessionVars, job, stops, cancel_seen, bcp, cpc, wakeup, up, srv, histVars>>

(* poll() times out.  The first time the ODBC error handler asks for a     *)
(* cancel (tds_send_cancel() finds its own thread in the network), the     *)
(* second time it closes the session; other handlers may close at once.    *)
NetTimeout ==
    /\ pc = "net"
    /\ in_cancel = 0 /\ in_cancel' = 1 /\ tds_wakeup_send
    /\ UNCHANGED <<app, state, wire, out_flag, bulk_query, workerVars, cpc, up, buf, down, srv,
                   histVars>>

(* The session is closed by a timeout, or the connection fails.            *)
NetError ==
    /\ pc = "net" /\ pc' = "app"
    /\ To("DEAD")
    /\ UNCHANGED <<app, in_cancel, out_flag, bulk_query, job, stops, cancel_seen, bcp, cpc,
                   wireVars, histVars>>

----------------------------------------------------------------------------
(* tds_send_cancel().                                                      *)

(* There is something to cancel, and it is not being cancelled yet.        *)
MayCancel == in_cancel = 0 /\ state # "IDLE"

(* By the worker, between calls (dbcancel(), ct_cancel(), SQLFreeStmt(),   *)
(* or SQLCancel() when no call is running): nobody is in the network.      *)
SendCancel ==
    /\ Calls /\ MayCancel
    /\ state = "SENDING" => app = "bulkcancel"
    /\ out_flag' = "cancel" /\ bcp' = FALSE
    /\ IF state = "DEAD" THEN in_cancel' = 1 /\ UNCHANGED <<wakeup, up>>
       ELSE tds_check_cancel(1, Append(up, Item("cancel")))
    /\ UNCHANGED <<app, state, wire, bulk_query, pc, job, stops, cancel_seen, cpc, buf, down,
                   srv, histVars>>

(* By another thread, while the worker is in a call.                       *)
CancelUnchanged == UNCHANGED <<app, bulk_query, workerVars, buf, down, srv, histVars>>

CancelTest ==
    /\ app \in {"threads", "race"} /\ cpc = "out" /\ pc # "app" /\ MayCancel
    /\ cpc' = "set"
    /\ CancelUnchanged /\ UNCHANGED <<state, wire, in_cancel, out_flag, wakeup, up>>

(* Mutant: cancels are counted.                                            *)
Asked_counted == in_cancel + 1
Asked == 1

CancelSet ==
    /\ cpc = "set" /\ cpc' = "send"
    /\ in_cancel' = Asked
    /\ CancelUnchanged /\ UNCHANGED <<state, wire, out_flag, wakeup, up>>

(* The worker is in the network, or has list_mtx for a moment.             *)
CancelSignal ==
    /\ cpc = "send" /\ pc # "app" /\ cpc' = "out"
    /\ tds_wakeup_send
    /\ CancelUnchanged /\ UNCHANGED <<state, wire, in_cancel, out_flag, up>>

(* It is not, and the canceller sends the packet: first its type ...       *)
CancelDirect ==
    /\ cpc = "send" /\ pc # "net" /\ cpc' = "flush"
    /\ out_flag' = "cancel"
    /\ CancelUnchanged /\ UNCHANGED <<state, wire, in_cancel, wakeup, up>>

(* ... and then whatever is in the buffer, itself or, if the worker has    *)
(* entered the network meanwhile, by waking it; or the write fails.        *)
CancelFlush ==
    /\ cpc = "flush" /\ cpc' = "out"
    /\ \/ /\ state # "DEAD" /\ UNCHANGED <<state, wire>>
          /\ IF pc = "net"
             THEN /\ up' = Append(up, Item(PacketType))
                  /\ tds_wakeup_send /\ UNCHANGED in_cancel
             ELSE tds_check_cancel(in_cancel, Append(up, Item(PacketType)))
       \/ pc # "net" /\ To("DEAD") /\ UNCHANGED <<in_cancel, wakeup, up>>
    /\ CancelUnchanged /\ UNCHANGED out_flag

----------------------------------------------------------------------------
(* The server.                                                             *)

SrvUnchanged == UNCHANGED <<app, sessionVars, workerVars, cpc, wakeup, buf, histVars>>
Doing(mode, p) == [mode |-> mode, job |-> p.kind, q |-> p.q]
Answer(kind, n) == down' = Append(down, [kind |-> kind, q |-> n])

(* It reads a packet.  A cancel stops what it does; other packets wait     *)
(* until it has finished; what it cannot make sense of is an error.        *)
ServerReads ==
    /\ up # <<>> /\ state # "DEAD"
    /\ LET p == Head(up)
       IN  \/ /\ p.kind = "cancel"
              /\ srv' = Doing("idle", p) /\ Answer("cancelled", p.q)
           \/ /\ srv.mode = "idle" /\ p.kind \in {"query", "insertbulk"}
              /\ srv' = Doing("busy", p) /\ UNCHANGED down
           \/ /\ srv.mode = "bulk" /\ p.kind = "row"
              /\ UNCHANGED <<srv, down>>
           \/ /\ srv.mode = "bulk" /\ p.kind = "end"
              /\ srv' = Doing("busy", p) /\ UNCHANGED down
           \/ /\ srv.mode = "idle" /\ p.kind \in {"row", "end"}
              /\ srv' = srv /\ IF p.kind = "end" THEN Answer("error", p.q) ELSE UNCHANGED down
           \/ /\ srv.mode = "bulk" /\ p.kind \in {"query", "insertbulk"}
              /\ srv' = Doing("idle", p) /\ Answer("error", p.q)
    /\ up' = Tail(up)
    /\ SrvUnchanged

ServerAnswers ==
    /\ srv.mode = "busy" /\ Len(down) < MaxTokens /\ state # "DEAD"
    /\ \/ /\ \E kind \in {"row", "more"} : Answer(kind, srv.q)
          /\ UNCHANGED srv
       \/ /\ Answer("done", srv.q)
          /\ srv' = [srv EXCEPT !.mode = IF srv.job = "insertbulk" THEN "bulk" ELSE "idle"]
       \/ /\ Answer("error", srv.q)
          /\ srv' = [srv EXCEPT !.mode = "idle"]
    /\ SrvUnchanged /\ UNCHANGED up

----------------------------------------------------------------------------
(* tds_connect_and_login() has left an idle session.                       *)
Init ==
    /\ app \in Apps
    /\ state = "IDLE" /\ wire = FALSE /\ in_cancel = 0 /\ out_flag = "query"
    /\ bulk_query = FALSE
    /\ pc = "app" /\ job = "query" /\ stops = FALSE /\ cancel_seen = FALSE /\ bcp = FALSE
    /\ cpc = "out"
    /\ wakeup = FALSE /\ up = <<>> /\ buf = <<>> /\ down = <<>>
    /\ q = 0 /\ in_step = TRUE /\ srv = [mode |-> "idle", job |-> "query", q |-> 0]

Worker == Flush \/ Abandon \/ StopAt \/ Token \/ Done \/ tds_process_end \/ Enter
Canceller == CancelSet \/ CancelSignal \/ CancelDirect \/ CancelFlush

Next ==
    \/ \E kind \in {"query", "insertbulk"} : Submit(kind)
    \/ \E kind \in {"row", "end"} : Bulk(kind)
    \/ tds_process_tokens \/ SendCancel
    \/ Worker \/ NetWakeup \/ NetRead \/ NetTimeout \/ NetError
    \/ CancelTest \/ Canceller
    \/ ServerReads \/ ServerAnswers

Spec == Init /\ [][Next]_vars

(* Threads inside calls run, the network delivers, the server reads.       *)
(* Nothing makes the application call, nor the server finish a query.      *)
Fairness ==
    /\ WF_vars(Worker) /\ WF_vars(Canceller)
    /\ WF_vars(NetWakeup) /\ WF_vars(NetRead) /\ WF_vars(ServerReads)

FairSpec == Spec /\ Fairness

----------------------------------------------------------------------------
(* Properties.                                                             *)

Items(kinds) == [kind : kinds, q : 0 .. MaxQueries]

(* Every variable has its type.                                            *)
TypeOK ==
    /\ app \in Apps /\ state \in States /\ in_cancel \in 0 .. 2
    /\ {wire, bulk_query, stops, cancel_seen, bcp, wakeup, in_step} \subseteq BOOLEAN
    /\ out_flag \in {"query", "bulk", "cancel"}
    /\ pc \in {"app", "write", "read", "ending", "net"} /\ job \in Jobs
    /\ cpc \in {"out", "set", "send", "flush"}
    /\ up \in Seq(Items(Jobs \cup {"cancel"}))
    /\ buf \in Seq(Items(Kinds)) /\ down \in Seq(Items(Kinds))
    /\ srv \in [mode : {"idle", "busy", "bulk"}, job : Jobs \cup {"cancel"}, q : 0 .. MaxQueries]
    /\ q \in 0 .. MaxQueries

(* wire_mtx is held exactly in WRITING and READING, and only inside a call:*)
(* whatever cancels, errors and timeouts do, also those of another thread, *)
(* no call returns with the lock.                                          *)
WireMutexFollowsState ==
    /\ wire <=> state \in {"WRITING", "READING"}
    /\ wire => pc # "app"

(* tds.h: an idle session expects no data.  If no other thread cancels and *)
(* bulk data is not cancelled, a session that is idle, or that would send  *)
(* bulk data, is in step with its server: nothing is on the way, no cancel *)
(* is unanswered; every token on the way belongs to the current query; and *)
(* at most one cancel is not answered (query.c: "one cancel is             *)
(* sufficient"), however it crosses the end of the answer.                 *)
StaysInStep ==
    app = "plain" =>
        /\ state \in {"IDLE", "SENDING"} =>
               /\ Way = <<>> /\ in_cancel = 0 /\ Unanswered = {}
               /\ bcp => Only({"row"}, up)
               /\ ~bcp => up = <<>> /\ srv.mode = "idle"
        /\ \A i \in DOMAIN Way : Way[i].q = q
        /\ \A i, j \in Unanswered : i = j

(* A cancel that was asked for is not forgotten, also if it was asked for  *)
(* by another thread: it is sent, or the eventfd will wake the next poll.  *)
AskedCancelsAreSent ==
    app # "race" /\ in_cancel = 1 /\ cpc = "out" /\ state # "DEAD" => wakeup \/ Unanswered # {}

(* A call that is cancelled, by a timeout or by another thread, returns,   *)
(* although the server may go on with the query for ever; unless the call  *)
(* was made out of step with the server.                                   *)
CancelEndsTheCall ==
    (app # "race" /\ in_cancel # 0 /\ pc # "app" /\ in_step) ~> (pc = "app")
=============================================================================
