--------------------------- MODULE TdsSession_proof ---------------------------
(***************************************************************************)
(* Proofs about TdsSession, for every application, every number of queries *)
(* and every amount of data on the way.                                    *)
(***************************************************************************)
EXTENDS TdsSession, TLAPS

----------------------------------------------------------------------------
(* The inductive invariants.                                               *)

(* The other thread, having chosen the packet type, finds it unchanged     *)
(* when it sends, unless the query has ended meanwhile.                    *)
TypeIsKept ==
    app # "race" /\ cpc = "flush" =>
        out_flag = "cancel" \/ (in_cancel = 0 /\ pc = "app")

LastKind(queue) == queue[Len(queue)].kind
AllButLast(kinds, queue) == \A i \in 1 .. Len(queue) - 1 : queue[i].kind \in kinds

(* Where the answer to the request `job' can be, if it is not cancelled.   *)
RequestSent ==
    /\ Way = <<>> /\ up # <<>> /\ LastKind(up) = job /\ AllButLast({"row"}, up)
    /\ srv.mode = (IF job = "end" THEN "bulk" ELSE "idle")
Answering ==
    /\ up = <<>> /\ Only({"row", "more"}, Way)
    /\ srv.mode = "busy" /\ srv.job = job
Answered ==
    /\ up = <<>> /\ Way # <<>> /\ LastKind(Way) \in {"done", "error"}
    /\ AllButLast({"row", "more"}, Way)
    /\ srv.mode = (IF job = "insertbulk" /\ LastKind(Way) = "done" THEN "bulk" ELSE "idle")

(* Where the cancel can be: last in the pipe, whatever comes before it.    *)
CancelSent ==
    /\ up # <<>> /\ LastKind(up) = "cancel" /\ AllButLast(Jobs, up)
    /\ Only(Kinds \ {"cancelled"}, Way)
CancelAnswered ==
    /\ up = <<>> /\ Way # <<>> /\ LastKind(Way) = "cancelled"
    /\ AllButLast(Kinds \ {"cancelled"}, Way)
    /\ srv.mode = "idle"

(* An application with one thread that does not cancel its bulk data.      *)
Places ==
    /\ state = "WRITING" <=> pc = "write"
    /\ state = "READING" <=> pc \in {"read", "ending", "net"}
    /\ pc = "net" => buf = <<>>
    /\ pc = "ending" => buf # <<>> /\ Head(buf).kind \in {"done", "error", "cancelled"}
                        /\ (Head(buf).kind = "cancelled" \/ in_cancel = 0)
    /\ cpc = "out"
    /\ wakeup => in_cancel = 1 /\ (pc = "net" \/ state = "DEAD")

OfQuery(n, queue) == \A i \in DOMAIN queue : queue[i].q = n

OfThisQuery ==
    /\ OfQuery(q, Way) /\ OfQuery(q, up)
    /\ srv.mode = "busy" => srv.q = q

Quiet ==
    state \in {"IDLE", "SENDING", "WRITING"} =>
        /\ in_cancel = 0 /\ ~bulk_query /\ Way = <<>>
        /\ bcp => srv.mode = "bulk" /\ Only({"row"}, up) /\ state # "IDLE"
        /\ ~bcp => srv.mode = "idle" /\ up = <<>>
        /\ state = "WRITING" => /\ out_flag # "cancel"
                                /\ job \in (IF bcp THEN {"row", "end"} ELSE {"query", "insertbulk"})

Waiting ==
    state \in {"PENDING", "READING"} =>
        /\ ~bcp /\ (bulk_query <=> job = "insertbulk") /\ job # "row"
        /\ IF in_cancel = 0 \/ wakeup THEN RequestSent \/ Answering \/ Answered
                                      ELSE CancelSent \/ CancelAnswered

OneCancel == \A i, j \in Unanswered : i = j

(* All of it; once the session is dead only the last two parts matter.     *)
Plain == app = "plain" => Places /\ Quiet /\ Waiting /\ OfThisQuery /\ OneCancel

----------------------------------------------------------------------------
(* The lock of the wire.                                                   *)

(* WireMutexFollowsState is inductive as it stands: every transition of    *)
(* tds_set_state() moves the lock together with the state.                 *)
LEMMA ToKeepsTheLock ==
    ASSUME WireMutexFollowsState, NEW new \in States \ {"WRITING", "READING"}, To(new)
    PROVE  state' = new /\ ~wire'
  BY DEF WireMutexFollowsState, To, Unlocks, States

(* The same for the transition to PENDING, which a dead session refuses.   *)
LEMMA ToPendingKeepsTheLock ==
    ASSUME WireMutexFollowsState, ToPending
    PROVE  ~wire' /\ state' \notin {"WRITING", "READING"}
  BY ToKeepsTheLock DEF WireMutexFollowsState, ToPending, States

(* Every step of a call of the worker keeps the lock with the state.       *)
LEMMA WorkerKeepsTheLock ==
    ASSUME WireMutexFollowsState, Worker
    PROVE  WireMutexFollowsState'
  <1>1. CASE Flush
    <2>1. ~wire' /\ state' \notin {"WRITING", "READING"}
      <3>1. CASE To("DEAD")
        BY <3>1, ToKeepsTheLock DEF States
      <3>2. CASE To("SENDING")
        BY <3>2, ToKeepsTheLock DEF States
      <3>3. CASE ToPending
        BY <3>3, ToPendingKeepsTheLock
      <3>. QED  BY <1>1, <3>1, <3>2, <3>3 DEF Flush
    <2>. QED  BY <2>1 DEF WireMutexFollowsState
  <1>2. CASE Abandon
    <2>1. ~wire' /\ state' \notin {"WRITING", "READING"}
      <3>1. CASE state = "DEAD"
        BY <1>2, <3>1 DEF Abandon, WireMutexFollowsState
      <3>2. CASE To("IDLE")
        BY <3>2, ToKeepsTheLock DEF States
      <3>. QED  BY <1>2, <3>1, <3>2 DEF Abandon
    <2>. QED  BY <2>1 DEF WireMutexFollowsState
  <1>3. CASE StopAt
    BY <1>3, ToPendingKeepsTheLock DEF StopAt, WireMutexFollowsState
  <1>4. CASE Token
    <2>1. CASE UNCHANGED <<state, wire>> /\ pc' = (IF state = "DEAD" THEN "app" ELSE pc)
      BY <1>4, <2>1 DEF Token, WireMutexFollowsState
    <2>2. CASE ToPending
      BY <2>2, ToPendingKeepsTheLock DEF WireMutexFollowsState
    <2>. QED  BY <1>4, <2>1, <2>2 DEF Token
  <1>5. CASE Done
    BY <1>5 DEF Done, sessionVars, WireMutexFollowsState
  <1>6. CASE tds_process_end
    <2>1. ~wire' /\ state' \notin {"WRITING", "READING"}
      <3>1. CASE state = "DEAD"
        BY <1>6, <3>1 DEF tds_process_end, WireMutexFollowsState
      <3>2. CASE state # "DEAD"
        BY <1>6, <3>2, ToKeepsTheLock DEF tds_process_end, States
      <3>. QED  BY <3>1, <3>2
    <2>. QED  BY <2>1 DEF WireMutexFollowsState
  <1>7. CASE Enter
    BY <1>7 DEF Enter, sessionVars, WireMutexFollowsState
  <1>. QED  BY <1>1, <1>2, <1>3, <1>4, <1>5, <1>6, <1>7 DEF Worker

(* Every step of the other thread, which may kill the session under the    *)
(* worker's feet, does so too.                                             *)
LEMMA CancellerKeepsTheLock ==
    ASSUME WireMutexFollowsState, CancelTest \/ Canceller
    PROVE  WireMutexFollowsState'
  <1>1. CASE UNCHANGED <<state, wire>>
    <2>1. pc' = pc
      BY DEF CancelTest, Canceller, CancelSet, CancelSignal, CancelDirect, CancelFlush,
             CancelUnchanged, workerVars
    <2>. QED  BY <1>1, <2>1 DEF WireMutexFollowsState
  <1>2. CASE To("DEAD")
    BY <1>2, ToKeepsTheLock DEF WireMutexFollowsState, States
  <1>. QED
    BY <1>1, <1>2 DEF CancelTest, Canceller, CancelSet, CancelSignal, CancelDirect, CancelFlush

(* tds_set_state() and its callers: wire_mtx is held exactly in WRITING    *)
(* and READING, and no call returns with it.                               *)
THEOREM WireLock == Spec => []WireMutexFollowsState
  <1>1. Init => WireMutexFollowsState
    BY DEF Init, WireMutexFollowsState
  <1>2. WireMutexFollowsState /\ [Next]_vars => WireMutexFollowsState'
    <2>. SUFFICES ASSUME WireMutexFollowsState, [Next]_vars
                  PROVE  WireMutexFollowsState'
      OBVIOUS
    <2>1. CASE \E kind \in {"query", "insertbulk"} : Submit(kind)
      BY <2>1 DEF Submit, ToWriting, WireMutexFollowsState
    <2>2. CASE \E kind \in {"row", "end"} : Bulk(kind)
      BY <2>2 DEF Bulk, ToWriting, WireMutexFollowsState
    <2>3. CASE tds_process_tokens
      BY <2>3 DEF tds_process_tokens, ToReading, WireMutexFollowsState
    <2>4. CASE SendCancel
      BY <2>4 DEF SendCancel, WireMutexFollowsState
    <2>5. CASE Worker
      BY <2>5, WorkerKeepsTheLock
    <2>6. CASE NetWakeup \/ NetTimeout
      BY <2>6 DEF NetWakeup, NetTimeout, workerVars, WireMutexFollowsState
    <2>7. CASE NetRead
      BY <2>7 DEF NetRead, sessionVars, WireMutexFollowsState
    <2>8. CASE NetError
      BY <2>8, ToKeepsTheLock DEF NetError, States, WireMutexFollowsState
    <2>9. CASE CancelTest \/ Canceller
      BY <2>9, CancellerKeepsTheLock
    <2>10. CASE ServerReads \/ ServerAnswers
      <3>1. UNCHANGED <<state, wire, pc>>
        BY <2>10 DEF ServerReads, ServerAnswers, SrvUnchanged, sessionVars, workerVars
      <3>. QED  BY <3>1 DEF WireMutexFollowsState
    <2>11. CASE UNCHANGED vars
      BY <2>11 DEF vars, WireMutexFollowsState
    <2>. QED
      BY <2>1, <2>2, <2>3, <2>4, <2>5, <2>6, <2>7, <2>8, <2>9, <2>10, <2>11 DEF Next
  <1>. QED  BY <1>1, <1>2, PTL DEF Spec

----------------------------------------------------------------------------
(* Types.                                                                  *)

Packets == Items(Jobs \cup {"cancel"})
Tokens == Items(Kinds)

(* The packet that is being built goes to the end of the queue.            *)
LEMMA ItemTypes ==
    ASSUME TypeOK
    PROVE  /\ Item(PacketType) \in Packets /\ Item("cancel") \in Packets
           /\ \A k \in Kinds, n \in 0 .. MaxQueries : [kind |-> k, q |-> n] \in Tokens
  <1>1. PacketType \in Jobs \cup {"cancel"}
    BY DEF TypeOK, PacketType
  <1>. QED  BY <1>1 DEF TypeOK, Item, Items, Packets, Tokens

(* tds_check_cancel() leaves a queue of packets and a legal in_cancel.     *)
LEMMA CheckCancelTypes ==
    ASSUME TypeOK, NEW c \in 0 .. 2, NEW queue \in Seq(Packets), tds_check_cancel(c, queue)
    PROVE  up' \in Seq(Packets) /\ in_cancel' \in 0 .. 2 /\ wakeup' \in BOOLEAN
  <1>1. Append(queue, Item("cancel")) \in Seq(Packets)
    BY ItemTypes
  <1>2. wakeup' \in BOOLEAN
    BY DEF tds_check_cancel
  <1>3. CASE wakeup /\ c = 1
    BY <1>1, <1>2, <1>3 DEF tds_check_cancel
  <1>4. CASE ~(wakeup /\ c = 1)
    BY <1>2, <1>4 DEF tds_check_cancel
  <1>. QED  BY <1>3, <1>4

(* tds_process_end() is entered with the token that ends the answer, and   *)
(* the network only when no token is left; nobody but the worker reads.    *)
BufFollowsPc ==
    /\ pc = "ending" => buf # <<>>
    /\ pc = "net" => buf = <<>>

(* Every step of the worker keeps this.                                    *)
LEMMA StepBuf ==
    ASSUME TypeOK, BufFollowsPc, [Next]_vars
    PROVE  BufFollowsPc'
  <1>1. CASE UNCHANGED <<pc, buf>>
    BY <1>1 DEF BufFollowsPc
  <1>2. CASE pc' \notin {"ending", "net"}
    BY <1>2 DEF BufFollowsPc
  <1>3. CASE Token \/ Done
    BY <1>3 DEF Token, Done, BufFollowsPc
  <1>4. CASE Enter
    BY <1>4 DEF Enter, wireVars, BufFollowsPc
  <1>5. UNCHANGED <<pc, buf>> \/ pc' \notin {"ending", "net"} \/ Token \/ Done \/ Enter
    BY DEF Next, Worker, Canceller, Submit, Bulk, tds_process_tokens, SendCancel, Flush, Abandon,
       StopAt, tds_process_end, NetWakeup, NetRead, NetTimeout, NetError, CancelTest,
       CancelSet, CancelSignal, CancelDirect, CancelFlush, CancelUnchanged, ServerReads,
       ServerAnswers, SrvUnchanged, workerVars, wireVars, vars
  <1>. QED  BY <1>1, <1>2, <1>3, <1>4, <1>5

(* Every step keeps the types.                                             *)
LEMMA StepTypes ==
    ASSUME TypeOK, BufFollowsPc, [Next]_vars
    PROVE  TypeOK'
  <1>0. /\ up \in Seq(Packets) /\ buf \in Seq(Tokens) /\ down \in Seq(Tokens)
        /\ in_cancel \in 0 .. 2 /\ q \in 0 .. MaxQueries /\ MaxQueries \in Nat
        /\ state \in States
    BY BoundsAssumption DEF TypeOK, Packets, Tokens
  <1>1. \A x \in Packets : Append(up, x) \in Seq(Packets)
    BY <1>0
  <1>2. CASE \E kind \in {"query", "insertbulk"} : Submit(kind)
    BY <1>0, <1>2 DEF Submit, ToWriting, TypeOK, InStep, wireVars, States, Jobs
  <1>3. CASE \E kind \in {"row", "end"} : Bulk(kind)
    BY <1>0, <1>3 DEF Bulk, ToWriting, TypeOK, InStep, wireVars, States, Jobs
  <1>4. CASE tds_process_tokens
    BY <1>0, <1>4 DEF tds_process_tokens, ToReading, TypeOK, wireVars, histVars, States
  <1>5. CASE SendCancel
    <2>1. up' \in Seq(Packets) /\ in_cancel' \in 0 .. 2 /\ wakeup' \in BOOLEAN
      <3>1. CASE state = "DEAD"
        BY <1>0, <1>5, <3>1 DEF SendCancel, TypeOK
      <3>2. CASE state # "DEAD"
        <4>1. PICK queue \in Seq(Packets) : queue = Append(up, Item("cancel"))
          BY <1>1, ItemTypes
        <4>2. tds_check_cancel(1, queue) /\ 1 \in 0 .. 2
          BY <1>5, <3>2, <4>1 DEF SendCancel
        <4>. QED  BY <4>1, <4>2, CheckCancelTypes
      <3>. QED  BY <3>1, <3>2
    <2>. QED  BY <1>0, <1>5, <2>1 DEF SendCancel, TypeOK, Packets, histVars
  <1>6. CASE Flush
    <2>1. up' \in Seq(Packets) /\ in_cancel' \in 0 .. 2 /\ wakeup' \in BOOLEAN
      <3>1. PICK queue \in Seq(Packets) : queue = Append(up, Item(PacketType))
        BY <1>1, ItemTypes
      <3>2. CASE tds_check_cancel(in_cancel, queue)
        BY <1>0, <3>1, <3>2, CheckCancelTypes
      <3>3. CASE UNCHANGED <<in_cancel, wakeup, up>>
        BY <1>0, <3>3 DEF TypeOK
      <3>. QED  BY <1>6, <3>1, <3>2, <3>3 DEF Flush
    <2>2. state' \in States /\ wire' \in BOOLEAN
      BY <1>6 DEF Flush, To, ToPending, States, TypeOK
    <2>3. bulk_query' \in BOOLEAN /\ bcp' \in BOOLEAN
      BY <1>6 DEF Flush
    <2>. QED  BY <1>0, <1>6, <2>1, <2>2, <2>3 DEF Flush, TypeOK, Packets, histVars
  <1>7. CASE Abandon
    BY <1>0, <1>7 DEF Abandon, To, TypeOK, States, wireVars, histVars
  <1>8. CASE StopAt
    BY <1>0, <1>8 DEF StopAt, ToPending, To, TypeOK, States, wireVars, histVars
  <1>9. CASE Token \/ Done
    <2>1. buf' \in Seq(Tokens)
      BY <1>0, <1>9 DEF Token, Done
    <2>2. cancel_seen' \in BOOLEAN
      BY <1>9 DEF Token, Done, Seen, TypeOK
    <2>3. state' \in States /\ wire' \in BOOLEAN /\ pc' \in {"app", "read", "ending"}
      BY <1>9 DEF Token, Done, ToPending, To, TypeOK, States, sessionVars
    <2>. QED  BY <1>0, <1>9, <2>1, <2>2, <2>3 DEF Token, Done, TypeOK, Tokens, sessionVars, histVars
  <1>10. CASE tds_process_end
    <2>1. buf' \in Seq(Tokens)
      BY <1>0, <1>10 DEF tds_process_end, BufFollowsPc
    <2>2. state' \in States /\ wire' \in BOOLEAN /\ out_flag' \in {"query", "bulk", "cancel"}
      BY <1>10 DEF tds_process_end, To, TypeOK, States
    <2>3. bulk_query' = FALSE /\ in_cancel' = 0
          /\ bcp' = (bulk_query /\ Head(buf).kind = "done" /\ state' = "SENDING")
      BY <1>10 DEF tds_process_end
    <2>4. bulk_query' \in BOOLEAN /\ bcp' \in BOOLEAN /\ in_cancel' \in 0 .. 2
      <3>1. in_cancel' \in 0 .. 2
        BY <2>3
      <3>2. bulk_query' \in BOOLEAN
        BY <2>3
      <3>3. bcp' \in BOOLEAN
        BY <2>3
      <3>. QED  BY <3>1, <3>2, <3>3
    <2>5. pc' = "app" /\ UNCHANGED <<app, job, stops, cancel_seen, cpc, wakeup, up, down, srv, q,
                                     in_step>>
      BY <1>10 DEF tds_process_end, histVars
    <2>. QED  BY <2>1, <2>2, <2>4, <2>5 DEF TypeOK, Tokens
  <1>11. CASE Enter
    BY <1>0, <1>11 DEF Enter, TypeOK, sessionVars, wireVars, histVars
  <1>12. CASE NetWakeup
    <2>1. up' \in Seq(Packets) /\ in_cancel' \in 0 .. 2 /\ wakeup' \in BOOLEAN
      BY <1>0, <1>12, CheckCancelTypes DEF NetWakeup
    <2>. QED  BY <1>0, <1>12, <2>1 DEF NetWakeup, TypeOK, Packets, workerVars, histVars
  <1>13. CASE NetRead
    <2>1. buf' \in Seq(Tokens) /\ down' \in Seq(Tokens)
      BY <1>0, <1>13 DEF NetRead
    <2>. QED  BY <1>0, <1>13, <2>1 DEF NetRead, TypeOK, Tokens, sessionVars, histVars
  <1>14. CASE NetTimeout
    BY <1>0, <1>14 DEF NetTimeout, tds_wakeup_send, TypeOK, workerVars, histVars
  <1>15. CASE NetError
    BY <1>0, <1>15 DEF NetError, To, TypeOK, States, wireVars, histVars
  <1>16. CASE CancelTest \/ CancelSet \/ CancelSignal \/ CancelDirect
    <2>1. in_cancel' \in 0 .. 2 /\ cpc' \in {"out", "set", "send", "flush"}
          /\ out_flag' \in {"query", "bulk", "cancel"}
      BY <1>0, <1>16 DEF CancelTest, CancelSet, CancelSignal, CancelDirect, Asked, TypeOK
    <2>2. wakeup' \in BOOLEAN
      BY <1>16 DEF CancelTest, CancelSet, CancelSignal, CancelDirect, tds_wakeup_send, TypeOK
    <2>3. UNCHANGED <<app, state, wire, bulk_query, pc, job, stops, cancel_seen, bcp, up, buf,
                      down, srv, q, in_step>>
      BY <1>16 DEF CancelTest, CancelSet, CancelSignal, CancelDirect, CancelUnchanged,
             workerVars, histVars
    <2>. QED  BY <2>1, <2>2, <2>3 DEF TypeOK
  <1>17. CASE CancelFlush
    <2>1. up' \in Seq(Packets) /\ in_cancel' \in 0 .. 2 /\ wakeup' \in BOOLEAN
      <3>1. PICK queue \in Seq(Packets) : queue = Append(up, Item(PacketType))
        BY <1>1, ItemTypes
      <3>2. CASE tds_check_cancel(in_cancel, queue)
        BY <1>0, <3>1, <3>2, CheckCancelTypes
      <3>3. CASE UNCHANGED <<in_cancel, wakeup, up>>
        BY <1>0, <3>3 DEF TypeOK
      <3>4. CASE up' = queue /\ tds_wakeup_send /\ UNCHANGED in_cancel
        BY <1>0, <3>4 DEF tds_wakeup_send
      <3>. QED  BY <1>17, <3>1, <3>2, <3>3, <3>4 DEF CancelFlush
    <2>2. state' \in States /\ wire' \in BOOLEAN
      BY <1>17 DEF CancelFlush, To, States, TypeOK
    <2>. QED  BY <1>0, <1>17, <2>1, <2>2 DEF CancelFlush, CancelUnchanged, TypeOK, Packets,
                  workerVars, histVars
  <1>18. CASE ServerReads
    <2>. DEFINE p == Head(up)
    <2>1. p \in Packets /\ up' \in Seq(Packets)
      BY <1>0, <1>18 DEF ServerReads
    <2>2. p.kind \in Jobs \cup {"cancel"} /\ p.q \in 0 .. MaxQueries
      BY <2>1 DEF Packets, Items
    <2>3. down' \in Seq(Tokens)
      <3>1. \A k \in Kinds : Answer(k, p.q) => down' \in Seq(Tokens)
        BY <1>0, <2>2, ItemTypes DEF Answer
      <3>2. {"cancelled", "error"} \subseteq Kinds
        BY DEF Kinds
      <3>. QED  BY <1>0, <1>18, <3>1, <3>2 DEF ServerReads
    <2>4. srv' \in [mode : {"idle", "busy", "bulk"}, job : Jobs \cup {"cancel"}, q : 0 .. MaxQueries]
      BY <1>18, <2>2 DEF ServerReads, Doing, TypeOK
    <2>. QED  BY <1>0, <1>18, <2>1, <2>3, <2>4 DEF ServerReads, SrvUnchanged, TypeOK, Packets,
                  Tokens, sessionVars, workerVars, histVars
  <1>19. CASE ServerAnswers
    <2>1. down' \in Seq(Tokens)
      <3>1. \A k \in Kinds : Answer(k, srv.q) => down' \in Seq(Tokens)
        BY <1>0, ItemTypes DEF Answer, TypeOK
      <3>2. {"row", "more", "done", "error"} \subseteq Kinds
        BY DEF Kinds
      <3>. QED  BY <1>19, <3>1, <3>2 DEF ServerAnswers
    <2>2. srv' \in [mode : {"idle", "busy", "bulk"}, job : Jobs \cup {"cancel"}, q : 0 .. MaxQueries]
      BY <1>19 DEF ServerAnswers, TypeOK
    <2>. QED  BY <1>0, <1>19, <2>1, <2>2 DEF ServerAnswers, SrvUnchanged, TypeOK, Tokens,
                  sessionVars, workerVars, histVars
  <1>20. CASE UNCHANGED vars
    BY <1>0, <1>20 DEF vars, TypeOK
  <1>. QED
    BY <1>2, <1>3, <1>4, <1>5, <1>6, <1>7, <1>8, <1>9, <1>10, <1>11, <1>12, <1>13, <1>14,
       <1>15, <1>16, <1>17, <1>18, <1>19, <1>20 DEF Next, Worker, Canceller

(* Both hold in every state.                                               *)
LEMMA TypesAndBuf == Spec => [](TypeOK /\ BufFollowsPc)
  <1>1. Init => TypeOK /\ BufFollowsPc
    <2>. SUFFICES ASSUME Init
                  PROVE  TypeOK /\ BufFollowsPc
      OBVIOUS
    <2>1. up \in Seq(Items(Jobs \cup {"cancel"})) /\ buf \in Seq(Items(Kinds))
          /\ down \in Seq(Items(Kinds))
      BY DEF Init
    <2>2. srv \in [mode : {"idle", "busy", "bulk"}, job : Jobs \cup {"cancel"}, q : 0 .. MaxQueries]
          /\ q \in 0 .. MaxQueries /\ in_cancel \in 0 .. 2
      BY BoundsAssumption DEF Init, Jobs
    <2>3. {wire, bulk_query, stops, cancel_seen, bcp, wakeup, in_step} \subseteq BOOLEAN
      BY DEF Init
    <2>. QED  BY <2>1, <2>2, <2>3 DEF Init, TypeOK, BufFollowsPc, States, Jobs
  <1>. QED  BY <1>1, StepTypes, StepBuf, PTL DEF Spec

(* Every field of the session, of its threads and of the connection keeps  *)
(* its type: in_cancel, in particular, is 0, 1 or 2.                       *)
THEOREM TypeCorrect == Spec => []TypeOK
  BY TypesAndBuf, PTL

----------------------------------------------------------------------------
(* Queues, and the cancels in them.                                        *)

Has(kind, queue) == \E i \in DOMAIN queue : queue[i].kind = kind

(* Something is put at the end.                                            *)
LEMMA HasAppend ==
    ASSUME NEW S, NEW queue \in Seq(S), NEW x \in S, NEW kind
    PROVE  Has(kind, Append(queue, x)) <=> Has(kind, queue) \/ x.kind = kind
  <1>. DEFINE w == Append(queue, x)
  <1>1. /\ DOMAIN w = 1 .. Len(queue) + 1 /\ DOMAIN queue = 1 .. Len(queue) /\ Len(queue) \in Nat
        /\ w[Len(queue) + 1] = x /\ \A i \in 1 .. Len(queue) : w[i] = queue[i]
    OBVIOUS
  <1>. QED  BY <1>1 DEF Has

(* Something is taken from the front.                                      *)
LEMMA HasTail ==
    ASSUME NEW S, NEW queue \in Seq(S), queue # <<>>, NEW kind
    PROVE  Has(kind, queue) <=> Has(kind, Tail(queue)) \/ Head(queue).kind = kind
  <1>. DEFINE w == Tail(queue)
  <1>1. /\ Len(queue) \in Nat \ {0} /\ DOMAIN queue = 1 .. Len(queue)
        /\ DOMAIN w = 1 .. Len(queue) - 1
        /\ \A i \in 1 .. Len(queue) - 1 : w[i] = queue[i + 1] /\ Head(queue) = queue[1]
    OBVIOUS
  <1>2. \A i \in 2 .. Len(queue) : i - 1 \in DOMAIN w /\ w[i - 1] = queue[i]
    BY <1>1
  <1>3. \A i \in 1 .. Len(queue) : i = 1 \/ i \in 2 .. Len(queue)
    BY <1>1
  <1>4. Head(queue) = queue[1] /\ 1 \in DOMAIN queue
    BY <1>1
  <1>. HIDE DEF w
  <1>5. ASSUME NEW i \in DOMAIN queue, queue[i].kind = kind
        PROVE  Has(kind, w) \/ Head(queue).kind = kind
    BY <1>1, <1>2, <1>3, <1>4, <1>5 DEF Has
  <1>6. ASSUME NEW i \in DOMAIN w, w[i].kind = kind
        PROVE  i + 1 \in DOMAIN queue /\ queue[i + 1].kind = kind
    BY <1>1, <1>6
  <1>. QED  BY <1>4, <1>5, <1>6 DEF Has, w

(* The queue is read in part.                                              *)
LEMMA HasSplit ==
    ASSUME NEW S, NEW queue \in Seq(S), NEW n \in 1 .. Len(queue), NEW kind
    PROVE  Has(kind, queue) <=>
               Has(kind, SubSeq(queue, 1, n)) \/ Has(kind, SubSeq(queue, n + 1, Len(queue)))
  <1>. DEFINE a == SubSeq(queue, 1, n)  b == SubSeq(queue, n + 1, Len(queue))
  <1>1. /\ DOMAIN queue = 1 .. Len(queue) /\ Len(queue) \in Nat
        /\ DOMAIN a = 1 .. n /\ \A i \in 1 .. n : a[i] = queue[i]
    OBVIOUS
  <1>2. DOMAIN b = 1 .. Len(queue) - n /\ \A i \in 1 .. Len(queue) - n : b[i] = queue[i + n]
    BY <1>1
  <1>3. \A i \in 1 .. Len(queue) : i \in 1 .. n \/ (i - n \in DOMAIN b /\ b[i - n] = queue[i])
    BY <1>1, <1>2
  <1>. HIDE DEF a, b
  <1>4. ASSUME NEW i \in DOMAIN queue, queue[i].kind = kind
        PROVE  Has(kind, a) \/ Has(kind, b)
    BY <1>1, <1>3, <1>4 DEF Has
  <1>5. ASSUME NEW i \in DOMAIN b, b[i].kind = kind
        PROVE  i + n \in DOMAIN queue /\ queue[i + n].kind = kind
    BY <1>1, <1>2, <1>5
  <1>6. ASSUME NEW i \in DOMAIN a, a[i].kind = kind
        PROVE  i \in DOMAIN queue /\ queue[i].kind = kind
    BY <1>1, <1>6
  <1>. QED  BY <1>4, <1>5, <1>6 DEF Has, a, b

(* The cancels of three queues, one behind the other.                      *)
Cancels(b, d, u) ==
    {i \in DOMAIN ((b \o d) \o u) : ((b \o d) \o u)[i].kind \in {"cancel", "cancelled"}}

(* A cancel is under way if a queue has one.                               *)
LEMMA WhereCancelsAre ==
    ASSUME NEW b \in Seq(Tokens), NEW d \in Seq(Tokens), NEW u \in Seq(Packets)
    PROVE  Cancels(b, d, u) # {} <=>
               Has("cancelled", b) \/ Has("cancelled", d) \/ Has("cancel", u)
  <1>. DEFINE w == (b \o d) \o u
  <1>1. /\ DOMAIN b = 1 .. Len(b) /\ DOMAIN d = 1 .. Len(d) /\ DOMAIN u = 1 .. Len(u)
        /\ Len(b) \in Nat /\ Len(d) \in Nat /\ Len(u) \in Nat
        /\ DOMAIN w = 1 .. Len(b) + Len(d) + Len(u)
    OBVIOUS
  <1>2. /\ \A i \in 1 .. Len(b) : w[i] = b[i]
        /\ \A i \in 1 .. Len(d) : w[i + Len(b)] = d[i]
        /\ \A i \in 1 .. Len(u) : w[i + Len(b) + Len(d)] = u[i]
    BY <1>1
  <1>3. \A i \in DOMAIN w :
          \/ i \in 1 .. Len(b)
          \/ i - Len(b) \in 1 .. Len(d) /\ i = (i - Len(b)) + Len(b)
          \/ i - Len(b) - Len(d) \in 1 .. Len(u) /\ i = (i - Len(b) - Len(d)) + Len(b) + Len(d)
    BY <1>1
  <1>4. /\ \A i \in DOMAIN b : b[i].kind # "cancel"
        /\ \A i \in DOMAIN d : d[i].kind # "cancel"
        /\ \A i \in DOMAIN u : u[i].kind # "cancelled"
    <2>1. /\ \A i \in DOMAIN b : b[i] \in Tokens
          /\ \A i \in DOMAIN d : d[i] \in Tokens
          /\ \A i \in DOMAIN u : u[i] \in Packets
      BY <1>1
    <2>. QED  BY <2>1 DEF Tokens, Packets, Items, Kinds, Jobs
  <1>5. ASSUME NEW i \in DOMAIN w, w[i].kind \in {"cancel", "cancelled"}
        PROVE  Has("cancelled", b) \/ Has("cancelled", d) \/ Has("cancel", u)
    <2>. HIDE DEF w
    <2>1. CASE i \in 1 .. Len(b)
      BY <1>1, <1>2, <1>4, <1>5, <2>1 DEF Has
    <2>2. CASE i - Len(b) \in 1 .. Len(d)
      BY <1>1, <1>2, <1>3, <1>4, <1>5, <2>2 DEF Has
    <2>3. CASE i - Len(b) - Len(d) \in 1 .. Len(u)
      BY <1>1, <1>2, <1>3, <1>4, <1>5, <2>3 DEF Has
    <2>. QED  BY <1>3, <2>1, <2>2, <2>3
  <1>6. ASSUME Has("cancelled", b) \/ Has("cancelled", d) \/ Has("cancel", u)
        PROVE  \E i \in DOMAIN w : w[i].kind \in {"cancel", "cancelled"}
    <2>. HIDE DEF w
    <2>1. CASE Has("cancelled", b)
      BY <1>1, <1>2, <2>1 DEF Has
    <2>2. CASE Has("cancelled", d)
      <3>1. PICK i \in 1 .. Len(d) : d[i].kind = "cancelled"
        BY <1>1, <2>2 DEF Has
      <3>2. i + Len(b) \in DOMAIN w /\ w[i + Len(b)].kind = "cancelled"
        BY <1>1, <1>2, <3>1
      <3>. QED  BY <3>2
    <2>3. CASE Has("cancel", u)
      <3>1. PICK i \in 1 .. Len(u) : u[i].kind = "cancel"
        BY <1>1, <2>3 DEF Has
      <3>2. i + Len(b) + Len(d) \in DOMAIN w /\ w[i + Len(b) + Len(d)].kind = "cancel"
        BY <1>1, <1>2, <3>1
      <3>. QED  BY <3>2
    <2>. QED  BY <1>6, <2>1, <2>2, <2>3
  <1>. QED  BY <1>5, <1>6 DEF Cancels

----------------------------------------------------------------------------
(* A cancel that was asked for is sent.                                    *)

(* It is on its way, in one of the three queues.                           *)
Sent == Has("cancelled", buf) \/ Has("cancelled", down) \/ Has("cancel", up)

AskedIsSent ==
    app # "race" /\ in_cancel = 1 /\ cpc = "out" /\ state # "DEAD" => wakeup \/ Sent

(* Sent is what the property calls not answered.                           *)
LEMMA SentIsUnanswered ==
    ASSUME TypeOK
    PROVE  Unanswered # {} <=> Sent
  <1>1. up \in Seq(Packets) /\ buf \in Seq(Tokens) /\ down \in Seq(Tokens)
    BY DEF TypeOK, Packets, Tokens
  <1>2. Unanswered = Cancels(buf, down, up)
    BY DEF Unanswered, Pipe, Way, Cancels
  <1>. QED  BY <1>1, <1>2, WhereCancelsAre DEF Sent

(* tds_check_cancel() loses no cancel, and a wakeup only if it sends one.  *)
LEMMA CheckCancelSends ==
    ASSUME TypeOK, NEW c, NEW queue \in Seq(Packets), tds_check_cancel(c, queue)
    PROVE  /\ Has("cancel", queue) => Has("cancel", up')
           /\ in_cancel' = 1 => ~wakeup /\ c = 1
           /\ ~wakeup => in_cancel' = c
  <1>1. Has("cancel", queue) => Has("cancel", Append(queue, Item("cancel")))
    BY ItemTypes, HasAppend
  <1>2. Has("cancel", queue) => Has("cancel", up')
    BY <1>1 DEF tds_check_cancel
  <1>3. in_cancel' = 1 => ~wakeup /\ c = 1
    BY DEF tds_check_cancel
  <1>4. ~wakeup => in_cancel' = c
    BY DEF tds_check_cancel
  <1>. QED  BY <1>2, <1>3, <1>4

(* A dead session stays dead.                                              *)
LEMMA DeadStays ==
    ASSUME [Next]_vars, state = "DEAD"
    PROVE  state' = "DEAD"
  BY DEF Next, Worker, Canceller, Submit, Bulk, tds_process_tokens, SendCancel, Flush, Abandon,
     StopAt, Token, Done, tds_process_end, Enter, NetWakeup, NetRead, NetTimeout, NetError,
     CancelTest, CancelSet, CancelSignal, CancelDirect, CancelFlush, CancelUnchanged,
     ServerReads, ServerAnswers, SrvUnchanged, To, ToPending, ToWriting, ToReading,
     sessionVars, vars

(* The server adds a token to its answer.                                  *)
LEMMA AnswerAdds ==
    ASSUME TypeOK, NEW k \in Kinds, NEW n \in 0 .. MaxQueries, Answer(k, n), NEW kind
    PROVE  Has(kind, down') <=> Has(kind, down) \/ kind = k
  <1>1. [kind |-> k, q |-> n] \in Tokens /\ down \in Seq(Tokens)
    BY ItemTypes DEF TypeOK, Tokens
  <1>2. PICK x \in Tokens : down' = Append(down, x) /\ x.kind = k
    BY <1>1 DEF Answer
  <1>. QED  BY <1>1, <1>2, HasAppend

(* A cancel on its way stays so until the query is over.                   *)
LEMMA SentStays ==
    ASSUME TypeOK, BufFollowsPc, [Next]_vars, Sent, in_cancel' # 0
    PROVE  Sent'
  <1>0. up \in Seq(Packets) /\ buf \in Seq(Tokens) /\ down \in Seq(Tokens)
    BY DEF TypeOK, Packets, Tokens
  <1>1. CASE UNCHANGED <<up, buf, down>>
    BY <1>1 DEF Sent
  <1>2. ASSUME NEW c, NEW x \in Packets, UNCHANGED <<buf, down>>,
               tds_check_cancel(c, Append(up, x)) \/ up' = Append(up, x)
        PROVE  Sent'
    <2>1. PICK queue : queue = Append(up, x)
      OBVIOUS
    <2>2. queue \in Seq(Packets) /\ (Has("cancel", up) => Has("cancel", queue))
      BY <1>0, <2>1, HasAppend
    <2>3. Has("cancel", up) => Has("cancel", up')
      BY <1>2, <2>1, <2>2, CheckCancelSends
    <2>. QED  BY <1>2, <2>3 DEF Sent
  <1>3. CASE SendCancel
    BY <1>1, <1>2, <1>3, ItemTypes DEF SendCancel
  <1>4. CASE Flush
    BY <1>1, <1>2, <1>4, ItemTypes DEF Flush
  <1>5. CASE NetWakeup
    <2>1. Has("cancel", up) => Has("cancel", up')
      BY <1>0, <1>5, CheckCancelSends DEF NetWakeup
    <2>. QED  BY <1>5, <2>1 DEF Sent, NetWakeup
  <1>6. CASE CancelFlush
    BY <1>1, <1>2, <1>6, ItemTypes DEF CancelFlush, CancelUnchanged
  <1>7. CASE Token \/ Done
    <2>1. CASE buf' = buf
      BY <1>1, <1>7, <2>1 DEF Token, Done
    <2>2. CASE buf' = Tail(buf) /\ buf # <<>> /\ Head(buf).kind # "cancelled"
      <3>1. Has("cancelled", buf) => Has("cancelled", buf')
        BY <1>0, <2>2, HasTail
      <3>. QED  BY <1>7, <3>1 DEF Sent, Token, Done
    <2>. QED  BY <1>7, <2>1, <2>2 DEF Token, Done, Ends
  <1>8. CASE NetRead
    <2>1. PICK n \in 1 .. Len(down) : /\ buf' = SubSeq(down, 1, n)
                                      /\ down' = SubSeq(down, n + 1, Len(down))
      BY <1>8 DEF NetRead
    <2>2. Has("cancelled", down) <=> Has("cancelled", buf') \/ Has("cancelled", down')
      BY <1>0, <2>1, HasSplit
    <2>3. ~Has("cancelled", buf) /\ up' = up
      BY <1>8 DEF NetRead, BufFollowsPc, Has
    <2>. QED  BY <2>2, <2>3 DEF Sent
  <1>9. CASE ServerReads
    <2>1. up # <<>> /\ up' = Tail(up) /\ buf' = buf
      BY <1>9 DEF ServerReads, SrvUnchanged
    <2>2. Has("cancel", up) => Has("cancel", up') \/ Head(up).kind = "cancel"
      BY <1>0, <2>1, HasTail
    <2>3. Head(up).q \in 0 .. MaxQueries /\ {"cancelled", "error"} \subseteq Kinds
      <3>1. Head(up) \in Packets
        BY <1>0, <2>1
      <3>. QED  BY <3>1 DEF Packets, Items, Kinds
    <2>4. CASE Head(up).kind = "cancel"
      <3>1. Answer("cancelled", Head(up).q)
        BY <1>9, <2>4 DEF ServerReads
      <3>. QED  BY <2>3, <3>1, AnswerAdds DEF Sent
    <2>5. CASE Head(up).kind # "cancel"
      <3>1. down' = down \/ Answer("error", Head(up).q)
        BY <1>9, <2>5 DEF ServerReads
      <3>2. Has("cancelled", down) => Has("cancelled", down')
        BY <2>3, <3>1, AnswerAdds
      <3>. QED  BY <2>1, <2>2, <2>5, <3>2 DEF Sent
    <2>. QED  BY <2>4, <2>5
  <1>10. CASE ServerAnswers
    <2>1. \E k \in Kinds : Answer(k, srv.q)
      BY <1>10 DEF ServerAnswers, Kinds
    <2>2. srv.q \in 0 .. MaxQueries
      BY DEF TypeOK
    <2>3. Has("cancelled", down) => Has("cancelled", down')
      BY <2>1, <2>2, AnswerAdds
    <2>. QED  BY <1>10, <2>3 DEF Sent, ServerAnswers, SrvUnchanged
  <1>11. UNCHANGED <<up, buf, down>> \/ in_cancel' = 0 \/ SendCancel \/ Flush \/ NetWakeup
         \/ CancelFlush \/ Token \/ Done \/ NetRead \/ ServerReads \/ ServerAnswers
    BY DEF Next, Worker, Canceller, Submit, Bulk, tds_process_tokens, Abandon,
       StopAt, tds_process_end, Enter, NetTimeout, NetError, CancelTest,
       CancelSet, CancelSignal, CancelDirect, CancelUnchanged, wireVars, vars
  <1>. QED  BY <1>1, <1>3, <1>4, <1>5, <1>6, <1>7, <1>8, <1>9, <1>10, <1>11

(* The packet type that the other thread chose.                            *)
LEMMA StepTypeIsKept ==
    ASSUME TypeIsKept, [Next]_vars
    PROVE  TypeIsKept'
  <1>. SUFFICES ASSUME app' # "race", cpc' = "flush"
                PROVE  out_flag' = "cancel" \/ (in_cancel' = 0 /\ pc' = "app")
    BY DEF TypeIsKept
  <1>0. app' = app
    BY DEF Next, Worker, Canceller, Submit, Bulk, tds_process_tokens, SendCancel, Flush, Abandon,
       StopAt, Token, Done, tds_process_end, Enter, NetWakeup, NetRead, NetTimeout, NetError,
       CancelTest, CancelSet, CancelSignal, CancelDirect, CancelFlush, CancelUnchanged,
       ServerReads, ServerAnswers, SrvUnchanged, vars
  <1>1. CASE cpc = "flush" /\ UNCHANGED <<out_flag, in_cancel, pc>>
    BY <1>0, <1>1 DEF TypeIsKept
  <1>2. CASE cpc = "flush" /\ pc # "app" /\ UNCHANGED out_flag
    BY <1>0, <1>2 DEF TypeIsKept
  <1>3. CASE CancelDirect \/ tds_process_end
    BY <1>3 DEF CancelDirect, tds_process_end
  <1>4. \/ cpc = "flush" /\ UNCHANGED <<out_flag, in_cancel, pc>>
        \/ cpc = "flush" /\ pc # "app" /\ UNCHANGED out_flag
        \/ CancelDirect \/ tds_process_end
    BY <1>0 DEF Next, Worker, Canceller, Submit, Bulk, tds_process_tokens, SendCancel, Calls,
       Flush, Abandon, StopAt, Token, Done, Enter, NetWakeup, NetRead, NetTimeout, NetError,
       CancelTest, CancelSet, CancelSignal, CancelFlush, CancelUnchanged, ServerReads,
       ServerAnswers, SrvUnchanged, sessionVars, workerVars, vars
  <1>. QED  BY <1>1, <1>2, <1>3, <1>4

(* No step forgets a cancel.                                               *)
LEMMA StepAsked ==
    ASSUME TypeOK, BufFollowsPc, TypeIsKept, AskedIsSent, [Next]_vars
    PROVE  AskedIsSent'
  <1>. SUFFICES ASSUME app' # "race", in_cancel' = 1, cpc' = "out", state' # "DEAD"
                PROVE  wakeup' \/ Sent'
    BY DEF AskedIsSent
  <1>0. up \in Seq(Packets) /\ state # "DEAD"
    BY DeadStays DEF TypeOK, Packets
  <1>append. Append(up, Item(PacketType)) \in Seq(Packets)
    BY <1>0, ItemTypes
  <1>1. ASSUME app # "race", in_cancel = 1, cpc = "out", wakeup' = wakeup
        PROVE  wakeup' \/ Sent'
    BY <1>0, <1>1, SentStays DEF AskedIsSent
  <1>2. ASSUME NEW queue \in Seq(Packets), tds_check_cancel(in_cancel, queue),
               app # "race", cpc = "out"
        PROVE  wakeup' \/ Sent'
    <2>1. ~wakeup /\ in_cancel = 1
      BY <1>2, CheckCancelSends
    <2>. QED  BY <1>0, <1>2, <2>1, SentStays DEF AskedIsSent
  <1>3. CASE SendCancel
    <2>1. PICK queue : queue = Append(up, Item("cancel"))
      OBVIOUS
    <2>2. queue \in Seq(Packets) /\ Has("cancel", queue)
      <3>1. Item("cancel").kind = "cancel"
        BY DEF Item
      <3>. QED  BY <1>0, <2>1, <3>1, ItemTypes, HasAppend
    <2>3. tds_check_cancel(1, queue)
      BY <1>0, <1>3, <2>1 DEF SendCancel
    <2>4. Has("cancel", up')
      BY <2>2, <2>3, CheckCancelSends
    <2>. QED  BY <2>4 DEF Sent
  <1>4. CASE Flush
    <2>1. PICK queue \in Seq(Packets) : queue = Append(up, Item(PacketType))
      BY <1>append
    <2>2. app' = app /\ cpc' = cpc
      BY <1>4 DEF Flush
    <2>3. CASE tds_check_cancel(in_cancel, queue)
      BY <1>2, <2>2, <2>3
    <2>4. CASE UNCHANGED <<in_cancel, wakeup, up>>
      BY <1>1, <2>2, <2>4
    <2>. QED  BY <1>4, <2>1, <2>3, <2>4 DEF Flush
  <1>5. CASE NetWakeup
    BY <1>0, <1>2, <1>5 DEF NetWakeup
  <1>6. CASE NetTimeout \/ CancelSignal
    BY <1>6 DEF NetTimeout, CancelSignal, tds_wakeup_send
  <1>7. CASE CancelFlush
    <2>1. PICK queue \in Seq(Packets) : queue = Append(up, Item(PacketType))
      BY <1>append
    <2>2. CASE tds_wakeup_send
      BY <2>2 DEF tds_wakeup_send
    <2>3. CASE tds_check_cancel(in_cancel, queue)
      <3>1. in_cancel = 1 /\ app # "race" /\ cpc = "flush"
        BY <1>7, <2>1, <2>3, CheckCancelSends DEF CancelFlush, CancelUnchanged
      <3>2. PacketType = "cancel"
        BY <3>1 DEF TypeIsKept, PacketType
      <3>3. Item(PacketType).kind = "cancel"
        BY <3>2 DEF Item
      <3>4. Has("cancel", queue)
        BY <1>0, <2>1, <3>3, ItemTypes, HasAppend
      <3>. QED  BY <2>3, <3>4, CheckCancelSends DEF Sent
    <2>. QED  BY <1>7, <2>1, <2>2, <2>3 DEF CancelFlush, To
  <1>8. \/ app' = app /\ UNCHANGED <<in_cancel, cpc, wakeup>>
        \/ SendCancel \/ Flush \/ NetWakeup \/ NetTimeout \/ CancelSignal \/ CancelFlush
    BY DEF Next, Worker, Canceller, Submit, Bulk, tds_process_tokens, Abandon,
       StopAt, Token, Done, tds_process_end, Enter, NetRead, NetError, CancelTest,
       CancelSet, CancelDirect, ServerReads, ServerAnswers, SrvUnchanged, sessionVars,
       wireVars, vars
  <1>. QED  BY <1>1, <1>3, <1>4, <1>5, <1>6, <1>7, <1>8

(* tds_send_cancel() and tds_check_cancel(): a cancel that was asked for,  *)
(* by the worker, by a timeout or by another thread that the worker waits  *)
(* for, is on its way or will be sent by the thread in the network.        *)
THEOREM CancelsAreSent == Spec => []AskedCancelsAreSent
  <1>. DEFINE Inv == TypeIsKept /\ AskedIsSent
  <1>1. Init => Inv
    BY DEF Init, TypeIsKept, AskedIsSent
  <1>2. TypeOK /\ BufFollowsPc /\ Inv /\ [Next]_vars => Inv'
    BY StepTypeIsKept, StepAsked
  <1>3. TypeOK /\ Inv => AskedCancelsAreSent
    BY SentIsUnanswered DEF AskedIsSent, AskedCancelsAreSent
  <1>. HIDE DEF Inv
  <1>. QED  BY <1>1, <1>2, <1>3, TypesAndBuf, PTL DEF Spec

----------------------------------------------------------------------------
(* One thread: in step with the server.                                    *)

(* A queue and the one that has an item more.                              *)
LEMMA QueueAppend ==
    ASSUME NEW S, NEW s \in Seq(S), NEW x \in S, NEW w, w = Append(s, x), NEW K
    PROVE  /\ w # <<>> /\ w \in Seq(S) /\ LastKind(w) = x.kind
           /\ AllButLast(K, w) <=> Only(K, s)
           /\ Only(K, w) <=> Only(K, s) /\ x.kind \in K
  <1>1. /\ Len(s) \in Nat /\ DOMAIN s = 1 .. Len(s) /\ Len(w) = Len(s) + 1 /\ w \in Seq(S)
        /\ DOMAIN w = 1 .. Len(s) + 1 /\ w[Len(s) + 1] = x
        /\ \A i \in 1 .. Len(s) : w[i] = s[i]
    OBVIOUS
  <1>2. Len(w) - 1 = Len(s) /\ \A i \in 1 .. Len(s) + 1 : i \in 1 .. Len(s) \/ i = Len(s) + 1
    BY <1>1
  <1>3. w # <<>> /\ LastKind(w) = x.kind
    BY <1>1 DEF LastKind
  <1>4. AllButLast(K, w) <=> Only(K, s)
    BY <1>1, <1>2 DEF AllButLast, Only
  <1>5. Only(K, w) <=> Only(K, s) /\ x.kind \in K
    BY <1>1, <1>2 DEF Only
  <1>. QED  BY <1>1, <1>3, <1>4, <1>5

(* The same for the query that its items belong to.                        *)
LEMMA QueryAppend ==
    ASSUME NEW S, NEW s \in Seq(S), NEW x \in S, NEW w, w = Append(s, x), NEW n
    PROVE  OfQuery(n, w) <=> OfQuery(n, s) /\ x.q = n
  <1>1. /\ Len(s) \in Nat /\ DOMAIN s = 1 .. Len(s)
        /\ DOMAIN w = 1 .. Len(s) + 1 /\ w[Len(s) + 1] = x
        /\ \A i \in 1 .. Len(s) : w[i] = s[i]
    OBVIOUS
  <1>2. \A i \in 1 .. Len(s) + 1 : i \in 1 .. Len(s) \/ i = Len(s) + 1
    BY <1>1
  <1>. QED  BY <1>1, <1>2 DEF OfQuery

(* And the one that has an item less.                                      *)
LEMMA QueueTail ==
    ASSUME NEW S, NEW s \in Seq(S), s # <<>>, NEW w, w = Tail(s), NEW K
    PROVE  /\ w \in Seq(S) /\ Head(s) \in S
           /\ w # <<>> => LastKind(w) = LastKind(s) /\ (AllButLast(K, s) => Head(s).kind \in K)
           /\ w = <<>> => LastKind(s) = Head(s).kind
           /\ AllButLast(K, s) => AllButLast(K, w)
           /\ Only(K, s) => Only(K, w) /\ Head(s).kind \in K
  <1>1. /\ Len(s) \in Nat \ {0} /\ DOMAIN s = 1 .. Len(s) /\ Len(w) = Len(s) - 1
        /\ w \in Seq(S) /\ DOMAIN w = 1 .. Len(s) - 1 /\ Head(s) = s[1] /\ Head(s) \in S
        /\ \A i \in 1 .. Len(s) - 1 : w[i] = s[i + 1]
    OBVIOUS
  <1>2. w # <<>> => LastKind(w) = LastKind(s) /\ (AllButLast(K, s) => Head(s).kind \in K)
    <2>. SUFFICES ASSUME w # <<>>
                  PROVE  LastKind(w) = LastKind(s) /\ (AllButLast(K, s) => Head(s).kind \in K)
      OBVIOUS
    <2>0. Len(w) # 0
      BY <1>1
    <2>1. Len(s) - 1 \in 1 .. Len(s) - 1 /\ 1 \in 1 .. Len(s) - 1
      BY <1>1, <2>0
    <2>2. w[Len(w)] = s[Len(s)]
      BY <1>1, <2>1
    <2>. QED  BY <1>1, <2>1, <2>2 DEF LastKind, AllButLast
  <1>3. w = <<>> => LastKind(s) = Head(s).kind
    <2>0. w = <<>> => Len(w) = 0
      OBVIOUS
    <2>1. w = <<>> => Len(s) = 1
      BY <1>1, <2>0
    <2>. QED  BY <1>1, <2>1 DEF LastKind
  <1>4. AllButLast(K, s) => AllButLast(K, w)
    <2>1. \A i \in 1 .. Len(w) - 1 : i + 1 \in 1 .. Len(s) - 1 /\ w[i] = s[i + 1]
      BY <1>1
    <2>. QED  BY <2>1 DEF AllButLast
  <1>5. \A i \in DOMAIN w : i + 1 \in DOMAIN s /\ w[i] = s[i + 1]
    BY <1>1
  <1>6. Only(K, s) => Only(K, w) /\ Head(s).kind \in K
    BY <1>1, <1>5 DEF Only
  <1>. QED  BY <1>1, <1>2, <1>3, <1>4, <1>6

(* The same for the query.                                                 *)
LEMMA QueryTail ==
    ASSUME NEW S, NEW s \in Seq(S), s # <<>>, NEW w, w = Tail(s), NEW n, OfQuery(n, s)
    PROVE  OfQuery(n, w) /\ Head(s).q = n
  <1>1. /\ Len(s) \in Nat \ {0} /\ DOMAIN s = 1 .. Len(s)
        /\ DOMAIN w = 1 .. Len(s) - 1 /\ Head(s) = s[1]
        /\ \A i \in 1 .. Len(s) - 1 : w[i] = s[i + 1]
    OBVIOUS
  <1>2. \A i \in DOMAIN w : i + 1 \in DOMAIN s /\ w[i] = s[i + 1]
    BY <1>1
  <1>. QED  BY <1>1, <1>2 DEF OfQuery

(* The empty queue.                                                        *)
LEMMA QueueEmpty ==
    ASSUME NEW K, NEW n
    PROVE  Only(K, <<>>) /\ OfQuery(n, <<>>) /\ AllButLast(K, <<>>)
  BY DEF Only, OfQuery, AllButLast

(* Reading and answering, seen from the way the tokens take.               *)
LEMMA WaySplit ==
    ASSUME NEW S, NEW b \in Seq(S), NEW d \in Seq(S)
    PROVE  /\ b \o d \in Seq(S)
           /\ b # <<>> => Tail(b) \o d = Tail(b \o d) /\ Head(b) = Head(b \o d) /\ b \o d # <<>>
           /\ \A x \in S : b \o Append(d, x) = Append(b \o d, x)
           /\ b = <<>> => b \o d = d
           /\ \A n \in 1 .. Len(d) : SubSeq(d, 1, n) \o SubSeq(d, n + 1, Len(d)) = d
  <1>1. b \o d \in Seq(S)
    OBVIOUS
  <1>2. b # <<>> => Tail(b) \o d = Tail(b \o d) /\ Head(b) = Head(b \o d) /\ b \o d # <<>>
    OBVIOUS
  <1>3. \A x \in S : b \o Append(d, x) = Append(b \o d, x)
    OBVIOUS
  <1>4. b = <<>> => b \o d = d
    OBVIOUS
  <1>5. \A n \in 1 .. Len(d) : SubSeq(d, 1, n) \o SubSeq(d, n + 1, Len(d)) = d
    OBVIOUS
  <1>. QED  BY <1>1, <1>2, <1>3, <1>4, <1>5

(* Cancels in what the server answered (w) and has yet to read (u).        *)
CancelPlaces(w, u) == {i \in DOMAIN (w \o u) : (w \o u)[i].kind \in {"cancel", "cancelled"}}

(* None, if neither queue has one; and one, if it is the last of all.      *)
LEMMA CancelCount ==
    ASSUME NEW w \in Seq(Tokens), NEW u \in Seq(Packets)
    PROVE  /\ Only(Kinds \ {"cancelled"}, w) /\ Only(Jobs, u) => CancelPlaces(w, u) = {}
           /\ \/ Only(Kinds \ {"cancelled"}, w) /\ u # <<>> /\ AllButLast(Jobs, u)
              \/ u = <<>> /\ w # <<>> /\ AllButLast(Kinds \ {"cancelled"}, w)
              => \A i, j \in CancelPlaces(w, u) : i = j
  <1>. DEFINE z == w \o u
  <1>1. /\ Len(w) \in Nat /\ Len(u) \in Nat /\ DOMAIN w = 1 .. Len(w) /\ DOMAIN u = 1 .. Len(u)
        /\ DOMAIN z = 1 .. Len(w) + Len(u)
        /\ \A i \in 1 .. Len(w) : z[i] = w[i]
        /\ \A i \in Len(w) + 1 .. Len(w) + Len(u) : z[i] = u[i - Len(w)]
    OBVIOUS
  <1>. HIDE DEF z
  <1>2. "cancel" \notin Jobs /\ "cancelled" \notin Jobs /\ "cancel" \notin Kinds
    BY DEF Jobs, Kinds
  <1>3. \A i \in DOMAIN z :
            i \in 1 .. Len(w) \/ (i - Len(w) \in 1 .. Len(u) /\ z[i] = u[i - Len(w)])
    <2>. SUFFICES ASSUME NEW i \in DOMAIN z, i \notin 1 .. Len(w)
                  PROVE  i - Len(w) \in 1 .. Len(u) /\ z[i] = u[i - Len(w)]
      OBVIOUS
    <2>1. i \in Len(w) + 1 .. Len(w) + Len(u)
      BY <1>1
    <2>. QED  BY <1>1, <2>1
  <1>4. Only(Kinds \ {"cancelled"}, w) =>
            \A i \in 1 .. Len(w) : z[i].kind \notin {"cancel", "cancelled"}
    BY <1>1, <1>2 DEF Only
  <1>5. CASE Only(Kinds \ {"cancelled"}, w) /\ Only(Jobs, u)
    <2>1. ASSUME NEW i \in DOMAIN z
          PROVE  z[i].kind \notin {"cancel", "cancelled"}
      BY <1>1, <1>2, <1>3, <1>4, <1>5, <2>1 DEF Only
    <2>. QED  BY <2>1 DEF CancelPlaces, z
  <1>6. CASE Only(Kinds \ {"cancelled"}, w) /\ u # <<>> /\ AllButLast(Jobs, u)
    <2>1. ASSUME NEW i \in DOMAIN z, z[i].kind \in {"cancel", "cancelled"}
          PROVE  i = Len(w) + Len(u)
      <3>1. i - Len(w) \in 1 .. Len(u) /\ z[i] = u[i - Len(w)]
        BY <1>3, <1>4, <1>6, <2>1
      <3>2. i - Len(w) \notin 1 .. Len(u) - 1
        BY <1>2, <1>6, <2>1, <3>1 DEF AllButLast
      <3>. QED  BY <1>1, <3>1, <3>2
    <2>. QED  BY <1>5, <2>1 DEF CancelPlaces, z
  <1>7. CASE u = <<>> /\ w # <<>> /\ AllButLast(Kinds \ {"cancelled"}, w)
    <2>1. ASSUME NEW i \in DOMAIN z, z[i].kind \in {"cancel", "cancelled"}
          PROVE  i = Len(w)
      <3>0. Len(u) = 0
        BY <1>7
      <3>1. i \in 1 .. Len(w) /\ z[i] = w[i]
        BY <1>1, <3>0, <2>1
      <3>2. i \notin 1 .. Len(w) - 1
        BY <1>2, <1>7, <2>1, <3>1 DEF AllButLast
      <3>. QED  BY <1>1, <3>1, <3>2
    <2>. QED  BY <1>5, <2>1 DEF CancelPlaces, z
  <1>. QED  BY <1>5, <1>6, <1>7

(* So there is one cancel at most after a step of a live session.          *)
LEMMA OneCancelNext ==
    ASSUME TypeOK', Quiet', Waiting', state' # "DEAD"
    PROVE  OneCancel' /\ (state' \in {"IDLE", "SENDING"} => Unanswered' = {})
  <1>1. Way' \in Seq(Tokens) /\ up' \in Seq(Packets) /\ state' \in States
    <2>1. buf' \in Seq(Tokens) /\ down' \in Seq(Tokens) /\ up' \in Seq(Packets)
      BY DEF TypeOK, Tokens, Packets
    <2>. QED  BY <2>1, WaySplit DEF TypeOK, Way
  <1>2. Unanswered' = CancelPlaces(Way', up')
    BY DEF Unanswered, Pipe, CancelPlaces
  <1>3. /\ Only({"row"}, up') => Only(Jobs, up')
        /\ AllButLast({"row"}, up') /\ LastKind(up') = job' => AllButLast(Jobs, up')
        /\ Only({"row", "more"}, Way') => Only(Kinds \ {"cancelled"}, Way')
        /\ AllButLast({"row", "more"}, Way') => AllButLast(Kinds \ {"cancelled"}, Way')
    BY DEF Only, AllButLast, Jobs, Kinds
  <1>4. CASE state' \in {"IDLE", "SENDING", "WRITING"}
    <2>1. Only(Kinds \ {"cancelled"}, Way') /\ Only(Jobs, up')
      BY <1>3, <1>4, QueueEmpty DEF Quiet
    <2>. QED  BY <1>1, <1>2, <2>1, CancelCount DEF OneCancel
  <1>5. CASE state' \in {"PENDING", "READING"}
    <2>1. CASE RequestSent'
      <3>1. Only(Kinds \ {"cancelled"}, Way') /\ up' # <<>> /\ AllButLast(Jobs, up')
        BY <1>3, <2>1, QueueEmpty DEF RequestSent
      <3>. QED  BY <1>1, <1>2, <1>5, <3>1, CancelCount DEF OneCancel
    <2>2. CASE Answering'
      <3>1. Only(Kinds \ {"cancelled"}, Way') /\ Only(Jobs, up')
        BY <1>3, <2>2, QueueEmpty DEF Answering
      <3>. QED  BY <1>1, <1>2, <1>5, <3>1, CancelCount DEF OneCancel
    <2>3. CASE Answered'
      <3>1. up' = <<>> /\ Way' # <<>> /\ AllButLast(Kinds \ {"cancelled"}, Way')
        BY <1>3, <2>3 DEF Answered
      <3>. QED  BY <1>1, <1>2, <1>5, <3>1, CancelCount DEF OneCancel
    <2>4. CASE CancelSent'
      BY <1>1, <1>2, <1>5, <2>4, CancelCount DEF OneCancel, CancelSent
    <2>5. CASE CancelAnswered'
      BY <1>1, <1>2, <1>5, <2>5, CancelCount DEF OneCancel, CancelAnswered
    <2>. QED  BY <1>5, <2>1, <2>2, <2>3, <2>4, <2>5 DEF Waiting
  <1>. QED  BY <1>1, <1>4, <1>5 DEF States

(* What the steps of the application and of the worker do.                 *)
Good == Places /\ Quiet /\ Waiting /\ OfThisQuery

(* A request is begun, sent or given up.                                   *)
LEMMA RequestsStayInStep ==
    ASSUME TypeOK, Good, app = "plain", q \in 0 .. MaxQueries,
           \/ \E kind \in {"query", "insertbulk"} : Submit(kind)
           \/ \E kind \in {"row", "end"} : Bulk(kind)
           \/ Abandon \/ Flush
    PROVE  Good'
  <1>. USE DEF Good
  <1>0. Way \in Seq(Tokens) /\ up \in Seq(Packets) /\ state \in States /\ Item(PacketType) \in Packets
    <2>1. buf \in Seq(Tokens) /\ down \in Seq(Tokens) /\ up \in Seq(Packets)
      BY DEF TypeOK, Tokens, Packets
    <2>. QED  BY <2>1, WaySplit, ItemTypes DEF TypeOK, Way
  <1>1. UNCHANGED <<buf, down, srv, cpc>> /\ Way' = Way
    BY DEF Submit, Bulk, Abandon, Flush, wireVars, Way
  <1>2. ASSUME NEW kind \in {"query", "insertbulk"}, Submit(kind)
        PROVE  Good'
    <2>1. state \in {"IDLE", "SENDING"} /\ ~bcp /\ state' = "WRITING" /\ pc = "app" /\ pc' = "write"
          /\ out_flag' = "query" /\ job' = kind
          /\ UNCHANGED <<in_cancel, bulk_query, bcp, wakeup, up>>
      BY <1>2 DEF Submit, ToWriting, Calls, wireVars
    <2>2. in_cancel = 0 /\ ~bulk_query /\ Way = <<>> /\ up = <<>> /\ srv.mode = "idle" /\ ~wakeup
      BY <2>1 DEF Quiet, Places
    <2>3. Places'
      BY <1>1, <2>1, <2>2 DEF Places
    <2>4. Quiet'
      BY <1>1, <2>1, <2>2 DEF Quiet
    <2>5. Waiting'
      BY <2>1 DEF Waiting
    <2>6. OfThisQuery'
      BY <1>1, <2>1, <2>2, QueueEmpty DEF OfThisQuery
    <2>. QED  BY <2>3, <2>4, <2>5, <2>6
  <1>3. ASSUME NEW kind \in {"row", "end"}, Bulk(kind)
        PROVE  Good'
    <2>1. state \in {"IDLE", "SENDING"} /\ bcp /\ state' = "WRITING" /\ pc = "app" /\ pc' = "write"
          /\ out_flag = "bulk" /\ job' = kind /\ q' = q
          /\ UNCHANGED <<in_cancel, bulk_query, bcp, wakeup, up, out_flag>>
      BY <1>3 DEF Bulk, ToWriting, Calls, wireVars
    <2>2. in_cancel = 0 /\ ~wakeup
      BY <2>1 DEF Quiet, Places
    <2>3. Places'
      BY <1>1, <2>1, <2>2 DEF Places
    <2>4. Quiet'
      BY <1>1, <2>1, <2>2 DEF Quiet
    <2>5. Waiting'
      BY <2>1 DEF Waiting
    <2>6. OfThisQuery'
      BY <1>1, <2>1 DEF OfThisQuery
    <2>. QED  BY <2>3, <2>4, <2>5, <2>6
  <1>4. CASE Abandon
    <2>1. pc = "write" /\ state = "WRITING" /\ state' = "IDLE" /\ pc' = "app" /\ ~bcp
          /\ UNCHANGED <<in_cancel, bulk_query, bcp, wakeup, up, q>>
      BY <1>4 DEF Abandon, Places, Quiet, To, wireVars, histVars
    <2>2. Places'
      BY <1>1, <2>1 DEF Places
    <2>3. Quiet'
      BY <1>1, <2>1 DEF Quiet
    <2>4. Waiting'
      BY <2>1 DEF Waiting
    <2>5. OfThisQuery'
      BY <1>1, <2>1 DEF OfThisQuery
    <2>. QED  BY <2>2, <2>3, <2>4, <2>5
  <1>5. CASE Flush
    <2>1. pc = "write" /\ state = "WRITING" /\ pc' = "app" /\ ~wakeup /\ in_cancel = 0
          /\ ~bulk_query /\ Way = <<>> /\ out_flag # "cancel"
          /\ q' = q /\ job' = job /\ PacketType = job
      BY <1>5 DEF Flush, Places, Quiet, PacketType, histVars
    <2>2. in_cancel' = 0 /\ ~wakeup' /\ up' \in {up, Append(up, Item(PacketType))}
      BY <1>5, <2>1 DEF Flush, tds_check_cancel
    <2>3. Item(PacketType).kind = job /\ Item(PacketType).q = q
      BY <2>1 DEF Item
    <2>4. OfThisQuery'
      BY <1>0, <1>1, <2>1, <2>2, <2>3, QueryAppend DEF OfThisQuery
    <2>5. CASE state' = "DEAD"
      BY <1>1, <2>1, <2>2, <2>4, <2>5 DEF Places, Quiet, Waiting
    <2>6. CASE state' = "SENDING" /\ job = "row"
      <3>1. bcp /\ bcp' /\ ~bulk_query'
        BY <1>5, <2>1, <2>6 DEF Flush, Quiet
      <3>2. Only({"row"}, up')
        BY <1>0, <2>1, <2>2, <2>3, <2>6, <3>1, QueueAppend DEF Quiet
      <3>3. Places'
        BY <1>1, <2>1, <2>2, <2>6 DEF Places
      <3>4. Quiet'
        BY <1>1, <2>1, <2>2, <2>6, <3>1, <3>2 DEF Quiet
      <3>. QED  BY <2>4, <2>6, <3>3, <3>4 DEF Waiting
    <2>7. CASE state' = "PENDING" /\ job # "row"
      <3>1. up' = Append(up, Item(PacketType)) /\ ~bcp' /\ (bulk_query' <=> job = "insertbulk")
        BY <1>5, <2>1, <2>7 DEF Flush, To, tds_check_cancel
      <3>2. up' # <<>> /\ LastKind(up') = job
        BY <1>0, <2>3, <3>1, QueueAppend
      <3>3. Only({"row"}, up) /\ srv.mode = (IF job = "end" THEN "bulk" ELSE "idle")
        BY <2>1, <2>7, QueueEmpty DEF Quiet
      <3>4. AllButLast({"row"}, up')
        BY <1>0, <3>1, <3>3, QueueAppend
      <3>5. RequestSent'
        BY <1>1, <2>1, <3>2, <3>3, <3>4 DEF RequestSent
      <3>6. Places'
        BY <1>1, <2>1, <2>2, <2>7 DEF Places
      <3>7. Quiet'
        BY <2>7 DEF Quiet
      <3>. QED  BY <2>1, <2>2, <2>4, <2>7, <3>1, <3>5, <3>6, <3>7 DEF Waiting
    <2>8. \/ state' = "DEAD" \/ (state' = "SENDING" /\ job = "row") \/ (state' = "PENDING" /\ job # "row")
      BY <1>5, <2>1 DEF Flush, To, ToPending
    <2>. QED  BY <2>5, <2>6, <2>7, <2>8
  <1>. QED  BY <1>2, <1>3, <1>4, <1>5

(* The places before the last.                                             *)
LEMMA BeforeLast ==
    ASSUME NEW n \in Nat, NEW i \in 1 .. n, i # n
    PROVE  i \in 1 .. n - 1
  OBVIOUS

(* A queue whose last item is like the others, or not.                     *)
LEMMA OnlyFromLast ==
    ASSUME NEW S, NEW s \in Seq(S), NEW K, NEW L, K \subseteq L, AllButLast(K, s),
           LastKind(s) \in L
    PROVE  Only(L, s)
  <1>1. Len(s) \in Nat /\ DOMAIN s = 1 .. Len(s)
    OBVIOUS
  <1>. SUFFICES ASSUME NEW i \in 1 .. Len(s)
                PROVE  s[i].kind \in L
    BY <1>1 DEF Only
  <1>2. CASE i = Len(s)
    BY <1>1, <1>2 DEF LastKind
  <1>3. CASE i # Len(s)
    <2>1. i \in 1 .. Len(s) - 1
      BY <1>1, <1>3, BeforeLast
    <2>. QED  BY <2>1 DEF AllButLast
  <1>. QED  BY <1>2, <1>3

(* A larger set of kinds.                                                  *)
LEMMA OnlyMore ==
    ASSUME NEW K, NEW L, K \subseteq L, NEW s
    PROVE  (Only(K, s) => Only(L, s)) /\ (AllButLast(K, s) => AllButLast(L, s))
  BY DEF Only, AllButLast

(* While the answer is not cancelled, no cancel is in the pipe.            *)
LEMMA NoCancelYet ==
    ASSUME TypeOK, RequestSent \/ Answering \/ Answered
    PROVE  Only(Jobs, up) /\ Only(Kinds \ {"cancelled"}, Way)
  <1>1. Way \in Seq(Tokens) /\ up \in Seq(Packets) /\ job \in Jobs
    <2>1. buf \in Seq(Tokens) /\ down \in Seq(Tokens) /\ up \in Seq(Packets)
      BY DEF TypeOK, Tokens, Packets
    <2>. QED  BY <2>1, WaySplit DEF TypeOK, Way
  <1>2. {"row"} \subseteq Jobs /\ {"row", "more"} \subseteq Kinds \ {"cancelled"}
        /\ {"done", "error"} \subseteq Kinds \ {"cancelled"}
    BY DEF Jobs, Kinds
  <1>3. CASE RequestSent
    BY <1>1, <1>2, <1>3, OnlyFromLast, QueueEmpty DEF RequestSent
  <1>4. CASE Answering
    BY <1>2, <1>4, OnlyMore, QueueEmpty DEF Answering
  <1>5. CASE Answered
    BY <1>1, <1>2, <1>5, OnlyFromLast, QueueEmpty DEF Answered
  <1>. QED  BY <1>3, <1>4, <1>5

(* A cancel is sent: by the application, or by the thread in the network.  *)
LEMMA CancelsStayInStep ==
    ASSUME TypeOK, Good, app = "plain", SendCancel \/ NetWakeup
    PROVE  Good'
  <1>. USE DEF Good
  <1>0. up \in Seq(Packets) /\ Item("cancel") \in Packets /\ Item("cancel").kind = "cancel"
        /\ Item("cancel").q = q /\ state \in States
    BY ItemTypes DEF TypeOK, Packets, Item
  <1>1. UNCHANGED <<buf, down, srv, cpc, state, pc, job, q, bulk_query>> /\ Way' = Way
    BY DEF SendCancel, NetWakeup, Way, histVars, workerVars
  <1>2. CASE state = "DEAD"
    <2>1. SendCancel /\ in_cancel' = 1 /\ UNCHANGED <<wakeup, up>>
      BY <1>2 DEF SendCancel, NetWakeup, Places
    <2>. QED  BY <1>1, <1>2, <2>1 DEF Places, Quiet, Waiting, OfThisQuery
  <1>3. CASE state # "DEAD"
    <2>1. /\ state \in {"PENDING", "READING"}
          /\ SendCancel => ~wakeup /\ in_cancel = 0
          /\ NetWakeup => wakeup /\ in_cancel = 1
      <3>1. CASE SendCancel
        BY <1>0, <1>3, <3>1 DEF SendCancel, NetWakeup, Calls, MayCancel, Places, Quiet, States
      <3>2. CASE NetWakeup
        BY <1>3, <3>2 DEF SendCancel, Calls, NetWakeup, Places
      <3>. QED  BY <3>1, <3>2
    <2>2. ~wakeup' /\ in_cancel' # 0 /\ up' = Append(up, Item("cancel")) /\ ~bcp'
      <3>1. CASE SendCancel
        BY <1>3, <2>1, <3>1 DEF SendCancel, tds_check_cancel
      <3>2. CASE NetWakeup
        BY <2>1, <3>2 DEF NetWakeup, tds_check_cancel, workerVars, Waiting
      <3>. QED  BY <3>1, <3>2
    <2>append. /\ up' # <<>> /\ LastKind(up') = "cancel"
               /\ Only(Jobs, up) => AllButLast(Jobs, up')
               /\ OfQuery(q, up) => OfQuery(q, up')
      <3>1. PICK x \in Packets : x = Item("cancel") /\ x.kind = "cancel" /\ x.q = q
        BY <1>0
      <3>2. up' = Append(up, x) /\ up \in Seq(Packets)
        BY <1>0, <2>2, <3>1
      <3>3. up' # <<>> /\ LastKind(up') = x.kind
        BY <3>2, QueueAppend
      <3>4. Only(Jobs, up) => AllButLast(Jobs, up')
        BY <3>2, QueueAppend
      <3>5. OfQuery(q, up') <=> OfQuery(q, up) /\ x.q = q
        BY <3>2, QueryAppend
      <3>. QED  BY <3>1, <3>3, <3>4, <3>5
    <2>3. RequestSent \/ Answering \/ Answered
      BY <2>1 DEF Waiting
    <2>4. CancelSent'
      <3>1. Only(Jobs, up) /\ Only(Kinds \ {"cancelled"}, Way)
        BY <2>3, NoCancelYet
      <3>2. up' # <<>> /\ LastKind(up') = "cancel" /\ (Only(Jobs, up) => AllButLast(Jobs, up'))
        BY <2>append
      <3>. QED  BY <1>1, <3>1, <3>2 DEF CancelSent
    <2>5. OfThisQuery'
      <3>1. OfQuery(q, up) => OfQuery(q, up')
        BY <2>append
      <3>. QED  BY <1>1, <3>1 DEF OfThisQuery
    <2>6. Places'
      <3>1. pc # "ending"
        BY DEF SendCancel, NetWakeup, Calls
      <3>. QED  BY <1>1, <2>2, <3>1 DEF Places
    <2>7. Waiting' /\ Quiet'
      BY <1>1, <2>1, <2>2, <2>4 DEF Waiting, Quiet
    <2>. QED  BY <2>5, <2>6, <2>7
  <1>. QED  BY <1>2, <1>3

(* Steps of a read that leave the tokens and the packets where they are.   *)
LEMMA ReadsStayInStep ==
    ASSUME TypeOK, Good, app = "plain",
           tds_process_tokens \/ StopAt \/ Enter \/ NetRead \/ NetTimeout \/ NetError
    PROVE  Good'
  <1>. USE DEF Good
  <1>0. buf \in Seq(Tokens) /\ down \in Seq(Tokens) /\ state \in States
    BY DEF TypeOK, Tokens
  <1>1. UNCHANGED <<srv, cpc, job, q, bulk_query, bcp, up, out_flag>>
    BY DEF tds_process_tokens, StopAt, Enter, NetRead, NetTimeout, NetError, histVars, workerVars,
           wireVars, sessionVars
  <1>2. Way' = Way
    <2>1. CASE NetRead
      <3>1. PICK n \in 1 .. Len(down) : /\ buf' = SubSeq(down, 1, n)
                                        /\ down' = SubSeq(down, n + 1, Len(down))
        BY <2>1 DEF NetRead
      <3>2. buf = <<>>
        BY <2>1 DEF NetRead, Places
      <3>. QED  BY <1>0, <3>1, <3>2, WaySplit DEF Way
    <2>2. CASE ~NetRead
      BY <2>2 DEF tds_process_tokens, StopAt, Enter, NetTimeout, NetError, wireVars, Way
    <2>. QED  BY <2>1, <2>2
  <1>3. OfThisQuery'
    BY <1>1, <1>2 DEF OfThisQuery
  <1>4. (RequestSent' <=> RequestSent) /\ (Answering' <=> Answering) /\ (Answered' <=> Answered)
        /\ (CancelSent' <=> CancelSent) /\ (CancelAnswered' <=> CancelAnswered)
    BY <1>1, <1>2 DEF RequestSent, Answering, Answered, CancelSent, CancelAnswered
  <1>5. CASE tds_process_tokens
    <2>1. state = "PENDING" /\ state' = "READING" /\ pc = "app" /\ pc' = "read"
          /\ UNCHANGED <<in_cancel, wakeup, buf>>
      BY <1>5 DEF tds_process_tokens, Calls, ToReading, wireVars
    <2>2. Places'
      BY <1>1, <2>1 DEF Places
    <2>. QED  BY <1>1, <1>3, <1>4, <2>1, <2>2 DEF Quiet, Waiting
  <1>6. CASE StopAt
    <2>1. state = "READING" /\ state' = "PENDING" /\ pc = "read" /\ pc' = "app"
          /\ UNCHANGED <<in_cancel, wakeup, buf>>
      BY <1>6 DEF StopAt, Places, ToPending, To, wireVars
    <2>2. Places'
      BY <1>1, <2>1 DEF Places
    <2>. QED  BY <1>1, <1>3, <1>4, <2>1, <2>2 DEF Quiet, Waiting
  <1>7. CASE Enter \/ NetRead
    <2>1. state = "READING" /\ UNCHANGED <<state, in_cancel, wakeup>>
          /\ (Enter => pc = "read" /\ pc' = "net" /\ buf' = <<>>)
          /\ (NetRead => pc' = "read" /\ ~wakeup)
      BY <1>7 DEF Enter, NetRead, Places, sessionVars, wireVars
    <2>2. Places'
      BY <1>1, <1>7, <2>1 DEF Places
    <2>. QED  BY <1>1, <1>3, <1>4, <2>1, <2>2 DEF Quiet, Waiting
  <1>8. CASE NetTimeout
    <2>1. state = "READING" /\ pc = "net" /\ in_cancel = 0 /\ in_cancel' = 1 /\ wakeup'
          /\ UNCHANGED <<state, pc, buf>>
      BY <1>8 DEF NetTimeout, Places, tds_wakeup_send, workerVars
    <2>2. Places'
      BY <1>1, <2>1 DEF Places
    <2>. QED  BY <1>1, <1>3, <1>4, <2>1, <2>2 DEF Quiet, Waiting
  <1>9. CASE NetError
    <2>1. state' = "DEAD" /\ pc = "net" /\ pc' = "app" /\ UNCHANGED <<in_cancel, wakeup, buf>>
      BY <1>9 DEF NetError, To, wireVars
    <2>2. Places'
      BY <1>1, <2>1 DEF Places
    <2>. QED  BY <1>3, <2>1, <2>2 DEF Quiet, Waiting
  <1>. QED  BY <1>5, <1>6, <1>7, <1>8, <1>9

(* A token is taken from what the server answered.                         *)
LEMMA TokenTaken ==
    ASSUME TypeOK, buf # <<>>, buf' = Tail(buf), UNCHANGED <<down, up, srv, job>>
    PROVE  /\ ~RequestSent
           /\ Answering => Answering' /\ Head(buf).kind \in {"row", "more"}
           /\ Answered => \/ Answered' /\ Head(buf).kind \in {"row", "more"}
                          \/ Way' = <<>> /\ LastKind(Way) = Head(buf).kind
           /\ CancelSent => CancelSent' /\ Head(buf).kind # "cancelled"
           /\ CancelAnswered => \/ CancelAnswered' /\ Head(buf).kind # "cancelled"
                                \/ Way' = <<>> /\ Head(buf).kind = "cancelled"
           /\ OfQuery(q, Way) => OfQuery(q, Way')
  <1>1. Way \in Seq(Tokens) /\ Way # <<>> /\ Way' = Tail(Way) /\ Head(Way) = Head(buf)
    <2>1. buf \in Seq(Tokens) /\ down \in Seq(Tokens)
      BY DEF TypeOK, Tokens
    <2>2. /\ buf \o down \in Seq(Tokens) /\ buf \o down # <<>>
          /\ Tail(buf) \o down = Tail(buf \o down) /\ Head(buf) = Head(buf \o down)
      BY <2>1, WaySplit
    <2>. QED  BY <2>2, Zenon DEF Way
  <1>2. OfQuery(q, Way) => OfQuery(q, Way')
    BY <1>1, QueryTail
  <1>3. ~RequestSent
    BY <1>1 DEF RequestSent
  <1>4. Answering => Answering' /\ Head(buf).kind \in {"row", "more"}
    <2>1. Only({"row", "more"}, Way) => Only({"row", "more"}, Way')
                                        /\ Head(buf).kind \in {"row", "more"}
      BY <1>1, QueueTail
    <2>. QED  BY <2>1 DEF Answering
  <1>5. Answered => \/ Answered' /\ Head(buf).kind \in {"row", "more"}
                    \/ Way' = <<>> /\ LastKind(Way) = Head(buf).kind
    <2>1. /\ AllButLast({"row", "more"}, Way) =>
                /\ AllButLast({"row", "more"}, Way')
                /\ Way' # <<>> => Head(buf).kind \in {"row", "more"}
          /\ IF Way' = <<>> THEN LastKind(Way) = Head(buf).kind ELSE LastKind(Way') = LastKind(Way)
      BY <1>1, QueueTail
    <2>. QED  BY <2>1 DEF Answered
  <1>. DEFINE Others == Kinds \ {"cancelled"}
  <1>6. CancelSent => CancelSent' /\ Head(buf).kind # "cancelled"
    <2>1. Only(Others, Way) => Only(Others, Way') /\ Head(buf).kind \in Others
      BY <1>1, QueueTail
    <2>. QED  BY <2>1 DEF CancelSent
  <1>7. CancelAnswered => \/ CancelAnswered' /\ Head(buf).kind # "cancelled"
                          \/ Way' = <<>> /\ Head(buf).kind = "cancelled"
    <2>1. /\ AllButLast(Others, Way) =>
                /\ AllButLast(Others, Way')
                /\ Way' # <<>> => Head(buf).kind \in Others
          /\ IF Way' = <<>> THEN LastKind(Way) = Head(buf).kind ELSE LastKind(Way') = LastKind(Way)
      BY <1>1, QueueTail
    <2>. QED  BY <2>1 DEF CancelAnswered
  <1>. QED  BY <1>2, <1>3, <1>4, <1>5, <1>6, <1>7

(* The token loop takes a token, or finds the end of the answer.           *)
LEMMA TokensStayInStep ==
    ASSUME TypeOK, Good, app = "plain", Token \/ Done \/ tds_process_end
    PROVE  Good'
  <1>. USE DEF Good
  <1>1. UNCHANGED <<srv, cpc, job, q, wakeup, up, down>>
    BY DEF Token, Done, tds_process_end, histVars
  <1>2. buf # <<>> /\ state = "READING" /\ ~wakeup /\ pc \in {"read", "ending"}
    BY DEF Token, Done, tds_process_end, Places
  <1>3. CASE buf' = buf
    <2>1. Done /\ Ends(Head(buf)) /\ pc' = "ending" /\ UNCHANGED <<bulk_query, bcp, in_cancel, state>>
          /\ Head(buf).kind \in {"done", "error", "cancelled"}
      <3>1. buf' # Tail(buf)
        <4>1. buf \in Seq(Tokens)
          BY DEF TypeOK, Tokens
        <4>2. Len(Tail(buf)) # Len(buf)
          BY <1>2, <4>1
        <4>. QED  BY <1>3, <4>2
      <3>. QED  BY <3>1 DEF Token, Done, tds_process_end, sessionVars
    <2>2. Places'
      BY <1>1, <1>2, <1>3, <2>1 DEF Places, Ends
    <2>3. Way' = Way
      BY <1>1, <1>3 DEF Way
    <2>4. (RequestSent' <=> RequestSent) /\ (Answering' <=> Answering) /\ (Answered' <=> Answered)
          /\ (CancelSent' <=> CancelSent) /\ (CancelAnswered' <=> CancelAnswered)
      BY <1>1, <2>3 DEF RequestSent, Answering, Answered, CancelSent, CancelAnswered
    <2>5. Waiting' /\ Quiet'
      BY <1>1, <1>2, <2>1, <2>4 DEF Waiting, Quiet
    <2>6. OfThisQuery'
      BY <1>1, <2>3 DEF OfThisQuery
    <2>. QED  BY <2>2, <2>5, <2>6
  <1>4. CASE buf' = Tail(buf)
    <2>. DEFINE k == Head(buf).kind
    <2>1. OfThisQuery'
      BY <1>1, <1>2, <1>4, TokenTaken DEF OfThisQuery
    <2>2. CASE Token \/ (Done /\ pc' # "ending")
      <3>1. /\ k \in {"row", "more"} \/ (in_cancel # 0 /\ k \in {"done", "error"})
            /\ UNCHANGED <<in_cancel, bulk_query, bcp, out_flag>>
            /\ \/ state' = "READING" /\ pc' = "read"
               \/ state' = "PENDING" /\ pc' = "app"
        BY <1>2, <2>2 DEF Token, Done, Ends, Places, ToPending, To, sessionVars
      <3>2. Places'
        BY <1>1, <1>2, <3>1 DEF Places
      <3>3. IF in_cancel = 0 THEN Answering' \/ Answered' ELSE CancelSent' \/ CancelAnswered'
        <4>1. CASE in_cancel = 0
          <5>1. Answering \/ Answered
            BY <1>1, <1>2, <1>4, <4>1, TokenTaken DEF Waiting
          <5>2. CASE Answering
            BY <1>1, <1>2, <1>4, <4>1, <5>2, TokenTaken
          <5>3. CASE Answered
            <6>1. LastKind(Way) # k
              BY <3>1, <4>1, <5>3 DEF Answered
            <6>. QED  BY <1>1, <1>2, <1>4, <4>1, <5>3, <6>1, TokenTaken
          <5>. QED  BY <5>1, <5>2, <5>3
        <4>2. CASE in_cancel # 0
          <5>1. CancelSent \/ CancelAnswered
            BY <1>2, <4>2 DEF Waiting
          <5>2. k # "cancelled"
            BY <3>1
          <5>. QED  BY <1>1, <1>2, <1>4, <4>2, <5>1, <5>2, TokenTaken
        <4>. QED  BY <4>1, <4>2
      <3>4. Waiting' /\ Quiet'
        BY <1>1, <1>2, <3>1, <3>3 DEF Waiting, Quiet
      <3>. QED  BY <2>1, <3>2, <3>4
    <2>3. CASE tds_process_end
      <3>1. /\ in_cancel' = 0 /\ ~bulk_query' /\ pc' = "app"
            /\ state' = (IF bulk_query THEN "SENDING" ELSE "IDLE")
            /\ bcp' <=> bulk_query /\ k = "done"
            /\ k \in {"done", "error", "cancelled"} /\ (k = "cancelled" \/ in_cancel = 0)
        BY <1>2, <2>3 DEF tds_process_end, To, Places
      <3>2. /\ Way' = <<>> /\ up = <<>>
            /\ srv.mode = (IF job = "insertbulk" /\ k = "done" THEN "bulk" ELSE "idle")
        <4>1. CASE in_cancel = 0
          <5>1. k \notin {"row", "more"} /\ (Answering \/ Answered)
            BY <1>1, <1>2, <1>4, <3>1, <4>1, TokenTaken DEF Waiting
          <5>2. Answered /\ Way' = <<>> /\ LastKind(Way) = k
            BY <1>1, <1>2, <1>4, <5>1, TokenTaken
          <5>. QED  BY <5>2 DEF Answered
        <4>2. CASE in_cancel # 0
          <5>1. k = "cancelled" /\ (CancelSent \/ CancelAnswered)
            BY <1>2, <3>1, <4>2 DEF Waiting
          <5>2. CancelAnswered /\ Way' = <<>>
            BY <1>1, <1>2, <1>4, <5>1, TokenTaken
          <5>. QED  BY <5>1, <5>2 DEF CancelAnswered
        <4>. QED  BY <4>1, <4>2
      <3>3. bulk_query <=> job = "insertbulk"
        BY <1>2 DEF Waiting
      <3>4. Places'
        BY <1>1, <1>2, <3>1 DEF Places
      <3>5. Quiet' /\ Waiting'
        BY <1>1, <3>1, <3>2, <3>3, QueueEmpty DEF Quiet, Waiting
      <3>. QED  BY <2>1, <3>4, <3>5
    <2>4. pc' = "ending" => ~Done
      <3>1. CASE Done /\ pc' = "ending"
        <4>1. buf' = buf
          BY <1>2, <3>1 DEF Done
        <4>2. buf \in Seq(Tokens)
          BY DEF TypeOK, Tokens
        <4>3. Len(Tail(buf)) # Len(buf)
          BY <1>2, <4>2
        <4>. QED  BY <1>4, <4>1, <4>3
      <3>. QED  BY <3>1
    <2>. QED  BY <2>2, <2>3, <2>4
  <1>5. buf' = buf \/ buf' = Tail(buf)
    BY DEF Token, Done, tds_process_end
  <1>. QED  BY <1>3, <1>4, <1>5

(* The server adds to the way the tokens take.                             *)
LEMMA AnswerOnTheWay ==
    ASSUME TypeOK, NEW k \in Kinds, NEW n \in 0 .. MaxQueries, Answer(k, n), buf' = buf, NEW K
    PROVE  /\ Way' # <<>> /\ LastKind(Way') = k
           /\ Only(K, Way) => AllButLast(K, Way') /\ (k \in K => Only(K, Way'))
           /\ n = q /\ OfQuery(q, Way) => OfQuery(q, Way')
  <1>1. buf \in Seq(Tokens) /\ down \in Seq(Tokens) /\ [kind |-> k, q |-> n] \in Tokens
    BY ItemTypes DEF TypeOK, Tokens
  <1>2. PICK x \in Tokens : down' = Append(down, x) /\ x.kind = k /\ x.q = n
    BY <1>1 DEF Answer
  <1>3. Way' = Append(Way, x) /\ Way \in Seq(Tokens)
    BY <1>1, <1>2, WaySplit DEF Way
  <1>4. Way' # <<>> /\ LastKind(Way') = k
        /\ (AllButLast(K, Way') <=> Only(K, Way))
        /\ (Only(K, Way') <=> Only(K, Way) /\ k \in K)
    BY <1>2, <1>3, QueueAppend
  <1>5. OfQuery(q, Way') <=> OfQuery(q, Way) /\ n = q
    BY <1>2, <1>3, QueryAppend
  <1>. QED  BY <1>4, <1>5

(* The server reads a packet.                                              *)
LEMMA ServerReadsInStep ==
    ASSUME TypeOK, Good, app = "plain", ServerReads
    PROVE  Good'
  <1>. USE DEF Good
  <1>0. up \in Seq(Packets) /\ up # <<>> /\ state \in States /\ job \in Jobs /\ state # "DEAD"
    BY DEF TypeOK, Packets, ServerReads
  <1>1. UNCHANGED <<state, in_cancel, out_flag, bulk_query, pc, job, bcp, cpc, wakeup, buf, q>>
        /\ up' = Tail(up)
    BY DEF ServerReads, SrvUnchanged, sessionVars, workerVars, histVars
  <1>. DEFINE p == Head(up)
  <1>2. OfQuery(q, up') /\ p.q = q
    BY <1>0, <1>1, QueryTail DEF OfThisQuery
  <1>3. p \in Packets /\ q \in 0 .. MaxQueries
    <2>1. Head(up) \in Packets
      BY <1>0, QueueTail
    <2>. QED  BY <2>1 DEF TypeOK
  <1>4. /\ p.kind = "cancel" => srv' = Doing("idle", p) /\ Answer("cancelled", q)
        /\ p.kind \in {"query", "insertbulk"} =>
              \/ srv.mode = "idle" /\ srv' = Doing("busy", p) /\ down' = down
              \/ srv.mode = "bulk" /\ srv' = Doing("idle", p) /\ Answer("error", q)
        /\ p.kind = "row" => srv.mode \in {"idle", "bulk"} /\ UNCHANGED <<srv, down>>
        /\ p.kind = "end" =>
              \/ srv.mode = "bulk" /\ srv' = Doing("busy", p) /\ down' = down
              \/ srv.mode = "idle" /\ srv' = srv /\ Answer("error", q)
    BY <1>2 DEF ServerReads
  <1>5. p.kind \in Jobs \cup {"cancel"}
    BY <1>3 DEF Packets, Items
  <1>6. /\ srv'.mode = "busy" => srv'.q = q
        /\ down' = down \/ Answer("cancelled", q) \/ Answer("error", q)
    BY <1>2, <1>4, <1>5 DEF Doing, OfThisQuery, Jobs
  <1>7. OfQuery(q, Way')
    <2>1. CASE down' = down
      BY <1>1, <2>1 DEF Way, OfThisQuery
    <2>2. CASE Answer("cancelled", q) \/ Answer("error", q)
      <3>1. PICK k \in Kinds : Answer(k, q)
        BY <2>2 DEF Kinds
      <3>. QED  BY <1>1, <1>3, <3>1, AnswerOnTheWay DEF OfThisQuery
    <2>. QED  BY <1>6, <2>1, <2>2
  <1>8. OfThisQuery'
    BY <1>1, <1>2, <1>6, <1>7 DEF OfThisQuery
  <1>9. Places'
    BY <1>1 DEF Places
  <1>10. CASE state \in {"IDLE", "SENDING", "WRITING"}
    <2>1. bcp /\ Only({"row"}, up)
      BY <1>0, <1>10 DEF Quiet
    <2>2. p.kind = "row" /\ Only({"row"}, up')
      <3>1. PICK K : K = {"row"}
        OBVIOUS
      <3>2. Only(K, up) => Only(K, up') /\ p.kind \in K
        BY <1>0, <1>1, QueueTail
      <3>. QED  BY <2>1, <3>1, <3>2
    <2>3. UNCHANGED <<srv, down>> /\ Way' = Way
      BY <1>1, <1>4, <2>2 DEF Way
    <2>4. Quiet'
      BY <1>1, <1>10, <2>1, <2>2, <2>3 DEF Quiet
    <2>. QED  BY <1>1, <1>8, <1>9, <1>10, <2>4 DEF Waiting
  <1>11. CASE state \in {"PENDING", "READING"}
    <2>1. Quiet'
      BY <1>1, <1>11 DEF Quiet
    <2>2. ASSUME RequestSent
          PROVE  RequestSent' \/ Answering'
      <3>1. CASE up' = <<>>
        <4>1. p.kind = job
          BY <1>0, <1>1, <2>2, <3>1, QueueTail DEF RequestSent
        <4>2. job # "row"
          BY <1>11 DEF Waiting
        <4>3. srv' = Doing("busy", p) /\ down' = down
          BY <1>0, <1>4, <2>2, <4>1, <4>2 DEF RequestSent, Jobs
        <4>4. Way' = <<>>
          BY <1>1, <2>2, <4>3 DEF Way, RequestSent
        <4>. QED  BY <1>1, <3>1, <4>1, <4>3, <4>4, QueueEmpty DEF Answering, Doing
      <3>2. CASE up' # <<>>
        <4>1. p.kind = "row" /\ LastKind(up') = LastKind(up) /\ AllButLast({"row"}, up')
          BY <1>0, <1>1, <2>2, <3>2, QueueTail DEF RequestSent
        <4>2. UNCHANGED <<srv, down>> /\ Way' = Way
          BY <1>1, <1>4, <4>1 DEF Way
        <4>. QED  BY <1>1, <2>2, <3>2, <4>1, <4>2 DEF RequestSent
      <3>. QED  BY <3>1, <3>2
    <2>3. ASSUME CancelSent
          PROVE  CancelSent' \/ CancelAnswered'
      <3>. DEFINE Others == Kinds \ {"cancelled"}
      <3>1. CASE up' = <<>>
        <4>1. p.kind = "cancel"
          BY <1>0, <1>1, <2>3, <3>1, QueueTail DEF CancelSent
        <4>2. srv'.mode = "idle" /\ Answer("cancelled", q)
          BY <1>4, <4>1 DEF Doing
        <4>3. Way' # <<>> /\ LastKind(Way') = "cancelled"
              /\ (Only(Others, Way) => AllButLast(Others, Way'))
          BY <1>1, <1>3, <4>2, AnswerOnTheWay DEF Kinds
        <4>. QED  BY <2>3, <3>1, <4>2, <4>3 DEF CancelSent, CancelAnswered
      <3>2. CASE up' # <<>>
        <4>1. p.kind \in Jobs /\ LastKind(up') = LastKind(up) /\ AllButLast(Jobs, up')
          BY <1>0, <1>1, <2>3, <3>2, QueueTail DEF CancelSent
        <4>2. down' = down \/ Answer("error", q)
          BY <1>4, <4>1 DEF Jobs
        <4>3. Only(Others, Way')
          <5>1. CASE down' = down
            BY <1>1, <2>3, <5>1 DEF Way, CancelSent
          <5>2. CASE Answer("error", q)
            <6>1. "error" \in Kinds /\ "error" \in Others
              BY DEF Kinds
            <6>. QED  BY <1>1, <1>3, <2>3, <5>2, <6>1, AnswerOnTheWay DEF CancelSent
          <5>. QED  BY <4>2, <5>1, <5>2
        <4>. QED  BY <1>1, <2>3, <3>2, <4>1, <4>3 DEF CancelSent
      <3>. QED  BY <3>1, <3>2
    <2>4. IF in_cancel = 0 \/ wakeup THEN RequestSent ELSE CancelSent
      BY <1>0, <1>11 DEF Waiting, Answering, Answered, CancelAnswered
    <2>5. Waiting'
      BY <1>1, <1>11, <2>2, <2>3, <2>4 DEF Waiting
    <2>. QED  BY <1>8, <1>9, <2>1, <2>5
  <1>. QED  BY <1>0, <1>10, <1>11 DEF States

(* The server answers.                                                     *)
LEMMA ServerAnswersInStep ==
    ASSUME TypeOK, Good, app = "plain", ServerAnswers
    PROVE  Good'
  <1>. USE DEF Good
  <1>1. UNCHANGED <<state, in_cancel, out_flag, bulk_query, pc, job, bcp, cpc, wakeup, buf, q, up>>
    BY DEF ServerAnswers, SrvUnchanged, sessionVars, workerVars, histVars
  <1>2. srv.mode = "busy" /\ srv.q = q /\ state # "DEAD" /\ state \in States
        /\ q \in 0 .. MaxQueries /\ srv.job = srv'.job /\ srv'.q = q
    BY DEF ServerAnswers, OfThisQuery, TypeOK
  <1>3. state \in {"PENDING", "READING"} /\ (IF in_cancel = 0 \/ wakeup THEN Answering ELSE CancelSent)
    BY <1>2 DEF States, Quiet, Waiting, RequestSent, Answered, CancelAnswered
  <1>4. PICK k \in {"row", "more", "done", "error"} :
            /\ Answer(k, q)
            /\ srv'.mode = (IF k \in {"row", "more"} THEN "busy"
                            ELSE IF k = "done" /\ srv.job = "insertbulk" THEN "bulk" ELSE "idle")
    BY <1>2 DEF ServerAnswers, TypeOK
  <1>5. k \in Kinds /\ k \in Kinds \ {"cancelled"}
    BY DEF Kinds
  <1>6. OfThisQuery'
    BY <1>1, <1>2, <1>4, <1>5, AnswerOnTheWay DEF OfThisQuery
  <1>7. ASSUME Answering
        PROVE  Answering' \/ Answered'
    <2>1. Way' # <<>> /\ LastKind(Way') = k /\ AllButLast({"row", "more"}, Way')
          /\ (k \in {"row", "more"} => Only({"row", "more"}, Way'))
      BY <1>1, <1>2, <1>4, <1>5, <1>7, AnswerOnTheWay DEF Answering
    <2>. QED  BY <1>1, <1>2, <1>4, <1>7, <2>1 DEF Answering, Answered
  <1>8. ASSUME CancelSent
        PROVE  CancelSent'
    <2>1. Only(Kinds \ {"cancelled"}, Way')
      BY <1>1, <1>2, <1>4, <1>5, <1>8, AnswerOnTheWay DEF CancelSent
    <2>. QED  BY <1>1, <1>8, <2>1 DEF CancelSent
  <1>9. Waiting' /\ Quiet'
    BY <1>1, <1>3, <1>7, <1>8 DEF Waiting, Quiet
  <1>10. Places'
    BY <1>1 DEF Places
  <1>. QED  BY <1>6, <1>9, <1>10

(* Every step of a session with one thread, until it is dead.              *)
LEMMA StepInStep ==
    ASSUME TypeOK, TypeOK', Plain, [Next]_vars
    PROVE  Plain'
  <1>. SUFFICES ASSUME app' = "plain"
                PROVE  Places' /\ Quiet' /\ Waiting' /\ OfThisQuery' /\ OneCancel'
    BY DEF Plain
  <1>0. app = "plain"
    BY DEF Next, Worker, Canceller, Submit, Bulk, tds_process_tokens, SendCancel, Flush, Abandon,
       StopAt, Token, Done, tds_process_end, Enter, NetWakeup, NetRead, NetTimeout, NetError,
       CancelTest, CancelSet, CancelSignal, CancelDirect, CancelFlush, CancelUnchanged,
       ServerReads, ServerAnswers, SrvUnchanged, vars
  <1>1. Good /\ OneCancel /\ cpc = "out"
    BY <1>0 DEF Plain, Good, Places
  <1>2. q \in 0 .. MaxQueries
    BY DEF TypeOK
  <1>3. CASE UNCHANGED vars
    <2>1. Way' = Way /\ UNCHANGED vars
      BY <1>3 DEF Way, vars
    <2>2. (RequestSent' <=> RequestSent) /\ (Answering' <=> Answering) /\ (Answered' <=> Answered)
          /\ (CancelSent' <=> CancelSent) /\ (CancelAnswered' <=> CancelAnswered)
      BY <2>1 DEF RequestSent, Answering, Answered, CancelSent, CancelAnswered, vars
    <2>3. Places' /\ Quiet'
      BY <1>1, <2>1 DEF Good, Places, Quiet, vars
    <2>4. Waiting'
      BY <1>1, <2>1, <2>2 DEF Good, Waiting, vars
    <2>5. OfThisQuery'
      BY <1>1, <2>1 DEF Good, OfThisQuery, vars
    <2>6. OneCancel'
      BY <1>1, <2>1 DEF OneCancel, Unanswered, Pipe, vars
    <2>. QED  BY <2>3, <2>4, <2>5, <2>6
  <1>4. CASE Next
    <2>1. ~CancelTest /\ ~Canceller
      BY <1>0, <1>1 DEF CancelTest, Canceller, CancelSet, CancelSignal, CancelDirect, CancelFlush
    <2>2. Good'
      BY <1>0, <1>1, <1>2, <1>4, <2>1, RequestsStayInStep, CancelsStayInStep, ReadsStayInStep,
         TokensStayInStep, ServerReadsInStep, ServerAnswersInStep DEF Next, Worker
    <2>3. OneCancel'
      <3>1. CASE state' # "DEAD"
        BY <2>2, <3>1, OneCancelNext DEF Good
      <3>2. CASE state' = "DEAD"
        <4>1. buf' = buf /\ down' = down /\ up' = up
          <5>1. IF state = "DEAD" THEN pc = "app" ELSE
                (pc = "write" <=> state = "WRITING") /\ (pc = "read" => state = "READING")
            BY <1>1 DEF Good, Places, TypeOK
          <5>2. SendCancel \/ Flush \/ NetError
            BY <1>4, <2>1, <3>2, <5>1 DEF Next, Worker, Submit, Bulk, tds_process_tokens,
               Abandon, StopAt, Token, Done, tds_process_end, Enter, NetWakeup, NetRead,
               NetTimeout, ServerReads, ServerAnswers, SrvUnchanged, sessionVars,
               To, ToPending, ToWriting, ToReading
          <5>. QED  BY <3>2, <5>1, <5>2 DEF SendCancel, Flush, NetError, To, ToPending, Calls,
                 wireVars
        <4>. QED  BY <1>1, <4>1 DEF OneCancel, Unanswered, Pipe, Way
      <3>. QED  BY <3>1, <3>2
    <2>. QED  BY <2>2, <2>3 DEF Good
  <1>. QED  BY <1>3, <1>4

(* What it shows of a session that is idle, or sends bulk data.            *)
LEMMA InStepShown ==
    ASSUME TypeOK, Plain
    PROVE  StaysInStep
  <1>. SUFFICES ASSUME app = "plain"
                PROVE  /\ state \in {"IDLE", "SENDING"} =>
                           /\ Way = <<>> /\ in_cancel = 0 /\ Unanswered = {}
                           /\ bcp => Only({"row"}, up)
                           /\ ~bcp => up = <<>> /\ srv.mode = "idle"
                       /\ \A i \in DOMAIN Way : Way[i].q = q
                       /\ \A i, j \in Unanswered : i = j
    BY DEF StaysInStep
  <1>1. Quiet /\ OfThisQuery /\ OneCancel
    BY DEF Plain
  <1>2. ASSUME state \in {"IDLE", "SENDING"}
        PROVE  Unanswered = {}
    <2>1. Way \in Seq(Tokens) /\ up \in Seq(Packets)
      <3>1. buf \in Seq(Tokens) /\ down \in Seq(Tokens) /\ up \in Seq(Packets)
        BY DEF TypeOK, Tokens, Packets
      <3>. QED  BY <3>1, WaySplit DEF Way
    <2>2. Only({"row"}, up) => Only(Jobs, up)
      BY DEF Only, Jobs
    <2>3. Only(Kinds \ {"cancelled"}, Way) /\ Only(Jobs, up)
      BY <1>1, <1>2, <2>2, QueueEmpty DEF Quiet
    <2>4. CancelPlaces(Way, up) = {}
      BY <2>1, <2>3, CancelCount
    <2>. QED  BY <2>4 DEF Unanswered, Pipe, CancelPlaces
  <1>. QED  BY <1>1, <1>2 DEF Quiet, OfThisQuery, OfQuery, OneCancel

(* tds_process_end(), tds_send_cancel() and tds_bcp_start(): a session     *)
(* that one thread uses, and whose bulk data is not cancelled, is in step  *)
(* with its server whenever it is idle or sends bulk data, whether a       *)
(* cancel overtakes the answer or crosses its end, and after a timeout.    *)
THEOREM InStepWithServer == Spec => []StaysInStep
  <1>1. Init => Plain
    <2>. SUFFICES ASSUME Init
                  PROVE  Plain
      OBVIOUS
    <2>1. Way = <<>> /\ up = <<>> /\ state = "IDLE" /\ pc = "app" /\ cpc = "out" /\ ~wakeup
          /\ ~bcp /\ ~bulk_query /\ in_cancel = 0 /\ srv.mode = "idle"
      BY DEF Init, Way
    <2>2. Unanswered = {}
      BY <2>1 DEF Unanswered, Pipe
    <2>. QED  BY <2>1, <2>2, QueueEmpty DEF Plain, Places, Quiet, Waiting, OfThisQuery, OneCancel
  <1>2. TypeOK /\ TypeOK' /\ Plain /\ [Next]_vars => Plain'
    BY StepInStep
  <1>3. TypeOK /\ Plain => StaysInStep
    BY InStepShown
  <1>. QED  BY <1>1, <1>2, <1>3, TypesAndBuf, PTL DEF Spec
=============================================================================
