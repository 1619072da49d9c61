------------------------------ MODULE MarsNet ------------------------------
(***************************************************************************)
(* The network side of a MARS connection (src/tds/packet.c, with           *)
(* tds_select() and tds_close_socket() of net.c): several sessions, each   *)
(* used by a thread of its own, share one socket.  Whichever thread needs  *)
(* the network while nobody is in it becomes the network thread            *)
(* (in_net_tds) and moves the packets of every session; the others wait on *)
(* their packet_cond.  Per session the SMP protocol numbers the packets of *)
(* both directions and limits them by a window.                            *)
(*                                                                         *)
(* A packet is its SMP header: session, type, seq and wnd.  Sequence       *)
(* numbers are unsigned and wrap at SeqMod (2^32 in the code, whose        *)
(* differences are taken as int32_t).  What the server does is external:   *)
(* it reads a packet when it is written, numbers its own, and keeps to the *)
(* window it was given.  A session's thread writes a request of any number *)
(* of packets, then reads the answer of any number of packets, and again.  *)
(***************************************************************************)
EXTENDS Integers, Sequences, FiniteSets

CONSTANTS
    Sessions,       \* the open sessions, by sid
    NULL,
    SeqMod,         \* sequence numbers are modulo this
    Wnd,            \* the receive window granted, 4 in the code
    AckAt,          \* an ACK is due when this many packets may still come, 2 in the code
    Timeouts,       \* TRUE: query_timeout is set, so that waits end
    GiveUps,        \* TRUE: an error handler may give up when a wait times out
    Losses,         \* TRUE: the connection can be lost
    FirstSeq,       \* packets the sessions have exchanged before, either way
    MaxAsked,       \* bound: session -> packets it sends
    MaxAnswered     \* bound: session -> packets it is sent

ASSUME SessionsAssumption == IsFiniteSet(Sessions) /\ NULL \notin Sessions
ASSUME WindowAssumption ==
    /\ SeqMod \in Nat /\ Wnd \in Nat \ {0} /\ AckAt \in 1 .. Wnd
    /\ 2 * Wnd <= SeqMod /\ SeqMod % 2 = 0 /\ FirstSeq \in 0 .. SeqMod - 1
    /\ MaxAsked \in [Sessions -> 0 .. SeqMod - 1]
    /\ MaxAnswered \in [Sessions -> 0 .. SeqMod - 1]
ASSUME FlagsAssumption == {Timeouts, GiveUps, Losses} \subseteq BOOLEAN

VARIABLES
    \* TDSCONNECTION
    in_net,                 \* in_net_tds
    mtx,                    \* the thread that keeps list_mtx from one step to the next
    send_packets, packets,  \* packets to write, packets received
    slot,                   \* sessions[sid]: "open", "busy" (BUSY_SOCKET), "null"
    closed,                 \* conn->s is INVALID_SOCKET
    wakeup,                 \* the eventfd is readable
    header,                 \* recv_packet: the header of a DATA packet has been read
    \* TDSSOCKET
    dead,                   \* state is TDS_DEAD
    send_seq, send_wnd, recv_seq, recv_wnd,
    sending,                \* sending_packet is not NULL
    \* the threads
    pc, held,               \* where it is; `packet' of tds_connection_put_packet()
    asking,                 \* the request of the session is not complete
    polled, forSend,        \* the network thread: what it polls for; its `send'
    consumed,               \* history: seq of the last packet the session took
    \* the server and the two directions of the socket
    inbox,                  \* packets the server wrote, not yet read
    seen, grant,            \* per session: last seq read, window granted to us
    srv_seq, srv_wnd,       \* per session: last seq sent, window granted by us
    srv_open                \* per session: "open", "answer" (it has a request),
                            \* "fin" (it has a FIN), "gone"

connVars == <<slot, closed, dead>>
seqVars == <<send_seq, send_wnd, recv_seq, recv_wnd>>
srvVars == <<inbox, seen, grant, srv_seq, srv_wnd, srv_open>>
userVars == <<consumed, asking>>
netVars == <<in_net, polled, forSend, header>>
vars == <<in_net, mtx, send_packets, packets, slot, closed, wakeup, header, dead,
          send_seq, send_wnd, recv_seq, recv_wnd, sending, pc, held, asking, polled, forSend,
          consumed, inbox, seen, grant, srv_seq, srv_wnd, srv_open>>

Seqs == 0 .. SeqMod - 1
Packet(s, type, seq, wnd, last) ==
    [sid |-> s, type |-> type, seq |-> seq, wnd |-> wnd, last |-> last]
Packets == [sid : Sessions, type : {"DATA", "ACK", "FIN"}, seq : Seqs, wnd : Seqs,
            last : BOOLEAN]
DataOf(s, queue) == {i \in DOMAIN queue : queue[i].sid = s /\ queue[i].type = "DATA"}
Elems(queue) == {queue[i] : i \in DOMAIN queue}

(* TDS_UINT addition.  Mutant: a sequence number that does not wrap.       *)
Plus_unwrapped(a, n) == a + n
Plus(a, n) == (a + n) % SeqMod

(* (int32_t) (a - b) >= 0.                                                 *)
NotBefore(a, b) == (a - b) % SeqMod < SeqMod \div 2

Locks(s) == mtx \in {NULL, s}

(* What tds_select() is told to poll for, decided before it blocks.        *)
Events(queue) == IF queue = <<>> THEN "r" ELSE "rw"

----------------------------------------------------------------------------
(* tds_cond_signal() on the packet_cond of s; pcs are the threads so far.  *)
Signalled(pcs, s) ==
    [pcs EXCEPT ![s] = IF @ = "putwait" THEN "put" ELSE IF @ = "readwait" THEN "read" ELSE @]

(* Mutant: in_net_tds is not reset.                                        *)
Leave_kept(s, pcs) ==
    /\ in_net' = in_net /\ mtx' = s
    /\ pc' = [pcs EXCEPT ![s] = IF @ = "putnet" THEN "put" ELSE "read"]
    /\ UNCHANGED <<forSend, polled>>

(* Leaving: the end of tds_connection_network() takes list_mtx and returns *)
(* with it to the loop of tds_connection_put_packet() or tds_read_packet().*)
Leave(s, pcs) ==
    /\ in_net' = NULL /\ mtx' = s
    /\ pc' = [pcs EXCEPT ![s] = IF @ = "putnet" THEN "put" ELSE "read"]
    /\ UNCHANGED <<forSend, polled>>

(* tds_connection_close(): every session dies, nobody is told.             *)
tds_connection_close ==
    /\ closed' = TRUE
    /\ dead' = [s \in Sessions |-> dead[s] \/ slot[s] = "open"]
    /\ UNCHANGED slot

(* tds_close_socket(): a FIN, unless it is the last session.               *)
tds_close_socket(s) ==
    IF dead[s] THEN UNCHANGED <<slot, closed, dead, send_packets, recv_wnd>>
    ELSE IF \E t \in Sessions \ {s} : slot[t] = "open"
    THEN /\ send_packets' = Append(send_packets,
                                   Packet(s, "FIN", send_seq[s], Plus(recv_seq[s], Wnd), FALSE))
         /\ recv_wnd' = [recv_wnd EXCEPT ![s] = Plus(recv_seq[s], Wnd)]
         /\ slot' = [slot EXCEPT ![s] = "busy"]
         /\ dead' = [dead EXCEPT ![s] = TRUE]
         /\ UNCHANGED closed
    ELSE tds_connection_close /\ UNCHANGED <<send_packets, recv_wnd>>

----------------------------------------------------------------------------
(* tds_connection_put_packet().                                            *)

(* Mutant: <= for <.                                                       *)
MaySend_one_more(s) == NotBefore(send_wnd[s], send_seq[s])

(* The window lets the packet go.                                          *)
MaySend(s) == ~NotBefore(send_seq[s], send_wnd[s])

(* The packet gets its SMP header, which also grants the server a window.  *)
AppendData(s, has, final) ==
    IF has /\ MaySend(s)
    THEN /\ send_seq' = [send_seq EXCEPT ![s] = Plus(@, 1)]
         /\ recv_wnd' = [recv_wnd EXCEPT ![s] = Plus(recv_seq[s], Wnd)]
         /\ send_packets' = Append(send_packets,
                Packet(s, "DATA", Plus(send_seq[s], 1), Plus(recv_seq[s], Wnd), final))
         /\ held' = [held EXCEPT ![s] = FALSE]
         /\ UNCHANGED <<send_wnd, recv_seq>>
    ELSE /\ held' = [held EXCEPT ![s] = has]
         /\ UNCHANGED <<seqVars, send_packets>>

(* The thread becomes the network thread.                                  *)
Enter(s, where, send, queue) ==
    /\ in_net' = s /\ forSend' = send
    /\ polled' = Events(queue)
    /\ pc' = [pc EXCEPT ![s] = where]

tds_wakeup_send == wakeup' = TRUE
MayPut(s) == ~dead[s]

(* A round of the loop: the session is dead or the packet is sent, or else *)
(* the thread enters the network, or wakes the one in it and waits.        *)
PutReturns(s) ==
    /\ pc[s] = "put" /\ Locks(s) /\ (dead[s] \/ ~sending[s])
    /\ mtx' = NULL
    /\ sending' = [sending EXCEPT ![s] = FALSE]
    /\ held' = [held EXCEPT ![s] = FALSE]
    /\ pc' = [pc EXCEPT ![s] = "app"]
    /\ UNCHANGED <<netVars, send_packets, wakeup, seqVars, packets, connVars, userVars,
                   srvVars>>

PutRound(s, has, final) ==
    /\ Locks(s) /\ MayPut(s)
    /\ mtx' = NULL
    /\ AppendData(s, has, final)
    /\ \/ /\ in_net = NULL
          /\ Enter(s, "putnet", ~held'[s], send_packets')
          /\ UNCHANGED wakeup
       \/ /\ in_net # NULL
          /\ tds_wakeup_send
          /\ pc' = [pc EXCEPT ![s] = "putwait"]
          /\ UNCHANGED <<in_net, polled, forSend>>
    /\ UNCHANGED <<header, packets, connVars, consumed, srvVars>>

(* tds_write_packet() is called with a packet of the request, maybe its    *)
(* last one.                                                               *)
tds_write_packet(s) == \E final \in BOOLEAN :
    /\ pc[s] = "app" /\ asking[s]
    /\ (send_seq[s] - FirstSeq) % SeqMod < MaxAsked[s]
    /\ sending' = [sending EXCEPT ![s] = TRUE]
    /\ asking' = [asking EXCEPT ![s] = ~final]
    /\ PutRound(s, TRUE, final)

PutAgain(s) ==
    /\ pc[s] = "put" /\ sending[s]
    /\ PutRound(s, held[s], ~asking[s])
    /\ UNCHANGED <<sending, asking>>

----------------------------------------------------------------------------
(* tds_read_packet().                                                      *)

(* The packets received for s.                                             *)
Received(s) == {i \in DOMAIN packets : packets[i].sid = s}

(* Mutant: the newest of them is taken.                                    *)
First_newest(s) == CHOOSE i \in Received(s) : \A j \in Received(s) : j <= i

(* The first of them.                                                      *)
First(s) == CHOOSE i \in Received(s) : \A j \in Received(s) : i <= j

Without(i, queue) == SubSeq(queue, 1, i - 1) \o SubSeq(queue, i + 1, Len(queue))

tds_read_packet(s) ==
    /\ pc[s] = "read" \/ (pc[s] = "app" /\ ~asking[s] /\ ~dead[s])
    /\ Locks(s) /\ mtx' = NULL
    /\ \/ /\ dead[s]
          /\ pc' = [pc EXCEPT ![s] = "app"]
          /\ UNCHANGED <<netVars, packets, userVars>>
       \/ /\ ~dead[s] /\ Received(s) # {}
          /\ packets' = Without(First(s), packets)
          /\ consumed' = [consumed EXCEPT ![s] = packets[First(s)].seq]
          /\ asking' = [asking EXCEPT ![s] = packets[First(s)].last]
          /\ pc' = [pc EXCEPT ![s] = "ack"]
          /\ UNCHANGED netVars
       \/ /\ ~dead[s] /\ Received(s) = {} /\ in_net = NULL
          /\ Enter(s, "readnet", FALSE, send_packets)
          /\ UNCHANGED <<header, packets, userVars>>
       \/ /\ ~dead[s] /\ Received(s) = {} /\ in_net # NULL
          /\ pc' = [pc EXCEPT ![s] = "readwait"]
          /\ UNCHANGED <<netVars, packets, userVars>>
    /\ UNCHANGED <<send_packets, connVars, wakeup, seqVars, sending, held, srvVars>>

(* The window an ACK grants.                                               *)
AckWindow(s) == Plus(recv_seq[s], Wnd)

(* The rest of tds_read_packet(), after list_mtx was released: an ACK if   *)
(* the window is about to close.  The network thread is not woken for it.  *)
AckDue(s) == NotBefore(Plus(recv_seq[s], AckAt), recv_wnd[s])

tds_update_recv_wnd(s) ==
    /\ pc[s] = "ack" /\ Locks(s)
    /\ pc' = [pc EXCEPT ![s] = "app"]
    /\ IF AckDue(s)
       THEN /\ recv_wnd' = [recv_wnd EXCEPT ![s] = AckWindow(s)]
            /\ send_packets' = Append(send_packets,
                   Packet(s, "ACK", send_seq[s], AckWindow(s), FALSE))
       ELSE UNCHANGED <<recv_wnd, send_packets>>
    /\ UNCHANGED <<netVars, mtx, packets, connVars, wakeup, send_seq, send_wnd, recv_seq,
                   sending, held, userVars, srvVars>>

(* tds_cond_timedwait() times out: the error handler wants to go on, or    *)
(* gives the session up.                                                   *)
WaitTimeout(s) ==
    /\ Timeouts /\ pc[s] \in {"putwait", "readwait"} /\ Locks(s)
    /\ \/ /\ pc' = Signalled(pc, s)
          /\ UNCHANGED <<sending, held, connVars, send_packets, recv_wnd>>
       \/ /\ GiveUps
          /\ pc' = [pc EXCEPT ![s] = "app"]
          /\ sending' = [sending EXCEPT ![s] = FALSE]
          /\ held' = [held EXCEPT ![s] = FALSE]
          /\ tds_close_socket(s)
    /\ UNCHANGED <<netVars, mtx, packets, wakeup, send_seq, send_wnd, recv_seq, userVars,
                   srvVars>>

----------------------------------------------------------------------------
(* tds_connection_network(): the loop of the network thread.  An action is *)
(* what follows the return of tds_select(), up to its next call.           *)

InNet(s) == in_net = s /\ mtx = NULL

(* tds_select() finds the socket closed.                                   *)
NetClosed(s) ==
    /\ InNet(s) /\ closed
    /\ Leave(s, pc)
    /\ UNCHANGED <<header, send_packets, packets, connVars, wakeup, seqVars, sending, held,
                   userVars, srvVars>>

Polling(s) == InNet(s) /\ ~closed

(* The server takes a packet.                                              *)
ServerReads(p) ==
    LET s == p.sid
    IN  /\ seen' = IF p.type = "DATA" THEN [seen EXCEPT ![s] = p.seq] ELSE seen
        /\ srv_wnd' = [srv_wnd EXCEPT ![s] = p.wnd]
        /\ srv_open' = IF p.type = "FIN" THEN [srv_open EXCEPT ![s] = "fin"]
                       ELSE IF p.last THEN [srv_open EXCEPT ![s] = "answer"] ELSE srv_open
        /\ UNCHANGED <<inbox, grant, srv_seq>>

(* Mutants: any packet of the session ends the wait; none does.            *)
Unsent_any(p) == IF slot[p.sid] = "open" THEN [sending EXCEPT ![p.sid] = FALSE] ELSE sending
Unsent_never(p) == sending

(* tds_packet_write() wrote the whole of the first packet (after a part of *)
(* it the loop just goes round).                                           *)
Unsent(p) ==
    IF p.type = "DATA" /\ slot[p.sid] = "open"
    THEN [sending EXCEPT ![p.sid] = FALSE] ELSE sending

tds_packet_write(s) ==
    /\ Polling(s) /\ polled = "rw"
    /\ LET p == Head(send_packets)
       IN  /\ ServerReads(p)
           /\ sending' = Unsent(p)
           /\ IF p.sid = s
              THEN Leave(s, pc)
              ELSE /\ pc' = IF slot[p.sid] = "open" THEN Signalled(pc, p.sid) ELSE pc
                   /\ polled' = Events(Tail(send_packets))
                   /\ UNCHANGED <<in_net, mtx, forSend>>
    /\ send_packets' = Tail(send_packets)
    /\ UNCHANGED <<header, packets, connVars, wakeup, seqVars, held, userVars>>

(* tds_packet_read(): the header of a DATA packet is there, the rest needs *)
(* another round.                                                          *)
ReadHeader(s) ==
    /\ Polling(s) /\ inbox # <<>> /\ ~header
    /\ LET p == Head(inbox)
       IN  /\ slot[p.sid] = "open" /\ p.type = "DATA"
           /\ send_wnd' = [send_wnd EXCEPT ![p.sid] = p.wnd]
           /\ recv_seq' = [recv_seq EXCEPT ![p.sid] = p.seq]
    /\ header' = TRUE
    /\ polled' = Events(send_packets)
    /\ UNCHANGED <<in_net, mtx, pc, forSend, send_packets, packets, connVars, wakeup,
                   send_seq, recv_wnd, sending, held, userVars, srvVars>>

(* The server's FIN frees the sid.                                         *)
ReadFin(s) ==
    /\ Polling(s) /\ inbox # <<>>
    /\ LET p == Head(inbox)
       IN  /\ slot[p.sid] = "busy" /\ p.type = "FIN"
           /\ slot' = [slot EXCEPT ![p.sid] = "null"]
    /\ inbox' = Tail(inbox)
    /\ polled' = Events(send_packets)
    /\ UNCHANGED <<in_net, mtx, pc, forSend, header, send_packets, packets, closed, dead,
                   wakeup, seqVars, sending, held, userVars, seen, grant, srv_seq, srv_wnd,
                   srv_open>>

(* Any other packet for a session that is closing, or unknown, is a severe *)
(* error; so is one that was half read when its session closed.            *)
ReadUnexpected(s) ==
    /\ Polling(s) /\ inbox # <<>>
    /\ LET p == Head(inbox)
       IN  slot[p.sid] = "null" \/ (slot[p.sid] = "busy" /\ p.type # "FIN")
    /\ tds_connection_close
    /\ header' = FALSE
    /\ polled' = Events(send_packets)
    /\ UNCHANGED <<in_net, mtx, pc, forSend, send_packets, packets, wakeup, seqVars,
                   sending, held, userVars, srvVars>>

(* Mutant: the packet is kept only if its session waits for it.            *)
Delivered_if_waiting(p) ==
    IF p.type = "DATA" /\ pc[p.sid] = "readwait" THEN Append(packets, p) ELSE packets
Delivered(p) == IF p.type = "DATA" THEN Append(packets, p) ELSE packets

(* A packet is complete: the rest of a DATA packet, or an ACK, which is    *)
(* only a header.  It goes to its session, and a network thread that has   *)
(* nothing to send leaves.                                                 *)
ReadPacket(s) ==
    /\ Polling(s) /\ inbox # <<>>
    /\ LET p == Head(inbox)
       IN  /\ slot[p.sid] = "open" /\ (header \/ p.type = "ACK")
           /\ send_wnd' = [send_wnd EXCEPT ![p.sid] = p.wnd]
           /\ packets' = Delivered(p)
           /\ IF forSend
              THEN /\ pc' = Signalled(pc, p.sid) /\ polled' = Events(send_packets)
                   /\ UNCHANGED <<in_net, mtx, forSend>>
              ELSE Leave(s, Signalled(pc, p.sid))
    /\ inbox' = Tail(inbox)
    /\ header' = FALSE
    /\ UNCHANGED <<send_packets, connVars, wakeup, send_seq, recv_seq, recv_wnd, sending,
                   held, userVars, seen, grant, srv_seq, srv_wnd, srv_open>>

(* The eventfd is read and the loop goes round.                            *)
NetWakeup(s) ==
    /\ Polling(s) /\ wakeup
    /\ wakeup' = FALSE
    /\ polled' = Events(send_packets)
    /\ UNCHANGED <<in_net, mtx, pc, forSend, header, send_packets, packets, connVars,
                   seqVars, sending, held, userVars, srvVars>>

(* poll() times out: as in WaitTimeout.                                    *)
NetTimeout(s) ==
    /\ Timeouts /\ Polling(s)
    /\ \/ /\ polled' = Events(send_packets)
          /\ UNCHANGED <<in_net, mtx, pc, forSend, connVars, send_packets, recv_wnd>>
       \/ /\ GiveUps
          /\ tds_close_socket(s)
          /\ Leave(s, pc)
    /\ UNCHANGED <<header, packets, wakeup, send_seq, send_wnd, recv_seq, sending, held,
                   userVars, srvVars>>

(* read(), write() or poll() fails, or the server closed the connection.   *)
NetError(s) ==
    /\ Losses /\ Polling(s)
    /\ tds_connection_close
    /\ polled' = Events(send_packets)
    /\ UNCHANGED <<in_net, mtx, pc, forSend, header, send_packets, packets, wakeup,
                   seqVars, sending, held, userVars, srvVars>>

----------------------------------------------------------------------------
(* The server.                                                             *)

SrvUnchanged == UNCHANGED <<netVars, mtx, send_packets, packets, connVars, wakeup, seqVars,
                            sending, pc, held, userVars, seen, srv_wnd>>

(* A packet of an answer, within the window we gave it.                     *)
ServerData(s) ==
    /\ ~closed /\ srv_open[s] = "answer"
    /\ ~NotBefore(srv_seq[s], srv_wnd[s])
    /\ (srv_seq[s] - FirstSeq) % SeqMod < MaxAnswered[s]
    /\ grant' = [grant EXCEPT ![s] = Plus(seen[s], Wnd)]
    /\ srv_seq' = [srv_seq EXCEPT ![s] = Plus(@, 1)]
    /\ \E last \in BOOLEAN :
        /\ inbox' = Append(inbox, Packet(s, "DATA", srv_seq'[s], grant'[s], last))
        /\ srv_open' = IF last THEN [srv_open EXCEPT ![s] = "open"] ELSE srv_open
    /\ SrvUnchanged

ServerAck(s) ==
    /\ ~closed /\ srv_open[s] \in {"open", "answer"}
    /\ grant[s] # Plus(seen[s], Wnd)
    /\ grant' = [grant EXCEPT ![s] = Plus(seen[s], Wnd)]
    /\ inbox' = Append(inbox, Packet(s, "ACK", srv_seq[s], grant'[s], FALSE))
    /\ SrvUnchanged /\ UNCHANGED <<srv_seq, srv_open>>

ServerFin(s) ==
    /\ ~closed /\ srv_open[s] = "fin"
    /\ srv_open' = [srv_open EXCEPT ![s] = "gone"]
    /\ inbox' = Append(inbox, Packet(s, "FIN", srv_seq[s], grant[s], FALSE))
    /\ SrvUnchanged /\ UNCHANGED <<srv_seq, grant>>

----------------------------------------------------------------------------
All(x) == [s \in Sessions |-> x]

(* The sessions are open (tds_alloc_additional_socket()) and quiet.        *)
Init ==
    /\ in_net = NULL /\ mtx = NULL /\ send_packets = <<>> /\ packets = <<>>
    /\ slot = All("open") /\ closed = FALSE /\ wakeup = FALSE /\ header = FALSE
    /\ dead = All(FALSE)
    /\ send_seq = All(FirstSeq) /\ recv_seq = All(FirstSeq) /\ consumed = All(FirstSeq)
    /\ send_wnd = All(Plus(FirstSeq, Wnd)) /\ recv_wnd = All(Plus(FirstSeq, Wnd))
    /\ sending = All(FALSE) /\ pc = All("app") /\ held = All(FALSE) /\ asking = All(TRUE)
    /\ polled = "r" /\ forSend = FALSE
    /\ inbox = <<>> /\ seen = All(FirstSeq) /\ grant = All(Plus(FirstSeq, Wnd))
    /\ srv_seq = All(FirstSeq) /\ srv_wnd = All(Plus(FirstSeq, Wnd))
    /\ srv_open = All("open")

Worker(s) == PutAgain(s) \/ PutReturns(s) \/ tds_read_packet(s) \/ tds_update_recv_wnd(s)
Network(s) ==
    \/ NetClosed(s) \/ tds_packet_write(s) \/ NetWakeup(s)
    \/ ReadHeader(s) \/ ReadFin(s) \/ ReadUnexpected(s) \/ ReadPacket(s)
Server(s) == ServerData(s) \/ ServerAck(s) \/ ServerFin(s)

Next == \E s \in Sessions :
    \/ tds_write_packet(s)
    \/ Worker(s) \/ WaitTimeout(s)
    \/ Network(s) \/ NetTimeout(s) \/ NetError(s)
    \/ Server(s)

Spec == Init /\ [][Next]_vars

(* A thread inside a call is scheduled; the socket takes and delivers what *)
(* the two sides write; the server grants new windows; and, if one is set, *)
(* the timeout of a wait elapses.  Nothing makes the application call, nor *)
(* the server answer.                                                      *)
Fairness == \A s \in Sessions :
    /\ WF_vars(pc[s] # "app" /\ Worker(s))
    /\ WF_vars(tds_packet_write(s)) /\ WF_vars(NetWakeup(s)) /\ WF_vars(NetClosed(s))
    /\ WF_vars(ReadHeader(s) \/ ReadFin(s) \/ ReadUnexpected(s) \/ ReadPacket(s))
    /\ WF_vars(ServerAck(s))
    /\ WF_vars(WaitTimeout(s)) /\ WF_vars(NetTimeout(s))

FairSpec == Spec /\ Fairness

----------------------------------------------------------------------------
(* Properties.                                                             *)

(* Every variable has its type.                                            *)
TypeOK ==
    /\ in_net \in Sessions \cup {NULL} /\ mtx \in Sessions \cup {NULL}
    /\ send_packets \in Seq(Packets) /\ packets \in Seq(Packets) /\ inbox \in Seq(Packets)
    /\ slot \in [Sessions -> {"open", "busy", "null"}]
    /\ {closed, wakeup, header, forSend} \subseteq BOOLEAN
    /\ {send_seq, send_wnd, recv_seq, recv_wnd, consumed, seen, grant, srv_seq, srv_wnd}
           \subseteq [Sessions -> Seqs]
    /\ {dead, sending, held, asking} \subseteq [Sessions -> BOOLEAN]
    /\ pc \in [Sessions -> {"app", "put", "putwait", "putnet",
                            "read", "readwait", "readnet", "ack"}]
    /\ polled \in {"r", "rw"}
    /\ srv_open \in [Sessions -> {"open", "answer", "fin", "gone"}]

(* At most one thread is in the network, in_net_tds names it, and nobody   *)
(* holds list_mtx across its polling (the assert() at the start of         *)
(* tds_connection_network()).                                              *)
OneNetworkThread ==
    /\ \A s \in Sessions : in_net = s <=> pc[s] \in {"putnet", "readnet"}
    /\ mtx # NULL => in_net = NULL /\ pc[mtx] \in {"put", "read"}

(* tds_write_packet(): "we must assure server can accept our packet":      *)
(* every packet queued for the socket fits the window the server has in    *)
(* mind, although it is compared with one that arrived some time ago, and  *)
(* across the wrap of the sequence numbers.                                *)
SendsStayInWindow ==
    \A p \in Elems(send_packets) : p.type = "DATA" => NotBefore(grant[p.sid], p.seq)

(* A FIN is the last packet of its session: nothing that its thread or the *)
(* network does after tds_close_socket() sends more on that sid.           *)
FinIsLast ==
    \A s \in Sessions :
        /\ srv_open[s] \in {"fin", "gone"} => \A p \in Elems(send_packets) : p.sid # s
        /\ \A i, j \in DOMAIN send_packets :
               i < j /\ send_packets[i].sid = s /\ send_packets[i].type = "FIN"
               => send_packets[j].sid # s

(* A session sees the server's packets in the order they were sent, with   *)
(* none lost, doubled or taken by another session, whoever reads them from *)
(* the socket: what it took, what is queued for it and what is still on    *)
(* the way are consecutive up to the last one sent.  The other way, the    *)
(* last packet of a session is its FIN.                                    *)
NothingOutOfOrder ==
    /\ FinIsLast
    /\ \A s \in Sessions : slot[s] = "open" /\ ~closed =>
           LET way == packets \o inbox
               Ahead(n) == (n - consumed[s]) % SeqMod
           IN  /\ \A i, j \in DataOf(s, way) :
                      i < j => Ahead(way[i].seq) < Ahead(way[j].seq)
               /\ {Ahead(way[i].seq) : i \in DataOf(s, way)} = 1 .. Ahead(srv_seq[s])

(* tds_connection_put_packet(): "here we are sure we sent the packet".     *)
(* While its thread is out of that function, or is told that the packet is *)
(* sent, no packet of a live session is waiting to be written.             *)
SentMeansWritten ==
    \A s \in Sessions :
        ~dead[s] /\ ~sending[s] => DataOf(s, send_packets) = {} /\ seen[s] = send_seq[s]

(* A packet that is to be sent is sent, or the session is dead: the call   *)
(* returns.                                                                *)
PutsReturn == \A s \in Sessions :
    (pc[s] \in {"put", "putwait", "putnet"}) ~> (pc[s] = "app")

(* A session that reads gets the packet the server sent it (tds.h:1223:    *)
(* packet_cond "will be signaled by the network thread on packet received  *)
(* or sent for this session").                                             *)
ReadersGetTheirPackets == \A s \in Sessions :
    (pc[s] \in {"read", "readwait", "readnet"} /\ DataOf(s, packets \o inbox) # {})
        ~> (pc[s] \in {"ack", "app"})
============================================================================
