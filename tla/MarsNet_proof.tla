---------------------------- MODULE MarsNet_proof ----------------------------
(***************************************************************************)
(* What holds of a MARS connection for any set of sessions, any window and *)
(* any modulus of the sequence numbers.                                    *)
(***************************************************************************)
EXTENDS MarsNet, WellFoundedInduction, SequenceTheorems, TLAPS

(* A thread that polls for writing has something to write: nobody else     *)
(* takes packets from the queue.                                           *)
PollsForWrite == in_net # NULL /\ polled = "rw" => send_packets # <<>>

(* The FIN of s is queued, or the server has it.  Only the thread of s     *)
(* sends it, from a wait or from the network, and it then finds it dead.   *)
FinSent(s) ==
    \/ srv_open[s] \in {"fin", "gone"}
    \/ \E i \in DOMAIN send_packets : send_packets[i].sid = s /\ send_packets[i].type = "FIN"
AfterFin == \A s \in Sessions : FinSent(s) => dead[s] /\ pc[s] \in {"app", "put", "read"}

(* At most one DATA packet of a session is queued, the one that was sent   *)
(* last, and then it is the next one that the server will see.             *)
OneQueued == \A s \in Sessions :
    /\ \A i, j \in DataOf(s, send_packets) : i = j
    /\ \A i \in DataOf(s, send_packets) : send_packets[i].seq = send_seq[s]
    /\ send_seq[s] = IF DataOf(s, send_packets) = {} THEN seen[s] ELSE Plus(seen[s], 1)

(* A live session has a packet queued only while its thread is in          *)
(* tds_connection_put_packet(), has given it away and waits for it.        *)
SendingFollows == \A s \in Sessions : ~dead[s] =>
    /\ slot[s] = "open"
    /\ sending[s] => pc[s] \in {"put", "putwait", "putnet"}
    /\ held[s] => sending[s]
    /\ held[s] \/ ~sending[s] => DataOf(s, send_packets) = {}

(* How far x is ahead of the sequence number b.                            *)
Gap(x, b) == (x - b) % SeqMod

(* The windows of a queue, counted from what the server has seen, grow     *)
(* from low to high.                                                       *)
For(s, queue) == {i \in DOMAIN queue : queue[i].sid = s}
Grow(s, queue, b, low, high) ==
    /\ Gap(low, b) <= Gap(high, b)
    /\ \A i \in For(s, queue) : /\ Gap(low, b) <= Gap(queue[i].wnd, b)
                                /\ Gap(queue[i].wnd, b) <= Gap(high, b)
    /\ \A i, j \in For(s, queue) : i < j => Gap(queue[i].wnd, b) <= Gap(queue[j].wnd, b)

(* The windows on their way grow, from the one the session has to the one  *)
(* the server has in mind; and they have room for the packet queued.       *)
Windows == \A s \in Sessions :
    /\ DataOf(s, send_packets) # {} => Gap(send_wnd[s], seen[s]) # 0
    /\ Gap(grant[s], seen[s]) <= Wnd
    /\ Grow(s, inbox, seen[s], send_wnd[s], grant[s])

(* The DATA packets in a queue for a session that has taken b, until last, *)
(* are in order and none is missing.                                       *)
InOrder(s, queue, b, last) ==
    /\ \A i, j \in DataOf(s, queue) : i < j => Gap(queue[i].seq, b) < Gap(queue[j].seq, b)
    /\ {Gap(queue[i].seq, b) : i \in DataOf(s, queue)} = 1 .. Gap(last, b)

(* What is received for a session and what is on its way are in order, and *)
(* the server has not sent so much that its sequence numbers came round.   *)
OnlyData == \A i \in DOMAIN packets : packets[i].type = "DATA"
Order == \A s \in Sessions : slot[s] = "open" /\ ~closed =>
    /\ InOrder(s, packets \o inbox, consumed[s], srv_seq[s])
    /\ Gap(consumed[s], FirstSeq) <= Gap(srv_seq[s], FirstSeq)

----------------------------------------------------------------------------
(* Sequence numbers, which wrap.                                           *)

(* The constants that the arithmetic needs.                                *)
LEMMA Constants ==
    /\ SeqMod \in Nat /\ Wnd \in Nat /\ AckAt \in Nat /\ FirstSeq \in Seqs
    /\ 0 < Wnd /\ 2 * Wnd <= SeqMod /\ Wnd < SeqMod /\ AckAt <= Wnd
  BY WindowAssumption DEF Seqs

(* A sum is a sequence number.                                             *)
LEMMA PlusType ==
    ASSUME NEW a \in Seqs, NEW n \in Nat
    PROVE  Plus(a, n) \in Seqs
  BY Constants DEF Plus, Seqs

(* The header of a packet.                                                 *)
LEMMA PacketType ==
    ASSUME NEW s \in Sessions, NEW type \in {"DATA", "ACK", "FIN"}, NEW n \in Seqs,
           NEW w \in Seqs, NEW last \in BOOLEAN
    PROVE  Packet(s, type, n, w, last) \in Packets
  BY DEF Packet, Packets

Pcs == [Sessions -> {"app", "put", "putwait", "putnet", "read", "readwait", "readnet", "ack"}]

(* A signal moves a thread that waits, and no other.                       *)
LEMMA SignalledType ==
    ASSUME NEW pcs \in Pcs, NEW t \in Sessions
    PROVE  /\ Signalled(pcs, t) \in Pcs
           /\ \A u \in Sessions : Signalled(pcs, t)[u] \in
                  IF pcs[u] = "putwait" THEN {"putwait", "put"}
                  ELSE IF pcs[u] = "readwait" THEN {"readwait", "read"} ELSE {pcs[u]}
  BY DEF Signalled, Pcs

(* The types, in parts.                                                    *)
Control ==
    /\ in_net \in Sessions \cup {NULL} /\ mtx \in Sessions \cup {NULL}
    /\ polled \in {"r", "rw"} /\ pc \in Pcs
Queues ==
    send_packets \in Seq(Packets) /\ packets \in Seq(Packets) /\ inbox \in Seq(Packets)
Numbers ==
    /\ send_seq \in [Sessions -> Seqs] /\ send_wnd \in [Sessions -> Seqs]
    /\ recv_seq \in [Sessions -> Seqs] /\ recv_wnd \in [Sessions -> Seqs]
    /\ consumed \in [Sessions -> Seqs] /\ seen \in [Sessions -> Seqs]
    /\ grant \in [Sessions -> Seqs] /\ srv_seq \in [Sessions -> Seqs]
    /\ srv_wnd \in [Sessions -> Seqs]
Stages ==
    /\ slot \in [Sessions -> {"open", "busy", "null"}]
    /\ srv_open \in [Sessions -> {"open", "answer", "fin", "gone"}]
Switches ==
    /\ closed \in BOOLEAN /\ wakeup \in BOOLEAN /\ header \in BOOLEAN /\ forSend \in BOOLEAN
    /\ dead \in [Sessions -> BOOLEAN] /\ sending \in [Sessions -> BOOLEAN]
    /\ held \in [Sessions -> BOOLEAN] /\ asking \in [Sessions -> BOOLEAN]

(* They are the types.                                                     *)
LEMMA TypeParts == TypeOK <=> Control /\ Queues /\ Numbers /\ Stages /\ Switches
  BY DEF TypeOK, Control, Queues, Numbers, Stages, Switches, Pcs

(* The thread of control: who is in the network and where the others are.  *)
LEMMA StepControl ==
    ASSUME Control, Queues, OneNetworkThread, PollsForWrite, [Next]_vars
    PROVE  Control' /\ OneNetworkThread'
  <1>. USE SessionsAssumption DEF OneNetworkThread
  <1>1. CASE UNCHANGED <<in_net, mtx, polled, pc>>
    BY <1>1 DEF Control
  <1>2. ASSUME NEW s \in Sessions, NEW pcs \in Pcs, Leave(s, pcs), in_net = s, mtx = NULL,
               \A u \in Sessions : pcs[u] \in {"putnet", "readnet"} <=> pc[u] \in {"putnet", "readnet"}
        PROVE  Control' /\ OneNetworkThread'
    BY <1>2 DEF Control, Leave, Pcs
  <1>3. ASSUME NEW t \in Sessions
        PROVE  /\ Signalled(pc, t) \in Pcs
               /\ \A u \in Sessions : Signalled(pc, t)[u] \in {"putnet", "readnet"}
                                      <=> pc[u] \in {"putnet", "readnet"}
    BY SignalledType DEF Control
  <1>. SUFFICES ASSUME NEW s \in Sessions,
                       \/ tds_write_packet(s) \/ Worker(s) \/ WaitTimeout(s)
                       \/ Network(s) \/ NetTimeout(s) \/ NetError(s) \/ Server(s)
                PROVE  Control' /\ OneNetworkThread'
    BY <1>1 DEF Next, vars
  <1>4. CASE tds_write_packet(s) \/ PutAgain(s)
    BY <1>4 DEF tds_write_packet, PutAgain, PutRound, Enter, Events, Control, Pcs, Locks
  <1>5. CASE PutReturns(s) \/ tds_update_recv_wnd(s)
    BY <1>5 DEF PutReturns, tds_update_recv_wnd, netVars, Control, Pcs, Locks
  <1>6. CASE tds_read_packet(s)
    BY <1>6 DEF tds_read_packet, Enter, Events, netVars, Control, Pcs, Locks
  <1>7. CASE WaitTimeout(s)
    <2>1. UNCHANGED <<in_net, mtx, polled>> /\ pc[s] \in {"putwait", "readwait"}
          /\ (pc' = Signalled(pc, s) \/ pc' = [pc EXCEPT ![s] = "app"]) /\ mtx \in {NULL, s}
      BY <1>7 DEF WaitTimeout, netVars, Locks
    <2>2. mtx = NULL
      BY <2>1
    <2>3. CASE pc' = Signalled(pc, s)
      BY <1>3, <2>1, <2>2, <2>3 DEF Control
    <2>4. CASE pc' = [pc EXCEPT ![s] = "app"]
      BY <2>1, <2>2, <2>4 DEF Control, Pcs
    <2>. QED  BY <2>1, <2>3, <2>4
  <1>8. CASE NetClosed(s)
    BY <1>2, <1>8 DEF NetClosed, InNet, Control
  <1>9. CASE tds_packet_write(s)
    <2>1. in_net = s /\ mtx = NULL /\ send_packets # <<>>
      BY <1>9 DEF tds_packet_write, Polling, InNet, PollsForWrite
    <2>2. PICK p \in Packets : p = Head(send_packets)
      BY <2>1 DEF Queues
    <2>3. p.sid \in Sessions
      BY DEF Packets
    <2>4. CASE Leave(s, pc)
      BY <1>2, <2>1, <2>4 DEF Control
    <2>5. CASE ~Leave(s, pc)
      <3>1. pc' \in {pc, Signalled(pc, p.sid)} /\ UNCHANGED <<in_net, mtx>> /\ polled' \in {"r", "rw"}
        BY <1>9, <2>2, <2>5 DEF tds_packet_write, Events
      <3>. QED  BY <1>3, <2>1, <2>3, <3>1 DEF Control
    <2>. QED  BY <2>4, <2>5
  <1>10. CASE ReadPacket(s)
    <2>1. in_net = s /\ mtx = NULL /\ inbox # <<>>
      BY <1>10 DEF ReadPacket, Polling, InNet
    <2>2. PICK p \in Packets : p = Head(inbox)
      BY <2>1 DEF Queues
    <2>3. p.sid \in Sessions
      BY DEF Packets
    <2>4. CASE Leave(s, Signalled(pc, p.sid))
      BY <1>2, <1>3, <2>1, <2>3, <2>4
    <2>5. CASE ~Leave(s, Signalled(pc, p.sid))
      <3>1. pc' = Signalled(pc, p.sid) /\ UNCHANGED <<in_net, mtx>> /\ polled' \in {"r", "rw"}
        BY <1>10, <2>2, <2>5 DEF ReadPacket, Events
      <3>. QED  BY <1>3, <2>1, <2>3, <3>1 DEF Control
    <2>. QED  BY <2>4, <2>5
  <1>11. CASE NetTimeout(s)
    <2>1. in_net = s /\ mtx = NULL
      BY <1>11 DEF NetTimeout, Polling, InNet
    <2>2. CASE Leave(s, pc)
      BY <1>2, <2>1, <2>2 DEF Control
    <2>3. CASE ~Leave(s, pc)
      BY <1>11, <2>3 DEF NetTimeout, Events, Control
    <2>. QED  BY <2>2, <2>3
  <1>12. CASE ReadHeader(s) \/ ReadFin(s) \/ ReadUnexpected(s) \/ NetWakeup(s) \/ NetError(s)
    BY <1>12 DEF ReadHeader, ReadFin, ReadUnexpected, NetWakeup, NetError, Events, Control
  <1>13. CASE Server(s)
    BY <1>1, <1>13 DEF Server, ServerData, ServerAck, ServerFin, SrvUnchanged, netVars
  <1>. QED  BY <1>4, <1>5, <1>6, <1>7, <1>8, <1>9, <1>10, <1>11, <1>12, <1>13 DEF Worker, Network

(* What is put in the queue of the socket, and by whom.                    *)
AddsData(s) == \E p \in Packets :
    /\ send_packets' = Append(send_packets, p)
    /\ p.sid = s /\ p.type = "DATA" /\ p.seq = Plus(send_seq[s], 1)
    /\ send_seq' = [send_seq EXCEPT ![s] = Plus(@, 1)]
    /\ ~dead[s] /\ MaySend(s) /\ (held[s] \/ pc[s] = "app")
    /\ held' = [held EXCEPT ![s] = FALSE]
AddsAck(s) == \E p \in Packets :
    /\ send_packets' = Append(send_packets, p)
    /\ p.sid = s /\ p.type = "ACK"
    /\ pc[s] = "ack" /\ UNCHANGED <<send_seq, dead>>
AddsFin(s) == \E p \in Packets :
    /\ send_packets' = Append(send_packets, p)
    /\ p.sid = s /\ p.type = "FIN"
    /\ ~dead[s] /\ dead' = [dead EXCEPT ![s] = TRUE] /\ slot' = [slot EXCEPT ![s] = "busy"]
    /\ UNCHANGED send_seq
    /\ pc'[s] \in {"app", "put", "read"}

(* tds_close_socket().                                                     *)
LEMMA CloseAdds ==
    ASSUME Queues, Numbers, NEW s \in Sessions, tds_close_socket(s)
    PROVE  /\ \/ UNCHANGED <<send_packets, slot>>
              \/ /\ \E p \in Packets : send_packets' = Append(send_packets, p)
                                       /\ p.sid = s /\ p.type = "FIN"
                 /\ ~dead[s] /\ dead' = [dead EXCEPT ![s] = TRUE]
                 /\ slot' = [slot EXCEPT ![s] = "busy"]
           /\ recv_wnd' \in [Sessions -> Seqs]
  <1>1. send_seq[s] \in Seqs /\ Plus(recv_seq[s], Wnd) \in Seqs
    BY Constants, PlusType DEF Numbers
  <1>2. PICK p \in Packets : /\ p = Packet(s, "FIN", send_seq[s], Plus(recv_seq[s], Wnd), FALSE)
                             /\ p.sid = s /\ p.type = "FIN"
    BY <1>1, PacketType DEF Packet
  <1>3. recv_wnd' \in [Sessions -> Seqs]
    BY <1>1 DEF tds_close_socket, tds_connection_close, Numbers
  <1>4. CASE ~dead[s] /\ \E t \in Sessions \ {s} : slot[t] = "open"
    <2>1. send_packets' = Append(send_packets, p) /\ dead' = [dead EXCEPT ![s] = TRUE]
          /\ slot' = [slot EXCEPT ![s] = "busy"]
      BY <1>2, <1>4 DEF tds_close_socket
    <2>. QED  BY <1>2, <1>3, <1>4, <2>1
  <1>5. CASE ~(~dead[s] /\ \E t \in Sessions \ {s} : slot[t] = "open")
    <2>1. UNCHANGED <<send_packets, slot>>
      BY <1>5 DEF tds_close_socket, tds_connection_close
    <2>. QED  BY <1>3, <2>1
  <1>. QED  BY <1>4, <1>5

(* The steps that add packets, or write the first one.                     *)
LEMMA QueueSteps ==
    ASSUME TypeOK, OneNetworkThread, NEW s \in Sessions,
           \/ tds_write_packet(s) \/ Worker(s) \/ WaitTimeout(s)
           \/ Network(s) \/ NetTimeout(s) \/ NetError(s) \/ Server(s)
    PROVE  \/ UNCHANGED <<send_packets, send_seq>>
           \/ AddsData(s) /\ (tds_write_packet(s) \/ PutAgain(s))
           \/ AddsAck(s) /\ tds_update_recv_wnd(s)
           \/ AddsFin(s) /\ (WaitTimeout(s) \/ NetTimeout(s))
           \/ tds_packet_write(s)
  <1>0. Control /\ Queues /\ Numbers /\ Stages /\ Switches
    BY TypeParts
  <1>1. ASSUME NEW has, has => held[s] \/ pc[s] = "app", NEW final \in BOOLEAN,
               PutRound(s, has, final)
        PROVE  UNCHANGED <<send_packets, send_seq>> \/ AddsData(s)
    <2>1. CASE has /\ MaySend(s)
      <3>1. Plus(send_seq[s], 1) \in Seqs /\ Plus(recv_seq[s], Wnd) \in Seqs
        BY <1>0, Constants, PlusType DEF Numbers
      <3>2. PICK p \in Packets :
                /\ p = Packet(s, "DATA", Plus(send_seq[s], 1), Plus(recv_seq[s], Wnd), final)
                /\ p.sid = s /\ p.type = "DATA" /\ p.seq = Plus(send_seq[s], 1)
        BY <3>1, PacketType DEF Packet
      <3>3. send_packets' = Append(send_packets, p) /\ ~dead[s]
            /\ send_seq' = [send_seq EXCEPT ![s] = Plus(@, 1)]
            /\ held' = [held EXCEPT ![s] = FALSE]
        BY <1>1, <2>1, <3>2 DEF PutRound, AppendData, MayPut
      <3>. QED  BY <1>1, <2>1, <3>2, <3>3 DEF AddsData
    <2>2. CASE ~(has /\ MaySend(s))
      BY <1>1, <2>2 DEF PutRound, AppendData, seqVars
    <2>. QED  BY <2>1, <2>2
  <1>2. CASE tds_write_packet(s)
    <2>1. pc[s] = "app" /\ \E final \in BOOLEAN : PutRound(s, TRUE, final)
      BY <1>2 DEF tds_write_packet
    <2>. QED  BY <1>1, <1>2, <2>1
  <1>3. CASE PutAgain(s)
    <2>1. (~asking[s]) \in BOOLEAN
      OBVIOUS
    <2>. QED  BY <1>1, <1>3, <2>1 DEF PutAgain
  <1>4. CASE tds_update_recv_wnd(s)
    <2>1. CASE AckDue(s)
      <3>1. send_seq[s] \in Seqs /\ AckWindow(s) \in Seqs
        BY <1>0, Constants, PlusType DEF Numbers, AckWindow
      <3>2. PICK p \in Packets : /\ p = Packet(s, "ACK", send_seq[s], AckWindow(s), FALSE)
                                 /\ p.sid = s /\ p.type = "ACK"
        BY <3>1, PacketType DEF Packet
      <3>3. send_packets' = Append(send_packets, p) /\ pc[s] = "ack" /\ UNCHANGED <<send_seq, dead>>
        BY <1>4, <2>1, <3>2 DEF tds_update_recv_wnd, connVars
      <3>. QED  BY <1>4, <3>2, <3>3 DEF AddsAck
    <2>2. CASE ~AckDue(s)
      BY <1>4, <2>2 DEF tds_update_recv_wnd
    <2>. QED  BY <2>1, <2>2
  <1>5. CASE WaitTimeout(s) \/ NetTimeout(s)
    <2>1. CASE UNCHANGED send_packets
      BY <1>5, <2>1 DEF WaitTimeout, NetTimeout
    <2>2. CASE ~UNCHANGED send_packets
      <3>1. tds_close_socket(s) /\ UNCHANGED send_seq
        BY <1>5, <2>2 DEF WaitTimeout, NetTimeout
      <3>2. pc'[s] \in {"app", "put", "read"}
        BY <1>0, <1>5, <2>2 DEF WaitTimeout, NetTimeout, Leave, Control, Pcs
      <3>3. AddsFin(s)
        BY <1>0, <2>2, <3>1, <3>2, CloseAdds DEF AddsFin
      <3>. QED  BY <1>5, <3>3
    <2>. QED  BY <2>1, <2>2
  <1>6. \/ UNCHANGED <<send_packets, send_seq>> \/ tds_write_packet(s) \/ PutAgain(s)
        \/ tds_update_recv_wnd(s) \/ WaitTimeout(s) \/ NetTimeout(s) \/ tds_packet_write(s)
    BY DEF Worker, Network, Server, PutReturns, tds_read_packet, NetClosed, NetWakeup, ReadHeader,
       ReadFin, ReadUnexpected, ReadPacket, NetError, ServerData, ServerAck, ServerFin,
       SrvUnchanged, seqVars
  <1>. QED  BY <1>2, <1>3, <1>4, <1>5, <1>6

(* The first packet of a queue.                                            *)
LEMMA HeadPacket ==
    ASSUME NEW queue \in Seq(Packets), queue # <<>>
    PROVE  /\ Head(queue) \in Packets /\ Tail(queue) \in Seq(Packets)
           /\ Head(queue).sid \in Sessions /\ Head(queue).seq \in Seqs /\ Head(queue).wnd \in Seqs
  <1>1. Head(queue) \in Packets /\ Tail(queue) \in Seq(Packets)
    OBVIOUS
  <1>. QED  BY <1>1 DEF Packets

(* Every set of naturals has a least one.                                  *)
LEMMA Smallest ==
    ASSUME NEW T, T \subseteq Nat, T # {}
    PROVE  \E x \in T : \A y \in T : x <= y
  <1>1. PICK x \in T : \A y \in T : ~(<<y, x>> \in OpToRel(<, Nat))
    BY NatLessThanWellFounded, WFMin
  <1>2. \A y \in T : ~(y < x)
    BY <1>1 DEF OpToRel
  <1>. QED  BY <1>2

(* The first packet of s.                                                  *)
LEMMA FirstIs ==
    ASSUME NEW s \in Sessions, packets \in Seq(Packets), Received(s) # {}
    PROVE  /\ First(s) \in DOMAIN packets /\ packets[First(s)].sid = s
           /\ packets[First(s)] \in Packets
           /\ \A j \in DOMAIN packets : packets[j].sid = s => First(s) <= j
  <1>1. Received(s) \subseteq Nat
    BY DEF Received
  <1>2. First(s) \in Received(s) /\ \A j \in Received(s) : First(s) <= j
    BY <1>1, Smallest DEF First
  <1>. QED  BY <1>2 DEF Received

(* One item less, in the middle of a queue.                                *)
LEMMA WithoutType ==
    ASSUME NEW S, NEW queue \in Seq(S), NEW k \in DOMAIN queue
    PROVE  Without(k, queue) \in Seq(S)
  BY DEF Without

(* The queues hold packets.                                                *)
LEMMA StepQueues ==
    ASSUME TypeOK, OneNetworkThread, PollsForWrite, [Next]_vars
    PROVE  Queues' /\ PollsForWrite'
  <1>0. Control /\ Queues /\ Numbers /\ Stages /\ Switches
    BY TypeParts
  <1>1. CASE UNCHANGED vars
    BY <1>0, <1>1 DEF vars, Queues, PollsForWrite
  <1>. SUFFICES ASSUME NEW s \in Sessions,
                       \/ tds_write_packet(s) \/ Worker(s) \/ WaitTimeout(s)
                       \/ Network(s) \/ NetTimeout(s) \/ NetError(s) \/ Server(s)
                PROVE  Queues' /\ PollsForWrite'
    BY <1>1 DEF Next
  <1>2. send_packets' \in Seq(Packets)
        /\ (tds_packet_write(s) => send_packets # <<>>)
        /\ (~tds_packet_write(s) /\ send_packets # <<>> => send_packets' # <<>>)
    <2>1. CASE tds_packet_write(s)
      <3>1. send_packets # <<>> /\ send_packets' = Tail(send_packets)
        BY <2>1, SessionsAssumption DEF tds_packet_write, Polling, InNet, PollsForWrite
      <3>. QED  BY <1>0, <2>1, <3>1, HeadPacket DEF Queues
    <2>2. CASE ~tds_packet_write(s)
      <3>1. send_packets' = send_packets \/ \E p \in Packets : send_packets' = Append(send_packets, p)
        BY <2>2, QueueSteps DEF AddsData, AddsAck, AddsFin
      <3>. QED  BY <1>0, <2>2, <3>1 DEF Queues
    <2>. QED  BY <2>1, <2>2
  <1>3. packets' \in Seq(Packets)
    <2>1. CASE tds_read_packet(s)
      <3>1. packets' = packets \/ (packets' = Without(First(s), packets) /\ Received(s) # {})
        BY <2>1 DEF tds_read_packet
      <3>. QED  BY <1>0, <3>1, FirstIs, WithoutType DEF Queues
    <2>2. CASE ReadPacket(s)
      <3>1. inbox # <<>> /\ packets' = Delivered(Head(inbox))
        BY <2>2 DEF ReadPacket
      <3>. QED  BY <1>0, <3>1, HeadPacket DEF Delivered, Queues
    <2>3. CASE packets' = packets
      BY <1>0, <2>3 DEF Queues
    <2>4. packets' = packets \/ tds_read_packet(s) \/ ReadPacket(s)
      BY DEF Worker, Network, Server, PutReturns, NetClosed, NetWakeup, ReadHeader,
         ReadFin, ReadUnexpected, NetError, ServerData, ServerAck, ServerFin, SrvUnchanged,
         tds_write_packet, PutAgain, PutRound, tds_update_recv_wnd, WaitTimeout, NetTimeout,
         tds_packet_write
    <2>. QED  BY <2>1, <2>2, <2>3, <2>4
  <1>4. inbox' \in Seq(Packets)
    <2>1. CASE ReadFin(s) \/ ReadPacket(s)
      <3>1. inbox # <<>> /\ inbox' = Tail(inbox)
        BY <2>1 DEF ReadPacket, ReadFin
      <3>. QED  BY <1>0, <3>1, HeadPacket DEF Queues
    <2>2. CASE Server(s)
      <3>1. /\ srv_seq[s] \in Seqs /\ Plus(srv_seq[s], 1) \in Seqs /\ Plus(seen[s], Wnd) \in Seqs
            /\ grant[s] \in Seqs
            /\ (grant' = [grant EXCEPT ![s] = Plus(seen[s], Wnd)] => grant'[s] = Plus(seen[s], Wnd))
            /\ (srv_seq' = [srv_seq EXCEPT ![s] = Plus(@, 1)] => srv_seq'[s] = Plus(srv_seq[s], 1))
        BY <1>0, Constants, PlusType DEF Numbers
      <3>2. \A last \in BOOLEAN : /\ Packet(s, "DATA", Plus(srv_seq[s], 1), Plus(seen[s], Wnd), last) \in Packets
                                  /\ Packet(s, "ACK", srv_seq[s], Plus(seen[s], Wnd), last) \in Packets
                                  /\ Packet(s, "FIN", srv_seq[s], grant[s], last) \in Packets
        BY <3>1, PacketType
      <3>3. \E p \in Packets : inbox' = Append(inbox, p)
        BY <2>2, <3>1, <3>2 DEF Server, ServerData, ServerAck, ServerFin
      <3>. QED  BY <1>0, <3>3 DEF Queues
    <2>3. CASE inbox' = inbox
      BY <1>0, <2>3 DEF Queues
    <2>4. inbox' = inbox \/ ReadFin(s) \/ ReadPacket(s) \/ Server(s)
      BY DEF Worker, Network, PutReturns, NetClosed, NetWakeup, ReadHeader,
         ReadUnexpected, NetError, tds_read_packet,
         tds_write_packet, PutAgain, PutRound, tds_update_recv_wnd, WaitTimeout, NetTimeout,
         tds_packet_write, ServerReads, srvVars
    <2>. QED  BY <2>1, <2>2, <2>3, <2>4
  <1>5. PollsForWrite'
    <2>1. CASE UNCHANGED <<in_net, polled>>
      <3>1. CASE tds_packet_write(s)
        BY <2>1, <3>1 DEF tds_packet_write, Leave, Events, PollsForWrite, Polling, InNet
      <3>. QED  BY <1>2, <2>1, <3>1 DEF PollsForWrite
    <2>2. CASE in_net' = NULL \/ polled' = Events(send_packets')
      BY <2>2 DEF PollsForWrite, Events
    <2>3. CASE polled' = Events(send_packets)
      BY <1>2, <2>2, <2>3 DEF PollsForWrite, Events, tds_packet_write, Leave
    <2>4. \/ UNCHANGED <<in_net, polled>> \/ in_net' = NULL \/ polled' = Events(send_packets')
          \/ polled' = Events(send_packets)
      BY DEF Worker, Network, Server, PutReturns, NetClosed, NetWakeup, ReadHeader, ReadFin, Enter,
         ReadUnexpected, ReadPacket, NetError, ServerData, ServerAck, ServerFin, SrvUnchanged,
         tds_write_packet, PutAgain, PutRound, tds_update_recv_wnd, WaitTimeout, NetTimeout,
         tds_packet_write, tds_read_packet, Leave, netVars
    <2>. QED  BY <2>1, <2>2, <2>3, <2>4
  <1>. QED  BY <1>2, <1>3, <1>4, <1>5 DEF Queues

(* Sequence numbers and windows stay in their range.                       *)
LEMMA StepNumbers ==
    ASSUME TypeOK, OneNetworkThread, PollsForWrite, [Next]_vars
    PROVE  Numbers'
  <1>0. Control /\ Queues /\ Numbers /\ Stages /\ Switches
    BY TypeParts
  <1>. DEFINE Fcn == [Sessions -> Seqs]
  <1>1. CASE UNCHANGED vars
    BY <1>0, <1>1 DEF vars, Numbers
  <1>. SUFFICES ASSUME NEW s \in Sessions,
                       \/ tds_write_packet(s) \/ Worker(s) \/ WaitTimeout(s)
                       \/ Network(s) \/ NetTimeout(s) \/ NetError(s) \/ Server(s)
                PROVE  Numbers'
    BY <1>1 DEF Next
  <1>2. /\ Plus(send_seq[s], 1) \in Seqs /\ Plus(recv_seq[s], Wnd) \in Seqs
        /\ Plus(srv_seq[s], 1) \in Seqs /\ Plus(seen[s], Wnd) \in Seqs
    BY <1>0, Constants, PlusType DEF Numbers
  <1>3. CASE UNCHANGED <<seqVars, consumed, seen, grant, srv_seq, srv_wnd>>
    BY <1>0, <1>3 DEF Numbers, seqVars
  <1>4. CASE tds_write_packet(s) \/ PutAgain(s)
    <2>1. send_seq' \in Fcn /\ recv_wnd' \in Fcn /\ UNCHANGED <<send_wnd, recv_seq>>
      BY <1>0, <1>2, <1>4 DEF tds_write_packet, PutAgain, PutRound, AppendData, seqVars, Numbers
    <2>2. UNCHANGED <<consumed, seen, grant, srv_seq, srv_wnd>>
      BY <1>4 DEF tds_write_packet, PutAgain, PutRound, srvVars
    <2>. QED  BY <1>0, <2>1, <2>2 DEF Numbers
  <1>5. CASE tds_read_packet(s)
    <2>1. consumed' \in Fcn
      <3>1. CASE Received(s) # {}
        <4>1. packets[First(s)].seq \in Seqs
          BY <1>0, <3>1, FirstIs DEF Queues, Packets
        <4>. QED  BY <1>0, <1>5, <4>1 DEF tds_read_packet, userVars, Numbers
      <3>2. CASE Received(s) = {}
        BY <1>0, <1>5, <3>2 DEF tds_read_packet, userVars, Numbers
      <3>. QED  BY <3>1, <3>2
    <2>2. UNCHANGED <<send_seq, send_wnd, recv_seq, recv_wnd, seen, grant, srv_seq, srv_wnd>>
      BY <1>5 DEF tds_read_packet, srvVars, seqVars
    <2>. QED  BY <1>0, <2>1, <2>2 DEF Numbers
  <1>6. CASE tds_update_recv_wnd(s)
    <2>1. recv_wnd' \in Fcn /\ UNCHANGED <<send_seq, send_wnd, recv_seq, consumed>>
      BY <1>0, <1>2, <1>6 DEF tds_update_recv_wnd, AckWindow, Numbers, userVars
    <2>2. UNCHANGED <<seen, grant, srv_seq, srv_wnd>>
      BY <1>6 DEF tds_update_recv_wnd, srvVars
    <2>. QED  BY <1>0, <2>1, <2>2 DEF Numbers
  <1>7. CASE WaitTimeout(s) \/ NetTimeout(s)
    <2>1. recv_wnd' \in Fcn
      BY <1>0, <1>7, CloseAdds DEF WaitTimeout, NetTimeout, Numbers
    <2>2. UNCHANGED <<send_seq, send_wnd, recv_seq, consumed, seen, grant, srv_seq, srv_wnd>>
      BY <1>7 DEF WaitTimeout, NetTimeout, userVars, srvVars
    <2>. QED  BY <1>0, <2>1, <2>2 DEF Numbers
  <1>8. CASE tds_packet_write(s)
    <2>1. send_packets # <<>>
      BY <1>8, SessionsAssumption DEF tds_packet_write, Polling, InNet, PollsForWrite
    <2>2. PICK p : p = Head(send_packets) /\ p.sid \in Sessions /\ p.seq \in Seqs /\ p.wnd \in Seqs
      BY <1>0, <2>1, HeadPacket DEF Queues
    <2>3. ServerReads(p)
      BY <1>8, <2>2 DEF tds_packet_write
    <2>4. seen' \in Fcn /\ srv_wnd' \in Fcn /\ UNCHANGED <<grant, srv_seq>>
      BY <1>0, <2>2, <2>3 DEF ServerReads, Numbers
    <2>5. UNCHANGED <<send_seq, send_wnd, recv_seq, recv_wnd, consumed>>
      BY <1>8 DEF tds_packet_write, seqVars, userVars
    <2>. QED  BY <1>0, <2>4, <2>5 DEF Numbers
  <1>9. CASE ReadHeader(s) \/ ReadPacket(s)
    <2>1. inbox # <<>>
      BY <1>9 DEF ReadHeader, ReadPacket
    <2>2. PICK p : p = Head(inbox) /\ p.sid \in Sessions /\ p.seq \in Seqs /\ p.wnd \in Seqs
      BY <1>0, <2>1, HeadPacket DEF Queues
    <2>3. send_wnd' = [send_wnd EXCEPT ![p.sid] = p.wnd]
          /\ (recv_seq' = recv_seq \/ recv_seq' = [recv_seq EXCEPT ![p.sid] = p.seq])
          /\ UNCHANGED <<send_seq, recv_wnd, consumed, seen, grant, srv_seq, srv_wnd>>
      BY <1>9, <2>2 DEF ReadHeader, ReadPacket, userVars, srvVars
    <2>4. send_wnd' \in Fcn /\ recv_seq' \in Fcn
      BY <1>0, <2>2, <2>3 DEF Numbers
    <2>. QED  BY <1>0, <2>3, <2>4 DEF Numbers
  <1>10. CASE Server(s)
    <2>1. grant' \in Fcn /\ srv_seq' \in Fcn
      BY <1>0, <1>2, <1>10 DEF Server, ServerData, ServerAck, ServerFin, Numbers
    <2>2. UNCHANGED <<send_seq, send_wnd, recv_seq, recv_wnd, consumed, seen, srv_wnd>>
      BY <1>10 DEF Server, ServerData, ServerAck, ServerFin, SrvUnchanged, seqVars, userVars
    <2>. QED  BY <1>0, <2>1, <2>2 DEF Numbers
  <1>11. \/ UNCHANGED <<seqVars, consumed, seen, grant, srv_seq, srv_wnd>>
         \/ tds_write_packet(s) \/ PutAgain(s) \/ tds_read_packet(s) \/ tds_update_recv_wnd(s)
         \/ WaitTimeout(s) \/ NetTimeout(s) \/ tds_packet_write(s) \/ ReadHeader(s)
         \/ ReadPacket(s) \/ Server(s)
    BY DEF Worker, Network, PutReturns, NetClosed, NetWakeup, ReadFin, ReadUnexpected, NetError,
       userVars, srvVars
  <1>. QED  BY <1>3, <1>4, <1>5, <1>6, <1>7, <1>8, <1>9, <1>10, <1>11

(* The stages of a session, at both ends.                                  *)
LEMMA StepStages ==
    ASSUME TypeOK, OneNetworkThread, PollsForWrite, [Next]_vars
    PROVE  Stages'
  <1>0. Control /\ Queues /\ Numbers /\ Stages /\ Switches
    BY TypeParts
  <1>1. CASE UNCHANGED vars
    BY <1>0, <1>1 DEF vars, Stages
  <1>. SUFFICES ASSUME NEW s \in Sessions,
                       \/ tds_write_packet(s) \/ Worker(s) \/ WaitTimeout(s)
                       \/ Network(s) \/ NetTimeout(s) \/ NetError(s) \/ Server(s)
                PROVE  Stages'
    BY <1>1 DEF Next
  <1>2. CASE UNCHANGED <<slot, srv_open>>
    BY <1>0, <1>2 DEF Stages
  <1>3. CASE WaitTimeout(s) \/ NetTimeout(s)
    <2>1. srv_open' = srv_open /\ (slot' = slot \/ slot' = [slot EXCEPT ![s] = "busy"])
      BY <1>0, <1>3, CloseAdds DEF WaitTimeout, NetTimeout, srvVars, connVars
    <2>. QED  BY <1>0, <2>1 DEF Stages
  <1>4. CASE ReadFin(s)
    BY <1>0, <1>4 DEF ReadFin, Stages
  <1>5. CASE tds_packet_write(s)
    BY <1>0, <1>5 DEF tds_packet_write, ServerReads, connVars, Stages
  <1>6. CASE Server(s)
    BY <1>0, <1>6 DEF Server, ServerData, ServerAck, ServerFin, SrvUnchanged, connVars, Stages
  <1>7. \/ UNCHANGED <<slot, srv_open>> \/ WaitTimeout(s) \/ NetTimeout(s) \/ ReadFin(s)
        \/ tds_packet_write(s) \/ Server(s)
    BY DEF Worker, Network, PutReturns, NetClosed, NetWakeup, ReadUnexpected, NetError, ReadPacket,
       ReadHeader, tds_write_packet, PutAgain, PutRound, tds_update_recv_wnd, tds_read_packet,
       tds_connection_close, connVars, srvVars
  <1>. QED  BY <1>2, <1>3, <1>4, <1>5, <1>6, <1>7

(* The Boolean variables.                                                  *)
LEMMA StepSwitches ==
    ASSUME TypeOK, [Next]_vars
    PROVE  Switches'
  <1>0. Control /\ Queues /\ Numbers /\ Stages /\ Switches
    BY TypeParts
  <1>1. CASE UNCHANGED vars
    BY <1>0, <1>1 DEF vars, Switches
  <1>. SUFFICES ASSUME NEW s \in Sessions,
                       \/ tds_write_packet(s) \/ Worker(s) \/ WaitTimeout(s)
                       \/ Network(s) \/ NetTimeout(s) \/ NetError(s) \/ Server(s)
                PROVE  Switches'
    BY <1>1 DEF Next
  <1>. USE DEF Worker, Network, Server, PutReturns, NetClosed, NetWakeup, ReadHeader, ReadFin, Enter,
         ReadUnexpected, ReadPacket, NetError, ServerData, ServerAck, ServerFin, SrvUnchanged,
         tds_write_packet, PutAgain, PutRound, tds_update_recv_wnd, WaitTimeout, NetTimeout,
         tds_packet_write, tds_read_packet, Leave, netVars, connVars, userVars,
         tds_close_socket, tds_connection_close, tds_wakeup_send, Unsent, AppendData
  <1>2. closed' \in BOOLEAN
    BY <1>0 DEF Switches
  <1>3. wakeup' \in BOOLEAN
    BY <1>0 DEF Switches
  <1>4. header' \in BOOLEAN
    BY <1>0 DEF Switches
  <1>5. forSend' \in BOOLEAN
    BY <1>0 DEF Switches
  <1>6. dead' \in [Sessions -> BOOLEAN]
    BY <1>0 DEF Switches
  <1>7. sending' \in [Sessions -> BOOLEAN]
    BY <1>0 DEF Switches
  <1>8. held' \in [Sessions -> BOOLEAN]
    BY <1>0 DEF Switches
  <1>9. asking' \in [Sessions -> BOOLEAN]
    <2>1. CASE tds_read_packet(s) /\ Received(s) # {}
      <3>1. packets[First(s)].last \in BOOLEAN
        BY <1>0, <2>1, FirstIs DEF Queues, Packets
      <3>. QED  BY <1>0, <2>1, <3>1 DEF Switches
    <2>2. CASE ~(tds_read_packet(s) /\ Received(s) # {})
      BY <1>0, <2>2 DEF Switches
    <2>. QED  BY <2>1, <2>2
  <1>. QED  BY <1>2, <1>3, <1>4, <1>5, <1>6, <1>7, <1>8, <1>9 DEF Switches

(* The threads in the network follow one another, and every variable has   *)
(* its type.                                                               *)
LEMMA TypesAndThreads == Spec => [](TypeOK /\ OneNetworkThread /\ PollsForWrite)
  <1>1. Init => TypeOK /\ OneNetworkThread /\ PollsForWrite
    <2>. SUFFICES ASSUME Init
                  PROVE  TypeOK /\ OneNetworkThread /\ PollsForWrite
      OBVIOUS
    <2>0. FirstSeq \in Seqs /\ Plus(FirstSeq, Wnd) \in Seqs
      BY Constants, PlusType
    <2>1. Control /\ Queues /\ Stages
      BY DEF Init, All, Control, Queues, Stages, Pcs
    <2>2. Numbers
      BY <2>0 DEF Init, All, Numbers
    <2>3. Switches
      BY DEF Init, All, Switches
    <2>4. OneNetworkThread /\ PollsForWrite
      BY SessionsAssumption DEF Init, All, OneNetworkThread, PollsForWrite
    <2>. QED  BY <2>1, <2>2, <2>3, <2>4, TypeParts
  <1>2. TypeOK /\ OneNetworkThread /\ PollsForWrite /\ [Next]_vars
        => TypeOK' /\ OneNetworkThread' /\ PollsForWrite'
    <2>. SUFFICES ASSUME TypeOK, OneNetworkThread, PollsForWrite, [Next]_vars
                  PROVE  TypeOK' /\ OneNetworkThread' /\ PollsForWrite'
      OBVIOUS
    <2>1. Control' /\ OneNetworkThread'
      BY StepControl, TypeParts
    <2>2. Queues' /\ PollsForWrite' /\ Numbers' /\ Stages' /\ Switches'
      BY StepQueues, StepNumbers, StepStages, StepSwitches
    <2>3. TypeOK'
      BY <2>1, <2>2, TypeParts, PTL
    <2>. QED  BY <2>1, <2>2, <2>3
  <1>. QED  BY <1>1, <1>2, PTL DEF Spec

(* Every variable of the connection, its sessions and threads has its type.*)
THEOREM TypeCorrect == Spec => []TypeOK
  BY TypesAndThreads, PTL

(* tds_connection_network(): one thread at most is in the network, the one *)
(* that in_net_tds names, and whoever holds list_mtx is not in it.         *)
THEOREM OneInNetwork == Spec => []OneNetworkThread
  BY TypesAndThreads, PTL

----------------------------------------------------------------------------
(* Places in a queue that gets longer or shorter.                          *)

(* One more.                                                               *)
LEMMA AppendAt ==
    ASSUME NEW S, NEW s \in Seq(S), NEW x \in S, NEW w, w = Append(s, x)
    PROVE  /\ \A i \in DOMAIN s : i \in DOMAIN w /\ w[i] = s[i] /\ i < Len(s) + 1
           /\ Len(s) + 1 \in DOMAIN w /\ w[Len(s) + 1] = x
           /\ \A i \in DOMAIN w : i \in DOMAIN s \/ i = Len(s) + 1
  <1>1. /\ Len(s) \in Nat /\ DOMAIN s = 1 .. Len(s) /\ DOMAIN w = 1 .. Len(s) + 1
        /\ w[Len(s) + 1] = x /\ \A i \in 1 .. Len(s) : w[i] = s[i]
    OBVIOUS
  <1>. QED  BY <1>1

(* The first less.                                                         *)
LEMMA TailAt ==
    ASSUME NEW S, NEW s \in Seq(S), s # <<>>, NEW w, w = Tail(s)
    PROVE  /\ 1 \in DOMAIN s /\ Head(s) = s[1]
           /\ \A i \in DOMAIN w : i \in Nat /\ i + 1 \in DOMAIN s /\ w[i] = s[i + 1] /\ 1 < i + 1
           /\ \A i \in DOMAIN s : i = 1 \/ (i - 1 \in DOMAIN w /\ w[i - 1] = s[i])
           /\ DOMAIN s \subseteq Int /\ \A i \in DOMAIN s : 1 <= i
  <1>1. /\ Len(s) \in Nat \ {0} /\ DOMAIN s = 1 .. Len(s) /\ DOMAIN w = 1 .. Len(s) - 1
        /\ Head(s) = s[1] /\ \A i \in 1 .. Len(s) - 1 : w[i] = s[i + 1]
    OBVIOUS
  <1>. QED  BY <1>1

----------------------------------------------------------------------------
(* The FIN.                                                                *)

(* The thread of a dead session makes no calls but to return.              *)
LEMMA DeadStays ==
    ASSUME TypeOK, OneNetworkThread, [Next]_vars, NEW t \in Sessions, dead[t]
    PROVE  /\ dead'[t]
           /\ pc[t] \in {"app", "put", "read"} => pc'[t] \in {"app", "put", "read"}
  <1>0. Control /\ Queues /\ Switches
    BY TypeParts
  <1>1. CASE UNCHANGED vars
    BY <1>1 DEF vars
  <1>. SUFFICES ASSUME NEW s \in Sessions,
                       \/ tds_write_packet(s) \/ Worker(s) \/ WaitTimeout(s)
                       \/ Network(s) \/ NetTimeout(s) \/ NetError(s) \/ Server(s)
                PROVE  /\ dead'[t]
                       /\ pc[t] \in {"app", "put", "read"} => pc'[t] \in {"app", "put", "read"}
    BY <1>1 DEF Next
  <1>2. dead'[t]
    <2>1. \/ dead' = dead \/ tds_close_socket(s) \/ tds_connection_close
      BY DEF Worker, Network, Server, PutReturns, NetClosed, NetWakeup, ReadHeader, ReadFin, Enter,
         ReadUnexpected, ReadPacket, NetError, ServerData, ServerAck, ServerFin, SrvUnchanged,
         tds_write_packet, PutAgain, PutRound, tds_update_recv_wnd, WaitTimeout, NetTimeout,
         tds_packet_write, tds_read_packet, connVars
    <2>. QED  BY <1>0, <2>1 DEF tds_close_socket, tds_connection_close, Switches
  <1>3. ASSUME pc[t] \in {"app", "put", "read"}
        PROVE  pc'[t] \in {"app", "put", "read"}
    <2>0. in_net # t
      BY <1>3 DEF OneNetworkThread
    <2>sig. \A u : Signalled(pc, u)[t] = pc[t]
      BY <1>0, <1>3 DEF Signalled, Control, Pcs
    <2>1. CASE tds_write_packet(s) \/ PutAgain(s)
      BY <1>0, <1>3, <2>1 DEF tds_write_packet, PutAgain, PutRound, MayPut, Enter, Control, Pcs
    <2>2. CASE PutReturns(s) \/ tds_read_packet(s)
      BY <1>0, <1>3, <2>2 DEF PutReturns, tds_read_packet, Enter, Control, Pcs
    <2>3. CASE tds_update_recv_wnd(s)
      BY <1>0, <1>3, <2>3 DEF tds_update_recv_wnd, Control, Pcs
    <2>4. CASE WaitTimeout(s)
      BY <1>0, <1>3, <2>4, <2>sig DEF WaitTimeout, Control, Pcs
    <2>5. CASE Network(s) \/ NetTimeout(s) \/ NetError(s)
      <3>1. s # t
        BY <2>0, <2>5 DEF Network, NetTimeout, NetError, NetClosed, tds_packet_write, NetWakeup,
           ReadHeader, ReadFin, ReadUnexpected, ReadPacket, Polling, InNet
      <3>2. \/ pc' = pc \/ (\E u : pc' = Signalled(pc, u)) \/ Leave(s, pc)
            \/ \E u : Leave(s, Signalled(pc, u))
        BY <2>5 DEF Network, NetTimeout, NetError, NetClosed, tds_packet_write, NetWakeup,
           ReadHeader, ReadFin, ReadUnexpected, ReadPacket
      <3>3. ASSUME NEW pcs, Leave(s, pcs), pcs[t] = pc[t], DOMAIN pcs = Sessions
            PROVE  pc'[t] = pc[t]
        BY <3>1, <3>3 DEF Leave
      <3>4. DOMAIN pc = Sessions /\ \A u : DOMAIN Signalled(pc, u) = Sessions
        BY <1>0 DEF Control, Pcs, Signalled
      <3>. QED  BY <1>3, <2>sig, <3>2, <3>3, <3>4
    <2>6. CASE Server(s)
      BY <1>3, <2>6 DEF Server, ServerData, ServerAck, ServerFin, SrvUnchanged
    <2>. QED  BY <2>1, <2>2, <2>3, <2>4, <2>5, <2>6 DEF Worker
  <1>. QED  BY <1>2, <1>3

(* Nothing is queued after a FIN.                                          *)
LEMMA StepFin ==
    ASSUME TypeOK, OneNetworkThread, PollsForWrite, AfterFin, FinIsLast, [Next]_vars
    PROVE  AfterFin' /\ FinIsLast'
  <1>0. Control /\ Queues /\ Numbers /\ Stages /\ Switches
    BY TypeParts
  <1>. DEFINE sp == send_packets
  <1>dead. \A t \in Sessions : FinSent(t) => dead'[t] /\ pc'[t] \in {"app", "put", "read"}
    BY DeadStays DEF AfterFin
  <1>same. ASSUME UNCHANGED send_packets,
                  \A t \in Sessions : srv_open'[t] \in {"fin", "gone"} <=> srv_open[t] \in {"fin", "gone"}
           PROVE  AfterFin' /\ FinIsLast'
    <2>1. \A t \in Sessions : FinSent(t)' <=> FinSent(t)
      BY <1>same DEF FinSent
    <2>2. FinIsLast'
      BY <1>same DEF FinIsLast, Elems
    <2>. QED  BY <1>dead, <2>1, <2>2 DEF AfterFin
  <1>1. CASE UNCHANGED vars
    BY <1>1, <1>same DEF vars
  <1>. SUFFICES ASSUME NEW s \in Sessions,
                       \/ tds_write_packet(s) \/ Worker(s) \/ WaitTimeout(s)
                       \/ Network(s) \/ NetTimeout(s) \/ NetError(s) \/ Server(s)
                PROVE  AfterFin' /\ FinIsLast'
    BY <1>1 DEF Next
  <1>2. CASE ~tds_packet_write(s) /\ UNCHANGED send_packets
    <2>1. \A t \in Sessions : srv_open'[t] \in {"fin", "gone"} <=> srv_open[t] \in {"fin", "gone"}
      BY <1>0, <1>2 DEF Worker, Network, Server, PutReturns, NetClosed, NetWakeup, ReadHeader, ReadFin,
         Enter, ReadUnexpected, ReadPacket, NetError, ServerData, ServerAck, ServerFin, SrvUnchanged,
         tds_write_packet, PutAgain, PutRound, tds_update_recv_wnd, WaitTimeout, NetTimeout,
         tds_read_packet, srvVars, Stages
    <2>. QED  BY <1>2, <1>same, <2>1
  <1>3. CASE ~tds_packet_write(s) /\ ~UNCHANGED send_packets
    <2>1. srv_open' = srv_open
      <3>1. ~Server(s)
        BY <1>3 DEF Server, ServerData, ServerAck, ServerFin, SrvUnchanged
      <3>. QED  BY <1>3, <3>1 DEF Worker, Network, PutReturns, NetClosed, NetWakeup, ReadHeader,
             ReadFin, ReadUnexpected, ReadPacket, NetError,
             tds_write_packet, PutAgain, PutRound, tds_update_recv_wnd, WaitTimeout, NetTimeout,
             tds_read_packet, srvVars
    <2>2. PICK p \in Packets : /\ sp' = Append(sp, p) /\ p.sid = s
                               /\ p.type = "FIN" => dead'[s] /\ pc'[s] \in {"app", "put", "read"}
                               /\ ~dead[s] \/ pc[s] = "ack"
      BY <1>0, <1>3, QueueSteps DEF AddsData, AddsAck, AddsFin, Switches
    <2>3. ~FinSent(s)
      BY <2>2 DEF AfterFin
    <2>4. /\ \A i \in DOMAIN sp : i \in DOMAIN sp' /\ sp'[i] = sp[i] /\ i < Len(sp) + 1
          /\ sp'[Len(sp) + 1] = p
          /\ \A i \in DOMAIN sp' : i \in DOMAIN sp \/ i = Len(sp) + 1
      BY <1>0, <2>2, AppendAt DEF Queues
    <2>5. AfterFin'
      <3>. SUFFICES ASSUME NEW t \in Sessions, FinSent(t)'
                    PROVE  dead'[t] /\ pc'[t] \in {"app", "put", "read"}
        BY DEF AfterFin
      <3>1. FinSent(t) \/ (t = s /\ p.type = "FIN")
        BY <2>1, <2>2, <2>4 DEF FinSent
      <3>. QED  BY <1>dead, <2>2, <3>1
    <2>6. ASSUME NEW t \in Sessions, srv_open'[t] \in {"fin", "gone"}, NEW i \in DOMAIN sp'
          PROVE  sp'[i].sid # t
      BY <2>1, <2>2, <2>3, <2>4, <2>6 DEF FinIsLast, FinSent, Elems
    <2>7. ASSUME NEW t \in Sessions, NEW i \in DOMAIN sp', NEW j \in DOMAIN sp', i < j,
                 sp'[i].sid = t, sp'[i].type = "FIN"
          PROVE  sp'[j].sid # t
      <3>0. i \in DOMAIN sp
        <4>1. DOMAIN sp' \subseteq Int /\ Len(sp) \in Nat /\ \A k \in DOMAIN sp : k <= Len(sp)
          BY <1>0, <2>4 DEF Queues
        <4>. QED  BY <2>4, <2>7, <4>1
      <3>1. CASE j \in DOMAIN sp
        BY <2>4, <2>7, <3>0, <3>1 DEF FinIsLast
      <3>2. CASE j = Len(sp) + 1
        BY <2>2, <2>3, <2>4, <2>7, <3>0, <3>2 DEF FinSent
      <3>. QED  BY <2>4, <3>1, <3>2
    <2>8. FinIsLast'
      BY <2>6, <2>7 DEF FinIsLast, Elems
    <2>. QED  BY <2>5, <2>8
  <1>4. CASE tds_packet_write(s)
    <2>1. sp # <<>> /\ sp' = Tail(sp)
      BY <1>4, SessionsAssumption DEF tds_packet_write, Polling, InNet, PollsForWrite
    <2>2. PICK p : p = Head(sp) /\ p.sid \in Sessions
      BY <1>0, <2>1, HeadPacket DEF Queues
    <2>3. ServerReads(p)
      BY <1>4, <2>2 DEF tds_packet_write
    <2>4. /\ 1 \in DOMAIN sp /\ p = sp[1]
          /\ \A i \in DOMAIN sp' : i \in Nat /\ i + 1 \in DOMAIN sp /\ sp'[i] = sp[i + 1] /\ 1 < i + 1
      BY <1>0, <2>1, <2>2, TailAt DEF Queues
    <2>5. \A t \in Sessions : /\ srv_open'[t] \in {"fin", "gone"} =>
                                    srv_open[t] \in {"fin", "gone"} \/ (t = p.sid /\ p.type = "FIN")
                              /\ FinSent(t)' => FinSent(t)
      BY <1>0, <2>2, <2>3, <2>4 DEF ServerReads, FinSent, Stages
    <2>6. AfterFin'
      BY <1>dead, <2>5 DEF AfterFin
    <2>7. ASSUME NEW t \in Sessions, srv_open'[t] \in {"fin", "gone"}, NEW i \in DOMAIN sp'
          PROVE  sp'[i].sid # t
      <3>1. i + 1 \in DOMAIN sp /\ sp'[i] = sp[i + 1] /\ 1 < i + 1 /\ 1 \in DOMAIN sp /\ p = sp[1]
        BY <2>4
      <3>2. CASE srv_open[t] \in {"fin", "gone"}
        BY <3>1, <3>2 DEF FinIsLast, Elems
      <3>3. CASE t = p.sid /\ p.type = "FIN"
        BY <3>1, <3>3 DEF FinIsLast
      <3>. QED  BY <2>5, <2>7, <3>2, <3>3
    <2>8. ASSUME NEW t \in Sessions, NEW i \in DOMAIN sp', NEW j \in DOMAIN sp', i < j,
                 sp'[i].sid = t, sp'[i].type = "FIN"
          PROVE  sp'[j].sid # t
      <3>1. i + 1 \in DOMAIN sp /\ j + 1 \in DOMAIN sp /\ i + 1 < j + 1 /\ sp[i + 1].sid = t
            /\ sp[i + 1].type = "FIN" /\ sp'[j] = sp[j + 1]
        BY <2>4, <2>8
      <3>. QED  BY <3>1 DEF FinIsLast
    <2>9. FinIsLast'
      BY <2>7, <2>8 DEF FinIsLast, Elems
    <2>. QED  BY <2>6, <2>9
  <1>. QED  BY <1>2, <1>3, <1>4

----------------------------------------------------------------------------
(* Packets that are sent.                                                  *)

IsData(t, p) == p.sid = t /\ p.type = "DATA"

(* The DATA packets of a queue with one packet more.                       *)
LEMMA DataAppend ==
    ASSUME NEW queue \in Seq(Packets), NEW p \in Packets, NEW w, w = Append(queue, p),
           NEW t \in Sessions, ~IsData(t, p)
    PROVE  DataOf(t, w) = DataOf(t, queue) /\ \A i \in DataOf(t, queue) : w[i] = queue[i]
  <1>1. /\ \A i \in DOMAIN queue : i \in DOMAIN w /\ w[i] = queue[i]
        /\ Len(queue) + 1 \in DOMAIN w /\ w[Len(queue) + 1] = p
        /\ \A i \in DOMAIN w : i \in DOMAIN queue \/ i = Len(queue) + 1
    BY AppendAt
  <1>. QED  BY <1>1 DEF DataOf, IsData

(* The new one is its only one if there was none.                          *)
LEMMA DataAppendOwn ==
    ASSUME NEW queue \in Seq(Packets), NEW p \in Packets, NEW w, w = Append(queue, p),
           NEW t \in Sessions, IsData(t, p), DataOf(t, queue) = {}
    PROVE  /\ DataOf(t, w) # {} /\ \A i, j \in DataOf(t, w) : i = j
           /\ \A i \in DataOf(t, w) : w[i] = p
  <1>1. /\ \A i \in DOMAIN queue : i \in DOMAIN w /\ w[i] = queue[i]
        /\ Len(queue) + 1 \in DOMAIN w /\ w[Len(queue) + 1] = p
        /\ \A i \in DOMAIN w : i \in DOMAIN queue \/ i = Len(queue) + 1
    BY AppendAt
  <1>2. DataOf(t, w) = {Len(queue) + 1}
    BY <1>1 DEF DataOf, IsData
  <1>. QED  BY <1>1, <1>2

(* And of one with its first packet less.                                  *)
LEMMA DataTailAt ==
    ASSUME NEW queue \in Seq(Packets), queue # <<>>, NEW w, w = Tail(queue), NEW t \in Sessions
    PROVE  /\ \A i \in DataOf(t, w) : i \in Nat /\ i + 1 \in DataOf(t, queue) /\ w[i] = queue[i + 1]
           /\ \A i \in DataOf(t, queue) : i = 1 \/ i - 1 \in DataOf(t, w)
           /\ 1 \in DataOf(t, queue) => IsData(t, Head(queue))
  <1>1. /\ 1 \in DOMAIN queue /\ Head(queue) = queue[1]
        /\ \A i \in DOMAIN w : i \in Nat /\ i + 1 \in DOMAIN queue /\ w[i] = queue[i + 1] /\ 1 < i + 1
        /\ \A i \in DOMAIN queue : i = 1 \/ (i - 1 \in DOMAIN w /\ w[i - 1] = queue[i])
    BY TailAt
  <1>2. \A i \in DataOf(t, w) : i \in Nat /\ i + 1 \in DataOf(t, queue) /\ w[i] = queue[i + 1]
    BY <1>1 DEF DataOf
  <1>3. \A i \in DataOf(t, queue) : i = 1 \/ i - 1 \in DataOf(t, w)
    BY <1>1 DEF DataOf
  <1>4. 1 \in DataOf(t, queue) => IsData(t, Head(queue))
    BY <1>1 DEF DataOf, IsData
  <1>. QED  BY <1>2, <1>3, <1>4

(* They are some of those before.                                          *)
LEMMA DataTail ==
    ASSUME NEW queue \in Seq(Packets), queue # <<>>, NEW w, w = Tail(queue), NEW t \in Sessions
    PROVE  \A i \in DataOf(t, w) : w[i] \in {queue[j] : j \in DataOf(t, queue)}
  BY DataTailAt

(* One stays one.                                                          *)
LEMMA DataTailOne ==
    ASSUME NEW queue \in Seq(Packets), queue # <<>>, NEW w, w = Tail(queue), NEW t \in Sessions,
           \A i, j \in DataOf(t, queue) : i = j
    PROVE  \A i, j \in DataOf(t, w) : i = j
  <1>1. \A i \in DataOf(t, w) : i \in Nat /\ i + 1 \in DataOf(t, queue)
    BY DataTailAt
  <1>. SUFFICES ASSUME NEW i \in DataOf(t, w), NEW j \in DataOf(t, w)
                PROVE  i = j
    OBVIOUS
  <1>2. i + 1 = j + 1 /\ i \in Nat /\ j \in Nat
    BY <1>1
  <1>. QED  BY <1>2

(* None goes with the packet of another session.                           *)
LEMMA DataTailOther ==
    ASSUME NEW queue \in Seq(Packets), queue # <<>>, NEW w, w = Tail(queue), NEW t \in Sessions,
           ~IsData(t, Head(queue))
    PROVE  DataOf(t, queue) = {} <=> DataOf(t, w) = {}
  <1>1. /\ \A i \in DataOf(t, w) : i + 1 \in DataOf(t, queue)
        /\ \A i \in DataOf(t, queue) : i = 1 \/ i - 1 \in DataOf(t, w)
        /\ 1 \in DataOf(t, queue) => IsData(t, Head(queue))
    BY DataTailAt
  <1>. QED  BY <1>1

(* The first packet, if it is DATA, is the only one queued by its session. *)
LEMMA DataHead ==
    ASSUME NEW queue \in Seq(Packets), queue # <<>>, NEW w, w = Tail(queue), NEW t \in Sessions,
           IsData(t, Head(queue)), \A i, j \in DataOf(t, queue) : i = j
    PROVE  DataOf(t, w) = {} /\ \E n \in DataOf(t, queue) : queue[n] = Head(queue)
  <1>1. /\ 1 \in DOMAIN queue /\ Head(queue) = queue[1]
        /\ \A i \in DOMAIN w : i \in Nat /\ i + 1 \in DOMAIN queue /\ w[i] = queue[i + 1] /\ 1 < i + 1
    BY TailAt
  <1>2. 1 \in DataOf(t, queue)
    BY <1>1 DEF DataOf, IsData
  <1>3. \A i \in DataOf(t, w) : i \in Nat /\ i + 1 \in DataOf(t, queue) /\ 1 < i + 1
    BY <1>1 DEF DataOf
  <1>4. ASSUME NEW i \in DataOf(t, w)
        PROVE  FALSE
    <2>1. i \in Nat /\ i + 1 = 1 /\ 1 < i + 1
      BY <1>2, <1>3
    <2>. QED  BY <2>1
  <1>. QED  BY <1>1, <1>2, <1>4

(* At most one DATA packet of a session is in the queue.                   *)
LEMMA StepQueued ==
    ASSUME TypeOK, OneNetworkThread, PollsForWrite, OneQueued, SendingFollows, [Next]_vars
    PROVE  OneQueued'
  <1>0. Control /\ Queues /\ Numbers /\ Stages /\ Switches
    BY TypeParts
  <1>same. ASSUME UNCHANGED <<send_packets, send_seq, seen>>
           PROVE  OneQueued'
    BY <1>same DEF OneQueued
  <1>1. CASE UNCHANGED vars
    BY <1>1, <1>same DEF vars
  <1>. SUFFICES ASSUME NEW s \in Sessions,
                       \/ tds_write_packet(s) \/ Worker(s) \/ WaitTimeout(s)
                       \/ Network(s) \/ NetTimeout(s) \/ NetError(s) \/ Server(s)
                PROVE  OneQueued'
    BY <1>1 DEF Next
  <1>2. ~tds_packet_write(s) => seen' = seen
    BY DEF Worker, Network, Server, PutReturns, NetClosed, NetWakeup, ReadHeader, ReadFin,
       Enter, ReadUnexpected, ReadPacket, NetError, ServerData, ServerAck, ServerFin, SrvUnchanged,
       tds_write_packet, PutAgain, PutRound, tds_update_recv_wnd, WaitTimeout, NetTimeout,
       tds_read_packet, srvVars
  <1>q. PICK q \in Seq(Packets) : q = send_packets
    BY <1>0 DEF Queues
  <1>w. PICK w : w = send_packets'
    OBVIOUS
  <1>. SUFFICES ASSUME NEW t \in Sessions
                PROVE  /\ \A i, j \in DataOf(t, w) : i = j
                       /\ \A i \in DataOf(t, w) : w[i].seq = send_seq'[t]
                       /\ send_seq'[t] = IF DataOf(t, w) = {} THEN seen'[t] ELSE Plus(seen'[t], 1)
    BY <1>w DEF OneQueued
  <1>now. /\ \A i, j \in DataOf(t, q) : i = j
          /\ \A i \in DataOf(t, q) : q[i].seq = send_seq[t]
          /\ send_seq[t] = IF DataOf(t, q) = {} THEN seen[t] ELSE Plus(seen[t], 1)
    BY <1>q DEF OneQueued
  <1>3. ASSUME NEW p \in Packets, w = Append(q, p), ~IsData(t, p),
               send_seq'[t] = send_seq[t], seen' = seen
        PROVE  /\ \A i, j \in DataOf(t, w) : i = j
               /\ \A i \in DataOf(t, w) : w[i].seq = send_seq'[t]
               /\ send_seq'[t] = IF DataOf(t, w) = {} THEN seen'[t] ELSE Plus(seen'[t], 1)
    <2>1. DataOf(t, w) = DataOf(t, q) /\ \A i \in DataOf(t, q) : w[i] = q[i]
      BY <1>3, DataAppend
    <2>. QED  BY <1>3, <1>now, <2>1
  <1>4. CASE ~tds_packet_write(s) /\ (AddsAck(s) \/ AddsFin(s))
    <2>1. PICK p \in Packets : w = Append(q, p) /\ p.type # "DATA" /\ UNCHANGED send_seq
      BY <1>4, <1>q, <1>w DEF AddsAck, AddsFin
    <2>. QED  BY <1>2, <1>3, <1>4, <2>1 DEF IsData
  <1>5. CASE ~tds_packet_write(s) /\ AddsData(s)
    <2>1. PICK p \in Packets : /\ w = Append(q, p) /\ p.sid = s /\ p.type = "DATA"
                               /\ p.seq = Plus(send_seq[s], 1)
                               /\ send_seq' = [send_seq EXCEPT ![s] = Plus(@, 1)]
                               /\ ~dead[s] /\ (held[s] \/ pc[s] = "app")
      BY <1>5, <1>q, <1>w DEF AddsData
    <2>2. CASE t = s
      <3>1. DataOf(s, q) = {} /\ send_seq[s] = seen[s] /\ send_seq'[s] = Plus(seen[s], 1)
        BY <1>0, <1>q, <2>1 DEF SendingFollows, OneQueued, Numbers
      <3>2. /\ DataOf(s, w) # {} /\ \A i, j \in DataOf(s, w) : i = j
            /\ \A i \in DataOf(s, w) : w[i] = p
        <4>1. w = Append(q, p) /\ IsData(s, p) /\ DataOf(s, q) = {}
          BY <2>1, <3>1 DEF IsData
        <4>. QED  BY <4>1, DataAppendOwn
      <3>. QED  BY <1>2, <1>5, <2>1, <2>2, <3>1, <3>2
    <2>3. CASE t # s
      <3>1. send_seq'[t] = send_seq[t]
        BY <1>0, <2>1, <2>3 DEF Numbers
      <3>. QED  BY <1>2, <1>3, <1>5, <2>1, <2>3, <3>1 DEF IsData
    <2>. QED  BY <2>2, <2>3
  <1>6. CASE tds_packet_write(s)
    <2>1. q # <<>> /\ w = Tail(q) /\ UNCHANGED send_seq /\ q \in Seq(Packets)
      BY <1>0, <1>6, <1>q, <1>w, SessionsAssumption
         DEF tds_packet_write, Polling, InNet, PollsForWrite, seqVars, Queues
    <2>2. PICK p : p = Head(q) /\ p.sid \in Sessions
      BY <1>0, <2>1, HeadPacket DEF Queues
    <2>3. seen' = IF p.type = "DATA" THEN [seen EXCEPT ![p.sid] = p.seq] ELSE seen
      BY <1>6, <1>q, <2>2 DEF tds_packet_write, ServerReads
    <2>4. /\ \A i, j \in DataOf(t, w) : i = j
          /\ \A i \in DataOf(t, w) : w[i].seq = send_seq[t]
      <3>1. q # <<>> /\ w = Tail(q)
        BY <2>1
      <3>2. \A i, j \in DataOf(t, w) : i = j
        BY <1>now, <3>1, DataTailOne
      <3>3. \A i \in DataOf(t, w) : w[i] \in {q[j] : j \in DataOf(t, q)}
        BY <3>1, DataTail
      <3>. QED  BY <1>now, <3>2, <3>3
    <2>5. CASE IsData(t, p)
      <3>0. DataOf(t, w) = {} /\ \E n \in DataOf(t, q) : q[n] = p
        BY <1>now, <2>1, <2>2, <2>5, DataHead
      <3>1. DataOf(t, w) = {} /\ p.seq = send_seq[t]
        BY <1>now, <3>0
      <3>2. seen'[t] = p.seq
        BY <1>0, <2>3, <2>5 DEF Numbers, IsData
      <3>. QED  BY <2>1, <2>4, <3>1, <3>2
    <2>6. CASE ~IsData(t, p)
      <3>1. seen'[t] = seen[t]
        BY <1>0, <2>2, <2>3, <2>6 DEF Numbers, IsData
      <3>2. DataOf(t, w) = {} <=> DataOf(t, q) = {}
        BY <2>1, <2>2, <2>6, DataTailOther
      <3>. QED  BY <1>now, <2>1, <2>4, <3>1, <3>2
    <2>. QED  BY <2>5, <2>6
  <1>7. CASE UNCHANGED <<send_packets, send_seq>> /\ ~tds_packet_write(s)
    BY <1>2, <1>7, <1>now, <1>q, <1>w
  <1>. QED  BY <1>4, <1>5, <1>6, <1>7, QueueSteps

Putting == {"put", "putwait", "putnet"}

(* A thread leaves tds_connection_put_packet() when it returns, or when it *)
(* gives the session up.                                                   *)
LEMMA PutStays ==
    ASSUME TypeOK, OneNetworkThread, NEW s \in Sessions,
           \/ tds_write_packet(s) \/ Worker(s) \/ WaitTimeout(s)
           \/ Network(s) \/ NetTimeout(s) \/ NetError(s) \/ Server(s),
           NEW t \in Sessions, pc[t] \in Putting
    PROVE  pc'[t] \in Putting \/ (t = s /\ (PutReturns(s) \/ (WaitTimeout(s) /\ tds_close_socket(s))))
  <1>0. Control /\ Queues /\ Switches
    BY TypeParts
  <1>. USE DEF Putting
  <1>sig. \A u : Signalled(pc, u)[t] \in Putting
    BY <1>0 DEF Signalled, Control, Pcs
  <1>1. CASE tds_write_packet(s) \/ PutAgain(s)
    BY <1>0, <1>1 DEF tds_write_packet, PutAgain, PutRound, MayPut, Enter, Control, Pcs
  <1>2. CASE PutReturns(s)
    BY <1>0, <1>2 DEF PutReturns, Control, Pcs
  <1>3. CASE tds_read_packet(s)
    BY <1>0, <1>3 DEF tds_read_packet, Enter, Control, Pcs
  <1>4. CASE tds_update_recv_wnd(s)
    BY <1>0, <1>4 DEF tds_update_recv_wnd, Control, Pcs
  <1>5. CASE WaitTimeout(s)
    <2>1. pc' = Signalled(pc, s) \/ (pc' = [pc EXCEPT ![s] = "app"] /\ tds_close_socket(s))
      BY <1>5 DEF WaitTimeout
    <2>. QED  BY <1>0, <1>5, <1>sig, <2>1 DEF Control, Pcs
  <1>6. CASE Network(s) \/ NetTimeout(s) \/ NetError(s)
    <2>1. \/ pc' = pc \/ (\E u : pc' = Signalled(pc, u)) \/ Leave(s, pc)
          \/ \E u : Leave(s, Signalled(pc, u))
      BY <1>6 DEF Network, NetTimeout, NetError, NetClosed, tds_packet_write, NetWakeup,
         ReadHeader, ReadFin, ReadUnexpected, ReadPacket
    <2>2. s = t => pc[t] = "putnet" /\ \A u : Signalled(pc, u)[t] = "putnet"
      <3>1. in_net = s
        BY <1>6 DEF Network, NetTimeout, NetError, NetClosed, tds_packet_write, NetWakeup,
           ReadHeader, ReadFin, ReadUnexpected, ReadPacket, Polling, InNet
      <3>. QED  BY <1>0, <3>1 DEF OneNetworkThread, Control, Pcs, Signalled
    <2>3. ASSUME NEW pcs, Leave(s, pcs), pcs[t] \in Putting, DOMAIN pcs = Sessions,
                 s = t => pcs[t] = "putnet"
          PROVE  pc'[t] \in Putting
      BY <2>3 DEF Leave
    <2>4. DOMAIN pc = Sessions /\ \A u : DOMAIN Signalled(pc, u) = Sessions
      BY <1>0 DEF Control, Pcs, Signalled
    <2>. QED  BY <1>sig, <2>1, <2>2, <2>3, <2>4
  <1>7. CASE Server(s)
    BY <1>7 DEF Server, ServerData, ServerAck, ServerFin, SrvUnchanged
  <1>. QED  BY <1>1, <1>2, <1>3, <1>4, <1>5, <1>6, <1>7 DEF Worker

(* A session that is given up is dead.                                     *)
LEMMA CloseKills ==
    ASSUME TypeOK, SendingFollows, NEW s \in Sessions, tds_close_socket(s)
    PROVE  dead'[s]
  <1>0. Switches /\ Stages
    BY TypeParts
  <1>1. CASE dead[s]
    BY <1>0, <1>1 DEF tds_close_socket, Switches
  <1>2. CASE ~dead[s]
    <2>1. slot[s] = "open"
      BY <1>2 DEF SendingFollows
    <2>. QED  BY <1>0, <1>2, <2>1 DEF tds_close_socket, tds_connection_close, Switches
  <1>. QED  BY <1>1, <1>2

(* A session that lives keeps its place in conn->sessions.                 *)
LEMMA LiveIsOpen ==
    ASSUME TypeOK, OneNetworkThread, SendingFollows, [Next]_vars, NEW t \in Sessions, ~dead'[t]
    PROVE  ~dead[t] /\ slot'[t] = "open"
  <1>0. Switches /\ Stages /\ Queues /\ Numbers
    BY TypeParts
  <1>1. ~dead[t]
    BY DeadStays
  <1>2. slot[t] = "open"
    BY <1>1 DEF SendingFollows
  <1>3. CASE slot' = slot
    BY <1>1, <1>2, <1>3
  <1>4. CASE ~UNCHANGED vars /\ slot' # slot
    <2>1. PICK s \in Sessions : \/ tds_write_packet(s) \/ Worker(s) \/ WaitTimeout(s)
                                \/ Network(s) \/ NetTimeout(s) \/ NetError(s) \/ Server(s)
      BY <1>4 DEF Next
    <2>2. ReadFin(s) \/ ((WaitTimeout(s) \/ NetTimeout(s)) /\ tds_close_socket(s))
      BY <1>4, <2>1 DEF Worker, Network, Server, PutReturns, NetClosed, NetWakeup, ReadUnexpected, NetError, ReadPacket,
         ReadHeader, tds_write_packet, PutAgain, PutRound, tds_update_recv_wnd, tds_read_packet,
         tds_packet_write, ServerData, ServerAck, ServerFin, SrvUnchanged, WaitTimeout, NetTimeout,
         tds_connection_close, connVars
    <2>3. CASE ReadFin(s)
      BY <1>0, <1>1, <1>2, <2>3 DEF ReadFin, Stages
    <2>4. CASE tds_close_socket(s)
      <3>1. t # s
        BY <2>4, CloseKills
      <3>2. slot' = [slot EXCEPT ![s] = "busy"]
        BY <1>4, <2>4 DEF tds_close_socket, tds_connection_close
      <3>. QED  BY <1>0, <1>1, <1>2, <3>1, <3>2 DEF Stages
    <2>. QED  BY <2>2, <2>3, <2>4
  <1>5. CASE UNCHANGED vars
    BY <1>3, <1>5 DEF vars
  <1>. QED  BY <1>3, <1>4, <1>5

(* A live session has a packet queued only while its thread waits for it.  *)
LEMMA StepSending ==
    ASSUME TypeOK, OneNetworkThread, PollsForWrite, OneQueued, SendingFollows, [Next]_vars
    PROVE  SendingFollows'
  <1>0. Control /\ Queues /\ Numbers /\ Stages /\ Switches
    BY TypeParts
  <1>. SUFFICES ASSUME NEW t \in Sessions, ~dead'[t]
                PROVE  /\ slot'[t] = "open"
                       /\ sending'[t] => pc'[t] \in Putting
                       /\ held'[t] => sending'[t]
                       /\ held'[t] \/ ~sending'[t] => DataOf(t, send_packets') = {}
    BY DEF SendingFollows, Putting
  <1>live. ~dead[t] /\ slot'[t] = "open"
    BY LiveIsOpen
  <1>now. /\ slot[t] = "open"
          /\ sending[t] => pc[t] \in Putting
          /\ held[t] => sending[t]
          /\ held[t] \/ ~sending[t] => DataOf(t, send_packets) = {}
    BY <1>live DEF SendingFollows, Putting
  <1>1. CASE UNCHANGED vars
    BY <1>1, <1>now DEF vars
  <1>. SUFFICES ASSUME NEW s \in Sessions,
                       \/ tds_write_packet(s) \/ Worker(s) \/ WaitTimeout(s)
                       \/ Network(s) \/ NetTimeout(s) \/ NetError(s) \/ Server(s)
                PROVE  /\ slot'[t] = "open"
                       /\ sending'[t] => pc'[t] \in Putting
                       /\ held'[t] => sending'[t]
                       /\ held'[t] \/ ~sending'[t] => DataOf(t, send_packets') = {}
    BY <1>1 DEF Next
  <1>stay. sending[t] => pc'[t] \in Putting \/ (t = s /\ PutReturns(s))
    BY <1>now, PutStays, CloseKills
  <1>2. CASE t = s /\ tds_write_packet(s)
    <2>1. sending'[t] /\ pc[t] = "app"
      BY <1>0, <1>2 DEF tds_write_packet, Switches
    <2>2. pc'[t] \in Putting
      BY <1>0, <1>2 DEF tds_write_packet, PutRound, Enter, Control, Pcs, Putting
    <2>3. DataOf(t, send_packets) = {}
      BY <1>now, <2>1 DEF Putting
    <2>4. held'[t] => send_packets' = send_packets
      BY <1>0, <1>2 DEF tds_write_packet, PutRound, AppendData, Switches
    <2>. QED  BY <1>live, <2>1, <2>2, <2>3, <2>4
  <1>3. CASE t = s /\ PutAgain(s)
    <2>1. sending'[t] /\ sending[t]
      BY <1>3 DEF PutAgain
    <2>2. held'[t] => send_packets' = send_packets /\ held[t]
      BY <1>0, <1>3 DEF PutAgain, PutRound, AppendData, Switches
    <2>3. ~PutReturns(s)
      BY <1>3, <1>live, <2>1 DEF PutReturns
    <2>. QED  BY <1>live, <1>now, <1>stay, <2>1, <2>2, <2>3
  <1>4. CASE t = s /\ PutReturns(s)
    <2>1. ~sending[t] /\ ~sending'[t] /\ ~held'[t] /\ send_packets' = send_packets
      BY <1>0, <1>4, <1>live DEF PutReturns, Switches
    <2>. QED  BY <1>live, <1>now, <2>1
  <1>5. CASE tds_packet_write(s)
    <2>0. PICK q \in Seq(Packets) : q = send_packets
      BY <1>0 DEF Queues
    <2>1. q # <<>> /\ send_packets' = Tail(q) /\ held' = held
      BY <1>5, <2>0, SessionsAssumption DEF tds_packet_write, Polling, InNet, PollsForWrite
    <2>2. PICK p : p = Head(q) /\ p.sid \in Sessions
      BY <2>1, HeadPacket
    <2>3. sending' = Unsent(p)
      BY <1>5, <2>0, <2>2 DEF tds_packet_write
    <2>4. ~PutReturns(s)
      BY <1>5 DEF tds_packet_write, PutReturns, Polling, InNet, OneNetworkThread
    <2>5. CASE IsData(t, p)
      <3>1. /\ DataOf(t, send_packets') = {}
            /\ \E n \in DataOf(t, q) : q[n] = p
        BY <2>0, <2>1, <2>2, <2>5, DataHead DEF OneQueued
      <3>2. DataOf(t, send_packets) # {}
        BY <2>0, <3>1
      <3>3. ~sending'[t]
        BY <1>0, <1>now, <2>3, <2>5 DEF Unsent, IsData, Switches
      <3>. QED  BY <1>live, <1>now, <2>1, <3>1, <3>2, <3>3
    <2>6. CASE ~IsData(t, p)
      <3>1. DataOf(t, q) = {} <=> DataOf(t, send_packets') = {}
        BY <2>1, <2>2, <2>6, DataTailOther
      <3>2. sending'[t] = sending[t]
        BY <1>0, <2>2, <2>3, <2>6 DEF Unsent, IsData, Switches
      <3>. QED  BY <1>live, <1>now, <1>stay, <2>0, <2>1, <2>4, <3>1, <3>2
    <2>. QED  BY <2>5, <2>6
  <1>6. CASE ~tds_packet_write(s) /\ ~(t = s /\ (tds_write_packet(s) \/ PutAgain(s) \/ PutReturns(s)))
    <2>1. sending'[t] = sending[t] /\ held'[t] = held[t]
      <3>1. ~(t = s /\ tds_close_socket(s))
        BY CloseKills
      <3>. QED  BY <1>0, <1>6, <3>1 DEF Worker, Network, Server, PutReturns, NetClosed, NetWakeup,
             ReadUnexpected, NetError, ReadPacket, ReadHeader, ReadFin, tds_write_packet, PutAgain, PutRound,
             AppendData, tds_update_recv_wnd, tds_read_packet, ServerData, ServerAck, ServerFin,
             SrvUnchanged, WaitTimeout, NetTimeout, Switches
    <2>2. \/ send_packets' = send_packets
          \/ \E p \in Packets : send_packets' = Append(send_packets, p) /\ ~IsData(t, p)
      BY <1>6, QueueSteps DEF AddsData, AddsAck, AddsFin, IsData
    <2>3. DataOf(t, send_packets') = DataOf(t, send_packets)
      BY <1>0, <2>2, DataAppend DEF Queues
    <2>. QED  BY <1>6, <1>live, <1>now, <1>stay, <2>1, <2>3
  <1>. QED  BY <1>2, <1>3, <1>4, <1>5, <1>6

----------------------------------------------------------------------------
(* Windows.                                                                *)

(* Gaps, when the sequence number they are counted from moves on.          *)
LEMMA GapType ==
    ASSUME NEW x \in Seqs, NEW b \in Seqs
    PROVE  Gap(x, b) \in Nat /\ Gap(x, b) < SeqMod /\ (Gap(x, b) = 0 <=> x = b)
  <1>1. CASE x >= b
    BY <1>1, Constants DEF Gap, Seqs
  <1>2. CASE x < b
    BY <1>2, Constants DEF Gap, Seqs
  <1>. QED  BY <1>1, <1>2, Constants DEF Seqs

(* The value of a sum.                                                     *)
LEMMA PlusCases ==
    ASSUME NEW b \in Seqs, NEW n \in Seqs
    PROVE  Plus(b, n) = IF b + n < SeqMod THEN b + n ELSE b + n - SeqMod
  <1>1. CASE b + n < SeqMod
    BY <1>1, Constants DEF Plus, Seqs
  <1>2. CASE b + n >= SeqMod
    BY <1>2, Constants DEF Plus, Seqs
  <1>3. n \in Int /\ b \in Int /\ SeqMod \in Int
    BY Constants DEF Seqs
  <1>. QED  BY <1>1, <1>2, <1>3

(* And of a difference.                                                    *)
LEMMA GapCases ==
    ASSUME NEW x \in Seqs, NEW b \in Seqs
    PROVE  Gap(x, b) = IF b <= x THEN x - b ELSE x - b + SeqMod
  <1>1. CASE b <= x
    BY <1>1, Constants DEF Gap, Seqs
  <1>2. CASE x < b
    BY <1>2, Constants DEF Gap, Seqs
  <1>. QED  BY <1>1, <1>2 DEF Seqs

(* A gap is one less when one packet was seen.                             *)
LEMMA GapNext ==
    ASSUME NEW x \in Seqs, NEW b \in Seqs, Gap(x, b) # 0
    PROVE  Gap(x, Plus(b, 1)) = Gap(x, b) - 1
  <1>1. 1 \in Seqs
    BY Constants DEF Seqs
  <1>2. PICK c \in Seqs : c = Plus(b, 1) /\ c = IF b + 1 < SeqMod THEN b + 1 ELSE b + 1 - SeqMod
    BY <1>1, PlusType, PlusCases
  <1>3. Gap(x, c) = (IF c <= x THEN x - c ELSE x - c + SeqMod)
        /\ Gap(x, b) = (IF b <= x THEN x - b ELSE x - b + SeqMod)
    BY GapCases
  <1>. QED  BY <1>2, <1>3, Constants DEF Seqs

(* A sum is ahead by what was added.                                       *)
LEMMA GapPlus ==
    ASSUME NEW b \in Seqs, NEW n \in Seqs
    PROVE  Gap(Plus(b, n), b) = n
  <1>0. n \in Nat
    BY Constants DEF Seqs
  <1>1. PICK c \in Seqs : c = Plus(b, n) /\ c = IF b + n < SeqMod THEN b + n ELSE b + n - SeqMod
    BY <1>0, PlusType, PlusCases
  <1>2. Gap(c, b) = (IF b <= c THEN c - b ELSE c - b + SeqMod)
    BY GapCases
  <1>. QED  BY <1>1, <1>2, Constants DEF Seqs

(* What is in a queue.                                                     *)
LEMMA ItemType ==
    ASSUME NEW queue \in Seq(Packets)
    PROVE  \A i \in DOMAIN queue : /\ i \in Nat /\ queue[i] \in Packets
                                   /\ queue[i].wnd \in Seqs /\ queue[i].seq \in Seqs
  <1>1. \A i \in DOMAIN queue : i \in Nat /\ queue[i] \in Packets
    OBVIOUS
  <1>. QED  BY <1>1 DEF Packets

(* A packet for another session.                                           *)
LEMMA GrowAppendOther ==
    ASSUME NEW queue \in Seq(Packets), NEW p \in Packets, NEW w, w = Append(queue, p),
           NEW t \in Sessions, p.sid # t, NEW b, NEW low, NEW high, Grow(t, queue, b, low, high)
    PROVE  Grow(t, w, b, low, high)
  <1>1. /\ \A i \in DOMAIN queue : i \in DOMAIN w /\ w[i] = queue[i]
        /\ Len(queue) + 1 \in DOMAIN w /\ w[Len(queue) + 1] = p
        /\ \A i \in DOMAIN w : i \in DOMAIN queue \/ i = Len(queue) + 1
    BY AppendAt
  <1>2. For(t, w) = For(t, queue) /\ \A i \in For(t, queue) : w[i] = queue[i]
    BY <1>1 DEF For
  <1>. QED  BY <1>2 DEF Grow

(* A packet with a window at least as wide becomes the last.               *)
LEMMA GrowAppendOwn ==
    ASSUME NEW queue \in Seq(Packets), NEW p \in Packets, NEW w, w = Append(queue, p),
           NEW t \in Sessions, NEW b \in Seqs, NEW low \in Seqs, NEW high \in Seqs,
           Grow(t, queue, b, low, high), Gap(high, b) <= Gap(p.wnd, b)
    PROVE  Grow(t, w, b, low, p.wnd)
  <1>1. /\ \A i \in DOMAIN queue : i \in DOMAIN w /\ w[i] = queue[i] /\ i < Len(queue) + 1
        /\ Len(queue) + 1 \in DOMAIN w /\ w[Len(queue) + 1] = p
        /\ \A i \in DOMAIN w : i \in DOMAIN queue \/ i = Len(queue) + 1
    BY AppendAt
  <1>2. /\ \A i \in For(t, w) : i = Len(queue) + 1 \/ (i \in For(t, queue) /\ w[i] = queue[i])
        /\ \A i \in For(t, queue) : i < Len(queue) + 1
    BY <1>1 DEF For
  <1>3. p.wnd \in Seqs /\ \A i \in For(t, queue) : queue[i].wnd \in Seqs /\ i \in Nat
    <2>1. p.wnd \in Seqs
      BY DEF Packets
    <2>. QED  BY <2>1, ItemType DEF For
  <1>4. Gap(low, b) \in Nat /\ Gap(high, b) \in Nat /\ Gap(p.wnd, b) \in Nat
        /\ \A i \in For(t, queue) : Gap(queue[i].wnd, b) \in Nat
    BY <1>3, GapType
  <1>5. Gap(low, b) <= Gap(p.wnd, b)
    BY <1>4 DEF Grow
  <1>6. \A i \in For(t, queue) : Gap(low, b) <= Gap(queue[i].wnd, b) /\ Gap(queue[i].wnd, b) <= Gap(p.wnd, b)
    BY <1>4 DEF Grow
  <1>7. \A i \in For(t, w) : Gap(low, b) <= Gap(w[i].wnd, b) /\ Gap(w[i].wnd, b) <= Gap(p.wnd, b)
    <2>. SUFFICES ASSUME NEW i \in For(t, w)
                  PROVE  Gap(low, b) <= Gap(w[i].wnd, b) /\ Gap(w[i].wnd, b) <= Gap(p.wnd, b)
      OBVIOUS
    <2>1. CASE w[i] = p
      BY <1>4, <1>5, <2>1
    <2>2. CASE i \in For(t, queue) /\ w[i] = queue[i]
      BY <1>6, <2>2
    <2>. QED  BY <1>1, <1>2, <2>1, <2>2
  <1>8. ASSUME NEW i \in For(t, w), NEW j \in For(t, w), i < j
        PROVE  Gap(w[i].wnd, b) <= Gap(w[j].wnd, b)
    <2>1. CASE j = Len(queue) + 1
      BY <1>1, <1>7, <2>1
    <2>2. CASE j # Len(queue) + 1
      <3>1. j \in For(t, queue) /\ w[j] = queue[j] /\ j \in Nat /\ j < Len(queue) + 1
        BY <1>2, <1>3, <2>2
      <3>2. i # Len(queue) + 1
        BY <1>8, <3>1
      <3>3. i \in For(t, queue) /\ w[i] = queue[i]
        BY <1>2, <3>2
      <3>. QED  BY <1>8, <3>1, <3>3 DEF Grow
    <2>. QED  BY <2>1, <2>2
  <1>. QED  BY <1>5, <1>7, <1>8 DEF Grow

(* The first packet is taken.                                              *)
LEMMA GrowTail ==
    ASSUME NEW queue \in Seq(Packets), queue # <<>>, NEW w, w = Tail(queue), NEW t \in Sessions,
           NEW b, NEW low, NEW high, Grow(t, queue, b, low, high)
    PROVE  Grow(t, w, b, low, high)
  <1>1. \A i \in DOMAIN w : i \in Nat /\ i + 1 \in DOMAIN queue /\ w[i] = queue[i + 1]
    BY TailAt
  <1>2. \A i \in For(t, w) : i \in Nat /\ i + 1 \in For(t, queue) /\ w[i] = queue[i + 1]
    BY <1>1 DEF For
  <1>3. ASSUME NEW i \in For(t, w), NEW j \in For(t, w), i < j
        PROVE  Gap(w[i].wnd, b) <= Gap(w[j].wnd, b)
    <2>1. i + 1 \in For(t, queue) /\ j + 1 \in For(t, queue) /\ i + 1 < j + 1
          /\ w[i] = queue[i + 1] /\ w[j] = queue[j + 1]
      <3>1. i \in Nat /\ j \in Nat
        BY <1>2
      <3>2. i + 1 < j + 1
        BY <1>3, <3>1
      <3>. QED  BY <1>2, <3>2
    <2>. QED  BY <2>1 DEF Grow
  <1>4. /\ Gap(low, b) <= Gap(high, b)
        /\ \A i \in For(t, w) : Gap(low, b) <= Gap(w[i].wnd, b) /\ Gap(w[i].wnd, b) <= Gap(high, b)
    BY <1>2 DEF Grow
  <1>. QED  BY <1>3, <1>4 DEF Grow

(* The session learns of the first window.                                 *)
LEMMA GrowHead ==
    ASSUME NEW queue \in Seq(Packets), queue # <<>>, NEW t \in Sessions, Head(queue).sid = t,
           NEW b \in Seqs, NEW low \in Seqs, NEW high \in Seqs, Grow(t, queue, b, low, high)
    PROVE  Grow(t, queue, b, Head(queue).wnd, high) /\ Gap(low, b) <= Gap(Head(queue).wnd, b)
  <1>1. /\ 1 \in DOMAIN queue /\ Head(queue) = queue[1]
        /\ \A i \in DOMAIN queue : i \in Int /\ 1 <= i
    BY TailAt
  <1>2. 1 \in For(t, queue) /\ \A i \in For(t, queue) : i \in Int /\ 1 <= i
    BY <1>1 DEF For
  <1>3. queue[1].wnd \in Seqs
    BY <1>1, ItemType
  <1>4. Gap(queue[1].wnd, b) \in Nat
    BY <1>3, GapType
  <1>5. \A i \in For(t, queue) : Gap(queue[1].wnd, b) <= Gap(queue[i].wnd, b)
    <2>. SUFFICES ASSUME NEW i \in For(t, queue)
                  PROVE  Gap(queue[1].wnd, b) <= Gap(queue[i].wnd, b)
      OBVIOUS
    <2>1. CASE i = 1
      BY <1>4, <2>1
    <2>2. CASE i # 1
      <3>1. 1 < i
        BY <1>2, <2>2
      <3>. QED  BY <1>2, <3>1 DEF Grow
    <2>. QED  BY <2>1, <2>2
  <1>6. Gap(low, b) <= Gap(queue[1].wnd, b) /\ Gap(queue[1].wnd, b) <= Gap(high, b)
    BY <1>2 DEF Grow
  <1>7. Grow(t, queue, b, queue[1].wnd, high)
    BY <1>5, <1>6 DEF Grow
  <1>. QED  BY <1>1, <1>6, <1>7

(* The server has seen one packet more.                                    *)
LEMMA GrowNext ==
    ASSUME NEW queue \in Seq(Packets), NEW t \in Sessions, NEW b \in Seqs, NEW low \in Seqs,
           NEW high \in Seqs, Grow(t, queue, b, low, high), Gap(low, b) # 0
    PROVE  Grow(t, queue, Plus(b, 1), low, high)
  <1>1. \A i \in For(t, queue) : queue[i].wnd \in Seqs
    BY ItemType DEF For
  <1>2. Gap(low, b) \in Nat /\ Gap(high, b) \in Nat
        /\ \A i \in For(t, queue) : Gap(queue[i].wnd, b) \in Nat
    BY <1>1, GapType
  <1>3. Gap(low, Plus(b, 1)) = Gap(low, b) - 1
    BY GapNext
  <1>4. Gap(high, b) # 0 /\ \A i \in For(t, queue) : Gap(queue[i].wnd, b) # 0
    BY <1>2 DEF Grow
  <1>5. /\ Gap(high, Plus(b, 1)) = Gap(high, b) - 1
        /\ \A i \in For(t, queue) : Gap(queue[i].wnd, Plus(b, 1)) = Gap(queue[i].wnd, b) - 1
    BY <1>1, <1>4, GapNext
  <1>6. Gap(low, Plus(b, 1)) <= Gap(high, Plus(b, 1))
    BY <1>2, <1>3, <1>5 DEF Grow
  <1>7. \A i \in For(t, queue) : /\ Gap(low, Plus(b, 1)) <= Gap(queue[i].wnd, Plus(b, 1))
                                 /\ Gap(queue[i].wnd, Plus(b, 1)) <= Gap(high, Plus(b, 1))
    BY <1>2, <1>3, <1>5 DEF Grow
  <1>8. \A i, j \in For(t, queue) : i < j => Gap(queue[i].wnd, Plus(b, 1)) <= Gap(queue[j].wnd, Plus(b, 1))
    BY <1>2, <1>5 DEF Grow
  <1>. QED  BY <1>6, <1>7, <1>8 DEF Grow

(* The windows on their way grow, and have room for the packet queued.     *)
LEMMA StepWindows ==
    ASSUME TypeOK, OneNetworkThread, PollsForWrite, OneQueued, SendingFollows, Windows, [Next]_vars
    PROVE  Windows'
  <1>0. Control /\ Queues /\ Numbers /\ Stages /\ Switches
    BY TypeParts
  <1>. SUFFICES ASSUME NEW t \in Sessions
                PROVE  /\ DataOf(t, send_packets') # {} => Gap(send_wnd'[t], seen'[t]) # 0
                       /\ Gap(grant'[t], seen'[t]) <= Wnd
                       /\ Grow(t, inbox', seen'[t], send_wnd'[t], grant'[t])
    BY DEF Windows
  <1>now. /\ DataOf(t, send_packets) # {} => Gap(send_wnd[t], seen[t]) # 0
          /\ Gap(grant[t], seen[t]) <= Wnd
          /\ Grow(t, inbox, seen[t], send_wnd[t], grant[t])
    BY DEF Windows
  <1>type. /\ inbox \in Seq(Packets) /\ seen[t] \in Seqs /\ send_wnd[t] \in Seqs
           /\ grant[t] \in Seqs /\ send_seq[t] \in Seqs
    BY <1>0 DEF Queues, Numbers
  <1>gap. /\ Gap(grant[t], seen[t]) \in Nat /\ Gap(send_wnd[t], seen[t]) \in Nat /\ Wnd \in Nat
          /\ Gap(send_wnd[t], seen[t]) <= Gap(grant[t], seen[t])
    BY <1>now, <1>type, GapType, Constants DEF Grow
  <1>1. CASE UNCHANGED vars
    BY <1>1, <1>now DEF vars
  <1>. SUFFICES ASSUME NEW s \in Sessions,
                       \/ tds_write_packet(s) \/ Worker(s) \/ WaitTimeout(s)
                       \/ Network(s) \/ NetTimeout(s) \/ NetError(s) \/ Server(s)
                PROVE  /\ DataOf(t, send_packets') # {} => Gap(send_wnd'[t], seen'[t]) # 0
                       /\ Gap(grant'[t], seen'[t]) <= Wnd
                       /\ Grow(t, inbox', seen'[t], send_wnd'[t], grant'[t])
    BY <1>1 DEF Next
  <1>2. CASE tds_packet_write(s)
    <2>0. UNCHANGED <<inbox, send_wnd, grant>>
      BY <1>2 DEF tds_packet_write, ServerReads, seqVars
    <2>q. PICK q \in Seq(Packets) : q = send_packets
      BY <1>0 DEF Queues
    <2>1. q # <<>> /\ send_packets' = Tail(q)
      BY <1>2, <2>q, SessionsAssumption DEF tds_packet_write, Polling, InNet, PollsForWrite
    <2>2. PICK p : p = Head(q) /\ p.sid \in Sessions
      BY <2>1, HeadPacket
    <2>3. seen' = IF p.type = "DATA" THEN [seen EXCEPT ![p.sid] = p.seq] ELSE seen
      BY <1>2, <2>q, <2>2 DEF tds_packet_write, ServerReads
    <2>4. CASE IsData(t, p)
      <3>1. DataOf(t, send_packets') = {} /\ \E n \in DataOf(t, q) : q[n] = p
        BY <2>q, <2>1, <2>2, <2>4, DataHead DEF OneQueued
      <3>2. p.seq = Plus(seen[t], 1) /\ DataOf(t, send_packets) # {}
        BY <2>q, <3>1 DEF OneQueued
      <3>3. seen'[t] = Plus(seen[t], 1)
        BY <1>0, <2>3, <2>4, <3>2 DEF IsData, Numbers
      <3>4. Grow(t, inbox, Plus(seen[t], 1), send_wnd[t], grant[t])
        BY <1>now, <1>type, <3>2, GrowNext
      <3>5. Gap(grant[t], Plus(seen[t], 1)) = Gap(grant[t], seen[t]) - 1
        BY <1>gap, <1>now, <1>type, <3>2, GapNext
      <3>6. Gap(grant[t], Plus(seen[t], 1)) <= Wnd
        BY <1>gap, <1>now, <3>5
      <3>. QED  BY <2>0, <3>1, <3>3, <3>4, <3>6
    <2>5. CASE ~IsData(t, p)
      <3>1. DataOf(t, q) = {} <=> DataOf(t, send_packets') = {}
        BY <2>1, <2>2, <2>5, DataTailOther
      <3>2. seen'[t] = seen[t]
        BY <1>0, <2>2, <2>3, <2>5 DEF Numbers, IsData
      <3>. QED  BY <1>now, <2>0, <2>q, <3>1, <3>2
    <2>. QED  BY <2>4, <2>5
  <1>3. CASE tds_write_packet(s) \/ PutAgain(s) \/ tds_update_recv_wnd(s) \/ WaitTimeout(s) \/ NetTimeout(s)
    <2>0. UNCHANGED <<inbox, send_wnd, grant, seen>>
      BY <1>3 DEF tds_write_packet, PutAgain, PutRound, AppendData, seqVars, srvVars,
         tds_update_recv_wnd, WaitTimeout, NetTimeout
    <2>1. \/ send_packets' = send_packets
          \/ \E p \in Packets : send_packets' = Append(send_packets, p) /\ ~IsData(t, p)
          \/ AddsData(s) /\ t = s
          \/ tds_packet_write(s)
      BY QueueSteps DEF AddsData, AddsAck, AddsFin, IsData
    <2>2. CASE AddsData(s) /\ t = s
      <3>1. DataOf(t, send_packets) = {}
        BY <2>2 DEF AddsData, SendingFollows
      <3>2. send_seq[t] = seen[t]
        BY <3>1 DEF OneQueued
      <3>3. ~NotBefore(seen[t], send_wnd[t])
        BY <2>2, <3>2 DEF AddsData, MaySend
      <3>4. ASSUME send_wnd[t] = seen[t]
            PROVE  FALSE
        <4>1. PICK x \in Seqs : x = seen[t]
          BY <1>type
        <4>2. NotBefore(x, x)
          BY Constants DEF NotBefore, Seqs
        <4>. QED  BY <3>3, <3>4, <4>1, <4>2
      <3>5. Gap(send_wnd[t], seen[t]) # 0
        BY <1>type, <3>4, GapType
      <3>. QED  BY <1>now, <2>0, <3>5
    <2>3. CASE \/ send_packets' = send_packets
               \/ \E p \in Packets : send_packets' = Append(send_packets, p) /\ ~IsData(t, p)
      <3>1. DataOf(t, send_packets') = DataOf(t, send_packets)
        BY <1>0, <2>3, DataAppend DEF Queues
      <3>. QED  BY <1>now, <2>0, <3>1
    <2>. QED  BY <1>2, <2>1, <2>2, <2>3
  <1>4. CASE ReadHeader(s) \/ ReadPacket(s)
    <2>0. UNCHANGED <<send_packets, grant, seen>> /\ inbox # <<>>
      BY <1>4 DEF ReadHeader, ReadPacket, srvVars
    <2>1. PICK p : p = Head(inbox) /\ p.sid \in Sessions /\ p.wnd \in Seqs
      BY <1>type, <2>0, HeadPacket
    <2>2. send_wnd' = [send_wnd EXCEPT ![p.sid] = p.wnd] /\ inbox' \in {inbox, Tail(inbox)}
      BY <1>4, <2>1 DEF ReadHeader, ReadPacket, srvVars
    <2>3. Grow(t, inbox, seen[t], send_wnd'[t], grant[t])
          /\ Gap(send_wnd[t], seen[t]) <= Gap(send_wnd'[t], seen[t])
      <3>1. CASE p.sid = t
        <4>1. send_wnd'[t] = p.wnd
          BY <1>0, <2>2, <3>1 DEF Numbers
        <4>2. Grow(t, inbox, seen[t], p.wnd, grant[t]) /\ Gap(send_wnd[t], seen[t]) <= Gap(p.wnd, seen[t])
          BY <1>now, <1>type, <2>0, <2>1, <3>1, GrowHead
        <4>. QED  BY <4>1, <4>2
      <3>2. CASE p.sid # t
        <4>1. send_wnd'[t] = send_wnd[t]
          BY <1>0, <2>1, <2>2, <3>2 DEF Numbers
        <4>. QED  BY <1>gap, <1>now, <4>1
      <3>. QED  BY <3>1, <3>2
    <2>4. Grow(t, inbox', seen[t], send_wnd'[t], grant[t])
      BY <1>type, <2>0, <2>2, <2>3, GrowTail
    <2>5. DataOf(t, send_packets) # {} => Gap(send_wnd'[t], seen[t]) # 0
      <3>1. send_wnd'[t] \in Seqs
        BY <1>0, <2>1, <2>2 DEF Numbers
      <3>2. Gap(send_wnd'[t], seen[t]) \in Nat
        BY <1>type, <3>1, GapType
      <3>. QED  BY <1>gap, <1>now, <2>3, <3>2
    <2>. QED  BY <1>now, <2>0, <2>4, <2>5
  <1>5. CASE ReadFin(s)
    <2>1. UNCHANGED <<send_packets, grant, seen, send_wnd>> /\ inbox # <<>> /\ inbox' = Tail(inbox)
      BY <1>5 DEF ReadFin, seqVars
    <2>2. Grow(t, inbox', seen[t], send_wnd[t], grant[t])
      BY <1>now, <1>type, <2>1, GrowTail
    <2>. QED  BY <1>now, <2>1, <2>2
  <1>6. CASE Server(s)
    <2>0. UNCHANGED <<send_packets, seen, send_wnd>>
      BY <1>6 DEF Server, ServerData, ServerAck, ServerFin, SrvUnchanged, seqVars
    <2>n. /\ srv_seq[s] \in Seqs /\ Plus(srv_seq[s], 1) \in Seqs /\ Plus(seen[s], Wnd) \in Seqs
          /\ grant[s] \in Seqs
      BY <1>0, Constants, PlusType DEF Numbers
    <2>1. PICK p \in Packets : /\ p.sid = s /\ p.wnd \in Seqs
                               /\ inbox' = Append(inbox, p)
                               /\ grant' = [grant EXCEPT ![s] = p.wnd]
                               /\ p.wnd = Plus(seen[s], Wnd) \/ p.wnd = grant[s]
      <3>1. CASE ServerData(s)
        <4>1. PICK last \in BOOLEAN :
                  inbox' = Append(inbox, Packet(s, "DATA", Plus(srv_seq[s], 1), Plus(seen[s], Wnd), last))
          BY <1>0, <3>1 DEF ServerData, Numbers
        <4>2. Packet(s, "DATA", Plus(srv_seq[s], 1), Plus(seen[s], Wnd), last) \in Packets
          BY <2>n, PacketType
        <4>3. grant' = [grant EXCEPT ![s] = Plus(seen[s], Wnd)]
          BY <3>1 DEF ServerData
        <4>. QED  BY <2>n, <4>1, <4>2, <4>3 DEF Packet
      <3>2. CASE ServerAck(s)
        <4>1. inbox' = Append(inbox, Packet(s, "ACK", srv_seq[s], Plus(seen[s], Wnd), FALSE))
          BY <1>0, <3>2 DEF ServerAck, Numbers
        <4>2. Packet(s, "ACK", srv_seq[s], Plus(seen[s], Wnd), FALSE) \in Packets
          BY <2>n, PacketType
        <4>3. grant' = [grant EXCEPT ![s] = Plus(seen[s], Wnd)]
          BY <3>2 DEF ServerAck
        <4>. QED  BY <2>n, <4>1, <4>2, <4>3 DEF Packet
      <3>3. CASE ServerFin(s)
        <4>1. inbox' = Append(inbox, Packet(s, "FIN", srv_seq[s], grant[s], FALSE)) /\ grant' = grant
          BY <3>3 DEF ServerFin
        <4>2. Packet(s, "FIN", srv_seq[s], grant[s], FALSE) \in Packets
          BY <2>n, PacketType
        <4>3. grant' = [grant EXCEPT ![s] = grant[s]]
          BY <1>0, <4>1 DEF Numbers
        <4>. QED  BY <2>n, <4>1, <4>2, <4>3 DEF Packet
      <3>. QED  BY <1>6, <3>1, <3>2, <3>3 DEF Server
    <2>2. CASE t # s
      <3>1. grant'[t] = grant[t]
        BY <1>0, <2>1, <2>2 DEF Numbers
      <3>2. Grow(t, inbox', seen[t], send_wnd[t], grant[t])
        BY <1>now, <1>type, <2>1, <2>2, GrowAppendOther
      <3>. QED  BY <1>now, <2>0, <3>1, <3>2
    <2>3. CASE t = s
      <3>1. grant'[t] = p.wnd
        BY <1>0, <2>1, <2>3 DEF Numbers
      <3>2. Gap(Plus(seen[t], Wnd), seen[t]) = Wnd
        <4>1. Wnd \in Seqs
          BY Constants DEF Seqs
        <4>. QED  BY <1>type, <4>1, GapPlus
      <3>3. Gap(p.wnd, seen[t]) <= Wnd /\ Gap(grant[t], seen[t]) <= Gap(p.wnd, seen[t])
        BY <1>gap, <1>now, <2>1, <2>3, <3>2
      <3>4. Grow(t, inbox', seen[t], send_wnd[t], p.wnd)
        BY <1>now, <1>type, <2>1, <3>3, GrowAppendOwn
      <3>. QED  BY <1>now, <2>0, <3>1, <3>3, <3>4
    <2>. QED  BY <2>2, <2>3
  <1>7. CASE UNCHANGED <<send_packets, inbox, send_wnd, seen, grant>>
    BY <1>7, <1>now
  <1>8. \/ UNCHANGED <<send_packets, inbox, send_wnd, seen, grant>>
        \/ tds_packet_write(s) \/ tds_write_packet(s) \/ PutAgain(s) \/ tds_update_recv_wnd(s)
        \/ WaitTimeout(s) \/ NetTimeout(s) \/ ReadHeader(s) \/ ReadPacket(s) \/ ReadFin(s) \/ Server(s)
    BY DEF Worker, Network, PutReturns, NetClosed, NetWakeup, ReadUnexpected, NetError, tds_read_packet,
       seqVars, srvVars
  <1>. QED  BY <1>2, <1>3, <1>4, <1>5, <1>6, <1>7, <1>8

----------------------------------------------------------------------------
(* The order of the packets received.                                      *)

(* w is the queue without its place k.                                     *)
Loses(k, queue, w) ==
    /\ Len(w) = Len(queue) - 1
    /\ \A i \in 1 .. Len(w) : w[i] = IF i < k THEN queue[i] ELSE queue[i + 1]

(* What is queued for a session and on its way to it, as one sequence: a   *)
(* packet is delivered.                                                    *)
LEMMA WayDelivered ==
    ASSUME NEW S, NEW q \in Seq(S), NEW r \in Seq(S), r # <<>>
    PROVE  Append(q, Head(r)) \o Tail(r) = q \o r
  <1>0. Append(q, Head(r)) \in Seq(S) /\ Tail(r) \in Seq(S)
    OBVIOUS
  <1>1. PICK v \in Seq(S) : v = Append(q, Head(r)) \o Tail(r)
    BY <1>0, ConcatProperties
  <1>2. PICK w \in Seq(S) : w = q \o r
    BY ConcatProperties
  <1>3. Len(v) = Len(w)
    BY <1>1, <1>2
  <1>4. \A i \in 1 .. Len(v) : v[i] = w[i]
    BY <1>1, <1>2
  <1>. QED  BY <1>1, <1>2, <1>3, <1>4, SeqEqual

(* A packet is sent.                                                       *)
LEMMA WaySent ==
    ASSUME NEW S, NEW q \in Seq(S), NEW r \in Seq(S), NEW p \in S
    PROVE  q \o Append(r, p) = Append(q \o r, p)
  <1>0. Append(r, p) \in Seq(S) /\ q \o r \in Seq(S)
    BY AppendProperties, ConcatProperties
  <1>1. PICK v \in Seq(S) : v = q \o Append(r, p)
    BY <1>0, ConcatProperties
  <1>2. PICK w \in Seq(S) : w = Append(q \o r, p)
    BY <1>0, AppendProperties
  <1>3. Len(v) = Len(w)
    BY <1>1, <1>2
  <1>4. \A i \in 1 .. Len(v) : v[i] = w[i]
    BY <1>1, <1>2
  <1>. QED  BY <1>1, <1>2, <1>3, <1>4, SeqEqual

(* A header is dropped.                                                    *)
LEMMA WayDropped ==
    ASSUME NEW S, NEW q \in Seq(S), NEW r \in Seq(S), r # <<>>
    PROVE  /\ Loses(Len(q) + 1, q \o r, q \o Tail(r))
           /\ Len(q) + 1 \in DOMAIN (q \o r) /\ (q \o r)[Len(q) + 1] = Head(r)
  BY DEF Loses

(* What is left of a queue.                                                *)
LEMMA WithoutAt ==
    ASSUME NEW S, NEW q \in Seq(S), NEW k \in DOMAIN q
    PROVE  Loses(k, q, Without(k, q))
  <1>v. PICK v : v = Without(k, q)
    OBVIOUS
  <1>0. Len(q) \in Nat /\ k \in 1 .. Len(q)
    OBVIOUS
  <1>a. \A i \in 1 .. Len(q) : q[i] \in S
    OBVIOUS
  <1>a1. PICK a : a = SubSeq(q, 1, k - 1)
    OBVIOUS
  <1>1. a \in Seq(S) /\ Len(a) = k - 1 /\ \A i \in 1 .. k - 1 : a[i] = q[i]
    <2>1. 1 \in Int /\ k - 1 \in Int /\ \A i \in 1 .. k - 1 : q[i] \in S
      BY <1>0, <1>a
    <2>2. /\ a \in Seq(S)
          /\ Len(a) = IF 1 <= k - 1 THEN k - 1 - 1 + 1 ELSE 0
          /\ \A i \in 1 .. k - 1 - 1 + 1 : a[i] = q[1 + i - 1]
      BY <1>a1, <2>1, SubSeqProperties
    <2>3. k - 1 - 1 + 1 = k - 1 /\ \A i \in 1 .. k - 1 : 1 + i - 1 = i
      BY <1>0
    <2>. QED  BY <1>0, <2>2, <2>3
  <1>a2. PICK c : c = SubSeq(q, k + 1, Len(q))
    OBVIOUS
  <1>2. c \in Seq(S) /\ Len(c) = Len(q) - k /\ \A i \in 1 .. Len(q) - k : c[i] = q[k + i]
    <2>1. k + 1 \in Int /\ Len(q) \in Int /\ \A i \in k + 1 .. Len(q) : q[i] \in S
      BY <1>0, <1>a
    <2>2. /\ c \in Seq(S)
          /\ Len(c) = IF k + 1 <= Len(q) THEN Len(q) - (k + 1) + 1 ELSE 0
          /\ \A i \in 1 .. Len(q) - (k + 1) + 1 : c[i] = q[k + 1 + i - 1]
      BY <1>a2, <2>1, SubSeqProperties
    <2>3. Len(q) - (k + 1) + 1 = Len(q) - k /\ \A i \in 1 .. Len(q) - k : k + 1 + i - 1 = k + i
      BY <1>0
    <2>. QED  BY <1>0, <2>2, <2>3
  <1>3. v = a \o c
    BY <1>v, <1>a1, <1>a2 DEF Without
  <1>c. Len(v) = Len(a) + Len(c) /\ \A i \in 1 .. Len(a) + Len(c) :
                                         v[i] = IF i <= Len(a) THEN a[i] ELSE c[i - Len(a)]
    BY <1>1, <1>2, <1>3, ConcatProperties
  <1>4. Len(v) = Len(q) - 1
    BY <1>0, <1>1, <1>2, <1>c
  <1>5. ASSUME NEW i \in 1 .. Len(v)
        PROVE  v[i] = IF i < k THEN q[i] ELSE q[i + 1]
    <2>1. CASE i < k
      <3>1. i \in 1 .. Len(a) + Len(c) /\ i <= Len(a) /\ i \in 1 .. k - 1
        BY <1>0, <1>1, <1>2, <1>4, <2>1
      <3>. QED  BY <1>1, <1>c, <2>1, <3>1
    <2>2. CASE ~(i < k)
      <3>1. v[i] = c[i - (k - 1)] /\ i - (k - 1) \in 1 .. Len(q) - k
        <4>1. i \in 1 .. Len(a) + Len(c) /\ ~(i <= Len(a)) /\ i - (k - 1) \in 1 .. Len(q) - k
          BY <1>0, <1>1, <1>2, <1>4, <2>2
        <4>. QED  BY <1>1, <1>c, <4>1
      <3>2. c[i - (k - 1)] = q[k + (i - (k - 1))]
        BY <1>2, <3>1
      <3>3. k + (i - (k - 1)) = i + 1
        BY <1>0, <1>4
      <3>. QED  BY <2>2, <3>1, <3>2, <3>3
    <2>. QED  BY <2>1, <2>2
  <1>. QED  BY <1>v, <1>4, <1>5 DEF Loses

(* Its packets are some of those before.                                   *)
LEMMA WithoutItems ==
    ASSUME NEW S, NEW q \in Seq(S), NEW k \in DOMAIN q, NEW w, w = Without(k, q)
    PROVE  \A i \in DOMAIN w : \E j \in DOMAIN q : w[i] = q[j]
  <1>1. w \in Seq(S) /\ Loses(k, q, w)
    BY WithoutType, WithoutAt
  <1>2. Len(q) \in Nat /\ k \in 1 .. Len(q) /\ Len(w) = Len(q) - 1 /\ DOMAIN w = 1 .. Len(w)
        /\ DOMAIN q = 1 .. Len(q)
    BY <1>1 DEF Loses
  <1>. SUFFICES ASSUME NEW i \in 1 .. Len(w)
                PROVE  \E j \in 1 .. Len(q) : w[i] = q[j]
    BY <1>2
  <1>3. i \in 1 .. Len(q) /\ i + 1 \in 1 .. Len(q)
    BY <1>2
  <1>4. w[i] = q[i] \/ w[i] = q[i + 1]
    BY <1>1 DEF Loses
  <1>. QED  BY <1>3, <1>4

(* A packet is taken.                                                      *)
LEMMA WayTaken ==
    ASSUME NEW S, NEW q \in Seq(S), NEW r \in Seq(S), NEW k \in DOMAIN q
    PROVE  Loses(k, q \o r, Without(k, q) \o r)
  <1>1. PICK v \in Seq(S) : v = Without(k, q)
    BY WithoutType
  <1>2. Len(v) = Len(q) - 1 /\ \A i \in 1 .. Len(v) : v[i] = IF i < k THEN q[i] ELSE q[i + 1]
    BY <1>1, WithoutAt DEF Loses
  <1>3. Len(v \o r) = Len(q \o r) - 1
    <2>1. Len(v \o r) = Len(v) + Len(r) /\ Len(q \o r) = Len(q) + Len(r)
      BY ConcatProperties
    <2>2. Len(q) \in Nat /\ Len(r) \in Nat
      OBVIOUS
    <2>. QED  BY <1>2, <2>1, <2>2
  <1>4. ASSUME NEW i \in 1 .. Len(v \o r)
        PROVE  (v \o r)[i] = IF i < k THEN (q \o r)[i] ELSE (q \o r)[i + 1]
    <2>0. k \in 1 .. Len(q) /\ Len(q) \in Nat /\ Len(r) \in Nat /\ i \in 1 .. Len(q) + Len(r) - 1
      BY <1>2
    <2>1. CASE i <= Len(v)
      <3>1. (v \o r)[i] = v[i] /\ (q \o r)[i] = q[i] /\ (q \o r)[i + 1] = q[i + 1]
        BY <1>2, <2>0, <2>1
      <3>. QED  BY <1>2, <2>0, <2>1, <3>1
    <2>2. CASE ~(i <= Len(v))
      <3>1. (v \o r)[i] = r[i - Len(v)] /\ (q \o r)[i + 1] = r[i + 1 - Len(q)] /\ ~(i < k)
        BY <1>2, <2>0, <2>2
      <3>. QED  BY <1>2, <2>0, <3>1
    <2>. QED  BY <2>1, <2>2
  <1>. QED  BY <1>1, <1>3, <1>4 DEF Loses

(* Where a packet was before place k was emptied.                          *)
Old(k, i) == IF i < k THEN i ELSE i + 1

(* The DATA packets that are left.                                         *)
LEMMA LosesPlaces ==
    ASSUME NEW queue \in Seq(Packets), NEW w \in Seq(Packets), NEW k \in DOMAIN queue,
           Loses(k, queue, w), NEW t \in Sessions
    PROVE  /\ \A i \in DataOf(t, w) : /\ i \in Nat /\ Old(k, i) \in DataOf(t, queue)
                                      /\ Old(k, i) # k /\ w[i] = queue[Old(k, i)]
           /\ \A j \in DataOf(t, queue) : j = k \/ \E i \in DataOf(t, w) : w[i] = queue[j]
  <1>0. /\ Len(queue) \in Nat /\ k \in 1 .. Len(queue) /\ Len(w) = Len(queue) - 1
        /\ DOMAIN w = 1 .. Len(w) /\ DOMAIN queue = 1 .. Len(queue)
    BY DEF Loses
  <1>1. \A i \in DOMAIN w : /\ i \in Nat /\ Old(k, i) \in DOMAIN queue /\ Old(k, i) # k
                            /\ w[i] = queue[Old(k, i)]
    <2>. SUFFICES ASSUME NEW i \in 1 .. Len(w)
                  PROVE  /\ i \in Nat /\ Old(k, i) \in 1 .. Len(queue) /\ Old(k, i) # k
                         /\ w[i] = queue[Old(k, i)]
      BY <1>0
    <2>1. CASE i < k
      BY <1>0, <2>1 DEF Old, Loses
    <2>2. CASE ~(i < k)
      BY <1>0, <2>2 DEF Old, Loses
    <2>. QED  BY <2>1, <2>2
  <1>2. \A j \in DOMAIN queue : j = k \/ \E i \in DOMAIN w : w[i] = queue[j]
    <2>. SUFFICES ASSUME NEW j \in 1 .. Len(queue), j # k
                  PROVE  \E i \in 1 .. Len(w) : w[i] = queue[j]
      BY <1>0
    <2>1. CASE j < k
      <3>1. j \in 1 .. Len(w) /\ w[j] = queue[j]
        BY <1>0, <2>1 DEF Loses
      <3>. QED  BY <3>1
    <2>2. CASE ~(j < k)
      <3>1. j - 1 \in 1 .. Len(w) /\ ~(j - 1 < k) /\ (j - 1) + 1 = j
        BY <1>0, <2>2
      <3>2. w[j - 1] = queue[j]
        BY <3>1 DEF Loses
      <3>. QED  BY <3>1, <3>2
    <2>. QED  BY <2>1, <2>2
  <1>3. \A i \in DataOf(t, w) : /\ i \in Nat /\ Old(k, i) \in DataOf(t, queue)
                                /\ Old(k, i) # k /\ w[i] = queue[Old(k, i)]
    BY <1>1 DEF DataOf
  <1>4. \A j \in DataOf(t, queue) : j = k \/ \E i \in DataOf(t, w) : w[i] = queue[j]
    BY <1>2 DEF DataOf
  <1>. QED  BY <1>3, <1>4

(* They keep their order.                                                  *)
LEMMA OldGrows ==
    ASSUME NEW k \in Nat, NEW i \in Nat, NEW j \in Nat, i < j
    PROVE  Old(k, i) < Old(k, j)
  BY DEF Old

(* Sequence numbers of DATA packets.                                       *)
LEMMA DataType ==
    ASSUME NEW queue \in Seq(Packets), NEW t \in Sessions
    PROVE  \A i \in DataOf(t, queue) : i \in Nat /\ queue[i].seq \in Seqs
  BY ItemType DEF DataOf

(* The session loses nothing when another one's packet goes.               *)
LEMMA OrderWithoutOther ==
    ASSUME NEW queue \in Seq(Packets), NEW w \in Seq(Packets), NEW k \in DOMAIN queue,
           Loses(k, queue, w), NEW t \in Sessions, ~IsData(t, queue[k]), NEW b, NEW last,
           InOrder(t, queue, b, last)
    PROVE  InOrder(t, w, b, last)
  <1>1. /\ \A i \in DataOf(t, w) : i \in Nat /\ Old(k, i) \in DataOf(t, queue) /\ w[i] = queue[Old(k, i)]
        /\ \A j \in DataOf(t, queue) : j = k \/ \E i \in DataOf(t, w) : w[i] = queue[j]
    BY LosesPlaces
  <1>2. k \notin DataOf(t, queue) /\ k \in Nat
    BY DEF DataOf, IsData
  <1>3. ASSUME NEW i \in DataOf(t, w), NEW j \in DataOf(t, w), i < j
        PROVE  Gap(w[i].seq, b) < Gap(w[j].seq, b)
    <2>1. Old(k, i) < Old(k, j)
      BY <1>1, <1>2, <1>3, OldGrows
    <2>. QED  BY <1>1, <2>1 DEF InOrder
  <1>4. {Gap(w[i].seq, b) : i \in DataOf(t, w)} = {Gap(queue[i].seq, b) : i \in DataOf(t, queue)}
    <2>1. ASSUME NEW i \in DataOf(t, w)
          PROVE  \E j \in DataOf(t, queue) : Gap(w[i].seq, b) = Gap(queue[j].seq, b)
      BY <1>1
    <2>2. ASSUME NEW j \in DataOf(t, queue)
          PROVE  \E i \in DataOf(t, w) : Gap(w[i].seq, b) = Gap(queue[j].seq, b)
      BY <1>1, <1>2
    <2>. QED  BY <2>1, <2>2
  <1>. QED  BY <1>3, <1>4 DEF InOrder

(* The first packet of a session is the next one for it.                   *)
LEMMA FirstIsNext ==
    ASSUME NEW queue \in Seq(Packets), NEW t \in Sessions, NEW k \in DataOf(t, queue),
           \A j \in DataOf(t, queue) : k <= j, NEW b \in Seqs, NEW last \in Seqs,
           InOrder(t, queue, b, last)
    PROVE  Gap(queue[k].seq, b) = 1 /\ Gap(last, b) # 0 /\ queue[k].seq = Plus(b, 1)
  <1>0. /\ k \in Nat /\ \A i \in DataOf(t, queue) : i \in Nat /\ queue[i].seq \in Seqs
    BY DataType
  <1>1. PICK n \in Nat : n = Gap(last, b)
    BY GapType
  <1>2. \A x : x \in 1 .. n <=> \E i \in DataOf(t, queue) : x = Gap(queue[i].seq, b)
    BY <1>1 DEF InOrder
  <1>3. PICK g \in 1 .. n : g = Gap(queue[k].seq, b)
    BY <1>2
  <1>4. PICK i \in DataOf(t, queue) : 1 = Gap(queue[i].seq, b)
    <2>1. 1 \in 1 .. n
      BY <1>1, <1>3
    <2>. QED  BY <1>2, <2>1
  <1>5. g = 1
    <2>1. CASE i = k
      BY <1>3, <1>4, <2>1
    <2>2. CASE i # k
      <3>1. k < i
        BY <1>0, <2>2
      <3>2. g < 1
        BY <1>3, <1>4, <3>1 DEF InOrder
      <3>. QED  BY <1>1, <1>3, <3>2
    <2>. QED  BY <2>1, <2>2
  <1>6. n # 0
    BY <1>1, <1>3
  <1>7. queue[k].seq = Plus(b, 1)
    <2>1. PICK c \in Seqs : c = queue[k].seq /\ Gap(c, b) = 1
      BY <1>0, <1>3, <1>5
    <2>2. Gap(c, Plus(b, 1)) = 0 /\ Plus(b, 1) \in Seqs
      <3>1. Gap(c, b) # 0
        BY <2>1
      <3>2. Gap(c, Plus(b, 1)) = Gap(c, b) - 1
        BY <3>1, GapNext
      <3>. QED  BY <2>1, <3>2, PlusType
    <2>. QED  BY <2>1, <2>2, GapType
  <1>. QED  BY <1>1, <1>3, <1>5, <1>6, <1>7

(* And then the next one is the first.                                     *)
LEMMA OrderWithoutFirst ==
    ASSUME NEW queue \in Seq(Packets), NEW w \in Seq(Packets), NEW t \in Sessions,
           NEW k \in DataOf(t, queue), \A j \in DataOf(t, queue) : k <= j, Loses(k, queue, w),
           NEW b \in Seqs, NEW last \in Seqs, InOrder(t, queue, b, last)
    PROVE  InOrder(t, w, queue[k].seq, last)
  <1>0. k \in DOMAIN queue /\ k \in Nat
    BY DEF DataOf
  <1>1. /\ \A i \in DataOf(t, w) : /\ i \in Nat /\ Old(k, i) \in DataOf(t, queue)
                                   /\ Old(k, i) # k /\ w[i] = queue[Old(k, i)]
        /\ \A j \in DataOf(t, queue) : j = k \/ \E i \in DataOf(t, w) : w[i] = queue[j]
    BY <1>0, LosesPlaces
  <1>2. Gap(queue[k].seq, b) = 1 /\ Gap(last, b) # 0 /\ queue[k].seq = Plus(b, 1)
    BY FirstIsNext
  <1>3. PICK n \in Nat : n = Gap(last, b) /\ n # 0
    BY <1>2, GapType
  <1>4. \A x : x \in 1 .. n <=> \E i \in DataOf(t, queue) : x = Gap(queue[i].seq, b)
    BY <1>3 DEF InOrder
  <1>5. \A i \in DataOf(t, queue) : i \in Nat /\ queue[i].seq \in Seqs
    BY DataType
  <1>6. \A i \in DataOf(t, queue) : /\ Gap(queue[i].seq, b) \in 1 .. n
                                    /\ Gap(queue[i].seq, Plus(b, 1)) = Gap(queue[i].seq, b) - 1
    <2>. SUFFICES ASSUME NEW i \in DataOf(t, queue)
                  PROVE  /\ Gap(queue[i].seq, b) \in 1 .. n
                         /\ Gap(queue[i].seq, Plus(b, 1)) = Gap(queue[i].seq, b) - 1
      OBVIOUS
    <2>1. Gap(queue[i].seq, b) \in 1 .. n
      BY <1>4
    <2>2. Gap(queue[i].seq, b) # 0
      BY <1>3, <2>1
    <2>. QED  BY <1>5, <2>1, <2>2, GapNext
  <1>7. Gap(last, Plus(b, 1)) = n - 1
    BY <1>2, <1>3, GapNext
  <1>8. ASSUME NEW i \in DataOf(t, w), NEW j \in DataOf(t, w), i < j
        PROVE  Gap(w[i].seq, Plus(b, 1)) < Gap(w[j].seq, Plus(b, 1))
    <2>1. Old(k, i) < Old(k, j)
      BY <1>0, <1>1, <1>8, OldGrows
    <2>2. Gap(w[i].seq, b) < Gap(w[j].seq, b)
      BY <1>1, <2>1 DEF InOrder
    <2>3. /\ Gap(w[i].seq, b) \in 1 .. n /\ Gap(w[i].seq, Plus(b, 1)) = Gap(w[i].seq, b) - 1
          /\ Gap(w[j].seq, b) \in 1 .. n /\ Gap(w[j].seq, Plus(b, 1)) = Gap(w[j].seq, b) - 1
      BY <1>1, <1>6
    <2>. QED  BY <1>3, <2>2, <2>3
  <1>9. ASSUME NEW i \in DataOf(t, w)
        PROVE  Gap(w[i].seq, Plus(b, 1)) \in 1 .. n - 1
    <2>1. PICK j \in DataOf(t, queue) : j # k /\ w[i] = queue[j]
      BY <1>1
    <2>2. k < j
      BY <1>0, <1>5, <2>1
    <2>3. 1 < Gap(queue[j].seq, b)
      BY <1>2, <2>2 DEF InOrder
    <2>4. Gap(queue[j].seq, b) \in 1 .. n /\ Gap(queue[j].seq, Plus(b, 1)) = Gap(queue[j].seq, b) - 1
      BY <1>6
    <2>. QED  BY <1>3, <2>1, <2>3, <2>4
  <1>10. ASSUME NEW m \in 1 .. n - 1
         PROVE  \E i \in DataOf(t, w) : m = Gap(w[i].seq, Plus(b, 1))
    <2>1. m + 1 \in 1 .. n /\ m + 1 # 1 /\ m + 1 - 1 = m
      BY <1>3
    <2>2. PICK j \in DataOf(t, queue) : m + 1 = Gap(queue[j].seq, b)
      BY <1>4, <2>1
    <2>3. j # k
      BY <1>2, <2>1, <2>2
    <2>4. PICK i \in DataOf(t, w) : w[i] = queue[j]
      BY <1>1, <2>3
    <2>5. Gap(w[i].seq, Plus(b, 1)) = m + 1 - 1
      BY <1>6, <2>2, <2>4
    <2>. QED  BY <2>1, <2>5
  <1>11. {Gap(w[i].seq, Plus(b, 1)) : i \in DataOf(t, w)} = 1 .. Gap(last, Plus(b, 1))
    BY <1>7, <1>9, <1>10
  <1>12. InOrder(t, w, Plus(b, 1), last)
    BY <1>8, <1>11 DEF InOrder
  <1>. QED  BY <1>2, <1>12

(* Something that is not for the session arrives.                          *)
LEMMA OrderAppendOther ==
    ASSUME NEW queue \in Seq(Packets), NEW p \in Packets, NEW w, w = Append(queue, p),
           NEW t \in Sessions, ~IsData(t, p), NEW b, NEW last, InOrder(t, queue, b, last)
    PROVE  InOrder(t, w, b, last)
  <1>1. DataOf(t, w) = DataOf(t, queue) /\ \A i \in DataOf(t, queue) : w[i] = queue[i]
    BY DataAppend
  <1>2. {Gap(w[i].seq, b) : i \in DataOf(t, w)} = {Gap(queue[i].seq, b) : i \in DataOf(t, queue)}
    BY <1>1
  <1>3. \A i, j \in DataOf(t, w) : i < j => Gap(w[i].seq, b) < Gap(w[j].seq, b)
    BY <1>1 DEF InOrder
  <1>. QED  BY <1>2, <1>3 DEF InOrder

(* One more packet, unless it is the one that was taken last.              *)
LEMMA GapUp ==
    ASSUME NEW x \in Seqs, NEW b \in Seqs, Gap(x, b) + 1 < SeqMod
    PROVE  Gap(Plus(x, 1), b) = Gap(x, b) + 1
  <1>1. 1 \in Seqs
    BY Constants DEF Seqs
  <1>2. PICK c \in Seqs : c = Plus(x, 1) /\ c = IF x + 1 < SeqMod THEN x + 1 ELSE x + 1 - SeqMod
    BY <1>1, PlusType, PlusCases
  <1>3. Gap(c, b) = (IF b <= c THEN c - b ELSE c - b + SeqMod)
        /\ Gap(x, b) = (IF b <= x THEN x - b ELSE x - b + SeqMod)
    BY GapCases
  <1>. QED  BY <1>2, <1>3, Constants DEF Seqs

(* The server sends the session its next packet.                           *)
LEMMA OrderAppendOwn ==
    ASSUME NEW queue \in Seq(Packets), NEW p \in Packets, NEW w, w = Append(queue, p),
           NEW t \in Sessions, IsData(t, p), NEW b \in Seqs, NEW last \in Seqs,
           InOrder(t, queue, b, last), p.seq = Plus(last, 1), Gap(last, b) + 1 < SeqMod
    PROVE  InOrder(t, w, b, p.seq)
  <1>1. /\ \A i \in DOMAIN queue : i \in DOMAIN w /\ w[i] = queue[i] /\ i < Len(queue) + 1
        /\ Len(queue) + 1 \in DOMAIN w /\ w[Len(queue) + 1] = p
        /\ \A i \in DOMAIN w : i \in DOMAIN queue \/ i = Len(queue) + 1
    BY AppendAt
  <1>2. /\ \A i \in DataOf(t, w) : i = Len(queue) + 1 \/ i \in DataOf(t, queue)
        /\ Len(queue) + 1 \in DataOf(t, w)
        /\ \A i \in DataOf(t, queue) : i \in DataOf(t, w) /\ w[i] = queue[i] /\ i < Len(queue) + 1
    BY <1>1 DEF DataOf, IsData
  <1>3. PICK n \in Nat : n = Gap(last, b)
    BY GapType
  <1>4. Gap(p.seq, b) = n + 1
    BY <1>3, GapUp
  <1>5. \A x : x \in 1 .. n <=> \E i \in DataOf(t, queue) : x = Gap(queue[i].seq, b)
    BY <1>3 DEF InOrder
  <1>6. \A i \in DataOf(t, queue) : i \in Nat
    BY DataType
  <1>7. ASSUME NEW i \in DataOf(t, w), NEW j \in DataOf(t, w), i < j
        PROVE  Gap(w[i].seq, b) < Gap(w[j].seq, b)
    <2>0. i \in DataOf(t, queue) /\ w[i] = queue[i]
      <3>1. Len(queue) \in Nat
        OBVIOUS
      <3>2. i # Len(queue) + 1
        BY <1>2, <1>6, <1>7, <3>1
      <3>. QED  BY <1>2, <3>2
    <2>1. CASE j \in DataOf(t, queue)
      <3>1. w[j] = queue[j]
        BY <1>2, <2>1
      <3>. QED  BY <1>7, <2>0, <2>1, <3>1 DEF InOrder
    <2>2. CASE j = Len(queue) + 1
      <3>1. Gap(queue[i].seq, b) \in 1 .. n
        BY <1>5, <2>0
      <3>2. Gap(w[j].seq, b) = n + 1
        BY <1>1, <1>4, <2>2
      <3>3. PICK x \in 1 .. n : x = Gap(w[i].seq, b)
        BY <2>0, <3>1
      <3>4. x < n + 1
        BY <1>3
      <3>. QED  BY <3>2, <3>3, <3>4
    <2>. QED  BY <1>2, <2>1, <2>2
  <1>8. ASSUME NEW i \in DataOf(t, w)
        PROVE  Gap(w[i].seq, b) \in 1 .. n + 1
    <2>1. CASE i \in DataOf(t, queue)
      <3>1. Gap(queue[i].seq, b) \in 1 .. n /\ w[i] = queue[i]
        BY <1>2, <1>5, <2>1
      <3>. QED  BY <1>3, <3>1
    <2>2. CASE i = Len(queue) + 1
      <3>1. Gap(w[i].seq, b) = n + 1
        BY <1>1, <1>4, <2>2
      <3>. QED  BY <1>3, <3>1
    <2>. QED  BY <1>2, <2>1, <2>2
  <1>9. ASSUME NEW m \in 1 .. n + 1
        PROVE  \E i \in DataOf(t, w) : m = Gap(w[i].seq, b)
    <2>1. CASE m = n + 1
      BY <1>1, <1>2, <1>4, <2>1
    <2>2. CASE m # n + 1
      <3>1. m \in 1 .. n
        BY <1>3, <2>2
      <3>2. PICK i \in DataOf(t, queue) : m = Gap(queue[i].seq, b)
        BY <1>5, <3>1
      <3>. QED  BY <1>2, <3>2
    <2>. QED  BY <2>1, <2>2
  <1>10. {Gap(w[i].seq, b) : i \in DataOf(t, w)} = 1 .. Gap(p.seq, b)
    BY <1>4, <1>8, <1>9
  <1>. QED  BY <1>7, <1>10 DEF InOrder

(* Two sequence numbers counted from a third.                              *)
LEMMA GapOrdered ==
    ASSUME NEW x \in Seqs, NEW c \in Seqs, NEW f \in Seqs, Gap(c, f) <= Gap(x, f)
    PROVE  Gap(x, c) = Gap(x, f) - Gap(c, f)
  <1>1. /\ Gap(x, c) = (IF c <= x THEN x - c ELSE x - c + SeqMod)
        /\ Gap(x, f) = (IF f <= x THEN x - f ELSE x - f + SeqMod)
        /\ Gap(c, f) = (IF f <= c THEN c - f ELSE c - f + SeqMod)
    BY GapCases
  <1>. QED  BY <1>1, Constants DEF Seqs

(* A session takes its first packet, the others lose nothing.              *)
LEMMA TakeInOrder ==
    ASSUME TypeOK, OnlyData, NEW s \in Sessions, Received(s) # {},
           packets' = Without(First(s), packets), inbox' = inbox, NEW t \in Sessions,
           InOrder(t, packets \o inbox, consumed[t], srv_seq[t])
    PROVE  IF t = s
           THEN /\ InOrder(t, packets' \o inbox', packets[First(s)].seq, srv_seq[t])
                /\ packets[First(s)].seq = Plus(consumed[t], 1)
                /\ Gap(srv_seq[t], consumed[t]) # 0
           ELSE InOrder(t, packets' \o inbox', consumed[t], srv_seq[t])
  <1>0. /\ packets \in Seq(Packets) /\ inbox \in Seq(Packets)
        /\ consumed[t] \in Seqs /\ srv_seq[t] \in Seqs
    BY TypeParts DEF Queues, Numbers
  <1>1. PICK k \in DOMAIN packets :
            /\ k = First(s) /\ packets[k].sid = s
            /\ \A j \in DOMAIN packets : packets[j].sid = s => k <= j
    BY <1>0, FirstIs
  <1>2. packets[k].type = "DATA"
    BY DEF OnlyData
  <1>q. PICK q : q = packets \o inbox
    OBVIOUS
  <1>3. /\ q \in Seq(Packets) /\ Len(q) = Len(packets) + Len(inbox)
        /\ \A i \in 1 .. Len(packets) + Len(inbox) :
               q[i] = IF i <= Len(packets) THEN packets[i] ELSE inbox[i - Len(packets)]
    BY <1>0, <1>q, ConcatProperties
  <1>4. /\ k \in Nat /\ Len(packets) \in Nat /\ Len(inbox) \in Nat /\ k \in 1 .. Len(packets)
        /\ DOMAIN packets = 1 .. Len(packets) /\ DOMAIN q = 1 .. Len(q)
    BY <1>0, <1>3
  <1>5. k \in DOMAIN q /\ q[k] = packets[k]
    BY <1>3, <1>4
  <1>6. \A j \in DOMAIN q : j \in DOMAIN packets => q[j] = packets[j]
    BY <1>3, <1>4
  <1>7. \A j \in DOMAIN q : j \notin DOMAIN packets => k <= j
    BY <1>3, <1>4
  <1>8. PICK w \in Seq(Packets) : w = packets' \o inbox' /\ Loses(k, q, w)
    <2>1. Without(k, packets) \in Seq(Packets)
      BY <1>0, WithoutType
    <2>2. Loses(k, packets \o inbox, Without(k, packets) \o inbox)
      BY <1>0, WayTaken
    <2>3. Without(k, packets) \o inbox \in Seq(Packets)
      BY <1>0, <2>1, ConcatProperties
    <2>. QED  BY <1>1, <1>q, <2>2, <2>3
  <1>9. InOrder(t, q, consumed[t], srv_seq[t])
    BY <1>q
  <1>10. CASE t = s
    <2>1. k \in DataOf(t, q)
      BY <1>1, <1>2, <1>5, <1>10 DEF DataOf
    <2>2. \A j \in DataOf(t, q) : k <= j
      <3>. SUFFICES ASSUME NEW j \in DOMAIN q, q[j].sid = t
                    PROVE  k <= j
        BY DEF DataOf
      <3>1. CASE j \in DOMAIN packets
        BY <1>1, <1>6, <1>10, <3>1
      <3>. QED  BY <1>7, <3>1
    <2>3. InOrder(t, w, q[k].seq, srv_seq[t])
      BY <1>3, <1>0, <1>8, <1>9, <2>1, <2>2, OrderWithoutFirst
    <2>4. Gap(srv_seq[t], consumed[t]) # 0 /\ q[k].seq = Plus(consumed[t], 1)
      BY <1>3, <1>0, <1>9, <2>1, <2>2, FirstIsNext
    <2>. QED  BY <1>1, <1>5, <1>8, <1>10, <2>3, <2>4
  <1>11. CASE t # s
    <2>1. ~IsData(t, q[k])
      BY <1>1, <1>5, <1>11 DEF IsData
    <2>2. InOrder(t, w, consumed[t], srv_seq[t])
      BY <1>3, <1>5, <1>8, <1>9, <2>1, OrderWithoutOther
    <2>. QED  BY <1>8, <1>11, <2>2
  <1>. QED  BY <1>10, <1>11

(* The network thread takes a packet from the socket, and keeps it if it   *)
(* is DATA.                                                                *)
LEMMA DeliverInOrder ==
    ASSUME TypeOK, inbox # <<>>, inbox' = Tail(inbox),
           packets' = Delivered(Head(inbox)) \/ (packets' = packets /\ Head(inbox).type # "DATA"),
           NEW t \in Sessions, NEW b, NEW last, InOrder(t, packets \o inbox, b, last)
    PROVE  InOrder(t, packets' \o inbox', b, last)
  <1>0. packets \in Seq(Packets) /\ inbox \in Seq(Packets)
    BY TypeParts DEF Queues
  <1>1. CASE Head(inbox).type = "DATA"
    <2>1. packets' = Append(packets, Head(inbox))
      BY <1>1 DEF Delivered
    <2>2. packets' \o inbox' = packets \o inbox
      BY <1>0, <2>1, WayDelivered
    <2>. QED  BY <2>2
  <1>2. CASE Head(inbox).type # "DATA"
    <2>1. packets' = packets
      BY <1>2 DEF Delivered
    <2>2. PICK q \in Seq(Packets) : q = packets \o inbox
      BY <1>0, ConcatProperties
    <2>3. PICK w \in Seq(Packets) : w = packets' \o inbox'
      <3>1. Tail(inbox) \in Seq(Packets)
        BY <1>0, HeadPacket
      <3>. QED  BY <1>0, <2>1, <3>1, ConcatProperties
    <2>4. PICK k \in DOMAIN q : Loses(k, q, w) /\ q[k] = Head(inbox)
      BY <1>0, <2>1, <2>2, <2>3, WayDropped
    <2>5. ~IsData(t, q[k])
      BY <1>2, <2>4 DEF IsData
    <2>6. InOrder(t, q, b, last)
      BY <2>2
    <2>7. InOrder(t, w, b, last)
      BY <2>4, <2>5, <2>6, OrderWithoutOther
    <2>. QED  BY <2>3, <2>7
  <1>. QED  BY <1>1, <1>2

(* Sessions see the server's packets in order.                             *)
LEMMA StepOrder ==
    ASSUME TypeOK, OneNetworkThread, PollsForWrite, OnlyData, Order, [Next]_vars
    PROVE  OnlyData' /\ Order'
  <1>0. Control /\ Queues /\ Numbers /\ Stages /\ Switches
    BY TypeParts
  <1>1. CASE UNCHANGED vars
    BY <1>1 DEF vars, OnlyData, Order
  <1>. SUFFICES ASSUME NEW s \in Sessions,
                       \/ tds_write_packet(s) \/ Worker(s) \/ WaitTimeout(s)
                       \/ Network(s) \/ NetTimeout(s) \/ NetError(s) \/ Server(s)
                PROVE  OnlyData' /\ Order'
    BY <1>1 DEF Next
  <1>pk. \/ packets' = packets
         \/ tds_read_packet(s) /\ Received(s) # {} /\ packets' = Without(First(s), packets)
         \/ ReadPacket(s)
    BY DEF Worker, Network, Server, PutReturns, NetClosed, NetWakeup, ReadHeader,
       ReadFin, ReadUnexpected, NetError, ServerData, ServerAck, ServerFin, SrvUnchanged,
       tds_write_packet, PutAgain, PutRound, tds_update_recv_wnd, WaitTimeout, NetTimeout,
       tds_packet_write, tds_read_packet
  <1>2. OnlyData'
    <2>1. CASE packets' = packets
      BY <2>1 DEF OnlyData
    <2>2. CASE Received(s) # {} /\ packets' = Without(First(s), packets)
      <3>1. PICK k \in DOMAIN packets : k = First(s)
        BY <1>0, <2>2, FirstIs DEF Queues
      <3>2. PICK q \in Seq(Packets) : q = packets
        BY <1>0 DEF Queues
      <3>3. PICK w \in Seq(Packets) : w = packets' /\ w = Without(k, q)
        BY <2>2, <3>1, <3>2, WithoutType
      <3>4. \A i \in DOMAIN w : \E j \in DOMAIN q : w[i] = q[j]
        BY <3>1, <3>2, <3>3, WithoutItems
      <3>. QED  BY <3>2, <3>3, <3>4 DEF OnlyData
    <2>3. CASE ReadPacket(s)
      <3>1. inbox # <<>> /\ packets' = Delivered(Head(inbox))
        BY <2>3 DEF ReadPacket
      <3>2. PICK p \in Packets : p = Head(inbox)
        BY <1>0, <3>1, HeadPacket DEF Queues
      <3>3. CASE p.type = "DATA"
        <4>1. packets' = Append(packets, p)
          BY <3>1, <3>2, <3>3 DEF Delivered
        <4>2. /\ \A i \in DOMAIN packets : packets'[i] = packets[i]
              /\ packets'[Len(packets) + 1] = p
              /\ \A i \in DOMAIN packets' : i \in DOMAIN packets \/ i = Len(packets) + 1
          BY <1>0, <4>1, AppendAt DEF Queues
        <4>. QED  BY <3>3, <4>2 DEF OnlyData
      <3>4. CASE p.type # "DATA"
        BY <3>1, <3>2, <3>4 DEF Delivered, OnlyData
      <3>. QED  BY <3>3, <3>4
    <2>. QED  BY <1>pk, <2>1, <2>2, <2>3
  <1>. SUFFICES ASSUME NEW t \in Sessions, slot'[t] = "open", ~closed'
                PROVE  /\ InOrder(t, packets' \o inbox', consumed'[t], srv_seq'[t])
                       /\ Gap(consumed'[t], FirstSeq) <= Gap(srv_seq'[t], FirstSeq)
    BY <1>2 DEF Order
  <1>open. slot[t] = "open" /\ ~closed
    <2>1. closed => closed'
      BY DEF Worker, Network, Server, PutReturns, NetClosed, NetWakeup, ReadHeader,
         ReadFin, ReadUnexpected, ReadPacket, NetError, ServerData, ServerAck, ServerFin, SrvUnchanged,
         tds_write_packet, PutAgain, PutRound, tds_update_recv_wnd, WaitTimeout, NetTimeout,
         tds_packet_write, tds_read_packet, connVars, tds_close_socket, tds_connection_close
    <2>2. slot' = slot \/ ReadFin(s) \/ tds_close_socket(s)
      BY DEF Worker, Network, Server, PutReturns, NetClosed, NetWakeup, ReadHeader,
         ReadUnexpected, ReadPacket, NetError, ServerData, ServerAck, ServerFin, SrvUnchanged,
         tds_write_packet, PutAgain, PutRound, tds_update_recv_wnd, WaitTimeout, NetTimeout,
         tds_packet_write, tds_read_packet, connVars, tds_connection_close
    <2>3. slot[t] = "open"
      <3>1. CASE slot' = slot
        BY <3>1
      <3>2. CASE ReadFin(s)
        BY <1>0, <3>2 DEF ReadFin, Stages
      <3>3. CASE tds_close_socket(s)
        BY <1>0, <3>3 DEF tds_close_socket, tds_connection_close, Stages
      <3>. QED  BY <2>2, <3>1, <3>2, <3>3
    <2>. QED  BY <2>1, <2>3
  <1>now. /\ InOrder(t, packets \o inbox, consumed[t], srv_seq[t])
          /\ Gap(consumed[t], FirstSeq) <= Gap(srv_seq[t], FirstSeq)
    BY <1>open DEF Order
  <1>type. consumed[t] \in Seqs /\ srv_seq[t] \in Seqs /\ FirstSeq \in Seqs /\ SeqMod \in Nat
    BY <1>0, Constants DEF Numbers
  <1>gap. Gap(consumed[t], FirstSeq) \in Nat /\ Gap(srv_seq[t], FirstSeq) \in Nat
          /\ Gap(srv_seq[t], FirstSeq) < SeqMod
    BY <1>type, GapType
  <1>diff. Gap(srv_seq[t], consumed[t]) = Gap(srv_seq[t], FirstSeq) - Gap(consumed[t], FirstSeq)
    BY <1>now, <1>type, GapOrdered
  <1>3. CASE tds_read_packet(s) /\ Received(s) # {} /\ packets' = Without(First(s), packets)
    <2>1. CASE UNCHANGED packets /\ UNCHANGED consumed
      BY <1>3, <1>now, <2>1 DEF tds_read_packet, srvVars
    <2>2. CASE ~(UNCHANGED packets /\ UNCHANGED consumed)
      <3>1. consumed' = [consumed EXCEPT ![s] = packets[First(s)].seq] /\ UNCHANGED <<inbox, srv_seq>>
        BY <1>3, <2>2 DEF tds_read_packet, srvVars, userVars
      <3>2. CASE t = s
        <4>1. /\ InOrder(t, packets' \o inbox', packets[First(s)].seq, srv_seq[t])
              /\ packets[First(s)].seq = Plus(consumed[t], 1)
              /\ Gap(srv_seq[t], consumed[t]) # 0
          BY <1>3, <1>now, <3>1, <3>2, TakeInOrder
        <4>2. consumed'[t] = packets[First(s)].seq
          BY <1>0, <3>1, <3>2 DEF Numbers
        <4>3. Gap(consumed[t], FirstSeq) + 1 < SeqMod
          BY <1>diff, <1>gap, <1>now, <1>type, <4>1
        <4>4. Gap(Plus(consumed[t], 1), FirstSeq) = Gap(consumed[t], FirstSeq) + 1
          BY <1>type, <4>3, GapUp
        <4>5. Gap(Plus(consumed[t], 1), FirstSeq) <= Gap(srv_seq[t], FirstSeq)
          BY <1>diff, <1>gap, <1>now, <4>1, <4>4
        <4>. QED  BY <3>1, <4>1, <4>2, <4>5
      <3>3. CASE t # s
        <4>1. InOrder(t, packets' \o inbox', consumed[t], srv_seq[t])
          BY <1>3, <1>now, <3>1, <3>3, TakeInOrder
        <4>2. consumed'[t] = consumed[t]
          BY <1>0, <3>1, <3>3 DEF Numbers
        <4>. QED  BY <1>now, <3>1, <4>1, <4>2
      <3>. QED  BY <3>2, <3>3
    <2>. QED  BY <2>1, <2>2
  <1>4. CASE ReadPacket(s) \/ ReadFin(s)
    <2>1. /\ inbox # <<>> /\ inbox' = Tail(inbox) /\ UNCHANGED <<consumed, srv_seq>>
          /\ packets' = Delivered(Head(inbox)) \/ (packets' = packets /\ Head(inbox).type # "DATA")
      BY <1>4 DEF ReadPacket, ReadFin, userVars
    <2>2. InOrder(t, packets' \o inbox', consumed[t], srv_seq[t])
      BY <1>now, <2>1, DeliverInOrder
    <2>. QED  BY <1>now, <2>1, <2>2
  <1>5. CASE Server(s)
    <2>0. UNCHANGED <<packets, consumed, seen>>
      BY <1>5 DEF Server, ServerData, ServerAck, ServerFin, SrvUnchanged, userVars
    <2>n. /\ srv_seq[s] \in Seqs /\ Plus(srv_seq[s], 1) \in Seqs /\ Plus(seen[s], Wnd) \in Seqs
          /\ grant[s] \in Seqs
      BY <1>0, Constants, PlusType DEF Numbers
    <2>1. PICK p \in Packets :
              /\ p.sid = s /\ inbox' = Append(inbox, p)
              /\ \/ p.type # "DATA" /\ srv_seq' = srv_seq
                 \/ /\ p.type = "DATA" /\ p.seq = Plus(srv_seq[s], 1)
                    /\ srv_seq' = [srv_seq EXCEPT ![s] = Plus(srv_seq[s], 1)]
                    /\ Gap(srv_seq[s], FirstSeq) < MaxAnswered[s]
      <3>1. CASE ServerData(s)
        <4>1. PICK last \in BOOLEAN :
                  inbox' = Append(inbox, Packet(s, "DATA", Plus(srv_seq[s], 1), Plus(seen[s], Wnd), last))
          BY <1>0, <3>1 DEF ServerData, Numbers
        <4>2. PICK p \in Packets : /\ p = Packet(s, "DATA", Plus(srv_seq[s], 1), Plus(seen[s], Wnd), last)
                                   /\ p.sid = s /\ p.type = "DATA" /\ p.seq = Plus(srv_seq[s], 1)
          BY <2>n, PacketType DEF Packet
        <4>3. srv_seq' = [srv_seq EXCEPT ![s] = Plus(srv_seq[s], 1)]
              /\ Gap(srv_seq[s], FirstSeq) < MaxAnswered[s]
          BY <3>1 DEF ServerData, Gap
        <4>. QED  BY <4>1, <4>2, <4>3
      <3>2. CASE ServerAck(s)
        <4>1. inbox' = Append(inbox, Packet(s, "ACK", srv_seq[s], Plus(seen[s], Wnd), FALSE))
              /\ srv_seq' = srv_seq
          BY <1>0, <3>2 DEF ServerAck, Numbers
        <4>2. PICK p \in Packets : /\ p = Packet(s, "ACK", srv_seq[s], Plus(seen[s], Wnd), FALSE)
                                   /\ p.sid = s /\ p.type # "DATA"
          BY <2>n, PacketType DEF Packet
        <4>. QED  BY <4>1, <4>2
      <3>3. CASE ServerFin(s)
        <4>1. inbox' = Append(inbox, Packet(s, "FIN", srv_seq[s], grant[s], FALSE))
              /\ srv_seq' = srv_seq
          BY <3>3 DEF ServerFin
        <4>2. PICK p \in Packets : /\ p = Packet(s, "FIN", srv_seq[s], grant[s], FALSE)
                                   /\ p.sid = s /\ p.type # "DATA"
          BY <2>n, PacketType DEF Packet
        <4>. QED  BY <4>1, <4>2
      <3>. QED  BY <1>5, <3>1, <3>2, <3>3 DEF Server
    <2>2. PICK q \in Seq(Packets) : q = packets \o inbox
      BY <1>0, ConcatProperties DEF Queues
    <2>3. packets' \o inbox' = Append(q, p)
      BY <1>0, <2>0, <2>1, <2>2, WaySent DEF Queues
    <2>4. InOrder(t, q, consumed[t], srv_seq[t])
      BY <1>now, <2>2
    <2>5. CASE ~IsData(t, p)
      <3>1. InOrder(t, packets' \o inbox', consumed[t], srv_seq[t])
        BY <2>3, <2>4, <2>5, OrderAppendOther
      <3>2. srv_seq'[t] = srv_seq[t]
        BY <1>0, <2>1, <2>5 DEF Numbers, IsData
      <3>. QED  BY <1>now, <2>0, <3>1, <3>2
    <2>6. CASE IsData(t, p)
      <3>0. t = s /\ p.type = "DATA"
        BY <2>1, <2>6 DEF IsData
      <3>1. p.seq = Plus(srv_seq[t], 1) /\ srv_seq'[t] = Plus(srv_seq[t], 1)
            /\ Gap(srv_seq[t], FirstSeq) < MaxAnswered[t]
        BY <1>0, <2>1, <3>0 DEF Numbers
      <3>2. MaxAnswered[t] \in 0 .. SeqMod - 1
        BY WindowAssumption
      <3>3. Gap(srv_seq[t], FirstSeq) + 1 < SeqMod /\ Gap(srv_seq[t], consumed[t]) + 1 < SeqMod
        BY <1>diff, <1>gap, <1>type, <3>1, <3>2
      <3>4. InOrder(t, packets' \o inbox', consumed[t], p.seq)
        BY <1>type, <2>3, <2>4, <2>6, <3>1, <3>3, OrderAppendOwn
      <3>5. Gap(Plus(srv_seq[t], 1), FirstSeq) = Gap(srv_seq[t], FirstSeq) + 1
        BY <1>type, <3>3, GapUp
      <3>6. Gap(consumed[t], FirstSeq) <= Gap(Plus(srv_seq[t], 1), FirstSeq)
        BY <1>gap, <1>now, <3>5
      <3>. QED  BY <2>0, <3>1, <3>4, <3>6
    <2>. QED  BY <2>5, <2>6
  <1>6. CASE UNCHANGED <<packets, inbox, consumed, srv_seq>>
    BY <1>6, <1>now
  <1>7. \/ UNCHANGED <<packets, inbox, consumed, srv_seq>>
        \/ tds_read_packet(s) /\ Received(s) # {} /\ packets' = Without(First(s), packets)
        \/ ReadPacket(s) \/ ReadFin(s) \/ Server(s)
    BY DEF Worker, Network, PutReturns, NetClosed, NetWakeup, ReadHeader,
       ReadUnexpected, NetError, ServerReads,
       tds_write_packet, PutAgain, PutRound, tds_update_recv_wnd, WaitTimeout, NetTimeout,
       tds_packet_write, tds_read_packet, userVars, srvVars
  <1>. QED  BY <1>3, <1>4, <1>5, <1>6, <1>7

----------------------------------------------------------------------------
(* What follows.                                                           *)

Everything ==
    /\ TypeOK /\ OneNetworkThread /\ PollsForWrite /\ AfterFin /\ FinIsLast /\ OneQueued
    /\ SendingFollows /\ Windows /\ OnlyData /\ Order

(* All of it holds when the sessions are open and quiet.                   *)
LEMMA Starts == Init => AfterFin /\ FinIsLast /\ OneQueued /\ SendingFollows /\ Windows /\ OnlyData /\ Order
  <1>. SUFFICES ASSUME Init
                PROVE  AfterFin /\ FinIsLast /\ OneQueued /\ SendingFollows /\ Windows /\ OnlyData /\ Order
    OBVIOUS
  <1>0. /\ send_packets = <<>> /\ packets = <<>> /\ inbox = <<>>
        /\ \A s \in Sessions : /\ slot[s] = "open" /\ srv_open[s] = "open" /\ pc[s] = "app"
                               /\ ~dead[s] /\ ~sending[s] /\ ~held[s]
    BY DEF Init, All
  <1>1. \A s \in Sessions : /\ send_seq[s] = FirstSeq /\ seen[s] = FirstSeq /\ consumed[s] = FirstSeq
                            /\ srv_seq[s] = FirstSeq /\ send_wnd[s] = Plus(FirstSeq, Wnd)
                            /\ grant[s] = Plus(FirstSeq, Wnd)
    BY DEF Init, All
  <1>2. \A s \in Sessions : DataOf(s, send_packets) = {} /\ DataOf(s, packets \o inbox) = {} /\ For(s, inbox) = {}
    <2>1. packets \o inbox = <<>>
      BY <1>0
    <2>. QED  BY <1>0, <2>1 DEF DataOf, For
  <1>3. AfterFin /\ FinIsLast /\ OnlyData
    BY <1>0 DEF AfterFin, FinSent, FinIsLast, Elems, OnlyData
  <1>4. OneQueued /\ SendingFollows
    BY <1>0, <1>1, <1>2 DEF OneQueued, SendingFollows
  <1>5. Gap(Plus(FirstSeq, Wnd), FirstSeq) = Wnd /\ Wnd \in Nat /\ Gap(FirstSeq, FirstSeq) = 0
    <2>1. Wnd \in Seqs /\ FirstSeq \in Seqs /\ Wnd \in Nat
      BY Constants DEF Seqs
    <2>. QED  BY <2>1, GapPlus, GapType
  <1>6. Windows
    BY <1>1, <1>2, <1>5 DEF Windows, Grow
  <1>7. Order
    <2>. SUFFICES ASSUME NEW s \in Sessions
                  PROVE  InOrder(s, packets \o inbox, consumed[s], srv_seq[s])
                         /\ Gap(consumed[s], FirstSeq) <= Gap(srv_seq[s], FirstSeq)
      BY DEF Order
    <2>1. 1 .. Gap(srv_seq[s], consumed[s]) = {}
      BY <1>1, <1>5
    <2>2. InOrder(s, packets \o inbox, consumed[s], srv_seq[s])
      BY <1>2, <2>1 DEF InOrder
    <2>. QED  BY <1>1, <1>5, <2>2
  <1>. QED  BY <1>3, <1>4, <1>6, <1>7

(* And stays.                                                              *)
LEMMA Holds == Spec => []Everything
  <1>1. Init => AfterFin /\ FinIsLast /\ OneQueued /\ SendingFollows /\ Windows /\ OnlyData /\ Order
    BY Starts
  <1>2. /\ TypeOK /\ OneNetworkThread /\ PollsForWrite
        /\ AfterFin /\ FinIsLast /\ OneQueued /\ SendingFollows /\ Windows /\ OnlyData /\ Order
        /\ [Next]_vars
        => (AfterFin /\ FinIsLast /\ OneQueued /\ SendingFollows /\ Windows /\ OnlyData /\ Order)'
    BY StepFin, StepQueued, StepSending, StepWindows, StepOrder
  <1>. QED  BY <1>1, <1>2, TypesAndThreads, PTL DEF Spec, Everything

(* tds_connection_put_packet(): a live session whose thread is out of it,  *)
(* or told that its packet is sent, has nothing left to write.             *)
THEOREM PutsAreWritten == Spec => []SentMeansWritten
  <1>1. OneQueued /\ SendingFollows => SentMeansWritten
    BY DEF OneQueued, SendingFollows, SentMeansWritten
  <1>. QED  BY <1>1, Holds, PTL DEF Everything

(* tds_connection_put_packet(): every packet queued fits the window the    *)
(* server has in mind, wherever the sequence numbers wrap.                 *)
THEOREM InWindow == Spec => []SendsStayInWindow
  <1>1. TypeOK /\ OneQueued /\ Windows => SendsStayInWindow
    <2>. SUFFICES ASSUME TypeOK, OneQueued, Windows, NEW i \in DOMAIN send_packets,
                         send_packets[i].type = "DATA"
                  PROVE  NotBefore(grant[send_packets[i].sid], send_packets[i].seq)
      BY DEF SendsStayInWindow, Elems
    <2>0. Queues /\ Numbers
      BY TypeParts
    <2>1. PICK t \in Sessions : t = send_packets[i].sid
      <3>1. send_packets[i] \in Packets
        BY <2>0 DEF Queues
      <3>. QED  BY <3>1 DEF Packets
    <2>2. i \in DataOf(t, send_packets)
      BY <2>1 DEF DataOf
    <2>3. send_packets[i].seq = Plus(seen[t], 1)
      BY <2>2 DEF OneQueued
    <2>4. /\ Gap(send_wnd[t], seen[t]) # 0 /\ Gap(grant[t], seen[t]) <= Wnd
          /\ Gap(send_wnd[t], seen[t]) <= Gap(grant[t], seen[t])
      BY <2>2 DEF Windows, Grow
    <2>5. grant[t] \in Seqs /\ seen[t] \in Seqs /\ send_wnd[t] \in Seqs
      BY <2>0 DEF Numbers
    <2>6. Gap(grant[t], seen[t]) \in Nat /\ Gap(send_wnd[t], seen[t]) \in Nat
      BY <2>5, GapType
    <2>7. Gap(grant[t], Plus(seen[t], 1)) = Gap(grant[t], seen[t]) - 1
      BY <2>4, <2>5, <2>6, GapNext
    <2>8. Wnd <= SeqMod \div 2
      BY Constants
    <2>9. Gap(grant[t], Plus(seen[t], 1)) < SeqMod \div 2
      BY <2>4, <2>6, <2>7, <2>8, Constants
    <2>. QED  BY <2>1, <2>3, <2>9 DEF NotBefore, Gap
  <1>. QED  BY <1>1, Holds, PTL DEF Everything

(* tds_packet_read() and tds_read_packet(): a session gets the server's    *)
(* packets in the order they were sent, none lost, doubled or taken by     *)
(* another session; and its FIN is the last packet it sends.               *)
THEOREM OrderIsKept == Spec => []NothingOutOfOrder
  <1>1. FinIsLast /\ Order => NothingOutOfOrder
    BY DEF Order, InOrder, Gap, NothingOutOfOrder
  <1>. QED  BY <1>1, Holds, PTL DEF Everything
==============================================================================
