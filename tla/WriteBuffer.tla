---------------------------- MODULE WriteBuffer ----------------------------
(***************************************************************************)
(* How libtds builds a request (src/tds/write.c, packet.c): the fixed size *)
(* writes that may run over the end of a packet, the cut into packets, and *)
(* the freezes, that keep packets back until a length in front of them is  *)
(* known or the request is given up.  Built with ENABLE_ODBC_MARS.         *)
(*                                                                         *)
(* Positions do not count the 8 bytes of the packet header.  A byte is a   *)
(* digit of a length, 0 .. Base - 1, or a datum, Base .. Base + Data - 1:  *)
(* data are numbered in the order they are written, so that bytes that are *)
(* lost, doubled or out of place are seen.  Packets that go to the cache   *)
(* and come from it are all alike and are not followed.                    *)
(***************************************************************************)
EXTENDS Integers, FiniteSets, Sequences, SequencesExt

CONSTANTS
    BufMax, Extra,   \* out_buf_max, TDS_ADDITIONAL_SPACE
    Widths,          \* the integers tds_put_int() and its like write
    SizeLens,        \* the lengths of a length
    Base, Data,      \* bounds: digits and data that are told apart
    MaxChain,        \* bound: packets that are kept back
    MaxDepth,        \* bound: freezes in each other
    Fails            \* the connection may be lost

ASSUME SpaceAssumption ==
    /\ {BufMax, Extra, Base, Data, MaxChain, MaxDepth} \subseteq Nat \ {0}
    /\ Extra < BufMax /\ \A w \in Widths : w \in 1 .. Extra
    /\ SizeLens \subseteq Nat /\ Fails \in BOOLEAN

VARIABLES
    b    \* the session's side of the request

Bytes == 0 .. (Base + Data - 1)
Freeze == [pkt : Nat, pos : Nat, size_len : SizeLens, mark : Nat]
Request ==
    [chain : Seq(Seq(Bytes)),     \* the packets from frozen_packets, or send_packet, up to send_packet
     freezes : Seq(Freeze),       \* the TDSFREEZE of the callers, frozen is their number
     shared : BOOLEAN,            \* the packet being written is in packet_cache, too
     dead : BOOLEAN,
     luck : 0 .. MaxChain + 1,    \* how many more packets will be sent before the connection is lost
     want : Seq(Bytes),           \* history: what is to be sent, the next datum, whether
     datum : 0 .. Data - 1,       \* a packet that was sent was not what it should be
     bad : BOOLEAN]

OutPos(c) == Len(Last(c.chain))

(* Every field has its type, and no packet is written past the space after *)
(* its end (tds_check_tds_extra()), only the one being written past it.    *)
TypeOK ==
    /\ b \in Request
    /\ b.chain # <<>> /\ OutPos(b) <= BufMax + Extra
    /\ \A i \in 1 .. (Len(b.chain) - 1) : Len(b.chain[i]) <= BufMax

Init == b = [chain |-> <<<<>>>>, freezes |-> <<>>, shared |-> FALSE,
             dead |-> FALSE, luck |-> 0, want |-> <<>>, datum |-> 0, bad |-> FALSE]

-----------------------------------------------------------------------------
(* Packets.                                                                *)

(* tds_connection_put_packet(): the packet is written and goes to the      *)
(* cache, or is freed.                                                     *)
tds_connection_put_packet(c, p, final) ==
    LET n == Len(p)
        wrong == n > Len(c.want) \/ p # SubSeq(c.want, 1, n)
                 \/ n = 0 \/ (final <=> n # Len(c.want)) \/ (~final /\ n # BufMax)
    IN  IF c.dead \/ c.luck = 0 THEN [c EXCEPT !.dead = TRUE]
        ELSE [c EXCEPT !.luck = @ - 1, !.bad = @ \/ wrong, !.want = SubSeq(@, n + 1, Len(@))]

\* The packet is cut at its end and kept back or sent; what is left begins the next.
tds_write_packet(c, final) ==
    LET p == Last(c.chain)
        cut == SubSeq(p, 1, IF Len(p) > BufMax THEN BufMax ELSE Len(p))
        next == SubSeq(p, BufMax + 1, Len(p))
    IN  IF c.freezes # <<>> THEN [c EXCEPT !.chain = Front(c.chain) \o <<cut, next>>]
        ELSE tds_connection_put_packet([c EXCEPT !.chain = <<next>>], cut, final)

-----------------------------------------------------------------------------
(* Writing.                                                                *)

Append1(c, bytes) == [c EXCEPT !.chain[Len(c.chain)] = @ \o bytes]

\* Mutant: the end of the packet is not looked at.
PutInt_unchecked(c, bytes) == Append1(c, bytes)

\* tds_put_byte(), tds_put_smallint(), tds_put_int(), tds_put_int8().
PutInt(c, bytes) == Append1(IF OutPos(c) >= BufMax THEN tds_write_packet(c, FALSE) ELSE c, bytes)

\* One turn of the loop for each byte: the loop copies what fits.
tds_put_n(c, bytes) ==
    LET after[n \in 0 .. Len(bytes)] == IF n = 0 THEN c ELSE PutInt(after[n - 1], <<bytes[n]>>)
    IN  after[Len(bytes)]

tds_freeze(c, size_len) ==
    LET r == IF OutPos(c) > BufMax THEN tds_write_packet(c, FALSE) ELSE c
        f == [pkt |-> Len(r.chain), pos |-> OutPos(r), size_len |-> size_len, mark |-> Len(r.want)]
        zeros == [i \in 1 .. size_len |-> 0]
    IN  tds_put_n([r EXCEPT !.freezes = Append(@, f), !.want = @ \o zeros], zeros)

\* "last packet needs special handling"; data_len counts the header, too.
tds_freeze_written(c, f) ==
    LET size[n \in 0 .. (Len(c.chain) - f.pkt)] ==
            IF n = 0 THEN 0 ELSE size[n - 1] + Len(c.chain[f.pkt + n - 1])
    IN  size[Len(c.chain) - f.pkt] + OutPos(c) - f.pos

\* The digits of a length, the least first, cut to size_len.
Digits(size, size_len) ==
    LET rest[n \in 0 .. size_len] == IF n = 0 THEN size ELSE rest[n - 1] \div Base
    IN  [k \in 1 .. size_len |-> rest[k - 1] % Base]

\* Mutant: the length is taken to lie in one packet.
tds_freeze_update_size_within(c, f, size) ==
    [c EXCEPT !.chain[f.pkt] =
        [i \in DOMAIN @ |-> IF i \in f.pos + 1 .. f.pos + f.size_len
                            THEN Digits(size, f.size_len)[i - f.pos] ELSE @[i]]]

\* A turn of the loop: at.pkt and at.pos are where the next digit goes.
PutDigit(at) ==
    LET over == at.pos >= Len(at.chain[at.pkt]) /\ at.pkt < Len(at.chain)
        pkt == IF over THEN at.pkt + 1 ELSE at.pkt
        pos == IF over THEN 0 ELSE at.pos
    IN  [chain |-> [at.chain EXCEPT ![pkt][pos + 1] = at.size % Base],
         pkt |-> pkt, pos |-> pos + 1, size |-> at.size \div Base]

tds_freeze_update_size(c, f, size) ==
    LET at[n \in 0 .. f.size_len] ==
            IF n = 0 THEN [chain |-> c.chain, pkt |-> f.pkt, pos |-> f.pos, size |-> size]
            ELSE PutDigit(at[n - 1])
    IN  [c EXCEPT !.chain = at[f.size_len].chain]

SendNext(c, p) == IF c.dead THEN c ELSE tds_connection_put_packet(c, p, FALSE)

(* The packets up to send_packet are sent.  When one cannot be, those      *)
(* after it go to the cache: from freeze->pkt, the next one, to the one    *)
(* before send_packet; if there is none, from and to send_packet itself.   *)
SendKept(c) ==
    LET kept == Front(c.chain)
        sent[n \in 0 .. Len(kept)] ==
            IF n = 0 THEN [c EXCEPT !.chain = <<Last(c.chain)>>] ELSE SendNext(sent[n - 1], kept[n])
        r == sent[Len(kept)]
    IN  IF r.dead /\ c.luck + 2 > Len(kept) THEN [r EXCEPT !.shared = TRUE] ELSE r

tds_freeze_close_len(c, size) ==
    LET f == Last(c.freezes)
        u == IF f.size_len = 0 THEN c ELSE tds_freeze_update_size(c, f, size)
        r == [u EXCEPT !.freezes = Front(@)]
    IN  IF r.freezes # <<>> THEN r ELSE SendKept(r)

tds_freeze_abort(c) ==
    LET f == Last(c.freezes)
        cut == SubSeq(c.chain[f.pkt], 1, f.pos)
    IN  [c EXCEPT !.chain = Append(SubSeq(@, 1, f.pkt - 1), cut), !.freezes = Front(@),
                  !.want = SubSeq(@, 1, f.mark)]

tds_flush_packet(c) ==
    LET r == IF OutPos(c) > BufMax THEN tds_write_packet(c, FALSE) ELSE c
    IN  IF r.dead THEN r ELSE tds_write_packet(r, TRUE)

-----------------------------------------------------------------------------
(* Actions.  The calls are made by the functions that build requests, whose *)
(* freezes are closed in the order opposite to the one they were begun in.  *)
(* Once the connection is lost nothing more of the request is followed.     *)

\* Data to write, and the state after it was numbered.
Fresh(n) == [i \in 1 .. n |-> Base + ((b.datum + i - 1) % Data)]
Writes(n) == [b EXCEPT !.want = @ \o Fresh(n), !.datum = (@ + n) % Data]

\* The number of what was written after a length takes its place in what is to be sent.
Counts(f, unit) ==
    LET digits == Digits((Len(b.want) - (f.mark + f.size_len)) \div unit, f.size_len)
    IN  [b EXCEPT !.want = [i \in DOMAIN @ |-> IF i \in f.mark + 1 .. f.mark + f.size_len
                                               THEN digits[i - f.mark] ELSE @[i]]]

Fate == IF Fails THEN 0 .. MaxChain + 1 ELSE {MaxChain + 1}
With(c, luck) == [c EXCEPT !.luck = luck]
Room == Len(b.chain) < MaxChain
Becomes(c) == ~b.dead /\ b' = With(c, 0)

Put(n) == Room /\ \E luck \in Fate : Becomes(tds_put_n(With(Writes(n), luck), Fresh(n)))

PutFixed(w) == Room /\ \E luck \in Fate : Becomes(PutInt(With(Writes(w), luck), Fresh(w)))

BeginFreeze(size_len) ==
    /\ Room /\ Len(b.freezes) < MaxDepth
    /\ \E luck \in Fate : Becomes(tds_freeze(With(b, luck), size_len))

\* tds_freeze_close(), and tds_freeze_close_string() with unit 2.
CloseFreeze(unit) ==
    /\ b.freezes # <<>>
    /\ LET f == Last(b.freezes)
           size == (tds_freeze_written(b, f) - f.size_len) \div unit
       IN  \E luck \in Fate : Becomes(tds_freeze_close_len(With(Counts(f, unit), luck), size))

AbortFreeze == b.freezes # <<>> /\ Becomes(tds_freeze_abort(b))

\* A request is sent that has something in it.
Flush ==
    /\ b.freezes = <<>> /\ b.want # <<>>
    /\ \E luck \in Fate : Becomes(tds_flush_packet(With(b, luck)))

Next ==
    \/ \E n \in {1, BufMax + 1} : Put(n)
    \/ \E w \in Widths : PutFixed(w)
    \/ \E k \in SizeLens : BeginFreeze(k)
    \/ \E unit \in {1, 2} : CloseFreeze(unit)
    \/ AbortFreeze
    \/ Flush

Spec == Init /\ [][Next]_b

-----------------------------------------------------------------------------
(* Properties.                                                             *)

(* Where a packet begins in the stream, when those before it are full.     *)
Off(i) == (i - 1) * BufMax

(* The server gets the bytes of the request in their order, each length    *)
(* with its final value although it may lie across two packets, nothing of *)
(* what was aborted, in packets that are full except for the last, which   *)
(* is not empty (unittests/freeze.c, strip_headers()): each packet sent    *)
(* was the next part of that stream, and the rest of it is kept, in        *)
(* packets that are full but for the one being written.                    *)
StreamIsIntact ==
    ~b.dead =>
        /\ ~b.bad
        /\ Len(b.want) = Off(Len(b.chain)) + OutPos(b)
        /\ \A i \in 1 .. Len(b.chain) : \A j \in 1 .. Len(b.chain[i]) :
              b.chain[i][j] = b.want[Off(i) + j]
        /\ \A i \in 1 .. (Len(b.chain) - 1) : Len(b.chain[i]) = BufMax

(* packet.c:1070: "packet will get owned by function, no need to release   *)
(* it", and the tds_extra_assert() calls of tds_freeze_close_len(): what   *)
(* it puts into packet_cache are packets kept back, never the one that     *)
(* send_packet goes on using.                                              *)
PacketsHaveOneOwner == ~b.shared
=============================================================================
