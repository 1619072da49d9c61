------------------------- MODULE WriteBuffer_proof -------------------------
(***************************************************************************)
(* Requests for every size of the packets, every nesting of freezes and    *)
(* every length of what is written: no packet is written past the space    *)
(* after its end, and the server gets the bytes that were meant.           *)
(***************************************************************************)
EXTENDS WriteBuffer, WellFoundedInduction, TLAPS

(* The bytes that are in the packets.                                      *)
End(c) == Off(Len(c.chain)) + OutPos(c)

(* All packets but the one being written are full, and a packet was begun  *)
(* only to write to it.                                                    *)
Full(c) ==
    /\ c.chain # <<>>
    /\ \A i \in 1 .. (Len(c.chain) - 1) : Len(c.chain[i]) = BufMax
Begun(c) == Len(c.chain) > 1 => OutPos(c) > 0
Shape(c) ==
    /\ c \in Request /\ Full(c) /\ OutPos(c) <= BufMax + Extra
    /\ c.freezes = <<>> => Len(c.chain) = 1

(* The packets hold what is to be sent, up to the bytes after the first k  *)
(* of the ones that are being written.                                     *)
Sound(c, bytes, k) ==
    ~c.dead =>
        /\ ~c.bad
        /\ Len(c.want) = End(c) + Len(bytes) - k
        /\ \A i \in 1 .. Len(c.chain) : \A j \in 1 .. Len(c.chain[i]) :
              c.chain[i][j] = c.want[Off(i) + j]
        /\ \A j \in (k + 1) .. Len(bytes) : c.want[End(c) + j - k] = bytes[j]

(* A freeze knows its place, in the packets and in the stream; its length  *)
(* is written; the freezes follow each other, the first in the first       *)
(* packet.                                                                 *)
Placed(c, f) ==
    /\ f.pkt \in 1 .. Len(c.chain) /\ f.pos <= BufMax
    /\ f.mark = Off(f.pkt) + f.pos /\ f.mark + f.size_len <= End(c)
    /\ f.pkt > 1 => f.pos > 0
Nested(c) ==
    /\ \A k \in 1 .. Len(c.freezes) : Placed(c, c.freezes[k])
    /\ \A k, m \in 1 .. Len(c.freezes) : k < m =>
          /\ c.freezes[k].pkt <= c.freezes[m].pkt
          /\ c.freezes[k].mark + c.freezes[k].size_len <= c.freezes[m].mark
    /\ c.freezes # <<>> => c.freezes[1].pkt = 1

(* The inductive invariant.  A lost connection ends the request.           *)
Good(c) == Shape(c) /\ (~c.dead => Begun(c) /\ Nested(c) /\ Sound(c, <<>>, 0))
IInv == Good(b)

----------------------------------------------------------------------------
(* Numbers.                                                                *)

(* What is assumed of the constants.                                       *)
LEMMA Sizes ==
    /\ BufMax \in Nat /\ Extra \in Nat /\ Base \in Nat /\ Data \in Nat /\ MaxChain \in Nat
    /\ 0 < Extra /\ Extra < BufMax /\ 0 < Base /\ 0 < Data
    /\ \A w \in Widths : w \in 1 .. Extra
    /\ SizeLens \subseteq Nat
  BY SpaceAssumption

(* Where packets begin.                                                    *)
LEMMA OffIs ==
    ASSUME NEW i \in Nat, i > 0
    PROVE  Off(i) \in Nat /\ Off(1) = 0 /\ Off(i + 1) = Off(i) + BufMax
  <1>1. PICK n \in Nat : n = i - 1
    OBVIOUS
  <1>2. n * BufMax \in Nat /\ (n + 1) * BufMax = n * BufMax + BufMax
    BY Sizes
  <1>. QED  BY <1>1, <1>2, Sizes DEF Off

(* Full packets do not overlap.                                            *)
LEMMA OffGrows ==
    ASSUME NEW i \in Nat, i > 0, NEW j \in Nat, i < j
    PROVE  Off(i) + BufMax <= Off(j)
  <1>1. PICK n \in Nat, m \in Nat : n = i - 1 /\ m = j - 1 - n - 1
    OBVIOUS
  <1>2. m * BufMax \in Nat /\ n * BufMax \in Nat /\ (n + m + 1) * BufMax = n * BufMax + m * BufMax + BufMax
    BY Sizes
  <1>3. i - 1 = n /\ j - 1 = n + m + 1
    BY <1>1
  <1>. QED  BY <1>2, <1>3, Sizes DEF Off

(* A set of naturals that is not empty has a smallest element.             *)
LEMMA Smallest ==
    ASSUME NEW T, T \subseteq Nat, T # {}
    PROVE  \E n \in T : \A m \in T : n <= m
  <1>1. PICK n \in T : \A m \in T : ~(<<m, n>> \in OpToRel(<, Nat))
    BY NatLessThanWellFounded, WFMin
  <1>2. \A m \in T : ~(m < n)
    BY <1>1 DEF OpToRel
  <1>. QED  BY <1>2

(* One sequence after another, its places, and a part of one.             *)
Concat(t, q, x) ==
    /\ Len(q) \in Nat /\ Len(x) \in Nat /\ Len(t) = Len(q) + Len(x)
    /\ \A j \in 1 .. Len(q) : t[j] = q[j]
    /\ \A j \in 1 .. Len(x) : t[Len(q) + j] = x[j]

LEMMA ConcatIs ==
    ASSUME NEW S, NEW q \in Seq(S), NEW x \in Seq(S)
    PROVE  q \o x \in Seq(S) /\ Concat(q \o x, q, x)
  BY DEF Concat

InOne(q, x, j) ==
    \/ j \in 1 .. Len(q) /\ (q \o x)[j] = q[j]
    \/ \E h \in 1 .. Len(x) : j = Len(q) + h /\ (q \o x)[j] = x[h]

LEMMA ConcatPlaces ==
    ASSUME NEW S, NEW q \in Seq(S), NEW x \in Seq(S), NEW j \in 1 .. Len(q \o x)
    PROVE  InOne(q, x, j)
  <1>0. Concat(q \o x, q, x)
    BY ConcatIs
  <1>1. PICK n \in Nat, m \in Nat : n = Len(q) /\ m = Len(x) /\ Len(q \o x) = n + m
    BY <1>0 DEF Concat
  <1>2. j \in 1 .. (n + m)
    BY <1>1
  <1>3. CASE j <= n
    BY <1>0, <1>1, <1>2, <1>3 DEF InOne, Concat
  <1>4. CASE j > n
    <2>1. PICK h \in 1 .. m : j = n + h
      <3>1. j - n \in 1 .. m /\ j = n + (j - n)
        BY <1>2, <1>4
      <3>. QED  BY <3>1
    <2>. QED  BY <1>0, <1>1, <2>1 DEF InOne, Concat
  <1>. QED  BY <1>2, <1>3, <1>4

Part(t, q, m, n) ==
    Len(t) = n - m + 1 /\ \A j \in 1 .. (n - m + 1) : t[j] = q[m + j - 1]

LEMMA PartIs ==
    ASSUME NEW S, NEW q \in Seq(S), NEW m \in Nat, NEW n \in Nat, 1 <= m, m <= n + 1, n <= Len(q)
    PROVE  SubSeq(q, m, n) \in Seq(S) /\ Part(SubSeq(q, m, n), q, m, n)
  BY DEF Part

LEMMA SameSeq ==
    ASSUME NEW S, NEW q \in Seq(S), NEW x \in Seq(S), Len(q) = Len(x), \A j \in 1 .. Len(q) : q[j] = x[j]
    PROVE  q = x
  OBVIOUS

LEMMA EmptyIs ==
    ASSUME NEW S, NEW q \in Seq(S)
    PROVE  q = <<>> <=> Len(q) = 0
  OBVIOUS

----------------------------------------------------------------------------
(* Requests.                                                               *)

(* The parts of a request.                                                 *)
LEMMA Parts ==
    ASSUME NEW c \in Request
    PROVE  /\ c.chain \in Seq(Seq(Bytes)) /\ c.freezes \in Seq(Freeze) /\ c.want \in Seq(Bytes)
           /\ c.dead \in BOOLEAN /\ c.bad \in BOOLEAN /\ c.shared \in BOOLEAN
           /\ c.luck \in 0 .. MaxChain + 1 /\ c.datum \in 0 .. Data - 1
           /\ Len(c.chain) \in Nat /\ Len(c.want) \in Nat /\ Len(c.freezes) \in Nat
           /\ \A i \in 1 .. Len(c.chain) : c.chain[i] \in Seq(Bytes) /\ Len(c.chain[i]) \in Nat
  BY DEF Request

(* The packet that is being written.                                       *)
LEMMA LastPacket ==
    ASSUME NEW c \in Request, c.chain # <<>>
    PROVE  /\ Len(c.chain) \in Nat /\ Len(c.chain) > 0
           /\ Last(c.chain) = c.chain[Len(c.chain)] /\ Last(c.chain) \in Seq(Bytes)
           /\ OutPos(c) = Len(c.chain[Len(c.chain)]) /\ OutPos(c) \in Nat
           /\ Off(Len(c.chain)) \in Nat /\ End(c) \in Nat
           /\ End(c) = Off(Len(c.chain)) + OutPos(c)
  <1>1. Len(c.chain) \in Nat /\ Len(c.chain) > 0
    BY Parts
  <1>2. Last(c.chain) = c.chain[Len(c.chain)] /\ c.chain[Len(c.chain)] \in Seq(Bytes)
    BY <1>1, Parts DEF Last
  <1>3. OutPos(c) = Len(c.chain[Len(c.chain)]) /\ OutPos(c) \in Nat
    BY <1>2 DEF OutPos
  <1>4. Off(Len(c.chain)) \in Nat
    BY <1>1, OffIs
  <1>. QED  BY <1>1, <1>2, <1>3, <1>4 DEF End

(* Two places of a request are different places of the stream.             *)
LEMMA PlacesDiffer ==
    ASSUME NEW c \in Request, Full(c),
           NEW i \in 1 .. Len(c.chain), NEW j \in 1 .. Len(c.chain[i]),
           NEW k \in 1 .. Len(c.chain), NEW m \in 1 .. Len(c.chain[k]),
           Off(i) + j = Off(k) + m
    PROVE  i = k /\ j = m
  <1>1. /\ i \in Nat /\ i > 0 /\ k \in Nat /\ k > 0 /\ Len(c.chain) \in Nat
        /\ j \in Nat /\ m \in Nat /\ j > 0 /\ m > 0
        /\ j <= Len(c.chain[i]) /\ m <= Len(c.chain[k])
    BY Parts
  <1>2. Off(i) \in Nat /\ Off(k) \in Nat
    BY <1>1, OffIs
  <1>3. i < k => Len(c.chain[i]) = BufMax /\ Off(i) + BufMax <= Off(k)
    BY <1>1, OffGrows DEF Full
  <1>4. k < i => Len(c.chain[k]) = BufMax /\ Off(k) + BufMax <= Off(i)
    BY <1>1, OffGrows DEF Full
  <1>5. ~(i < k)
    BY <1>1, <1>2, <1>3, Sizes
  <1>6. ~(k < i)
    BY <1>1, <1>2, <1>4, Sizes
  <1>. QED  BY <1>1, <1>2, <1>5, <1>6

(* Every place is one of the stream.                                       *)
LEMMA PlacesAreInStream ==
    ASSUME NEW c \in Request, Full(c), NEW i \in 1 .. Len(c.chain), NEW j \in 1 .. Len(c.chain[i])
    PROVE  Off(i) + j \in 1 .. End(c)
  <1>1. i \in Nat /\ i > 0 /\ Len(c.chain) \in Nat /\ Len(c.chain) > 0 /\ j \in Nat /\ j > 0 /\ j <= Len(c.chain[i])
    BY Parts
  <1>2. Off(i) \in Nat /\ Off(Len(c.chain)) \in Nat
    BY <1>1, OffIs
  <1>3. i < Len(c.chain) => Len(c.chain[i]) = BufMax /\ Off(i) + BufMax <= Off(Len(c.chain))
    BY <1>1, OffGrows DEF Full
  <1>4. End(c) = Off(Len(c.chain)) + Len(c.chain[Len(c.chain)]) /\ Len(c.chain[Len(c.chain)]) \in Nat
    BY LastPacket DEF Full
  <1>. QED  BY <1>1, <1>2, <1>3, <1>4, Sizes

----------------------------------------------------------------------------
(* Writing.                                                                *)

(* All but the packets.                                                    *)
Same(r, c) ==
    /\ r.freezes = c.freezes /\ r.shared = c.shared /\ r.dead = c.dead /\ r.luck = c.luck
    /\ r.want = c.want /\ r.datum = c.datum /\ r.bad = c.bad

(* Other packets make another request.                                     *)
LEMMA NewChain ==
    ASSUME NEW c \in Request, NEW s \in Seq(Seq(Bytes))
    PROVE  LET r == [c EXCEPT !.chain = s] IN r \in Request /\ r.chain = s /\ Same(r, c)
  BY DEF Request, Same

(* Bytes go to the end of the last packet.                                 *)
LEMMA AppendChain ==
    ASSUME NEW c \in Request, Full(c), NEW x \in Seq(Bytes)
    PROVE  LET r == Append1(c, x)
           IN  /\ r \in Request /\ Full(r) /\ Same(r, c)
               /\ Len(r.chain) = Len(c.chain)
               /\ \A i \in 1 .. (Len(c.chain) - 1) : r.chain[i] = c.chain[i]
               /\ Last(r.chain) = Last(c.chain) \o x
               /\ r.chain[Len(c.chain)] = c.chain[Len(c.chain)] \o x
               /\ OutPos(r) = OutPos(c) + Len(x) /\ End(r) = End(c) + Len(x)
  <1>. DEFINE n == Len(c.chain)
              p == c.chain[n] \o x
              s == [c.chain EXCEPT ![n] = p]
              r == [c EXCEPT !.chain = s]
  <1>1. n \in Nat /\ n > 0 /\ c.chain[n] \in Seq(Bytes) /\ OutPos(c) = Len(c.chain[n]) /\ OutPos(c) \in Nat
        /\ End(c) = Off(n) + OutPos(c) /\ Off(n) \in Nat /\ Last(c.chain) = c.chain[n]
    BY LastPacket DEF Full
  <1>2. p \in Seq(Bytes) /\ Len(p) = OutPos(c) + Len(x) /\ Len(x) \in Nat
    BY <1>1
  <1>. HIDE DEF p
  <1>3. c.chain \in Seq(Seq(Bytes))
    BY Parts
  <1>4. s \in Seq(Seq(Bytes)) /\ Len(s) = n /\ s[n] = p /\ \A i \in 1 .. n - 1 : s[i] = c.chain[i]
    BY <1>1, <1>2, <1>3
  <1>. HIDE DEF s
  <1>5. r \in Request /\ r.chain = s /\ Same(r, c)
    BY <1>4, NewChain
  <1>. HIDE DEF r
  <1>6. Append1(c, x) = r
    BY DEF Append1, r, s, p
  <1>7. Last(r.chain) = p /\ OutPos(r) = Len(p)
    BY <1>4, <1>5 DEF Last, OutPos
  <1>8. End(r) = End(c) + Len(x)
    BY <1>1, <1>2, <1>4, <1>5, <1>7 DEF End
  <1>9. Full(r)
    BY <1>1, <1>4, <1>5 DEF Full
  <1>. QED  BY <1>1, <1>2, <1>4, <1>5, <1>6, <1>7, <1>8, <1>9 DEF p

(* If they are the next bytes of what is written, they are in their place. *)
Follows(x, bytes, k) ==
    k + Len(x) <= Len(bytes) /\ \A j \in 1 .. Len(x) : x[j] = bytes[k + j]

LEMMA AppendIs ==
    ASSUME NEW c \in Request, Full(c), NEW x \in Seq(Bytes), NEW bytes \in Seq(Bytes),
           NEW k \in Nat, Follows(x, bytes, k), Sound(c, bytes, k)
    PROVE  Sound(Append1(c, x), bytes, k + Len(x))
  <1>1. PICK r : r = Append1(c, x)
    OBVIOUS
  <1>2. PICK n \in Nat, m \in Nat : n = Len(c.chain) /\ n > 0 /\ m = Len(x)
    BY LastPacket DEF Full
  <1>3. /\ r \in Request /\ Same(r, c) /\ Len(r.chain) = n
        /\ OutPos(r) = OutPos(c) + m /\ End(r) = End(c) + m
    BY <1>1, <1>2, AppendChain
  <1>4. (\A i \in 1 .. (n - 1) : r.chain[i] = c.chain[i]) /\ r.chain[n] = c.chain[n] \o x
    BY <1>1, <1>2, AppendChain
  <1>5. PICK q \in Seq(Bytes), o \in Nat, e \in Nat, l \in Nat :
           /\ q = c.chain[n] /\ o = Len(q) /\ o = OutPos(c) /\ e = End(c) /\ e = Off(n) + o
           /\ l = Len(bytes) /\ Off(n) \in Nat /\ k + m <= l
    BY <1>2, LastPacket DEF Full, Follows
  <1>. SUFFICES ASSUME ~r.dead
                PROVE  Sound(r, bytes, k + m)
    BY <1>1, <1>2 DEF Sound
  <1>6. r.want = c.want /\ ~r.bad /\ Len(c.want) = e + l - k
    BY <1>3, <1>5 DEF Sound, Same
  <1>7. \A i \in 1 .. n : \A j \in 1 .. Len(c.chain[i]) : c.chain[i][j] = c.want[Off(i) + j]
    BY <1>2, <1>3 DEF Sound, Same
  <1>8. \A j \in (k + 1) .. l : c.want[e + j - k] = bytes[j]
    BY <1>3, <1>5 DEF Sound, Same
  <1>9. Len(r.want) = End(r) + Len(bytes) - (k + m)
    <2>1. End(r) = e + m /\ Len(bytes) = l /\ Len(r.want) = e + l - k
      BY <1>3, <1>5, <1>6
    <2>. QED  BY <2>1
  <1>10. ASSUME NEW i \in 1 .. n, NEW j \in 1 .. Len(r.chain[i])
         PROVE  r.chain[i][j] = c.want[Off(i) + j]
    <2>1. CASE i # n
      <3>1. i \in 1 .. n - 1
        BY <2>1
      <3>. QED  BY <1>4, <1>7, <3>1
    <2>2. CASE i = n
      <3>1. r.chain[n] = q \o x /\ j \in 1 .. Len(q \o x)
        BY <1>4, <1>5, <2>2
      <3>2. CASE j \in 1 .. Len(q) /\ (q \o x)[j] = q[j]
        BY <1>5, <1>7, <2>2, <3>1, <3>2
      <3>3. ASSUME NEW h \in 1 .. m, j = o + h, (q \o x)[j] = x[h]
            PROVE  r.chain[i][j] = c.want[Off(i) + j]
        <4>1. k + h \in (k + 1) .. l /\ e + (k + h) - k = Off(n) + j
          BY <1>5, <3>3
        <4>2. c.want[Off(n) + j] = bytes[k + h]
          BY <1>8, <4>1
        <4>3. x[h] = bytes[k + h]
          BY <1>2, <3>3 DEF Follows
        <4>. QED  BY <2>2, <3>1, <3>3, <4>2, <4>3
      <3>4. \/ j \in 1 .. Len(q) /\ (q \o x)[j] = q[j]
            \/ \E h \in 1 .. Len(x) : j = Len(q) + h /\ (q \o x)[j] = x[h]
        <4>1. InOne(q, x, j)
          BY <3>1, ConcatPlaces, Zenon
        <4>. QED  BY <4>1 DEF InOne
      <3>5. Len(x) = m /\ Len(q) = o
        BY <1>2, <1>5
      <3>. QED  BY <3>2, <3>3, <3>4, <3>5
    <2>. QED  BY <2>1, <2>2
  <1>11. ASSUME NEW j \in (k + m + 1) .. Len(bytes)
         PROVE  r.want[End(r) + j - (k + m)] = bytes[j]
    <2>1. End(r) = e + m /\ Len(bytes) = l
      BY <1>3, <1>5
    <2>2. j \in (k + 1) .. l /\ End(r) + j - (k + m) = e + j - k
      BY <1>5, <2>1
    <2>. QED  BY <1>6, <1>8, <2>2
  <1>. QED  BY <1>3, <1>6, <1>9, <1>10, <1>11 DEF Sound

(* Sending a packet touches nothing that is kept.                          *)
Sent(r, c, p, final) ==
    /\ r.chain = c.chain /\ r.freezes = c.freezes
    /\ c.dead => r.dead
    /\ ~r.dead =>
         /\ r.want = SubSeq(c.want, Len(p) + 1, Len(c.want))
         /\ /\ Len(p) <= Len(c.want) /\ p = SubSeq(c.want, 1, Len(p)) /\ Len(p) > 0
            /\ final <=> Len(p) = Len(c.want)
            /\ final \/ Len(p) = BufMax
            => r.bad = c.bad

LEMMA PutPacketIs ==
    ASSUME NEW c \in Request, NEW p \in Seq(Bytes), NEW final \in BOOLEAN
    PROVE  /\ tds_connection_put_packet(c, p, final) \in Request
           /\ Sent(tds_connection_put_packet(c, p, final), c, p, final)
  <1>. DEFINE n == Len(p)
              wrong == n > Len(c.want) \/ p # SubSeq(c.want, 1, n)
                       \/ n = 0 \/ (final <=> n # Len(c.want)) \/ (~final /\ n # BufMax)
              r == tds_connection_put_packet(c, p, final)
  <1>1. CASE c.dead \/ c.luck = 0
    <2>1. r = [c EXCEPT !.dead = TRUE]
      BY <1>1 DEF tds_connection_put_packet
    <2>2. [c EXCEPT !.dead = TRUE] \in Request
      BY DEF Request
    <2>. QED  BY <2>1, <2>2 DEF Request, Sent
  <1>2. CASE ~(c.dead \/ c.luck = 0)
    <2>1. r = [c EXCEPT !.luck = @ - 1, !.bad = @ \/ wrong, !.want = SubSeq(@, n + 1, Len(@))]
      BY <1>2 DEF tds_connection_put_packet
    <2>2. wrong \in BOOLEAN /\ n \in Nat /\ c.bad \in BOOLEAN /\ (c.bad \/ wrong) \in BOOLEAN
      BY Parts
    <2>3. SubSeq(c.want, n + 1, Len(c.want)) \in Seq(Bytes)
      BY <2>2, Parts
    <2>4. c.luck - 1 \in 0 .. MaxChain + 1
      BY <1>2, Parts, Sizes
    <2>5. n <= Len(c.want) /\ p = SubSeq(c.want, 1, n) /\ n > 0
             /\ (final <=> n = Len(c.want)) /\ (final \/ n = BufMax) => ~wrong
      BY <2>2
    <2>. HIDE DEF wrong, n
    <2>6. /\ r \in Request /\ r.chain = c.chain /\ r.freezes = c.freezes /\ r.dead = c.dead
          /\ r.want = SubSeq(c.want, n + 1, Len(c.want)) /\ r.bad = (c.bad \/ wrong)
      BY <2>1, <2>2, <2>3, <2>4 DEF Request
    <2>7. ~wrong => r.bad = c.bad
      BY <2>2, <2>6
    <2>. HIDE DEF r
    <2>8. Sent(r, c, p, final)
      BY <1>2, <2>5, <2>6, <2>7 DEF n, Sent
    <2>. QED  BY <2>6, <2>8 DEF r
  <1>. QED  BY <1>1, <1>2

----------------------------------------------------------------------------
(* tds_write_packet() at the end of a packet.                              *)

(* The packet in two parts.                                                *)
Cut(cut, next, p) ==
    /\ cut \in Seq(Bytes) /\ Len(cut) = BufMax /\ \A j \in 1 .. BufMax : cut[j] = p[j]
    /\ next \in Seq(Bytes) /\ Len(next) = Len(p) - BufMax
    /\ \A j \in 1 .. (Len(p) - BufMax) : next[j] = p[BufMax + j]

LEMMA CutParts ==
    ASSUME NEW p \in Seq(Bytes), Len(p) >= BufMax
    PROVE  Cut(SubSeq(p, 1, IF Len(p) > BufMax THEN BufMax ELSE Len(p)),
               SubSeq(p, BufMax + 1, Len(p)), p)
  <1>1. PICK n \in Nat, m \in Nat : n = Len(p) /\ m = BufMax /\ m <= n /\ m > 0
    BY Sizes
  <1>2. (IF Len(p) > BufMax THEN BufMax ELSE Len(p)) = m
    BY <1>1
  <1>3. SubSeq(p, 1, m) \in Seq(Bytes) /\ Part(SubSeq(p, 1, m), p, 1, m)
    BY <1>1, PartIs
  <1>4. SubSeq(p, m + 1, n) \in Seq(Bytes) /\ Part(SubSeq(p, m + 1, n), p, m + 1, n)
    <2>1. m + 1 \in Nat /\ 1 <= m + 1 /\ m + 1 <= n + 1 /\ n <= Len(p)
      BY <1>1
    <2>. QED  BY <2>1, PartIs
  <1>. DEFINE cut == SubSeq(p, 1, m)
              next == SubSeq(p, m + 1, n)
  <1>. HIDE DEF cut, next
  <1>5. cut \in Seq(Bytes) /\ Part(cut, p, 1, m) /\ next \in Seq(Bytes) /\ Part(next, p, m + 1, n)
    BY <1>3, <1>4 DEF cut, next
  <1>6. Len(cut) = m /\ \A j \in 1 .. m : cut[j] = p[j]
    BY <1>5 DEF Part
  <1>7. Len(next) = n - m /\ \A j \in 1 .. (n - m) : next[j] = p[m + j]
    BY <1>5 DEF Part
  <1>8. Cut(cut, next, p)
    BY <1>1, <1>5, <1>6, <1>7 DEF Cut
  <1>. QED  BY <1>1, <1>2, <1>8 DEF cut, next

(* A packet is put before the last one.                                    *)
Split(t, s, x, y) ==
    /\ Len(t) = Len(s) + 1
    /\ \A i \in 1 .. (Len(s) - 1) : t[i] = s[i]
    /\ t[Len(s)] = x /\ t[Len(s) + 1] = y

LEMMA SplitChain ==
    ASSUME NEW S, NEW s \in Seq(S), s # <<>>, NEW x \in S, NEW y \in S
    PROVE  Front(s) \o <<x, y>> \in Seq(S) /\ Split(Front(s) \o <<x, y>>, s, x, y)
  <1>1. PICK n \in Nat : n = Len(s) /\ n > 0
    OBVIOUS
  <1>2. PICK q : q = Front(s)
    OBVIOUS
  <1>3. q \in Seq(S) /\ Len(q) = n - 1 /\ \A i \in 1 .. (n - 1) : q[i] = s[i]
    BY <1>1, <1>2 DEF Front
  <1>4. PICK z : z = <<x, y>>
    OBVIOUS
  <1>5. z \in Seq(S) /\ Len(z) = 2 /\ z[1] = x /\ z[2] = y
    BY <1>4
  <1>6. PICK t : t = q \o z
    OBVIOUS
  <1>7. t \in Seq(S) /\ Concat(t, q, z)
    <2>1. q \o z \in Seq(S) /\ Concat(q \o z, q, z)
      BY <1>3, <1>5, ConcatIs
    <2>. QED  BY <1>6, <2>1
  <1>8. t[(n - 1) + 1] = z[1] /\ t[(n - 1) + 2] = z[2]
    BY <1>3, <1>5, <1>7 DEF Concat
  <1>9. (n - 1) + 1 = n /\ (n - 1) + 2 = n + 1
    BY <1>1
  <1>10. Len(t) = n + 1 /\ t[n] = x /\ t[n + 1] = y /\ \A i \in 1 .. (n - 1) : t[i] = s[i]
    BY <1>1, <1>3, <1>5, <1>7, <1>8, <1>9 DEF Concat
  <1>11. Split(t, s, x, y)
    BY <1>1, <1>10 DEF Split
  <1>. QED  BY <1>2, <1>4, <1>6, <1>7, <1>11

(* Kept back, the packet stays where it is and what is left begins the     *)
(* next one.                                                               *)
LEMMA KeepCut ==
    ASSUME NEW c \in Request, Full(c), OutPos(c) >= BufMax, c.freezes # <<>>,
           NEW bytes \in Seq(Bytes), NEW k \in Nat
    PROVE  LET r == tds_write_packet(c, FALSE)
           IN  /\ r \in Request /\ Full(r) /\ Same(r, c)
               /\ Len(r.chain) = Len(c.chain) + 1
               /\ OutPos(r) = OutPos(c) - BufMax /\ End(r) = End(c)
               /\ Sound(c, bytes, k) => Sound(r, bytes, k)
  <1>0. /\ Len(c.chain) \in Nat /\ Len(c.chain) > 0 /\ c.chain # <<>>
        /\ Last(c.chain) = c.chain[Len(c.chain)] /\ Last(c.chain) \in Seq(Bytes)
        /\ OutPos(c) = Len(c.chain[Len(c.chain)]) /\ OutPos(c) \in Nat
        /\ End(c) = Off(Len(c.chain)) + OutPos(c) /\ Off(Len(c.chain)) \in Nat
    BY LastPacket DEF Full
  <1>1. PICK p \in Seq(Bytes), n \in Nat, o \in Nat :
           /\ p = Last(c.chain) /\ n = Len(c.chain) /\ o = OutPos(c)
           /\ n > 0 /\ p = c.chain[n] /\ o = Len(p) /\ End(c) = Off(n) + o /\ Off(n) \in Nat
    BY <1>0
  <1>2. PICK cut, next : cut = SubSeq(p, 1, IF Len(p) > BufMax THEN BufMax ELSE Len(p))
           /\ next = SubSeq(p, BufMax + 1, Len(p))
    OBVIOUS
  <1>3. /\ cut \in Seq(Bytes) /\ Len(cut) = BufMax /\ \A j \in 1 .. BufMax : cut[j] = p[j]
        /\ next \in Seq(Bytes) /\ Len(next) = o - BufMax
        /\ \A j \in 1 .. (o - BufMax) : next[j] = p[BufMax + j]
    <2>1. Cut(SubSeq(p, 1, IF Len(p) > BufMax THEN BufMax ELSE Len(p)),
              SubSeq(p, BufMax + 1, Len(p)), p)
      BY <1>1, CutParts
    <2>2. Cut(cut, next, p)
      BY <1>2, <2>1
    <2>. QED  BY <1>1, <2>2 DEF Cut
  <1>4. PICK s : s = Front(c.chain) \o <<cut, next>>
    OBVIOUS
  <1>5. /\ s \in Seq(Seq(Bytes)) /\ Len(s) = n + 1
        /\ \A i \in 1 .. (n - 1) : s[i] = c.chain[i]
        /\ s[n] = cut /\ s[n + 1] = next
    <2>1. c.chain \in Seq(Seq(Bytes)) /\ cut \in Seq(Bytes) /\ next \in Seq(Bytes)
      BY <1>3, Parts
    <2>2. s \in Seq(Seq(Bytes)) /\ Split(s, c.chain, cut, next)
      BY <1>0, <1>4, <2>1, SplitChain
    <2>. QED  BY <1>1, <2>2 DEF Split
  <1>6. PICK r : r = [c EXCEPT !.chain = s]
    OBVIOUS
  <1>7. tds_write_packet(c, FALSE) = r
    BY <1>1, <1>2, <1>4, <1>6 DEF tds_write_packet
  <1>8. r \in Request /\ r.chain = s /\ Same(r, c)
    BY <1>5, <1>6, NewChain
  <1>9. OutPos(r) = o - BufMax
    BY <1>1, <1>3, <1>5, <1>8 DEF OutPos, Last
  <1>10. Off(n + 1) = Off(n) + BufMax
    BY <1>1, OffIs
  <1>11. End(r) = End(c)
    <2>1. End(r) = Off(n + 1) + (o - BufMax)
      BY <1>5, <1>8, <1>9 DEF End
    <2>. QED  BY <1>1, <1>10, <2>1, Sizes
  <1>12. Full(r)
    <2>1. ASSUME NEW i \in 1 .. n PROVE Len(s[i]) = BufMax
      <3>1. CASE i = n
        BY <1>3, <1>5, <3>1
      <3>2. CASE i # n
        <4>1. i \in 1 .. (n - 1)
          BY <3>2
        <4>. QED  BY <1>1, <1>5, <4>1 DEF Full
      <3>. QED  BY <3>1, <3>2
    <2>2. s # <<>> /\ Len(s) - 1 = n
      BY <1>1, <1>5
    <2>. QED  BY <1>8, <2>1, <2>2 DEF Full
  <1>13. ASSUME Sound(c, bytes, k) PROVE Sound(r, bytes, k)
    <2>. SUFFICES ASSUME ~r.dead PROVE Sound(r, bytes, k)
      BY DEF Sound
    <2>1. \A i \in 1 .. n : \A j \in 1 .. Len(c.chain[i]) : c.chain[i][j] = c.want[Off(i) + j]
      BY <1>1, <1>8, <1>13 DEF Sound, Same
    <2>2. \A j \in 1 .. o : p[j] = c.want[Off(n) + j]
      BY <1>1, <2>1
    <2>3. ASSUME NEW i \in 1 .. n + 1, NEW j \in 1 .. Len(s[i])
          PROVE  s[i][j] = c.want[Off(i) + j]
      <3>1. CASE i = n
        <4>1. j \in 1 .. BufMax /\ j \in 1 .. o
          <5>1. Len(s[i]) = BufMax /\ BufMax <= o
            BY <1>1, <1>3, <1>5, <3>1
          <5>. QED  BY <5>1, Sizes
        <4>. QED  BY <1>3, <1>5, <2>2, <3>1, <4>1
      <3>2. CASE i = n + 1
        <4>1. j \in 1 .. (o - BufMax) /\ BufMax + j \in 1 .. o
          <5>1. Len(s[i]) = o - BufMax /\ BufMax <= o
            BY <1>1, <1>3, <1>5, <3>2
          <5>. QED  BY <5>1, Sizes
        <4>2. Off(n + 1) + j = Off(n) + (BufMax + j)
          BY <1>1, <1>10, <4>1, Sizes
        <4>. QED  BY <1>3, <1>5, <2>2, <3>2, <4>1, <4>2
      <3>3. CASE i \in 1 .. n - 1
        <4>1. s[i] = c.chain[i] /\ i \in 1 .. n
          BY <1>5, <3>3
        <4>. QED  BY <2>1, <4>1
      <3>. QED  BY <1>1, <3>1, <3>2, <3>3
    <2>. QED  BY <1>5, <1>8, <1>11, <1>13, <2>3 DEF Sound, Same
  <1>. QED  BY <1>1, <1>5, <1>7, <1>8, <1>9, <1>11, <1>12, <1>13

(* What is sent is the beginning of what is to be sent, and the rest stays *)
(* in place.                                                               *)
Rest(t, w, n) == Len(t) = Len(w) - n /\ \A j \in 1 .. (Len(w) - n) : t[j] = w[n + j]

LEMMA SendFront ==
    ASSUME NEW w \in Seq(Bytes), NEW cut \in Seq(Bytes), NEW n \in Nat, Len(cut) = n, n <= Len(w),
           \A j \in 1 .. n : cut[j] = w[j]
    PROVE  cut = SubSeq(w, 1, n) /\ Rest(SubSeq(w, n + 1, Len(w)), w, n)
  <1>1. PICK l \in Nat : l = Len(w) /\ n <= l
    OBVIOUS
  <1>2. SubSeq(w, 1, n) \in Seq(Bytes) /\ Part(SubSeq(w, 1, n), w, 1, n)
    BY <1>1, PartIs
  <1>3. PICK q : q = SubSeq(w, 1, n)
    OBVIOUS
  <1>4. q \in Seq(Bytes) /\ Len(q) = n /\ \A j \in 1 .. n : q[j] = w[j]
    <2>1. q \in Seq(Bytes) /\ Part(q, w, 1, n)
      BY <1>2, <1>3
    <2>. QED  BY <2>1 DEF Part
  <1>5. cut = q
    BY <1>4, SameSeq
  <1>6. SubSeq(w, n + 1, l) \in Seq(Bytes) /\ Part(SubSeq(w, n + 1, l), w, n + 1, l)
    <2>1. n + 1 \in Nat /\ 1 <= n + 1 /\ n + 1 <= l + 1 /\ l <= Len(w)
      BY <1>1
    <2>. QED  BY <1>1, <2>1, PartIs
  <1>7. PICK t : t = SubSeq(w, n + 1, l)
    OBVIOUS
  <1>8. Len(t) = l - n /\ \A j \in 1 .. (l - n) : t[j] = w[n + j]
    <2>1. Part(t, w, n + 1, l)
      BY <1>6, <1>7
    <2>. QED  BY <1>1, <2>1 DEF Part
  <1>9. Rest(t, w, n)
    BY <1>1, <1>8 DEF Rest
  <1>. QED  BY <1>1, <1>3, <1>5, <1>7, <1>9

(* Not kept back, the packet is sent, and it was not the last one.         *)
LEMMA SendCut ==
    ASSUME NEW c \in Request, Full(c), OutPos(c) >= BufMax, c.freezes = <<>>, Len(c.chain) = 1,
           NEW bytes \in Seq(Bytes), NEW k \in Nat, k <= Len(bytes),
           k < Len(bytes) \/ OutPos(c) > BufMax
    PROVE  LET r == tds_write_packet(c, FALSE)
           IN  /\ r \in Request /\ Full(r) /\ r.freezes = c.freezes /\ Len(r.chain) = 1
               /\ OutPos(r) = OutPos(c) - BufMax
               /\ Sound(c, bytes, k) => Sound(r, bytes, k)
  <1>0. /\ Last(c.chain) = c.chain[1] /\ Last(c.chain) \in Seq(Bytes)
        /\ OutPos(c) = Len(c.chain[1]) /\ OutPos(c) \in Nat
        /\ End(c) = OutPos(c) /\ Off(1) = 0
    <2>1. Off(1) = 0
      BY OffIs
    <2>. QED  BY <2>1, LastPacket DEF Full
  <1>1. PICK p \in Seq(Bytes), o \in Nat, l \in Nat :
           /\ p = Last(c.chain) /\ p = c.chain[1] /\ o = OutPos(c) /\ o = Len(p) /\ End(c) = o
           /\ l = Len(bytes) /\ k <= l /\ (k < l \/ o > BufMax) /\ o >= BufMax
    BY <1>0
  <1>2. PICK cut, next : cut = SubSeq(p, 1, IF Len(p) > BufMax THEN BufMax ELSE Len(p))
           /\ next = SubSeq(p, BufMax + 1, Len(p))
    OBVIOUS
  <1>3. /\ cut \in Seq(Bytes) /\ Len(cut) = BufMax /\ \A j \in 1 .. BufMax : cut[j] = p[j]
        /\ next \in Seq(Bytes) /\ Len(next) = o - BufMax
        /\ \A j \in 1 .. (o - BufMax) : next[j] = p[BufMax + j]
    <2>1. Cut(SubSeq(p, 1, IF Len(p) > BufMax THEN BufMax ELSE Len(p)),
              SubSeq(p, BufMax + 1, Len(p)), p)
      BY <1>1, CutParts
    <2>2. Cut(cut, next, p)
      BY <1>2, <2>1
    <2>. QED  BY <1>1, <2>2 DEF Cut
  <1>4. PICK e : e = [c EXCEPT !.chain = <<next>>]
    OBVIOUS
  <1>5. <<next>> \in Seq(Seq(Bytes)) /\ Len(<<next>>) = 1 /\ <<next>>[1] = next
    BY <1>3
  <1>6. e \in Request /\ e.chain = <<next>> /\ Same(e, c)
    BY <1>4, <1>5, NewChain
  <1>7. PICK r : r = tds_connection_put_packet(e, cut, FALSE)
    OBVIOUS
  <1>8. tds_write_packet(c, FALSE) = r
    BY <1>1, <1>2, <1>4, <1>7 DEF tds_write_packet
  <1>9. r \in Request /\ Sent(r, e, cut, FALSE)
    BY <1>3, <1>6, <1>7, PutPacketIs
  <1>10. r.chain = <<next>> /\ r.freezes = c.freezes /\ (c.dead => r.dead)
    BY <1>6, <1>9 DEF Sent, Same
  <1>11. OutPos(r) = o - BufMax /\ Len(r.chain) = 1 /\ r.chain[1] = next
    BY <1>3, <1>5, <1>10 DEF OutPos, Last
  <1>12. Full(r)
    BY <1>5, <1>11 DEF Full
  <1>13. ASSUME Sound(c, bytes, k) PROVE Sound(r, bytes, k)
    <2>. SUFFICES ASSUME ~r.dead PROVE Sound(r, bytes, k)
      BY DEF Sound
    <2>1. PICK w \in Seq(Bytes) : w = c.want
      BY Parts
    <2>2. ~c.bad /\ Len(w) = o + l - k
      BY <1>1, <1>10, <1>13, <2>1 DEF Sound
    <2>3. \A j \in 1 .. o : p[j] = w[j]
      <3>1. \A j \in 1 .. Len(c.chain[1]) : c.chain[1][j] = w[Off(1) + j]
        BY <1>10, <1>13, <2>1 DEF Sound
      <3>2. ASSUME NEW j \in 1 .. o PROVE p[j] = w[0 + j]
        BY <1>0, <1>1, <3>1
      <3>3. \A j \in 1 .. o : 0 + j = j
        OBVIOUS
      <3>. QED  BY <3>2, <3>3
    <2>4. \A j \in (k + 1) .. l : w[o + j - k] = bytes[j]
      BY <1>1, <1>10, <1>13, <2>1 DEF Sound
    <2>5. BufMax \in Nat /\ BufMax > 0 /\ BufMax < Len(w) /\ BufMax <= o
      <3>1. BufMax \in Nat /\ BufMax > 0
        BY Sizes
      <3>2. BufMax < o + l - k /\ BufMax <= o
        BY <1>1, <3>1
      <3>. QED  BY <2>2, <3>1, <3>2
    <2>6. \A j \in 1 .. BufMax : cut[j] = w[j]
      <3>1. \A j \in 1 .. BufMax : j \in 1 .. o
        BY <2>5
      <3>. QED  BY <1>3, <2>3, <3>1
    <2>7. PICK t : t = SubSeq(w, BufMax + 1, Len(w))
      OBVIOUS
    <2>8. cut = SubSeq(w, 1, BufMax) /\ Len(t) = Len(w) - BufMax
          /\ \A j \in 1 .. (Len(w) - BufMax) : t[j] = w[BufMax + j]
      <3>1. BufMax \in Nat /\ Len(cut) = BufMax /\ BufMax <= Len(w)
        BY <1>3, <2>1, <2>5
      <3>2. cut = SubSeq(w, 1, BufMax) /\ Rest(SubSeq(w, BufMax + 1, Len(w)), w, BufMax)
        BY <1>3, <2>6, <3>1, SendFront
      <3>3. Rest(t, w, BufMax)
        BY <2>7, <3>2
      <3>. QED  BY <3>2, <3>3 DEF Rest
    <2>9. r.want = t /\ r.bad = c.bad
      <3>1. e.want = w /\ e.bad = c.bad
        BY <1>6, <2>1 DEF Same
      <3>2. Len(cut) <= Len(w) /\ cut = SubSeq(w, 1, Len(cut)) /\ Len(cut) > 0 /\ Len(cut) # Len(w)
        BY <1>3, <2>5, <2>8
      <3>3. r.bad = e.bad
        BY <1>3, <1>9, <3>1, <3>2 DEF Sent
      <3>4. r.want = SubSeq(w, Len(cut) + 1, Len(w))
        BY <1>9, <3>1 DEF Sent
      <3>. QED  BY <1>3, <2>7, <3>1, <3>3, <3>4
    <2>10. End(r) = o - BufMax
      BY <1>0, <1>1, <1>11, <2>5 DEF End
    <2>11. Len(r.want) = End(r) + Len(bytes) - k
      <3>1. Len(t) = (o + l - k) - BufMax
        BY <2>2, <2>8
      <3>2. (o + l - k) - BufMax = (o - BufMax) + l - k
        BY <2>5
      <3>. QED  BY <1>1, <2>9, <2>10, <3>1, <3>2
    <2>12. ASSUME NEW j \in 1 .. (o - BufMax) PROVE next[j] = t[Off(1) + j]
      <3>1. BufMax + j \in 1 .. o /\ j \in 1 .. (Len(w) - BufMax) /\ 0 + j = j
        BY <1>1, <2>2, <2>5
      <3>2. next[j] = w[BufMax + j] /\ t[j] = w[BufMax + j]
        BY <1>3, <2>3, <2>8, <3>1
      <3>. QED  BY <1>0, <3>1, <3>2
    <2>13. ASSUME NEW j \in (k + 1) .. l PROVE t[(o - BufMax) + j - k] = bytes[j]
      <3>1. PICK h \in Nat : h = (o - BufMax) + j - k /\ BufMax + h = o + j - k /\ h \in 1 .. (Len(w) - BufMax)
        <4>1. (o - BufMax) + j - k \in Nat /\ BufMax + ((o - BufMax) + j - k) = o + j - k
          BY <2>5
        <4>2. (o - BufMax) + j - k \in 1 .. ((o + l - k) - BufMax)
          BY <2>5
        <4>. QED  BY <2>2, <4>1, <4>2
      <3>. QED  BY <2>4, <2>8, <3>1
    <2>14. \A i \in 1 .. Len(r.chain) : \A j \in 1 .. Len(r.chain[i]) : r.chain[i][j] = r.want[Off(i) + j]
      BY <1>3, <1>11, <2>9, <2>12
    <2>15. \A j \in (k + 1) .. Len(bytes) : r.want[End(r) + j - k] = bytes[j]
      BY <1>1, <2>9, <2>10, <2>13
    <2>. QED  BY <2>2, <2>9, <2>11, <2>14, <2>15 DEF Sound
  <1>. QED  BY <1>1, <1>8, <1>9, <1>10, <1>11, <1>12, <1>13

(* After n bytes were written: while packets are kept back nothing else    *)
(* changes.                                                                *)
Moved(r, c, n) ==
    /\ r.freezes = c.freezes
    /\ c.freezes # <<>> =>
          Same(r, c) /\ Len(r.chain) >= Len(c.chain) /\ End(r) = End(c) + n

(* The packet that is cut, kept back or not.                               *)
LEMMA CutIs ==
    ASSUME NEW c, Shape(c), OutPos(c) >= BufMax, NEW bytes \in Seq(Bytes), NEW k \in Nat,
           k <= Len(bytes), k < Len(bytes) \/ OutPos(c) > BufMax, Sound(c, bytes, k)
    PROVE  LET r == tds_write_packet(c, FALSE)
           IN  /\ Shape(r) /\ Sound(r, bytes, k) /\ Moved(r, c, 0)
               /\ OutPos(r) = OutPos(c) - BufMax
  <1>1. PICK r : r = tds_write_packet(c, FALSE)
    OBVIOUS
  <1>2. c \in Request /\ Full(c) /\ OutPos(c) \in Nat /\ OutPos(c) <= BufMax + Extra
        /\ End(c) \in Nat /\ Len(c.chain) \in Nat
    BY LastPacket DEF Shape, Full
  <1>3. /\ r \in Request /\ Full(r) /\ r.freezes = c.freezes /\ Sound(r, bytes, k)
        /\ OutPos(r) = OutPos(c) - BufMax /\ Moved(r, c, 0)
        /\ c.freezes = <<>> => Len(r.chain) = 1
    <2>1. CASE c.freezes = <<>>
      <3>1. Len(c.chain) = 1
        BY <2>1 DEF Shape
      <3>. QED  BY <1>1, <1>2, <2>1, <3>1, SendCut DEF Moved
    <2>2. CASE c.freezes # <<>>
      <3>1. /\ r \in Request /\ Full(r) /\ Same(r, c)
            /\ Len(r.chain) = Len(c.chain) + 1
            /\ OutPos(r) = OutPos(c) - BufMax /\ End(r) = End(c)
            /\ Sound(r, bytes, k)
        BY <1>1, <1>2, <2>2, KeepCut
      <3>2. Len(r.chain) >= Len(c.chain) /\ End(r) = End(c) + 0
        BY <1>2, <3>1
      <3>3. r.freezes = c.freezes
        BY <3>1 DEF Same
      <3>. QED  BY <2>2, <3>1, <3>2, <3>3 DEF Moved
    <2>. QED  BY <2>1, <2>2
  <1>4. OutPos(c) - BufMax <= BufMax + Extra
    BY <1>2, Sizes
  <1>. QED  BY <1>1, <1>3, <1>4 DEF Shape

(* The writes that look at the end of the packet first.                    *)
LEMMA PutIntIs ==
    ASSUME NEW c, Shape(c), NEW x \in Seq(Bytes), Len(x) \in 1 .. Extra,
           NEW bytes \in Seq(Bytes), NEW k \in Nat, Follows(x, bytes, k), Sound(c, bytes, k)
    PROVE  LET r == PutInt(c, x)
           IN  /\ Shape(r) /\ Begun(r) /\ Sound(r, bytes, k + Len(x)) /\ Moved(r, c, Len(x))
  <1>1. PICK e : e = IF OutPos(c) >= BufMax THEN tds_write_packet(c, FALSE) ELSE c
    OBVIOUS
  <1>2. PICK m \in Nat, l \in Nat : m = Len(x) /\ l = Len(bytes) /\ m > 0 /\ m <= Extra /\ k + m <= l
    BY Sizes DEF Follows
  <1>3. c \in Request /\ OutPos(c) \in Nat /\ End(c) \in Nat /\ Len(c.chain) \in Nat
    BY LastPacket DEF Shape, Full
  <1>4. Shape(e) /\ Sound(e, bytes, k) /\ Moved(e, c, 0) /\ OutPos(e) < BufMax
    <2>1. CASE OutPos(c) >= BufMax
      <3>1. k <= Len(bytes) /\ k < Len(bytes)
        BY <1>2
      <3>2. e = tds_write_packet(c, FALSE)
        BY <1>1, <2>1
      <3>3. Shape(e) /\ Sound(e, bytes, k) /\ Moved(e, c, 0) /\ OutPos(e) = OutPos(c) - BufMax
        BY <2>1, <3>1, <3>2, CutIs
      <3>4. OutPos(c) <= BufMax + Extra
        BY DEF Shape
      <3>5. OutPos(c) - BufMax < BufMax
        BY <1>3, <3>4, Sizes
      <3>. QED  BY <3>3, <3>5
    <2>2. CASE ~(OutPos(c) >= BufMax)
      <3>1. e = c
        BY <1>1, <2>2
      <3>2. OutPos(c) < BufMax /\ End(c) = End(c) + 0 /\ Len(c.chain) >= Len(c.chain)
        BY <1>3, <2>2, Sizes
      <3>. QED  BY <3>1, <3>2 DEF Moved, Same
    <2>. QED  BY <2>1, <2>2
  <1>5. PICK r : r = Append1(e, x)
    OBVIOUS
  <1>6. PutInt(c, x) = r
    BY <1>1, <1>5 DEF PutInt
  <1>7. e \in Request /\ Full(e) /\ OutPos(e) \in Nat /\ End(e) \in Nat
    BY <1>4, LastPacket DEF Shape, Full
  <1>8. /\ r \in Request /\ Full(r) /\ Same(r, e) /\ Len(r.chain) = Len(e.chain)
        /\ OutPos(r) = OutPos(e) + Len(x) /\ End(r) = End(e) + Len(x)
    BY <1>5, <1>7, AppendChain
  <1>9. Sound(r, bytes, k + Len(x))
    BY <1>4, <1>5, <1>7, AppendIs
  <1>10. OutPos(r) > 0 /\ OutPos(r) <= BufMax + Extra
    <2>1. OutPos(e) + m > 0 /\ OutPos(e) + m <= BufMax + Extra
      BY <1>2, <1>4, <1>7, Sizes
    <2>. QED  BY <1>2, <1>8, <2>1
  <1>11. Shape(r) /\ Begun(r)
    BY <1>4, <1>8, <1>10 DEF Shape, Begun, Same
  <1>12. Moved(r, c, Len(x))
    <2>1. r.freezes = c.freezes
      BY <1>4, <1>8 DEF Moved, Same
    <2>2. ASSUME c.freezes # <<>>
          PROVE  Same(r, c) /\ Len(r.chain) >= Len(c.chain) /\ End(r) = End(c) + Len(x)
      <3>1. Same(e, c) /\ Len(e.chain) >= Len(c.chain) /\ End(e) = End(c) + 0
        BY <1>4, <2>2 DEF Moved
      <3>2. Same(r, c)
        BY <1>8, <3>1 DEF Same
      <3>3. End(e) = End(c)
        BY <1>3, <3>1
      <3>. QED  BY <1>8, <3>1, <3>2, <3>3
    <2>. QED  BY <2>1, <2>2 DEF Moved
  <1>. QED  BY <1>6, <1>9, <1>11, <1>12

----------------------------------------------------------------------------
(* Loops.  The local functions of the model are all of one form: what one  *)
(* turn makes of the value before it.                                      *)
Turn(loop, a, e, n) ==
    CASE loop = "put"   -> PutInt(e, <<a[n]>>)
      [] loop = "size"  -> e + Len(a.chain[a.pkt + n - 1])
      [] loop = "rest"  -> e \div Base
      [] loop = "digit" -> PutDigit(e)
      [] loop = "send"  -> SendNext(e, a[n])
IsLoop(f, loop, a, d, l) == f = [n \in 0 .. l |-> IF n = 0 THEN d ELSE Turn(loop, a, f[n - 1], n)]

(* There is such a function, for every number of turns: extend the longest *)
(* one that is.                                                            *)
LEMMA LoopsExist ==
    ASSUME NEW loop, NEW a, NEW d, NEW l \in Nat
    PROVE  \E f : IsLoop(f, loop, a, d, l)
  <1>. DEFINE P(m) == \E f : f = [n \in 0 .. m |-> IF n = 0 THEN d ELSE Turn(loop, a, f[n - 1], n)]
              T == {m \in Nat : ~P(m)}
  <1>1. P(0)
    <2>1. [n \in 0 .. 0 |-> d]
             = [n \in 0 .. 0 |-> IF n = 0 THEN d ELSE Turn(loop, a, [i \in 0 .. 0 |-> d][n - 1], n)]
      OBVIOUS
    <2>. QED  BY <2>1
  <1>2. ASSUME NEW m \in Nat, P(m) PROVE P(m + 1)
    <2>1. PICK f : f = [n \in 0 .. m |-> IF n = 0 THEN d ELSE Turn(loop, a, f[n - 1], n)]
      BY <1>2
    <2>. DEFINE g == [n \in 0 .. m + 1 |-> IF n \in 0 .. m THEN f[n] ELSE Turn(loop, a, f[m], m + 1)]
    <2>2. g = [n \in 0 .. m + 1 |-> IF n = 0 THEN d ELSE Turn(loop, a, g[n - 1], n)]
      <3>. SUFFICES ASSUME NEW n \in 0 .. m + 1
                    PROVE  g[n] = IF n = 0 THEN d ELSE Turn(loop, a, g[n - 1], n)
        BY SMT
      <3>1. CASE n = 0
        BY <2>1, <3>1
      <3>2. CASE n # 0 /\ n <= m
        <4>1. n - 1 \in 0 .. m /\ n \in 0 .. m
          BY <3>2
        <4>2. f[n] = Turn(loop, a, f[n - 1], n)
          BY <2>1, <3>2, <4>1
        <4>. QED  BY <3>2, <4>1, <4>2
      <3>3. CASE n = m + 1
        <4>1. n # 0 /\ n \notin 0 .. m /\ n - 1 = m /\ m \in 0 .. m
          BY <3>3
        <4>. QED  BY <3>3, <4>1
      <3>. QED  BY <3>1, <3>2, <3>3
    <2>. HIDE DEF g
    <2>. QED  BY <2>2
  <1>3. T = {}
    <2>. SUFFICES ASSUME T # {} PROVE FALSE
      OBVIOUS
    <2>1. PICK m \in T : \A n \in T : m <= n
      BY Smallest
    <2>. HIDE DEF P
    <2>2. m # 0
      BY <1>1
    <2>3. m - 1 \in Nat /\ P(m - 1)
      BY <2>1, <2>2
    <2>4. P((m - 1) + 1)
      BY <1>2, <2>3
    <2>5. (m - 1) + 1 = m
      BY <2>1
    <2>. QED  BY <2>1, <2>4, <2>5
  <1>. QED  BY <1>3 DEF IsLoop

(* Its values follow each other.                                           *)
Steps(f, loop, a, d, l) == f[0] = d /\ \A n \in 1 .. l : f[n] = Turn(loop, a, f[n - 1], n)

LEMMA LoopSteps ==
    ASSUME NEW loop, NEW a, NEW d, NEW l \in Nat, NEW f, IsLoop(f, loop, a, d, l)
    PROVE  Steps(f, loop, a, d, l)
  <1>1. f = [n \in 0 .. l |-> IF n = 0 THEN d ELSE Turn(loop, a, f[n - 1], n)]
    BY DEF IsLoop
  <1>2. f[0] = d
    <2>1. 0 \in 0 .. l
      OBVIOUS
    <2>. QED  BY <1>1, <2>1
  <1>3. ASSUME NEW n \in 1 .. l PROVE f[n] = Turn(loop, a, f[n - 1], n)
    <2>1. n \in 0 .. l /\ n # 0
      OBVIOUS
    <2>. QED  BY <1>1, <2>1
  <1>. QED  BY <1>2, <1>3 DEF Steps

----------------------------------------------------------------------------
(* tds_put_n(): one byte at a time.                                        *)
IsPuts(f, c, bytes, l) == f = [n \in 0 .. l |-> IF n = 0 THEN c ELSE PutInt(f[n - 1], <<bytes[n]>>)]
PutSteps(f, c, bytes, l) == f[0] = c /\ \A n \in 1 .. l : f[n] = PutInt(f[n - 1], <<bytes[n]>>)

LEMMA PutsAre ==
    ASSUME NEW c, NEW bytes, NEW l \in Nat, l = Len(bytes)
    PROVE  \E f : PutSteps(f, c, bytes, l) /\ tds_put_n(c, bytes) = f[l]
  <1>1. PICK g : g = CHOOSE f : IsPuts(f, c, bytes, l)
    OBVIOUS
  <1>2. tds_put_n(c, bytes) = g[l]
    BY <1>1, Zenon DEF tds_put_n, IsPuts
  <1>3. \A e, n : Turn("put", bytes, e, n) = PutInt(e, <<bytes[n]>>)
    BY DEF Turn
  <1>4. ASSUME NEW f PROVE IsLoop(f, "put", bytes, c, l) <=> IsPuts(f, c, bytes, l)
    <2>1. [n \in 0 .. l |-> IF n = 0 THEN c ELSE Turn("put", bytes, f[n - 1], n)]
             = [n \in 0 .. l |-> IF n = 0 THEN c ELSE PutInt(f[n - 1], <<bytes[n]>>)]
      BY <1>3
    <2>. QED  BY <2>1, Zenon DEF IsLoop, IsPuts
  <1>5. IsPuts(g, c, bytes, l)
    BY <1>1, <1>4, LoopsExist, Zenon
  <1>6. PutSteps(g, c, bytes, l)
    <2>1. IsLoop(g, "put", bytes, c, l)
      BY <1>4, <1>5
    <2>2. Steps(g, "put", bytes, c, l)
      BY <2>1, LoopSteps
    <2>. QED  BY <1>3, <2>2 DEF PutSteps, Steps
  <1>. QED  BY <1>2, <1>6

(* After n bytes.                                                          *)
Written(r, c, bytes, n) ==
    /\ Shape(r) /\ Sound(r, bytes, n) /\ Moved(r, c, n)
    /\ n > 0 \/ Begun(c) => Begun(r)

(* One more byte.                                                          *)
LEMMA PutOne ==
    ASSUME NEW e, NEW c, Shape(c), NEW bytes \in Seq(Bytes),
           NEW n \in Nat, n < Len(bytes), Written(e, c, bytes, n)
    PROVE  Written(PutInt(e, <<bytes[n + 1]>>), c, bytes, n + 1)
  <1>1. PICK x : x = <<bytes[n + 1]>>
    OBVIOUS
  <1>2. PICK l \in Nat : l = Len(bytes) /\ n < l
    OBVIOUS
  <1>3. bytes[n + 1] \in Bytes
    BY <1>2
  <1>4. x \in Seq(Bytes) /\ Len(x) = 1 /\ x[1] = bytes[n + 1]
    BY <1>1, <1>3
  <1>5. Len(x) \in 1 .. Extra
    BY <1>4, Sizes
  <1>6. Follows(x, bytes, n)
    BY <1>2, <1>4 DEF Follows
  <1>7. PICK r : r = PutInt(e, x)
    OBVIOUS
  <1>8. Shape(r) /\ Begun(r) /\ Sound(r, bytes, n + 1) /\ Moved(r, e, 1)
    <2>1. Shape(e) /\ Sound(e, bytes, n)
      BY DEF Written
    <2>. QED  BY <1>4, <1>5, <1>6, <1>7, <2>1, PutIntIs
  <1>9. Moved(r, c, n + 1)
    <2>1. Moved(e, c, n)
      BY DEF Written
    <2>2. r.freezes = c.freezes
      BY <1>8, <2>1 DEF Moved
    <2>3. ASSUME c.freezes # <<>>
          PROVE  Same(r, c) /\ Len(r.chain) >= Len(c.chain) /\ End(r) = End(c) + (n + 1)
      <3>1. Same(e, c) /\ Len(e.chain) >= Len(c.chain) /\ End(e) = End(c) + n
        BY <2>1, <2>3 DEF Moved
      <3>2. Same(r, e) /\ Len(r.chain) >= Len(e.chain) /\ End(r) = End(e) + 1
        BY <1>8, <2>1, <2>3 DEF Moved
      <3>3. Same(r, c)
        BY <3>1, <3>2 DEF Same
      <3>4. Len(r.chain) \in Nat /\ Len(e.chain) \in Nat /\ Len(c.chain) \in Nat /\ End(c) \in Nat
        BY <1>8, LastPacket DEF Shape, Full, Written
      <3>5. Len(r.chain) >= Len(c.chain)
        BY <3>1, <3>2, <3>4
      <3>6. End(c) + n + 1 = End(c) + (n + 1)
        BY <3>4
      <3>. QED  BY <3>1, <3>2, <3>3, <3>5, <3>6
    <2>. QED  BY <2>2, <2>3 DEF Moved
  <1>10. PutInt(e, <<bytes[n + 1]>>) = r
    BY <1>1, <1>7
  <1>. QED  BY <1>8, <1>9, <1>10 DEF Written

(* All of them.                                                            *)
LEMMA PutAll ==
    ASSUME NEW c, Shape(c), NEW bytes \in Seq(Bytes), Sound(c, bytes, 0)
    PROVE  Written(tds_put_n(c, bytes), c, bytes, Len(bytes))
  <1>1. PICK l \in Nat : l = Len(bytes)
    OBVIOUS
  <1>2. PICK f : PutSteps(f, c, bytes, l) /\ tds_put_n(c, bytes) = f[l]
    BY <1>1, PutsAre
  <1>. DEFINE T == {n \in Nat : n <= l /\ ~Written(f[n], c, bytes, n)}
  <1>3. Written(f[0], c, bytes, 0)
    <2>1. Len(c.chain) \in Nat /\ End(c) \in Nat
      BY LastPacket DEF Shape, Full
    <2>2. Moved(c, c, 0)
      BY <2>1 DEF Moved, Same
    <2>3. f[0] = c
      BY <1>2 DEF PutSteps
    <2>. QED  BY <2>2, <2>3 DEF Written
  <1>4. ASSUME NEW n \in Nat, n < l, Written(f[n], c, bytes, n) PROVE Written(f[n + 1], c, bytes, n + 1)
    <2>1. n + 1 \in 1 .. l /\ (n + 1) - 1 = n
      BY <1>4
    <2>2. f[n + 1] = PutInt(f[n], <<bytes[n + 1]>>)
      BY <1>2, <2>1 DEF PutSteps
    <2>. QED  BY <1>1, <1>4, <2>2, PutOne
  <1>5. T = {}
    <2>. SUFFICES ASSUME T # {} PROVE FALSE
      OBVIOUS
    <2>1. PICK n \in T : \A m \in T : n <= m
      BY Smallest
    <2>2. n # 0
      BY <1>3
    <2>3. n - 1 \in Nat /\ n - 1 < l /\ Written(f[n - 1], c, bytes, n - 1)
      BY <2>1, <2>2
    <2>4. Written(f[(n - 1) + 1], c, bytes, (n - 1) + 1)
      BY <1>4, <2>3
    <2>5. (n - 1) + 1 = n
      BY <2>1
    <2>. QED  BY <2>1, <2>4, <2>5
  <1>. QED  BY <1>1, <1>2, <1>5

----------------------------------------------------------------------------
(* What does not look at the rest of a request.                            *)
Like(r, c) ==
    /\ r.chain = c.chain /\ r.freezes = c.freezes /\ r.dead = c.dead
    /\ r.want = c.want /\ r.bad = c.bad

LEMMA LikeEnds ==
    ASSUME NEW c, NEW r, Like(r, c)
    PROVE  OutPos(r) = OutPos(c) /\ End(r) = End(c)
  BY DEF Like, OutPos, End

LEMMA LikeShape ==
    ASSUME NEW c, NEW r \in Request, Like(r, c), Shape(c)
    PROVE  Shape(r)
  BY LikeEnds DEF Shape, Full, Like

LEMMA LikeSound ==
    ASSUME NEW c, NEW r, Like(r, c), NEW bytes, NEW k, Sound(c, bytes, k)
    PROVE  Sound(r, bytes, k)
  BY LikeEnds DEF Sound, Like

LEMMA LikePlaced ==
    ASSUME NEW c, NEW r, Like(r, c)
    PROVE  (Begun(c) => Begun(r)) /\ (Nested(c) => Nested(r))
  BY LikeEnds DEF Begun, Nested, Placed, Like

LEMMA LikeGood ==
    ASSUME NEW c, NEW r \in Request, Like(r, c), Good(c)
    PROVE  Good(r)
  <1>1. r.dead = c.dead
    BY DEF Like
  <1>2. Shape(r)
    BY LikeShape DEF Good
  <1>3. ~c.dead => Begun(r) /\ Nested(r) /\ Sound(r, <<>>, 0)
    BY LikePlaced, LikeSound DEF Good
  <1>. QED  BY <1>1, <1>2, <1>3 DEF Good

(* How far the connection will carry.                                      *)
LEMMA WithIs ==
    ASSUME NEW c \in Request, NEW luck \in 0 .. MaxChain + 1
    PROVE  With(c, luck) \in Request /\ Like(With(c, luck), c)
  BY DEF With, Request, Like

(* Other freezes and another stream.                                       *)
Renew(c, s, w) == [c EXCEPT !.freezes = s, !.want = w]

LEMMA NewFields ==
    ASSUME NEW c \in Request, NEW s \in Seq(Freeze), NEW w \in Seq(Bytes), NEW r, r = Renew(c, s, w)
    PROVE  /\ r \in Request /\ r.freezes = s /\ r.want = w /\ r.chain = c.chain
           /\ r.dead = c.dead /\ r.bad = c.bad
  BY DEF Request, Renew

(* The freezes stay where they are when more is written.                   *)
LEMMA PlacedGrows ==
    ASSUME NEW c \in Request, NEW r \in Request, c.chain # <<>>, r.chain # <<>>,
           Len(c.chain) <= Len(r.chain), End(c) <= End(r),
           NEW f \in Freeze, Placed(c, f)
    PROVE  Placed(r, f)
  <1>1. PICK n \in Nat, m \in Nat, d \in Nat, e \in Nat :
           n = Len(c.chain) /\ m = Len(r.chain) /\ d = End(c) /\ e = End(r) /\ n <= m /\ d <= e
    BY LastPacket
  <1>2. f.pkt \in Nat /\ f.pos \in Nat /\ f.mark \in Nat /\ f.size_len \in Nat
    BY Sizes DEF Freeze
  <1>3. /\ f.pkt \in 1 .. n /\ f.pos <= BufMax
        /\ f.mark = Off(f.pkt) + f.pos /\ f.mark + f.size_len <= d
        /\ f.pkt > 1 => f.pos > 0
    BY <1>1 DEF Placed
  <1>4. f.pkt \in 1 .. m /\ f.mark + f.size_len <= e
    BY <1>1, <1>2, <1>3
  <1>. QED  BY <1>1, <1>3, <1>4 DEF Placed

----------------------------------------------------------------------------
(* tds_freeze(): a new freeze at the end of what is written.               *)
LEMMA AppendNested ==
    ASSUME NEW c, Shape(c), NEW r, Shape(r), NEW f \in Freeze,
           Nested(c), r.freezes = Append(c.freezes, f), Placed(r, f), f.pkt >= Len(c.chain),
           Len(c.chain) <= Len(r.chain), End(c) <= End(r), f.mark >= End(c),
           c.freezes = <<>> => f.pkt = 1
    PROVE  Nested(r)
  <1>0. c \in Request /\ r \in Request /\ c.chain # <<>> /\ r.chain # <<>>
    BY DEF Shape, Full
  <1>1. PICK s \in Seq(Freeze), n \in Nat : s = c.freezes /\ n = Len(s)
    BY <1>0, Parts
  <1>2. PICK t : t = Append(s, f)
    OBVIOUS
  <1>3. Len(t) = n + 1 /\ t[n + 1] = f /\ \A k \in 1 .. n : t[k] = s[k] /\ s[k] \in Freeze
    BY <1>1, <1>2
  <1>4. PICK d \in Nat, m \in Nat : d = End(c) /\ m = Len(c.chain)
    BY <1>0, LastPacket
  <1>5. ASSUME NEW k \in 1 .. n
        PROVE  Placed(c, s[k]) /\ s[k].pkt <= f.pkt /\ s[k].mark + s[k].size_len <= f.mark
    <2>1. Placed(c, s[k])
      BY <1>1 DEF Nested
    <2>2. s[k].pkt \in 1 .. m /\ s[k].mark + s[k].size_len <= d
      BY <1>4, <2>1 DEF Placed
    <2>3. s[k] \in Freeze
      BY <1>3
    <2>4. s[k].pkt \in Nat /\ s[k].mark \in Nat /\ s[k].size_len \in Nat /\ f.pkt \in Nat /\ f.mark \in Nat
      BY <2>3, Sizes DEF Freeze
    <2>5. f.pkt >= m /\ f.mark >= d
      BY <1>4
    <2>. QED  BY <2>1, <2>2, <2>4, <2>5
  <1>6. \A k \in 1 .. n + 1 : k = n + 1 \/ k \in 1 .. n
    OBVIOUS
  <1>7. ASSUME NEW k \in 1 .. n + 1 PROVE Placed(r, t[k])
    <2>1. CASE k = n + 1
      BY <1>3, <2>1
    <2>2. CASE k \in 1 .. n
      BY <1>0, <1>3, <1>5, <2>2, PlacedGrows
    <2>. QED  BY <1>6, <2>1, <2>2
  <1>8. ASSUME NEW k \in 1 .. n + 1, NEW m2 \in 1 .. n + 1, k < m2
        PROVE  t[k].pkt <= t[m2].pkt /\ t[k].mark + t[k].size_len <= t[m2].mark
    <2>1. k \in 1 .. n
      BY <1>8
    <2>2. CASE m2 = n + 1
      BY <1>3, <1>5, <2>1, <2>2
    <2>3. CASE m2 \in 1 .. n
      <3>1. s[k].pkt <= s[m2].pkt /\ s[k].mark + s[k].size_len <= s[m2].mark
        BY <1>1, <1>8, <2>1, <2>3 DEF Nested
      <3>. QED  BY <1>3, <2>1, <2>3, <3>1
    <2>. QED  BY <1>6, <2>2, <2>3
  <1>9. t[1].pkt = 1
    <2>1. CASE n = 0
      <3>1. s = <<>>
        BY <1>1, <2>1, EmptyIs
      <3>. QED  BY <1>1, <1>3, <2>1, <3>1
    <2>2. CASE n # 0
      <3>1. 1 \in 1 .. n /\ s # <<>>
        BY <1>1, <2>2
      <3>2. s[1].pkt = 1
        BY <1>1, <3>1 DEF Nested
      <3>. QED  BY <1>3, <3>1, <3>2
    <2>. QED  BY <2>1, <2>2
  <1>. QED  BY <1>1, <1>2, <1>3, <1>7, <1>8, <1>9 DEF Nested

(* The zeros where the length will be.                                     *)
Zeros(k) == [i \in 1 .. k |-> 0]

LEMMA ZerosAre ==
    ASSUME NEW k \in Nat
    PROVE  Zeros(k) \in Seq(Bytes) /\ Len(Zeros(k)) = k
  <1>1. 0 \in Bytes
    BY Sizes DEF Bytes
  <1>. QED  BY <1>1 DEF Zeros

(* All that was to be written is written.                                  *)
LEMMA AllWritten ==
    ASSUME NEW c, NEW bytes \in Seq(Bytes), Sound(c, bytes, Len(bytes)), Shape(c)
    PROVE  Sound(c, <<>>, 0)
  <1>1. PICK l \in Nat, e \in Nat : l = Len(bytes) /\ e = End(c)
    BY LastPacket DEF Shape, Full
  <1>2. e + l - l = e + 0 - 0 /\ Len(<<>>) = 0 /\ \A j \in (0 + 1) .. 0 : FALSE
    BY <1>1
  <1>. QED  BY <1>1, <1>2 DEF Sound

(* What is to be written comes to what is to be sent.                      *)
LEMMA ToWrite ==
    ASSUME NEW c, Shape(c), NEW x \in Seq(Bytes), NEW r, Shape(r), Sound(c, <<>>, 0),
           r.chain = c.chain, r.dead = c.dead, r.bad = c.bad, r.want = c.want \o x
    PROVE  Sound(r, x, 0)
  <1>. SUFFICES ASSUME ~r.dead PROVE Sound(r, x, 0)
    BY DEF Sound
  <1>0. c \in Request /\ Full(c)
    BY DEF Shape
  <1>1. PICK w \in Seq(Bytes), l \in Nat, m \in Nat, e \in Nat :
           w = c.want /\ l = Len(w) /\ m = Len(x) /\ e = End(c)
    BY <1>0, LastPacket, Parts DEF Full
  <1>2. ~c.bad /\ l = e
    <2>1. Len(w) = e + 0 - 0 /\ ~c.bad
      BY <1>1 DEF Sound
    <2>. QED  BY <1>1, <2>1
  <1>3. PICK t : t = w \o x
    OBVIOUS
  <1>4. Len(t) = l + m /\ (\A j \in 1 .. l : t[j] = w[j]) /\ \A j \in 1 .. m : t[l + j] = x[j]
    <2>1. Concat(t, w, x)
      BY <1>3, ConcatIs
    <2>. QED  BY <1>1, <2>1 DEF Concat
  <1>5. End(r) = e
    BY <1>1 DEF End, OutPos
  <1>6. Len(r.want) = End(r) + Len(x) - 0
    <2>1. l + m = e + m - 0
      BY <1>2
    <2>. QED  BY <1>1, <1>3, <1>4, <1>5, <2>1
  <1>7. ASSUME NEW i \in 1 .. Len(c.chain), NEW j \in 1 .. Len(c.chain[i])
        PROVE  c.chain[i][j] = t[Off(i) + j]
    <2>1. Off(i) + j \in 1 .. l
      BY <1>0, <1>1, <1>2, PlacesAreInStream
    <2>2. c.chain[i][j] = w[Off(i) + j]
      BY <1>1 DEF Sound
    <2>. QED  BY <1>4, <2>1, <2>2
  <1>8. ASSUME NEW j \in (0 + 1) .. m PROVE t[e + j - 0] = x[j]
    <2>1. j \in 1 .. m /\ e + j - 0 = l + j
      BY <1>2
    <2>. QED  BY <1>4, <2>1
  <1>9. r.want = t /\ r.chain = c.chain /\ ~r.bad
    BY <1>1, <1>2, <1>3
  <1>10. \A j \in (0 + 1) .. Len(x) : r.want[End(r) + j - 0] = x[j]
    BY <1>1, <1>5, <1>8, <1>9
  <1>11. \A i \in 1 .. Len(r.chain) : \A j \in 1 .. Len(r.chain[i]) : r.chain[i][j] = r.want[Off(i) + j]
    BY <1>7, <1>9
  <1>. QED  BY <1>6, <1>9, <1>10, <1>11 DEF Sound

LEMMA FreezeIs ==
    ASSUME NEW c, Good(c), ~c.dead, NEW size_len \in SizeLens
    PROVE  Good(tds_freeze(c, size_len))
  <1>0. Shape(c) /\ Begun(c) /\ Nested(c) /\ Sound(c, <<>>, 0) /\ c \in Request
    BY DEF Good, Shape
  <1>1. PICK r : r = IF OutPos(c) > BufMax THEN tds_write_packet(c, FALSE) ELSE c
    OBVIOUS
  <1>2. PICK o \in Nat, m \in Nat, d \in Nat :
           o = OutPos(c) /\ m = Len(c.chain) /\ d = End(c) /\ o <= BufMax + Extra
    BY <1>0, LastPacket DEF Shape, Full
  <1>3. /\ Shape(r) /\ Sound(r, <<>>, 0) /\ Moved(r, c, 0) /\ OutPos(r) <= BufMax
        /\ Begun(r)
    <2>1. CASE o > BufMax
      <3>1. r = tds_write_packet(c, FALSE)
        BY <1>1, <1>2, <2>1
      <3>2. <<>> \in Seq(Bytes) /\ Len(<<>>) = 0 /\ 0 \in Nat /\ 0 <= Len(<<>>)
        OBVIOUS
      <3>3. OutPos(c) >= BufMax /\ OutPos(c) > BufMax
        BY <1>2, <2>1, Sizes
      <3>4. Shape(r) /\ Sound(r, <<>>, 0) /\ Moved(r, c, 0) /\ OutPos(r) = o - BufMax
        BY <1>0, <1>2, <3>1, <3>2, <3>3, CutIs
      <3>5. o - BufMax <= BufMax /\ o - BufMax > 0
        BY <1>2, <2>1, Sizes
      <3>. QED  BY <3>4, <3>5 DEF Begun
    <2>2. CASE ~(o > BufMax)
      <3>1. r = c
        BY <1>1, <1>2, <2>2
      <3>2. d = d + 0 /\ m >= m /\ o <= BufMax
        BY <1>2, <2>2, Sizes
      <3>. QED  BY <1>0, <1>2, <3>1, <3>2 DEF Moved, Same
    <2>. QED  BY <2>1, <2>2
  <1>4. r \in Request /\ r.freezes = c.freezes
    BY <1>3 DEF Shape, Moved
  <1>5. PICK p \in Nat, n \in Nat, e \in Nat :
           p = OutPos(r) /\ n = Len(r.chain) /\ e = End(r) /\ n > 0 /\ e = Off(n) + p /\ p <= BufMax
    BY <1>3, <1>4, LastPacket DEF Shape, Full
  <1>6. n >= m /\ (c.freezes # <<>> => e = d) /\ (c.freezes = <<>> => n = 1 /\ m = 1)
    <2>1. c.freezes # <<>> => n >= m /\ e = d + 0
      BY <1>2, <1>3, <1>5 DEF Moved
    <2>2. c.freezes = <<>> => n = 1 /\ m = 1
      BY <1>0, <1>2, <1>3, <1>4, <1>5 DEF Shape
    <2>. QED  BY <1>2, <1>5, <2>1, <2>2
  <1>7. size_len \in Nat
    BY Sizes
  <1>8. PICK z : z = Zeros(size_len)
    OBVIOUS
  <1>9. z \in Seq(Bytes) /\ Len(z) = size_len
    BY <1>7, <1>8, ZerosAre
  <1>10. PICK f : f = [pkt |-> Len(r.chain), pos |-> OutPos(r), size_len |-> size_len, mark |-> Len(r.want)]
    OBVIOUS
  <1>11. f \in Freeze /\ f.pkt = n /\ f.pos = p /\ f.size_len = size_len /\ f.mark = Len(r.want)
    <2>1. Len(r.want) \in Nat
      BY <1>4, Parts
    <2>. QED  BY <1>5, <1>10, <2>1 DEF Freeze
  <1>12. PICK s : s = Append(r.freezes, f)
    OBVIOUS
  <1>13. PICK w : w = r.want \o z
    OBVIOUS
  <1>14. s \in Seq(Freeze) /\ s # <<>> /\ w \in Seq(Bytes)
    <2>1. r.freezes \in Seq(Freeze) /\ r.want \in Seq(Bytes)
      BY <1>4, Parts
    <2>2. w \in Seq(Bytes)
      BY <1>9, <1>13, <2>1, ConcatIs
    <2>. QED  BY <1>11, <1>12, <2>1, <2>2
  <1>15. PICK g : g = Renew(r, s, w)
    OBVIOUS
  <1>16. /\ g \in Request /\ g.freezes = s /\ g.want = w /\ g.chain = r.chain
         /\ g.dead = r.dead /\ g.bad = r.bad
    <2>1. r \in Request /\ s \in Seq(Freeze) /\ w \in Seq(Bytes)
      BY <1>4, <1>14
    <2>. QED  BY <1>15, <2>1, NewFields
  <1>17. OutPos(g) = p /\ End(g) = e /\ Len(g.chain) = n
    BY <1>5, <1>16 DEF End, OutPos
  <1>18. Shape(g)
    BY <1>3, <1>5, <1>14, <1>16, <1>17 DEF Shape, Full
  <1>19. Sound(g, z, 0)
    BY <1>3, <1>9, <1>13, <1>16, <1>18, ToWrite
  <1>20. PICK q : q = tds_put_n(g, z)
    OBVIOUS
  <1>21. Written(q, g, z, size_len)
    BY <1>9, <1>18, <1>19, <1>20, PutAll
  <1>22. tds_freeze(c, size_len) = q
    <2>1. g = [r EXCEPT !.freezes = Append(@, f), !.want = @ \o z]
      BY <1>12, <1>13, <1>15 DEF Renew
    <2>. QED  BY <1>1, <1>8, <1>10, <1>20, <2>1 DEF tds_freeze, Zeros
  <1>23. /\ Shape(q) /\ q.freezes = s /\ q.dead = g.dead
         /\ Len(q.chain) >= n /\ End(q) = e + size_len
    BY <1>14, <1>16, <1>17, <1>21 DEF Written, Moved, Same
  <1>24. Begun(q)
    <2>1. Begun(g)
      BY <1>3, <1>16, <1>17, <1>5 DEF Begun
    <2>. QED  BY <1>21, <2>1 DEF Written
  <1>25. Sound(q, <<>>, 0)
    BY <1>9, <1>21, <1>23, AllWritten DEF Written
  <1>26. ASSUME ~q.dead PROVE Nested(q)
    <2>1. f.mark = e
      <3>1. Len(r.want) = e + 0 - 0
        BY <1>3, <1>5, <1>16, <1>23, <1>26 DEF Sound
      <3>. QED  BY <1>5, <1>11, <3>1
    <2>2. PICK n2 \in Nat : n2 = Len(q.chain) /\ n2 >= n
      BY <1>23, Parts DEF Shape
    <2>3. f.pkt \in 1 .. Len(q.chain) /\ f.mark + f.size_len <= End(q)
      BY <1>5, <1>7, <1>11, <1>23, <2>1, <2>2
    <2>4. Placed(q, f)
      <3>1. f.pkt > 1 => f.pos > 0
        BY <1>3, <1>5, <1>11 DEF Begun
      <3>. QED  BY <1>5, <1>11, <2>1, <2>3, <3>1 DEF Placed
    <2>5. CASE c.freezes # <<>>
      <3>1. f.pkt >= Len(c.chain) /\ Len(c.chain) <= Len(q.chain) /\ End(c) <= End(q) /\ f.mark >= End(c)
        <4>1. n >= m /\ m <= n2 /\ d <= e + size_len /\ e >= d
          BY <1>2, <1>5, <1>6, <1>7, <2>2, <2>5
        <4>. QED  BY <1>2, <1>11, <1>23, <2>1, <2>2, <4>1
      <3>. QED  BY <1>0, <1>4, <1>11, <1>12, <1>23, <2>4, <2>5, <3>1, AppendNested
    <2>6. CASE c.freezes = <<>>
      <3>1. s = <<f>>
        BY <1>4, <1>12, <2>6
      <3>2. Len(s) = 1 /\ s[1] = f
        BY <3>1
      <3>3. \A k \in 1 .. 1 : k = 1
        OBVIOUS
      <3>4. f.pkt = 1
        BY <1>6, <1>11, <2>6
      <3>5. \A k, k2 \in 1 .. 1 : ~(k < k2)
        OBVIOUS
      <3>. QED  BY <1>23, <2>4, <3>2, <3>3, <3>4, <3>5 DEF Nested
    <2>. QED  BY <2>5, <2>6
  <1>. QED  BY <1>22, <1>23, <1>24, <1>25, <1>26 DEF Good

----------------------------------------------------------------------------
(* tds_freeze_written(): what is in the packets after the place of the     *)
(* freeze.                                                                 *)
Summed(g, c, f, l) ==
    /\ g[0] = 0 /\ \A n \in 1 .. l : g[n] = g[n - 1] + Len(c.chain[f.pkt + n - 1])
    /\ tds_freeze_written(c, f) = g[l] + OutPos(c) - f.pos

LEMMA SizesAre ==
    ASSUME NEW c, NEW f, NEW l \in Nat, l = Len(c.chain) - f.pkt
    PROVE  \E g : Summed(g, c, f, l)
  <1>. DEFINE a == [chain |-> c.chain, pkt |-> f.pkt]
              IsSum(g) == g = [n \in 0 .. l |-> IF n = 0 THEN 0 ELSE g[n - 1] + Len(c.chain[f.pkt + n - 1])]
  <1>1. PICK g : g = CHOOSE h : IsSum(h)
    OBVIOUS
  <1>2. tds_freeze_written(c, f) = g[l] + OutPos(c) - f.pos
    BY <1>1, Zenon DEF tds_freeze_written
  <1>3. \A e, n : Turn("size", a, e, n) = e + Len(c.chain[f.pkt + n - 1])
    BY DEF Turn
  <1>4. ASSUME NEW h PROVE IsLoop(h, "size", a, 0, l) <=> IsSum(h)
    <2>1. [n \in 0 .. l |-> IF n = 0 THEN 0 ELSE Turn("size", a, h[n - 1], n)]
             = [n \in 0 .. l |-> IF n = 0 THEN 0 ELSE h[n - 1] + Len(c.chain[f.pkt + n - 1])]
      BY <1>3
    <2>. QED  BY <2>1, Zenon DEF IsLoop
  <1>. HIDE DEF IsSum, a
  <1>5. IsSum(g)
    BY <1>1, <1>4, LoopsExist, Zenon
  <1>6. IsLoop(g, "size", a, 0, l)
    BY <1>4, <1>5
  <1>7. Steps(g, "size", a, 0, l)
    BY <1>6, LoopSteps
  <1>. QED  BY <1>2, <1>3, <1>7 DEF Steps, Summed

LEMMA WrittenIs ==
    ASSUME NEW c \in Request, Full(c), NEW f \in Freeze, Placed(c, f)
    PROVE  tds_freeze_written(c, f) = End(c) - f.mark
  <1>1. PICK n \in Nat, m \in Nat, p \in Nat : n = Len(c.chain) /\ m = f.pkt /\ p = f.pos /\ m > 0 /\ m <= n
    BY Parts DEF Placed, Freeze
  <1>2. PICK l \in Nat : l = n - m
    BY <1>1
  <1>3. PICK g : /\ g[0] = 0 /\ \A k \in 1 .. l : g[k] = g[k - 1] + Len(c.chain[m + k - 1])
                 /\ tds_freeze_written(c, f) = g[l] + OutPos(c) - p
    <2>1. l = Len(c.chain) - f.pkt
      BY <1>1, <1>2
    <2>2. PICK g : Summed(g, c, f, l)
      BY <2>1, SizesAre
    <2>. QED  BY <1>1, <2>2 DEF Summed
  <1>. DEFINE T == {k \in Nat : k <= l /\ ~(g[k] \in Nat /\ Off(m) + g[k] = Off(m + k))}
  <1>4. Off(m) \in Nat
    BY <1>1, OffIs
  <1>5. g[0] \in Nat /\ Off(m) + g[0] = Off(m + 0)
    BY <1>1, <1>3, <1>4
  <1>6. ASSUME NEW k \in Nat, k < l, g[k] \in Nat, Off(m) + g[k] = Off(m + k)
        PROVE  g[k + 1] \in Nat /\ Off(m) + g[k + 1] = Off(m + (k + 1))
    <2>1. k + 1 \in 1 .. l /\ (k + 1) - 1 = k /\ m + (k + 1) - 1 = m + k /\ m + k \in 1 .. (n - 1)
      BY <1>1, <1>2, <1>6
    <2>2. Len(c.chain[m + k]) = BufMax
      BY <1>1, <2>1 DEF Full
    <2>3. g[k + 1] = g[k] + BufMax
      BY <1>3, <2>1, <2>2
    <2>4. m + k \in Nat /\ m + k > 0 /\ m + (k + 1) = (m + k) + 1
      BY <1>1
    <2>5. Off(m + (k + 1)) = Off(m + k) + BufMax
      BY <2>4, OffIs
    <2>. QED  BY <1>4, <1>6, <2>3, <2>5, Sizes
  <1>7. T = {}
    <2>. SUFFICES ASSUME T # {} PROVE FALSE
      OBVIOUS
    <2>1. PICK k \in T : \A j \in T : k <= j
      BY Smallest
    <2>2. k # 0
      BY <1>5
    <2>3. k - 1 \in Nat /\ k - 1 < l /\ g[k - 1] \in Nat /\ Off(m) + g[k - 1] = Off(m + (k - 1))
      BY <2>1, <2>2
    <2>4. g[(k - 1) + 1] \in Nat /\ Off(m) + g[(k - 1) + 1] = Off(m + ((k - 1) + 1))
      BY <1>6, <2>3
    <2>5. (k - 1) + 1 = k
      BY <2>1
    <2>. QED  BY <2>1, <2>4, <2>5
  <1>8. g[l] \in Nat /\ Off(m) + g[l] = Off(n)
    <2>1. m + l = n
      BY <1>1, <1>2
    <2>. QED  BY <1>7, <2>1
  <1>9. OutPos(c) \in Nat /\ End(c) = Off(n) + OutPos(c) /\ Off(n) \in Nat
    BY <1>1, LastPacket DEF Full
  <1>10. f.mark = Off(m) + p
    BY <1>1 DEF Placed
  <1>. QED  BY <1>1, <1>3, <1>4, <1>8, <1>9, <1>10

----------------------------------------------------------------------------
(* The digits of a length: what is left of it after each of them.          *)
Divided(g, size, l) ==
    /\ g[0] = size
    /\ \A n \in 1 .. l : g[n] = g[n - 1] \div Base
    /\ \A n \in 0 .. l : g[n] \in Nat

LEMMA DigitsAre ==
    ASSUME NEW size \in Nat, NEW l \in Nat
    PROVE  \E g : Divided(g, size, l) /\ Digits(size, l) = [k \in 1 .. l |-> g[k - 1] % Base]
  <1>. DEFINE IsRest(g) == g = [n \in 0 .. l |-> IF n = 0 THEN size ELSE g[n - 1] \div Base]
              Signs(g) == [k \in 1 .. l |-> g[k - 1] % Base]
  <1>1. PICK g : g = CHOOSE h : IsRest(h)
    OBVIOUS
  <1>2. Digits(size, l) = [k \in 1 .. l |-> g[k - 1] % Base]
    <2>1. Digits(size, l) = Signs(CHOOSE h : IsRest(h))
      BY DEF Digits
    <2>. HIDE DEF IsRest
    <2>. QED  BY <1>1, <2>1
  <1>3. \A e, n : Turn("rest", 0, e, n) = e \div Base
    BY DEF Turn
  <1>4. ASSUME NEW h PROVE IsLoop(h, "rest", 0, size, l) <=> IsRest(h)
    <2>1. [n \in 0 .. l |-> IF n = 0 THEN size ELSE Turn("rest", 0, h[n - 1], n)]
             = [n \in 0 .. l |-> IF n = 0 THEN size ELSE h[n - 1] \div Base]
      BY <1>3
    <2>. QED  BY <2>1, Zenon DEF IsLoop
  <1>. HIDE DEF IsRest
  <1>5. IsRest(g)
    BY <1>1, <1>4, LoopsExist, Zenon
  <1>6. IsLoop(g, "rest", 0, size, l)
    BY <1>4, <1>5
  <1>7. g[0] = size /\ \A n \in 1 .. l : g[n] = Turn("rest", 0, g[n - 1], n)
    <2>1. Steps(g, "rest", 0, size, l)
      BY <1>6, LoopSteps
    <2>. QED  BY <2>1 DEF Steps
  <1>8. \A n \in 1 .. l : g[n] = g[n - 1] \div Base
    BY <1>3, <1>7
  <1>. DEFINE T == {k \in Nat : k <= l /\ g[k] \notin Nat}
  <1>9. T = {}
    <2>. SUFFICES ASSUME T # {} PROVE FALSE
      OBVIOUS
    <2>1. PICK k \in T : \A j \in T : k <= j
      BY Smallest
    <2>2. k # 0
      BY <1>7
    <2>3. k - 1 \in Nat /\ k - 1 <= l /\ g[k - 1] \in Nat /\ k \in 1 .. l
      BY <2>1, <2>2
    <2>4. g[k - 1] \div Base \in Nat
      BY <2>3, Sizes
    <2>. QED  BY <1>8, <2>1, <2>3, <2>4
  <1>10. \A n \in 0 .. l : g[n] \in Nat
    BY <1>9
  <1>. QED  BY <1>2, <1>7, <1>8, <1>10 DEF Divided

----------------------------------------------------------------------------
(* tds_freeze_update_size(): the digits are put where the zeros were.      *)
SetByte(s, i, j, z) == [s EXCEPT ![i][j] = z]
OneByte(t, s, i, j, z) ==
    /\ t \in Seq(Seq(Bytes)) /\ Len(t) = Len(s)
    /\ \A k \in 1 .. Len(s) : Len(t[k]) = Len(s[k])
    /\ \A k \in 1 .. Len(s) : \A m \in 1 .. Len(s[k]) :
          t[k][m] = IF k = i /\ m = j THEN z ELSE s[k][m]

LEMMA SetByteIs ==
    ASSUME NEW s \in Seq(Seq(Bytes)), NEW i \in 1 .. Len(s), NEW j \in 1 .. Len(s[i]), NEW z \in Bytes
    PROVE  OneByte(SetByte(s, i, j, z), s, i, j, z)
  <1>1. PICK q \in Seq(Bytes) : q = s[i]
    OBVIOUS
  <1>2. PICK x : x = [q EXCEPT ![j] = z]
    OBVIOUS
  <1>3. x \in Seq(Bytes) /\ Len(x) = Len(q) /\ x[j] = z /\ \A m \in 1 .. Len(q) : m # j => x[m] = q[m]
    BY <1>1, <1>2
  <1>4. PICK t : t = [s EXCEPT ![i] = x]
    OBVIOUS
  <1>5. t \in Seq(Seq(Bytes)) /\ Len(t) = Len(s) /\ t[i] = x /\ \A k \in 1 .. Len(s) : k # i => t[k] = s[k]
    BY <1>3, <1>4
  <1>6. SetByte(s, i, j, z) = t
    BY <1>1, <1>2, <1>4 DEF SetByte
  <1>7. \A k \in 1 .. Len(s) : Len(t[k]) = Len(s[k])
    BY <1>1, <1>3, <1>5
  <1>8. \A k \in 1 .. Len(s) : \A m \in 1 .. Len(s[k]) : t[k][m] = IF k = i /\ m = j THEN z ELSE s[k][m]
    BY <1>1, <1>3, <1>5
  <1>. QED  BY <1>5, <1>6, <1>7, <1>8 DEF OneByte

(* After n digits: the place of the next one, what is left of the length,  *)
(* and what is in the packets.                                             *)
Alike(t, s) ==
    t \in Seq(Seq(Bytes)) /\ Len(t) = Len(s) /\ \A i \in 1 .. Len(s) : Len(t[i]) = Len(s[i])
Value(a, f, g, n, old) == IF a \in f.mark + 1 .. f.mark + n THEN g[a - f.mark - 1] % Base ELSE old
Replaced(t, s, f, g, n) ==
    \A i \in 1 .. Len(s) : \A j \in 1 .. Len(s[i]) : t[i][j] = Value(Off(i) + j, f, g, n, s[i][j])
InPlace(s, pkt, pos, at) == pkt \in 1 .. Len(s) /\ pos \in 0 .. Len(s[pkt]) /\ Off(pkt) + pos = at
Digit(e, s, f, g, n) ==
    /\ Alike(e.chain, s) /\ Replaced(e.chain, s, f, g, n)
    /\ InPlace(s, e.pkt, e.pos, f.mark + n) /\ e.size = g[n]

(* Where the next digit goes.                                              *)
Over(s, pkt, pos) == pos >= Len(s[pkt]) /\ pkt < Len(s)
IsNext(s, p, q, at) ==
    p \in 1 .. Len(s) /\ q \in Nat /\ q + 1 \in 1 .. Len(s[p]) /\ Off(p) + (q + 1) = at + 1

LEMMA NextPlace ==
    ASSUME NEW c \in Request, Full(c), NEW pkt, NEW pos, NEW at \in Nat, at < End(c),
           InPlace(c.chain, pkt, pos, at), NEW p, NEW q,
           p = IF Over(c.chain, pkt, pos) THEN pkt + 1 ELSE pkt,
           q = IF Over(c.chain, pkt, pos) THEN 0 ELSE pos
    PROVE  IsNext(c.chain, p, q, at)
  <1>1. PICK n \in Nat, o \in Nat, d \in Nat :
          /\ n = Len(c.chain) /\ n > 0 /\ o = Len(c.chain[n]) /\ d = Off(n) /\ End(c) = d + o
    BY LastPacket DEF Full
  <1>2. pkt \in Nat /\ pkt > 0 /\ pkt <= n /\ Len(c.chain[pkt]) \in Nat /\ pos \in Nat /\ pos <= Len(c.chain[pkt])
        /\ Off(pkt) + pos = at
    BY <1>1, Parts DEF InPlace
  <1>3. Off(pkt) \in Nat /\ Off(pkt + 1) = Off(pkt) + BufMax
    BY <1>2, OffIs
  <1>4. pkt < n => Len(c.chain[pkt]) = BufMax
    BY <1>1, <1>2 DEF Full
  <1>5. CASE pos >= Len(c.chain[pkt]) /\ pkt < n
    <2>1. pos = BufMax
      BY <1>2, <1>4, <1>5
    <2>2. Off(pkt + 1) = at
      BY <1>2, <1>3, <2>1
    <2>3. pkt + 1 \in 1 .. n /\ Len(c.chain[pkt + 1]) \in Nat
      <3>1. pkt + 1 \in 1 .. n
        BY <1>1, <1>2, <1>5
      <3>. QED  BY <1>1, <3>1, Parts
    <2>4. Len(c.chain[pkt + 1]) > 0
      <3>1. CASE pkt + 1 = n
        <4>1. at < d + o /\ d = at
          BY <1>1, <2>2, <3>1
        <4>. QED  BY <1>1, <3>1, <4>1
      <3>2. CASE pkt + 1 # n
        <4>1. pkt + 1 \in 1 .. (n - 1)
          BY <2>3, <3>2
        <4>. QED  BY <1>1, <4>1, Sizes DEF Full
      <3>. QED  BY <3>1, <3>2
    <2>5. 0 + 1 \in 1 .. Len(c.chain[pkt + 1]) /\ Off(pkt + 1) + (0 + 1) = at + 1
      BY <2>2, <2>3, <2>4
    <2>6. p = pkt + 1 /\ q = 0
      BY <1>1, <1>5 DEF Over
    <2>. QED  BY <1>1, <2>3, <2>5, <2>6 DEF IsNext
  <1>6. CASE ~(pos >= Len(c.chain[pkt]) /\ pkt < n)
    <2>1. pos < Len(c.chain[pkt])
      <3>1. CASE pkt < n
        BY <1>2, <1>6, <3>1
      <3>2. CASE pkt = n
        <4>1. d + pos < d + o
          BY <1>1, <1>2, <3>2
        <4>. QED  BY <1>1, <1>2, <3>2, <4>1
      <3>. QED  BY <1>1, <1>2, <3>1, <3>2
    <2>2. PICK l \in Nat, d2 \in Nat : l = Len(c.chain[pkt]) /\ d2 = Off(pkt)
      BY <1>2, <1>3
    <2>3. pos + 1 \in 1 .. l /\ d2 + (pos + 1) = at + 1 /\ pkt \in 1 .. n
      BY <1>2, <2>1, <2>2
    <2>4. p = pkt /\ q = pos
      BY <1>1, <1>6 DEF Over
    <2>. QED  BY <1>1, <1>2, <2>2, <2>3, <2>4 DEF IsNext
  <1>. QED  BY <1>5, <1>6

(* One more digit.                                                         *)
LEMMA DigitIs ==
    ASSUME NEW c \in Request, Full(c), NEW f \in Freeze, NEW g, NEW n \in Nat,
           f.mark + n < End(c), g[n] \in Nat, g[n + 1] = g[n] \div Base,
           NEW e, Digit(e, c.chain, f, g, n)
    PROVE  Digit(PutDigit(e), c.chain, f, g, n + 1)
  <1>1. PICK s \in Seq(Seq(Bytes)), t \in Seq(Seq(Bytes)), m \in Nat :
          s = c.chain /\ t = e.chain /\ m = f.mark /\ Alike(t, s)
    BY Parts DEF Digit, Alike, Freeze
  <1>2. Len(t) = Len(s) /\ \A i \in 1 .. Len(s) : Len(t[i]) = Len(s[i])
    BY <1>1 DEF Alike
  <1>3. InPlace(s, e.pkt, e.pos, m + n) /\ e.size = g[n] /\ Replaced(t, s, f, g, n)
    BY <1>1 DEF Digit
  <1>4. e.pkt \in 1 .. Len(s)
    BY <1>3 DEF InPlace
  <1>5. PICK over \in BOOLEAN : over = Over(s, e.pkt, e.pos)
    BY DEF Over
  <1>6. PICK p : p = IF over THEN e.pkt + 1 ELSE e.pkt
    OBVIOUS
  <1>7. PICK q : q = IF over THEN 0 ELSE e.pos
    OBVIOUS
  <1>8. p \in 1 .. Len(s) /\ q + 1 \in 1 .. Len(s[p]) /\ q \in Nat /\ Off(p) + (q + 1) = (m + n) + 1
    <2>1. m + n \in Nat /\ m + n < End(c)
      BY <1>1
    <2>2. IsNext(s, p, q, m + n)
      BY <1>1, <1>3, <1>5, <1>6, <1>7, <2>1, NextPlace
    <2>. QED  BY <2>2 DEF IsNext
  <1>9. PICK z \in Bytes : z = g[n] % Base
    <2>1. g[n] % Base \in 0 .. (Base - 1)
      BY Sizes
    <2>2. \A k \in 0 .. (Base - 1) : k \in 0 .. (Base + Data - 1)
      BY Sizes
    <2>. QED  BY <2>1, <2>2 DEF Bytes
  <1>10. PICK u : u = SetByte(t, p, q + 1, z)
    OBVIOUS
  <1>11. OneByte(u, t, p, q + 1, z)
    <2>1. p \in 1 .. Len(t) /\ q + 1 \in 1 .. Len(t[p])
      BY <1>2, <1>8
    <2>. QED  BY <1>10, <2>1, SetByteIs
  <1>12. PutDigit(e) = [chain |-> u, pkt |-> p, pos |-> q + 1, size |-> g[n] \div Base]
    <2>1. over <=> e.pos >= Len(e.chain[e.pkt]) /\ e.pkt < Len(e.chain)
      BY <1>1, <1>2, <1>4, <1>5 DEF Over
    <2>2. SetByte(e.chain, p, q + 1, e.size % Base) = u
      BY <1>1, <1>3, <1>9, <1>10
    <2>. QED  BY <1>3, <1>6, <1>7, <2>1, <2>2 DEF PutDigit, SetByte
  <1>13. PICK r : r = PutDigit(e)
    OBVIOUS
  <1>14. r.chain = u /\ r.pkt = p /\ r.pos = q + 1 /\ r.size = g[n + 1]
    BY <1>12, <1>13
  <1>15. Alike(u, s)
    BY <1>2, <1>11 DEF Alike, OneByte
  <1>16. InPlace(s, p, q + 1, m + (n + 1))
    <2>1. (m + n) + 1 = m + (n + 1) /\ q + 1 \in 0 .. Len(s[p])
      BY <1>1, <1>8
    <2>. QED  BY <1>8, <2>1 DEF InPlace
  <1>17. ASSUME NEW i \in 1 .. Len(s), NEW j \in 1 .. Len(s[i])
         PROVE  u[i][j] = Value(Off(i) + j, f, g, n + 1, s[i][j])
    <2>1. PICK a \in Nat : a = Off(i) + j
      <3>1. i \in Nat /\ i > 0 /\ j \in Nat
        BY <1>1, Parts
      <3>2. Off(i) \in Nat
        BY <3>1, OffIs
      <3>. QED  BY <3>1, <3>2
    <2>2. u[i][j] = IF i = p /\ j = q + 1 THEN z ELSE t[i][j]
      BY <1>2, <1>11 DEF OneByte
    <2>3. t[i][j] = Value(a, f, g, n, s[i][j])
      BY <1>3, <2>1 DEF Replaced
    <2>4. i = p /\ j = q + 1 <=> a = m + n + 1
      <3>1. i = p /\ j = q + 1 => a = m + n + 1
        BY <1>8, <2>1
      <3>2. ASSUME a = m + n + 1 PROVE i = p /\ j = q + 1
        <4>1. Off(i) + j = Off(p) + (q + 1)
          BY <1>8, <2>1, <3>2
        <4>2. /\ i \in 1 .. Len(c.chain) /\ j \in 1 .. Len(c.chain[i])
              /\ p \in 1 .. Len(c.chain) /\ q + 1 \in 1 .. Len(c.chain[p])
          BY <1>1, <1>8
        <4>. QED  BY <4>1, <4>2, PlacesDiffer
      <3>. QED  BY <3>1, <3>2
    <2>5. CASE a = m + n + 1
      <3>1. a \in m + 1 .. m + (n + 1) /\ a - m - 1 = n
        BY <2>5
      <3>2. Value(a, f, g, n + 1, s[i][j]) = z
        BY <1>1, <1>9, <3>1 DEF Value
      <3>. QED  BY <2>1, <2>2, <2>4, <2>5, <3>2
    <2>6. CASE a # m + n + 1
      <3>1. a \in m + 1 .. m + (n + 1) <=> a \in m + 1 .. m + n
        BY <2>6
      <3>2. Value(a, f, g, n + 1, s[i][j]) = Value(a, f, g, n, s[i][j])
        BY <1>1, <3>1 DEF Value
      <3>. QED  BY <2>1, <2>2, <2>3, <2>4, <2>6, <3>2
    <2>. QED  BY <2>5, <2>6
  <1>18. Replaced(u, s, f, g, n + 1)
    BY <1>1, <1>17 DEF Replaced
  <1>. QED  BY <1>1, <1>13, <1>14, <1>15, <1>16, <1>18 DEF Digit

(* The place of a freeze is in its packet.                                 *)
LEMMA PosInPacket ==
    ASSUME NEW c \in Request, Full(c), NEW f \in Freeze, Placed(c, f)
    PROVE  f.pkt \in 1 .. Len(c.chain) /\ f.pos \in 0 .. Len(c.chain[f.pkt])
  <1>1. PICK n \in Nat, p \in Nat, q \in Nat, m \in Nat, l \in Nat, d \in Nat :
          /\ n = Len(c.chain) /\ p = f.pkt /\ q = f.pos /\ p \in 1 .. n /\ m = f.mark /\ l = f.size_len
          /\ d = End(c) /\ m + l <= d /\ q <= BufMax
    BY LastPacket, Sizes DEF Placed, Freeze, Full
  <1>2. PICK o \in Nat : o = Len(c.chain[p])
    BY <1>1, Parts
  <1>3. q <= o
    <2>1. CASE p < n
      <3>1. p \in 1 .. (n - 1)
        BY <1>1, <2>1
      <3>. QED  BY <1>1, <1>2, <3>1 DEF Full
    <2>2. CASE p = n
      <3>1. d = Off(n) + o /\ Off(n) \in Nat
        BY <1>1, <1>2, <2>2, LastPacket DEF Full
      <3>2. m = Off(n) + q
        BY <1>1, <2>2 DEF Placed
      <3>3. PICK x \in Nat : d = x + o /\ m = x + q
        BY <3>1, <3>2
      <3>4. m + l <= d
        BY <1>1
      <3>. QED  BY <3>3, <3>4
    <2>. QED  BY <1>1, <2>1, <2>2
  <1>4. q \in 0 .. o
    BY <1>1, <1>2, <1>3
  <1>. QED  BY <1>1, <1>2, <1>4

(* All of them.                                                            *)
DigitSteps(h, c, f, size, l) ==
    /\ h[0] = [chain |-> c.chain, pkt |-> f.pkt, pos |-> f.pos, size |-> size]
    /\ \A n \in 1 .. l : h[n] = PutDigit(h[n - 1])
    /\ tds_freeze_update_size(c, f, size) = [c EXCEPT !.chain = h[l].chain]

LEMMA DigitLoop ==
    ASSUME NEW c, NEW f, NEW size, NEW l \in Nat, l = f.size_len
    PROVE  \E h : DigitSteps(h, c, f, size, l)
  <1>. DEFINE d == [chain |-> c.chain, pkt |-> f.pkt, pos |-> f.pos, size |-> size]
              IsAt(h) == h = [n \in 0 .. l |-> IF n = 0 THEN d ELSE PutDigit(h[n - 1])]
              New(h) == [c EXCEPT !.chain = h[l].chain]
  <1>1. PICK g : g = CHOOSE h : IsAt(h)
    OBVIOUS
  <1>2. tds_freeze_update_size(c, f, size) = New(g)
    <2>1. tds_freeze_update_size(c, f, size) = New(CHOOSE h : IsAt(h))
      BY DEF tds_freeze_update_size
    <2>. HIDE DEF IsAt, New
    <2>. QED  BY <1>1, <2>1
  <1>3. \A e, n : Turn("digit", 0, e, n) = PutDigit(e)
    BY DEF Turn
  <1>. HIDE DEF d
  <1>4. ASSUME NEW h PROVE IsLoop(h, "digit", 0, d, l) <=> IsAt(h)
    <2>1. [n \in 0 .. l |-> IF n = 0 THEN d ELSE Turn("digit", 0, h[n - 1], n)]
             = [n \in 0 .. l |-> IF n = 0 THEN d ELSE PutDigit(h[n - 1])]
      BY <1>3
    <2>. QED  BY <2>1, Zenon DEF IsLoop
  <1>. HIDE DEF IsAt
  <1>5. IsAt(g)
    BY <1>1, <1>4, LoopsExist, Zenon
  <1>6. IsLoop(g, "digit", 0, d, l)
    BY <1>4, <1>5
  <1>7. Steps(g, "digit", 0, d, l)
    BY <1>6, LoopSteps
  <1>8. g[0] = d /\ \A n \in 1 .. l : g[n] = PutDigit(g[n - 1])
    BY <1>3, <1>7 DEF Steps
  <1>. QED  BY <1>2, <1>8 DEF d, DigitSteps

(* The digits in their place, and everything else as it was.               *)
Meant(a, f, size, old) ==
    IF a \in f.mark + 1 .. f.mark + f.size_len THEN Digits(size, f.size_len)[a - f.mark] ELSE old
Updated(t, s, f, size) ==
    Alike(t, s) /\ \A i \in 1 .. Len(s) : \A j \in 1 .. Len(s[i]) : t[i][j] = Meant(Off(i) + j, f, size, s[i][j])

LEMMA UpdateIs ==
    ASSUME NEW c \in Request, Full(c), NEW f \in Freeze, Placed(c, f), NEW size \in Nat
    PROVE  \E t : Updated(t, c.chain, f, size) /\ tds_freeze_update_size(c, f, size) = [c EXCEPT !.chain = t]
  <1>1. PICK l \in Nat, m \in Nat, d \in Nat : l = f.size_len /\ m = f.mark /\ d = End(c) /\ m + l <= d
    BY Sizes, LastPacket DEF Freeze, Placed, Full
  <1>2. PICK g : Divided(g, size, l) /\ Digits(size, l) = [k \in 1 .. l |-> g[k - 1] % Base]
    BY DigitsAre
  <1>3. PICK h : DigitSteps(h, c, f, size, l)
    BY <1>1, DigitLoop
  <1>4. PICK s \in Seq(Seq(Bytes)) : s = c.chain
    BY Parts
  <1>. DEFINE T == {n \in Nat : n <= l /\ ~Digit(h[n], s, f, g, n)}
  <1>5. Digit(h[0], s, f, g, 0)
    <2>1. PICK e : e = h[0]
      OBVIOUS
    <2>2. e.chain = s /\ e.pkt = f.pkt /\ e.pos = f.pos /\ e.size = size
      BY <1>3, <1>4, <2>1 DEF DigitSteps
    <2>3. Alike(s, s)
      BY DEF Alike
    <2>4. \A a \in Nat : ~(a \in m + 1 .. m + 0)
      BY <1>1
    <2>5. \A i \in 1 .. Len(s) : \A j \in 1 .. Len(s[i]) : Off(i) + j \in Nat
      <3>. SUFFICES ASSUME NEW i \in 1 .. Len(s), NEW j \in 1 .. Len(s[i]) PROVE Off(i) + j \in Nat
        OBVIOUS
      <3>1. i \in Nat /\ i > 0 /\ j \in Nat
        BY <1>4, Parts
      <3>2. Off(i) \in Nat
        BY <3>1, OffIs
      <3>. QED  BY <3>1, <3>2
    <2>6. Replaced(s, s, f, g, 0)
      BY <1>1, <2>4, <2>5 DEF Replaced, Value
    <2>7. f.pkt \in 1 .. Len(s) /\ f.pos \in 0 .. Len(s[f.pkt])
      BY <1>4, PosInPacket
    <2>8. m = Off(f.pkt) + f.pos /\ m + 0 = m
      BY <1>1 DEF Placed
    <2>9. InPlace(s, f.pkt, f.pos, m + 0)
      BY <2>7, <2>8 DEF InPlace
    <2>10. size = g[0]
      BY <1>2 DEF Divided
    <2>. QED  BY <1>1, <2>1, <2>2, <2>3, <2>6, <2>9, <2>10 DEF Digit
  <1>6. ASSUME NEW n \in Nat, n < l, Digit(h[n], s, f, g, n) PROVE Digit(h[n + 1], s, f, g, n + 1)
    <2>1. n \in 0 .. l /\ n + 1 \in 1 .. l /\ (n + 1) - 1 = n
      BY <1>6
    <2>2. g[n] \in Nat /\ g[n + 1] = g[n] \div Base
      BY <1>2, <2>1 DEF Divided
    <2>3. h[n + 1] = PutDigit(h[n])
      BY <1>3, <2>1 DEF DigitSteps
    <2>4. f.mark + n < End(c)
      <3>1. m + n < d
        BY <1>1, <1>6
      <3>. QED  BY <1>1, <3>1
    <2>. QED  BY <1>4, <1>6, <2>2, <2>3, <2>4, DigitIs
  <1>7. T = {}
    <2>. SUFFICES ASSUME T # {} PROVE FALSE
      OBVIOUS
    <2>1. PICK n \in T : \A k \in T : n <= k
      BY Smallest
    <2>2. n # 0
      BY <1>5
    <2>3. n - 1 \in Nat /\ n - 1 < l /\ Digit(h[n - 1], s, f, g, n - 1)
      BY <2>1, <2>2
    <2>4. Digit(h[(n - 1) + 1], s, f, g, (n - 1) + 1)
      BY <1>6, <2>3
    <2>5. (n - 1) + 1 = n
      BY <2>1
    <2>. QED  BY <2>1, <2>4, <2>5
  <1>8. Digit(h[l], s, f, g, l)
    BY <1>7
  <1>9. PICK t : t = h[l].chain
    OBVIOUS
  <1>10. Alike(t, s) /\ Replaced(t, s, f, g, l)
    BY <1>8, <1>9 DEF Digit
  <1>11. ASSUME NEW a \in Nat, NEW old PROVE Value(a, f, g, l, old) = Meant(a, f, size, old)
    <2>1. CASE a \in m + 1 .. m + l
      <3>1. a - m \in 1 .. l /\ a - m - 1 = (a - m) - 1
        BY <2>1
      <3>2. Digits(size, l)[a - m] = g[(a - m) - 1] % Base
        BY <1>2, <3>1
      <3>. QED  BY <1>1, <2>1, <3>1, <3>2 DEF Value, Meant
    <2>2. CASE ~(a \in m + 1 .. m + l)
      BY <1>1, <2>2 DEF Value, Meant
    <2>. QED  BY <2>1, <2>2
  <1>12. ASSUME NEW i \in 1 .. Len(s), NEW j \in 1 .. Len(s[i])
         PROVE  t[i][j] = Meant(Off(i) + j, f, size, s[i][j])
    <2>1. i \in Nat /\ i > 0 /\ j \in Nat
      BY <1>4, Parts
    <2>2. Off(i) + j \in Nat
      <3>1. Off(i) \in Nat
        BY <2>1, OffIs
      <3>. QED  BY <2>1, <3>1
    <2>. QED  BY <1>10, <1>11, <2>2 DEF Replaced
  <1>13. Updated(t, c.chain, f, size)
    BY <1>4, <1>10, <1>12 DEF Updated
  <1>. QED  BY <1>3, <1>9, <1>13 DEF DigitSteps

----------------------------------------------------------------------------
(* The packets that were kept back are sent.                               *)
SendSteps(h, c, kept, l) ==
    /\ h[0] = [c EXCEPT !.chain = <<Last(c.chain)>>]
    /\ \A n \in 1 .. l : h[n] = SendNext(h[n - 1], kept[n])
    /\ SendKept(c) = IF h[l].dead /\ c.luck + 2 > l THEN [h[l] EXCEPT !.shared = TRUE] ELSE h[l]

LEMMA SendLoop ==
    ASSUME NEW c, NEW kept, kept = Front(c.chain), NEW l \in Nat, l = Len(kept)
    PROVE  \E h : SendSteps(h, c, kept, l)
  <1>. DEFINE d == [c EXCEPT !.chain = <<Last(c.chain)>>]
              IsSent(h) == h = [n \in 0 .. l |-> IF n = 0 THEN d ELSE SendNext(h[n - 1], kept[n])]
              New(h) == IF h[l].dead /\ c.luck + 2 > l THEN [h[l] EXCEPT !.shared = TRUE] ELSE h[l]
  <1>1. PICK g : g = CHOOSE h : IsSent(h)
    OBVIOUS
  <1>2. SendKept(c) = New(g)
    <2>1. SendKept(c) = New(CHOOSE h : IsSent(h))
      BY DEF SendKept
    <2>. HIDE DEF IsSent, New
    <2>. QED  BY <1>1, <2>1
  <1>3. \A e, n : Turn("send", kept, e, n) = SendNext(e, kept[n])
    BY DEF Turn
  <1>. HIDE DEF d
  <1>4. ASSUME NEW h PROVE IsLoop(h, "send", kept, d, l) <=> IsSent(h)
    <2>1. [n \in 0 .. l |-> IF n = 0 THEN d ELSE Turn("send", kept, h[n - 1], n)]
             = [n \in 0 .. l |-> IF n = 0 THEN d ELSE SendNext(h[n - 1], kept[n])]
      BY <1>3
    <2>. QED  BY <2>1, Zenon DEF IsLoop
  <1>. HIDE DEF IsSent
  <1>5. IsSent(g)
    BY <1>1, <1>4, LoopsExist, Zenon
  <1>6. IsLoop(g, "send", kept, d, l)
    BY <1>4, <1>5
  <1>7. Steps(g, "send", kept, d, l)
    BY <1>6, LoopSteps
  <1>8. g[0] = d /\ \A n \in 1 .. l : g[n] = SendNext(g[n - 1], kept[n])
    BY <1>3, <1>7 DEF Steps
  <1>. QED  BY <1>2, <1>8 DEF d, SendSteps

(* After n of them, unless the connection was lost: the rest of the stream *)
(* is still to be sent.                                                    *)
Gone(e, p, w, n) ==
    /\ e \in Request /\ e.chain = <<p>> /\ e.freezes = <<>>
    /\ ~e.dead => ~e.bad /\ Rest(e.want, w, Off(n + 1))

LEMMA GoneNext ==
    ASSUME NEW e, NEW p, NEW w \in Seq(Bytes), NEW n \in Nat, Gone(e, p, w, n),
           NEW q \in Seq(Bytes), Len(q) = BufMax, Off(n + 1) + BufMax < Len(w),
           \A j \in 1 .. BufMax : q[j] = w[Off(n + 1) + j]
    PROVE  Gone(SendNext(e, q), p, w, n + 1)
  <1>0. e \in Request
    BY DEF Gone
  <1>1. CASE e.dead
    BY <1>1 DEF SendNext, Gone
  <1>2. CASE ~e.dead
    <2>1. PICK r : r = tds_connection_put_packet(e, q, FALSE)
      OBVIOUS
    <2>2. r \in Request /\ Sent(r, e, q, FALSE)
      BY <1>0, <2>1, PutPacketIs
    <2>3. SendNext(e, q) = r
      BY <1>2, <2>1 DEF SendNext
    <2>4. r.chain = <<p>> /\ r.freezes = <<>>
      BY <2>2 DEF Gone, Sent
    <2>5. ASSUME ~r.dead PROVE ~r.bad /\ Rest(r.want, w, Off((n + 1) + 1))
      <3>1. PICK v \in Seq(Bytes) : v = e.want
        BY <1>0, Parts
      <3>2. PICK x \in Nat, d \in Nat, m \in Nat : x = BufMax /\ d = Off(n + 1) /\ m = Len(w) /\ d + x < m /\ x > 0
        <4>1. n + 1 \in Nat /\ n + 1 > 0
          OBVIOUS
        <4>2. Off(n + 1) \in Nat
          BY <4>1, OffIs
        <4>3. Len(w) \in Nat /\ BufMax \in Nat /\ BufMax > 0
          BY Sizes
        <4>. QED  BY <4>2, <4>3
      <3>3. ~e.bad /\ Len(v) = m - d /\ \A j \in 1 .. (m - d) : v[j] = w[d + j]
        BY <1>2, <3>1, <3>2 DEF Gone, Rest
      <3>4. x <= Len(v) /\ x # Len(v)
        <4>1. x <= m - d /\ x # m - d
          BY <3>2
        <4>. QED  BY <3>3, <4>1
      <3>5. \A j \in 1 .. x : q[j] = v[j]
        <4>1. \A j \in 1 .. x : j \in 1 .. (m - d)
          BY <3>2
        <4>. QED  BY <3>2, <3>3, <4>1
      <3>6. q = SubSeq(v, 1, x) /\ Rest(SubSeq(v, x + 1, Len(v)), v, x)
        BY <3>2, <3>4, <3>5, SendFront
      <3>7. r.want = SubSeq(v, x + 1, Len(v))
        BY <2>2, <2>5, <3>1, <3>2 DEF Sent
      <3>8. r.bad = e.bad
        <4>1. Len(q) <= Len(e.want) /\ q = SubSeq(e.want, 1, Len(q)) /\ Len(q) > 0 /\ Len(q) # Len(e.want)
          BY <3>1, <3>2, <3>4, <3>6
        <4>. QED  BY <2>2, <2>5, <4>1 DEF Sent
      <3>9. PICK t : t = r.want
        OBVIOUS
      <3>10. Len(t) = Len(v) - x /\ \A j \in 1 .. (Len(v) - x) : t[j] = v[x + j]
        <4>1. Rest(t, v, x)
          BY <3>6, <3>7, <3>9
        <4>. QED  BY <4>1 DEF Rest
      <3>11. Off((n + 1) + 1) = d + x
        <4>1. n + 1 \in Nat /\ n + 1 > 0
          OBVIOUS
        <4>. QED  BY <3>2, <4>1, OffIs
      <3>12. Len(t) = m - (d + x)
        <4>1. (m - d) - x = m - (d + x)
          BY <3>2
        <4>. QED  BY <3>3, <3>10, <4>1
      <3>13. ASSUME NEW j \in 1 .. (m - (d + x)) PROVE t[j] = w[(d + x) + j]
        <4>1. j \in 1 .. ((m - d) - x) /\ x + j \in 1 .. (m - d) /\ d + (x + j) = (d + x) + j
          BY <3>2
        <4>2. j \in 1 .. (Len(v) - x)
          BY <3>3, <4>1
        <4>. QED  BY <3>3, <3>10, <4>1, <4>2
      <3>14. Rest(t, w, d + x)
        BY <3>2, <3>12, <3>13 DEF Rest
      <3>. QED  BY <3>3, <3>8, <3>9, <3>11, <3>14
    <2>. QED  BY <2>2, <2>3, <2>4, <2>5 DEF Gone
  <1>. QED  BY <1>1, <1>2

LEMMA SendKeptIs ==
    ASSUME NEW c \in Request, Full(c), c.freezes = <<>>, OutPos(c) <= BufMax + Extra, Begun(c),
           ~c.dead, Sound(c, <<>>, 0)
    PROVE  Good(SendKept(c))
  <1>1. PICK n \in Nat, o \in Nat, d \in Nat, p \in Seq(Bytes), w \in Seq(Bytes) :
          /\ n = Len(c.chain) /\ n > 0 /\ p = Last(c.chain) /\ p = c.chain[n] /\ o = Len(p) /\ o = OutPos(c)
          /\ d = Off(n) /\ End(c) = d + o /\ w = c.want
    BY LastPacket, Parts DEF Full
  <1>2. PICK kept : kept = Front(c.chain)
    OBVIOUS
  <1>3. PICK l \in Nat : l = n - 1 /\ l = Len(kept)
    <2>1. c.chain \in Seq(Seq(Bytes))
      BY Parts
    <2>2. Len(kept) = n - 1
      BY <1>1, <1>2, <2>1 DEF Front
    <2>3. n - 1 \in Nat
      BY <1>1
    <2>. QED  BY <2>2, <2>3
  <1>4. \A i \in 1 .. l : kept[i] = c.chain[i] /\ kept[i] \in Seq(Bytes) /\ Len(kept[i]) = BufMax
    <2>1. c.chain \in Seq(Seq(Bytes))
      BY Parts
    <2>2. \A i \in 1 .. l : kept[i] = c.chain[i] /\ c.chain[i] \in Seq(Bytes)
      BY <1>1, <1>2, <1>3, <2>1 DEF Front
    <2>3. \A i \in 1 .. l : Len(c.chain[i]) = BufMax
      BY <1>1, <1>3 DEF Full
    <2>. QED  BY <2>2, <2>3
  <1>5. ~c.bad /\ Len(w) = d + o
        /\ \A i \in 1 .. n : \A j \in 1 .. Len(c.chain[i]) : c.chain[i][j] = w[Off(i) + j]
    <2>1. Len(w) = d + o + 0 - 0
      BY <1>1 DEF Sound
    <2>. QED  BY <1>1, <2>1 DEF Sound
  <1>6. PICK h : SendSteps(h, c, kept, l)
    BY <1>2, <1>3, SendLoop
  <1>. DEFINE T == {k \in Nat : k <= l /\ ~Gone(h[k], p, w, k)}
  <1>7. Gone(h[0], p, w, 0)
    <2>1. <<p>> \in Seq(Seq(Bytes))
      OBVIOUS
    <2>2. PICK e : e = h[0]
      OBVIOUS
    <2>3. e = [c EXCEPT !.chain = <<p>>]
      BY <1>1, <1>6, <2>2 DEF SendSteps
    <2>4. e \in Request /\ e.chain = <<p>> /\ Same(e, c)
      BY <2>1, <2>3, NewChain
    <2>5. Off(0 + 1) = 0
      <3>1. Off(1) = 0
        BY OffIs
      <3>. QED  BY <3>1
    <2>6. Rest(w, w, 0)
      <3>1. PICK m \in Nat : m = Len(w)
        OBVIOUS
      <3>2. m = m - 0 /\ \A j \in 1 .. (m - 0) : 0 + j = j
        OBVIOUS
      <3>. QED  BY <3>1, <3>2 DEF Rest
    <2>. QED  BY <1>1, <1>5, <2>2, <2>4, <2>5, <2>6 DEF Gone, Same
  <1>8. ASSUME NEW k \in Nat, k < l, Gone(h[k], p, w, k) PROVE Gone(h[k + 1], p, w, k + 1)
    <2>1. k + 1 \in 1 .. l /\ (k + 1) - 1 = k /\ k + 1 \in Nat /\ k + 1 > 0 /\ k + 1 < n /\ k + 1 \in 1 .. n
      BY <1>3, <1>8
    <2>2. h[k + 1] = SendNext(h[k], kept[k + 1])
      BY <1>6, <2>1 DEF SendSteps
    <2>3. kept[k + 1] \in Seq(Bytes) /\ Len(kept[k + 1]) = BufMax /\ kept[k + 1] = c.chain[k + 1]
      BY <1>4, <2>1
    <2>4. \A j \in 1 .. BufMax : kept[k + 1][j] = w[Off(k + 1) + j]
      BY <1>5, <2>1, <2>3
    <2>5. Off(k + 1) + BufMax < Len(w)
      <3>1. Off(k + 1) + BufMax <= d /\ Off(k + 1) \in Nat
        BY <1>1, <2>1, OffGrows, OffIs
      <3>2. o > 0
        BY <1>1, <1>3, <2>1 DEF Begun
      <3>. QED  BY <1>1, <1>5, <3>1, <3>2, Sizes
    <2>. QED  BY <1>8, <2>2, <2>3, <2>4, <2>5, GoneNext
  <1>9. T = {}
    <2>. SUFFICES ASSUME T # {} PROVE FALSE
      OBVIOUS
    <2>1. PICK k \in T : \A j \in T : k <= j
      BY Smallest
    <2>2. k # 0
      BY <1>7
    <2>3. k - 1 \in Nat /\ k - 1 < l /\ Gone(h[k - 1], p, w, k - 1)
      BY <2>1, <2>2
    <2>4. Gone(h[(k - 1) + 1], p, w, (k - 1) + 1)
      BY <1>8, <2>3
    <2>5. (k - 1) + 1 = k
      BY <2>1
    <2>. QED  BY <2>1, <2>4, <2>5
  <1>10. PICK r : r = h[l]
    OBVIOUS
  <1>11. Gone(r, p, w, l) /\ l + 1 = n
    BY <1>1, <1>3, <1>9, <1>10
  <1>12. /\ r \in Request /\ r.chain = <<p>> /\ r.freezes = <<>>
         /\ ~r.dead => ~r.bad /\ Rest(r.want, w, d)
    BY <1>1, <1>11 DEF Gone
  <1>13. Len(r.chain) = 1 /\ r.chain[1] = p /\ Last(r.chain) = p /\ OutPos(r) = o /\ r.chain # <<>>
    BY <1>1, <1>12 DEF Last, OutPos
  <1>14. Off(1) = 0 /\ End(r) = o
    <2>1. Off(1) = 0
      BY OffIs
    <2>. QED  BY <1>1, <1>13, <2>1 DEF End
  <1>15. Shape(r)
    BY <1>1, <1>12, <1>13 DEF Shape, Full
  <1>16. Begun(r) /\ Nested(r)
    <2>1. Len(r.freezes) = 0
      BY <1>12
    <2>. QED  BY <1>12, <1>13, <2>1 DEF Begun, Nested
  <1>17. ASSUME ~r.dead PROVE Sound(r, <<>>, 0)
    <2>1. ~r.bad /\ Len(r.want) = (d + o) - d /\ \A j \in 1 .. ((d + o) - d) : r.want[j] = w[d + j]
      BY <1>5, <1>12, <1>17 DEF Rest
    <2>2. (d + o) - d = o /\ o + 0 - 0 = o
      BY <1>1
    <2>3. Len(r.want) = End(r) + Len(<<>>) - 0
      BY <1>14, <2>1, <2>2
    <2>4. ASSUME NEW j \in 1 .. o PROVE p[j] = r.want[0 + j]
      <3>1. p[j] = w[d + j]
        <4>1. n \in 1 .. n
          BY <1>1
        <4>. QED  BY <1>1, <1>5, <4>1
      <3>2. 0 + j = j
        OBVIOUS
      <3>. QED  BY <2>1, <2>2, <3>1, <3>2
    <2>5. \A i \in 1 .. Len(r.chain) : \A j \in 1 .. Len(r.chain[i]) : r.chain[i][j] = r.want[Off(i) + j]
      <3>1. \A i \in 1 .. 1 : i = 1
        OBVIOUS
      <3>2. Len(r.chain[1]) = o
        BY <1>1, <1>13
      <3>. QED  BY <1>13, <1>14, <2>4, <3>1, <3>2
    <2>6. \A j \in (0 + 1) .. Len(<<>>) : FALSE
      OBVIOUS
    <2>. QED  BY <2>1, <2>3, <2>5, <2>6 DEF Sound
  <1>18. Good(r)
    BY <1>15, <1>16, <1>17 DEF Good
  <1>19. Good([r EXCEPT !.shared = TRUE])
    <2>1. PICK e : e = [r EXCEPT !.shared = TRUE]
      OBVIOUS
    <2>2. e \in Request /\ Like(e, r)
      BY <1>12, <2>1 DEF Request, Like
    <2>. QED  BY <1>18, <2>1, <2>2, LikeGood
  <1>. QED  BY <1>6, <1>10, <1>18, <1>19 DEF SendSteps

----------------------------------------------------------------------------
(* The last freeze ends.                                                   *)
LEMMA LastFreeze ==
    ASSUME NEW c \in Request, c.freezes # <<>>, Nested(c)
    PROVE  /\ Last(c.freezes) \in Freeze /\ Placed(c, Last(c.freezes))
           /\ Last(c.freezes) = c.freezes[Len(c.freezes)]
           /\ Len(c.freezes) \in Nat /\ Len(c.freezes) > 0
           /\ Front(c.freezes) \in Seq(Freeze) /\ Len(Front(c.freezes)) = Len(c.freezes) - 1
           /\ \A k \in 1 .. (Len(c.freezes) - 1) : Front(c.freezes)[k] = c.freezes[k]
  <1>1. PICK s \in Seq(Freeze), n \in Nat : s = c.freezes /\ n = Len(s)
    BY Parts
  <1>2. n > 0
    BY <1>1, EmptyIs
  <1>3. Last(s) = s[n] /\ s[n] \in Freeze /\ n \in 1 .. n
    BY <1>1, <1>2 DEF Last
  <1>4. Front(s) \in Seq(Freeze) /\ Len(Front(s)) = n - 1 /\ \A k \in 1 .. (n - 1) : Front(s)[k] = s[k]
    BY <1>1, <1>2 DEF Front
  <1>5. Placed(c, s[n])
    BY <1>1, <1>3 DEF Nested
  <1>. QED  BY <1>1, <1>2, <1>3, <1>4, <1>5

LEMMA FrontNested ==
    ASSUME NEW c \in Request, c.freezes # <<>>, Nested(c), NEW f, f = Last(c.freezes),
           NEW r \in Request, r.chain # <<>>, r.freezes = Front(c.freezes),
           f.pkt <= Len(r.chain), f.mark <= End(r)
    PROVE  Nested(r)
  <1>1. PICK s \in Seq(Freeze), n \in Nat : s = c.freezes /\ n = Len(s) /\ n > 0
    BY Parts, LastFreeze
  <1>2. PICK t \in Seq(Freeze) : t = Front(s) /\ Len(t) = n - 1 /\ \A k \in 1 .. (n - 1) : t[k] = s[k]
    BY <1>1, LastFreeze
  <1>3. f = s[n] /\ f \in Freeze
    BY <1>1, LastFreeze
  <1>4. PICK m \in Nat, e \in Nat : m = Len(r.chain) /\ e = End(r)
    BY LastPacket
  <1>5. ASSUME NEW k \in 1 .. (n - 1) PROVE Placed(r, s[k])
    <2>1. k \in 1 .. n /\ n \in 1 .. n /\ k < n
      BY <1>1
    <2>2. Placed(c, s[k]) /\ s[k].pkt <= f.pkt /\ s[k].mark + s[k].size_len <= f.mark
      BY <1>1, <1>3, <2>1 DEF Nested
    <2>3. s[k] \in Freeze
      BY <1>1, <2>1
    <2>4. s[k].pkt \in Nat /\ s[k].mark \in Nat /\ s[k].size_len \in Nat /\ f.pkt \in Nat /\ f.mark \in Nat
      BY <1>3, <2>3, Sizes DEF Freeze
    <2>5. s[k].pkt >= 1
      <3>1. Len(c.chain) \in Nat
        BY Parts
      <3>. QED  BY <2>2, <2>4, <3>1 DEF Placed
    <2>6. s[k].pkt \in 1 .. m /\ s[k].mark + s[k].size_len <= e
      BY <1>4, <2>2, <2>4, <2>5
    <2>. QED  BY <1>4, <2>2, <2>6 DEF Placed
  <1>6. ASSUME NEW k \in 1 .. (n - 1), NEW j \in 1 .. (n - 1), k < j
        PROVE  s[k].pkt <= s[j].pkt /\ s[k].mark + s[k].size_len <= s[j].mark
    <2>1. k \in 1 .. n /\ j \in 1 .. n
      BY <1>1
    <2>. QED  BY <1>1, <1>6, <2>1 DEF Nested
  <1>7. t # <<>> => t[1].pkt = 1
    <2>1. ASSUME t # <<>> PROVE t[1].pkt = 1
      <3>1. n - 1 # 0
        BY <1>2, <2>1, EmptyIs
      <3>2. 1 \in 1 .. (n - 1)
        <4>1. n > 0
          BY <1>1
        <4>. QED  BY <3>1, <4>1
      <3>3. s[1].pkt = 1
        BY <1>1 DEF Nested
      <3>. QED  BY <1>2, <3>2, <3>3
    <2>. QED  BY <2>1
  <1>8. r.freezes = t /\ Len(t) = n - 1
    BY <1>1, <1>2
  <1>9. \A k \in 1 .. (n - 1) : Placed(r, t[k])
    BY <1>2, <1>5
  <1>10. \A k, j \in 1 .. (n - 1) : k < j => t[k].pkt <= t[j].pkt /\ t[k].mark + t[k].size_len <= t[j].mark
    BY <1>2, <1>6
  <1>. QED  BY <1>7, <1>8, <1>9, <1>10 DEF Nested

----------------------------------------------------------------------------
(* tds_freeze_abort(): what was written since then is dropped.             *)
Kept(t, s, p, x) ==
    t \in Seq(Seq(Bytes)) /\ Len(t) = p /\ t[p] = x /\ \A i \in 1 .. (p - 1) : t[i] = s[i]

LEMMA KeepFront ==
    ASSUME NEW s \in Seq(Seq(Bytes)), NEW p \in 1 .. Len(s), NEW x \in Seq(Bytes)
    PROVE  Kept(Append(SubSeq(s, 1, p - 1), x), s, p, x)
  <1>1. PICK m \in Nat : m = p - 1 /\ m <= Len(s) /\ p = m + 1
    OBVIOUS
  <1>2. SubSeq(s, 1, m) \in Seq(Seq(Bytes)) /\ Part(SubSeq(s, 1, m), s, 1, m)
    BY <1>1, PartIs
  <1>3. PICK q \in Seq(Seq(Bytes)) : q = SubSeq(s, 1, m)
    BY <1>2
  <1>4. Len(q) = m /\ \A i \in 1 .. m : q[i] = s[i]
    <2>1. Part(q, s, 1, m)
      BY <1>2, <1>3
    <2>. QED  BY <1>1, <2>1 DEF Part
  <1>5. PICK t : t = Append(q, x)
    OBVIOUS
  <1>6. t \in Seq(Seq(Bytes)) /\ Len(t) = m + 1 /\ t[m + 1] = x /\ \A i \in 1 .. m : t[i] = q[i]
    BY <1>4, <1>5
  <1>7. Kept(t, s, p, x)
    BY <1>1, <1>4, <1>6 DEF Kept
  <1>. QED  BY <1>1, <1>3, <1>5, <1>7

LEMMA AbortIs ==
    ASSUME NEW c, Good(c), ~c.dead, c.freezes # <<>>
    PROVE  Good(tds_freeze_abort(c))
  <1>0. c \in Request /\ Full(c) /\ Shape(c) /\ Nested(c) /\ Sound(c, <<>>, 0)
    BY DEF Good, Shape
  <1>1. PICK f \in Freeze : f = Last(c.freezes) /\ Placed(c, f)
    BY <1>0, LastFreeze
  <1>2. PICK p \in Nat, q \in Nat, m \in Nat, l \in Nat : p = f.pkt /\ q = f.pos /\ m = f.mark /\ l = f.size_len
    BY Sizes DEF Freeze
  <1>3. PICK s \in Seq(Seq(Bytes)), w \in Seq(Bytes) : s = c.chain /\ w = c.want
    BY <1>0, Parts
  <1>4. p \in 1 .. Len(s) /\ q \in 0 .. Len(s[p])
    BY <1>0, <1>1, <1>2, <1>3, PosInPacket
  <1>5. m = Off(p) + q /\ q <= BufMax /\ (p > 1 => q > 0) /\ m <= Len(w) /\ ~c.bad
    <2>1. m = Off(p) + q /\ q <= BufMax /\ (p > 1 => q > 0) /\ m + l <= End(c)
      BY <1>1, <1>2 DEF Placed
    <2>2. Len(w) = End(c) + 0 - 0 /\ ~c.bad /\ End(c) \in Nat
      BY <1>0, <1>3, LastPacket DEF Sound, Full
    <2>. QED  BY <1>2, <2>1, <2>2
  <1>6. PICK x : x = SubSeq(s[p], 1, q)
    OBVIOUS
  <1>7. x \in Seq(Bytes) /\ Len(x) = q /\ \A j \in 1 .. q : x[j] = s[p][j]
    <2>1. s[p] \in Seq(Bytes) /\ q <= Len(s[p])
      BY <1>4
    <2>2. SubSeq(s[p], 1, q) \in Seq(Bytes) /\ Part(SubSeq(s[p], 1, q), s[p], 1, q)
      BY <2>1, PartIs
    <2>3. x \in Seq(Bytes) /\ Part(x, s[p], 1, q)
      BY <1>6, <2>2
    <2>. QED  BY <2>3 DEF Part
  <1>8. PICK t : t = Append(SubSeq(s, 1, p - 1), x)
    OBVIOUS
  <1>9. t \in Seq(Seq(Bytes)) /\ Len(t) = p /\ t[p] = x /\ \A i \in 1 .. (p - 1) : t[i] = s[i]
    <2>1. Kept(t, s, p, x)
      BY <1>4, <1>7, <1>8, KeepFront
    <2>. QED  BY <2>1 DEF Kept
  <1>10. PICK v : v = SubSeq(w, 1, m)
    OBVIOUS
  <1>11. v \in Seq(Bytes) /\ Len(v) = m /\ \A j \in 1 .. m : v[j] = w[j]
    <2>1. SubSeq(w, 1, m) \in Seq(Bytes) /\ Part(SubSeq(w, 1, m), w, 1, m)
      BY <1>5, PartIs
    <2>2. v \in Seq(Bytes) /\ Part(v, w, 1, m)
      BY <1>10, <2>1
    <2>. QED  BY <2>2 DEF Part
  <1>12. PICK g : g = Front(c.freezes)
    OBVIOUS
  <1>13. g \in Seq(Freeze)
    BY <1>0, <1>12, LastFreeze
  <1>14. PICK r : r = Renew([c EXCEPT !.chain = t], g, v)
    OBVIOUS
  <1>15. tds_freeze_abort(c) = r
    BY <1>1, <1>2, <1>3, <1>6, <1>8, <1>10, <1>12, <1>14 DEF tds_freeze_abort, Renew
  <1>16. r \in Request /\ r.chain = t /\ r.freezes = g /\ r.want = v /\ r.dead = c.dead /\ r.bad = c.bad
    <2>1. PICK e : e = [c EXCEPT !.chain = t]
      OBVIOUS
    <2>2. e \in Request /\ e.chain = t /\ Same(e, c)
      BY <1>0, <1>9, <2>1, NewChain
    <2>3. r = Renew(e, g, v)
      BY <1>14, <2>1
    <2>. QED  BY <1>11, <1>13, <2>2, <2>3, NewFields DEF Same
  <1>17. p > 0 /\ Off(p) \in Nat
    <2>1. p > 0
      BY <1>2, <1>4
    <2>. QED  BY <2>1, OffIs
  <1>18. OutPos(r) = q /\ End(r) = m /\ t # <<>>
    <2>1. t # <<>>
      BY <1>9, <1>17
    <2>2. Last(t) = x
      BY <1>9 DEF Last
    <2>. QED  BY <1>5, <1>7, <1>9, <1>16, <2>1, <2>2 DEF OutPos, End
  <1>19. \A i \in 1 .. (p - 1) : t[i] = s[i] /\ i \in 1 .. (Len(s) - 1)
    <2>1. Len(s) \in Nat
      OBVIOUS
    <2>2. \A i \in 1 .. (p - 1) : i \in 1 .. (Len(s) - 1)
      BY <1>2, <1>4, <2>1
    <2>. QED  BY <1>9, <2>2
  <1>20. Full(r)
    BY <1>0, <1>3, <1>9, <1>16, <1>18, <1>19 DEF Full
  <1>21. Nested(r)
    <2>1. f.pkt <= Len(r.chain) /\ f.mark <= End(r)
      BY <1>2, <1>9, <1>16, <1>18
    <2>. QED  BY <1>0, <1>1, <1>12, <1>16, <1>18, <2>1, FrontNested
  <1>22. Shape(r)
    <2>1. q <= BufMax + Extra
      BY <1>2, <1>5, Sizes
    <2>2. ASSUME g = <<>> PROVE p = 1
      <3>1. Len(c.freezes) \in Nat /\ Len(c.freezes) - 1 = 0
        BY <1>0, <1>12, <1>13, <2>2, EmptyIs, LastFreeze
      <3>2. Len(c.freezes) = 1
        BY <3>1
      <3>3. f = c.freezes[1]
        BY <1>0, <1>1, <3>2, LastFreeze
      <3>. QED  BY <1>0, <1>2, <3>3 DEF Nested
    <2>. QED  BY <1>9, <1>16, <1>18, <1>20, <2>1, <2>2 DEF Shape
  <1>23. Begun(r)
    BY <1>5, <1>9, <1>16, <1>18 DEF Begun
  <1>24. ASSUME NEW i \in 1 .. p, NEW j \in 1 .. Len(t[i]) PROVE t[i][j] = v[Off(i) + j]
    <2>1. Off(i) + j \in 1 .. m
      BY <1>9, <1>16, <1>18, <1>20, PlacesAreInStream
    <2>2. CASE i = p
      <3>1. j \in 1 .. q /\ j \in 1 .. Len(s[p])
        <4>1. PICK o \in Nat : o = Len(s[p]) /\ q <= o
          BY <1>2, <1>4
        <4>2. j \in 1 .. q
          BY <1>7, <1>9, <2>2
        <4>. QED  BY <4>1, <4>2
      <3>2. s[p][j] = w[Off(p) + j]
        BY <1>0, <1>3, <1>4, <3>1 DEF Sound
      <3>. QED  BY <1>7, <1>9, <1>11, <2>1, <2>2, <3>1, <3>2
    <2>3. CASE i # p
      <3>1. i \in 1 .. (p - 1)
        BY <1>2, <2>3
      <3>2. t[i] = s[i] /\ i \in 1 .. Len(s)
        <4>1. Len(s) \in Nat
          OBVIOUS
        <4>2. i \in 1 .. (Len(s) - 1) /\ t[i] = s[i]
          BY <1>19, <3>1
        <4>. QED  BY <4>1, <4>2
      <3>3. s[i][j] = w[Off(i) + j]
        BY <1>0, <1>3, <3>2 DEF Sound
      <3>. QED  BY <1>11, <2>1, <3>2, <3>3
    <2>. QED  BY <2>2, <2>3
  <1>25. Sound(r, <<>>, 0)
    <2>1. Len(r.want) = End(r) + Len(<<>>) - 0
      BY <1>11, <1>16, <1>18
    <2>2. \A j \in (0 + 1) .. Len(<<>>) : FALSE
      OBVIOUS
    <2>. QED  BY <1>5, <1>9, <1>16, <1>24, <2>1, <2>2 DEF Sound
  <1>. QED  BY <1>15, <1>21, <1>22, <1>23, <1>25 DEF Good

----------------------------------------------------------------------------
(* tds_flush_packet(): the last packet is sent, and there is nothing left. *)
LEMMA FinalIs ==
    ASSUME NEW c, Shape(c), c.freezes = <<>>, ~c.dead, Sound(c, <<>>, 0), OutPos(c) \in 1 .. BufMax
    PROVE  Good(tds_write_packet(c, TRUE))
  <1>0. c \in Request /\ Full(c) /\ Len(c.chain) = 1 /\ BufMax \in Nat
    BY Sizes DEF Shape
  <1>1. PICK p \in Seq(Bytes), n \in Nat, w \in Seq(Bytes) :
          p = Last(c.chain) /\ n = Len(p) /\ n > 0 /\ n <= BufMax /\ p = c.chain[1] /\ w = c.want
    <2>1. OutPos(c) > 0 /\ OutPos(c) <= BufMax
      BY <1>0
    <2>. QED  BY <1>0, <2>1, LastPacket, Parts DEF Full, OutPos
  <1>2. Off(1) = 0
    BY OffIs
  <1>3. Len(w) = n /\ ~c.bad /\ \A j \in 1 .. n : p[j] = w[j]
    <2>1. End(c) = 0 + n
      BY <1>0, <1>1, <1>2 DEF End, OutPos
    <2>2. Len(w) = End(c) + 0 - 0 /\ ~c.bad
      BY <1>1 DEF Sound
    <2>3. ASSUME NEW j \in 1 .. n PROVE p[j] = w[j]
      <3>1. p[j] = w[0 + j]
        BY <1>0, <1>1, <1>2 DEF Sound
      <3>2. 0 + j = j
        OBVIOUS
      <3>. QED  BY <3>1, <3>2
    <2>. QED  BY <2>1, <2>2, <2>3
  <1>4. p = w
    BY <1>1, <1>3, SameSeq
  <1>5. SubSeq(p, 1, n) = p /\ SubSeq(p, BufMax + 1, n) = <<>> /\ SubSeq(w, n + 1, n) = <<>>
    <2>1. BufMax + 1 > n /\ n + 1 > n
      BY <1>0, <1>1
    <2>2. SubSeq(p, 1, n) = p
      BY <1>1
    <2>3. SubSeq(p, BufMax + 1, n) = <<>> /\ SubSeq(w, n + 1, n) = <<>>
      BY <1>0, <2>1
    <2>. QED  BY <2>2, <2>3
  <1>6. PICK e : e = [c EXCEPT !.chain = <<<<>>>>]
    OBVIOUS
  <1>7. PICK r : r = tds_connection_put_packet(e, p, TRUE)
    OBVIOUS
  <1>8. tds_write_packet(c, TRUE) = r
    <2>1. (IF Len(p) > BufMax THEN BufMax ELSE Len(p)) = n
      BY <1>0, <1>1
    <2>. QED  BY <1>1, <1>5, <1>6, <1>7, <2>1 DEF tds_write_packet
  <1>9. e \in Request /\ e.chain = <<<<>>>> /\ Same(e, c)
    <2>1. <<>> \in Seq(Bytes)
      OBVIOUS
    <2>2. <<<<>>>> \in Seq(Seq(Bytes))
      BY <2>1
    <2>. QED  BY <1>0, <1>6, <2>2, NewChain
  <1>10. r \in Request /\ Sent(r, e, p, TRUE)
    BY <1>7, <1>9, PutPacketIs
  <1>11. r.chain = <<<<>>>> /\ r.freezes = <<>>
    BY <1>9, <1>10 DEF Sent, Same
  <1>12. Len(r.chain) = 1 /\ r.chain[1] = <<>> /\ OutPos(r) = 0 /\ End(r) = 0 /\ r.chain # <<>>
    <2>1. Len(r.chain) = 1 /\ r.chain[1] = <<>> /\ OutPos(r) = 0 /\ r.chain # <<>>
      BY <1>11 DEF OutPos, Last
    <2>. QED  BY <1>2, <2>1 DEF End
  <1>13. Shape(r)
    <2>1. 0 <= BufMax + Extra
      BY Sizes
    <2>. QED  BY <1>10, <1>12, <2>1 DEF Shape, Full
  <1>14. Begun(r) /\ Nested(r)
    <2>1. Len(r.freezes) = 0
      BY <1>11
    <2>. QED  BY <1>11, <1>12, <2>1 DEF Begun, Nested
  <1>15. ASSUME ~r.dead PROVE Sound(r, <<>>, 0)
    <2>1. e.want = w /\ e.bad = c.bad
      BY <1>1, <1>9 DEF Same
    <2>2. r.want = <<>>
      <3>1. r.want = SubSeq(w, n + 1, n)
        BY <1>1, <1>3, <1>10, <1>15, <2>1 DEF Sent
      <3>. QED  BY <1>5, <3>1
    <2>3. ~r.bad
      <3>0. p = SubSeq(w, 1, Len(p))
        <4>1. SubSeq(w, 1, Len(p)) = SubSeq(p, 1, n)
          BY <1>1, <1>4
        <4>. QED  BY <1>5, <4>1
      <3>1. Len(p) <= Len(w) /\ Len(p) > 0 /\ Len(p) = Len(w)
        <4>1. n <= n /\ n > 0
          BY <1>1
        <4>2. Len(p) = n /\ Len(w) = n
          BY <1>1, <1>3
        <4>. QED  BY <4>1, <4>2
      <3>. QED  BY <1>3, <1>10, <1>15, <2>1, <3>0, <3>1 DEF Sent
    <2>4. Len(r.want) = End(r) + Len(<<>>) - 0
      BY <1>12, <2>2
    <2>5. \A i \in 1 .. Len(r.chain) : \A j \in 1 .. Len(r.chain[i]) : FALSE
      BY <1>12
    <2>6. \A j \in (0 + 1) .. Len(<<>>) : FALSE
      OBVIOUS
    <2>. QED  BY <2>3, <2>4, <2>5, <2>6 DEF Sound
  <1>. QED  BY <1>8, <1>13, <1>14, <1>15 DEF Good

LEMMA FlushIs ==
    ASSUME NEW c, Good(c), ~c.dead, c.freezes = <<>>, c.want # <<>>
    PROVE  Good(tds_flush_packet(c))
  <1>0. c \in Request /\ Shape(c) /\ Full(c) /\ Sound(c, <<>>, 0) /\ Len(c.chain) = 1
    BY DEF Good, Shape
  <1>1. PICK o \in Nat : o = OutPos(c) /\ o <= BufMax + Extra /\ End(c) = o
    <2>1. Off(1) = 0
      BY OffIs
    <2>2. OutPos(c) \in Nat /\ End(c) = 0 + OutPos(c) /\ OutPos(c) <= BufMax + Extra
      BY <1>0, <2>1, LastPacket DEF Full, Shape
    <2>. QED  BY <2>2
  <1>2. o > 0
    <2>1. Len(c.want) = o
      <3>1. Len(c.want) = o + 0 - 0
        BY <1>0, <1>1 DEF Sound
      <3>. QED  BY <3>1
    <2>2. c.want \in Seq(Bytes)
      BY <1>0, Parts
    <2>3. Len(c.want) # 0
      BY <2>2, EmptyIs
    <2>. QED  BY <1>1, <2>1, <2>3
  <1>3. PICK r : r = IF OutPos(c) > BufMax THEN tds_write_packet(c, FALSE) ELSE c
    OBVIOUS
  <1>4. Shape(r) /\ Sound(r, <<>>, 0) /\ r.freezes = <<>> /\ OutPos(r) \in 1 .. BufMax
    <2>1. CASE o > BufMax
      <3>1. r = tds_write_packet(c, FALSE)
        BY <1>1, <1>3, <2>1
      <3>2. <<>> \in Seq(Bytes) /\ Len(<<>>) = 0 /\ 0 \in Nat /\ 0 <= Len(<<>>)
        OBVIOUS
      <3>3. OutPos(c) >= BufMax /\ OutPos(c) > BufMax
        BY <1>1, <2>1, Sizes
      <3>4. Shape(r) /\ Sound(r, <<>>, 0) /\ Moved(r, c, 0) /\ OutPos(r) = o - BufMax
        BY <1>0, <1>1, <3>1, <3>2, <3>3, CutIs
      <3>5. o - BufMax \in 1 .. BufMax
        BY <1>1, <2>1, Sizes
      <3>. QED  BY <3>4, <3>5 DEF Moved
    <2>2. CASE ~(o > BufMax)
      <3>1. r = c
        BY <1>1, <1>3, <2>2
      <3>2. o \in 1 .. BufMax
        BY <1>1, <1>2, <2>2, Sizes
      <3>. QED  BY <1>0, <1>1, <3>1, <3>2
    <2>. QED  BY <2>1, <2>2
  <1>5. CASE r.dead
    <2>1. tds_flush_packet(c) = r
      BY <1>3, <1>5 DEF tds_flush_packet
    <2>. QED  BY <1>4, <1>5, <2>1 DEF Good
  <1>6. CASE ~r.dead
    <2>1. tds_flush_packet(c) = tds_write_packet(r, TRUE)
      BY <1>3, <1>6 DEF tds_flush_packet
    <2>. QED  BY <1>4, <1>6, <2>1, FinalIs
  <1>. QED  BY <1>5, <1>6

----------------------------------------------------------------------------
(* tds_freeze_close(): the length that was counted is the one that was     *)
(* meant.                                                                  *)
Filled(f, w, size) == [i \in DOMAIN w |-> Meant(i, f, size, w[i])]

LEMMA DigitsInBytes ==
    ASSUME NEW size \in Nat, NEW l \in Nat, NEW k \in 1 .. l
    PROVE  Digits(size, l)[k] \in Bytes
  <1>1. PICK g : Divided(g, size, l) /\ Digits(size, l) = [i \in 1 .. l |-> g[i - 1] % Base]
    BY DigitsAre
  <1>2. k - 1 \in 0 .. l
    OBVIOUS
  <1>3. g[k - 1] \in Nat
    BY <1>1, <1>2 DEF Divided
  <1>4. g[k - 1] % Base \in 0 .. (Base - 1)
    BY <1>3, Sizes
  <1>5. \A i \in 0 .. (Base - 1) : i \in 0 .. (Base + Data - 1)
    BY Sizes
  <1>. QED  BY <1>1, <1>4, <1>5 DEF Bytes

LEMMA FilledIs ==
    ASSUME NEW f \in Freeze, NEW w \in Seq(Bytes), NEW size \in Nat
    PROVE  /\ Filled(f, w, size) \in Seq(Bytes) /\ Len(Filled(f, w, size)) = Len(w)
           /\ \A i \in 1 .. Len(w) : Filled(f, w, size)[i] = Meant(i, f, size, w[i])
  <1>1. PICK n \in Nat, m \in Nat, l \in Nat : n = Len(w) /\ m = f.mark /\ l = f.size_len
    <2>1. f.mark \in Nat /\ f.size_len \in Nat
      BY Sizes DEF Freeze
    <2>. QED  BY <2>1
  <1>2. ASSUME NEW i \in 1 .. n PROVE Meant(i, f, size, w[i]) \in Bytes
    <2>1. CASE i \in m + 1 .. m + l
      <3>1. i - m \in 1 .. l
        BY <2>1
      <3>2. Digits(size, l)[i - m] \in Bytes
        BY <3>1, DigitsInBytes
      <3>. QED  BY <1>1, <2>1, <3>2 DEF Meant
    <2>2. CASE ~(i \in m + 1 .. m + l)
      <3>1. w[i] \in Bytes
        BY <1>1
      <3>. QED  BY <1>1, <2>2, <3>1 DEF Meant
    <2>. QED  BY <2>1, <2>2
  <1>3. Filled(f, w, size) = [i \in 1 .. n |-> Meant(i, f, size, w[i])]
    BY <1>1 DEF Filled
  <1>. QED  BY <1>1, <1>2, <1>3

LEMMA CloseIs ==
    ASSUME NEW c, Good(c), ~c.dead, c.freezes # <<>>, NEW f, f = Last(c.freezes), NEW size \in Nat,
           NEW v \in Request, v.chain = c.chain, v.freezes = c.freezes, ~v.dead, v.bad = c.bad,
           v.want = Filled(f, c.want, size)
    PROVE  Good(tds_freeze_close_len(v, size))
  <1>0. c \in Request /\ Full(c) /\ Shape(c) /\ Nested(c) /\ Begun(c) /\ Sound(c, <<>>, 0)
    BY DEF Good, Shape
  <1>1. f \in Freeze /\ Placed(c, f)
    BY <1>0, LastFreeze
  <1>2. PICK s \in Seq(Seq(Bytes)), w \in Seq(Bytes) : s = c.chain /\ w = c.want
    BY <1>0, Parts
  <1>3. OutPos(v) = OutPos(c) /\ End(v) = End(c) /\ Full(v) /\ Placed(v, f)
    BY <1>0, <1>1 DEF OutPos, End, Full, Placed
  <1>4. PICK u : u = IF f.size_len = 0 THEN v ELSE tds_freeze_update_size(v, f, size)
    OBVIOUS
  <1>5. PICK t : Updated(t, s, f, size) /\ u = [v EXCEPT !.chain = t]
    <2>1. CASE f.size_len = 0
      <3>1. v = [v EXCEPT !.chain = s]
        BY <1>2 DEF Request
      <3>2. PICK m \in Nat : m = f.mark
        BY <1>1 DEF Freeze
      <3>3. \A a \in Nat : ~(a \in m + 1 .. m + 0)
        OBVIOUS
      <3>4. \A a \in Nat : \A old : Meant(a, f, size, old) = old
        BY <2>1, <3>2, <3>3 DEF Meant
      <3>5. \A i \in 1 .. Len(s) : \A j \in 1 .. Len(s[i]) : Off(i) + j \in Nat
        <4>. SUFFICES ASSUME NEW i \in 1 .. Len(s), NEW j \in 1 .. Len(s[i]) PROVE Off(i) + j \in Nat
          OBVIOUS
        <4>1. Off(i) + j \in 1 .. End(c) /\ End(c) \in Nat
          BY <1>0, <1>2, PlacesAreInStream, LastPacket DEF Full
        <4>. QED  BY <4>1
      <3>6. Updated(s, s, f, size)
        BY <3>4, <3>5 DEF Updated, Alike
      <3>. QED  BY <1>4, <2>1, <3>1, <3>6
    <2>2. CASE f.size_len # 0
      BY <1>1, <1>2, <1>3, <1>4, <2>2, UpdateIs
    <2>. QED  BY <2>1, <2>2
  <1>6. Len(t) = Len(s) /\ t \in Seq(Seq(Bytes)) /\ \A i \in 1 .. Len(s) : Len(t[i]) = Len(s[i])
    BY <1>5 DEF Updated, Alike
  <1>7. u \in Request /\ u.chain = t /\ Same(u, v)
    BY <1>5, <1>6, NewChain
  <1>8. PICK g : g = Front(c.freezes)
    OBVIOUS
  <1>9. g \in Seq(Freeze)
    BY <1>0, <1>8, LastFreeze
  <1>10. PICK r : r = [u EXCEPT !.freezes = g]
    OBVIOUS
  <1>11. /\ r \in Request /\ r.chain = t /\ r.freezes = g /\ ~r.dead /\ r.bad = c.bad
         /\ r.want = Filled(f, w, size)
    <2>1. r \in Request /\ r.chain = u.chain /\ r.freezes = g /\ r.dead = u.dead /\ r.bad = u.bad /\ r.want = u.want
      BY <1>7, <1>9, <1>10 DEF Request
    <2>. QED  BY <1>2, <1>7, <2>1 DEF Same
  <1>12. tds_freeze_close_len(v, size) = IF g # <<>> THEN r ELSE SendKept(r)
    <2>1. r = [u EXCEPT !.freezes = Front(@)]
      <3>1. u.freezes = c.freezes
        BY <1>7 DEF Same
      <3>. QED  BY <1>8, <1>10, <3>1
    <2>. QED  BY <1>4, <1>11, <2>1 DEF tds_freeze_close_len
  <1>13. PICK n \in Nat, o \in Nat, e \in Nat :
           /\ n = Len(s) /\ n > 0 /\ o = OutPos(c) /\ o = Len(s[n]) /\ e = End(c) /\ e = Off(n) + o
           /\ o <= BufMax + Extra
    BY <1>0, <1>2, LastPacket DEF Full, Shape
  <1>14. OutPos(r) = o /\ End(r) = e /\ Len(r.chain) = n /\ r.chain # <<>>
    <2>1. n \in 1 .. n
      BY <1>13
    <2>2. Last(t) = t[n] /\ Len(t[n]) = o /\ t # <<>>
      BY <1>6, <1>13, <2>1 DEF Last
    <2>. QED  BY <1>6, <1>11, <1>13, <2>2 DEF OutPos, End
  <1>15. Full(r) /\ Begun(r)
    <2>1. \A i \in 1 .. (n - 1) : i \in 1 .. n /\ Len(s[i]) = BufMax
      BY <1>0, <1>2, <1>13 DEF Full
    <2>2. \A i \in 1 .. (n - 1) : Len(t[i]) = BufMax
      BY <1>6, <1>13, <2>1
    <2>3. Begun(r)
      BY <1>0, <1>2, <1>13, <1>14 DEF Begun
    <2>. QED  BY <1>11, <1>14, <2>2, <2>3 DEF Full
  <1>16. Nested(r)
    <2>1. PICK p \in Nat, m \in Nat, l \in Nat :
             p = f.pkt /\ m = f.mark /\ l = f.size_len /\ p <= n /\ m + l <= e
      <3>1. f.pkt \in Nat /\ f.mark \in Nat /\ f.size_len \in Nat
        BY <1>1, Sizes DEF Freeze
      <3>2. f.pkt \in 1 .. n /\ f.mark + f.size_len <= e
        BY <1>1, <1>2, <1>13 DEF Placed
      <3>3. f.pkt <= n
        BY <1>13, <3>2
      <3>. QED  BY <3>1, <3>2, <3>3
    <2>2. m <= e
      BY <1>13, <2>1
    <2>3. f.pkt <= Len(r.chain) /\ f.mark <= End(r)
      BY <1>14, <2>1, <2>2
    <2>. QED  BY <1>0, <1>8, <1>11, <1>14, <2>3, FrontNested
  <1>17. Sound(r, <<>>, 0)
    <2>1. Len(w) = e /\ ~c.bad
      <3>1. Len(w) = e + 0 - 0 /\ ~c.bad
        BY <1>0, <1>2, <1>13 DEF Sound
      <3>. QED  BY <1>13, <3>1
    <2>2. Len(r.want) = e /\ \A a \in 1 .. e : r.want[a] = Meant(a, f, size, w[a])
      BY <1>1, <1>11, <2>1, FilledIs
    <2>3. ASSUME NEW i \in 1 .. n, NEW j \in 1 .. Len(t[i]) PROVE t[i][j] = r.want[Off(i) + j]
      <3>1. i \in 1 .. Len(s) /\ j \in 1 .. Len(s[i])
        BY <1>6, <1>13
      <3>2. Off(i) + j \in 1 .. e
        BY <1>0, <1>2, <1>13, <3>1, PlacesAreInStream
      <3>3. s[i][j] = w[Off(i) + j]
        BY <1>0, <1>2, <3>1 DEF Sound
      <3>4. t[i][j] = Meant(Off(i) + j, f, size, s[i][j])
        BY <1>5, <3>1 DEF Updated
      <3>. QED  BY <2>2, <3>2, <3>3, <3>4
    <2>4. Len(r.want) = End(r) + Len(<<>>) - 0
      BY <1>13, <1>14, <2>2
    <2>5. \A j \in (0 + 1) .. Len(<<>>) : FALSE
      OBVIOUS
    <2>. QED  BY <1>11, <1>14, <2>1, <2>3, <2>4, <2>5 DEF Sound
  <1>18. CASE g # <<>>
    <2>1. Shape(r)
      BY <1>11, <1>13, <1>14, <1>15, <1>18 DEF Shape
    <2>. QED  BY <1>12, <1>15, <1>16, <1>17, <1>18, <2>1 DEF Good
  <1>19. CASE g = <<>>
    BY <1>11, <1>12, <1>13, <1>14, <1>15, <1>17, <1>19, SendKeptIs
  <1>. QED  BY <1>18, <1>19

----------------------------------------------------------------------------
(* The actions.                                                            *)
LEMMA FateIs ==
    ASSUME NEW luck \in Fate
    PROVE  luck \in 0 .. MaxChain + 1
  BY Sizes DEF Fate

LEMMA BecomesGood ==
    ASSUME NEW c, Good(c), Becomes(c)
    PROVE  IInv'
  <1>1. c \in Request /\ 0 \in 0 .. MaxChain + 1
    BY Sizes DEF Good, Shape
  <1>2. PICK r : r = With(c, 0)
    OBVIOUS
  <1>3. r \in Request /\ Like(r, c)
    BY <1>1, <1>2, WithIs
  <1>4. Good(r)
    BY <1>3, LikeGood
  <1>5. b' = r
    BY <1>2 DEF Becomes
  <1>. QED  BY <1>4, <1>5 DEF IInv

(* The request before a call, with its luck.                               *)
LEMMA WithGood ==
    ASSUME NEW c, Good(c), NEW luck \in Fate
    PROVE  Good(With(c, luck)) /\ Like(With(c, luck), c)
  <1>1. c \in Request
    BY DEF Good, Shape
  <1>2. With(c, luck) \in Request /\ Like(With(c, luck), c)
    BY <1>1, FateIs, WithIs
  <1>. QED  BY <1>2, LikeGood

(* Data that are to be written.                                            *)
LEMMA FreshIs ==
    ASSUME IInv, NEW n \in Nat
    PROVE  Fresh(n) \in Seq(Bytes) /\ Len(Fresh(n)) = n
  <1>1. b.datum \in 0 .. Data - 1
    BY Parts DEF IInv, Good, Shape
  <1>2. ASSUME NEW i \in 1 .. n PROVE Base + ((b.datum + i - 1) % Data) \in Bytes
    <2>1. b.datum + i - 1 \in Nat
      BY <1>1, Sizes
    <2>2. (b.datum + i - 1) % Data \in 0 .. (Data - 1)
      BY <2>1, Sizes
    <2>3. \A k \in 0 .. (Data - 1) : Base + k \in 0 .. (Base + Data - 1)
      BY Sizes
    <2>. QED  BY <2>2, <2>3 DEF Bytes
  <1>. QED  BY <1>2 DEF Fresh

LEMMA WritesIs ==
    ASSUME IInv, ~b.dead, NEW n \in Nat, NEW luck \in Fate
    PROVE  LET c == With(Writes(n), luck)
           IN  /\ Shape(c) /\ Begun(c) /\ ~c.dead /\ Sound(c, Fresh(n), 0)
               /\ c.chain = b.chain /\ c.freezes = b.freezes
  <1>0. b \in Request /\ Good(b) /\ Shape(b) /\ Begun(b) /\ Sound(b, <<>>, 0)
    BY DEF IInv, Good, Shape
  <1>1. PICK x \in Seq(Bytes) : x = Fresh(n)
    BY FreshIs
  <1>2. PICK w \in Seq(Bytes) : w = b.want \o x
    <2>1. b.want \in Seq(Bytes)
      BY <1>0, Parts
    <2>. QED  BY <2>1, ConcatIs
  <1>3. PICK d \in 0 .. Data - 1 : d = (b.datum + n) % Data
    <2>1. b.datum \in 0 .. Data - 1
      BY <1>0, Parts
    <2>2. b.datum + n \in Nat
      BY <2>1, Sizes
    <2>. QED  BY <2>2, Sizes
  <1>4. PICK e : e = Writes(n)
    OBVIOUS
  <1>5. e = [b EXCEPT !.want = w, !.datum = d]
    BY <1>1, <1>2, <1>3, <1>4 DEF Writes
  <1>6. /\ e \in Request /\ e.chain = b.chain /\ e.freezes = b.freezes /\ e.dead = b.dead
        /\ e.bad = b.bad /\ e.want = w
    BY <1>0, <1>5 DEF Request
  <1>7. PICK c : c = With(e, luck)
    OBVIOUS
  <1>8. c \in Request /\ Like(c, e)
    BY <1>6, <1>7, FateIs, WithIs
  <1>9. /\ c.chain = b.chain /\ c.freezes = b.freezes /\ c.dead = b.dead
        /\ c.bad = b.bad /\ c.want = b.want \o x
    BY <1>2, <1>6, <1>8 DEF Like
  <1>10. Shape(c) /\ Begun(c)
    BY <1>0, <1>8, <1>9 DEF Shape, Full, Begun, OutPos
  <1>11. Sound(c, x, 0)
    BY <1>0, <1>9, <1>10, ToWrite
  <1>. QED  BY <1>1, <1>4, <1>7, <1>9, <1>10, <1>11

(* Written, it is the request again.                                       *)
LEMMA WrittenGood ==
    ASSUME IInv, ~b.dead, NEW c, Shape(c), c.chain = b.chain, c.freezes = b.freezes,
           NEW n \in Nat, NEW r, Shape(r), Begun(r), Moved(r, c, n), NEW x \in Seq(Bytes),
           Len(x) = n, Sound(r, x, n)
    PROVE  Good(r)
  <1>1. b \in Request /\ c \in Request /\ r \in Request /\ Full(b) /\ Full(c) /\ Full(r) /\ Nested(b)
    BY DEF IInv, Good, Shape
  <1>2. Sound(r, <<>>, 0)
    BY AllWritten
  <1>3. Nested(r)
    <2>1. CASE c.freezes = <<>>
      <3>1. r.freezes = <<>> /\ Len(r.freezes) = 0
        BY <2>1 DEF Moved
      <3>. QED  BY <3>1 DEF Nested
    <2>2. CASE c.freezes # <<>>
      <3>1. r.freezes = b.freezes /\ Len(r.chain) >= Len(b.chain) /\ End(r) = End(b) + n
        BY <2>2 DEF Moved, End, OutPos
      <3>2. Len(b.chain) <= Len(r.chain) /\ End(b) <= End(r) /\ b.chain # <<>> /\ r.chain # <<>>
        <4>1. Len(r.chain) \in Nat /\ Len(b.chain) \in Nat /\ End(b) \in Nat
          BY <1>1, LastPacket DEF Full
        <4>. QED  BY <1>1, <3>1, <4>1 DEF Full
      <3>3. ASSUME NEW k \in 1 .. Len(b.freezes) PROVE Placed(r, b.freezes[k])
        <4>1. b.freezes[k] \in Freeze /\ Placed(b, b.freezes[k])
          BY <1>1, Parts DEF Nested
        <4>. QED  BY <1>1, <3>2, <4>1, PlacedGrows
      <3>. QED  BY <1>1, <3>1, <3>3 DEF Nested
    <2>. QED  BY <2>1, <2>2
  <1>. QED  BY <1>2, <1>3 DEF Good

LEMMA StepKeeps ==
    ASSUME IInv, [Next]_b
    PROVE  IInv'
  <1>0. Good(b)
    BY DEF IInv
  <1>1. ASSUME NEW n \in {1, BufMax + 1}, Put(n) PROVE IInv'
    <2>1. PICK luck \in Fate : Becomes(tds_put_n(With(Writes(n), luck), Fresh(n)))
      BY <1>1 DEF Put
    <2>2. ~b.dead
      BY <2>1 DEF Becomes
    <2>3. n \in Nat /\ n > 0
      BY Sizes
    <2>4. PICK x \in Seq(Bytes) : x = Fresh(n) /\ Len(x) = n
      BY <2>3, FreshIs
    <2>5. PICK c : c = With(Writes(n), luck)
      OBVIOUS
    <2>6. Shape(c) /\ Begun(c) /\ ~c.dead /\ Sound(c, x, 0) /\ c.chain = b.chain /\ c.freezes = b.freezes
      BY <2>2, <2>3, <2>4, <2>5, WritesIs
    <2>7. PICK r : r = tds_put_n(c, x)
      OBVIOUS
    <2>8. Written(r, c, x, n)
      BY <2>4, <2>6, <2>7, PutAll
    <2>9. Shape(r) /\ Begun(r) /\ Moved(r, c, n) /\ Sound(r, x, n)
      BY <2>3, <2>8 DEF Written
    <2>10. Good(r)
      BY <2>2, <2>3, <2>4, <2>6, <2>9, WrittenGood
    <2>. QED  BY <2>1, <2>4, <2>5, <2>7, <2>10, BecomesGood
  <1>2. ASSUME NEW w \in Widths, PutFixed(w) PROVE IInv'
    <2>1. PICK luck \in Fate : Becomes(PutInt(With(Writes(w), luck), Fresh(w)))
      BY <1>2 DEF PutFixed
    <2>2. ~b.dead
      BY <2>1 DEF Becomes
    <2>3. w \in Nat /\ w \in 1 .. Extra
      BY Sizes
    <2>4. PICK x \in Seq(Bytes) : x = Fresh(w) /\ Len(x) = w
      BY <2>3, FreshIs
    <2>5. PICK c : c = With(Writes(w), luck)
      OBVIOUS
    <2>6. Shape(c) /\ Begun(c) /\ ~c.dead /\ Sound(c, x, 0) /\ c.chain = b.chain /\ c.freezes = b.freezes
      BY <2>2, <2>3, <2>4, <2>5, WritesIs
    <2>7. PICK r : r = PutInt(c, x)
      OBVIOUS
    <2>8. 0 + Len(x) = w /\ 0 \in Nat /\ Len(x) \in 1 .. Extra /\ Follows(x, x, 0)
      <3>1. \A j \in 1 .. w : 0 + j = j
        OBVIOUS
      <3>. QED  BY <2>3, <2>4, <3>1 DEF Follows
    <2>9. Shape(r) /\ Begun(r) /\ Sound(r, x, w) /\ Moved(r, c, w)
      BY <2>4, <2>6, <2>7, <2>8, PutIntIs
    <2>10. Good(r)
      BY <2>2, <2>3, <2>4, <2>6, <2>9, WrittenGood
    <2>. QED  BY <2>1, <2>4, <2>5, <2>7, <2>10, BecomesGood
  <1>3. ASSUME NEW k \in SizeLens, BeginFreeze(k) PROVE IInv'
    <2>1. PICK luck \in Fate : Becomes(tds_freeze(With(b, luck), k))
      BY <1>3 DEF BeginFreeze
    <2>2. PICK c : c = With(b, luck)
      OBVIOUS
    <2>3. Good(c) /\ ~c.dead
      <3>1. ~b.dead
        BY <2>1 DEF Becomes
      <3>2. Good(c) /\ Like(c, b)
        BY <1>0, <2>2, WithGood
      <3>. QED  BY <3>1, <3>2 DEF Like
    <2>4. Good(tds_freeze(c, k))
      BY <2>3, FreezeIs
    <2>. QED  BY <2>1, <2>2, <2>4, BecomesGood
  <1>4. ASSUME NEW unit \in {1, 2}, CloseFreeze(unit) PROVE IInv'
    <2>1. PICK f : f = Last(b.freezes)
      OBVIOUS
    <2>2. PICK size : size = (tds_freeze_written(b, f) - f.size_len) \div unit
      OBVIOUS
    <2>3. b.freezes # <<>> /\ \E luck \in Fate : Becomes(tds_freeze_close_len(With(Counts(f, unit), luck), size))
      BY <1>4, <2>1, <2>2 DEF CloseFreeze
    <2>4. PICK luck \in Fate : Becomes(tds_freeze_close_len(With(Counts(f, unit), luck), size))
      BY <2>3
    <2>5. ~b.dead
      BY <2>4 DEF Becomes
    <2>6. b \in Request /\ Full(b) /\ Nested(b) /\ Sound(b, <<>>, 0)
      BY <1>0, <2>5 DEF Good, Shape
    <2>7. f \in Freeze /\ Placed(b, f)
      BY <2>1, <2>3, <2>6, LastFreeze
    <2>8. PICK m \in Nat, l \in Nat, e \in Nat : m = f.mark /\ l = f.size_len /\ e = End(b) /\ m + l <= e
      <3>1. f.mark \in Nat /\ f.size_len \in Nat
        BY <2>7, Sizes DEF Freeze
      <3>2. End(b) \in Nat /\ f.mark + f.size_len <= End(b)
        BY <2>6, <2>7, LastPacket DEF Placed, Full
      <3>. QED  BY <3>1, <3>2
    <2>9. Len(b.want) = e
      <3>1. Len(b.want) = e + 0 - 0
        BY <2>5, <2>6, <2>8 DEF Sound
      <3>. QED  BY <3>1
    <2>10. size = (Len(b.want) - (m + l)) \div unit /\ size \in Nat
      <3>1. tds_freeze_written(b, f) = e - m
        BY <2>6, <2>7, <2>8, WrittenIs
      <3>2. (e - m) - l = e - (m + l) /\ e - (m + l) \in Nat
        BY <2>8
      <3>3. size = (e - (m + l)) \div unit
        BY <2>2, <2>8, <3>1, <3>2
      <3>4. (e - (m + l)) \div unit \in Nat
        BY <3>2
      <3>. QED  BY <2>9, <3>3, <3>4
    <2>11. PICK w \in Seq(Bytes) : w = Filled(f, b.want, size)
      <3>1. b.want \in Seq(Bytes)
        BY <2>6, Parts
      <3>. QED  BY <2>7, <2>10, <3>1, FilledIs
    <2>12. PICK c : c = Counts(f, unit)
      OBVIOUS
    <2>13. c = [b EXCEPT !.want = w]
      <3>1. size = (Len(b.want) - (f.mark + f.size_len)) \div unit
        BY <2>8, <2>10
      <3>. QED  BY <2>11, <2>12, <3>1 DEF Counts, Filled, Meant
    <2>14. /\ c \in Request /\ c.chain = b.chain /\ c.freezes = b.freezes /\ c.dead = b.dead
           /\ c.bad = b.bad /\ c.want = w
      BY <2>6, <2>13 DEF Request
    <2>15. PICK v : v = With(c, luck)
      OBVIOUS
    <2>16. v \in Request /\ Like(v, c)
      BY <2>14, <2>15, FateIs, WithIs
    <2>17. /\ v.chain = b.chain /\ v.freezes = b.freezes /\ ~v.dead
           /\ v.bad = b.bad /\ v.want = Filled(f, b.want, size)
      BY <2>5, <2>11, <2>14, <2>16 DEF Like
    <2>18. Good(tds_freeze_close_len(v, size))
      BY <1>0, <2>1, <2>3, <2>5, <2>10, <2>16, <2>17, CloseIs
    <2>. QED  BY <2>4, <2>12, <2>15, <2>18, BecomesGood
  <1>5. ASSUME AbortFreeze PROVE IInv'
    <2>1. b.freezes # <<>> /\ Becomes(tds_freeze_abort(b)) /\ ~b.dead
      BY <1>5 DEF AbortFreeze, Becomes
    <2>2. Good(tds_freeze_abort(b))
      BY <1>0, <2>1, AbortIs
    <2>. QED  BY <2>1, <2>2, BecomesGood
  <1>6. ASSUME Flush PROVE IInv'
    <2>1. PICK luck \in Fate : Becomes(tds_flush_packet(With(b, luck)))
      BY <1>6 DEF Flush
    <2>2. PICK c : c = With(b, luck)
      OBVIOUS
    <2>3. Good(c) /\ ~c.dead /\ c.freezes = <<>> /\ c.want # <<>>
      <3>1. ~b.dead /\ b.freezes = <<>> /\ b.want # <<>>
        BY <1>6, <2>1 DEF Becomes, Flush
      <3>2. Good(c) /\ Like(c, b)
        BY <1>0, <2>2, WithGood
      <3>. QED  BY <3>1, <3>2 DEF Like
    <2>4. Good(tds_flush_packet(c))
      BY <2>3, FlushIs
    <2>. QED  BY <2>1, <2>2, <2>4, BecomesGood
  <1>7. ASSUME UNCHANGED b PROVE IInv'
    BY <1>7 DEF IInv
  <1>. QED  BY <1>1, <1>2, <1>3, <1>4, <1>5, <1>6, <1>7 DEF Next

LEMMA InitGood ==
    ASSUME Init
    PROVE  IInv
  <1>1. 0 \in 0 .. Data - 1 /\ 0 \in 0 .. MaxChain + 1 /\ 0 <= BufMax + Extra
    BY Sizes
  <1>2. <<>> \in Seq(Bytes) /\ <<>> \in Seq(Freeze)
    OBVIOUS
  <1>3. <<<<>>>> \in Seq(Seq(Bytes))
    BY <1>2
  <1>4. b \in Request
    BY <1>1, <1>2, <1>3 DEF Init, Request
  <1>5. b.chain = <<<<>>>> /\ b.freezes = <<>> /\ ~b.dead /\ ~b.bad /\ b.want = <<>>
    BY DEF Init
  <1>6. Len(b.chain) = 1 /\ b.chain[1] = <<>> /\ OutPos(b) = 0 /\ b.chain # <<>> /\ Len(b.freezes) = 0
    BY <1>5 DEF OutPos, Last
  <1>7. Off(1) = 0 /\ End(b) = 0
    <2>1. Off(1) = 0
      BY OffIs
    <2>. QED  BY <1>6, <2>1 DEF End
  <1>8. Shape(b)
    BY <1>1, <1>4, <1>6 DEF Shape, Full
  <1>9. Begun(b) /\ Nested(b)
    BY <1>5, <1>6 DEF Begun, Nested
  <1>10. Sound(b, <<>>, 0)
    <2>1. Len(b.want) = End(b) + Len(<<>>) - 0
      BY <1>5, <1>7
    <2>2. \A i \in 1 .. Len(b.chain) : \A j \in 1 .. Len(b.chain[i]) : FALSE
      BY <1>6
    <2>3. \A j \in (0 + 1) .. Len(<<>>) : FALSE
      OBVIOUS
    <2>. QED  BY <1>5, <2>1, <2>2, <2>3 DEF Sound
  <1>. QED  BY <1>8, <1>9, <1>10 DEF IInv, Good

----------------------------------------------------------------------------
(* The invariant holds, and with it what it was made for.                  *)
LEMMA Invariance == Spec => []IInv
  <1>1. Init => IInv
    BY InitGood
  <1>2. IInv /\ [Next]_b => IInv'
    BY StepKeeps
  <1>. QED  BY <1>1, <1>2, PTL DEF Spec

(* The fields of the request have their types, and no packet is written    *)
(* past the space that follows it, whatever is written and whenever the    *)
(* connection is lost.                                                     *)
THEOREM TypeCorrect == Spec => []TypeOK
  <1>1. ASSUME IInv PROVE TypeOK
    <2>1. b \in Request /\ b.chain # <<>> /\ OutPos(b) <= BufMax + Extra
          /\ \A i \in 1 .. (Len(b.chain) - 1) : Len(b.chain[i]) = BufMax
      BY <1>1 DEF IInv, Good, Shape, Full
    <2>2. BufMax <= BufMax
      BY Sizes
    <2>. QED  BY <2>1, <2>2 DEF TypeOK
  <1>2. IInv => TypeOK
    BY <1>1
  <1>. QED  BY <1>2, Invariance, PTL

(* The server gets the bytes of the request, each length with its final    *)
(* value, in packets that are full except for the last: whatever is        *)
(* written, frozen, closed and aborted, for every size of the packets.     *)
THEOREM StreamIntact == Spec => []StreamIsIntact
  <1>1. ASSUME IInv PROVE StreamIsIntact
    <2>. SUFFICES ASSUME ~b.dead PROVE StreamIsIntact
      BY DEF StreamIsIntact
    <2>1. Full(b) /\ Sound(b, <<>>, 0) /\ b \in Request
      BY <1>1 DEF IInv, Good, Shape
    <2>2. PICK e \in Nat : e = End(b)
      BY <2>1, LastPacket DEF Full
    <2>3. Len(b.want) = e
      <3>1. Len(b.want) = e + 0 - 0
        BY <2>1, <2>2 DEF Sound
      <3>. QED  BY <3>1
    <2>. QED  BY <2>1, <2>2, <2>3 DEF StreamIsIntact, Sound, Full, End
  <1>2. IInv => StreamIsIntact
    BY <1>1
  <1>. QED  BY <1>2, Invariance, PTL

=============================================================================
