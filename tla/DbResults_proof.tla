-------------------------- MODULE DbResults_proof --------------------------
(***************************************************************************)
(* The results of db-lib, for every set of answers that a server may send  *)
(* and every sequence of calls: no row is lost, every result set is        *)
(* announced, and rows come after the announcement of their result set.    *)
(***************************************************************************)
EXTENDS DbResults, WellFoundedInduction, TLAPS

----------------------------------------------------------------------------
(* What one call of the token loop reads, for every answer and all flags.  *)

(* A set of numbers that is not empty has a least one.                     *)
LEMMA HasLeast ==
    ASSUME NEW T, T \subseteq Nat, T # {}
    PROVE  \E x \in T : \A y \in T : x <= y
  <1>1. PICK x \in T : \A y \in T : ~(<<y, x>> \in OpToRel(<, Nat))
    BY NatLessThanWellFounded, WFMin
  <1>2. \A y \in T : ~(y < x)
    BY <1>1 DEF OpToRel
  <1>. QED  BY <1>2

(* Min() gives it.                                                         *)
LEMMA MinIs ==
    ASSUME NEW T, T \subseteq Nat, T # {}
    PROVE  Min(T) \in T /\ \A y \in T : Min(T) <= y
  BY HasLeast DEF Min

(* Max() gives the greatest of a set of numbers with a bound.              *)
LEMMA MaxIs ==
    ASSUME NEW n \in Nat, NEW T, T \subseteq 0 .. n, T # {}
    PROVE  Max(T) \in T /\ \A y \in T : y <= Max(T)
  <1>1. PICK x \in {n - y : y \in T} : \A z \in {n - y : y \in T} : x <= z
    <2>1. \A y \in T : n - y \in Nat
      OBVIOUS
    <2>2. {n - y : y \in T} \subseteq Nat
      BY <2>1
    <2>3. {n - y : y \in T} # {}
      OBVIOUS
    <2>. QED  BY <2>2, <2>3, HasLeast
  <1>2. PICK m \in T : x = n - m
    BY <1>1
  <1>3. ASSUME NEW y \in T
        PROVE  m >= y
    <2>1. n - y \in {n - z : z \in T}
      OBVIOUS
    <2>2. n - m <= n - y
      BY <2>1, <1>1, <1>2
    <2>3. m \in Nat /\ y \in Nat
      OBVIOUS
    <2>. QED  BY <2>2, <2>3
  <1>4. Max(T) \in T /\ \A y \in T : Max(T) >= y
    BY <1>2, <1>3 DEF Max
  <1>. QED  BY <1>4

-----------------------------------------------------------------------------
(* An answer, or what a session has before its first request.              *)
Stream(a) == a = <<>> \/ IsAnswer(a)

(* Where the loop leaves.                                                  *)
At(a, p, flag) == Min({j \in p .. Len(a) : Leaves(a, flag, j)})

(* Its tokens.                                                             *)
LEMMA AnswerTypes ==
    ASSUME NEW a, IsAnswer(a)
    PROVE  /\ Len(a) \in Nat \ {0} /\ DOMAIN a = 1 .. Len(a)
           /\ \A j \in 1 .. Len(a) : a[j].kind \in Kinds /\ a[j].more \in BOOLEAN
                                     /\ a[j].error \in BOOLEAN
           /\ Final(a[Len(a)]) \/ a[Len(a)].kind = "eof"
           /\ \A j \in 1 .. Len(a) : Final(a[j]) \/ a[j].kind = "eof" => j = Len(a)
  <1>1. a \in Seq([kind : Kinds, more : BOOLEAN, error : BOOLEAN]) /\ a # <<>>
    BY DEF IsAnswer
  <1>2. Len(a) \in Nat \ {0} /\ DOMAIN a = 1 .. Len(a)
    BY <1>1
  <1>3. ASSUME NEW j \in 1 .. Len(a)
        PROVE  a[j].kind \in Kinds /\ a[j].more \in BOOLEAN /\ a[j].error \in BOOLEAN
    <2>1. PICK Toks : Toks = [kind : Kinds, more : BOOLEAN, error : BOOLEAN]
      OBVIOUS
    <2>2. a \in Seq(Toks)
      BY <1>1, <2>1
    <2>3. a[j] \in Toks
      BY <2>2
    <2>. QED  BY <2>1, <2>3
  <1>4. \A j \in 1 .. Len(a) : (j = Len(a)) <=> (Final(a[j]) \/ a[j].kind = "eof")
    BY <1>2 DEF IsAnswer
  <1>5. Len(a) \in 1 .. Len(a)
    BY <1>2
  <1>6. Final(a[Len(a)]) \/ a[Len(a)].kind = "eof"
    BY <1>4, <1>5
  <1>7. \A j \in 1 .. Len(a) : Final(a[j]) \/ a[j].kind = "eof" => j = Len(a)
    BY <1>4
  <1>. QED  BY <1>2, <1>3, <1>6, <1>7

(* The loop leaves at the first token that makes it leave: there is one,   *)
(* because the last token of an answer always does.                        *)
LEMMA AtIs ==
    ASSUME NEW a, IsAnswer(a), NEW p \in 1 .. Len(a), NEW flag
    PROVE  /\ At(a, p, flag) \in p .. Len(a)
           /\ Leaves(a, flag, At(a, p, flag))
           /\ \A j \in p .. At(a, p, flag) - 1 : ~Leaves(a, flag, j)
  <1>. DEFINE T == {j \in p .. Len(a) : Leaves(a, flag, j)}
  <1>1. Len(a) \in Nat \ {0}
    BY AnswerTypes
  <1>2. Leaves(a, flag, Len(a))
    BY AnswerTypes DEF Leaves
  <1>3. T \subseteq Nat /\ T # {}
    BY <1>1, <1>2
  <1>4. Min(T) \in T /\ \A y \in T : Min(T) <= y
    <2>. HIDE DEF T
    <2>. QED  BY <1>3, MinIs
  <1>5. At(a, p, flag) = Min(T)
    BY DEF At
  <1>6. Min(T) \in p .. Len(a) /\ Leaves(a, flag, Min(T))
    BY <1>4
  <1>7. ASSUME NEW j \in p .. Min(T) - 1
        PROVE  ~Leaves(a, flag, j)
    <2>1. Min(T) \in Nat /\ j \in p .. Len(a) /\ ~(Min(T) <= j)
      BY <1>1, <1>6
    <2>. QED  BY <2>1, <1>4
  <1>. QED  BY <1>5, <1>6, <1>7

(* What the loop returns when there is something to read.                  *)
LEMMA LoopAt ==
    ASSUME NEW a, IsAnswer(a), NEW p \in 1 .. Len(a), NEW flag, NEW at, at = At(a, p, flag),
           NEW r, r = tds_process_tokens(a, p, flag)
    PROVE  /\ r.rc = IF a[at].kind = "eof" THEN "FAIL"
                     ELSE IF StopsAt(a, flag, at) \/ Returns(a, flag, at) THEN "SUCCESS"
                     ELSE "NO_MORE_RESULTS"
           /\ r.type = a[at].kind /\ r.error = a[at].error /\ r.more = a[at].more
           /\ r.next = IF StopsAt(a, flag, at) \/ a[at].kind = "eof" THEN at ELSE at + 1
  <1>1. Len(a) \in Nat /\ ~(p > Len(a))
    BY AnswerTypes
  <1>. QED  BY <1>1 DEF tds_process_tokens, At

(* The tokens that a call reads.  None of them stops the loop or is where  *)
(* the connection is lost, and if one of them makes it return it is the    *)
(* last one, and the one that the result is about.                         *)
LEMMA LoopReads ==
    ASSUME NEW a, Stream(a), NEW p \in 1 .. Len(a) + 1, NEW flag,
           NEW r, r = tds_process_tokens(a, p, flag)
    PROVE  /\ r.next \in p .. Len(a) + 1
           /\ \A j \in p .. r.next - 1 : ~StopsAt(a, flag, j) /\ a[j].kind # "eof"
           /\ \A j \in p .. r.next - 1 :
                  Returns(a, flag, j) => j = r.next - 1 /\ r.rc = "SUCCESS" /\ r.type = a[j].kind
  <1>1. Len(a) \in Nat
    BY AnswerTypes DEF Stream
  <1>2. CASE p > Len(a)
    <2>1. /\ r.rc = "NO_MORE_RESULTS" /\ r.type = "done" /\ r.next = p
          /\ r.error = FALSE /\ r.more = FALSE
      BY <1>2 DEF tds_process_tokens
    <2>2. p = Len(a) + 1
      BY <1>1, <1>2
    <2>. QED  BY <1>1, <2>1, <2>2
  <1>3. CASE ~(p > Len(a))
    <2>1. IsAnswer(a) /\ p \in 1 .. Len(a)
      BY <1>1, <1>3 DEF Stream
    <2>2. PICK at : at = At(a, p, flag)
      OBVIOUS
    <2>3. /\ at \in p .. Len(a) /\ Leaves(a, flag, at)
          /\ \A j \in p .. at - 1 : ~Leaves(a, flag, j)
      BY <2>1, <2>2, AtIs
    <2>4. /\ r.rc = IF a[at].kind = "eof" THEN "FAIL"
                    ELSE IF StopsAt(a, flag, at) \/ Returns(a, flag, at) THEN "SUCCESS"
                    ELSE "NO_MORE_RESULTS"
          /\ r.type = a[at].kind
          /\ r.next = IF StopsAt(a, flag, at) \/ a[at].kind = "eof" THEN at ELSE at + 1
      BY <2>1, <2>2, LoopAt
    <2>5. r.next \in p .. Len(a) + 1
      BY <1>1, <2>3, <2>4
    <2>6. \A j \in p .. r.next - 1 : ~StopsAt(a, flag, j) /\ a[j].kind # "eof"
      BY <1>1, <2>3, <2>4 DEF Leaves
    <2>7. \A j \in p .. r.next - 1 :
             Returns(a, flag, j) => j = r.next - 1 /\ r.rc = "SUCCESS" /\ r.type = a[j].kind
      BY <1>1, <2>3, <2>4 DEF Leaves
    <2>. QED  BY <2>5, <2>6, <2>7
  <1>. QED  BY <1>2, <1>3

(* What a call returns: the answer is read to its end, the connection is   *)
(* lost, or the result is about the token that stopped the loop or about   *)
(* the last one read.                                                      *)
LEMMA LoopReturns ==
    ASSUME NEW a, Stream(a), NEW p \in 1 .. Len(a) + 1, NEW flag,
           NEW r, r = tds_process_tokens(a, p, flag)
    PROVE  /\ r.rc \in {"SUCCESS", "FAIL", "NO_MORE_RESULTS"} /\ r.type \in Kinds
           /\ r.error \in BOOLEAN /\ r.more \in BOOLEAN
           /\ r.rc = "NO_MORE_RESULTS" => r.next = Len(a) + 1
           /\ r.rc = "FAIL" => a # <<>> /\ r.next = Len(a) /\ a[Len(a)].kind = "eof"
           /\ r.rc = "SUCCESS" =>
                 \/ r.next <= Len(a) /\ StopsAt(a, flag, r.next) /\ r.type = a[r.next].kind
                 \/ /\ r.next - 1 >= p /\ Returns(a, flag, r.next - 1)
                    /\ r.type = a[r.next - 1].kind /\ r.more = a[r.next - 1].more
  <1>1. Len(a) \in Nat
    BY AnswerTypes DEF Stream
  <1>2. CASE p > Len(a)
    <2>1. /\ r.rc = "NO_MORE_RESULTS" /\ r.type = "done" /\ r.next = p
          /\ r.error = FALSE /\ r.more = FALSE
      BY <1>2 DEF tds_process_tokens
    <2>2. p = Len(a) + 1
      BY <1>1, <1>2
    <2>. QED  BY <1>1, <2>1, <2>2 DEF Kinds
  <1>3. CASE ~(p > Len(a))
    <2>1. IsAnswer(a) /\ p \in 1 .. Len(a)
      BY <1>1, <1>3 DEF Stream
    <2>2. PICK at : at = At(a, p, flag)
      OBVIOUS
    <2>3. at \in p .. Len(a) /\ Leaves(a, flag, at)
      BY <2>1, <2>2, AtIs
    <2>4. /\ r.rc = IF a[at].kind = "eof" THEN "FAIL"
                    ELSE IF StopsAt(a, flag, at) \/ Returns(a, flag, at) THEN "SUCCESS"
                    ELSE "NO_MORE_RESULTS"
          /\ r.type = a[at].kind /\ r.error = a[at].error /\ r.more = a[at].more
          /\ r.next = IF StopsAt(a, flag, at) \/ a[at].kind = "eof" THEN at ELSE at + 1
      BY <2>1, <2>2, LoopAt
    <2>5. /\ a[at].kind \in Kinds /\ a[at].more \in BOOLEAN /\ a[at].error \in BOOLEAN
          /\ Final(a[at]) \/ a[at].kind = "eof" => at = Len(a)
      BY <1>1, <2>1, <2>3, AnswerTypes
    <2>6. r.rc \in {"SUCCESS", "FAIL", "NO_MORE_RESULTS"}
      BY <2>4
    <2>7. r.type \in Kinds /\ r.error \in BOOLEAN /\ r.more \in BOOLEAN
      BY <2>4, <2>5
    <2>8. r.rc = "NO_MORE_RESULTS" => r.next = Len(a) + 1
      BY <2>3, <2>4, <2>5 DEF Leaves
    <2>9. r.rc = "FAIL" => a # <<>> /\ r.next = Len(a) /\ a[Len(a)].kind = "eof"
      BY <2>1, <2>4, <2>5 DEF IsAnswer
    <2>10. r.rc = "SUCCESS" =>
              \/ r.next <= Len(a) /\ StopsAt(a, flag, r.next) /\ r.type = a[r.next].kind
              \/ /\ r.next - 1 >= p /\ Returns(a, flag, r.next - 1)
                 /\ r.type = a[r.next - 1].kind /\ r.more = a[r.next - 1].more
      <3>1. CASE StopsAt(a, flag, at) /\ a[at].kind # "eof"
        BY <1>1, <2>3, <2>4, <3>1
      <3>2. CASE ~StopsAt(a, flag, at) /\ Returns(a, flag, at) /\ a[at].kind # "eof"
        <4>1. r.next = at + 1 /\ at \in Nat /\ p \in Nat /\ at >= p
          BY <1>1, <2>3, <2>4, <3>2
        <4>2. r.next - 1 = at
          BY <4>1
        <4>. QED  BY <4>1, <4>2, <2>4, <3>2
      <3>. QED  BY <2>4, <3>1, <3>2
    <2>. QED  BY <2>6, <2>7, <2>8, <2>9, <2>10
  <1>. QED  BY <1>2, <1>3

-----------------------------------------------------------------------------
(* The row format of the session is one of the answer, and it is the last  *)
(* one read.                                                               *)
LEMMA ResInfoIs ==
    ASSUME NEW a, Stream(a), NEW from \in 1 .. Len(a) + 1, NEW to \in from .. Len(a) + 1,
           NEW old \in 0 .. Len(a)
    PROVE  /\ ResInfo(a, from, to, old) \in 0 .. Len(a)
           /\ Read(a, from, to, "rowfmt") = {} => ResInfo(a, from, to, old) = old
           /\ Read(a, from, to, "rowfmt") # {} =>
                 /\ ResInfo(a, from, to, old) \in Read(a, from, to, "rowfmt")
                 /\ \A j \in Read(a, from, to, "rowfmt") : j <= ResInfo(a, from, to, old)
  <1>1. Len(a) \in Nat
    BY AnswerTypes DEF Stream
  <1>2. PICK T : T = Read(a, from, to, "rowfmt")
    OBVIOUS
  <1>3. T \subseteq 1 .. Len(a)
    BY <1>1, <1>2 DEF Read
  <1>4. T # {} => Max(T) \in T /\ \A j \in T : j <= Max(T)
    <2>1. T \subseteq 0 .. Len(a)
      BY <1>1, <1>3
    <2>. QED  BY <1>1, <2>1, MaxIs
  <1>5. ResInfo(a, from, to, old) = IF T = {} THEN old ELSE Max(T)
    BY <1>2 DEF ResInfo
  <1>6. CASE T = {}
    BY <1>2, <1>5, <1>6
  <1>7. CASE T # {}
    BY <1>1, <1>2, <1>3, <1>4, <1>5, <1>7
  <1>. QED  BY <1>6, <1>7

-----------------------------------------------------------------------------
(* Row formats, and the result sets that they begin.                       *)

(* A call that stops at row formats reads none.                            *)
LEMMA StopsAtFormats ==
    ASSUME NEW a, Stream(a), NEW p \in 1 .. Len(a) + 1, NEW flag, "ROWFMT" \in flag.stopat,
           NEW r, r = tds_process_tokens(a, p, flag)
    PROVE  Read(a, p, r.next, "rowfmt") = {}
  <1>1. \A j \in p .. r.next - 1 : ~StopsAt(a, flag, j)
    BY LoopReads
  <1>2. ASSUME NEW j \in p .. r.next - 1
        PROVE  a[j].kind # "rowfmt"
    BY <1>1 DEF StopsAt, Class, Dones
  <1>. QED  BY <1>2 DEF Read

(* A call that stops at rows reads none.                                   *)
LEMMA StopsAtRows ==
    ASSUME NEW a, Stream(a), NEW p \in 1 .. Len(a) + 1, NEW flag,
           "ROW" \in flag.stopat, "COMPUTE" \in flag.stopat,
           NEW r, r = tds_process_tokens(a, p, flag)
    PROVE  Read(a, p, r.next, "row") = {} /\ Read(a, p, r.next, "compute") = {}
  <1>1. \A j \in p .. r.next - 1 : ~StopsAt(a, flag, j)
    BY LoopReads
  <1>2. ASSUME NEW j \in p .. r.next - 1
        PROVE  a[j].kind # "row" /\ a[j].kind # "compute"
    BY <1>1 DEF StopsAt, Class, Dones
  <1>. QED  BY <1>2 DEF Read

(* A call that returns row formats reads at most one, as the last token.   *)
LEMMA ReturnsFormats ==
    ASSUME NEW a, Stream(a), NEW p \in 1 .. Len(a) + 1, NEW flag, "ROWFMT" \in flag.return,
           NEW r, r = tds_process_tokens(a, p, flag),
           NEW j \in Read(a, p, r.next, "rowfmt")
    PROVE  j = r.next - 1 /\ r.rc = "SUCCESS" /\ r.type = "rowfmt"
  <1>1. j \in p .. r.next - 1 /\ a[j].kind = "rowfmt"
    BY DEF Read
  <1>2. Returns(a, flag, j)
    BY <1>1 DEF Returns, Class, Dones
  <1>. QED  BY <1>1, <1>2, LoopReads

(* A call that returns DONE tokens reads at most one, as the last token.   *)
LEMMA ReturnsDones ==
    ASSUME NEW a, Stream(a), NEW p \in 1 .. Len(a) + 1, NEW flag, "DONE" \in flag.return,
           NEW r, r = tds_process_tokens(a, p, flag),
           NEW j \in p .. r.next - 1, a[j].kind \in Dones
    PROVE  j = r.next - 1 /\ r.rc = "SUCCESS" /\ r.type = a[j].kind
  <1>1. Returns(a, flag, j)
    BY DEF Returns, Class, Dones
  <1>2. \A i \in p .. r.next - 1 :
           Returns(a, flag, i) => i = r.next - 1 /\ r.rc = "SUCCESS" /\ r.type = a[i].kind
    BY LoopReads
  <1>. QED  BY <1>1, <1>2

(* The result sets that are begun and not ended before p: at most one.     *)
Open(a, p) == {f \in Read(a, 1, p, "rowfmt") : \A j \in f .. p - 1 : a[j].kind \notin Dones}

(* Without another row format no result set is begun ...                   *)
LEMMA OpenShrinks ==
    ASSUME NEW a, Stream(a), NEW p \in 1 .. Len(a) + 1, NEW n \in p .. Len(a) + 1,
           Read(a, p, n, "rowfmt") = {}
    PROVE  Read(a, 1, n, "rowfmt") = Read(a, 1, p, "rowfmt") /\ Open(a, n) \subseteq Open(a, p)
  <1>1. Len(a) \in Nat
    BY AnswerTypes DEF Stream
  <1>2. Read(a, 1, n, "rowfmt") = Read(a, 1, p, "rowfmt")
    BY <1>1 DEF Read
  <1>. QED  BY <1>1, <1>2 DEF Open, Read

(* ... and a DONE ends the one that is.                                    *)
LEMMA DoneCloses ==
    ASSUME NEW a, Stream(a), NEW p \in 1 .. Len(a) + 1, NEW n \in p .. Len(a) + 1,
           Read(a, p, n, "rowfmt") = {}, NEW j \in p .. n - 1, a[j].kind \in Dones
    PROVE  Open(a, n) = {}
  <1>1. Len(a) \in Nat
    BY AnswerTypes DEF Stream
  <1>2. ASSUME NEW f \in Open(a, n)
        PROVE  FALSE
    <2>1. f \in Read(a, 1, p, "rowfmt") /\ \A i \in f .. n - 1 : a[i].kind \notin Dones
      BY OpenShrinks DEF Open
    <2>2. j \in f .. n - 1
      BY <1>1, <2>1 DEF Read
    <2>. QED  BY <2>1, <2>2
  <1>. QED  BY <1>2

(* A row format comes when no result set is open.                          *)
LEMMA FormatNeedsNone ==
    ASSUME NEW a, IsAnswer(a), NEW n \in 1 .. Len(a), a[n].kind = "rowfmt"
    PROVE  Open(a, n) = {}
  <1>1. Len(a) \in Nat /\ DOMAIN a = 1 .. Len(a)
    BY AnswerTypes
  <1>2. ASSUME NEW f \in Open(a, n)
        PROVE  FALSE
    <2>1. f \in 1 .. n - 1 /\ a[f].kind = "rowfmt" /\ \A i \in f .. n - 1 : a[i].kind \notin Dones
      BY DEF Open, Read
    <2>2. f \in DOMAIN a /\ n \in DOMAIN a /\ f < n
      BY <1>1, <2>1
    <2>3. PICK j \in f .. n : a[j].kind \in Dones
      BY <2>1, <2>2 DEF IsAnswer
    <2>4. j # n
      BY <2>3 DEF Dones
    <2>5. j \in f .. n - 1
      BY <2>1, <2>3, <2>4
    <2>. QED  BY <2>1, <2>3, <2>5
  <1>. QED  BY <1>2

(* Once it is read its result set is the only one open.                    *)
LEMMA FormatOpens ==
    ASSUME NEW a, IsAnswer(a), NEW n \in 1 .. Len(a), a[n].kind = "rowfmt"
    PROVE  Open(a, n + 1) = {n}
  <1>1. Len(a) \in Nat
    BY AnswerTypes
  <1>2. n \in Open(a, n + 1)
    BY <1>1 DEF Open, Read, Dones
  <1>3. ASSUME NEW f \in Open(a, n + 1), f # n
        PROVE  FALSE
    <2>1. f \in Open(a, n)
      BY <1>1, <1>3 DEF Open, Read
    <2>. QED  BY <2>1, FormatNeedsNone
  <1>. QED  BY <1>2, <1>3

(* An answer that is read to its end leaves no result set open.            *)
LEMMA EndCloses ==
    ASSUME NEW a, Stream(a), a # <<>> => a[Len(a)].kind # "eof"
    PROVE  Open(a, Len(a) + 1) = {}
  <1>1. Len(a) \in Nat
    BY AnswerTypes DEF Stream
  <1>2. CASE a = <<>>
    BY <1>2 DEF Open, Read
  <1>3. CASE a # <<>>
    <2>1. Final(a[Len(a)]) /\ Len(a) >= 1
      BY <1>3, AnswerTypes DEF Stream
    <2>2. a[Len(a)].kind \in Dones
      BY <2>1 DEF Final
    <2>3. ASSUME NEW f \in Open(a, Len(a) + 1)
          PROVE  FALSE
      <3>1. Len(a) \in f .. Len(a) + 1 - 1
        BY <1>1, <2>1, <2>3 DEF Open, Read
      <3>. QED  BY <2>2, <3>1 DEF Open
    <2>. QED  BY <2>3
  <1>. QED  BY <1>2, <1>3

(* A row that comes next, with no row format before it, belongs to a       *)
(* result set that is open.                                                *)
LEMMA RowsAreOfOpen ==
    ASSUME NEW a, IsAnswer(a), NEW p \in 1 .. Len(a), NEW n \in p .. Len(a),
           a[n].kind \in {"row", "compute", "computefmt"}, Read(a, p, n, "rowfmt") = {}
    PROVE  \E f \in Open(a, p) : \A i \in f .. n : a[i].kind \notin Dones
  <1>1. Len(a) \in Nat /\ DOMAIN a = 1 .. Len(a)
    BY AnswerTypes
  <1>2. n \in DOMAIN a
    BY <1>1
  <1>3. PICK f \in 1 .. n : a[f].kind = "rowfmt" /\ \A i \in f .. n : a[i].kind \notin Dones
    BY <1>2 DEF IsAnswer
  <1>4. f # n
    BY <1>3
  <1>5. f \in 1 .. p - 1
    BY <1>1, <1>3, <1>4 DEF Read
  <1>6. f \in Open(a, p)
    BY <1>1, <1>3, <1>5 DEF Open, Read
  <1>. QED  BY <1>3, <1>6

-----------------------------------------------------------------------------
(* The calls of the client libraries.                                      *)

(* TDS_TOKEN_RESULTS: no row is read; a row format that is read is the     *)
(* result and begins the only open result set; a DONE that is the result   *)
(* ends it; and rows and compute formats are those of an open one.         *)
LEMMA ResultsCall ==
    ASSUME NEW a, Stream(a), NEW p \in 1 .. Len(a) + 1,
           NEW r, r = tds_process_tokens(a, p, TDS_TOKEN_RESULTS)
    PROVE  /\ r.rc = "SUCCESS" /\ r.type = "rowfmt" =>
                 /\ r.next - 1 \in p .. Len(a)
                 /\ Read(a, p, r.next, "rowfmt") = {r.next - 1} /\ Open(a, r.next) = {r.next - 1}
           /\ ~(r.rc = "SUCCESS" /\ r.type = "rowfmt") => Read(a, p, r.next, "rowfmt") = {}
           /\ r.rc = "SUCCESS" /\ r.type \in Dones =>
                 r.next - 1 \in p .. Len(a) /\ a[r.next - 1].kind \in Dones /\ Open(a, r.next) = {}
           /\ r.rc = "SUCCESS" /\ r.type \in {"row", "compute", "computefmt"} =>
                 Open(a, p) # {} /\ Open(a, p) \subseteq Open(a, r.next)
           /\ r.rc = "SUCCESS" /\ r.type \notin Dones =>
                 \A j \in p .. r.next - 1 : a[j].kind \notin Dones
           /\ r.rc = "NO_MORE_RESULTS" => p = Len(a) + 1
  <1>. DEFINE F == TDS_TOKEN_RESULTS
  <1>0. /\ F.return = {"ROWFMT", "COMPUTEFMT", "DONE", "PROC"} /\ F.stopat = {"ROW", "COMPUTE"}
        /\ "ROWFMT" \in F.return /\ "DONE" \in F.return
    BY DEF TDS_TOKEN_RESULTS, Flags
  <1>. HIDE DEF F
  <1>1. Len(a) \in Nat /\ r = tds_process_tokens(a, p, F)
    BY AnswerTypes DEF Stream, F
  <1>2. r.next \in p .. Len(a) + 1
    BY <1>1, LoopReads
  <1>3. r.rc = "SUCCESS" =>
           \/ r.next <= Len(a) /\ StopsAt(a, F, r.next) /\ r.type = a[r.next].kind
           \/ /\ r.next - 1 >= p /\ Returns(a, F, r.next - 1)
              /\ r.type = a[r.next - 1].kind
    BY <1>1, LoopReturns
  <1>4. ASSUME r.rc = "SUCCESS", r.type \notin {"row", "compute"}
        PROVE  r.next - 1 \in p .. Len(a) /\ r.type = a[r.next - 1].kind
    <2>1. ~(r.next <= Len(a) /\ StopsAt(a, F, r.next) /\ r.type = a[r.next].kind)
      <3>. SUFFICES ASSUME r.next <= Len(a), StopsAt(a, F, r.next), r.type = a[r.next].kind
                    PROVE  FALSE
        OBVIOUS
      <3>1. r.next \in 1 .. Len(a) /\ IsAnswer(a)
        BY <1>1, <1>2 DEF Stream
      <3>2. r.type \in Kinds
        BY <3>1, AnswerTypes
      <3>. QED  BY <1>0, <1>4, <3>2 DEF StopsAt, Class, Dones, Kinds
    <2>. QED  BY <1>1, <1>2, <1>3, <1>4, <2>1
  <1>5. ASSUME NEW j \in Read(a, p, r.next, "rowfmt")
        PROVE  j = r.next - 1 /\ r.rc = "SUCCESS" /\ r.type = "rowfmt"
    BY <1>0, <1>1, ReturnsFormats
  <1>6. ASSUME NEW j \in p .. r.next - 1, a[j].kind \in Dones
        PROVE  j = r.next - 1 /\ r.rc = "SUCCESS" /\ r.type = a[j].kind
    BY <1>0, <1>1, <1>6, ReturnsDones
  <1>7. ASSUME r.rc = "SUCCESS", r.type = "rowfmt"
        PROVE  /\ r.next - 1 \in p .. Len(a)
               /\ Read(a, p, r.next, "rowfmt") = {r.next - 1} /\ Open(a, r.next) = {r.next - 1}
    <2>1. r.next - 1 \in p .. Len(a) /\ a[r.next - 1].kind = "rowfmt"
      BY <1>4, <1>7
    <2>2. Read(a, p, r.next, "rowfmt") = {r.next - 1}
      BY <1>1, <1>2, <1>5, <2>1 DEF Read
    <2>3. PICK n \in p .. Len(a) : n = r.next - 1
      BY <2>1
    <2>4. n \in 1 .. Len(a) /\ a[n].kind = "rowfmt" /\ n + 1 = r.next
      BY <1>1, <1>2, <2>1, <2>3
    <2>5. IsAnswer(a)
      BY <1>1, <2>4 DEF Stream
    <2>6. Open(a, n + 1) = {n}
      BY <2>4, <2>5, FormatOpens
    <2>. QED  BY <2>1, <2>2, <2>3, <2>4, <2>6
  <1>8. ~(r.rc = "SUCCESS" /\ r.type = "rowfmt") => Read(a, p, r.next, "rowfmt") = {}
    BY <1>5
  <1>9. ASSUME r.rc = "SUCCESS", r.type \in Dones
        PROVE  /\ r.next - 1 \in p .. Len(a) /\ a[r.next - 1].kind \in Dones
               /\ Open(a, r.next) = {}
    <2>1. r.next - 1 \in p .. Len(a) /\ a[r.next - 1].kind \in Dones
      BY <1>4, <1>9 DEF Dones
    <2>2. Read(a, p, r.next, "rowfmt") = {}
      BY <1>8, <1>9 DEF Dones
    <2>3. r.next - 1 \in p .. r.next - 1
      BY <1>1, <1>2, <2>1
    <2>4. Open(a, r.next) = {}
      BY <1>2, <2>1, <2>2, <2>3, DoneCloses
    <2>. QED  BY <2>1, <2>4
  <1>10. ASSUME r.rc = "SUCCESS", r.type \notin Dones, NEW j \in p .. r.next - 1
         PROVE  a[j].kind \notin Dones
    BY <1>6, <1>10
  <1>11. ASSUME r.rc = "SUCCESS", r.type \in {"row", "compute", "computefmt"}
         PROVE  Open(a, p) # {} /\ Open(a, p) \subseteq Open(a, r.next)
    <2>0. r.type \notin Dones /\ Read(a, p, r.next, "rowfmt") = {}
      BY <1>8, <1>11 DEF Dones
    <2>1. \A f \in Open(a, p) : f \in Open(a, r.next)
      BY <1>1, <1>2, <1>10, <1>11, <2>0 DEF Open, Read
    <2>2. PICK n \in p .. Len(a) : /\ a[n].kind \in {"row", "compute", "computefmt"}
                                   /\ Read(a, p, n, "rowfmt") = {}
      <3>1. CASE r.type = "computefmt"
        <4>1. r.next - 1 \in p .. Len(a) /\ a[r.next - 1].kind = "computefmt"
          BY <1>4, <1>11, <3>1
        <4>2. Read(a, p, r.next - 1, "rowfmt") = {}
          BY <1>1, <1>2, <2>0 DEF Read
        <4>. QED  BY <4>1, <4>2
      <3>2. CASE r.type \in {"row", "compute"}
        <4>1. ~Returns(a, F, r.next - 1) \/ r.type # a[r.next - 1].kind
          BY <1>0, <3>2 DEF Returns, Class, Dones
        <4>2. r.next \in p .. Len(a) /\ r.type = a[r.next].kind
          BY <1>1, <1>2, <1>3, <1>11, <4>1
        <4>. QED  BY <2>0, <3>2, <4>2
      <3>. QED  BY <1>11, <3>1, <3>2
    <2>3. IsAnswer(a) /\ p \in 1 .. Len(a)
      BY <1>1, <2>2 DEF Stream
    <2>4. \E f \in Open(a, p) : \A i \in f .. n : a[i].kind \notin Dones
      BY <2>2, <2>3, RowsAreOfOpen
    <2>. QED  BY <2>1, <2>4
  <1>12. ASSUME r.rc = "NO_MORE_RESULTS", p # Len(a) + 1
         PROVE  FALSE
    <2>1. r.next = Len(a) + 1
      BY <1>1, <1>12, LoopReturns
    <2>2. IsAnswer(a) /\ Len(a) \in p .. r.next - 1
      BY <1>1, <1>12, <2>1 DEF Stream
    <2>3. a[Len(a)].kind # "eof"
      BY <1>1, <2>2, LoopReads
    <2>4. a[Len(a)].kind \in Dones
      BY <2>2, <2>3, AnswerTypes DEF Final
    <2>. QED  BY <1>6, <1>12, <2>2, <2>4
  <1>. QED  BY <1>7, <1>8, <1>9, <1>10, <1>11, <1>12

(* A call that looks for the end of the rows (it stops at nothing but row  *)
(* formats and returns at DONE tokens): unless it found a row, or the      *)
(* connection is lost, no result set is open after it.                     *)
LEMMA EndCall ==
    ASSUME NEW a, Stream(a), NEW p \in 1 .. Len(a) + 1, \A j \in 1 .. p - 1 : a[j].kind # "eof",
           NEW flag, flag.stopat = {"ROWFMT"}, "DONE" \in flag.return,
           flag.return \subseteq {"DONE", "ROW", "COMPUTE"},
           NEW r, r = tds_process_tokens(a, p, flag),
           r.rc # "FAIL", r.rc = "SUCCESS" => r.type \notin {"row", "compute"}
    PROVE  Open(a, r.next) = {}
  <1>1. Len(a) \in Nat
    BY AnswerTypes DEF Stream
  <1>2. r.next \in p .. Len(a) + 1 /\ Read(a, p, r.next, "rowfmt") = {}
    <2>1. "ROWFMT" \in flag.stopat
      OBVIOUS
    <2>2. r.next \in p .. Len(a) + 1
      BY LoopReads
    <2>3. Read(a, p, r.next, "rowfmt") = {}
      BY <2>1, StopsAtFormats
    <2>. QED  BY <2>2, <2>3
  <1>3. r.rc \in {"SUCCESS", "FAIL", "NO_MORE_RESULTS"} /\ r.type \in Kinds
    BY LoopReturns
  <1>4. CASE r.rc = "NO_MORE_RESULTS"
    <2>1. r.next = Len(a) + 1
      BY <1>4, LoopReturns
    <2>2. \A j \in p .. r.next - 1 : a[j].kind # "eof"
      BY LoopReads
    <2>3. a # <<>> => Len(a) \in 1 .. Len(a)
      BY <1>1, AnswerTypes DEF Stream
    <2>4. a # <<>> => a[Len(a)].kind # "eof"
      BY <1>1, <2>1, <2>2, <2>3
    <2>. QED  BY <2>1, <2>4, EndCloses
  <1>5. CASE r.rc = "SUCCESS"
    <2>1. \/ r.next <= Len(a) /\ StopsAt(a, flag, r.next) /\ r.type = a[r.next].kind
          \/ /\ r.next - 1 >= p /\ Returns(a, flag, r.next - 1)
             /\ r.type = a[r.next - 1].kind
      BY <1>5, LoopReturns
    <2>2. CASE r.next <= Len(a) /\ StopsAt(a, flag, r.next) /\ r.type = a[r.next].kind
      <3>1. a[r.next].kind = "rowfmt"
        BY <1>3, <2>2 DEF StopsAt, Class, Dones, Kinds
      <3>2. r.next \in 1 .. Len(a) /\ IsAnswer(a)
        BY <1>1, <1>2, <2>2 DEF Stream
      <3>. QED  BY <3>1, <3>2, FormatNeedsNone
    <2>3. CASE /\ r.next - 1 >= p /\ Returns(a, flag, r.next - 1)
               /\ r.type = a[r.next - 1].kind
      <3>1. a[r.next - 1].kind \in Dones
        BY <1>3, <1>5, <2>3 DEF Returns, Class, Dones, Kinds
      <3>2. r.next - 1 \in p .. r.next - 1
        BY <1>1, <1>2, <2>3
      <3>. QED  BY <1>2, <3>1, <3>2, DoneCloses
    <2>. QED  BY <2>1, <2>2, <2>3
  <1>. QED  BY <1>3, <1>4, <1>5

(* A call that stops at DONE tokens ends no result set.                    *)
LEMMA StopsAtDones ==
    ASSUME NEW a, Stream(a), NEW p \in 1 .. Len(a) + 1, NEW flag, "DONE" \in flag.stopat,
           NEW r, r = tds_process_tokens(a, p, flag)
    PROVE  \A j \in p .. r.next - 1 : a[j].kind \notin Dones
  <1>1. \A j \in p .. r.next - 1 : ~StopsAt(a, flag, j)
    BY LoopReads
  <1>. QED  BY <1>1 DEF StopsAt, Class, Dones

(* While a result set is open no other one begins.                         *)
LEMMA OpenIsLast ==
    ASSUME NEW a, IsAnswer(a), NEW n \in 1 .. Len(a), NEW f \in 1 .. n, a[f].kind = "rowfmt",
           \A i \in f .. n : a[i].kind \notin Dones
    PROVE  \A j \in f + 1 .. n : a[j].kind # "rowfmt"
  <1>1. Len(a) \in Nat /\ DOMAIN a = 1 .. Len(a)
    BY AnswerTypes
  <1>2. ASSUME NEW j \in f + 1 .. n, a[j].kind = "rowfmt"
        PROVE  FALSE
    <2>1. f \in DOMAIN a /\ j \in DOMAIN a /\ f < j
      BY <1>1
    <2>2. PICK i \in f .. j : a[i].kind \in Dones
      BY <1>2, <2>1 DEF IsAnswer
    <2>3. i \in f .. n
      BY <1>1
    <2>. QED  BY <2>2, <2>3
  <1>. QED  BY <1>2

----------------------------------------------------------------------------
(* The inductive invariant.  What the properties say of the state of the   *)
(* program (dbresults_state) rests on the result sets that were read so    *)
(* far, of which at most one is open (begun and not ended by a DONE).      *)
Fmts == Read(answer, 1, pos, "rowfmt")
Opened == Open(answer, pos)
Pending == Fmts \ (announced \cup excused)

(* A lost connection is never read past.                                   *)
EofIsNotRead == \A j \in 1 .. pos - 1 : answer[j].kind # "eof"

(* res_info is the open result set, or one that was read before.           *)
OpenIsCurrent == ~dead => Opened \subseteq {res_info}
CurrentIsRead == res_info = 0 \/ res_info \in Fmts
AnnouncedAreRead == announced \subseteq Fmts

(* dbresults_state knows whether the open result set was announced.        *)
StateKnows ==
    ~dead => \A f \in Opened :
        /\ dbresults_state = "RESULTSET_EMPTY" => f \notin announced
        /\ dbresults_state = "RESULTSET_ROWS" => f \in announced
        /\ dbresults_state \notin {"NEXT_RESULT", "SUCCEED", "NO_MORE_RESULTS"}

(* A result set that is still to be announced is the open one.             *)
PendingIsOpen ==
    ~dead => /\ Pending \subseteq Opened
             /\ Pending # {} => dbresults_state = "RESULTSET_EMPTY"

(* The state in which each loop runs.                                      *)
LoopStates ==
    /\ in # "app" => ~dead
    /\ in = "dbsqlok" => Fmts = {}
    /\ in = "dbresults" => dbresults_state \in {"INIT", "RESULTSET_EMPTY", "NEXT_RESULT"}
    /\ in = "dbnextrow" => dbresults_state = "RESULTSET_ROWS"
    /\ dbresults_state = "RESULTSET_EMPTY" => res_info # 0
    /\ dbresults_state = "NO_MORE_RESULTS" /\ ~dead => idle

Sets == OpenIsCurrent /\ CurrentIsRead /\ AnnouncedAreRead
IInv == /\ TypeOK /\ EofIsNotRead /\ Sets
        /\ StateKnows /\ PendingIsOpen /\ LoopStates /\ NoRowIsSwallowed

-----------------------------------------------------------------------------
(* The parts of TypeOK.                                                    *)
Where == /\ answer \in Answers \cup Acks \cup {<<>>} /\ pos \in 1 .. Len(answer) + 1
         /\ res_info \in 0 .. Len(answer)
History == /\ taken \subseteq DOMAIN answer /\ dropped \subseteq DOMAIN answer
           /\ announced \subseteq DOMAIN answer /\ excused \subseteq DOMAIN answer
Control == /\ dead \in BOOLEAN /\ param_info \in BOOLEAN /\ dbresults_state \in States
           /\ command_state \in {"NONE", "PEND", "SENT"} /\ dbbuf \in 0 .. MaxCommands
           /\ dboptcmd \in BOOLEAN /\ rpc \in 0 .. MaxProcs
           /\ in \in Loops \cup {"app"} /\ todo \in Seq(Calls) /\ q \in 0 .. MaxQueries

(* Every variable is in one of them.                                       *)
LEMMA TypeParts == TypeOK <=> Where /\ History /\ Control
  BY DEF TypeOK, Where, History, Control

(* What a session holds is an answer.                                      *)
LEMMA AnswersAre ==
    ASSUME NEW a \in Answers \cup Acks
    PROVE  IsAnswer(a) /\ Stream(a) /\ Len(a) \in Nat \ {0} /\ DOMAIN a = 1 .. Len(a)
  <1>1. IsAnswer(a)
    BY AnswersAssumption
  <1>. QED  BY <1>1, AnswerTypes DEF Stream

(* The session of a state.                                                 *)
LEMMA SessionIs ==
    ASSUME Where
    PROVE  /\ Stream(answer) /\ Len(answer) \in Nat /\ DOMAIN answer = 1 .. Len(answer)
           /\ pos \in 1 .. Len(answer) + 1 /\ res_info \in 0 .. Len(answer)
  <1>1. CASE answer = <<>>
    BY <1>1 DEF Stream, Where
  <1>2. CASE answer \in Answers \cup Acks
    BY <1>2, AnswersAre DEF Where
  <1>. QED  BY <1>1, <1>2 DEF Where

-----------------------------------------------------------------------------
(* A step that reads tokens, none of them a row format.                    *)
Passes == /\ answer' = answer /\ pos' \in pos .. Len(answer) + 1
          /\ Read(answer, pos, pos', "rowfmt") = {}
          /\ \A j \in pos .. pos' - 1 : answer[j].kind # "eof"

(* Such a step begins no result set.                                       *)
LEMMA PassesKeeps ==
    ASSUME IInv, Passes
    PROVE  /\ Fmts' = Fmts /\ Opened' \subseteq Opened /\ EofIsNotRead'
           /\ pos' \in 1 .. Len(answer') + 1
  <1>1. /\ Stream(answer) /\ Len(answer) \in Nat /\ DOMAIN answer = 1 .. Len(answer)
        /\ pos \in 1 .. Len(answer) + 1
    BY TypeParts, SessionIs DEF IInv
  <1>2. PICK n \in pos .. Len(answer) + 1 : n = pos'
    BY DEF Passes
  <1>3. /\ Read(answer, 1, n, "rowfmt") = Read(answer, 1, pos, "rowfmt")
        /\ Open(answer, n) \subseteq Open(answer, pos)
    BY <1>1, <1>2, OpenShrinks DEF Passes
  <1>4. Fmts' = Read(answer, 1, n, "rowfmt") /\ Opened' = Open(answer, n)
    BY <1>2 DEF Passes, Fmts, Opened
  <1>5. EofIsNotRead'
    BY <1>1, <1>2 DEF IInv, EofIsNotRead, Passes
  <1>6. pos' \in 1 .. Len(answer') + 1
    BY <1>1, <1>2 DEF Passes
  <1>. QED  BY <1>3, <1>4, <1>5, <1>6 DEF Fmts, Opened

(* The rows that a step reads are taken or dropped.                        *)
RowsAreKept == /\ taken \subseteq taken' /\ dropped \subseteq dropped'
               /\ Rows(pos, pos') \subseteq taken' \cup dropped'

(* Then none is swallowed.                                                 *)
LEMMA KeptIsEnough ==
    ASSUME Where, NoRowIsSwallowed, answer' = answer, pos' \in pos .. Len(answer) + 1, RowsAreKept
    PROVE  NoRowIsSwallowed'
  <1>1. Len(answer) \in Nat /\ pos \in 1 .. Len(answer) + 1
    BY SessionIs
  <1>2. Rows(1, pos)' \subseteq Rows(1, pos) \cup Rows(pos, pos')
    BY <1>1 DEF Rows, Read
  <1>. QED  BY <1>2 DEF NoRowIsSwallowed, RowsAreKept

(* A step that neither reads nor reports.                                  *)
LEMMA StillKeeps ==
    ASSUME IInv, UNCHANGED <<answer, pos, res_info, taken, dropped, announced, dead>>,
           excused \subseteq excused', excused' \subseteq DOMAIN answer
    PROVE  Where' /\ History' /\ EofIsNotRead' /\ Sets' /\ NoRowIsSwallowed'
           /\ Opened' = Opened /\ Fmts' = Fmts /\ Pending' \subseteq Pending
  <1>1. Where /\ History
    BY TypeParts DEF IInv
  <1>2. Where' /\ History'
    BY <1>1 DEF Where, History
  <1>3. Opened' = Opened /\ Fmts' = Fmts /\ Pending' \subseteq Pending
    BY DEF Opened, Fmts, Pending
  <1>4. Sets'
    BY <1>3 DEF IInv, Sets, OpenIsCurrent, CurrentIsRead, AnnouncedAreRead
  <1>5. EofIsNotRead' /\ NoRowIsSwallowed'
    BY DEF IInv, EofIsNotRead, NoRowIsSwallowed, Rows
  <1>. QED  BY <1>2, <1>3, <1>4, <1>5

(* A step that reads tokens but no row format, and announces nothing.      *)
LEMMA QuietKeeps ==
    ASSUME IInv, ~dead, Passes, RowsAreKept, res_info' = res_info, announced' = announced,
           taken' \subseteq DOMAIN answer, dropped' \subseteq DOMAIN answer,
           excused \subseteq excused', excused' \subseteq DOMAIN answer
    PROVE  Where' /\ History' /\ EofIsNotRead' /\ Sets' /\ NoRowIsSwallowed'
           /\ Opened' \subseteq Opened /\ Fmts' = Fmts /\ Pending' \subseteq Pending
  <1>1. Where /\ History
    BY TypeParts DEF IInv
  <1>2. Fmts' = Fmts /\ Opened' \subseteq Opened /\ EofIsNotRead' /\ pos' \in 1 .. Len(answer') + 1
    BY PassesKeeps
  <1>3. Where' /\ History'
    BY <1>1, <1>2 DEF Where, History, Passes
  <1>4. Pending' \subseteq Pending
    BY <1>2 DEF Pending
  <1>5. Sets'
    BY <1>2 DEF IInv, Sets, OpenIsCurrent, CurrentIsRead, AnnouncedAreRead
  <1>6. NoRowIsSwallowed'
    BY <1>1, KeptIsEnough DEF IInv, Passes
  <1>. QED  BY <1>2, <1>3, <1>4, <1>5, <1>6

(* A call of the loop that stops at row formats passes none.               *)
LEMMA AdvancePasses ==
    ASSUME Where, NEW flag, "ROWFMT" \in flag.stopat,
           NEW r, r = tds_process_tokens(answer, pos, flag), Advance(r)
    PROVE  Passes /\ res_info' = res_info /\ pos' = r.next
  <1>1. /\ Stream(answer) /\ Len(answer) \in Nat /\ pos \in 1 .. Len(answer) + 1
        /\ res_info \in 0 .. Len(answer)
    BY SessionIs
  <1>2. /\ r.next \in pos .. Len(answer) + 1
        /\ \A j \in pos .. r.next - 1 : answer[j].kind # "eof"
    BY <1>1, LoopReads
  <1>3. Read(answer, pos, r.next, "rowfmt") = {}
    BY <1>1, StopsAtFormats
  <1>4. pos' = r.next /\ answer' = answer /\ res_info' = ResInfo(answer, pos, r.next, res_info)
    BY DEF Advance
  <1>5. res_info' = res_info
    BY <1>1, <1>2, <1>3, <1>4, ResInfoIs
  <1>. QED  BY <1>2, <1>3, <1>4, <1>5 DEF Passes

(* Tokens that are read are tokens of the answer.                          *)
LEMMA ReadInAnswer ==
    ASSUME Where, NEW n \in 1 .. Len(answer) + 1, NEW m \in 1 .. Len(answer) + 1, NEW kind
    PROVE  Read(answer, m, n, kind) \subseteq DOMAIN answer
  <1>1. Len(answer) \in Nat /\ DOMAIN answer = 1 .. Len(answer)
    BY SessionIs
  <1>. QED  BY <1>1 DEF Read

(* Formats that are not announced.                                         *)
LEMMA UnannouncedIs ==
    ASSUME Where
    PROVE  /\ Unannounced \subseteq DOMAIN answer
           /\ \A n : Ended(n) \subseteq Unannounced
  <1>1. Len(answer) \in Nat /\ 1 \in 1 .. Len(answer) + 1 /\ pos \in 1 .. Len(answer) + 1
    BY SessionIs
  <1>2. Unannounced \subseteq DOMAIN answer
    BY <1>1, ReadInAnswer DEF Unannounced
  <1>. QED  BY <1>2 DEF Ended

(* A request that is sent begins a new answer.                             *)
LEMMA SubmitKeeps ==
    ASSUME NEW answers, answers \subseteq Answers \cup Acks, Submit(answers), in' = "app",
           dbresults_state' = "INIT"
    PROVE  /\ Where' /\ History' /\ EofIsNotRead' /\ Sets' /\ NoRowIsSwallowed'
           /\ StateKnows' /\ PendingIsOpen' /\ LoopStates'
  <1>0. /\ answer' \in answers /\ pos' = 1 /\ dead' = FALSE /\ res_info' = 0
        /\ taken' = {} /\ dropped' = {} /\ announced' = {} /\ excused' = {}
    BY DEF Submit
  <1>1. answer' \in Answers \cup Acks /\ Len(answer') \in Nat
    BY <1>0, AnswersAre
  <1>2. Where' /\ History'
    BY <1>0, <1>1 DEF Where, History
  <1>3. Fmts' = {} /\ Opened' = {} /\ Pending' = {}
    BY <1>0 DEF Fmts, Opened, Pending, Open, Read
  <1>4. Sets'
    BY <1>0, <1>3 DEF Sets, OpenIsCurrent, CurrentIsRead, AnnouncedAreRead
  <1>5. EofIsNotRead' /\ NoRowIsSwallowed'
    BY <1>0 DEF EofIsNotRead, NoRowIsSwallowed, Rows, Read
  <1>6. StateKnows' /\ PendingIsOpen'
    BY <1>3 DEF StateKnows, PendingIsOpen
  <1>7. LoopStates'
    BY <1>0 DEF LoopStates
  <1>. QED  BY <1>2, <1>4, <1>5, <1>6, <1>7

(* The trailing tokens of an answer contain no row and no row format.      *)
LEMMA TrailingPasses ==
    ASSUME IInv, ~dead, Advance(Trailing), UNCHANGED <<taken, dropped, announced>>,
           excused \subseteq excused', excused' \subseteq excused \cup Unannounced
    PROVE  /\ Where' /\ History' /\ EofIsNotRead' /\ Sets' /\ NoRowIsSwallowed'
           /\ Opened' \subseteq Opened /\ Fmts' = Fmts /\ Pending' \subseteq Pending
           /\ Passes /\ res_info' = res_info /\ pos' = Trailing.next
  <1>0. Where /\ History
    BY TypeParts DEF IInv
  <1>1. PICK flag : flag = TDS_TOKEN_TRAILING
    OBVIOUS
  <1>2. "ROWFMT" \in flag.stopat /\ "ROW" \in flag.stopat /\ "COMPUTE" \in flag.stopat
    BY <1>1 DEF TDS_TOKEN_TRAILING, Flags
  <1>3. PICK r : r = Trailing
    OBVIOUS
  <1>4. r = tds_process_tokens(answer, pos, flag) /\ Advance(r)
    BY <1>1, <1>3 DEF Trailing
  <1>5. Passes /\ res_info' = res_info /\ pos' = r.next
    BY <1>0, <1>2, <1>4, AdvancePasses
  <1>6. Stream(answer) /\ pos \in 1 .. Len(answer) + 1
    BY <1>0, SessionIs
  <1>7. Read(answer, pos, r.next, "row") = {} /\ Read(answer, pos, r.next, "compute") = {}
    BY <1>2, <1>4, <1>6, StopsAtRows
  <1>8. RowsAreKept
    BY <1>5, <1>7 DEF RowsAreKept, Rows
  <1>9. /\ taken' \subseteq DOMAIN answer /\ dropped' \subseteq DOMAIN answer
        /\ excused' \subseteq DOMAIN answer
    BY <1>0, UnannouncedIs DEF History
  <1>10. /\ Where' /\ History' /\ EofIsNotRead' /\ Sets' /\ NoRowIsSwallowed'
         /\ Opened' \subseteq Opened /\ Fmts' = Fmts /\ Pending' \subseteq Pending
    BY <1>5, <1>8, <1>9, QuietKeeps
  <1>. QED  BY <1>3, <1>5, <1>10

(* A call that reads no row format and leaves dbresults_state as it is, if *)
(* what it lets end unannounced is excused.                                *)
LEMMA SameState ==
    ASSUME IInv, ~dead, Passes, res_info' = res_info, announced' = announced,
           Opened' \subseteq Opened, Pending' \subseteq Pending, Pending' \cap Ended(pos') = {},
           dbresults_state' = dbresults_state, in' = "app"
    PROVE  StateKnows' /\ PendingIsOpen' /\ LoopStates'
  <1>1. StateKnows'
    BY DEF IInv, StateKnows
  <1>2. ASSUME NEW f \in Pending'
        PROVE  f \in Opened' /\ dbresults_state = "RESULTSET_EMPTY"
    <2>1. f \in Pending /\ f \in Opened /\ dbresults_state = "RESULTSET_EMPTY"
      BY <1>2 DEF IInv, PendingIsOpen
    <2>2. f \in Unannounced
      BY <2>1 DEF Pending, Fmts, Unannounced
    <2>3. \A j \in f .. pos' - 1 : answer[j].kind \notin Dones
      BY <1>2, <2>2 DEF Ended
    <2>4. f \in Fmts'
      BY <1>2 DEF Pending
    <2>. QED  BY <2>1, <2>3, <2>4 DEF Opened, Open, Fmts, Passes
  <1>3. PendingIsOpen'
    BY <1>2 DEF PendingIsOpen
  <1>4. LoopStates'
    <2>1. Len(answer) \in Nat /\ pos \in 1 .. Len(answer) + 1
      BY TypeParts, SessionIs DEF IInv
    <2>2. idle => idle'
      BY <2>1 DEF idle, Passes
    <2>. QED  BY <2>2 DEF IInv, LoopStates
  <1>. QED  BY <1>1, <1>3, <1>4

(* dbnumrets(): trailing tokens are read.                                  *)
LEMMA NumRets ==
    ASSUME IInv, dbnumrets
    PROVE  /\ Where' /\ History' /\ EofIsNotRead' /\ Sets' /\ NoRowIsSwallowed'
           /\ StateKnows' /\ PendingIsOpen' /\ LoopStates'
  <1>0. /\ Advance(Trailing) /\ UNCHANGED <<taken, dropped, announced>>
        /\ excused' = excused \cup Ended(Trailing.next) /\ ~dead /\ in' = "app"
        /\ dbresults_state' = dbresults_state
    BY DEF dbnumrets, Calling
  <1>1. excused \subseteq excused' /\ excused' \subseteq excused \cup Unannounced
    BY <1>0 DEF Ended
  <1>2. /\ Where' /\ History' /\ EofIsNotRead' /\ Sets' /\ NoRowIsSwallowed'
        /\ Opened' \subseteq Opened /\ Fmts' = Fmts /\ Pending' \subseteq Pending
        /\ Passes /\ res_info' = res_info /\ pos' = Trailing.next
    BY <1>0, <1>1, TrailingPasses
  <1>3. Pending' \cap Ended(pos') = {}
    BY <1>0, <1>2 DEF Pending
  <1>4. StateKnows' /\ PendingIsOpen' /\ LoopStates'
    BY <1>0, <1>2, <1>3, SameState
  <1>. QED  BY <1>2, <1>4

(* A request that is refused reads trailing tokens, too.                   *)
LEMMA RefusedKeeps ==
    ASSUME IInv, ~dead, NEW forgotten, Refused(forgotten), forgotten \subseteq Unannounced,
           \/ dbresults_state' = dbresults_state /\ forgotten = Ended(Trailing.next)
           \/ dbresults_state' = "INIT" /\ forgotten = Unannounced
    PROVE  /\ Where' /\ History' /\ EofIsNotRead' /\ Sets' /\ NoRowIsSwallowed'
           /\ StateKnows' /\ PendingIsOpen' /\ LoopStates'
  <1>0. /\ Advance(Trailing) /\ UNCHANGED <<taken, dropped, announced>>
        /\ excused' = excused \cup forgotten /\ in' = "app"
    BY DEF Refused, Return
  <1>1. excused \subseteq excused' /\ excused' \subseteq excused \cup Unannounced
    BY <1>0
  <1>2. /\ Where' /\ History' /\ EofIsNotRead' /\ Sets' /\ NoRowIsSwallowed'
        /\ Opened' \subseteq Opened /\ Fmts' = Fmts /\ Pending' \subseteq Pending
        /\ Passes /\ res_info' = res_info /\ pos' = Trailing.next
    BY <1>0, <1>1, TrailingPasses
  <1>3. CASE dbresults_state' = dbresults_state /\ forgotten = Ended(Trailing.next)
    <2>1. Pending' \cap Ended(pos') = {}
      BY <1>0, <1>2, <1>3 DEF Pending
    <2>2. StateKnows' /\ PendingIsOpen' /\ LoopStates'
      BY <1>0, <1>2, <1>3, <2>1, SameState
    <2>. QED  BY <1>2, <2>2
  <1>4. CASE dbresults_state' = "INIT" /\ forgotten = Unannounced
    <2>1. Pending' = {}
      BY <1>0, <1>2, <1>4 DEF Pending, Unannounced, Fmts
    <2>2. StateKnows' /\ PendingIsOpen' /\ LoopStates'
      BY <1>0, <1>4, <2>1 DEF StateKnows, PendingIsOpen, LoopStates
    <2>. QED  BY <1>2, <2>2
  <1>. QED  BY <1>3, <1>4

(* dbsqlsend(): refused, or an option is sent and its answer read to the   *)
(* end, or the command is sent.                                            *)
LEMMA SqlSend ==
    ASSUME IInv, dbsqlsend
    PROVE  /\ Where' /\ History' /\ EofIsNotRead' /\ Sets' /\ NoRowIsSwallowed'
           /\ StateKnows' /\ PendingIsOpen' /\ LoopStates'
  <1>0. ~dead
    BY DEF dbsqlsend, Calling
  <1>1. CASE Refused(Ended(Trailing.next)) /\ UNCHANGED dbresults_state
    <2>1. Ended(Trailing.next) \subseteq Unannounced
      BY DEF Ended
    <2>. QED  BY <1>0, <1>1, <2>1, RefusedKeeps
  <1>2. CASE /\ dbresults_state' = "INIT" /\ in' = "app"
             /\ \E opt \in Acks :
                   /\ answer' = opt /\ res_info' = 0
                   /\ dead' = (opt[Len(opt)].kind = "eof")
                   /\ pos' = IF dead' THEN Len(opt) ELSE Len(opt) + 1
             /\ taken' = {} /\ dropped' = {} /\ announced' = {} /\ excused' = {}
    <2>1. PICK opt \in Acks : /\ answer' = opt /\ res_info' = 0
                              /\ dead' = (opt[Len(opt)].kind = "eof")
                              /\ pos' = IF dead' THEN Len(opt) ELSE Len(opt) + 1
      BY <1>2
    <2>2. IsAnswer(opt) /\ Len(opt) \in Nat \ {0} /\ DOMAIN opt = 1 .. Len(opt)
      BY AnswersAre
    <2>3. \A j \in 1 .. Len(opt) : opt[j].kind \notin {"rowfmt", "row", "compute"}
      BY <2>2, AnswersAssumption
    <2>4. pos' \in 1 .. Len(opt) + 1
      BY <2>1, <2>2
    <2>5. Where' /\ History'
      BY <1>2, <2>1, <2>2, <2>4 DEF Where, History
    <2>6. Fmts' = {} /\ Opened' = {} /\ Pending' = {}
      BY <2>1, <2>2, <2>3, <2>4 DEF Fmts, Opened, Pending, Open, Read
    <2>7. Sets'
      BY <1>2, <2>1, <2>6 DEF Sets, OpenIsCurrent, CurrentIsRead, AnnouncedAreRead
    <2>8. EofIsNotRead'
      <3>1. \A j \in 1 .. Len(opt) : opt[j].kind = "eof" => j = Len(opt)
        BY <2>2, AnswerTypes
      <3>2. PICK l \in Nat \ {0} : l = Len(opt)
        BY <2>2
      <3>3. PICK n \in 1 .. l + 1 : n = pos'
        BY <2>4, <3>2
      <3>4. opt[l].kind = "eof" => n = l
        BY <2>1, <3>2, <3>3
      <3>5. ASSUME NEW j \in 1 .. n - 1
            PROVE  opt[j].kind # "eof"
        <4>1. j \in 1 .. l /\ (n = l => j # l)
          OBVIOUS
        <4>. QED  BY <3>1, <3>2, <3>4, <4>1
      <3>. QED  BY <2>1, <3>3, <3>5 DEF EofIsNotRead
    <2>9. NoRowIsSwallowed'
      BY <2>1, <2>2, <2>3, <2>4 DEF NoRowIsSwallowed, Rows, Read
    <2>10. StateKnows' /\ PendingIsOpen' /\ LoopStates'
      BY <1>2, <2>6 DEF StateKnows, PendingIsOpen, LoopStates
    <2>. QED  BY <2>5, <2>7, <2>8, <2>9, <2>10
  <1>3. CASE Submit(Answers) /\ dbresults_state' = "INIT" /\ in' = "app"
    BY <1>3, SubmitKeeps
  <1>. QED  BY <1>1, <1>2, <1>3 DEF dbsqlsend, Return

(* dbwritetext(): refused, or sent.                                        *)
LEMMA WriteText ==
    ASSUME IInv, dbwritetext
    PROVE  /\ Where' /\ History' /\ EofIsNotRead' /\ Sets' /\ NoRowIsSwallowed'
           /\ StateKnows' /\ PendingIsOpen' /\ LoopStates'
  <1>0. ~dead /\ dbresults_state' = "INIT"
    BY DEF dbwritetext, Calling
  <1>1. CASE Refused(Unannounced)
    BY <1>0, <1>1, RefusedKeeps
  <1>2. CASE Submit(Acks) /\ in' = "app"
    BY <1>0, <1>2, SubmitKeeps
  <1>. QED  BY <1>1, <1>2 DEF dbwritetext

(* dbrpcsend(): sent, or refused without reading anything.                 *)
LEMMA RpcSend ==
    ASSUME IInv, dbrpcsend
    PROVE  /\ Where' /\ History' /\ EofIsNotRead' /\ Sets' /\ NoRowIsSwallowed'
           /\ StateKnows' /\ PendingIsOpen' /\ LoopStates'
  <1>0. ~dead /\ dbresults_state' = "INIT" /\ in' = "app"
    BY DEF dbrpcsend, Calling
  <1>1. CASE Submit(Answers)
    BY <1>0, <1>1, SubmitKeeps
  <1>2. CASE /\ excused' = excused \cup Unannounced
             /\ UNCHANGED <<sessionVars, q, taken, dropped, announced>>
    <2>1. /\ UNCHANGED <<answer, pos, res_info, taken, dropped, announced, dead>>
          /\ excused \subseteq excused'
      BY <1>2 DEF sessionVars
    <2>2. excused' \subseteq DOMAIN answer
      BY <1>2, TypeParts, UnannouncedIs DEF IInv, History
    <2>3. Where' /\ History' /\ EofIsNotRead' /\ Sets' /\ NoRowIsSwallowed'
          /\ Fmts' = Fmts /\ Pending' \subseteq Pending
      BY <2>1, <2>2, StillKeeps
    <2>4. Pending' = {}
      BY <1>2, <2>3 DEF Pending, Unannounced, Fmts
    <2>5. StateKnows' /\ PendingIsOpen' /\ LoopStates'
      BY <1>0, <2>4 DEF StateKnows, PendingIsOpen, LoopStates
    <2>. QED  BY <2>3, <2>5
  <1>. QED  BY <1>1, <1>2 DEF dbrpcsend

(* dbreadtext(): the rows that are read are taken, and no DONE is read.    *)
LEMMA ReadText ==
    ASSUME IInv, dbreadtext
    PROVE  /\ Where' /\ History' /\ EofIsNotRead' /\ Sets' /\ NoRowIsSwallowed'
           /\ StateKnows' /\ PendingIsOpen' /\ LoopStates'
  <1>0. Where /\ History
    BY TypeParts DEF IInv
  <1>1. PICK flag : flag = Flags({"ROW", "COMPUTE"}, {"ROWFMT", "DONE"})
    OBVIOUS
  <1>2. "ROWFMT" \in flag.stopat /\ "DONE" \in flag.stopat
    BY <1>1 DEF Flags
  <1>3. PICK r : r = tds_process_tokens(answer, pos, flag)
    OBVIOUS
  <1>4. /\ Advance(r) /\ taken' = taken \cup Rows(pos, r.next) /\ in' = "app" /\ ~dead
        /\ dbresults_state' = dbresults_state /\ UNCHANGED <<dropped, announced, excused>>
    BY <1>1, <1>3 DEF dbreadtext, Calling
  <1>5. Passes /\ res_info' = res_info /\ pos' = r.next
    BY <1>0, <1>2, <1>3, <1>4, AdvancePasses
  <1>6. /\ Stream(answer) /\ Len(answer) \in Nat /\ pos \in 1 .. Len(answer) + 1
        /\ pos' \in 1 .. Len(answer) + 1
    BY <1>0, <1>5, SessionIs DEF Passes
  <1>7. \A j \in pos .. r.next - 1 : answer[j].kind \notin Dones
    BY <1>2, <1>3, <1>6, StopsAtDones
  <1>8. RowsAreKept
    BY <1>4, <1>5 DEF RowsAreKept
  <1>9. Rows(pos, pos') \subseteq DOMAIN answer
    BY <1>0, <1>6, ReadInAnswer DEF Rows
  <1>10. /\ taken' \subseteq DOMAIN answer /\ dropped' \subseteq DOMAIN answer
         /\ excused' \subseteq DOMAIN answer /\ excused \subseteq excused'
    BY <1>0, <1>4, <1>5, <1>9 DEF History
  <1>11. /\ Where' /\ History' /\ EofIsNotRead' /\ Sets' /\ NoRowIsSwallowed'
         /\ Opened' \subseteq Opened /\ Fmts' = Fmts /\ Pending' \subseteq Pending
    BY <1>4, <1>5, <1>8, <1>10, QuietKeeps
  <1>12. ASSUME NEW f \in Pending', NEW j \in f .. pos' - 1
         PROVE  answer[j].kind \notin Dones
    <2>1. f \in Opened
      BY <1>4, <1>11 DEF IInv, PendingIsOpen
    <2>2. f \in Nat /\ \A i \in f .. pos - 1 : answer[i].kind \notin Dones
      BY <2>1 DEF Opened, Open, Read
    <2>. QED  BY <1>5, <1>6, <1>7, <2>2
  <1>13. Pending' \cap Ended(pos') = {}
    BY <1>12 DEF Ended
  <1>14. StateKnows' /\ PendingIsOpen' /\ LoopStates'
    BY <1>4, <1>5, <1>11, <1>13, SameState
  <1>. QED  BY <1>11, <1>14

(* dbcanquery(): the rows that are read are dropped, up to the end of the  *)
(* result set.                                                             *)
LEMMA CanQuery ==
    ASSUME IInv, dbcanquery
    PROVE  /\ Where' /\ History' /\ EofIsNotRead' /\ Sets' /\ NoRowIsSwallowed'
           /\ StateKnows' /\ PendingIsOpen' /\ LoopStates'
  <1>0. Where /\ History
    BY TypeParts DEF IInv
  <1>1. PICK flag : flag = Flags({"DONE"}, {"ROWFMT"})
    OBVIOUS
  <1>2. /\ "ROWFMT" \in flag.stopat /\ "DONE" \in flag.return /\ flag.stopat = {"ROWFMT"}
        /\ flag.return \subseteq {"DONE", "ROW", "COMPUTE"} /\ flag.return = {"DONE"}
    BY <1>1 DEF Flags
  <1>3. PICK r : r = tds_process_tokens(answer, pos, flag)
    OBVIOUS
  <1>4. /\ Advance(r) /\ dropped' = dropped \cup Rows(pos, r.next) /\ in' = "app" /\ ~dead
        /\ excused' = excused \cup Ended(r.next) /\ UNCHANGED <<taken, announced>>
        /\ dbresults_state' = IF r.rc = "FAIL" THEN dbresults_state ELSE "NEXT_RESULT"
    BY <1>1, <1>3 DEF dbcanquery, Calling, Return
  <1>5. Passes /\ res_info' = res_info /\ pos' = r.next
    BY <1>0, <1>2, <1>3, <1>4, AdvancePasses
  <1>6. /\ Stream(answer) /\ Len(answer) \in Nat /\ pos \in 1 .. Len(answer) + 1
        /\ pos' \in 1 .. Len(answer) + 1
    BY <1>0, <1>5, SessionIs DEF Passes
  <1>8. RowsAreKept
    BY <1>4, <1>5 DEF RowsAreKept
  <1>9. Rows(pos, pos') \subseteq DOMAIN answer
    BY <1>0, <1>6, ReadInAnswer DEF Rows
  <1>10. /\ taken' \subseteq DOMAIN answer /\ dropped' \subseteq DOMAIN answer
         /\ excused' \subseteq DOMAIN answer /\ excused \subseteq excused'
    BY <1>0, <1>4, <1>5, <1>9, UnannouncedIs DEF History
  <1>11. /\ Where' /\ History' /\ EofIsNotRead' /\ Sets' /\ NoRowIsSwallowed'
         /\ Opened' \subseteq Opened /\ Fmts' = Fmts /\ Pending' \subseteq Pending
    BY <1>4, <1>5, <1>8, <1>10, QuietKeeps
  <1>12. CASE r.rc = "FAIL"
    <2>1. dead' = TRUE /\ dbresults_state' = dbresults_state
      BY <1>4, <1>12 DEF Advance
    <2>. QED  BY <1>4, <1>5, <1>11, <2>1 DEF IInv, StateKnows, PendingIsOpen, LoopStates
  <1>13. CASE r.rc # "FAIL"
    <2>1. r.rc = "SUCCESS" => r.type \notin {"row", "compute"}
      <3>1. r.type \in Kinds /\ (r.rc = "SUCCESS" =>
               \/ r.next <= Len(answer) /\ StopsAt(answer, flag, r.next) /\ r.type = answer[r.next].kind
               \/ /\ r.next - 1 >= pos /\ Returns(answer, flag, r.next - 1)
                  /\ r.type = answer[r.next - 1].kind)
        BY <1>3, <1>6, LoopReturns
      <3>. QED  BY <1>2, <3>1 DEF StopsAt, Returns, Class, Dones
    <2>2. \A j \in 1 .. pos - 1 : answer[j].kind # "eof"
      BY DEF IInv, EofIsNotRead
    <2>3. Open(answer, r.next) = {}
      BY <1>2, <1>3, <1>6, <1>13, <2>1, <2>2, EndCall
    <2>4. Opened' = {}
      BY <1>5, <2>3 DEF Opened, Passes
    <2>5. ASSUME NEW f \in Pending'
          PROVE  FALSE
      <3>1. f \in Fmts' /\ f \notin Ended(pos') /\ f \in Unannounced
        BY <1>4, <1>5, <1>11 DEF Pending, Unannounced, Fmts
      <3>2. \A j \in f .. pos' - 1 : answer[j].kind \notin Dones
        BY <3>1 DEF Ended
      <3>3. f \in Opened'
        BY <1>5, <3>1, <3>2 DEF Opened, Open, Fmts, Passes
      <3>. QED  BY <2>4, <3>3
    <2>6. dbresults_state' = "NEXT_RESULT"
      BY <1>4, <1>13
    <2>. QED  BY <1>4, <1>11, <2>4, <2>5, <2>6 DEF StateKnows, PendingIsOpen, LoopStates
  <1>. QED  BY <1>11, <1>12, <1>13

(* dbcancel(): the rest of the answer is dropped.                          *)
LEMMA Cancel ==
    ASSUME IInv, dbcancel
    PROVE  /\ Where' /\ History' /\ EofIsNotRead' /\ Sets' /\ NoRowIsSwallowed'
           /\ StateKnows' /\ PendingIsOpen' /\ LoopStates'
  <1>0. Where /\ History
    BY TypeParts DEF IInv
  <1>1. /\ Stream(answer) /\ Len(answer) \in Nat /\ DOMAIN answer = 1 .. Len(answer)
        /\ pos \in 1 .. Len(answer) + 1 /\ res_info \in 0 .. Len(answer)
        /\ answer # <<>> => Len(answer) \in 1 .. Len(answer)
    BY <1>0, SessionIs, AnswerTypes DEF Stream
  <1>2. /\ answer' = answer /\ in' = "app" /\ dbresults_state' = dbresults_state /\ ~dead
        /\ UNCHANGED <<taken, announced>>
        /\ res_info' = ResInfo(answer, pos, pos', res_info)
        /\ dropped' = dropped \cup Rows(pos, pos')
        /\ excused' = excused \cup (Read(answer, 1, pos', "rowfmt") \ announced)
    BY DEF dbcancel, Calling
  <1>3. /\ pos' \in pos .. Len(answer) + 1
        /\ \A j \in 1 .. pos' - 1 : answer[j].kind # "eof"
        /\ dead' \/ (pos' = Len(answer) + 1 /\ (answer # <<>> => answer[Len(answer)].kind # "eof"))
    <2>1. CASE answer # <<>> /\ answer[Len(answer)].kind = "eof"
      <3>1. pos' = Len(answer) /\ dead' = TRUE
        BY <2>1 DEF dbcancel
      <3>2. pos # Len(answer) + 1
        BY <1>1, <2>1 DEF IInv, EofIsNotRead
      <3>3. \A j \in 1 .. Len(answer) : answer[j].kind = "eof" => j = Len(answer)
        BY <2>1, <1>1, AnswerTypes DEF Stream
      <3>4. pos' \in pos .. Len(answer) + 1
        BY <1>1, <3>1, <3>2
      <3>a. PICK l \in Nat : l = Len(answer)
        BY <1>1
      <3>5. ASSUME NEW j \in 1 .. l - 1
            PROVE  answer[j].kind # "eof"
        <4>1. j \in 1 .. l /\ j # l
          OBVIOUS
        <4>. QED  BY <3>3, <3>a, <4>1
      <3>. QED  BY <3>1, <3>4, <3>a, <3>5
    <2>2. CASE ~(answer # <<>> /\ answer[Len(answer)].kind = "eof")
      <3>1. pos' = Len(answer) + 1
        BY <2>2 DEF dbcancel
      <3>2. ASSUME NEW j \in 1 .. Len(answer)
            PROVE  answer[j].kind # "eof"
        <4>1. answer # <<>>
          BY <3>2, <1>1
        <4>2. answer[j].kind = "eof" => j = Len(answer)
          BY <1>1, <4>1, AnswerTypes DEF Stream
        <4>. QED  BY <2>2, <4>1, <4>2
      <3>. QED  BY <1>1, <2>2, <3>1, <3>2
    <2>. QED  BY <2>1, <2>2
  <1>4. PICK n \in pos .. Len(answer) + 1 : n = pos'
    BY <1>3
  <1>5. n \in 1 .. Len(answer) + 1 /\ 1 \in 1 .. Len(answer) + 1
    BY <1>1
  <1>6. Read(answer, 1, n, "rowfmt") \subseteq DOMAIN answer /\ Rows(pos, n) \subseteq DOMAIN answer
    BY <1>0, <1>1, <1>5, ReadInAnswer DEF Rows
  <1>7. /\ ResInfo(answer, pos, n, res_info) \in 0 .. Len(answer)
        /\ \/ ResInfo(answer, pos, n, res_info) = res_info
           \/ ResInfo(answer, pos, n, res_info) \in Read(answer, pos, n, "rowfmt")
    BY <1>1, ResInfoIs
  <1>8. Where' /\ History'
    BY <1>0, <1>2, <1>4, <1>5, <1>6, <1>7 DEF Where, History
  <1>9. Fmts' = Read(answer, 1, n, "rowfmt") /\ Fmts \subseteq Fmts'
        /\ Read(answer, pos, n, "rowfmt") \subseteq Fmts'
    BY <1>1, <1>2, <1>4 DEF Fmts, Read
  <1>10. Opened' = {} \/ dead'
    BY <1>1, <1>2, <1>3, EndCloses DEF Opened
  <1>11. Sets'
    <2>1. CurrentIsRead'
      BY <1>2, <1>4, <1>7, <1>9 DEF IInv, Sets, CurrentIsRead
    <2>2. AnnouncedAreRead'
      BY <1>2, <1>9 DEF IInv, Sets, AnnouncedAreRead
    <2>. QED  BY <1>10, <2>1, <2>2 DEF Sets, OpenIsCurrent
  <1>12. EofIsNotRead'
    BY <1>2, <1>3 DEF EofIsNotRead
  <1>13. NoRowIsSwallowed'
    <2>1. RowsAreKept
      BY <1>2 DEF RowsAreKept
    <2>. QED  BY <1>0, <1>2, <1>3, <2>1, KeptIsEnough DEF IInv
  <1>14. Pending' = {}
    BY <1>2, <1>4, <1>9 DEF Pending
  <1>15. StateKnows' /\ PendingIsOpen'
    BY <1>10, <1>14 DEF StateKnows, PendingIsOpen
  <1>16. LoopStates'
    <2>1. res_info # 0 => res_info' # 0
      BY <1>1, <1>2, <1>4, <1>7 DEF Read
    <2>2. dead' \/ idle'
      BY <1>1, <1>2, <1>3 DEF idle
    <2>. QED  BY <1>2, <2>1, <2>2 DEF IInv, LoopStates
  <1>. QED  BY <1>8, <1>11, <1>12, <1>13, <1>15, <1>16

(* dbnextrow(): a row is taken, or the rows have come to their end.        *)
LEMMA NextRow ==
    ASSUME IInv, dbnextrow_turn
    PROVE  /\ Where' /\ History' /\ EofIsNotRead' /\ Sets' /\ NoRowIsSwallowed'
           /\ StateKnows' /\ PendingIsOpen' /\ LoopStates'
  <1>0. Where /\ History
    BY TypeParts DEF IInv
  <1>1. PICK flag : flag = NextRowMask
    OBVIOUS
  <1>2. /\ "ROWFMT" \in flag.stopat /\ "DONE" \in flag.return /\ flag.stopat = {"ROWFMT"}
        /\ flag.return \subseteq {"DONE", "ROW", "COMPUTE"}
        /\ "ROW" \in flag.return /\ "COMPUTE" \in flag.return
    BY <1>1 DEF NextRowMask, Flags
  <1>3. PICK r : r = tds_process_tokens(answer, pos, flag)
    OBVIOUS
  <1>. DEFINE row == r.rc = "SUCCESS" /\ r.type \in {"row", "compute"}
  <1>4. /\ Advance(r) /\ taken' = IF row THEN taken \cup {r.next - 1} ELSE taken
        /\ in = "dbnextrow" /\ UNCHANGED <<dropped, announced, excused>>
        /\ IF r.rc = "SUCCESS" /\ r.type = "doneinproc"
           THEN UNCHANGED <<in, dbresults_state>>
           ELSE /\ in' = "app"
                /\ dbresults_state' = IF row \/ r.rc = "FAIL" THEN dbresults_state ELSE "NEXT_RESULT"
    BY <1>1, <1>3 DEF dbnextrow_turn, Return
  <1>5. ~dead /\ dbresults_state = "RESULTSET_ROWS" /\ Pending = {}
    BY <1>4 DEF IInv, LoopStates, PendingIsOpen
  <1>6. Passes /\ res_info' = res_info /\ pos' = r.next /\ dead' = (r.rc = "FAIL")
    BY <1>0, <1>2, <1>3, <1>4, AdvancePasses DEF Advance
  <1>7. /\ Stream(answer) /\ Len(answer) \in Nat /\ DOMAIN answer = 1 .. Len(answer)
        /\ pos \in 1 .. Len(answer) + 1 /\ pos' \in pos .. Len(answer) + 1
    BY <1>0, <1>6, SessionIs DEF Passes
  <1>8. ASSUME NEW j \in pos .. pos' - 1, answer[j].kind \in {"row", "compute"}
        PROVE  j \in taken'
    <2>1. Returns(answer, flag, j)
      BY <1>2, <1>8 DEF Returns, Class, Dones
    <2>2. \A i \in pos .. r.next - 1 :
             Returns(answer, flag, i) => i = r.next - 1 /\ r.rc = "SUCCESS" /\ r.type = answer[i].kind
      BY <1>3, <1>7, LoopReads
    <2>. QED  BY <1>4, <1>6, <1>8, <2>1, <2>2
  <1>9. RowsAreKept
    BY <1>4, <1>8 DEF RowsAreKept, Rows, Read
  <1>10. taken' \subseteq DOMAIN answer
    <2>1. CASE row
      <3>1. \/ r.next <= Len(answer) /\ StopsAt(answer, flag, r.next) /\ r.type = answer[r.next].kind
            \/ r.next - 1 >= pos
        BY <1>3, <1>7, <2>1, LoopReturns
      <3>2. r.next - 1 >= pos
        BY <1>2, <2>1, <3>1 DEF StopsAt, Class, Dones
      <3>3. r.next - 1 \in DOMAIN answer
        BY <1>6, <1>7, <3>2
      <3>. QED  BY <1>0, <1>4, <2>1, <3>3 DEF History
    <2>2. CASE ~row
      BY <1>0, <1>4, <2>2 DEF History
    <2>. QED  BY <2>1, <2>2
  <1>11. /\ dropped' \subseteq DOMAIN answer /\ excused' \subseteq DOMAIN answer
         /\ excused \subseteq excused' /\ announced' = announced
    BY <1>0, <1>4 DEF History
  <1>12. /\ Where' /\ History' /\ EofIsNotRead' /\ Sets' /\ NoRowIsSwallowed'
         /\ Opened' \subseteq Opened /\ Fmts' = Fmts /\ Pending' \subseteq Pending
    BY <1>5, <1>6, <1>9, <1>10, <1>11, QuietKeeps
  <1>13. r.rc # "FAIL" /\ ~row => Opened' = {}
    <2>1. \A j \in 1 .. pos - 1 : answer[j].kind # "eof"
      BY DEF IInv, EofIsNotRead
    <2>2. r.rc # "FAIL" /\ ~row => Open(answer, r.next) = {}
      BY <1>2, <1>3, <1>7, <2>1, EndCall
    <2>. QED  BY <1>6, <2>2 DEF Opened, Passes
  <1>14. Pending' = {}
    BY <1>5, <1>12
  <1>15. CASE row
    <2>1. in' = "app" /\ dbresults_state' = "RESULTSET_ROWS"
      BY <1>4, <1>5, <1>15
    <2>. QED  BY <1>5, <1>11, <1>12, <1>14, <2>1 DEF IInv, StateKnows, PendingIsOpen, LoopStates
  <1>16. CASE r.rc = "FAIL"
    <2>1. dead' = TRUE /\ in' = "app" /\ dbresults_state' = "RESULTSET_ROWS"
      BY <1>4, <1>5, <1>6, <1>16
    <2>. QED  BY <1>12, <1>14, <2>1 DEF StateKnows, PendingIsOpen, LoopStates
  <1>17. CASE r.rc # "FAIL" /\ ~row
    <2>1. Opened' = {} /\ dead' = FALSE
      BY <1>6, <1>13, <1>17
    <2>2. \/ in' = "dbnextrow" /\ dbresults_state' = "RESULTSET_ROWS"
          \/ in' = "app" /\ dbresults_state' = "NEXT_RESULT"
      BY <1>4, <1>5, <1>17
    <2>. QED  BY <1>12, <1>14, <2>1, <2>2 DEF StateKnows, PendingIsOpen, LoopStates
  <1>. QED  BY <1>12, <1>15, <1>16, <1>17

-----------------------------------------------------------------------------
(* One turn on TDS_TOKEN_RESULTS, the loop of dbsqlok() and dbresults().   *)
LEMMA ResultsRead ==
    ASSUME IInv, ~dead, NEW r, r = tds_process_tokens(answer, pos, TDS_TOKEN_RESULTS),
           answer' = answer, pos' = r.next, UNCHANGED <<taken, dropped, excused>>
    PROVE  /\ pos' \in pos .. Len(answer) + 1 /\ pos' \in 1 .. Len(answer') + 1
           /\ EofIsNotRead' /\ NoRowIsSwallowed'
           /\ Fmts' = Fmts \cup Read(answer, pos, r.next, "rowfmt")
           /\ ~(r.rc = "SUCCESS" /\ r.type = "rowfmt") =>
                 Read(answer, pos, r.next, "rowfmt") = {} /\ Opened' \subseteq Opened
           /\ r.rc = "SUCCESS" /\ r.type \notin Dones \cup {"rowfmt"} => Opened' = Opened
  <1>0. Where
    BY TypeParts DEF IInv
  <1>1. PICK flag : flag = TDS_TOKEN_RESULTS
    OBVIOUS
  <1>2. "ROW" \in flag.stopat /\ "COMPUTE" \in flag.stopat
    BY <1>1 DEF TDS_TOKEN_RESULTS, Flags
  <1>3. /\ Stream(answer) /\ Len(answer) \in Nat
        /\ pos \in 1 .. Len(answer) + 1 /\ r = tds_process_tokens(answer, pos, flag)
    BY <1>0, <1>1, SessionIs
  <1>4. /\ r.next \in pos .. Len(answer) + 1
        /\ \A j \in pos .. r.next - 1 : answer[j].kind # "eof"
    BY <1>3, LoopReads
  <1>5. Read(answer, pos, r.next, "row") = {} /\ Read(answer, pos, r.next, "compute") = {}
    BY <1>2, <1>3, StopsAtRows
  <1>6. RowsAreKept
    BY <1>5 DEF RowsAreKept, Rows
  <1>7. NoRowIsSwallowed'
    BY <1>0, <1>4, <1>6, KeptIsEnough DEF IInv
  <1>8. EofIsNotRead'
    BY <1>3, <1>4 DEF IInv, EofIsNotRead
  <1>9. PICK n \in pos .. Len(answer) + 1 : n = r.next
    BY <1>4
  <1>10. Fmts' = Fmts \cup Read(answer, pos, r.next, "rowfmt")
    BY <1>3, <1>9 DEF Fmts, Read
  <1>11. ASSUME ~(r.rc = "SUCCESS" /\ r.type = "rowfmt")
         PROVE  Read(answer, pos, n, "rowfmt") = {} /\ Opened' \subseteq Opened
    <2>1. Read(answer, pos, r.next, "rowfmt") = {}
      BY <1>3, <1>11, ResultsCall
    <2>2. Open(answer, n) \subseteq Open(answer, pos)
      BY <1>3, <1>9, <2>1, OpenShrinks
    <2>. QED  BY <1>9, <2>1, <2>2 DEF Opened
  <1>12. ASSUME r.rc = "SUCCESS", r.type \notin Dones \cup {"rowfmt"}
         PROVE  Opened' = Opened
    <2>1. \A j \in pos .. r.next - 1 : answer[j].kind \notin Dones
      BY <1>3, <1>12, ResultsCall
    <2>2. ASSUME NEW f \in Opened
          PROVE  f \in Open(answer, n)
      BY <1>3, <1>9, <2>1 DEF Opened, Open, Read
    <2>3. Opened' = Open(answer, n)
      BY <1>9 DEF Opened
    <2>. QED  BY <1>11, <1>12, <2>2, <2>3
  <1>13. pos' \in 1 .. Len(answer') + 1
    BY <1>3, <1>9
  <1>. QED  BY <1>4, <1>7, <1>8, <1>9, <1>10, <1>11, <1>12, <1>13

(* A row format that is read becomes res_info; others leave it.            *)
LEMMA ResultsInfo ==
    ASSUME Where, NEW r, r = tds_process_tokens(answer, pos, TDS_TOKEN_RESULTS)
    PROVE  /\ ResInfo(answer, pos, r.next, res_info) \in 0 .. Len(answer)
           /\ r.rc = "SUCCESS" /\ r.type = "rowfmt" =>
                 ResInfo(answer, pos, r.next, res_info) = r.next - 1
           /\ ~(r.rc = "SUCCESS" /\ r.type = "rowfmt") =>
                 ResInfo(answer, pos, r.next, res_info) = res_info
  <1>1. /\ Stream(answer) /\ Len(answer) \in Nat
        /\ pos \in 1 .. Len(answer) + 1 /\ res_info \in 0 .. Len(answer)
    BY SessionIs
  <1>2. PICK n \in pos .. Len(answer) + 1 : n = r.next
    BY <1>1, LoopReads
  <1>3. PICK i : i = ResInfo(answer, pos, n, res_info)
    OBVIOUS
  <1>4. /\ i \in 0 .. Len(answer)
        /\ Read(answer, pos, n, "rowfmt") = {} => i = res_info
        /\ Read(answer, pos, n, "rowfmt") # {} => i \in Read(answer, pos, n, "rowfmt")
    BY <1>1, <1>2, <1>3, ResInfoIs
  <1>5. /\ r.rc = "SUCCESS" /\ r.type = "rowfmt" => Read(answer, pos, n, "rowfmt") = {n - 1}
        /\ ~(r.rc = "SUCCESS" /\ r.type = "rowfmt") => Read(answer, pos, n, "rowfmt") = {}
    BY <1>1, <1>2, ResultsCall
  <1>. QED  BY <1>2, <1>3, <1>4, <1>5

(* One turn of dbsqlok(): it returns at the first row format.              *)
LEMMA SqlOk ==
    ASSUME IInv, dbsqlok_turn
    PROVE  /\ Where' /\ History' /\ EofIsNotRead' /\ Sets' /\ NoRowIsSwallowed'
           /\ StateKnows' /\ PendingIsOpen' /\ LoopStates'
  <1>0. Where /\ History
    BY TypeParts DEF IInv
  <1>1. PICK r : r = tds_process_tokens(answer, pos, TDS_TOKEN_RESULTS)
    OBVIOUS
  <1>2. /\ in = "dbsqlok" /\ answer' = answer /\ pos' = r.next /\ dead' = (r.rc = "FAIL")
        /\ res_info' = ResInfo(answer, pos, r.next, res_info)
        /\ UNCHANGED <<taken, dropped, announced, excused>>
        /\ in' \in {"app", "dbsqlok"} /\ (in' = "dbsqlok" => r.rc = "SUCCESS" /\ r.type # "rowfmt")
        /\ dbresults_state' =
              IF r.rc # "SUCCESS" THEN dbresults_state
              ELSE IF r.type \in {"rowfmt", "computefmt"} THEN "RESULTSET_EMPTY"
              ELSE IF r.type \notin {"done", "doneproc"} THEN dbresults_state
              ELSE IF ~r.error THEN "SUCCEED"
              ELSE IF r.more THEN "NEXT_RESULT" ELSE "NO_MORE_RESULTS"
    BY <1>1 DEF dbsqlok_turn, Advance, Return, histVars
  <1>3. ~dead /\ Fmts = {} /\ announced = {} /\ Opened = {} /\ Pending = {}
    BY <1>2 DEF IInv, LoopStates, Sets, AnnouncedAreRead, Opened, Open, Fmts, Pending
  <1>4. /\ pos' \in pos .. Len(answer) + 1 /\ pos' \in 1 .. Len(answer') + 1
        /\ EofIsNotRead' /\ NoRowIsSwallowed'
        /\ Fmts' = Fmts \cup Read(answer, pos, r.next, "rowfmt")
        /\ ~(r.rc = "SUCCESS" /\ r.type = "rowfmt") =>
                 Read(answer, pos, r.next, "rowfmt") = {} /\ Opened' \subseteq Opened
    BY <1>1, <1>2, <1>3, ResultsRead
  <1>5. /\ res_info' \in 0 .. Len(answer)
        /\ r.rc = "SUCCESS" /\ r.type = "rowfmt" => res_info' = r.next - 1
        /\ ~(r.rc = "SUCCESS" /\ r.type = "rowfmt") => res_info' = res_info
    BY <1>0, <1>1, <1>2, ResultsInfo
  <1>6. /\ Stream(answer) /\ Len(answer) \in Nat /\ DOMAIN answer = 1 .. Len(answer)
        /\ pos \in 1 .. Len(answer) + 1
    BY <1>0, SessionIs
  <1>7. Where' /\ History'
    BY <1>0, <1>2, <1>4, <1>5 DEF Where, History
  <1>8. CASE r.rc = "SUCCESS" /\ r.type = "rowfmt"
    <2>1. /\ r.next - 1 \in pos .. Len(answer)
          /\ Read(answer, pos, r.next, "rowfmt") = {r.next - 1} /\ Open(answer, r.next) = {r.next - 1}
      BY <1>1, <1>6, <1>8, ResultsCall
    <2>2. /\ Fmts' = {res_info'} /\ Opened' = {res_info'} /\ res_info' # 0
          /\ Pending' \subseteq {res_info'}
      BY <1>2, <1>3, <1>4, <1>5, <1>6, <1>8, <2>1 DEF Opened, Pending
    <2>3. dbresults_state' = "RESULTSET_EMPTY" /\ in' = "app" /\ announced' = {}
      BY <1>2, <1>3, <1>8
    <2>4. Sets'
      BY <2>2, <2>3 DEF Sets, OpenIsCurrent, CurrentIsRead, AnnouncedAreRead
    <2>5. StateKnows' /\ PendingIsOpen' /\ LoopStates'
      BY <2>2, <2>3 DEF StateKnows, PendingIsOpen, LoopStates
    <2>. QED  BY <1>4, <1>7, <2>4, <2>5
  <1>9. CASE ~(r.rc = "SUCCESS" /\ r.type = "rowfmt")
    <2>1. Fmts' = {} /\ Opened' = {} /\ res_info' = res_info /\ Pending' = {}
      BY <1>2, <1>3, <1>4, <1>5, <1>9 DEF Pending
    <2>2. r.rc = "SUCCESS" => r.type \notin {"row", "compute", "computefmt"}
      <3>1. r.rc = "SUCCESS" /\ r.type \in {"row", "compute", "computefmt"} =>
                 Open(answer, pos) # {}
        BY <1>1, <1>6, ResultsCall
      <3>. QED  BY <1>3, <3>1 DEF Opened
    <2>3. Sets'
      BY <1>2, <1>3, <2>1 DEF IInv, Sets, OpenIsCurrent, CurrentIsRead, AnnouncedAreRead
    <2>4. StateKnows' /\ PendingIsOpen'
      BY <2>1 DEF StateKnows, PendingIsOpen
    <2>5. dbresults_state' = "RESULTSET_EMPTY" => res_info' # 0
      <3>1. dbresults_state' = "RESULTSET_EMPTY" => dbresults_state = "RESULTSET_EMPTY"
        BY <1>2, <1>9, <2>2
      <3>. QED  BY <2>1, <3>1 DEF IInv, LoopStates
    <2>6. dbresults_state' = "NO_MORE_RESULTS" => idle'
      <3>1. CASE dbresults_state' = dbresults_state
        <4>1. dbresults_state = "NO_MORE_RESULTS" => pos > Len(answer)
          BY <1>3 DEF IInv, LoopStates, idle
        <4>2. pos > Len(answer) => pos' > Len(answer)
          BY <1>4, <1>6
        <4>. QED  BY <1>2, <3>1, <4>1, <4>2 DEF idle
      <3>2. CASE r.rc = "SUCCESS" /\ r.type \in {"done", "doneproc"} /\ ~r.more
        <4>1. r.next - 1 \in pos .. Len(answer) /\ answer[r.next - 1].kind \in Dones
          BY <1>1, <1>6, <3>2, ResultsCall DEF Dones
        <4>2. r.more = answer[r.next - 1].more
          <5>1. PICK flag : flag = TDS_TOKEN_RESULTS
            OBVIOUS
          <5>a. r = tds_process_tokens(answer, pos, flag)
            BY <1>1, <5>1
          <5>b. r.rc = "SUCCESS" =>
                   \/ r.next <= Len(answer) /\ StopsAt(answer, flag, r.next) /\ r.type = answer[r.next].kind
                   \/ /\ r.next - 1 >= pos /\ Returns(answer, flag, r.next - 1)
                      /\ r.type = answer[r.next - 1].kind /\ r.more = answer[r.next - 1].more
            BY <1>6, <5>a, LoopReturns
          <5>2. \/ StopsAt(answer, flag, r.next) /\ r.type = answer[r.next].kind
                \/ r.more = answer[r.next - 1].more
            BY <3>2, <5>b
          <5>3. flag.stopat = {"ROW", "COMPUTE"}
            BY <5>1 DEF TDS_TOKEN_RESULTS, Flags
          <5>. QED  BY <3>2, <5>2, <5>3 DEF StopsAt, Class, Dones
        <4>3. Final(answer[r.next - 1])
          BY <3>2, <4>1, <4>2 DEF Final
        <4>4. answer # <<>>
          BY <1>6, <4>1
        <4>5. r.next - 1 = Len(answer)
          <5>1. IsAnswer(answer)
            BY <1>6, <4>4 DEF Stream
          <5>2. r.next - 1 \in 1 .. Len(answer)
            BY <1>6, <4>1
          <5>. QED  BY <4>3, <5>1, <5>2, AnswerTypes
        <4>6. pos' > Len(answer)
          BY <1>2, <1>4, <1>6, <4>5
        <4>. QED  BY <1>2, <4>6 DEF idle
      <3>. QED  BY <1>2, <3>1, <3>2
    <2>7. in' = "app" \/ (in' = "dbsqlok" /\ dead' = FALSE)
      BY <1>2
    <2>8. LoopStates'
      BY <2>1, <2>5, <2>6, <2>7 DEF LoopStates
    <2>. QED  BY <1>4, <1>7, <2>3, <2>4, <2>8
  <1>. QED  BY <1>8, <1>9

(* One turn of dbresults().                                                *)
LEMMA Results ==
    ASSUME IInv, dbresults_turn
    PROVE  /\ Where' /\ History' /\ EofIsNotRead' /\ Sets' /\ NoRowIsSwallowed'
           /\ StateKnows' /\ PendingIsOpen' /\ LoopStates'
  <1>0. Where /\ History
    BY TypeParts DEF IInv
  <1>1. PICK r : r = tds_process_tokens(answer, pos, TDS_TOKEN_RESULTS)
    OBVIOUS
  <1>. DEFINE done == r.rc = "SUCCESS" /\ r.type \in Dones
              rows == r.rc = "SUCCESS" /\ r.type \in {"row", "compute"}
              set == dbresults_state = "RESULTSET_EMPTY"
  <1>2. /\ in = "dbresults" /\ pos' = r.next /\ dead' = (r.rc = "FAIL") /\ answer' = answer
        /\ UNCHANGED <<taken, dropped, excused>>
        /\ dbresults_state' =
              IF rows THEN "RESULTSET_ROWS"
              ELSE IF done THEN "NEXT_RESULT"
              ELSE IF r.rc = "SUCCESS" /\ r.type = "rowfmt" THEN "RESULTSET_EMPTY"
              ELSE IF r.rc = "NO_MORE_RESULTS" THEN "NO_MORE_RESULTS"
              ELSE IF r.rc = "FAIL" THEN "INIT" ELSE dbresults_state
    BY <1>1 DEF dbresults_turn
  <1>3. IF done /\ ~set /\ r.type = "done" /\ ~r.error THEN res_info' = 0
        ELSE res_info' = ResInfo(answer, pos, r.next, res_info)
    BY <1>1 DEF dbresults_turn
  <1>4. announced' = IF rows \/ (done /\ set) THEN announced \cup {res_info} ELSE announced
    BY <1>1 DEF dbresults_turn, Ends
  <1>5. \/ in' = "app"
        \/ in' = "dbresults" /\ r.rc = "SUCCESS" /\ ~rows
    BY <1>1, <1>2 DEF dbresults_turn, Return
  <1>6. ~dead /\ dbresults_state \in {"INIT", "RESULTSET_EMPTY", "NEXT_RESULT"}
    BY <1>2 DEF IInv, LoopStates
  <1>7. /\ pos' \in pos .. Len(answer) + 1 /\ pos' \in 1 .. Len(answer') + 1
        /\ EofIsNotRead' /\ NoRowIsSwallowed'
        /\ Fmts' = Fmts \cup Read(answer, pos, r.next, "rowfmt")
        /\ ~(r.rc = "SUCCESS" /\ r.type = "rowfmt") =>
                 Read(answer, pos, r.next, "rowfmt") = {} /\ Opened' \subseteq Opened
        /\ r.rc = "SUCCESS" /\ r.type \notin Dones \cup {"rowfmt"} => Opened' = Opened
    BY <1>1, <1>2, <1>6, ResultsRead
  <1>8. /\ ResInfo(answer, pos, r.next, res_info) \in 0 .. Len(answer)
        /\ r.rc = "SUCCESS" /\ r.type = "rowfmt" =>
              ResInfo(answer, pos, r.next, res_info) = r.next - 1
        /\ ~(r.rc = "SUCCESS" /\ r.type = "rowfmt") =>
              ResInfo(answer, pos, r.next, res_info) = res_info
    BY <1>0, <1>1, ResultsInfo
  <1>9. /\ Stream(answer) /\ Len(answer) \in Nat /\ DOMAIN answer = 1 .. Len(answer)
        /\ pos \in 1 .. Len(answer) + 1
    BY <1>0, SessionIs
  <1>10. Where'
    <2>1. res_info' \in 0 .. Len(answer)
      BY <1>3, <1>8, <1>9
    <2>. QED  BY <1>0, <1>2, <1>7, <2>1 DEF Where
  <1>11. /\ rows => res_info \in Opened
         /\ Opened \subseteq {res_info} /\ Opened \subseteq Fmts
    <2>1. rows => Open(answer, pos) # {}
      BY <1>1, <1>9, ResultsCall
    <2>2. Opened \subseteq {res_info} /\ Opened \subseteq Fmts
      BY <1>6 DEF IInv, Sets, OpenIsCurrent, Opened, Open, Fmts
    <2>. QED  BY <2>1, <2>2 DEF Opened
  <1>12. rows \/ (done /\ set) => res_info \in Fmts
    <2>1. set => res_info \in Fmts
      BY DEF IInv, Sets, CurrentIsRead, LoopStates
    <2>. QED  BY <1>11, <2>1
  <1>13. History'
    <2>1. Fmts \subseteq DOMAIN answer
      <3>1. 1 \in 1 .. Len(answer) + 1
        BY <1>9
      <3>. QED  BY <1>0, <1>9, <3>1, ReadInAnswer DEF Fmts
    <2>2. announced' \subseteq DOMAIN answer
      BY <1>0, <1>4, <1>12, <2>1 DEF History
    <2>. QED  BY <1>0, <1>2, <2>2 DEF History
  <1>14. AnnouncedAreRead'
    BY <1>4, <1>7, <1>12 DEF IInv, Sets, AnnouncedAreRead
  <1>15. Pending \subseteq Opened /\ (Pending # {} => set)
    BY <1>6 DEF IInv, PendingIsOpen
  <1>16. CASE rows
    <2>1. /\ Opened' = Opened /\ res_info' = res_info /\ Fmts' = Fmts /\ announced' = announced \cup {res_info}
          /\ dbresults_state' = "RESULTSET_ROWS" /\ in' = "app"
      BY <1>2, <1>3, <1>4, <1>5, <1>7, <1>8, <1>16 DEF Dones
    <2>2. Pending' = {}
      BY <1>2, <1>11, <1>15, <2>1 DEF Pending
    <2>3. Sets'
      BY <1>11, <1>12, <1>14, <1>16, <2>1 DEF Sets, OpenIsCurrent, CurrentIsRead
    <2>4. StateKnows' /\ PendingIsOpen' /\ LoopStates'
      BY <1>11, <2>1, <2>2 DEF StateKnows, PendingIsOpen, LoopStates
    <2>. QED  BY <1>7, <1>10, <1>13, <2>3, <2>4
  <1>17. CASE done
    <2>1. Open(answer, r.next) = {} /\ r.type # "rowfmt" /\ r.type \notin {"row", "compute"}
      BY <1>1, <1>9, <1>17, ResultsCall DEF Dones
    <2>2. Opened' = {} /\ Fmts' = Fmts /\ (res_info' = 0 \/ res_info' = res_info)
      BY <1>2, <1>3, <1>7, <1>8, <2>1 DEF Opened
    <2>3. dbresults_state' = "NEXT_RESULT" /\ dead' = FALSE
      BY <1>2, <1>17, <2>1
    <2>4. Pending' = {}
      BY <1>2, <1>4, <1>11, <1>15, <1>17, <2>2 DEF Pending
    <2>5. Sets'
      BY <1>14, <2>2 DEF IInv, Sets, OpenIsCurrent, CurrentIsRead
    <2>6. StateKnows' /\ PendingIsOpen' /\ LoopStates'
      BY <1>5, <2>2, <2>3, <2>4 DEF StateKnows, PendingIsOpen, LoopStates
    <2>. QED  BY <1>7, <1>10, <1>13, <2>5, <2>6
  <1>18. CASE r.rc = "SUCCESS" /\ r.type = "rowfmt"
    <2>0. r.type \notin Dones /\ ~rows
      BY <1>18 DEF Dones
    <2>1. /\ r.next - 1 \in pos .. Len(answer)
          /\ Read(answer, pos, r.next, "rowfmt") = {r.next - 1} /\ Open(answer, r.next) = {r.next - 1}
          /\ \A j \in pos .. r.next - 1 : answer[j].kind \notin Dones
      BY <1>1, <1>9, <1>18, <2>0, ResultsCall
    <2>2. PICK n \in pos .. Len(answer) : n = r.next - 1
      BY <2>1
    <2>3. /\ res_info' = n /\ Fmts' = Fmts \cup {n} /\ Opened' = {n} /\ n # 0
          /\ dbresults_state' = "RESULTSET_EMPTY" /\ announced' = announced /\ dead' = FALSE
      <3>1. ~done
        BY <2>0
      <3>2. res_info' = n
        BY <1>3, <1>8, <1>18, <2>2, <3>1
      <3>3. Fmts' = Fmts \cup {n}
        BY <1>7, <2>1, <2>2
      <3>4. Opened' = {n}
        BY <1>2, <2>1, <2>2 DEF Opened
      <3>5. n # 0
        BY <1>9
      <3>6. dbresults_state' = "RESULTSET_EMPTY"
        BY <1>2, <1>18, <2>0, <3>1
      <3>7. announced' = announced
        BY <1>4, <2>0, <3>1
      <3>8. dead' = FALSE
        BY <1>2, <1>18
      <3>. QED  BY <3>2, <3>3, <3>4, <3>5, <3>6, <3>7, <3>8
    <2>4. n \notin announced
      <3>1. n \notin Fmts
        BY <1>9 DEF Fmts, Read
      <3>. QED  BY <3>1 DEF IInv, Sets, AnnouncedAreRead
    <2>5. Pending = {}
      <3>1. ASSUME NEW f \in Opened
            PROVE  f \in Open(answer, n)
        <4>1. /\ f \in 1 .. pos - 1 /\ answer[f].kind = "rowfmt"
              /\ \A j \in f .. pos - 1 : answer[j].kind \notin Dones
          BY DEF Opened, Open, Read
        <4>2. f \in 1 .. n - 1
          BY <1>9, <4>1
        <4>3. r.next \in Nat /\ n \in Nat
          BY <1>2, <1>7, <1>9
        <4>4. \A j \in f .. n - 1 : answer[j].kind \notin Dones
          BY <1>9, <2>1, <2>2, <4>1, <4>3
        <4>. QED  BY <4>1, <4>2, <4>4 DEF Open, Read
      <3>2. Open(answer, n) = {}
        <4>1. IsAnswer(answer) /\ n \in 1 .. Len(answer)
          BY <1>9 DEF Stream
        <4>2. n \in Read(answer, pos, r.next, "rowfmt")
          BY <2>1, <2>2
        <4>3. answer[n].kind = "rowfmt"
          BY <4>2 DEF Read
        <4>. QED  BY <4>1, <4>3, FormatNeedsNone
      <3>. QED  BY <1>15, <3>1, <3>2
    <2>6. Pending' \subseteq {n}
      BY <1>2, <2>3, <2>5 DEF Pending
    <2>7. Sets'
      BY <1>14, <2>3 DEF Sets, OpenIsCurrent, CurrentIsRead
    <2>8. StateKnows' /\ PendingIsOpen' /\ LoopStates'
      BY <1>5, <2>3, <2>4, <2>6 DEF StateKnows, PendingIsOpen, LoopStates
    <2>. QED  BY <1>7, <1>10, <1>13, <2>7, <2>8
  <1>19. CASE r.rc = "SUCCESS" /\ r.type \notin Dones \cup {"rowfmt", "row", "compute"}
    <2>1. /\ Opened' = Opened /\ res_info' = res_info /\ Fmts' = Fmts /\ announced' = announced
          /\ dbresults_state' = dbresults_state /\ dead' = FALSE
      BY <1>2, <1>3, <1>4, <1>7, <1>8, <1>19
    <2>2. Pending' = Pending
      BY <1>2, <2>1 DEF Pending
    <2>3. Sets'
      BY <1>11, <1>14, <2>1 DEF IInv, Sets, OpenIsCurrent, CurrentIsRead
    <2>4. StateKnows' /\ PendingIsOpen'
      BY <1>6, <2>1, <2>2 DEF IInv, StateKnows, PendingIsOpen
    <2>5. LoopStates'
      BY <1>5, <1>6, <2>1 DEF IInv, LoopStates
    <2>. QED  BY <1>7, <1>10, <1>13, <2>3, <2>4, <2>5
  <1>20. CASE r.rc = "NO_MORE_RESULTS"
    <2>1. /\ res_info' = res_info /\ Fmts' = Fmts /\ announced' = announced /\ in' = "app"
          /\ dbresults_state' = "NO_MORE_RESULTS" /\ dead' = FALSE /\ Opened' \subseteq Opened
      BY <1>2, <1>3, <1>4, <1>5, <1>7, <1>8, <1>20
    <2>2. pos = Len(answer) + 1
      BY <1>1, <1>9, <1>20, ResultsCall
    <2>3. answer # <<>> => answer[Len(answer)].kind # "eof"
      <3>1. answer # <<>> => Len(answer) \in 1 .. pos - 1
        BY <1>9, <2>2
      <3>. QED  BY <3>1 DEF IInv, EofIsNotRead
    <2>4. Opened = {}
      BY <1>9, <2>2, <2>3, EndCloses DEF Opened
    <2>5. Opened' = {} /\ Pending' = {}
      BY <1>2, <1>15, <2>1, <2>4 DEF Pending
    <2>6. idle'
      BY <1>2, <1>7, <1>9, <2>2 DEF idle
    <2>7. Sets'
      BY <1>14, <2>1, <2>5 DEF IInv, Sets, OpenIsCurrent, CurrentIsRead
    <2>8. StateKnows' /\ PendingIsOpen' /\ LoopStates'
      BY <2>1, <2>5, <2>6 DEF StateKnows, PendingIsOpen, LoopStates
    <2>. QED  BY <1>7, <1>10, <1>13, <2>7, <2>8
  <1>21. CASE r.rc = "FAIL"
    <2>1. /\ res_info' = res_info /\ Fmts' = Fmts /\ in' = "app"
          /\ dbresults_state' = "INIT" /\ dead' = TRUE
      BY <1>2, <1>3, <1>5, <1>7, <1>8, <1>21
    <2>2. Sets'
      BY <1>14, <2>1 DEF IInv, Sets, OpenIsCurrent, CurrentIsRead
    <2>3. StateKnows' /\ PendingIsOpen' /\ LoopStates'
      BY <2>1 DEF StateKnows, PendingIsOpen, LoopStates
    <2>. QED  BY <1>7, <1>10, <1>13, <2>2, <2>3
  <1>22. r.rc \in {"SUCCESS", "FAIL", "NO_MORE_RESULTS"}
    BY <1>1, <1>9, LoopReturns
  <1>. QED  BY <1>16, <1>17, <1>18, <1>19, <1>20, <1>21, <1>22

-----------------------------------------------------------------------------
(* A call that changes neither the session nor what the program was told.  *)
LEMMA OtherCalls ==
    ASSUME IInv, UNCHANGED <<sessionVars, dbresults_state, in, histVars>>
    PROVE  /\ Where' /\ History' /\ EofIsNotRead' /\ Sets' /\ NoRowIsSwallowed'
           /\ StateKnows' /\ PendingIsOpen' /\ LoopStates'
  <1>0. /\ UNCHANGED <<answer, pos, res_info, taken, dropped, announced, dead, excused>>
        /\ dbresults_state' = dbresults_state /\ in' = in
    BY DEF sessionVars, histVars
  <1>1. excused' \subseteq DOMAIN answer
    BY <1>0, TypeParts DEF IInv, History
  <1>2. Where' /\ History' /\ EofIsNotRead' /\ Sets' /\ NoRowIsSwallowed'
        /\ Opened' = Opened /\ Fmts' = Fmts /\ Pending' \subseteq Pending
    BY <1>0, <1>1, StillKeeps
  <1>3. StateKnows'
    BY <1>0, <1>2 DEF IInv, StateKnows
  <1>4. PendingIsOpen'
    BY <1>0, <1>2 DEF IInv, PendingIsOpen
  <1>5. LoopStates'
    BY <1>0, <1>2 DEF IInv, LoopStates, idle
  <1>. QED  BY <1>2, <1>3, <1>4, <1>5

(* A call that only enters its loop, or dbresults() that answers without   *)
(* reading.                                                                *)
LEMMA Enters ==
    ASSUME IInv, dbsqlok \/ dbnextrow \/ dbresults
    PROVE  /\ Where' /\ History' /\ EofIsNotRead' /\ Sets' /\ NoRowIsSwallowed'
           /\ StateKnows' /\ PendingIsOpen' /\ LoopStates'
  <1>0. /\ UNCHANGED <<answer, pos, res_info, taken, dropped, announced, dead, excused>>
        /\ ~dead
    BY DEF dbsqlok, dbnextrow, dbresults, Enter, Calling, sessionVars, histVars
  <1>1. excused' \subseteq DOMAIN answer
    BY <1>0, TypeParts DEF IInv, History
  <1>2. Where' /\ History' /\ EofIsNotRead' /\ Sets' /\ NoRowIsSwallowed'
        /\ Opened' = Opened /\ Fmts' = Fmts /\ Pending' \subseteq Pending
    BY <1>0, <1>1, StillKeeps
  <1>3. \/ dbresults_state' = dbresults_state
        \/ dbresults_state = "SUCCEED" /\ dbresults_state' = "NEXT_RESULT"
    BY DEF dbsqlok, dbnextrow, dbresults, Enter
  <1>4. StateKnows'
    BY <1>0, <1>2, <1>3 DEF IInv, StateKnows
  <1>5. PendingIsOpen'
    BY <1>0, <1>2, <1>3 DEF IInv, PendingIsOpen
  <1>6. \/ in' = "app"
        \/ in' = "dbsqlok" /\ pos = 1
        \/ in' = "dbnextrow" /\ dbresults_state' = "RESULTSET_ROWS"
        \/ in' = "dbresults" /\ dbresults_state' \in {"INIT", "RESULTSET_EMPTY", "NEXT_RESULT"}
    BY DEF dbsqlok, dbnextrow, dbresults, Enter, Return
  <1>7. pos = 1 => Fmts' = {}
    BY <1>2 DEF Fmts, Read
  <1>8. LoopStates'
    BY <1>0, <1>2, <1>3, <1>6, <1>7 DEF IInv, LoopStates, idle
  <1>. QED  BY <1>2, <1>4, <1>5, <1>8

-----------------------------------------------------------------------------
(* The types of the variables that no token is counted in.  First those    *)
(* that are TRUE or FALSE.                                                 *)
LEMMA ParamInfoIs ==
    ASSUME NEW a, NEW from, NEW to, NEW old
    PROVE  ParamInfo(a, from, to, old) \in BOOLEAN
  BY Zenon DEF ParamInfo

(* The connection, the output parameters and the option to be sent.        *)
LEMMA Truths ==
    ASSUME Control, Next
    PROVE  dead' \in BOOLEAN /\ param_info' \in BOOLEAN /\ dboptcmd' \in BOOLEAN
  <1>0. dead \in BOOLEAN /\ param_info \in BOOLEAN /\ dboptcmd \in BOOLEAN
    BY DEF Control
  <1>1. ASSUME NEW r, Advance(r)
        PROVE  dead' \in BOOLEAN /\ param_info' \in BOOLEAN
    BY <1>1, ParamInfoIs DEF Advance
  <1>2. CASE dbcmd \/ dbfreebuf \/ dbsetopt \/ dbsqlexec \/ dbuse \/ dbrpcinit \/ dbrpcreset
             \/ dbsqlok \/ dbresults \/ dbnextrow
    BY <1>0, <1>2 DEF dbcmd, dbfreebuf, dbsetopt, dbsqlexec, dbuse, dbrpcinit, dbrpcreset,
        dbsqlok, dbresults, dbnextrow, Enter, sessionVars, commandVars
  <1>3. CASE dbsqlok_turn \/ dbnextrow_turn \/ dbreadtext \/ dbcanquery \/ dbnumrets
    <2>1. (\E r : Advance(r)) /\ dboptcmd' = dboptcmd
      BY <1>3 DEF dbsqlok_turn, dbnextrow_turn, dbreadtext, dbcanquery, dbnumrets, commandVars
    <2>. QED  BY <1>0, <1>1, <2>1
  <1>4. CASE dbresults_turn
    <2>1. /\ dboptcmd' = dboptcmd
          /\ dead' = (tds_process_tokens(answer, pos, TDS_TOKEN_RESULTS).rc = "FAIL")
          /\ \/ param_info' = FALSE
             \/ \E to : param_info' = ParamInfo(answer, pos, to, param_info)
      BY <1>4 DEF dbresults_turn, commandVars
    <2>. QED  BY <1>0, <2>1, ParamInfoIs
  <1>5. CASE dbcancel
    <2>1. /\ dboptcmd' = dboptcmd /\ (dead' = TRUE \/ dead' = FALSE)
          /\ param_info' = ParamInfo(answer, pos, pos', param_info)
      BY <1>5 DEF dbcancel, commandVars
    <2>. QED  BY <1>0, <2>1, ParamInfoIs
  <1>6. CASE dbsqlsend
    <2>1. CASE Refused(Ended(Trailing.next))
      BY <1>0, <1>1, <2>1 DEF Refused
    <2>2. CASE /\ dboptcmd' = FALSE
               /\ \E opt \in Acks : param_info' = FALSE /\ dead' = (opt[Len(opt)].kind = "eof")
      BY <2>2
    <2>3. CASE Submit(Answers) /\ dboptcmd' = dboptcmd
      BY <1>0, <2>3 DEF Submit
    <2>. QED  BY <1>6, <2>1, <2>2, <2>3 DEF dbsqlsend
  <1>7. CASE dbwritetext
    <2>1. CASE Refused(Unannounced)
      BY <1>0, <1>1, <2>1 DEF Refused
    <2>2. CASE Submit(Acks) /\ dboptcmd' = dboptcmd
      BY <1>0, <2>2 DEF Submit
    <2>. QED  BY <1>7, <2>1, <2>2 DEF dbwritetext, commandVars
  <1>8. CASE dbrpcsend
    BY <1>0, <1>8 DEF dbrpcsend, Submit, sessionVars
  <1>. QED  BY <1>2, <1>3, <1>4, <1>5, <1>6, <1>7, <1>8 DEF Next

(* What the program was told, its command and the loop that runs.          *)
LEMMA Names ==
    ASSUME Control, Next
    PROVE  /\ dbresults_state' \in States /\ command_state' \in {"NONE", "PEND", "SENT"}
           /\ in' \in Loops \cup {"app"}
  <1>0. /\ dbresults_state \in States /\ command_state \in {"NONE", "PEND", "SENT"}
        /\ in \in Loops \cup {"app"}
    BY DEF Control
  <1>1. dbresults_state' \in {dbresults_state, "INIT", "SUCCEED", "RESULTSET_EMPTY",
                              "RESULTSET_ROWS", "NEXT_RESULT", "NO_MORE_RESULTS"}
    BY DEF Next, dbcmd, dbfreebuf, dbsetopt, dbsqlsend, dbsqlexec, dbuse, dbwritetext, dbrpcinit,
        dbrpcreset, dbrpcsend, dbsqlok, dbsqlok_turn, dbresults, dbresults_turn, dbnextrow,
        dbnextrow_turn, dbreadtext, dbcanquery, dbcancel, dbnumrets, Enter
  <1>2. command_state' \in {command_state, "PEND", "SENT"}
    BY DEF Next, dbcmd, dbfreebuf, dbsetopt, dbsqlsend, dbsqlexec, dbuse, dbwritetext, dbrpcinit,
        dbrpcreset, dbrpcsend, dbsqlok, dbsqlok_turn, dbresults, dbresults_turn, dbnextrow,
        dbnextrow_turn, dbreadtext, dbcanquery, dbcancel, dbnumrets, Enter, Refused, commandVars
  <1>3. in' \in {in, "app", "dbsqlok", "dbresults", "dbnextrow"}
    BY DEF Next, dbcmd, dbfreebuf, dbsetopt, dbsqlsend, dbsqlexec, dbuse, dbwritetext, dbrpcinit,
        dbrpcreset, dbrpcsend, dbsqlok, dbsqlok_turn, dbresults, dbresults_turn, dbnextrow,
        dbnextrow_turn, dbreadtext, dbcanquery, dbcancel, dbnumrets, Enter, Refused, Return
  <1>. QED  BY <1>0, <1>1, <1>2, <1>3 DEF States, Loops

(* Strings in the command buffer, procedures and requests.                 *)
LEMMA Counts ==
    ASSUME Control, Next
    PROVE  dbbuf' \in 0 .. MaxCommands /\ rpc' \in 0 .. MaxProcs /\ q' \in 0 .. MaxQueries
  <1>0. /\ dbbuf \in 0 .. MaxCommands /\ rpc \in 0 .. MaxProcs /\ q \in 0 .. MaxQueries
    BY DEF Control
  <1>1. dbbuf' \in 0 .. MaxCommands
    <2>1. CASE dbcmd \/ dbuse
      <3>1. PICK kept : kept = IF command_state = "SENT" THEN 0 ELSE dbbuf
        OBVIOUS
      <3>2. kept \in Nat /\ kept < MaxCommands /\ dbbuf' = kept + 1
        BY <1>0, <2>1, <3>1 DEF dbcmd, dbuse
      <3>. QED  BY <3>2, BoundsAssumption
    <2>2. CASE ~(dbcmd \/ dbuse)
      <3>1. dbbuf' = dbbuf \/ dbbuf' = 0
        BY <2>2 DEF Next, dbfreebuf, dbsetopt, dbsqlsend, dbsqlexec, dbwritetext, dbrpcinit,
            dbrpcreset, dbrpcsend, dbsqlok, dbsqlok_turn, dbresults, dbresults_turn, dbnextrow,
            dbnextrow_turn, dbreadtext, dbcanquery, dbcancel, dbnumrets, Enter, Refused, commandVars
      <3>. QED  BY <1>0, <3>1, BoundsAssumption
    <2>. QED  BY <2>1, <2>2
  <1>2. rpc' = rpc \/ rpc' = 0 \/ (rpc' = rpc + 1 /\ rpc < MaxProcs)
    BY DEF Next, dbcmd, dbfreebuf, dbsetopt, dbsqlsend, dbsqlexec, dbuse, dbwritetext, dbrpcinit,
        dbrpcreset, dbrpcsend, dbsqlok, dbsqlok_turn, dbresults, dbresults_turn, dbnextrow,
        dbnextrow_turn, dbreadtext, dbcanquery, dbcancel, dbnumrets, Enter, Refused, commandVars
  <1>3. q' = q \/ (q' = q + 1 /\ q < MaxQueries)
    BY DEF Next, dbcmd, dbfreebuf, dbsetopt, dbsqlsend, dbsqlexec, dbuse, dbwritetext, dbrpcinit,
        dbrpcreset, dbrpcsend, dbsqlok, dbsqlok_turn, dbresults, dbresults_turn, dbnextrow,
        dbnextrow_turn, dbreadtext, dbcanquery, dbcancel, dbnumrets, Enter, Refused, Submit, histVars
  <1>. QED  BY <1>0, <1>1, <1>2, <1>3, BoundsAssumption

(* The calls that a call is made of.                                       *)
LEMMA Todo ==
    ASSUME Control, Next
    PROVE  todo' \in Seq(Calls)
  <1>0. todo \in Seq(Calls)
    BY DEF Control
  <1>1. Left \in Seq(Calls)
    BY <1>0 DEF Left
  <1>2. /\ <<>> \in Seq(Calls) /\ <<"dbsqlsend">> \o Left \in Seq(Calls)
        /\ <<"dbsqlsend", "dbsqlok">> \in Seq(Calls) /\ <<"dbsqlok", "dbresults">> \in Seq(Calls)
        /\ <<"dbsqlsend", "dbsqlok", "dbresults", "dbcanquery">> \in Seq(Calls)
    BY <1>1 DEF Calls
  <1>3. todo' \in {todo, <<>>, Left, <<"dbsqlsend">> \o Left, <<"dbsqlsend", "dbsqlok">>,
                   <<"dbsqlok", "dbresults">>, <<"dbsqlsend", "dbsqlok", "dbresults", "dbcanquery">>}
    BY DEF Next, dbcmd, dbfreebuf, dbsetopt, dbsqlsend, dbsqlexec, dbuse, dbwritetext, dbrpcinit,
        dbrpcreset, dbrpcsend, dbsqlok, dbsqlok_turn, dbresults, dbresults_turn, dbnextrow,
        dbnextrow_turn, dbreadtext, dbcanquery, dbcancel, dbnumrets, Enter, Refused, Return
  <1>. QED  BY <1>0, <1>1, <1>2, <1>3

-----------------------------------------------------------------------------
(* The invariant holds for a DBPROCESS that was just opened ...            *)
LEMMA InitIInv == Init => IInv
  <1>. SUFFICES ASSUME Init PROVE IInv
    OBVIOUS
  <1>1. /\ answer = <<>> /\ pos = 1 /\ dead = FALSE /\ res_info = 0 /\ in = "app"
        /\ dbresults_state = "INIT"
        /\ taken = {} /\ dropped = {} /\ announced = {} /\ excused = {}
    BY DEF Init
  <1>2. Fmts = {} /\ Opened = {} /\ Pending = {} /\ Rows(1, pos) = {}
    BY <1>1 DEF Fmts, Opened, Pending, Open, Read, Rows
  <1>3. TypeOK
    <2>1. Where /\ History
      BY <1>1 DEF Where, History
    <2>2. <<>> \in Seq(Calls)
      OBVIOUS
    <2>3. dbbuf = 0 /\ rpc = 0 /\ q = 0 /\ todo = <<>> /\ dboptcmd = FALSE /\ param_info = FALSE
          /\ command_state = "NONE"
      BY DEF Init
    <2>4. dead \in BOOLEAN /\ param_info \in BOOLEAN /\ dboptcmd \in BOOLEAN
      BY <1>1, <2>3
    <2>5. dbresults_state \in States /\ in \in Loops \cup {"app"}
      BY <1>1 DEF States, Loops
    <2>6. dbbuf \in 0 .. MaxCommands /\ rpc \in 0 .. MaxProcs /\ q \in 0 .. MaxQueries
      BY <2>3, BoundsAssumption
    <2>7. Control
      BY <2>2, <2>3, <2>4, <2>5, <2>6 DEF Control
    <2>. QED  BY <2>1, <2>7, TypeParts
  <1>4. EofIsNotRead /\ NoRowIsSwallowed
    BY <1>1, <1>2 DEF EofIsNotRead, NoRowIsSwallowed
  <1>5. Sets /\ StateKnows /\ PendingIsOpen /\ LoopStates
    BY <1>1, <1>2 DEF Sets, OpenIsCurrent, CurrentIsRead, AnnouncedAreRead, StateKnows,
        PendingIsOpen, LoopStates
  <1>. QED  BY <1>3, <1>4, <1>5 DEF IInv

(* ... and no call breaks it.                                              *)
LEMMA NextIInv == IInv /\ [Next]_vars => IInv'
  <1>1. ASSUME IInv, Next
        PROVE  IInv'
    <2>1. Control'
      <3>1. Control
        BY <1>1, TypeParts DEF IInv
      <3>. QED  BY <1>1, <3>1, Truths, Names, Counts, Todo DEF Control
    <2>2. /\ Where' /\ History' /\ EofIsNotRead' /\ Sets' /\ NoRowIsSwallowed'
          /\ StateKnows' /\ PendingIsOpen' /\ LoopStates'
      <3>1. CASE dbcmd \/ dbfreebuf \/ dbsetopt \/ dbsqlexec \/ dbuse \/ dbrpcinit \/ dbrpcreset
        <4>1. UNCHANGED <<sessionVars, dbresults_state, in, histVars>>
          BY <3>1 DEF dbcmd, dbfreebuf, dbsetopt, dbsqlexec, dbuse, dbrpcinit, dbrpcreset
        <4>. QED  BY <1>1, <4>1, OtherCalls
      <3>2. CASE dbsqlok \/ dbnextrow \/ dbresults
        BY <1>1, <3>2, Enters
      <3>3. CASE dbsqlsend
        BY <1>1, <3>3, SqlSend
      <3>4. CASE dbwritetext
        BY <1>1, <3>4, WriteText
      <3>5. CASE dbrpcsend
        BY <1>1, <3>5, RpcSend
      <3>6. CASE dbsqlok_turn
        BY <1>1, <3>6, SqlOk
      <3>7. CASE dbresults_turn
        BY <1>1, <3>7, Results
      <3>8. CASE dbnextrow_turn
        BY <1>1, <3>8, NextRow
      <3>9. CASE dbreadtext
        BY <1>1, <3>9, ReadText
      <3>10. CASE dbcanquery
        BY <1>1, <3>10, CanQuery
      <3>11. CASE dbcancel
        BY <1>1, <3>11, Cancel
      <3>12. CASE dbnumrets
        BY <1>1, <3>12, NumRets
      <3>. QED  BY <1>1, <3>1, <3>2, <3>3, <3>4, <3>5, <3>6, <3>7, <3>8, <3>9, <3>10, <3>11,
                   <3>12 DEF Next
    <2>3. TypeOK'
      BY <2>1, <2>2 DEF TypeOK, Where, History, Control
    <2>. QED  BY <2>2, <2>3 DEF IInv
  <1>2. ASSUME IInv, UNCHANGED vars
        PROVE  IInv'
    <2>1. UNCHANGED <<sessionVars, dbresults_state, in, histVars>>
      BY <1>2 DEF vars, sessionVars, histVars
    <2>2. /\ Where' /\ History' /\ EofIsNotRead' /\ Sets' /\ NoRowIsSwallowed'
          /\ StateKnows' /\ PendingIsOpen' /\ LoopStates'
      BY <1>2, <2>1, OtherCalls
    <2>3. Control
      BY <1>2, TypeParts DEF IInv
    <2>4. Control'
      BY <1>2, <2>3 DEF vars, Control
    <2>5. TypeOK'
      BY <2>2, <2>4 DEF TypeOK, Where, History, Control
    <2>. QED  BY <2>2, <2>5 DEF IInv
  <1>. QED  BY <1>1, <1>2

(* The inductive invariant of db-lib's results holds in every behaviour.   *)
THEOREM Invariant == Spec => []IInv
  BY InitIInv, NextIInv, PTL DEF Spec

(* Every variable keeps its type: the tokens that the program was given,   *)
(* that it discarded or that were announced are tokens of the answer.      *)
THEOREM TypeCorrect == Spec => []TypeOK
  <1>1. IInv => TypeOK
    BY DEF IInv
  <1>. QED  BY <1>1, Invariant, PTL

(* No row is lost: whatever the program calls between the rows, each row   *)
(* that was read was given to it, or discarded because it asked for it.    *)
THEOREM RowsAreSafe == Spec => []NoRowIsSwallowed
  <1>1. IInv => NoRowIsSwallowed
    BY DEF IInv
  <1>. QED  BY <1>1, Invariant, PTL

(* When dbresults() says NO_MORE_RESULTS the answer is read to its end,    *)
(* and every result set of it was announced or excused.                    *)
THEOREM SetsAreAnnounced == Spec => []ResultSetsAreAnnounced
  <1>1. IInv => ResultSetsAreAnnounced
    <2>. SUFFICES ASSUME IInv, dbresults_state = "NO_MORE_RESULTS", ~dead
                  PROVE  idle /\ Fmts \subseteq announced \cup excused
      BY DEF ResultSetsAreAnnounced, Fmts
    <2>1. idle
      BY DEF IInv, LoopStates
    <2>2. Pending = {}
      BY DEF IInv, PendingIsOpen
    <2>. QED  BY <2>1, <2>2 DEF Pending
  <1>. QED  BY <1>1, Invariant, PTL

-----------------------------------------------------------------------------
(* dbresults() gives the rows of the open result set, whose announcement   *)
(* dbresults_state knows of, unless it was set back to INIT.               *)
LEMMA AnnouncedOnce ==
    ASSUME IInv, dbresults_turn, dbresults_state' = "RESULTSET_ROWS", res_info \in announced
    PROVE  dbresults_state = "INIT"
  <1>1. PICK r : r = tds_process_tokens(answer, pos, TDS_TOKEN_RESULTS)
    OBVIOUS
  <1>2. ~dead /\ dbresults_state \in {"INIT", "RESULTSET_EMPTY", "NEXT_RESULT"}
    BY DEF dbresults_turn, IInv, LoopStates
  <1>3. r.rc = "SUCCESS" /\ r.type \in {"row", "compute"}
    BY <1>1, <1>2 DEF dbresults_turn
  <1>4. Stream(answer) /\ pos \in 1 .. Len(answer) + 1
    BY TypeParts, SessionIs DEF IInv
  <1>5. Opened # {}
    BY <1>1, <1>3, <1>4, ResultsCall DEF Opened
  <1>6. res_info \in Opened
    BY <1>2, <1>5 DEF IInv, Sets, OpenIsCurrent
  <1>. QED  BY <1>2, <1>6 DEF IInv, StateKnows

(* A row that dbnextrow() takes is one of the open result set, which is    *)
(* the last one that began and the last one that was announced.            *)
LEMMA TakenFromLast ==
    ASSUME IInv, dbnextrow_turn, taken' # taken
    PROVE  /\ announced # {} /\ Max(announced) = res_info
           /\ \A j \in res_info + 1 .. pos' - 1 : answer[j].kind # "rowfmt"
  <1>0. Where /\ History
    BY TypeParts DEF IInv
  <1>1. PICK flag : flag = NextRowMask
    OBVIOUS
  <1>2. "ROWFMT" \in flag.stopat /\ flag.stopat = {"ROWFMT"}
    BY <1>1 DEF NextRowMask, Flags
  <1>3. PICK r : r = tds_process_tokens(answer, pos, flag)
    OBVIOUS
  <1>4. /\ Advance(r) /\ in = "dbnextrow"
        /\ r.rc = "SUCCESS" /\ r.type \in {"row", "compute"}
    BY <1>1, <1>3 DEF dbnextrow_turn
  <1>5. ~dead /\ dbresults_state = "RESULTSET_ROWS"
    BY <1>4 DEF IInv, LoopStates
  <1>6. Passes /\ pos' = r.next
    BY <1>0, <1>2, <1>3, <1>4, AdvancePasses
  <1>7. /\ Stream(answer) /\ Len(answer) \in Nat /\ DOMAIN answer = 1 .. Len(answer)
        /\ pos \in 1 .. Len(answer) + 1 /\ pos' \in pos .. Len(answer) + 1
    BY <1>0, <1>6, SessionIs DEF Passes
  <1>8. r.next - 1 >= pos /\ r.type = answer[r.next - 1].kind
    <2>1. \/ r.next <= Len(answer) /\ StopsAt(answer, flag, r.next) /\ r.type = answer[r.next].kind
          \/ r.next - 1 >= pos /\ r.type = answer[r.next - 1].kind
      BY <1>3, <1>4, <1>7, LoopReturns
    <2>. QED  BY <1>2, <1>4, <2>1 DEF StopsAt, Class, Dones
  <1>9. PICK n \in pos .. Len(answer) : n = r.next - 1 /\ pos' - 1 = n
    BY <1>6, <1>7, <1>8
  <1>10. /\ n \in 1 .. Len(answer) /\ pos \in 1 .. Len(answer)
         /\ answer[n].kind \in {"row", "compute", "computefmt"}
    BY <1>4, <1>7, <1>8, <1>9
  <1>11. IsAnswer(answer)
    BY <1>7, <1>10 DEF Stream
  <1>12. Read(answer, pos, n, "rowfmt") = {}
    BY <1>6, <1>7, <1>9 DEF Passes, Read
  <1>13. PICK f \in Open(answer, pos) : \A i \in f .. n : answer[i].kind \notin Dones
    BY <1>10, <1>11, <1>12, RowsAreOfOpen
  <1>14. f = res_info /\ f \in announced
    BY <1>5, <1>13 DEF IInv, Sets, OpenIsCurrent, StateKnows, Opened
  <1>15. f \in 1 .. n /\ answer[f].kind = "rowfmt"
    BY <1>7, <1>13 DEF Open, Read
  <1>16. \A j \in f + 1 .. n : answer[j].kind # "rowfmt"
    BY <1>10, <1>11, <1>13, <1>15, OpenIsLast
  <1>17. Max(announced) = f
    <2>1. announced \subseteq 0 .. Len(answer)
      BY <1>0, <1>7 DEF History
    <2>2. Max(announced) \in announced /\ \A y \in announced : y <= Max(announced)
      BY <1>7, <1>14, <2>1, MaxIs
    <2>3. PICK m \in announced : m = Max(announced) /\ f <= m
      BY <1>14, <2>2
    <2>4. m \in 1 .. pos - 1 /\ answer[m].kind = "rowfmt"
      BY DEF IInv, Sets, AnnouncedAreRead, Fmts, Read
    <2>5. m \notin f + 1 .. n
      BY <1>16, <2>4
    <2>6. m = f
      BY <1>7, <1>15, <2>3, <2>4, <2>5
    <2>. QED  BY <2>3, <2>6
  <1>18. \A j \in res_info + 1 .. pos' - 1 : answer[j].kind # "rowfmt"
    BY <1>9, <1>14, <1>16
  <1>. QED  BY <1>14, <1>17, <1>18

(* A result set is announced once, and dbnextrow() gives rows of the one   *)
(* that was announced last; only a refused procedure call or text makes    *)
(* dbresults() announce the rest of the same rows again.                   *)
THEOREM RowsComeAfter == Spec => RowsFollowTheirAnnouncement
  <1>. DEFINE Once == in = "dbresults" /\ dbresults_state' = "RESULTSET_ROWS" /\ res_info \in announced
                        => dbresults_state = "INIT"
              Last == in = "dbnextrow" /\ taken' # taken
                        => /\ announced # {} /\ Max(announced) = res_info
                           /\ \A j \in res_info + 1 .. pos' - 1 : answer[j].kind # "rowfmt"
  <1>1. ASSUME IInv, [Next]_vars
        PROVE  [Once /\ Last]_vars
    <2>1. CASE UNCHANGED vars
      BY <2>1
    <2>2. CASE Next
      <3>1. in = "dbresults" => dbresults_turn
        BY <2>2 DEF Next, dbcmd, dbfreebuf, dbsetopt, dbsqlsend, dbsqlexec, dbuse, dbwritetext,
            dbrpcinit, dbrpcreset, dbrpcsend, dbsqlok, dbsqlok_turn, dbresults, dbnextrow,
            dbnextrow_turn, dbreadtext, dbcanquery, dbcancel, dbnumrets, Calling
      <3>2. in = "dbnextrow" => dbnextrow_turn
        BY <2>2 DEF Next, dbcmd, dbfreebuf, dbsetopt, dbsqlsend, dbsqlexec, dbuse, dbwritetext,
            dbrpcinit, dbrpcreset, dbrpcsend, dbsqlok, dbsqlok_turn, dbresults, dbresults_turn,
            dbnextrow, dbreadtext, dbcanquery, dbcancel, dbnumrets, Calling
      <3>3. Once
        BY <1>1, <3>1, AnnouncedOnce
      <3>4. Last
        BY <1>1, <3>2, TakenFromLast
      <3>. QED  BY <3>3, <3>4
    <2>. QED  BY <1>1, <2>1, <2>2
  <1>2. [][Next]_vars /\ []IInv => RowsFollowTheirAnnouncement
    BY <1>1, PTL DEF RowsFollowTheirAnnouncement
  <1>. QED  BY <1>2, Invariant, PTL DEF Spec
=============================================================================
