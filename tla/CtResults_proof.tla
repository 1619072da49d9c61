-------------------------- MODULE CtResults_proof --------------------------
(***************************************************************************)
(* The results of ct-lib, for every set of answers that a server may send, *)
(* any number of commands on a connection and every sequence of calls: no  *)
(* row is lost; and for a disciplined program, a command gets the rows of  *)
(* its own request, and a fetch finds an answer to read.                   *)
(***************************************************************************)
EXTENDS CtResults, WellFoundedInduction, FiniteSetTheorems, TLAPS

----------------------------------------------------------------------------
(* What one call of the token loop reads, for every answer and all flags.  *)

(* A set of numbers that is not empty has a least one.                     *)
LEMMA HasLeast ==
    ASSUME NEW T, T \subseteq Nat, T # {}
    PROVE  \E x \in T : \A y \in T : x <= y
  <1>1. PICK x \in T : \A y \in T : ~(<<y, x>> \in OpToRel(<, Nat))
    BY NatLessThanWellFounded, WFMin
  <1>2. \A y \in T : ~(y < x)
    BY <1>1 DEF OpToRel
  <1>. QED  BY <1>2
(* Min() gives it.                                                         *)
LEMMA MinIs ==
    ASSUME NEW T, T \subseteq Nat, T # {}
    PROVE  Min(T) \in T /\ \A y \in T : Min(T) <= y
  BY HasLeast DEF Min
(* Max() gives the greatest of a set of numbers with a bound.              *)
LEMMA MaxIs ==
    ASSUME NEW n \in Nat, NEW T, T \subseteq 0 .. n, T # {}
    PROVE  Max(T) \in T /\ \A y \in T : y <= Max(T)
  <1>1. PICK x \in {n - y : y \in T} : \A z \in {n - y : y \in T} : x <= z
    <2>1. \A y \in T : n - y \in Nat
      OBVIOUS
    <2>2. {n - y : y \in T} \subseteq Nat
      BY <2>1
    <2>3. {n - y : y \in T} # {}
      OBVIOUS
    <2>. QED  BY <2>2, <2>3, HasLeast
  <1>2. PICK m \in T : x = n - m
    BY <1>1
  <1>3. ASSUME NEW y \in T
        PROVE  m >= y
    <2>1. n - y \in {n - z : z \in T}
      OBVIOUS
    <2>2. n - m <= n - y
      BY <2>1, <1>1, <1>2
    <2>3. m \in Nat /\ y \in Nat
      OBVIOUS
    <2>. QED  BY <2>2, <2>3
  <1>4. Max(T) \in T /\ \A y \in T : Max(T) >= y
    BY <1>2, <1>3 DEF Max
  <1>. QED  BY <1>4
-----------------------------------------------------------------------------
(* An answer, or what a session has before its first request.              *)
Stream(a) == a = <<>> \/ IsAnswer(a)
(* Where the loop leaves.                                                  *)
At(a, p, flag) == Min({j \in p .. Len(a) : Leaves(a, flag, j)})
(* Its tokens.                                                             *)
LEMMA AnswerTypes ==
    ASSUME NEW a, IsAnswer(a)
    PROVE  /\ Len(a) \in Nat \ {0} /\ DOMAIN a = 1 .. Len(a)
           /\ \A j \in 1 .. Len(a) : a[j].kind \in Kinds /\ a[j].more \in BOOLEAN
                                     /\ a[j].error \in BOOLEAN
           /\ Final(a[Len(a)]) \/ a[Len(a)].kind = "eof"
           /\ \A j \in 1 .. Len(a) : Final(a[j]) \/ a[j].kind = "eof" => j = Len(a)
  <1>1. a \in Seq([kind : Kinds, more : BOOLEAN, error : BOOLEAN]) /\ a # <<>>
    BY DEF IsAnswer
  <1>2. Len(a) \in Nat \ {0} /\ DOMAIN a = 1 .. Len(a)
    BY <1>1
  <1>3. ASSUME NEW j \in 1 .. Len(a)
        PROVE  a[j].kind \in Kinds /\ a[j].more \in BOOLEAN /\ a[j].error \in BOOLEAN
    <2>1. PICK Toks : Toks = [kind : Kinds, more : BOOLEAN, error : BOOLEAN]
      OBVIOUS
    <2>2. a \in Seq(Toks)
      BY <1>1, <2>1
    <2>3. a[j] \in Toks
      BY <2>2
    <2>. QED  BY <2>1, <2>3
  <1>4. \A j \in 1 .. Len(a) : (j = Len(a)) <=> (Final(a[j]) \/ a[j].kind = "eof")
    BY <1>2 DEF IsAnswer
  <1>5. Len(a) \in 1 .. Len(a)
    BY <1>2
  <1>6. Final(a[Len(a)]) \/ a[Len(a)].kind = "eof"
    BY <1>4, <1>5
  <1>7. \A j \in 1 .. Len(a) : Final(a[j]) \/ a[j].kind = "eof" => j = Len(a)
    BY <1>4
  <1>. QED  BY <1>2, <1>3, <1>6, <1>7
(* The loop leaves at the first token that makes it leave: there is one,   *)
(* because the last token of an answer always does.                        *)
LEMMA AtIs ==
    ASSUME NEW a, IsAnswer(a), NEW p \in 1 .. Len(a), NEW flag
    PROVE  /\ At(a, p, flag) \in p .. Len(a)
           /\ Leaves(a, flag, At(a, p, flag))
           /\ \A j \in p .. At(a, p, flag) - 1 : ~Leaves(a, flag, j)
  <1>. DEFINE T == {j \in p .. Len(a) : Leaves(a, flag, j)}
  <1>1. Len(a) \in Nat \ {0}
    BY AnswerTypes
  <1>2. Leaves(a, flag, Len(a))
    BY AnswerTypes DEF Leaves
  <1>3. T \subseteq Nat /\ T # {}
    BY <1>1, <1>2
  <1>4. Min(T) \in T /\ \A y \in T : Min(T) <= y
    <2>. HIDE DEF T
    <2>. QED  BY <1>3, MinIs
  <1>5. At(a, p, flag) = Min(T)
    BY DEF At
  <1>6. Min(T) \in p .. Len(a) /\ Leaves(a, flag, Min(T))
    BY <1>4
  <1>7. ASSUME NEW j \in p .. Min(T) - 1
        PROVE  ~Leaves(a, flag, j)
    <2>1. Min(T) \in Nat /\ j \in p .. Len(a) /\ ~(Min(T) <= j)
      BY <1>1, <1>6
    <2>. QED  BY <2>1, <1>4
  <1>. QED  BY <1>5, <1>6, <1>7
(* What the loop returns when there is something to read.                  *)
LEMMA LoopAt ==
    ASSUME NEW a, IsAnswer(a), NEW p \in 1 .. Len(a), NEW flag, NEW at, at = At(a, p, flag),
           NEW r, r = tds_process_tokens(a, p, flag)
    PROVE  /\ r.rc = IF a[at].kind = "eof" THEN "FAIL"
                     ELSE IF StopsAt(a, flag, at) \/ Returns(a, flag, at) THEN "SUCCESS"
                     ELSE "NO_MORE_RESULTS"
           /\ r.type = a[at].kind /\ r.error = a[at].error /\ r.more = a[at].more
           /\ r.next = IF StopsAt(a, flag, at) \/ a[at].kind = "eof" THEN at ELSE at + 1
  <1>1. Len(a) \in Nat /\ ~(p > Len(a))
    BY AnswerTypes
  <1>. QED  BY <1>1 DEF tds_process_tokens, At
(* The tokens that a call reads.  None of them stops the loop or is where  *)
(* the connection is lost, and if one of them makes it return it is the    *)
(* last one, and the one that the result is about.                         *)
LEMMA LoopReads ==
    ASSUME NEW a, Stream(a), NEW p \in 1 .. Len(a) + 1, NEW flag,
           NEW r, r = tds_process_tokens(a, p, flag)
    PROVE  /\ r.next \in p .. Len(a) + 1
           /\ \A j \in p .. r.next - 1 : ~StopsAt(a, flag, j) /\ a[j].kind # "eof"
           /\ \A j \in p .. r.next - 1 :
                  Returns(a, flag, j) => j = r.next - 1 /\ r.rc = "SUCCESS" /\ r.type = a[j].kind
  <1>1. Len(a) \in Nat
    BY AnswerTypes DEF Stream
  <1>2. CASE p > Len(a)
    <2>1. /\ r.rc = "NO_MORE_RESULTS" /\ r.type = "done" /\ r.next = p
          /\ r.error = FALSE /\ r.more = FALSE
      BY <1>2 DEF tds_process_tokens
    <2>2. p = Len(a) + 1
      BY <1>1, <1>2
    <2>. QED  BY <1>1, <2>1, <2>2
  <1>3. CASE ~(p > Len(a))
    <2>1. IsAnswer(a) /\ p \in 1 .. Len(a)
      BY <1>1, <1>3 DEF Stream
    <2>2. PICK at : at = At(a, p, flag)
      OBVIOUS
    <2>3. /\ at \in p .. Len(a) /\ Leaves(a, flag, at)
          /\ \A j \in p .. at - 1 : ~Leaves(a, flag, j)
      BY <2>1, <2>2, AtIs
    <2>4. /\ r.rc = IF a[at].kind = "eof" THEN "FAIL"
                    ELSE IF StopsAt(a, flag, at) \/ Returns(a, flag, at) THEN "SUCCESS"
                    ELSE "NO_MORE_RESULTS"
          /\ r.type = a[at].kind
          /\ r.next = IF StopsAt(a, flag, at) \/ a[at].kind = "eof" THEN at ELSE at + 1
      BY <2>1, <2>2, LoopAt
    <2>5. r.next \in p .. Len(a) + 1
      BY <1>1, <2>3, <2>4
    <2>6. \A j \in p .. r.next - 1 : ~StopsAt(a, flag, j) /\ a[j].kind # "eof"
      BY <1>1, <2>3, <2>4 DEF Leaves
    <2>7. \A j \in p .. r.next - 1 :
             Returns(a, flag, j) => j = r.next - 1 /\ r.rc = "SUCCESS" /\ r.type = a[j].kind
      BY <1>1, <2>3, <2>4 DEF Leaves
    <2>. QED  BY <2>5, <2>6, <2>7
  <1>. QED  BY <1>2, <1>3
(* What a call returns: the answer is read to its end, the connection is   *)
(* lost, or the result is about the token that stopped the loop or about   *)
(* the last one read.                                                      *)
LEMMA LoopReturns ==
    ASSUME NEW a, Stream(a), NEW p \in 1 .. Len(a) + 1, NEW flag,
           NEW r, r = tds_process_tokens(a, p, flag)
    PROVE  /\ r.rc \in {"SUCCESS", "FAIL", "NO_MORE_RESULTS"} /\ r.type \in Kinds
           /\ r.error \in BOOLEAN /\ r.more \in BOOLEAN
           /\ r.rc = "NO_MORE_RESULTS" => r.next = Len(a) + 1
           /\ r.rc = "FAIL" => a # <<>> /\ r.next = Len(a) /\ a[Len(a)].kind = "eof"
           /\ r.rc = "SUCCESS" =>
                 \/ r.next <= Len(a) /\ StopsAt(a, flag, r.next) /\ r.type = a[r.next].kind
                 \/ /\ r.next - 1 >= p /\ Returns(a, flag, r.next - 1)
                    /\ r.type = a[r.next - 1].kind /\ r.more = a[r.next - 1].more
  <1>1. Len(a) \in Nat
    BY AnswerTypes DEF Stream
  <1>2. CASE p > Len(a)
    <2>1. /\ r.rc = "NO_MORE_RESULTS" /\ r.type = "done" /\ r.next = p
          /\ r.error = FALSE /\ r.more = FALSE
      BY <1>2 DEF tds_process_tokens
    <2>2. p = Len(a) + 1
      BY <1>1, <1>2
    <2>. QED  BY <1>1, <2>1, <2>2 DEF Kinds
  <1>3. CASE ~(p > Len(a))
    <2>1. IsAnswer(a) /\ p \in 1 .. Len(a)
      BY <1>1, <1>3 DEF Stream
    <2>2. PICK at : at = At(a, p, flag)
      OBVIOUS
    <2>3. at \in p .. Len(a) /\ Leaves(a, flag, at)
      BY <2>1, <2>2, AtIs
    <2>4. /\ r.rc = IF a[at].kind = "eof" THEN "FAIL"
                    ELSE IF StopsAt(a, flag, at) \/ Returns(a, flag, at) THEN "SUCCESS"
                    ELSE "NO_MORE_RESULTS"
          /\ r.type = a[at].kind /\ r.error = a[at].error /\ r.more = a[at].more
          /\ r.next = IF StopsAt(a, flag, at) \/ a[at].kind = "eof" THEN at ELSE at + 1
      BY <2>1, <2>2, LoopAt
    <2>5. /\ a[at].kind \in Kinds /\ a[at].more \in BOOLEAN /\ a[at].error \in BOOLEAN
          /\ Final(a[at]) \/ a[at].kind = "eof" => at = Len(a)
      BY <1>1, <2>1, <2>3, AnswerTypes
    <2>6. r.rc \in {"SUCCESS", "FAIL", "NO_MORE_RESULTS"}
      BY <2>4
    <2>7. r.type \in Kinds /\ r.error \in BOOLEAN /\ r.more \in BOOLEAN
      BY <2>4, <2>5
    <2>8. r.rc = "NO_MORE_RESULTS" => r.next = Len(a) + 1
      BY <2>3, <2>4, <2>5 DEF Leaves
    <2>9. r.rc = "FAIL" => a # <<>> /\ r.next = Len(a) /\ a[Len(a)].kind = "eof"
      BY <2>1, <2>4, <2>5 DEF IsAnswer
    <2>10. r.rc = "SUCCESS" =>
              \/ r.next <= Len(a) /\ StopsAt(a, flag, r.next) /\ r.type = a[r.next].kind
              \/ /\ r.next - 1 >= p /\ Returns(a, flag, r.next - 1)
                 /\ r.type = a[r.next - 1].kind /\ r.more = a[r.next - 1].more
      <3>1. CASE StopsAt(a, flag, at) /\ a[at].kind # "eof"
        BY <1>1, <2>3, <2>4, <3>1
      <3>2. CASE ~StopsAt(a, flag, at) /\ Returns(a, flag, at) /\ a[at].kind # "eof"
        <4>1. r.next = at + 1 /\ at \in Nat /\ p \in Nat /\ at >= p
          BY <1>1, <2>3, <2>4, <3>2
        <4>2. r.next - 1 = at
          BY <4>1
        <4>. QED  BY <4>1, <4>2, <2>4, <3>2
      <3>. QED  BY <2>4, <3>1, <3>2
    <2>. QED  BY <2>6, <2>7, <2>8, <2>9, <2>10
  <1>. QED  BY <1>2, <1>3
(* The row format of the session is one of the answer, and it is the last  *)
(* one read.                                                               *)
LEMMA ResInfoIs ==
    ASSUME NEW a, Stream(a), NEW from \in 1 .. Len(a) + 1, NEW to \in from .. Len(a) + 1,
           NEW old \in 0 .. Len(a)
    PROVE  /\ ResInfo(a, from, to, old) \in 0 .. Len(a)
           /\ Read(a, from, to, "rowfmt") = {} => ResInfo(a, from, to, old) = old
           /\ Read(a, from, to, "rowfmt") # {} =>
                 /\ ResInfo(a, from, to, old) \in Read(a, from, to, "rowfmt")
                 /\ \A j \in Read(a, from, to, "rowfmt") : j <= ResInfo(a, from, to, old)
  <1>1. Len(a) \in Nat
    BY AnswerTypes DEF Stream
  <1>2. PICK T : T = Read(a, from, to, "rowfmt")
    OBVIOUS
  <1>3. T \subseteq 1 .. Len(a)
    BY <1>1, <1>2 DEF Read
  <1>4. T # {} => Max(T) \in T /\ \A j \in T : j <= Max(T)
    <2>1. T \subseteq 0 .. Len(a)
      BY <1>1, <1>3
    <2>. QED  BY <1>1, <2>1, MaxIs
  <1>5. ResInfo(a, from, to, old) = IF T = {} THEN old ELSE Max(T)
    BY <1>2 DEF ResInfo
  <1>6. CASE T = {}
    BY <1>2, <1>5, <1>6
  <1>7. CASE T # {}
    BY <1>1, <1>2, <1>3, <1>4, <1>5, <1>7
  <1>. QED  BY <1>6, <1>7

-----------------------------------------------------------------------------
(* Row formats, and the result sets that they begin.                       *)
(* A call that stops at rows reads none.                                   *)
LEMMA StopsAtRows ==
    ASSUME NEW a, Stream(a), NEW p \in 1 .. Len(a) + 1, NEW flag,
           "ROW" \in flag.stopat, "COMPUTE" \in flag.stopat,
           NEW r, r = tds_process_tokens(a, p, flag)
    PROVE  Read(a, p, r.next, "row") = {} /\ Read(a, p, r.next, "compute") = {}
  <1>1. \A j \in p .. r.next - 1 : ~StopsAt(a, flag, j)
    BY LoopReads
  <1>2. ASSUME NEW j \in p .. r.next - 1
        PROVE  a[j].kind # "row" /\ a[j].kind # "compute"
    BY <1>1 DEF StopsAt, Class, Dones
  <1>. QED  BY <1>2 DEF Read
(* What a call returns SUCCESS for.                                        *)
LEMMA ReturnsWhat ==
    ASSUME NEW a, Stream(a), NEW p \in 1 .. Len(a) + 1, NEW flag,
           NEW r, r = tds_process_tokens(a, p, flag), r.rc = "SUCCESS"
    PROVE  \/ /\ r.next \in p .. Len(a) /\ StopsAt(a, flag, r.next) /\ r.type = a[r.next].kind
           \/ /\ r.next - 1 \in p .. Len(a) /\ Returns(a, flag, r.next - 1)
              /\ r.type = a[r.next - 1].kind
  <1>1. Len(a) \in Nat
    BY AnswerTypes DEF Stream
  <1>2. r.next \in p .. Len(a) + 1
    BY LoopReads
  <1>3. \/ r.next <= Len(a) /\ StopsAt(a, flag, r.next) /\ r.type = a[r.next].kind
        \/ r.next - 1 >= p /\ Returns(a, flag, r.next - 1) /\ r.type = a[r.next - 1].kind
    BY LoopReturns
  <1>. QED  BY <1>1, <1>2, <1>3

----------------------------------------------------------------------------
(* A lost connection is never read past.                                   *)
EofIsNotRead == \A j \in 1 .. pos - 1 : answer[j].kind # "eof"

(* What ct_results() may find in its command while its loop runs.          *)
LoopStates == in # "app" => results_state[in] \in {"INIT", "EMPTY", "ROWS", "STATUS"}

IInv == TypeOK /\ EofIsNotRead /\ LoopStates /\ NoRowIsSwallowed

-----------------------------------------------------------------------------
(* The parts of TypeOK.                                                    *)
Where == answer \in Answers \cup {<<>>} /\ pos \in 1 .. Len(answer) + 1
CancelWaits == in_cancel => ~idle
Truths == in_cancel \in BOOLEAN /\ dead \in BOOLEAN /\ keepdone \in BOOLEAN /\ stuck \in BOOLEAN
CommandStates == {"IDLE", "BUILDING", "READY", "SENT"}
ResultsStates == {"NONE", "INIT", "EMPTY", "ROWS", "STATUS", "CMD_DONE"}
Tellings == {"closed", "sent", "row", "compute", "param", "status",
             "CMD_SUCCEED", "CMD_FAIL", "CMD_DONE"}
Commands == /\ command_type \in [Cmds -> {"LANG", "DYNAMIC"}]
            /\ command_state \in [Cmds -> CommandStates]
            /\ results_state \in [Cmds -> ResultsStates]
            /\ cancel_pending \in [Cmds -> BOOLEAN]
            /\ curr_result_type \in [Cmds -> Kinds \cup {"none"}]
            /\ row_prefetched \in [Cmds -> BOOLEAN]
            /\ told \in [Cmds -> Tellings]
Control == in \in Cmds \cup {"app"} /\ sends \in 0 .. MaxSends /\ owner \in Cmds \cup {"none"}
History == /\ taken \subseteq (DOMAIN answer) \X Cmds
           /\ dropped \subseteq DOMAIN answer /\ reported \subseteq DOMAIN answer

(* Every variable is in one of them.                                       *)
LEMMA TypeParts ==
    TypeOK <=> Where /\ CancelWaits /\ Truths /\ Commands /\ Control /\ History
  BY DEF TypeOK, Where, CancelWaits, Truths, Commands, Control, History, CommandStates,
      ResultsStates, Tellings

(* The session of a state.                                                 *)
LEMMA SessionIs ==
    ASSUME Where
    PROVE  /\ Stream(answer) /\ Len(answer) \in Nat /\ DOMAIN answer = 1 .. Len(answer)
           /\ pos \in 1 .. Len(answer) + 1
  <1>1. CASE answer = <<>>
    BY <1>1 DEF Stream, Where
  <1>2. CASE answer \in Answers
    <2>1. IsAnswer(answer)
      BY <1>2, AnswersAssumption
    <2>. QED  BY <2>1, AnswerTypes DEF Stream, Where
  <1>. QED  BY <1>1, <1>2 DEF Where

(* Numbers that follow one another from p on are counted by their set.     *)
LEMMA RunIs ==
    ASSUME NEW p \in Nat, NEW hi \in Nat, p <= hi + 1, NEW T, T \subseteq p .. hi,
           \A j \in T : \A i \in p .. j : i \in T
    PROVE  /\ Cardinality(T) \in Nat /\ p + Cardinality(T) <= hi + 1
           /\ T = p .. p + Cardinality(T) - 1
  <1>1. CASE T = {}
    <2>1. Cardinality(T) = 0
      BY <1>1, FS_EmptySet
    <2>2. p .. p + 0 - 1 = {}
      OBVIOUS
    <2>. QED  BY <1>1, <2>1, <2>2
  <1>2. CASE T # {}
    <2>1. T \subseteq 0 .. hi
      OBVIOUS
    <2>2. PICK m \in T : \A y \in T : y <= m
      BY <1>2, <2>1, MaxIs
    <2>3. T = p .. m
      <3>1. T \subseteq p .. m
        BY <2>2
      <3>2. p .. m \subseteq T
        OBVIOUS
      <3>. QED  BY <3>1, <3>2
    <2>4. m \in Nat /\ p <= m /\ m <= hi
      OBVIOUS
    <2>5. Cardinality(p .. m) = m - p + 1
      BY <2>4, FS_Interval
    <2>6. PICK n \in Nat : n = Cardinality(T) /\ n = m - p + 1
      BY <2>3, <2>4, <2>5
    <2>7. p + n - 1 = m
      BY <2>4, <2>6
    <2>. QED  BY <2>3, <2>4, <2>6, <2>7
  <1>. QED  BY <1>1, <1>2

-----------------------------------------------------------------------------
(* A step that reads tokens, and the rows among them are fetched or thrown *)
(* away.                                                                   *)
Moves == /\ answer' = answer /\ pos' \in pos .. Len(answer) + 1
         /\ \A j \in pos .. pos' - 1 : answer[j].kind # "eof"
         /\ taken \subseteq taken' /\ dropped \subseteq dropped'
         /\ \A j \in pos .. pos' - 1 : answer[j].kind \in {"row", "compute"} =>
               j \in {t[1] : t \in taken'} \cup dropped'

(* Such a step loses none.                                                 *)
LEMMA MovesKeeps ==
    ASSUME IInv, Moves
    PROVE  Where' /\ EofIsNotRead' /\ NoRowIsSwallowed'
  <1>1. /\ Where /\ Len(answer) \in Nat /\ pos \in 1 .. Len(answer) + 1
    BY TypeParts, SessionIs DEF IInv
  <1>2. PICK n \in pos .. Len(answer) + 1 : n = pos'
    BY DEF Moves
  <1>3. Where'
    BY <1>1, <1>2 DEF Where, Moves
  <1>4. EofIsNotRead'
    <2>. SUFFICES ASSUME NEW j \in 1 .. n - 1
                  PROVE  answer[j].kind # "eof"
      BY <1>2 DEF EofIsNotRead, Moves
    <2>1. pos \in Nat /\ n \in Nat
      BY <1>1, <1>2
    <2>2. CASE j \in 1 .. pos - 1
      BY <2>2 DEF IInv, EofIsNotRead
    <2>3. CASE j \in pos .. n - 1
      BY <1>2, <2>3 DEF Moves
    <2>. QED  BY <2>1, <2>2, <2>3
  <1>5. ASSUME NEW j \in Rows(1, pos)'
        PROVE  j \in {t[1] : t \in taken'} \cup dropped'
    <2>1. j \in 1 .. n - 1 /\ answer[j].kind \in {"row", "compute"}
      BY <1>2 DEF Rows, Read, Moves
    <2>2. CASE j < pos
      <3>1. j \in Rows(1, pos)
        BY <1>1, <2>1, <2>2 DEF Rows, Read
      <3>2. j \in {t[1] : t \in taken} \cup dropped
        BY <3>1 DEF IInv, NoRowIsSwallowed
      <3>. QED  BY <3>2 DEF Moves
    <2>3. CASE j >= pos
      <3>0. pos \in Nat /\ n \in Nat
        BY <1>1, <1>2
      <3>1. j \in pos .. n - 1
        BY <2>1, <2>3, <3>0
      <3>. QED  BY <1>2, <2>1, <3>1 DEF Moves
    <2>. QED  BY <1>1, <2>1, <2>2, <2>3
  <1>6. NoRowIsSwallowed'
    BY <1>5 DEF NoRowIsSwallowed
  <1>. QED  BY <1>3, <1>4, <1>6

(* A step that does not touch the session.                                 *)
LEMMA StillMoves ==
    ASSUME Where, UNCHANGED <<answer, pos, taken, dropped>>
    PROVE  Moves
  <1>1. Len(answer) \in Nat /\ pos \in 1 .. Len(answer) + 1
    BY SessionIs
  <1>. QED  BY <1>1 DEF Moves

(* A request that is sent begins a new answer.                             *)
LEMMA SendKeeps ==
    ASSUME answer' \in Answers, pos' = 1, taken' = {}, dropped' = {}, reported' = {}
    PROVE  Where' /\ EofIsNotRead' /\ NoRowIsSwallowed' /\ History' /\ ~idle'
  <1>1. IsAnswer(answer')
    BY AnswersAssumption
  <1>2. Len(answer') \in Nat \ {0}
    BY <1>1, AnswerTypes
  <1>. QED  BY <1>2 DEF Where, EofIsNotRead, NoRowIsSwallowed, Rows, Read, History, idle

(* A cancelled answer is read to its end, and thrown away.                 *)
LEMMA DrainMoves ==
    ASSUME IInv, ~idle, Drain, UNCHANGED <<taken, reported>>
    PROVE  Moves /\ History'
  <1>1. /\ Where /\ History /\ Stream(answer) /\ Len(answer) \in Nat
        /\ DOMAIN answer = 1 .. Len(answer) /\ pos \in 1 .. Len(answer) + 1
    BY TypeParts, SessionIs DEF IInv
  <1>2. pos <= Len(answer) /\ answer # <<>>
    BY <1>1 DEF idle
  <1>3. IsAnswer(answer)
    BY <1>1, <1>2 DEF Stream
  <1>4. PICK n : n = DrainTo
    OBVIOUS
  <1>5. \A j \in 1 .. Len(answer) : answer[j].kind = "eof" => j = Len(answer)
    BY <1>3, AnswerTypes
  <1>6. /\ n \in {Len(answer), Len(answer) + 1}
        /\ n = Len(answer) + 1 => answer[Len(answer)].kind # "eof"
    BY <1>1, <1>4 DEF DrainTo
  <1>7. /\ pos' = n /\ answer' = answer /\ dropped' = dropped \cup (pos .. n - 1)
    BY <1>4 DEF Drain
  <1>8. n \in pos .. Len(answer) + 1 /\ pos .. n - 1 \subseteq 1 .. Len(answer)
    BY <1>1, <1>2, <1>6
  <1>9. ASSUME NEW j \in pos .. n - 1
        PROVE  answer[j].kind # "eof"
    <2>1. PICK l \in Nat : l = Len(answer)
      BY <1>1
    <2>2. j \in 1 .. l
      BY <1>8, <2>1
    <2>3. CASE j = l
      <3>1. n = l + 1
        BY <1>6, <2>1, <2>2, <2>3
      <3>. QED  BY <1>6, <2>1, <2>3, <3>1
    <2>4. CASE j # l
      BY <1>5, <2>1, <2>2, <2>4
    <2>. QED  BY <2>3, <2>4
  <1>10. Moves
    BY <1>7, <1>8, <1>9 DEF Moves
  <1>11. History'
    BY <1>1, <1>7, <1>8 DEF History
  <1>. QED  BY <1>10, <1>11

-----------------------------------------------------------------------------
(* One turn of ct_results(): what the loop returns with the flags of the   *)
(* call.                                                                   *)
LEMMA TurnReads ==
    ASSUME IInv, NEW r, r = tds_process_tokens(answer, pos, ResultsFlags)
    PROVE  /\ r.next \in pos .. Len(answer) + 1
           /\ \A j \in pos .. r.next - 1 : answer[j].kind \notin {"eof", "row", "compute"}
           /\ r.rc \in {"SUCCESS", "FAIL", "NO_MORE_RESULTS"} /\ r.error \in BOOLEAN
           /\ r.rc = "SUCCESS" =>
                 \/ /\ r.type \in {"row", "compute"} \cup Dones
                    /\ r.next \in pos .. Len(answer) /\ r.type = answer[r.next].kind
                    /\ r.type \in Dones => keepdone
                 \/ /\ r.type \in {"rowfmt", "computefmt", "param", "status"} \cup Dones
                    /\ r.next - 1 \in pos .. Len(answer) /\ r.type = answer[r.next - 1].kind
                    /\ r.type \in Dones => ~keepdone
  <1>1. /\ Where /\ Stream(answer) /\ Len(answer) \in Nat /\ pos \in 1 .. Len(answer) + 1
    BY TypeParts, SessionIs DEF IInv
  <1>2. PICK flag : flag = ResultsFlags
    OBVIOUS
  <1>3. /\ flag.return = {"ROWFMT", "COMPUTEFMT", "PROC"} \cup IF keepdone THEN {} ELSE {"DONE"}
        /\ flag.stopat = {"ROW", "COMPUTE"} \cup IF keepdone THEN {"DONE"} ELSE {}
    BY <1>2 DEF ResultsFlags, TDS_TOKEN_RESULTS, Flags
  <1>4. r = tds_process_tokens(answer, pos, flag)
    BY <1>2
  <1>5. /\ r.next \in pos .. Len(answer) + 1
        /\ \A j \in pos .. r.next - 1 : answer[j].kind # "eof"
    BY <1>1, <1>4, LoopReads
  <1>6. Read(answer, pos, r.next, "row") = {} /\ Read(answer, pos, r.next, "compute") = {}
    <2>1. "ROW" \in flag.stopat /\ "COMPUTE" \in flag.stopat
      BY <1>3
    <2>. QED  BY <1>1, <1>4, <2>1, StopsAtRows
  <1>7. \A j \in pos .. r.next - 1 : answer[j].kind \notin {"eof", "row", "compute"}
    BY <1>5, <1>6 DEF Read
  <1>8. r.rc \in {"SUCCESS", "FAIL", "NO_MORE_RESULTS"} /\ r.error \in BOOLEAN /\ r.type \in Kinds
    BY <1>1, <1>4, LoopReturns
  <1>9. ASSUME r.rc = "SUCCESS"
        PROVE \/ /\ r.type \in {"row", "compute"} \cup Dones
                 /\ r.next \in pos .. Len(answer) /\ r.type = answer[r.next].kind
                 /\ r.type \in Dones => keepdone
              \/ /\ r.type \in {"rowfmt", "computefmt", "param", "status"} \cup Dones
                 /\ r.next - 1 \in pos .. Len(answer) /\ r.type = answer[r.next - 1].kind
                 /\ r.type \in Dones => ~keepdone
    <2>1. \/ /\ r.next \in pos .. Len(answer) /\ StopsAt(answer, flag, r.next) /\ r.type = answer[r.next].kind
          \/ /\ r.next - 1 \in pos .. Len(answer) /\ Returns(answer, flag, r.next - 1)
             /\ r.type = answer[r.next - 1].kind
      BY <1>1, <1>4, <1>9, ReturnsWhat
    <2>2. CASE /\ r.next \in pos .. Len(answer) /\ StopsAt(answer, flag, r.next)
               /\ r.type = answer[r.next].kind
      <3>1. Class(answer, r.next) \in {"ROW", "COMPUTE"} \cup IF keepdone THEN {"DONE"} ELSE {}
        BY <1>3, <2>2 DEF StopsAt
      <3>2. r.type \in {"row", "compute"} \cup IF keepdone THEN Dones ELSE {}
        BY <1>8, <2>2, <3>1 DEF Class, Dones, Kinds
      <3>. QED  BY <2>2, <3>2 DEF Dones
    <2>3. CASE /\ r.next - 1 \in pos .. Len(answer) /\ Returns(answer, flag, r.next - 1)
               /\ r.type = answer[r.next - 1].kind
      <3>1. Class(answer, r.next - 1) \in {"ROWFMT", "COMPUTEFMT", "PROC"} \cup IF keepdone THEN {} ELSE {"DONE"}
        BY <1>3, <2>3 DEF Returns
      <3>2. r.type \in {"rowfmt", "computefmt", "param", "status"} \cup IF keepdone THEN {} ELSE Dones
        BY <1>8, <2>3, <3>1 DEF Class, Dones, Kinds
      <3>. QED  BY <2>3, <3>2 DEF Dones
    <2>. QED  BY <2>1, <2>2, <2>3
  <1>. QED  BY <1>5, <1>7, <1>8, <1>9

(* What a token makes of results_state.                                    *)
LEMMA TurnIs ==
    ASSUME IInv, NEW c \in Cmds, in = c, NEW r, r.error \in BOOLEAN,
           r.type \in {"row", "compute", "rowfmt", "computefmt", "param", "status"} \cup Dones
    PROVE  /\ Turn(c, r).state \in ResultsStates
           /\ Turn(c, r).what \in (Tellings \ {"closed", "sent"}) \cup {"none"}
           /\ Turn(c, r).what = "none" => Turn(c, r).state \in {"INIT", "EMPTY", "ROWS", "STATUS"}
           /\ Turn(c, r).what \in {"param", "status"} => r.type = Turn(c, r).what
           /\ Turn(c, r).what \in Fetchable /\ r.type \in Dones => results_state[c] = "EMPTY"
           /\ Turn(c, r).state = "EMPTY" =>
                 \/ r.type \in {"rowfmt", "computefmt"} /\ Turn(c, r).what = "none"
                 \/ r.type = "param"
  <1>1. results_state[c] \in {"INIT", "EMPTY", "ROWS", "STATUS"}
    BY NamesAssumption DEF IInv, LoopStates
  <1>2. PICK rs : rs = results_state[c]
    OBVIOUS
  <1>3. \A what, state : Is(what, state).what = what /\ Is(what, state).state = state
    BY DEF Is
  <1>4. r.type \in {"row", "compute", "rowfmt", "computefmt", "param", "status",
                    "done", "doneproc", "doneinproc"}
    BY DEF Dones
  <1>5. PICK d : d = Is(IF r.error THEN "CMD_FAIL" ELSE "CMD_SUCCEED", "CMD_DONE")
    OBVIOUS
  <1>6. d.what \in {"CMD_FAIL", "CMD_SUCCEED"} /\ d.state = "CMD_DONE"
    BY <1>3, <1>5
  <1>7. Turn(c, r) =
          CASE r.type \in {"computefmt", "rowfmt"} -> Is("none", "EMPTY")
            [] r.type = "row" -> Is("row", "ROWS")
            [] r.type = "compute" -> Is(IF rs = "EMPTY" THEN "row" ELSE "compute", "ROWS")
            [] r.type = "done" /\ rs \in {"INIT", "STATUS"} -> d
            [] r.type = "done" /\ rs = "EMPTY" -> Is("row", "ROWS")
            [] r.type = "done" /\ rs = "ROWS" -> Is("CMD_DONE", "INIT")
            [] r.type = "doneinproc" -> DoneInProc(rs)
            [] r.type = "doneproc" -> d
            [] r.type = "param" -> Is("param", rs)
            [] r.type = "status" -> Is("status", "STATUS")
    BY <1>2, <1>5 DEF Turn
  <1>8. PICK e : e = DoneInProc(rs)
    OBVIOUS
  <1>9. /\ rs = "EMPTY" => e = Is("row", "ROWS")
        /\ rs = "ROWS" => e = Is("CMD_DONE", "INIT")
        /\ rs \notin {"EMPTY", "ROWS"} => e = Is("none", rs)
    BY <1>8 DEF DoneInProc
  <1>10. PICK t : t = Turn(c, r)
    OBVIOUS
  <1>11. \/ t = Is("none", "EMPTY") /\ r.type \in {"rowfmt", "computefmt"}
         \/ t = Is("row", "ROWS") /\ (r.type \in {"row", "compute"} \/ rs = "EMPTY")
         \/ t = Is("compute", "ROWS") /\ r.type = "compute"
         \/ t = d
         \/ t = Is("CMD_DONE", "INIT")
         \/ t = e /\ r.type = "doneinproc"
         \/ t = Is("param", rs) /\ r.type = "param"
         \/ t = Is("status", "STATUS") /\ r.type = "status"
    BY <1>1, <1>2, <1>4, <1>7, <1>8, <1>10
  <1>12. t = e => \/ t = Is("row", "ROWS") /\ rs = "EMPTY"
                  \/ t = Is("CMD_DONE", "INIT")
                  \/ t = Is("none", rs) /\ rs \in {"INIT", "STATUS"}
    BY <1>1, <1>2, <1>9
  <1>13. r.type \in Dones => r.type \notin {"rowfmt", "computefmt", "row", "compute", "param", "status"}
    BY DEF Dones
  <1>. QED  BY <1>1, <1>2, <1>3, <1>6, <1>10, <1>11, <1>12, <1>13 DEF ResultsStates, Tellings, Fetchable

(* One turn of ct_results() reads no row, but for a compute row that it    *)
(* keeps for ct_fetch().                                                   *)
LEMMA TurnMoves ==
    ASSUME IInv, NEW c \in Cmds, ct_results_turn(c)
    PROVE  Moves /\ History'
  <1>1. PICK r : r = tds_process_tokens(answer, pos, ResultsFlags)
    OBVIOUS
  <1>2. /\ r.next \in pos .. Len(answer) + 1
        /\ \A j \in pos .. r.next - 1 : answer[j].kind \notin {"eof", "row", "compute"}
        /\ r.rc = "SUCCESS" =>
                 \/ /\ r.type \in {"row", "compute"} \cup Dones
                    /\ r.next \in pos .. Len(answer) /\ r.type = answer[r.next].kind
                 \/ /\ r.type \in {"rowfmt", "computefmt", "param", "status"} \cup Dones
                    /\ r.next - 1 \in pos .. Len(answer)
    BY <1>1, TurnReads
  <1>3. /\ Where /\ History /\ CancelWaits /\ Stream(answer) /\ Len(answer) \in Nat
        /\ DOMAIN answer = 1 .. Len(answer) /\ pos \in 1 .. Len(answer) + 1
    BY TypeParts, SessionIs DEF IInv
  <1>4. CASE in_cancel /\ Drain /\ UNCHANGED <<taken, reported>>
    BY <1>3, <1>4, DrainMoves DEF CancelWaits
  <1>5. CASE UNCHANGED <<answer, taken, dropped, reported>> /\ pos' = r.next
    <2>1. Moves
      BY <1>2, <1>5 DEF Moves
    <2>2. History'
      BY <1>3, <1>5 DEF History
    <2>. QED  BY <2>1, <2>2
  <1>6. CASE /\ r.rc = "SUCCESS" /\ UNCHANGED <<answer, dropped>>
             /\ pos' = IF Prefetches(c, r.type) THEN r.next + 1 ELSE r.next
             /\ taken' = IF Prefetches(c, r.type) THEN taken \cup {<<r.next, c>>} ELSE taken
             /\ \/ UNCHANGED reported
                \/ \E what : Tell(c, what, IF Turn(c, r).what = "row" THEN Fmt(r.next)
                                 ELSE IF Turn(c, r).what \in {"param", "status"} THEN r.next - 1 ELSE 0)
    <2>1. ASSUME Prefetches(c, r.type)
          PROVE  Moves /\ taken' \subseteq (DOMAIN answer) \X Cmds
      <3>1. r.type = "compute"
        BY <2>1 DEF Prefetches
      <3>2. r.next \in pos .. Len(answer) /\ answer[r.next].kind = "compute"
        BY <1>2, <1>6, <3>1 DEF Dones
      <3>3. PICK n \in pos .. Len(answer) : n = r.next
        BY <3>2
      <3>4. pos' = n + 1 /\ taken' = taken \cup {<<n, c>>}
        BY <1>6, <2>1, <3>3
      <3>5. n + 1 \in pos .. Len(answer) + 1 /\ n \in 1 .. Len(answer)
        BY <1>3
      <3>6. ASSUME NEW j \in pos .. pos' - 1
            PROVE  j = n \/ answer[j].kind \notin {"eof", "row", "compute"}
        <4>1. j \in pos .. n
          BY <1>3, <3>4
        <4>2. j # n => j \in pos .. n - 1
          BY <1>3, <4>1
        <4>. QED  BY <1>2, <3>3, <4>2
      <3>7. n \in {t[1] : t \in taken'}
        <4>1. <<n, c>> \in taken' /\ <<n, c>>[1] = n
          BY <3>4
        <4>. QED  BY <4>1
      <3>8. Moves
        BY <1>6, <3>2, <3>3, <3>4, <3>5, <3>6, <3>7 DEF Moves
      <3>9. taken' \subseteq (DOMAIN answer) \X Cmds
        BY <1>3, <3>4, <3>5 DEF History
      <3>. QED  BY <3>8, <3>9
    <2>2. ASSUME ~Prefetches(c, r.type)
          PROVE  Moves /\ taken' \subseteq (DOMAIN answer) \X Cmds
      <3>1. pos' = r.next /\ taken' = taken /\ answer' = answer /\ dropped' = dropped
        BY <1>6, <2>2
      <3>. QED  BY <1>2, <1>3, <3>1 DEF Moves, History
    <2>3. reported' \subseteq DOMAIN answer
      <3>1. PICK t : t = Turn(c, r)
        OBVIOUS
      <3>2. reported \subseteq DOMAIN answer
        BY <1>3 DEF History
      <3>3. CASE t.what = "row" /\ reported' \subseteq reported \cup ({Fmt(r.next)} \ {0})
        <4>1. 1 \in 1 .. Len(answer) + 1 /\ r.next \in 1 .. Len(answer) + 1 /\ 0 \in 0 .. Len(answer)
          BY <1>2, <1>3
        <4>2. Fmt(r.next) \in 0 .. Len(answer)
          BY <1>3, <4>1, ResInfoIs DEF Fmt
        <4>. QED  BY <1>3, <3>2, <3>3, <4>2
      <3>4. CASE t.what \in {"param", "status"} /\ reported' \subseteq reported \cup {r.next - 1}
        <4>1. r.type \in {"row", "compute", "rowfmt", "computefmt", "param", "status"} \cup Dones
              /\ r.error \in BOOLEAN
          BY <1>1, <1>2, <1>6, TurnReads
        <4>2. r.type \in {"param", "status"}
          BY <3>1, <3>4, <4>1, TurnIs DEF ct_results_turn
        <4>3. r.next - 1 \in pos .. Len(answer)
          BY <1>2, <1>6, <4>2 DEF Dones
        <4>. QED  BY <1>3, <3>2, <3>4, <4>3
      <3>. QED  BY <1>6, <3>1, <3>2, <3>3, <3>4 DEF Tell
    <2>. QED  BY <1>3, <1>6, <2>1, <2>2, <2>3 DEF History
  <1>. QED  BY <1>1, <1>4, <1>5, <1>6 DEF ct_results_turn, cmdVars, histVars

-----------------------------------------------------------------------------
(* Where a fetch gets to.                                                  *)
LEMMA FetchedIs ==
    ASSUME IInv, NEW c \in Cmds
    PROVE  /\ Fetched(c) \in pos .. Len(answer) + 1
           /\ \A j \in pos .. Fetched(c) - 1 : answer[j].kind # "eof"
  <1>1. /\ Where /\ Stream(answer) /\ Len(answer) \in Nat /\ pos \in 1 .. Len(answer) + 1
    BY TypeParts, SessionIs DEF IInv
  <1>2. PICK r : r = tds_process_tokens(answer, pos, FetchFlags)
    OBVIOUS
  <1>3. PICK flag : flag = FetchFlags
    OBVIOUS
  <1>4. r = tds_process_tokens(answer, pos, flag)
    BY <1>2, <1>3
  <1>5. /\ r.next \in pos .. Len(answer) + 1
        /\ \A j \in pos .. r.next - 1 : answer[j].kind # "eof"
    BY <1>1, <1>4, LoopReads
  <1>6. PICK m \in pos .. Len(answer) + 1 : m = r.next
    BY <1>5
  <1>7. PICK T : T = RowsFrom(m, BindCount - 1)
    OBVIOUS
  <1>8. PICK n : n = Cardinality(T)
    OBVIOUS
  <1>9. n \in Nat /\ m + n <= Len(answer) + 1 /\ T = m .. m + n - 1
    <2>1. m \in Nat /\ m <= Len(answer) + 1
      BY <1>1
    <2>2. T \subseteq m .. Len(answer)
      BY <1>7 DEF RowsFrom
    <2>3. ASSUME NEW j \in T, NEW i \in m .. j
          PROVE  i \in T
      <3>1. j \in m .. Len(answer) /\ j < m + (BindCount - 1) /\ \A k \in m .. j : answer[k].kind = "row"
        BY <1>7 DEF RowsFrom
      <3>2. BindCount \in Nat
        BY ParametersAssumption
      <3>3. i \in m .. Len(answer) /\ i < m + (BindCount - 1)
        BY <1>1, <2>1, <3>1, <3>2
      <3>4. \A k \in m .. i : answer[k].kind = "row"
        BY <2>1, <3>1
      <3>. QED  BY <1>7, <3>3, <3>4 DEF RowsFrom
    <2>. QED  BY <1>1, <1>8, <2>1, <2>2, <2>3, RunIs
  <1>10. \A j \in T : answer[j].kind # "eof"
    <2>1. ASSUME NEW j \in T
          PROVE  answer[j].kind = "row"
      <3>1. j \in m .. Len(answer) /\ \A k \in m .. j : answer[k].kind = "row"
        BY <1>7 DEF RowsFrom
      <3>. QED  BY <1>1, <3>1
    <2>. QED  BY <2>1
  <1>11. \/ Fetched(c) = pos \/ Fetched(c) = m
         \/ Fetched(c) = m + (IF curr_result_type[c] = "row" THEN n ELSE 0)
    BY <1>2, <1>6, <1>7, <1>8 DEF Fetched
  <1>12. CASE Fetched(c) = pos
    BY <1>1, <1>12
  <1>13. CASE Fetched(c) = m
    BY <1>5, <1>6, <1>13
  <1>14. CASE Fetched(c) = m + n
    <2>1. m + n \in pos .. Len(answer) + 1
      BY <1>1, <1>9
    <2>2. ASSUME NEW j \in pos .. (m + n) - 1
          PROVE  answer[j].kind # "eof"
      <3>1. j \in pos .. m - 1 \/ j \in m .. m + n - 1
        BY <1>1, <1>9
      <3>. QED  BY <1>5, <1>6, <1>9, <1>10, <3>1
    <2>. QED  BY <1>14, <2>1, <2>2
  <1>15. m + 0 = m
    BY <1>1
  <1>. QED  BY <1>11, <1>12, <1>13, <1>14, <1>15

(* The acknowledgement of a cancel is read before the command goes on.     *)
LEMMA CleanupMoves ==
    ASSUME IInv, NEW c \in Cmds, _ct_cancel_cleanup(c), UNCHANGED <<taken, reported>>
    PROVE  Moves /\ History'
  <1>1. Where /\ History /\ CancelWaits
    BY TypeParts DEF IInv
  <1>2. CASE in_cancel
    BY <1>1, <1>2, DrainMoves DEF _ct_cancel_cleanup, CancelWaits
  <1>3. CASE ~in_cancel
    <2>1. UNCHANGED <<answer, pos, taken, dropped, reported>>
      BY <1>3 DEF _ct_cancel_cleanup, sessionVars
    <2>. QED  BY <1>1, <2>1, StillMoves DEF History
  <1>. QED  BY <1>2, <1>3

(* A fetch or a discard that is cancelled.                                 *)
LEMMA CancelledMoves ==
    ASSUME IInv, NEW c \in Cmds, FetchCancelled(c)
    PROVE  Moves /\ History'
  <1>1. Where /\ History /\ CancelWaits
    BY TypeParts DEF IInv
  <1>2. CASE _ct_cancel_cleanup(c) /\ UNCHANGED <<taken, reported>>
    BY <1>2, CleanupMoves
  <1>3. CASE in_cancel /\ Drain /\ UNCHANGED <<taken, reported>>
    BY <1>1, <1>3, DrainMoves DEF CancelWaits
  <1>. QED  BY <1>2, <1>3 DEF FetchCancelled

(* ct_fetch() gives the program the rows that it reads.                    *)
LEMMA FetchMoves ==
    ASSUME IInv, NEW c \in Cmds, ct_fetch(c)
    PROVE  Moves /\ History'
  <1>1. /\ Where /\ History /\ Len(answer) \in Nat
        /\ DOMAIN answer = 1 .. Len(answer) /\ pos \in 1 .. Len(answer) + 1
    BY TypeParts, SessionIs DEF IInv
  <1>2. CASE FetchCancelled(c)
    BY <1>2, CancelledMoves
  <1>3. CASE UNCHANGED <<sessionVars, histVars>>
    BY <1>1, <1>3, StillMoves DEF sessionVars, histVars, History
  <1>4. CASE /\ pos' = Fetched(c) /\ taken' = taken \cup (Rows(pos, Fetched(c)) \X {c})
             /\ UNCHANGED <<answer, dropped, reported>>
    <2>1. PICK n : n = Fetched(c)
      OBVIOUS
    <2>2. n \in pos .. Len(answer) + 1 /\ \A j \in pos .. n - 1 : answer[j].kind # "eof"
      BY <2>1, FetchedIs
    <2>3. pos' = n /\ taken' = taken \cup (Rows(pos, n) \X {c})
      BY <1>4, <2>1
    <2>4. ASSUME NEW j \in pos .. n - 1, answer[j].kind \in {"row", "compute"}
          PROVE  j \in {t[1] : t \in taken'}
      <3>1. j \in Rows(pos, n)
        BY <2>4 DEF Rows, Read
      <3>2. <<j, c>> \in taken' /\ <<j, c>>[1] = j
        BY <2>3, <3>1
      <3>. QED  BY <3>2
    <2>5. Moves
      BY <1>4, <2>2, <2>3, <2>4 DEF Moves
    <2>6. Rows(pos, n) \subseteq 1 .. Len(answer)
      BY <1>1, <2>2 DEF Rows, Read
    <2>7. History'
      BY <1>1, <1>4, <2>3, <2>6 DEF History
    <2>. QED  BY <2>5, <2>7
  <1>. QED  BY <1>2, <1>3, <1>4 DEF ct_fetch

(* CS_CANCEL_CURRENT throws away the rows that it reads.                   *)
LEMMA CurrentMoves ==
    ASSUME IInv, NEW c \in Cmds, CancelCurrent(c)
    PROVE  Moves /\ History' /\ (FetchCancelled(c) \/ (FetchEnds(c) => pos' = pos))
  <1>1. /\ Where /\ History /\ Stream(answer) /\ Len(answer) \in Nat
        /\ DOMAIN answer = 1 .. Len(answer) /\ pos \in 1 .. Len(answer) + 1
    BY TypeParts, SessionIs DEF IInv
  <1>2. CASE FetchCancelled(c)
    BY <1>2, CancelledMoves
  <1>3. CASE ~FetchCancelled(c)
    <2>1. PICK to : to = IF FetchEnds(c) \/ idle THEN pos
                         ELSE tds_process_tokens(answer, pos, Flags({}, {"ROWFMT", "DONE"})).next
      OBVIOUS
    <2>2. PICK T : T = {j \in pos .. to - 1 : curr_result_type[c] = "row" =>
                                                  \A i \in pos .. j : answer[i].kind = "row"}
      OBVIOUS
    <2>3. /\ pos' = pos + Cardinality(T) /\ dropped' = dropped \cup Rows(pos, pos')
          /\ UNCHANGED <<answer, taken, reported>>
      BY <1>3, <2>1, <2>2 DEF CancelCurrent
    <2>4. /\ to \in pos .. Len(answer) + 1
          /\ \A j \in pos .. to - 1 : answer[j].kind # "eof"
      <3>1. CASE FetchEnds(c) \/ idle
        BY <1>1, <2>1, <3>1
      <3>2. CASE ~(FetchEnds(c) \/ idle)
        <4>1. PICK flag : flag = Flags({}, {"ROWFMT", "DONE"})
          OBVIOUS
        <4>2. PICK r : r = tds_process_tokens(answer, pos, flag)
          OBVIOUS
        <4>3. to = r.next
          BY <2>1, <3>2, <4>1, <4>2
        <4>. QED  BY <1>1, <4>2, <4>3, LoopReads
      <3>. QED  BY <3>1, <3>2
    <2>5. PICK hi \in Nat : hi = to - 1
      BY <1>1, <2>4
    <2>6. PICK n : n = Cardinality(T)
      OBVIOUS
    <2>7. n \in Nat /\ pos + n <= hi + 1 /\ T = pos .. pos + n - 1
      <3>1. pos \in Nat /\ pos <= hi + 1
        BY <1>1, <2>4, <2>5
      <3>2. T \subseteq pos .. hi
        BY <2>2, <2>5
      <3>3. ASSUME NEW j \in T, NEW i \in pos .. j
            PROVE  i \in T
        <4>1. /\ j \in pos .. hi
              /\ curr_result_type[c] = "row" => \A k \in pos .. j : answer[k].kind = "row"
          BY <2>2, <2>5
        <4>2. i \in pos .. hi /\ pos .. i \subseteq pos .. j
          BY <3>1, <4>1
        <4>. QED  BY <2>2, <2>5, <4>1, <4>2
      <3>. QED  BY <2>6, <3>1, <3>2, <3>3, RunIs
    <2>8. PICK m : m = pos'
      OBVIOUS
    <2>9. m = pos + n /\ m \in pos .. to /\ m \in pos .. Len(answer) + 1
      <3>1. m = pos + n
        BY <2>3, <2>6, <2>8
      <3>2. to = hi + 1
        BY <1>1, <2>4, <2>5
      <3>. QED  BY <1>1, <2>4, <2>7, <3>1, <3>2
    <2>10. ASSUME NEW j \in pos .. m - 1
           PROVE  j \in pos .. to - 1
      BY <1>1, <2>4, <2>9
    <2>11. Moves
      <3>1. \A j \in pos .. m - 1 : answer[j].kind # "eof"
        BY <2>4, <2>10
      <3>2. ASSUME NEW j \in pos .. m - 1, answer[j].kind \in {"row", "compute"}
            PROVE  j \in dropped'
        BY <2>3, <2>8, <3>2 DEF Rows, Read
      <3>. QED  BY <2>3, <2>8, <2>9, <3>1, <3>2 DEF Moves
    <2>12. History'
      <3>1. Rows(pos, m) \subseteq 1 .. Len(answer)
        BY <1>1, <2>9 DEF Rows, Read
      <3>. QED  BY <1>1, <2>3, <2>8, <3>1 DEF History
    <2>13. FetchEnds(c) => pos' = pos
      <3>1. FetchEnds(c) => to = pos
        BY <2>1
      <3>. QED  BY <1>1, <2>8, <2>9, <3>1
    <2>. QED  BY <2>11, <2>12, <2>13
  <1>. QED  BY <1>2, <1>3

(* The calls that do not touch the session.                                *)
LEMMA OtherMoves ==
    ASSUME IInv, UNCHANGED <<answer, pos, taken, dropped, reported>>
    PROVE  Moves /\ History'
  <1>1. Where /\ History
    BY TypeParts DEF IInv
  <1>. QED  BY <1>1, StillMoves DEF History

(* ct_send(): the acknowledgement of a cancel, a request, or a refusal.    *)
LEMMA SendMoves ==
    ASSUME IInv, NEW c \in Cmds, ct_send(c)
    PROVE  /\ Where' /\ EofIsNotRead' /\ NoRowIsSwallowed' /\ History'
           /\ Moves \/ (answer' \in Answers /\ ~idle' /\ in_cancel' = in_cancel /\ idle)
  <1>1. CASE _ct_cancel_cleanup(c) /\ UNCHANGED <<taken, reported>>
    BY <1>1, CleanupMoves, MovesKeeps
  <1>2. CASE UNCHANGED <<sessionVars, histVars>>
    <2>1. UNCHANGED <<answer, pos, taken, dropped, reported>>
      BY <1>2 DEF sessionVars, histVars
    <2>. QED  BY <2>1, OtherMoves, MovesKeeps
  <1>3. CASE /\ answer' \in Answers /\ pos' = 1 /\ taken' = {} /\ dropped' = {} /\ reported' = {}
             /\ UNCHANGED in_cancel /\ idle
    BY <1>3, SendKeeps
  <1>. QED  BY <1>1, <1>2, <1>3 DEF ct_send, MaySend

(* A cancel is pending only while there is something to read.              *)
LEMMA CancelStays ==
    ASSUME IInv, Moves, pos' = pos, in_cancel' = in_cancel \/ in_cancel' = FALSE \/ ~idle
    PROVE  CancelWaits'
  <1>1. CancelWaits
    BY TypeParts DEF IInv
  <1>. QED  BY <1>1 DEF CancelWaits, idle, Moves

(* The session after any step.                                             *)
LEMMA SessionSteps ==
    ASSUME IInv, Next
    PROVE  Where' /\ EofIsNotRead' /\ NoRowIsSwallowed' /\ History' /\ CancelWaits'
  <1>0. Where /\ CancelWaits /\ History
    BY TypeParts DEF IInv
  <1>1. ASSUME NEW c \in Cmds, ct_send(c)
        PROVE  Where' /\ EofIsNotRead' /\ NoRowIsSwallowed' /\ History' /\ CancelWaits'
    <2>1. /\ Where' /\ EofIsNotRead' /\ NoRowIsSwallowed' /\ History'
          /\ Moves \/ (answer' \in Answers /\ ~idle' /\ in_cancel' = in_cancel /\ idle)
      BY <1>1, SendMoves
    <2>2. \/ in_cancel' = FALSE \/ UNCHANGED <<in_cancel, pos>>
          \/ idle /\ in_cancel' = in_cancel
      BY <1>1 DEF ct_send, _ct_cancel_cleanup, Drain, sessionVars, MaySend
    <2>3. CancelWaits'
      <3>1. CASE idle /\ in_cancel' = in_cancel
        BY <1>0, <3>1 DEF CancelWaits
      <3>2. CASE in_cancel' = FALSE
        BY <3>2 DEF CancelWaits
      <3>3. CASE UNCHANGED <<in_cancel, pos>> /\ Moves
        BY <3>3, CancelStays
      <3>. QED  BY <2>1, <2>2, <3>1, <3>2, <3>3 DEF CancelWaits
    <2>. QED  BY <2>1, <2>3
  <1>2. ASSUME NEW c \in Cmds, ct_results_turn(c)
        PROVE  Where' /\ EofIsNotRead' /\ NoRowIsSwallowed' /\ History' /\ CancelWaits'
    <2>1. in_cancel' = FALSE \/ (in_cancel' = in_cancel /\ ~in_cancel)
      BY <1>2 DEF ct_results_turn, Drain
    <2>2. CancelWaits'
      BY <2>1 DEF CancelWaits
    <2>. QED  BY <1>2, <2>2, TurnMoves, MovesKeeps
  <1>3. ASSUME NEW c \in Cmds, FetchCancelled(c)
        PROVE  CancelWaits'
    <2>0. Moves
      BY <1>3, CancelledMoves
    <2>1. in_cancel' = FALSE \/ UNCHANGED <<in_cancel, pos>>
      BY <1>3 DEF FetchCancelled, _ct_cancel_cleanup, Drain, sessionVars
    <2>. QED  BY <2>0, <2>1, CancelStays DEF CancelWaits
  <1>4. ASSUME NEW c \in Cmds, ct_fetch(c)
        PROVE  Where' /\ EofIsNotRead' /\ NoRowIsSwallowed' /\ History' /\ CancelWaits'
    <2>0. Moves /\ History'
      BY <1>4, FetchMoves
    <2>1. CASE FetchCancelled(c)
      BY <1>3, <2>0, <2>1, MovesKeeps
    <2>2. CASE ~FetchCancelled(c)
      <3>1. in_cancel' = in_cancel /\ (in_cancel => pos' = pos)
        BY <1>4, <2>2 DEF ct_fetch, Fetched, sessionVars
      <3>2. CancelWaits'
        BY <2>0, <3>1, CancelStays DEF CancelWaits
      <3>. QED  BY <2>0, <3>2, MovesKeeps
    <2>. QED  BY <2>1, <2>2
  <1>5. ASSUME NEW c \in Cmds, CancelCurrent(c)
        PROVE  Where' /\ EofIsNotRead' /\ NoRowIsSwallowed' /\ History' /\ CancelWaits'
    <2>0. Moves /\ History' /\ (FetchCancelled(c) \/ (FetchEnds(c) => pos' = pos))
      BY <1>5, CurrentMoves
    <2>1. CASE FetchCancelled(c)
      BY <1>3, <2>0, <2>1, MovesKeeps
    <2>2. CASE ~FetchCancelled(c)
      <3>1. in_cancel' = in_cancel /\ (in_cancel => FetchEnds(c))
        BY <1>5, <2>2 DEF CancelCurrent
      <3>2. CancelWaits'
        BY <2>0, <2>2, <3>1, CancelStays DEF CancelWaits
      <3>. QED  BY <2>0, <3>2, MovesKeeps
    <2>. QED  BY <2>1, <2>2
  <1>6. ASSUME NEW s, CancelAll(s)
        PROVE  Where' /\ EofIsNotRead' /\ NoRowIsSwallowed' /\ History' /\ CancelWaits'
    <2>1. CASE ~idle /\ Drain /\ UNCHANGED <<taken, reported>>
      BY <2>1, DrainMoves, MovesKeeps DEF CancelWaits, Drain
    <2>2. CASE UNCHANGED <<sessionVars, dropped, taken, reported>>
      <3>1. UNCHANGED <<answer, pos, taken, dropped, reported>> /\ in_cancel' = in_cancel
        BY <2>2 DEF sessionVars
      <3>. QED  BY <3>1, OtherMoves, MovesKeeps, CancelStays
    <2>. QED  BY <1>6, <2>1, <2>2 DEF CancelAll
  <1>7. ASSUME NEW s, CancelAttn(s)
        PROVE  Where' /\ EofIsNotRead' /\ NoRowIsSwallowed' /\ History' /\ CancelWaits'
    <2>1. UNCHANGED <<answer, pos, taken, dropped, reported>> /\ in_cancel' = (in_cancel \/ ~idle)
      BY <1>7 DEF CancelAttn, histVars
    <2>2. CancelWaits'
      BY <1>0, <2>1 DEF CancelWaits, idle
    <2>. QED  BY <2>1, <2>2, OtherMoves, MovesKeeps
  <1>8. ASSUME NEW c \in Cmds, ct_results(c)
        PROVE  Where' /\ EofIsNotRead' /\ NoRowIsSwallowed' /\ History' /\ CancelWaits'
    <2>1. CASE _ct_cancel_cleanup(c) /\ UNCHANGED <<taken, reported>>
      <3>1. in_cancel' = FALSE \/ UNCHANGED <<in_cancel, pos>>
        BY <2>1 DEF _ct_cancel_cleanup, Drain, sessionVars
      <3>2. Moves /\ History'
        BY <2>1, CleanupMoves
      <3>3. CancelWaits'
        BY <3>1, <3>2, CancelStays DEF CancelWaits
      <3>. QED  BY <3>2, <3>3, MovesKeeps
    <2>2. CASE UNCHANGED <<sessionVars, taken, dropped, reported>>
      <3>1. UNCHANGED <<answer, pos, taken, dropped, reported>> /\ in_cancel' = in_cancel
        BY <2>2 DEF sessionVars
      <3>. QED  BY <3>1, OtherMoves, MovesKeeps, CancelStays
    <2>. QED  BY <1>8, <2>1, <2>2 DEF ct_results, histVars
  <1>9. ASSUME NEW c \in Cmds,
               \/ ct_cmd_drop(c)
               \/ \E type \in {"LANG", "DYNAMIC"}, state \in {"BUILDING", "READY"} :
                     ct_command(c, type, state)
        PROVE  Where' /\ EofIsNotRead' /\ NoRowIsSwallowed' /\ History' /\ CancelWaits'
    <2>1. UNCHANGED <<answer, pos, taken, dropped, reported>> /\ in_cancel' = in_cancel
      BY <1>9 DEF ct_cmd_drop, ct_command, sessionVars, histVars
    <2>. QED  BY <2>1, OtherMoves, MovesKeeps, CancelStays
  <1>. QED  BY <1>1, <1>2, <1>4, <1>5, <1>6, <1>7, <1>8, <1>9 DEF Next

-----------------------------------------------------------------------------
(* The types of the other variables.  One field of one command is set.     *)
LEMMA SetIs ==
    ASSUME NEW S, NEW f \in [Cmds -> S], NEW c \in Cmds, NEW v \in S
    PROVE  Set(f, c, v) \in [Cmds -> S]
  BY DEF Set

(* What ct_results() makes of a token is a state and something to tell.    *)
LEMMA TurnTypes ==
    ASSUME IInv, NEW c \in Cmds, ct_results_turn(c), ~in_cancel,
           NEW r, r = tds_process_tokens(answer, pos, ResultsFlags), r.rc = "SUCCESS"
    PROVE  /\ Turn(c, r).state \in ResultsStates
           /\ Turn(c, r).what \in (Tellings \ {"closed", "sent"}) \cup {"none"}
           /\ Turn(c, r).what = "none" => Turn(c, r).state \in {"INIT", "EMPTY", "ROWS", "STATUS"}
           /\ r.type \in Kinds
  <1>1. /\ r.type \in {"row", "compute", "rowfmt", "computefmt", "param", "status"} \cup Dones
        /\ r.error \in BOOLEAN
    BY TurnReads
  <1>2. in = c
    BY DEF ct_results_turn
  <1>3. r.type \in Kinds
    BY <1>1 DEF Kinds, Dones
  <1>. QED  BY <1>1, <1>2, <1>3, TurnIs

(* Command types and states.                                               *)
LEMMA CommandSteps ==
    ASSUME Commands, Next
    PROVE  /\ command_type' \in [Cmds -> {"LANG", "DYNAMIC"}]
           /\ command_state' \in [Cmds -> CommandStates]
  <1>0. /\ command_type \in [Cmds -> {"LANG", "DYNAMIC"}]
        /\ command_state \in [Cmds -> CommandStates]
    BY DEF Commands
  <1>1. \/ command_type' = command_type
        \/ \E c \in Cmds, v \in {"LANG", "DYNAMIC"} : command_type' = Set(command_type, c, v)
    BY DEF Next, ct_command, ct_send, ct_cmd_drop, ct_results, ct_results_turn, ct_fetch,
        CancelCurrent, CancelAttn, CancelAll, FetchCancelled, cmdVars
  <1>2. \/ command_state' = command_state
        \/ \E c \in Cmds, v \in CommandStates : command_state' = Set(command_state, c, v)
        \/ \E s : command_state' = [c \in Cmds |-> IF c \in s THEN "IDLE" ELSE command_state[c]]
    BY DEF Next, ct_command, ct_send, ct_cmd_drop, ct_results, ct_results_turn, ct_fetch,
        CancelCurrent, CancelAttn, CancelAll, FetchCancelled, cmdVars, CommandStates
  <1>3. command_type' \in [Cmds -> {"LANG", "DYNAMIC"}]
    <2>1. ASSUME NEW c \in Cmds, NEW v \in {"LANG", "DYNAMIC"}, command_type' = Set(command_type, c, v)
          PROVE  command_type' \in [Cmds -> {"LANG", "DYNAMIC"}]
      BY <1>0, <2>1, SetIs
    <2>. QED  BY <1>0, <1>1, <2>1
  <1>4. command_state' \in [Cmds -> CommandStates]
    <2>1. ASSUME NEW c \in Cmds, NEW v \in CommandStates, command_state' = Set(command_state, c, v)
          PROVE  command_state' \in [Cmds -> CommandStates]
      BY <1>0, <2>1, SetIs
    <2>2. ASSUME NEW s, command_state' = [c \in Cmds |-> IF c \in s THEN "IDLE" ELSE command_state[c]]
          PROVE  command_state' \in [Cmds -> CommandStates]
      BY <1>0, <2>2 DEF CommandStates
    <2>. QED  BY <1>0, <1>2, <2>1, <2>2
  <1>. QED  BY <1>3, <1>4

(* Cancels and fetched rows of a command.                                  *)
LEMMA PendingSteps ==
    ASSUME Commands, Next
    PROVE  cancel_pending' \in [Cmds -> BOOLEAN] /\ row_prefetched' \in [Cmds -> BOOLEAN]
  <1>0. cancel_pending \in [Cmds -> BOOLEAN] /\ row_prefetched \in [Cmds -> BOOLEAN]
    BY DEF Commands
  <1>1. \/ cancel_pending' = cancel_pending
        \/ \E c \in Cmds : cancel_pending' = Set(cancel_pending, c, FALSE)
        \/ \E hit : cancel_pending' = [c \in Cmds |-> cancel_pending[c] \/ c \in hit]
    BY DEF Next, ct_command, ct_send, ct_cmd_drop, ct_results, ct_results_turn, ct_fetch,
        CancelCurrent, CancelAttn, CancelAll, FetchCancelled, _ct_cancel_cleanup, cmdVars
  <1>2. \/ row_prefetched' = row_prefetched
        \/ \E c \in Cmds : row_prefetched' = Set(row_prefetched, c, FALSE)
        \/ \E c \in Cmds : \E type : row_prefetched' =
              Set(row_prefetched, c, type \in {"param", "status"} \/ Prefetches(c, type))
    BY DEF Next, ct_command, ct_send, ct_cmd_drop, ct_results, ct_results_turn, ct_fetch,
        CancelCurrent, CancelAttn, CancelAll, FetchCancelled, cmdVars
  <1>3. cancel_pending' \in [Cmds -> BOOLEAN]
    <2>1. ASSUME NEW c \in Cmds, cancel_pending' = Set(cancel_pending, c, FALSE)
          PROVE  cancel_pending' \in [Cmds -> BOOLEAN]
      BY <1>0, <2>1, SetIs
    <2>2. ASSUME NEW hit, cancel_pending' = [c \in Cmds |-> cancel_pending[c] \/ c \in hit]
          PROVE  cancel_pending' \in [Cmds -> BOOLEAN]
      BY <2>2, Zenon
    <2>. QED  BY <1>0, <1>1, <2>1, <2>2
  <1>4. row_prefetched' \in [Cmds -> BOOLEAN]
    <2>1. ASSUME NEW c \in Cmds, row_prefetched' = Set(row_prefetched, c, FALSE)
          PROVE  row_prefetched' \in [Cmds -> BOOLEAN]
      BY <1>0, <2>1, SetIs
    <2>2. ASSUME NEW c \in Cmds, NEW type, row_prefetched' =
                    Set(row_prefetched, c, type \in {"param", "status"} \/ Prefetches(c, type))
          PROVE  row_prefetched' \in [Cmds -> BOOLEAN]
      <3>1. (type \in {"param", "status"} \/ Prefetches(c, type)) \in BOOLEAN
        BY Zenon
      <3>. QED  BY <1>0, <2>2, <3>1, SetIs
    <2>. QED  BY <1>0, <1>2, <2>1, <2>2
  <1>. QED  BY <1>3, <1>4

(* The state of the results, and the type of the last one.                 *)
LEMMA ResultsSteps ==
    ASSUME IInv, Next
    PROVE  /\ results_state' \in [Cmds -> ResultsStates]
           /\ curr_result_type' \in [Cmds -> Kinds \cup {"none"}]
  <1>0. /\ results_state \in [Cmds -> ResultsStates]
        /\ curr_result_type \in [Cmds -> Kinds \cup {"none"}]
    BY TypeParts DEF IInv, Commands
  <1>1. ASSUME NEW c \in Cmds, ct_results_turn(c)
        PROVE  /\ results_state' \in [Cmds -> ResultsStates]
               /\ curr_result_type' \in [Cmds -> Kinds \cup {"none"}]
    <2>1. PICK r : r = tds_process_tokens(answer, pos, ResultsFlags)
      OBVIOUS
    <2>2. CASE UNCHANGED <<results_state, curr_result_type>>
      BY <1>0, <2>2
    <2>3. CASE /\ ~in_cancel /\ r.rc = "SUCCESS"
               /\ curr_result_type' = Set(curr_result_type, c, IF r.type = "rowfmt" THEN "row" ELSE r.type)
               /\ results_state' = Set(results_state, c, Turn(c, r).state)
      <3>1. Turn(c, r).state \in ResultsStates /\ r.type \in Kinds
        BY <1>1, <2>1, <2>3, TurnTypes
      <3>2. (IF r.type = "rowfmt" THEN "row" ELSE r.type) \in Kinds \cup {"none"}
        BY <3>1 DEF Kinds
      <3>. QED  BY <1>0, <2>3, <3>1, <3>2, SetIs
    <2>. QED  BY <1>1, <2>1, <2>2, <2>3 DEF ct_results_turn, cmdVars
  <1>2. ASSUME ~(\E c \in Cmds : ct_results_turn(c))
        PROVE  /\ \/ results_state' = results_state
                  \/ \E c \in Cmds, v \in ResultsStates : results_state' = Set(results_state, c, v)
               /\ \/ curr_result_type' = curr_result_type
                  \/ \E c \in Cmds : curr_result_type' = Set(curr_result_type, c, "none")
    <2>1. \A c \in Cmds : results_state[c] \in ResultsStates
      BY <1>0
    <2>2. \/ results_state' = results_state
          \/ \E c \in Cmds, v \in ResultsStates : results_state' = Set(results_state, c, v)
      BY <1>2, <2>1 DEF Next, ct_command, ct_send, ct_cmd_drop, ct_results, ct_fetch,
          CancelCurrent, CancelAttn, CancelAll, FetchCancelled, cmdVars, ResultsStates
    <2>3. \/ curr_result_type' = curr_result_type
          \/ \E c \in Cmds : curr_result_type' = Set(curr_result_type, c, "none")
      BY <1>2 DEF Next, ct_command, ct_send, ct_cmd_drop, ct_results, ct_fetch,
          CancelCurrent, CancelAttn, CancelAll, FetchCancelled, cmdVars
    <2>. QED  BY <2>2, <2>3
  <1>3. ASSUME NEW c \in Cmds, NEW v \in ResultsStates, results_state' = Set(results_state, c, v)
        PROVE  results_state' \in [Cmds -> ResultsStates]
    BY <1>0, <1>3, SetIs
  <1>4. ASSUME NEW c \in Cmds, curr_result_type' = Set(curr_result_type, c, "none")
        PROVE  curr_result_type' \in [Cmds -> Kinds \cup {"none"}]
    <2>1. "none" \in Kinds \cup {"none"}
      OBVIOUS
    <2>. QED  BY <1>0, <1>4, <2>1, SetIs
  <1>. QED  BY <1>0, <1>1, <1>2, <1>3, <1>4

(* What a command was told.                                                *)
LEMMA ToldSteps ==
    ASSUME IInv, Next
    PROVE  told' \in [Cmds -> Tellings]
  <1>0. told \in [Cmds -> Tellings]
    BY TypeParts DEF IInv, Commands
  <1>1. ASSUME NEW c \in Cmds, ct_results_turn(c)
        PROVE  told' \in [Cmds -> Tellings]
    <2>1. PICK r : r = tds_process_tokens(answer, pos, ResultsFlags)
      OBVIOUS
    <2>2. CASE told' = told \/ told' = Set(told, c, "closed")
      <3>1. "closed" \in Tellings
        BY DEF Tellings
      <3>. QED  BY <1>0, <2>2, <3>1, SetIs
    <2>3. CASE /\ ~in_cancel /\ r.rc = "SUCCESS" /\ Turn(c, r).what # "none"
               /\ told' = Set(told, c, Turn(c, r).what)
      <3>1. Turn(c, r).what \in Tellings
        BY <1>1, <2>1, <2>3, TurnTypes
      <3>. QED  BY <1>0, <2>3, <3>1, SetIs
    <2>. QED  BY <1>1, <2>1, <2>2, <2>3 DEF ct_results_turn, histVars, Tell
  <1>2. ASSUME ~(\E c \in Cmds : ct_results_turn(c))
        PROVE  \/ told' = told
               \/ \E c \in Cmds, v \in {"closed", "sent", "CMD_DONE"} : told' = Set(told, c, v)
               \/ \E s : told' = [c \in Cmds |-> IF c \in s THEN "closed" ELSE told[c]]
    BY <1>2 DEF Next, ct_command, ct_send, ct_cmd_drop, ct_results, ct_fetch,
          CancelCurrent, CancelAttn, CancelAll, FetchCancelled, _ct_cancel_cleanup, histVars
  <1>3. {"closed", "sent", "CMD_DONE"} \subseteq Tellings
    BY DEF Tellings
  <1>4. ASSUME NEW s, told' = [c \in Cmds |-> IF c \in s THEN "closed" ELSE told[c]]
        PROVE  told' \in [Cmds -> Tellings]
    BY <1>0, <1>4 DEF Tellings
  <1>5. ASSUME NEW c \in Cmds, NEW v \in {"closed", "sent", "CMD_DONE"}, told' = Set(told, c, v)
        PROVE  told' \in [Cmds -> Tellings]
    BY <1>0, <1>3, <1>5, SetIs
  <1>. QED  BY <1>0, <1>1, <1>2, <1>4, <1>5

(* The loop that runs, the requests and the command of the last one.       *)
LEMMA ControlSteps ==
    ASSUME Control, Next
    PROVE  Control'
  <1>0. in \in Cmds \cup {"app"} /\ sends \in 0 .. MaxSends /\ owner \in Cmds \cup {"none"}
    BY DEF Control
  <1>1. in' = in \/ in' = "app" \/ in' \in Cmds
    BY DEF Next, ct_command, ct_send, ct_cmd_drop, ct_results, ct_results_turn, ct_fetch,
        CancelCurrent, CancelAttn, CancelAll, FetchCancelled, cmdVars, callVars, Tell
  <1>2. \/ sends' = sends /\ owner' = owner
        \/ sends' = sends + 1 /\ sends < MaxSends /\ owner' \in Cmds
    <2>1. ASSUME NEW c \in Cmds, ct_send(c)
          PROVE  \/ sends' = sends /\ owner' = owner
                 \/ sends' = sends + 1 /\ sends < MaxSends /\ owner' \in Cmds
      BY <2>1 DEF ct_send, histVars
    <2>2. ASSUME NEW c \in Cmds, ct_results_turn(c)
          PROVE  sends' = sends /\ owner' = owner
      BY <2>2 DEF ct_results_turn, histVars
    <2>3. ASSUME NEW c \in Cmds, ct_fetch(c) \/ CancelCurrent(c)
          PROVE  sends' = sends /\ owner' = owner
      BY <2>3 DEF ct_fetch, CancelCurrent, FetchCancelled, histVars
    <2>4. ASSUME NEW c \in Cmds,
               \/ ct_cmd_drop(c) \/ ct_results(c)
               \/ \E type \in {"LANG", "DYNAMIC"}, state \in {"BUILDING", "READY"} :
                     ct_command(c, type, state)
          PROVE  sends' = sends /\ owner' = owner
      BY <2>4 DEF ct_cmd_drop, ct_command, ct_results, histVars
    <2>5. ASSUME NEW s, CancelAttn(s) \/ CancelAll(s)
          PROVE  sends' = sends /\ owner' = owner
      BY <2>5 DEF CancelAttn, CancelAll, histVars
    <2>. QED  BY <2>1, <2>2, <2>3, <2>4, <2>5 DEF Next
  <1>3. sends' \in 0 .. MaxSends
    BY <1>0, <1>2, ParametersAssumption
  <1>. QED  BY <1>0, <1>1, <1>2, <1>3 DEF Control

(* The session's cancel, its end, and the flags of a call.                 *)
LEMMA TruthSteps ==
    ASSUME Truths, Next
    PROVE  Truths'
  <1>0. in_cancel \in BOOLEAN /\ dead \in BOOLEAN /\ keepdone \in BOOLEAN /\ stuck \in BOOLEAN
    BY DEF Truths
  <1>1. in_cancel' \in BOOLEAN
    <2>1. \/ in_cancel' = in_cancel \/ in_cancel' = FALSE
          \/ in_cancel' = (in_cancel \/ ~idle)
      BY DEF Next, ct_command, ct_send, ct_cmd_drop, ct_results, ct_results_turn, ct_fetch,
          CancelCurrent, CancelAttn, CancelAll, FetchCancelled, _ct_cancel_cleanup, Drain, sessionVars
    <2>. QED  BY <1>0, <2>1
  <1>2. dead' \in BOOLEAN
    <2>1. ASSUME Drain \/ UNCHANGED sessionVars
          PROVE  dead' \in BOOLEAN
      BY <1>0, <2>1 DEF Drain, sessionVars
    <2>2. ASSUME NEW c \in Cmds, FetchCancelled(c)
          PROVE  dead' \in BOOLEAN
      BY <2>1, <2>2 DEF FetchCancelled, _ct_cancel_cleanup
    <2>3. ASSUME NEW c \in Cmds, ct_send(c) \/ ct_results(c) \/ ct_results_turn(c)
          PROVE  dead' \in BOOLEAN
      BY <1>0, <2>1, <2>3 DEF ct_send, ct_results, ct_results_turn, _ct_cancel_cleanup
    <2>4. ASSUME NEW c \in Cmds, ct_fetch(c)
          PROVE  dead' \in BOOLEAN
      BY <2>1, <2>2, <2>4, Zenon DEF ct_fetch
    <2>5. ASSUME NEW c \in Cmds, CancelCurrent(c)
          PROVE  dead' \in BOOLEAN
      BY <2>1, <2>2, <2>5, Zenon DEF CancelCurrent
    <2>6. ASSUME NEW c \in Cmds,
               \/ ct_cmd_drop(c)
               \/ \E type \in {"LANG", "DYNAMIC"}, state \in {"BUILDING", "READY"} :
                     ct_command(c, type, state)
          PROVE  dead' \in BOOLEAN
      BY <1>0, <2>6 DEF ct_cmd_drop, ct_command, sessionVars
    <2>7. ASSUME NEW s, CancelAttn(s) \/ CancelAll(s)
          PROVE  dead' \in BOOLEAN
      BY <1>0, <2>1, <2>7 DEF CancelAttn, CancelAll
    <2>. QED  BY <2>3, <2>4, <2>5, <2>6, <2>7 DEF Next
  <1>3. keepdone' \in BOOLEAN
    <2>1. \/ keepdone' = keepdone \/ keepdone' = FALSE
          \/ \E c, r : keepdone' = (keepdone \/ KeepsDone(c, r))
      BY DEF Next, ct_command, ct_send, ct_cmd_drop, ct_results, ct_results_turn, ct_fetch,
          CancelCurrent, CancelAttn, CancelAll, FetchCancelled, callVars
    <2>. QED  BY <1>0, <2>1, Zenon
  <1>4. stuck' \in BOOLEAN
    <2>1. \/ stuck' = stuck \/ stuck' = TRUE
          \/ \E c : stuck' = (~FetchEnds(c) /\ idle)
      BY DEF Next, ct_command, ct_send, ct_cmd_drop, ct_results, ct_results_turn, ct_fetch,
          CancelCurrent, CancelAttn, CancelAll, FetchCancelled, callVars
    <2>. QED  BY <1>0, <2>1, Zenon
  <1>. QED  BY <1>1, <1>2, <1>3, <1>4 DEF Truths

(* The loop of ct_results() begins with a command that has results to read, *)
(* and only goes on with one; no other call is made while it runs.         *)
LEMMA LoopSteps ==
    ASSUME IInv, Next
    PROVE  LoopStates'
  <1>0. results_state \in [Cmds -> ResultsStates] /\ in \in Cmds \cup {"app"} /\ "app" \notin Cmds
    BY TypeParts, NamesAssumption DEF IInv, Commands, Control
  <1>1. ASSUME in' = "app"
        PROVE  LoopStates'
    BY <1>1 DEF LoopStates
  <1>2. ASSUME NEW c \in Cmds, ct_results(c)
        PROVE  LoopStates'
    <2>1. CASE in' = in
      <3>1. in = "app"
        BY <1>2 DEF ct_results, Calling
      <3>. QED  BY <1>1, <2>1, <3>1
    <2>2. CASE /\ results_state[c] # "CMD_DONE" /\ in' = c
               /\ results_state' = Set(results_state, c,
                                  IF results_state[c] = "NONE" THEN "INIT" ELSE results_state[c])
      <3>1. results_state'[c] = IF results_state[c] = "NONE" THEN "INIT" ELSE results_state[c]
        BY <1>0, <2>2 DEF Set
      <3>2. results_state[c] \in ResultsStates
        BY <1>0
      <3>3. results_state'[c] \in {"INIT", "EMPTY", "ROWS", "STATUS"}
        BY <2>2, <3>1, <3>2 DEF ResultsStates
      <3>. QED  BY <2>2, <3>3 DEF LoopStates
    <2>. QED  BY <1>2, <2>1, <2>2 DEF ct_results, callVars
  <1>3. ASSUME NEW c \in Cmds, ct_results_turn(c)
        PROVE  LoopStates'
    <2>1. PICK r : r = tds_process_tokens(answer, pos, ResultsFlags)
      OBVIOUS
    <2>2. CASE /\ ~in_cancel /\ r.rc = "SUCCESS" /\ Turn(c, r).what = "none" /\ in' = in /\ in = c
               /\ results_state' = Set(results_state, c, Turn(c, r).state)
      <3>1. Turn(c, r).state \in {"INIT", "EMPTY", "ROWS", "STATUS"}
        BY <1>3, <2>1, <2>2, TurnTypes
      <3>2. results_state'[c] = Turn(c, r).state
        BY <1>0, <2>2 DEF Set
      <3>. QED  BY <2>2, <3>1, <3>2 DEF LoopStates
    <2>. QED  BY <1>1, <1>3, <2>1, <2>2 DEF ct_results_turn, Tell
  <1>4. ASSUME ~(\E c \in Cmds : ct_results(c) \/ ct_results_turn(c))
        PROVE  in' = "app"
    BY <1>4 DEF Next, ct_command, ct_send, ct_cmd_drop, ct_fetch,
          CancelCurrent, CancelAttn, CancelAll, FetchCancelled, callVars, Calling
  <1>. QED  BY <1>1, <1>2, <1>3, <1>4

-----------------------------------------------------------------------------
(* The invariant holds of a new connection.                                *)
LEMMA InitIInv == Init => IInv
  <1>. SUFFICES ASSUME Init PROVE IInv
    OBVIOUS
  <1>1. Where /\ CancelWaits /\ Truths
    <2>1. Len(answer) = 0 /\ answer = <<>> /\ pos = 1
      BY DEF Init
    <2>2. Where
      BY <2>1 DEF Where
    <2>3. CancelWaits /\ Truths
      BY Zenon DEF Init, CancelWaits, Truths
    <2>. QED  BY <2>2, <2>3
  <1>2. Commands
    BY DEF Init, Commands, CommandStates, ResultsStates, Tellings
  <1>3. Control /\ History
    BY ParametersAssumption DEF Init, Control, History
  <1>4. EofIsNotRead /\ LoopStates
    BY DEF Init, EofIsNotRead, LoopStates
  <1>5. NoRowIsSwallowed
    BY DEF Init, NoRowIsSwallowed, Rows, Read
  <1>. QED  BY <1>1, <1>2, <1>3, <1>4, <1>5, TypeParts DEF IInv

(* Every call keeps it.                                                    *)
LEMMA NextIInv == IInv /\ [Next]_vars => IInv'
  <1>1. ASSUME IInv, Next
        PROVE  IInv'
    <2>1. Where' /\ EofIsNotRead' /\ NoRowIsSwallowed' /\ History' /\ CancelWaits'
      BY <1>1, SessionSteps
    <2>2. Commands /\ Control /\ Truths
      BY <1>1, TypeParts DEF IInv
    <2>3. /\ command_type' \in [Cmds -> {"LANG", "DYNAMIC"}]
          /\ command_state' \in [Cmds -> CommandStates]
      BY <1>1, <2>2, CommandSteps
    <2>4. cancel_pending' \in [Cmds -> BOOLEAN] /\ row_prefetched' \in [Cmds -> BOOLEAN]
      BY <1>1, <2>2, PendingSteps
    <2>5. /\ results_state' \in [Cmds -> ResultsStates]
          /\ curr_result_type' \in [Cmds -> Kinds \cup {"none"}]
          /\ told' \in [Cmds -> Tellings]
      BY <1>1, ResultsSteps, ToldSteps
    <2>6. Commands'
      BY <2>3, <2>4, <2>5 DEF Commands
    <2>7. Control' /\ Truths' /\ LoopStates'
      BY <1>1, <2>2, ControlSteps, TruthSteps, LoopSteps
    <2>8. TypeOK'
      BY <2>1, <2>6, <2>7 DEF TypeOK, Where, CancelWaits, Truths, Commands, Control, History,
          CommandStates, ResultsStates, Tellings
    <2>. QED  BY <2>1, <2>7, <2>8 DEF IInv
  <1>2. ASSUME IInv, UNCHANGED vars
        PROVE  IInv'
    <2>1. TypeOK'
      BY <1>2 DEF IInv, TypeOK, vars, idle
    <2>2. EofIsNotRead' /\ LoopStates' /\ NoRowIsSwallowed'
      BY <1>2 DEF IInv, EofIsNotRead, LoopStates, NoRowIsSwallowed, Rows, Read, vars
    <2>. QED  BY <2>1, <2>2 DEF IInv
  <1>. QED  BY <1>1, <1>2

(* The invariant of ct-lib's results.                                      *)
THEOREM Invariant == Spec => []IInv
  BY InitIInv, NextIInv, PTL DEF Spec

(* The variables of the session and of the commands keep their types, and  *)
(* a cancel is only awaited while the answer is not yet read.              *)
THEOREM TypeCorrect == Spec => []TypeOK
  <1>1. IInv => TypeOK
    BY DEF IInv
  <1>. QED  BY Invariant, <1>1, PTL

(* Whatever the program calls, in whatever order and for whichever command, *)
(* no row is lost: the session has read no row that was not fetched or     *)
(* thrown away by a cancel.                                                *)
THEOREM NoRowIsLost == Spec => []NoRowIsSwallowed
  <1>1. IInv => NoRowIsSwallowed
    BY DEF IInv
  <1>. QED  BY Invariant, <1>1, PTL

-----------------------------------------------------------------------------
(* A disciplined program has at most one command whose results it reads:   *)
(* the one that sent the last request.                                     *)
OneOwner == open \subseteq {owner}

(* ct_results() runs for such a command.                                   *)
RunsForOpen == in # "app" => in \in open

OInv == OneOwner /\ RunsForOpen /\ RowsGoToTheirCommand

(* Telling an open command something opens none.                           *)
LEMMA ToldOpens ==
    ASSUME told \in [Cmds -> Tellings], NEW c \in Cmds, NEW v, told' = Set(told, c, v),
           c \in open \/ v = "closed"
    PROVE  open' \subseteq open
  BY DEF Set, open

(* An open command that is told a result stays open.                       *)
LEMMA ToldStaysOpen ==
    ASSUME told \in [Cmds -> Tellings], NEW c \in Cmds, NEW v, told' = Set(told, c, v),
           v # "closed"
    PROVE  c \in open' /\ open' \subseteq open \cup {c}
  BY DEF Set, open

(* The steps that send nothing open no command, and take rows only for an  *)
(* open one.                                                               *)
Belongs == /\ owner' = owner /\ open' \subseteq open
           /\ \A t \in taken' : t \in taken \/ t[2] \in open

(* Such a step keeps each row with its command.                            *)
LEMMA BelongsKeeps ==
    ASSUME OneOwner, RowsGoToTheirCommand, Belongs
    PROVE  OneOwner' /\ RowsGoToTheirCommand'
  BY DEF OneOwner, RowsGoToTheirCommand, Belongs

(* Reading a cancel's acknowledgement closes the command.                  *)
LEMMA CleanupBelongs ==
    ASSUME IInv, NEW c \in Cmds, UNCHANGED <<owner, taken>>, told' = Set(told, c, "closed")
    PROVE  Belongs
  <1>1. told \in [Cmds -> Tellings]
    BY TypeParts DEF IInv, Commands
  <1>2. open' \subseteq open
    BY <1>1, ToldOpens
  <1>. QED  BY <1>2 DEF Belongs

(* The turns of the loop.                                                  *)
LEMMA TurnBelongs ==
    ASSUME IInv, RunsForOpen, NEW c \in Cmds, ct_results_turn(c)
    PROVE  Belongs /\ RunsForOpen'
  <1>0. told \in [Cmds -> Tellings] /\ "app" \notin Cmds
    BY TypeParts, NamesAssumption DEF IInv, Commands
  <1>1. c \in open /\ in = c
    BY <1>0 DEF RunsForOpen, ct_results_turn
  <1>2. owner' = owner
    BY DEF ct_results_turn, histVars
  <1>3. \A t \in taken' : t \in taken \/ t[2] \in open
    <2>1. \/ taken' = taken
          \/ \E j : taken' = taken \cup {<<j, c>>}
      BY DEF ct_results_turn, histVars
    <2>. QED  BY <1>1, <2>1
  <1>4. open' \subseteq open
    <2>1. told' = told \/ \E v : told' = Set(told, c, v)
      BY DEF ct_results_turn, histVars, Tell
    <2>2. CASE told' = told
      BY <2>2 DEF open
    <2>3. ASSUME NEW v, told' = Set(told, c, v)
          PROVE  open' \subseteq open
      BY <1>0, <1>1, <2>3, ToldOpens
    <2>. QED  BY <2>1, <2>2, <2>3
  <1>5. RunsForOpen'
    <2>1. in' = "app" \/ (in' = in /\ told' = told)
      BY DEF ct_results_turn, Tell
    <2>. QED  BY <1>1, <2>1 DEF RunsForOpen, open
  <1>. QED  BY <1>2, <1>3, <1>4, <1>5 DEF Belongs

(* Every call of a disciplined program keeps the invariant.                *)
LEMMA OwnerSteps ==
    ASSUME Disciplined, IInv, OInv, Next
    PROVE  OInv'
  <1>0. /\ told \in [Cmds -> Tellings] /\ "app" \notin Cmds
        /\ OneOwner /\ RunsForOpen /\ RowsGoToTheirCommand
    BY TypeParts, NamesAssumption DEF IInv, Commands, OInv
  <1>1. ASSUME Belongs, RunsForOpen'
        PROVE  OInv'
    BY <1>0, <1>1, BelongsKeeps DEF OInv
  <1>2. ASSUME in' = "app"
        PROVE  RunsForOpen'
    BY <1>2 DEF RunsForOpen
  <1>3. ASSUME NEW c \in Cmds, ct_results_turn(c)
        PROVE  OInv'
    BY <1>0, <1>1, <1>3, TurnBelongs
  <1>4. ASSUME NEW c \in Cmds, ct_send(c)
        PROVE  OInv'
    <2>1. in' = "app"
      BY <1>4 DEF ct_send, Calling, callVars
    <2>2. CASE _ct_cancel_cleanup(c) /\ UNCHANGED <<owner, taken>>
      BY <1>1, <1>2, <2>1, <2>2, CleanupBelongs DEF _ct_cancel_cleanup
    <2>3. CASE UNCHANGED histVars
      BY <1>1, <1>2, <2>1, <2>3 DEF Belongs, histVars, open
    <2>4. CASE MaySend /\ owner' = c /\ told' = Set(told, c, "sent") /\ taken' = {}
      <3>1. open \subseteq {c}
        BY <1>4, <2>4 DEF ct_send, MaySend
      <3>2. open' \subseteq open \cup {c}
        BY <1>0, <2>4, ToldStaysOpen
      <3>. QED  BY <1>2, <2>1, <2>4, <3>1, <3>2 DEF OInv, OneOwner, RowsGoToTheirCommand
    <2>. QED  BY <1>4, <2>2, <2>3, <2>4 DEF ct_send
  <1>5. ASSUME NEW c \in Cmds, ct_results(c)
        PROVE  OInv'
    <2>1. c \in open /\ in = "app"
      BY <1>5 DEF ct_results, Calling
    <2>2. CASE _ct_cancel_cleanup(c) /\ UNCHANGED <<owner, taken, in>>
      BY <1>1, <1>2, <2>1, <2>2, CleanupBelongs DEF _ct_cancel_cleanup
    <2>3. CASE told' = Set(told, c, "CMD_DONE") /\ UNCHANGED <<owner, taken, in>>
      <3>1. open' \subseteq open
        BY <1>0, <2>1, <2>3, ToldOpens
      <3>. QED  BY <1>1, <1>2, <2>1, <2>3, <3>1 DEF Belongs
    <2>4. CASE in' = c /\ UNCHANGED <<owner, taken, told>>
      <3>1. open' = open
        BY <2>4 DEF open
      <3>. QED  BY <1>1, <2>1, <2>4, <3>1 DEF Belongs, RunsForOpen
    <2>. QED  BY <1>5, <2>2, <2>3, <2>4 DEF ct_results, callVars, histVars
  <1>6. ASSUME NEW c \in Cmds, ct_cmd_drop(c)
        PROVE  OInv'
    <2>1. in' = "app" /\ told' = Set(told, c, "closed") /\ UNCHANGED <<owner, taken>>
      BY <1>6 DEF ct_cmd_drop, Calling, callVars
    <2>. QED  BY <1>1, <1>2, <2>1, CleanupBelongs
  <1>7. ASSUME NEW c \in Cmds, NEW type, NEW state, ct_command(c, type, state)
        PROVE  OInv'
    <2>1. in' = "app" /\ UNCHANGED <<owner, taken, told>>
      BY <1>7 DEF ct_command, Calling, callVars, histVars
    <2>. QED  BY <1>1, <1>2, <2>1 DEF Belongs, open
  <1>8. ASSUME NEW c \in Cmds, FetchCancelled(c), in = "app"
        PROVE  OInv'
    <2>1. in' = "app" /\ told' = Set(told, c, "closed") /\ UNCHANGED <<owner, taken>>
      BY <1>8 DEF FetchCancelled, _ct_cancel_cleanup, callVars
    <2>. QED  BY <1>1, <1>2, <2>1, CleanupBelongs
  <1>9. ASSUME NEW c \in Cmds, ct_fetch(c)
        PROVE  OInv'
    <2>1. c \in open /\ in = "app"
      BY <1>9 DEF ct_fetch, Calling, MayFetch
    <2>2. CASE FetchCancelled(c)
      BY <1>8, <2>1, <2>2
    <2>3. CASE UNCHANGED <<in, owner, told>> /\ \E T : taken' = taken \cup (T \X {c})
      <3>1. \A t \in taken' : t \in taken \/ t[2] \in open
        BY <2>1, <2>3
      <3>. QED  BY <1>1, <1>2, <2>1, <2>3, <3>1 DEF Belongs, open
    <2>4. CASE UNCHANGED <<in, owner, told, taken>>
      BY <1>1, <1>2, <2>1, <2>4 DEF Belongs, open
    <2>. QED  BY <1>9, <2>2, <2>3, <2>4 DEF ct_fetch, callVars, histVars
  <1>10. ASSUME NEW c \in Cmds, CancelCurrent(c)
        PROVE  OInv'
    <2>1. in = "app"
      BY <1>10 DEF CancelCurrent, Calling
    <2>2. CASE FetchCancelled(c)
      BY <1>8, <2>1, <2>2
    <2>3. CASE UNCHANGED <<in, owner, told, taken>>
      BY <1>1, <1>2, <2>1, <2>3 DEF Belongs, open
    <2>. QED  BY <1>10, <2>2, <2>3 DEF CancelCurrent
  <1>11. ASSUME NEW s, CancelAttn(s) \/ CancelAll(s)
        PROVE  OInv'
    <2>1. in' = "app" /\ UNCHANGED <<owner, taken>>
      BY <1>11 DEF CancelAttn, CancelAll, Calling, callVars, histVars
    <2>2. told' = told \/ told' = [c \in Cmds |-> IF c \in s THEN "closed" ELSE told[c]]
      BY <1>11 DEF CancelAttn, CancelAll, histVars
    <2>3. open' \subseteq open
      BY <2>2 DEF open
    <2>. QED  BY <1>1, <1>2, <2>1, <2>3 DEF Belongs
  <1>. QED  BY <1>3, <1>4, <1>5, <1>6, <1>7, <1>9, <1>10, <1>11 DEF Next

(* In a disciplined program a command gets the rows of its own request,    *)
(* never those of another command of the connection.                       *)
THEOREM OwnRows ==
    ASSUME Disciplined
    PROVE  Spec => []RowsGoToTheirCommand
  <1>1. Init => OInv
    BY DEF Init, OInv, OneOwner, RunsForOpen, RowsGoToTheirCommand, open
  <1>2. IInv /\ OInv /\ [Next]_vars => OInv'
    <2>1. ASSUME IInv, OInv, UNCHANGED vars
          PROVE  OInv'
      BY <2>1 DEF OInv, OneOwner, RunsForOpen, RowsGoToTheirCommand, open, vars
    <2>. QED  BY <2>1, OwnerSteps
  <1>3. OInv => RowsGoToTheirCommand
    BY DEF OInv
  <1>. QED  BY Invariant, <1>1, <1>2, <1>3, PTL DEF Spec

-----------------------------------------------------------------------------
(* Why a fetch finds an answer.  From p on, a compute format comes after   *)
(* the format of its result set: ct_results() sees that one first.         *)
Ahead(a, p) == \A j \in p .. Len(a) : a[j].kind = "computefmt" =>
                  \E i \in p .. j : a[i].kind \in Dones \cup {"rowfmt"}

(* So it is at the beginning of an answer.                                 *)
LEMMA AheadFirst ==
    ASSUME NEW a, IsAnswer(a)
    PROVE  Ahead(a, 1)
  <1>1. Len(a) \in Nat /\ DOMAIN a = 1 .. Len(a)
    BY AnswerTypes
  <1>2. \A j \in 1 .. Len(a) : a[j].kind = "computefmt" => \E f \in 1 .. j : a[f].kind = "rowfmt"
    BY <1>1 DEF IsAnswer
  <1>. QED  BY <1>2 DEF Ahead

(* At the end of a result set, and at the format of the next one.          *)
LEMMA AheadHere ==
    ASSUME NEW a, NEW p \in Nat, a[p].kind \in Dones \cup {"rowfmt"}
    PROVE  Ahead(a, p)
  BY DEF Ahead

(* At a row, after it, and after what is no part of a result set.          *)
LEMMA AheadOf ==
    ASSUME NEW a, IsAnswer(a), NEW q \in 1 .. Len(a), NEW p \in {q, q + 1},
           a[q].kind \in {"row", "compute", "param", "status"} \cup Dones
    PROVE  Ahead(a, p)
  <1>1. Len(a) \in Nat /\ DOMAIN a = 1 .. Len(a) /\ p \in Nat /\ q \in Nat
    BY AnswerTypes
  <1>. SUFFICES ASSUME NEW j \in p .. Len(a), a[j].kind = "computefmt"
                PROVE  \E i \in p .. j : a[i].kind \in Dones \cup {"rowfmt"}
    BY DEF Ahead
  <1>2. j \in 1 .. Len(a) /\ q <= j
    BY <1>1
  <1>3. PICK f \in 1 .. j : a[f].kind = "rowfmt" /\ \A i \in f .. j : a[i].kind \notin Dones
    BY <1>1, <1>2 DEF IsAnswer
  <1>4. CASE f >= p
    <2>1. f \in p .. j
      BY <1>1, <1>2, <1>4
    <2>. QED  BY <1>3, <2>1
  <1>5. CASE f < p
    <2>1. f # q
      BY <1>3 DEF Dones
    <2>2. f < q /\ q \in f .. j /\ f < j /\ f \in 1 .. Len(a)
      BY <1>1, <1>2, <1>5, <2>1
    <2>3. \A i \in f .. q : a[i].kind \notin Dones
      BY <1>1, <1>2, <1>3, <2>2
    <2>4. a[q].kind \notin {"param", "status"}
      BY <1>1, <1>3, <2>2, <2>3 DEF IsAnswer
    <2>5. a[q].kind \notin {"row", "compute"}
      BY <1>1, <1>2, <1>3, <2>2 DEF IsAnswer
    <2>6. a[q].kind \notin Dones
      BY <2>2, <2>3
    <2>. QED  BY <2>4, <2>5, <2>6
  <1>. QED  BY <1>1, <1>2, <1>4, <1>5

(* Inside a result set there are no parameters.                            *)
LEMMA NoneInside ==
    ASSUME NEW a, IsAnswer(a), NEW q \in 1 .. Len(a), a[q].kind \in {"rowfmt", "computefmt"},
           NEW j \in q + 1 .. Len(a), \A i \in q + 1 .. j : a[i].kind \notin Dones
    PROVE  a[j].kind # "param"
  <1>1. Len(a) \in Nat /\ DOMAIN a = 1 .. Len(a) /\ q \in Nat /\ j \in 1 .. Len(a) /\ q < j
    BY AnswerTypes
  <1>2. \E f \in 1 .. q : a[f].kind = "rowfmt" /\ \A i \in f .. q : a[i].kind \notin Dones
    <2>1. CASE a[q].kind = "rowfmt"
      BY <1>1, <2>1 DEF Dones
    <2>2. CASE a[q].kind = "computefmt"
      BY <1>1, <2>2 DEF IsAnswer
    <2>. QED  BY <2>1, <2>2
  <1>3. PICK f \in 1 .. q : a[f].kind = "rowfmt" /\ \A i \in f .. q : a[i].kind \notin Dones
    BY <1>2
  <1>4. f \in 1 .. Len(a) /\ f < j
    BY <1>1
  <1>5. \A i \in f .. j : a[i].kind \notin Dones
    BY <1>1, <1>3
  <1>. QED  BY <1>1, <1>3, <1>4, <1>5 DEF IsAnswer

(* A loop that stops at DONE tokens does not get past the end.             *)
LEMMA DonesStop ==
    ASSUME NEW a, IsAnswer(a), NEW p \in 1 .. Len(a), NEW flag, "DONE" \in flag.stopat,
           NEW r, r = tds_process_tokens(a, p, flag)
    PROVE  r.next \in p .. Len(a) /\ r.rc \in {"SUCCESS", "FAIL"}
  <1>1. /\ Len(a) \in Nat /\ Stream(a) /\ p \in 1 .. Len(a) + 1
        /\ Final(a[Len(a)]) \/ a[Len(a)].kind = "eof"
    BY AnswerTypes DEF Stream
  <1>2. /\ r.next \in p .. Len(a) + 1
        /\ \A j \in p .. r.next - 1 : ~StopsAt(a, flag, j) /\ a[j].kind # "eof"
    BY <1>1, LoopReads
  <1>3. /\ r.rc \in {"SUCCESS", "FAIL", "NO_MORE_RESULTS"}
        /\ r.rc = "NO_MORE_RESULTS" => r.next = Len(a) + 1
    BY <1>1, LoopReturns
  <1>4. r.next # Len(a) + 1
    <2>1. SUFFICES ASSUME r.next = Len(a) + 1 PROVE FALSE
      OBVIOUS
    <2>2. Len(a) \in p .. r.next - 1
      BY <1>1, <2>1
    <2>3. ~StopsAt(a, flag, Len(a)) /\ a[Len(a)].kind # "eof"
      BY <1>2, <2>2
    <2>4. a[Len(a)].kind \in Dones
      BY <1>1, <2>3 DEF Final
    <2>5. Class(a, Len(a)) = "DONE" /\ a[Len(a)].kind # "status"
      BY <2>4 DEF Class, Dones
    <2>. QED  BY <2>3, <2>5 DEF StopsAt
  <1>. QED  BY <1>1, <1>2, <1>3, <1>4

(* What a turn of ct_results() passes over: no format, and a DONE only at  *)
(* its end and when they are not kept.                                     *)
LEMMA TurnSkips ==
    ASSUME IInv, NEW r, r = tds_process_tokens(answer, pos, ResultsFlags)
    PROVE  /\ \A j \in pos .. r.next - 1 :
                 answer[j].kind \in {"rowfmt", "computefmt"} \cup Dones => j = r.next - 1
           /\ keepdone => \A j \in pos .. r.next - 1 : answer[j].kind \notin Dones
  <1>1. /\ Where /\ Stream(answer) /\ Len(answer) \in Nat /\ pos \in 1 .. Len(answer) + 1
    BY TypeParts, SessionIs DEF IInv
  <1>2. PICK flag : flag = ResultsFlags
    OBVIOUS
  <1>3. /\ flag.return = {"ROWFMT", "COMPUTEFMT", "PROC"} \cup IF keepdone THEN {} ELSE {"DONE"}
        /\ flag.stopat = {"ROW", "COMPUTE"} \cup IF keepdone THEN {"DONE"} ELSE {}
    BY <1>2 DEF ResultsFlags, TDS_TOKEN_RESULTS, Flags
  <1>4. r = tds_process_tokens(answer, pos, flag)
    BY <1>2
  <1>5. /\ \A j \in pos .. r.next - 1 : ~StopsAt(answer, flag, j)
        /\ \A j \in pos .. r.next - 1 : Returns(answer, flag, j) => j = r.next - 1
    BY <1>1, <1>4, LoopReads
  <1>6. ASSUME NEW j \in pos .. r.next - 1, answer[j].kind \in Dones
        PROVE  ~keepdone /\ j = r.next - 1
    <2>1. Class(answer, j) = "DONE" /\ answer[j].kind # "status"
      BY <1>6 DEF Class, Dones
    <2>. QED  BY <1>3, <1>5, <2>1 DEF StopsAt, Returns
  <1>7. ASSUME NEW j \in pos .. r.next - 1, answer[j].kind \in {"rowfmt", "computefmt"}
        PROVE  j = r.next - 1
    <2>1. Class(answer, j) \in {"ROWFMT", "COMPUTEFMT"}
      BY <1>7 DEF Class, Dones
    <2>. QED  BY <1>3, <1>5, <2>1 DEF Returns
  <1>. QED  BY <1>6, <1>7

(* A fetch that reads tokens stops within the answer, with the rows of the *)
(* result set or at its end.                                               *)
LEMMA FetchAhead ==
    ASSUME IInv, NEW c \in Cmds, ~idle, ~row_prefetched[c], ~FetchEnds(c)
    PROVE  /\ Fetched(c) \in pos .. Len(answer)
           /\ \/ Ahead(answer, Fetched(c))
              \/ Fetched(c) = Len(answer) /\ answer[Len(answer)].kind = "eof"
  <1>1. /\ Where /\ Stream(answer) /\ Len(answer) \in Nat /\ pos \in 1 .. Len(answer) + 1
    BY TypeParts, SessionIs DEF IInv
  <1>2. IsAnswer(answer) /\ pos \in 1 .. Len(answer)
    BY <1>1 DEF idle, Stream
  <1>3. PICK flag : flag = FetchFlags
    OBVIOUS
  <1>4. flag.return = {"ROW", "COMPUTE"} /\ flag.stopat = {"ROWFMT", "DONE"}
    BY <1>3 DEF FetchFlags, Flags
  <1>5. PICK r : r = tds_process_tokens(answer, pos, flag)
    OBVIOUS
  <1>6. r.next \in pos .. Len(answer) /\ r.rc \in {"SUCCESS", "FAIL"}
    BY <1>2, <1>4, <1>5, DonesStop
  <1>7. PICK n : n = Cardinality(RowsFrom(r.next, BindCount - 1))
    OBVIOUS
  <1>8. Fetched(c) = IF r.rc = "SUCCESS" /\ r.type \in {"row", "compute"}
                     THEN r.next + (IF curr_result_type[c] = "row" THEN n ELSE 0) ELSE r.next
    BY <1>3, <1>5, <1>7 DEF Fetched
  <1>9. CASE r.rc = "FAIL"
    <2>1. r.next = Len(answer) /\ answer[Len(answer)].kind = "eof"
      BY <1>1, <1>5, <1>9, LoopReturns
    <2>. QED  BY <1>6, <1>8, <1>9, <2>1
  <1>10. CASE r.rc = "SUCCESS"
    <2>1. \/ /\ r.next \in pos .. Len(answer) /\ StopsAt(answer, flag, r.next)
             /\ r.type = answer[r.next].kind
          \/ /\ r.next - 1 \in pos .. Len(answer) /\ Returns(answer, flag, r.next - 1)
             /\ r.type = answer[r.next - 1].kind
      BY <1>1, <1>5, <1>10, ReturnsWhat
    <2>2. CASE StopsAt(answer, flag, r.next) /\ r.type = answer[r.next].kind
      <3>1. answer[r.next].kind \in Kinds
        BY <1>2, <1>6, AnswerTypes
      <3>2. answer[r.next].kind \in Dones \cup {"rowfmt"}
        BY <1>4, <2>2, <3>1 DEF StopsAt, Class, Dones, Kinds
      <3>3. Fetched(c) = r.next
        BY <1>8, <2>2, <3>2 DEF Dones
      <3>4. r.next \in Nat
        BY <1>1, <1>6
      <3>. QED  BY <1>6, <3>2, <3>3, <3>4, AheadHere
    <2>3. CASE r.next - 1 \in pos .. Len(answer) /\ Returns(answer, flag, r.next - 1)
               /\ r.type = answer[r.next - 1].kind
      <3>1. answer[r.next - 1].kind \in Kinds
        BY <1>1, <1>2, <2>3, AnswerTypes
      <3>2. answer[r.next - 1].kind \in {"row", "compute"}
        BY <1>4, <2>3, <3>1 DEF Returns, Class, Dones, Kinds
      <3>3. PICK m \in pos .. Len(answer) : m = r.next
        BY <1>6
      <3>4. PICK T : T = RowsFrom(m, BindCount - 1)
        OBVIOUS
      <3>5. n \in Nat /\ m + n <= Len(answer) + 1 /\ T = m .. m + n - 1
        <4>1. m \in Nat /\ m <= Len(answer) + 1
          BY <1>1
        <4>2. T \subseteq m .. Len(answer)
          BY <3>4 DEF RowsFrom
        <4>3. ASSUME NEW j \in T, NEW i \in m .. j
              PROVE  i \in T
          <5>1. /\ j \in m .. Len(answer) /\ j < m + (BindCount - 1)
                /\ \A k \in m .. j : answer[k].kind = "row"
            BY <3>4 DEF RowsFrom
          <5>2. BindCount \in Nat
            BY ParametersAssumption
          <5>3. i \in m .. Len(answer) /\ i < m + (BindCount - 1)
            BY <1>1, <4>1, <5>1, <5>2
          <5>4. \A k \in m .. i : answer[k].kind = "row"
            BY <4>1, <5>1
          <5>. QED  BY <3>4, <5>3, <5>4 DEF RowsFrom
        <4>4. n = Cardinality(T)
          BY <1>7, <3>3, <3>4
        <4>. QED  BY <1>1, <4>1, <4>2, <4>3, <4>4, RunIs
      <3>6. PICK to \in Nat : to = Fetched(c) /\ (to = m + n \/ to = m)
        <4>1. m \in Nat /\ m + 0 = m
          BY <1>1
        <4>. QED  BY <1>8, <3>3, <3>5, <4>1
      <3>7. /\ to - 1 \in pos .. Len(answer) /\ to \in pos .. Len(answer) + 1
            /\ answer[to - 1].kind \in {"row", "compute"}
        <4>1. CASE to = m
          BY <1>1, <2>3, <3>2, <3>3, <4>1
        <4>2. CASE to = m + n /\ n # 0
          <5>1. to - 1 \in T /\ to - 1 \in pos .. Len(answer) /\ to \in pos .. Len(answer) + 1
            BY <1>1, <3>5, <4>2
          <5>2. to - 1 \in m .. Len(answer) /\ \A k \in m .. to - 1 : answer[k].kind = "row"
            BY <3>4, <5>1 DEF RowsFrom
          <5>3. to - 1 \in m .. to - 1
            BY <1>1, <5>2
          <5>. QED  BY <5>1, <5>2, <5>3
        <4>. QED  BY <1>1, <3>5, <3>6, <4>1, <4>2
      <3>8. to - 1 \in 1 .. Len(answer) /\ to - 1 # Len(answer)
        <4>1. /\ Final(answer[Len(answer)]) \/ answer[Len(answer)].kind = "eof"
          BY <1>2, AnswerTypes
        <4>. QED  BY <1>1, <3>7, <4>1 DEF Final, Dones
      <3>9. to \in {to - 1, (to - 1) + 1}
        BY <3>6
      <3>10. Ahead(answer, to)
        BY <1>2, <3>7, <3>8, <3>9, AheadOf
      <3>11. to \in pos .. Len(answer)
        BY <1>1, <3>7, <3>8
      <3>. QED  BY <3>6, <3>10, <3>11
    <2>. QED  BY <2>1, <2>2, <2>3
  <1>. QED  BY <1>6, <1>9, <1>10

(* The same for CS_CANCEL_CURRENT.                                         *)
LEMMA CurrentAhead ==
    ASSUME IInv, NEW c \in Cmds, CancelCurrent(c), ~FetchCancelled(c)
    PROVE  /\ answer' = answer /\ dropped \subseteq dropped'
           /\ \/ pos' = pos
              \/ dead'
              \/ pos' <= Len(answer) /\ Ahead(answer, pos')
           /\ FetchEnds(c) \/ idle => pos' = pos /\ dead' = FALSE
  <1>1. /\ Where /\ Stream(answer) /\ Len(answer) \in Nat /\ pos \in 1 .. Len(answer) + 1
    BY TypeParts, SessionIs DEF IInv
  <1>2. PICK to : to = IF FetchEnds(c) \/ idle THEN pos
                       ELSE tds_process_tokens(answer, pos, Flags({}, {"ROWFMT", "DONE"})).next
    OBVIOUS
  <1>3. PICK T : T = {j \in pos .. to - 1 : curr_result_type[c] = "row" =>
                                                \A i \in pos .. j : answer[i].kind = "row"}
    OBVIOUS
  <1>4. PICK n : n = Cardinality(T)
    OBVIOUS
  <1>5. /\ pos' = pos + n /\ answer' = answer /\ dropped \subseteq dropped'
        /\ dead' = (~(FetchEnds(c) \/ idle) /\ answer[to].kind = "eof" /\ pos' = to)
    BY <1>2, <1>3, <1>4 DEF CancelCurrent
  <1>6. CASE FetchEnds(c) \/ idle
    <2>1. T = {}
      BY <1>1, <1>2, <1>3, <1>6
    <2>2. n = 0
      BY <1>4, <2>1, FS_EmptySet
    <2>3. pos' = pos
      BY <1>1, <1>5, <2>2
    <2>4. dead' = FALSE
      BY <1>5, <1>6, Zenon
    <2>. QED  BY <1>5, <2>3, <2>4
  <1>7. CASE ~(FetchEnds(c) \/ idle)
    <2>1. IsAnswer(answer) /\ pos \in 1 .. Len(answer)
      BY <1>1, <1>7 DEF idle, Stream
    <2>2. PICK flag : flag = Flags({}, {"ROWFMT", "DONE"})
      OBVIOUS
    <2>3. PICK r : r = tds_process_tokens(answer, pos, flag)
      OBVIOUS
    <2>4. to = r.next /\ flag.return = {} /\ flag.stopat = {"ROWFMT", "DONE"}
      BY <1>2, <1>7, <2>2, <2>3 DEF Flags
    <2>5. to \in pos .. Len(answer) /\ r.rc \in {"SUCCESS", "FAIL"}
      BY <2>1, <2>3, <2>4, DonesStop
    <2>6. answer[to].kind \in Dones \cup {"rowfmt", "eof"}
      <3>1. CASE r.rc = "FAIL"
        BY <1>1, <2>3, <2>4, <3>1, LoopReturns
      <3>2. CASE r.rc = "SUCCESS"
        <4>1. \/ StopsAt(answer, flag, r.next) \/ Returns(answer, flag, r.next - 1)
          BY <1>1, <2>3, <3>2, ReturnsWhat
        <4>2. Class(answer, to) \in {"ROWFMT", "DONE"}
          BY <2>4, <4>1 DEF StopsAt, Returns
        <4>3. answer[to].kind \in Kinds
          BY <2>1, <2>5, AnswerTypes
        <4>. QED  BY <4>2, <4>3 DEF Class, Dones, Kinds
      <3>. QED  BY <2>5, <3>1, <3>2
    <2>7. PICK hi \in Nat : hi = to - 1
      BY <1>1, <2>5
    <2>8. n \in Nat /\ pos + n <= hi + 1 /\ T = pos .. pos + n - 1
      <3>1. pos \in Nat /\ pos <= hi + 1
        BY <1>1, <2>5, <2>7
      <3>2. T \subseteq pos .. hi
        BY <1>3, <2>7
      <3>3. ASSUME NEW j \in T, NEW i \in pos .. j
            PROVE  i \in T
        <4>1. /\ j \in pos .. hi
              /\ curr_result_type[c] = "row" => \A k \in pos .. j : answer[k].kind = "row"
          BY <1>3, <2>7
        <4>2. i \in pos .. hi /\ pos .. i \subseteq pos .. j
          BY <3>1, <4>1
        <4>. QED  BY <1>3, <2>7, <4>1, <4>2
      <3>. QED  BY <1>4, <3>1, <3>2, <3>3, RunIs
    <2>9. PICK m \in Nat : m = pos' /\ m = pos + n /\ m <= to /\ m >= pos
      BY <1>1, <1>5, <2>5, <2>7, <2>8
    <2>10. CASE m = to
      <3>1. answer[to].kind # "eof" => Ahead(answer, m)
        <4>1. to \in Nat
          BY <2>9, <2>10
        <4>. QED  BY <2>6, <2>10, <4>1, AheadHere
      <3>2. answer[to].kind = "eof" => dead'
        BY <1>5, <1>7, <2>9, <2>10, Zenon
      <3>3. m <= Len(answer)
        BY <1>1, <2>5, <2>9, <2>10
      <3>. QED  BY <1>5, <1>7, <2>9, <3>1, <3>2, <3>3
    <2>11. CASE m # to /\ m # pos
      <3>1. m - 1 \in T /\ m - 1 \in 1 .. Len(answer)
        BY <1>1, <2>5, <2>8, <2>9, <2>11
      <3>2. curr_result_type[c] = "row"
        <4>1. curr_result_type[c] # "row" => to - 1 \in T
          BY <1>1, <1>3, <2>5, <2>9, <2>11
        <4>. QED  BY <1>1, <2>5, <2>8, <2>9, <2>11, <4>1
      <3>3. answer[m - 1].kind = "row"
        <4>1. m - 1 \in pos .. m - 1 /\ \A i \in pos .. m - 1 : answer[i].kind = "row"
          BY <1>1, <1>3, <2>9, <2>11, <3>1, <3>2
        <4>. QED  BY <4>1
      <3>4. m \in {m - 1, (m - 1) + 1}
        OBVIOUS
      <3>5. Ahead(answer, m)
        BY <2>1, <3>1, <3>3, <3>4, AheadOf
      <3>. QED  BY <1>1, <1>5, <1>7, <2>5, <2>9, <2>11, <3>5
    <2>. QED  BY <1>5, <1>7, <2>9, <2>10, <2>11
  <1>. QED  BY <1>6, <1>7

-----------------------------------------------------------------------------
(* While ct_results() runs the connection is alive, and nobody waits.      *)
Alive == in # "app" => ~dead /\ ~stuck

(* A command that reads results has an answer.                             *)
Begun == open # {} => answer # <<>>

(* Between two calls no result set is half announced.                      *)
Between == in = "app" /\ ~dead =>
              \A c \in open : results_state[c] # "EMPTY" /\ Ahead(answer, pos)

(* In the loop, an empty result set is the one whose format was just read; *)
(* and for a language command the DONE that ends it is kept.               *)
Within == in # "app" =>
    /\ results_state[in] = "EMPTY" => /\ pos - 1 \in 1 .. Len(answer)
                                      /\ answer[pos - 1].kind \in {"rowfmt", "computefmt"}
    /\ command_type[in] = "LANG" => keepdone \/ (results_state[in] # "EMPTY" /\ Ahead(answer, pos))

(* At the end of the answer no rows are announced: the DONE of the last    *)
(* result set was left to the ct_results() that tells its end.             *)
EndRead == ~dead /\ ~stuck /\ in = "app" /\ idle /\ Len(answer) \notin dropped =>
    \A c \in open : command_type[c] = "LANG" =>
                       told[c] \notin Fetchable /\ curr_result_type[c] \notin Fetchable

WInv == Alive /\ Begun /\ Between /\ Within /\ EndRead /\ FetchFindsAnAnswer

(* A step that leaves the program without an open command.                 *)
LEMMA ClosedWaits ==
    ASSUME in' = "app", open' = {}
    PROVE  WInv'
  BY DEF WInv, Alive, Begun, Between, Within, EndRead, FetchFindsAnAnswer

(* A step that opens no command, and keeps the answer, reads it to its end *)
(* and throws it away, or stops with the end of a result set still ahead.  *)
LEMMA QuietWaits ==
    ASSUME WInv, Calling, in' = "app", stuck' = FALSE, answer' = answer, open' \subseteq open,
           \/ dead'
           \/ pos' = Len(answer) + 1 /\ Len(answer) \in dropped'
           \/ pos' = pos /\ dropped \subseteq dropped'
           \/ pos' <= Len(answer) /\ Ahead(answer, pos'),
           Len(answer) \in Nat, pos' \in Nat,
           \A c \in open' : /\ results_state'[c] # "EMPTY" /\ command_type'[c] = command_type[c]
                            /\ told'[c] = told[c] \/ told'[c] \notin Fetchable
                            /\ curr_result_type'[c] = curr_result_type[c]
    PROVE  WInv'
  <1>1. Alive' /\ Within'
    BY DEF Alive, Within
  <1>2. Begun'
    BY DEF WInv, Begun
  <1>3. FetchFindsAnAnswer'
    BY DEF FetchFindsAnAnswer
  <1>4. Between'
    <2>. SUFFICES ASSUME ~dead', NEW c \in open'
                  PROVE  results_state'[c] # "EMPTY" /\ Ahead(answer, pos')
      BY DEF Between
    <2>1. CASE pos' = Len(answer) + 1
      <3>1. PICK l \in Nat : l = Len(answer)
        OBVIOUS
      <3>2. l + 1 .. l = {}
        OBVIOUS
      <3>3. Ahead(answer, pos')
        BY <2>1, <3>1, <3>2 DEF Ahead
      <3>. QED  BY <3>3
    <2>2. CASE pos' = pos
      BY <2>2 DEF WInv, Between, Calling
    <2>. QED  BY <2>1, <2>2
  <1>5. EndRead'
    <2>. SUFFICES ASSUME ~dead', idle', Len(answer) \notin dropped', NEW c \in open',
                         command_type'[c] = "LANG"
                  PROVE  told'[c] \notin Fetchable /\ curr_result_type'[c] \notin Fetchable
      BY DEF EndRead
    <2>1. pos' = pos /\ dropped \subseteq dropped'
      <3>1. ~(pos' <= Len(answer))
        <4>1. PICK n \in Nat : n = pos'
          OBVIOUS
        <4>2. n > Len(answer)
          BY <4>1 DEF idle
        <4>. QED  BY <4>1, <4>2
      <3>. QED  BY <3>1
    <2>2. ~dead /\ ~stuck /\ in = "app" /\ idle /\ Len(answer) \notin dropped
      BY <2>1 DEF Calling, idle
    <2>3. told[c] \notin Fetchable /\ curr_result_type[c] \notin Fetchable
      BY <2>2 DEF WInv, EndRead
    <2>. QED  BY <2>3
  <1>. QED  BY <1>1, <1>2, <1>3, <1>4, <1>5 DEF WInv

(* The program has one open command: when it is closed there is none.      *)
LEMMA ClosesAll ==
    ASSUME IInv, OInv, NEW c \in open, told' = Set(told, c, "closed")
    PROVE  open' = {}
  <1>1. told \in [Cmds -> Tellings] /\ open \subseteq {owner}
    BY TypeParts DEF IInv, Commands, OInv, OneOwner
  <1>. QED  BY <1>1 DEF Set, open

(* A token that makes the loop go on: after the format of a result set its *)
(* DONE is kept, and no compute format comes first.                        *)
LEMMA LoopWaits ==
    ASSUME IInv, WInv, NEW c \in Cmds, in = c, IsAnswer(answer),
           NEW r, r = tds_process_tokens(answer, pos, ResultsFlags), r.rc = "SUCCESS",
           Turn(c, r).what = "none"
    PROVE  /\ Turn(c, r).state = "EMPTY" => /\ r.next - 1 \in 1 .. Len(answer)
                                            /\ answer[r.next - 1].kind \in {"rowfmt", "computefmt"}
           /\ command_type[c] = "LANG" =>
                 \/ keepdone \/ KeepsDone(c, r)
                 \/ Turn(c, r).state # "EMPTY" /\ Ahead(answer, r.next)
           /\ ~Prefetches(c, r.type)
  <1>1. /\ Len(answer) \in Nat /\ pos \in 1 .. Len(answer) + 1 /\ "app" \notin Cmds
    BY TypeParts, SessionIs, NamesAssumption DEF IInv
  <1>2. /\ r.next \in pos .. Len(answer) + 1 /\ r.error \in BOOLEAN
        /\ \/ /\ r.type \in {"row", "compute"} \cup Dones
              /\ r.next \in pos .. Len(answer) /\ r.type = answer[r.next].kind
              /\ r.type \in Dones => keepdone
           \/ /\ r.type \in {"rowfmt", "computefmt", "param", "status"} \cup Dones
              /\ r.next - 1 \in pos .. Len(answer) /\ r.type = answer[r.next - 1].kind
              /\ r.type \in Dones => ~keepdone
    BY TurnReads
  <1>3. r.type \in {"rowfmt", "computefmt", "doneinproc"}
        /\ (Turn(c, r).state = "EMPTY" => r.type \in {"rowfmt", "computefmt"})
    <2>1. r.type \in {"row", "compute", "rowfmt", "computefmt", "param", "status"} \cup Dones
      BY <1>2
    <2>2. r.type \in {"row", "compute", "rowfmt", "computefmt", "param", "status",
                      "done", "doneproc", "doneinproc"}
      BY <2>1 DEF Dones
    <2>3. results_state[c] \in {"INIT", "EMPTY", "ROWS", "STATUS"}
      BY <1>1 DEF IInv, LoopStates
    <2>4. Turn(c, r).state = "EMPTY" => r.type \in {"rowfmt", "computefmt", "param"}
      BY <1>2, <2>1, TurnIs
    <2>5. \A what, state : Is(what, state).what = what
      BY DEF Is
    <2>6. r.type \notin {"row", "compute", "param", "status", "done", "doneproc"}
      BY <2>2, <2>3, <2>5 DEF Turn
    <2>. QED  BY <2>2, <2>4, <2>6
  <1>4. ~Prefetches(c, r.type)
    BY <1>3 DEF Prefetches
  <1>5. ASSUME Turn(c, r).state = "EMPTY"
        PROVE  r.next - 1 \in 1 .. Len(answer) /\ answer[r.next - 1].kind \in {"rowfmt", "computefmt"}
    <2>1. r.type \in {"rowfmt", "computefmt"}
      BY <1>3, <1>5
    <2>2. r.next - 1 \in pos .. Len(answer) /\ r.type = answer[r.next - 1].kind
      BY <1>2, <2>1 DEF Dones
    <2>. QED  BY <1>1, <2>1, <2>2
  <1>6. ASSUME command_type[c] = "LANG", ~keepdone, ~KeepsDone(c, r)
        PROVE  Turn(c, r).state # "EMPTY" /\ Ahead(answer, r.next)
    <2>1. r.type # "rowfmt"
      BY <1>6 DEF KeepsDone
    <2>2. Ahead(answer, pos)
      BY <1>1, <1>6 DEF WInv, Within
    <2>3. r.next - 1 \in pos .. Len(answer) /\ r.type = answer[r.next - 1].kind
      BY <1>2, <1>3, <1>6 DEF Dones
    <2>4. r.type # "computefmt"
      <3>1. SUFFICES ASSUME r.type = "computefmt" PROVE FALSE
        OBVIOUS
      <3>2. PICK n \in pos .. Len(answer) : n = r.next - 1
        BY <2>3
      <3>3. PICK i \in pos .. n : answer[i].kind \in Dones \cup {"rowfmt"}
        BY <2>2, <2>3, <3>1, <3>2 DEF Ahead
      <3>4. i \in pos .. r.next - 1
        BY <3>2
      <3>5. i = n
        BY <3>2, <3>3, <3>4, TurnSkips
      <3>. QED  BY <2>3, <3>1, <3>2, <3>3, <3>5 DEF Dones
    <2>5. r.type = "doneinproc"
      BY <1>3, <2>1, <2>4
    <2>6. PICK q \in 1 .. Len(answer) : q = r.next - 1 /\ q + 1 = r.next
      BY <1>1, <1>2, <2>3
    <2>7. answer[q].kind \in Dones
      BY <2>3, <2>5, <2>6 DEF Dones
    <2>8. r.next \in {q, q + 1}
      BY <2>6
    <2>9. Ahead(answer, r.next)
      BY <2>6, <2>7, <2>8, AheadOf
    <2>. QED  BY <1>3, <2>5, <2>9
  <1>. QED  BY <1>4, <1>5, <1>6

(* A token that ends the call: no result set is half announced, and a      *)
(* language command that has read the last DONE is told of no rows.        *)
LEMMA TellWaits ==
    ASSUME IInv, WInv, NEW c \in Cmds, in = c, IsAnswer(answer),
           NEW r, r = tds_process_tokens(answer, pos, ResultsFlags), r.rc = "SUCCESS",
           Turn(c, r).what # "none",
           NEW to, to = IF Prefetches(c, r.type) THEN r.next + 1 ELSE r.next
    PROVE  /\ Turn(c, r).state # "EMPTY" /\ Ahead(answer, to)
           /\ to = Len(answer) + 1 =>
                 /\ r.type \in Dones
                 /\ command_type[c] = "LANG" => Turn(c, r).what \notin Fetchable
           /\ to \in 1 .. Len(answer) + 1
  <1>1. /\ Len(answer) \in Nat /\ pos \in 1 .. Len(answer) + 1 /\ "app" \notin Cmds
    BY TypeParts, SessionIs, NamesAssumption DEF IInv
  <1>2. /\ r.next \in pos .. Len(answer) + 1 /\ r.error \in BOOLEAN
        /\ \/ /\ r.type \in {"row", "compute"} \cup Dones
              /\ r.next \in pos .. Len(answer) /\ r.type = answer[r.next].kind
              /\ r.type \in Dones => keepdone
           \/ /\ r.type \in {"rowfmt", "computefmt", "param", "status"} \cup Dones
              /\ r.next - 1 \in pos .. Len(answer) /\ r.type = answer[r.next - 1].kind
              /\ r.type \in Dones => ~keepdone
    BY TurnReads
  <1>3. r.type \in {"row", "compute", "rowfmt", "computefmt", "param", "status"} \cup Dones
    BY <1>2
  <1>4. r.type \notin {"rowfmt", "computefmt"}
    <2>1. Is("none", "EMPTY").what = "none"
      BY DEF Is
    <2>. QED  BY <2>1 DEF Turn
  <1>5. /\ Turn(c, r).state = "EMPTY" => r.type = "param"
        /\ Turn(c, r).what \in Fetchable /\ r.type \in Dones => results_state[c] = "EMPTY"
    BY <1>2, <1>3, <1>4, TurnIs
  <1>6. PICK q \in 1 .. Len(answer) : /\ answer[q].kind = r.type /\ to \in {q, q + 1}
                                      /\ q \in {r.next, r.next - 1}
                                      /\ to = Len(answer) + 1 /\ q = r.next => Prefetches(c, r.type)
    <2>1. CASE r.next \in pos .. Len(answer) /\ r.type = answer[r.next].kind
      BY <1>1, <2>1
    <2>2. CASE /\ r.type \in {"rowfmt", "computefmt", "param", "status"} \cup Dones
               /\ r.next - 1 \in pos .. Len(answer) /\ r.type = answer[r.next - 1].kind
      <3>1. ~Prefetches(c, r.type)
        BY <2>2 DEF Prefetches, Dones
      <3>. QED  BY <1>1, <1>2, <2>2, <3>1
    <2>. QED  BY <1>2, <2>1, <2>2
  <1>7. Ahead(answer, to)
    <2>1. answer[q].kind \in {"row", "compute", "param", "status"} \cup Dones
      BY <1>3, <1>4, <1>6
    <2>. QED  BY <1>6, <2>1, AheadOf
  <1>8. Turn(c, r).state # "EMPTY"
    <2>1. SUFFICES ASSUME Turn(c, r).state = "EMPTY" PROVE FALSE
      OBVIOUS
    <2>2. r.type = "param"
      BY <1>5, <2>1
    <2>3. results_state[c] = "EMPTY"
      <3>1. \A what, state : Is(what, state).state = state
        BY DEF Is
      <3>. QED  BY <2>1, <2>2, <3>1 DEF Turn
    <2>4. pos - 1 \in 1 .. Len(answer) /\ answer[pos - 1].kind \in {"rowfmt", "computefmt"}
      BY <1>1, <2>3 DEF WInv, Within
    <2>5. PICK p \in 1 .. Len(answer) : p = pos - 1 /\ p + 1 = pos
      BY <1>1, <2>4
    <2>6. PICK j \in p + 1 .. Len(answer) : j = r.next - 1 /\ answer[j].kind = "param"
      BY <1>2, <2>2, <2>5 DEF Dones
    <2>7. ASSUME NEW i \in p + 1 .. j
          PROVE  answer[i].kind \notin Dones
      <3>1. i \in pos .. r.next - 1
        BY <2>5, <2>6
      <3>2. answer[i].kind \in Dones => i = j
        BY <2>6, <3>1, TurnSkips
      <3>. QED  BY <2>6, <3>2 DEF Dones
    <2>8. answer[p].kind \in {"rowfmt", "computefmt"}
      BY <2>4, <2>5
    <2>. QED  BY <2>6, <2>7, <2>8, NoneInside
  <1>9. ASSUME to = Len(answer) + 1
        PROVE  r.type \in Dones
               /\ (command_type[c] = "LANG" => Turn(c, r).what \notin Fetchable)
    <2>1. q = Len(answer)
      BY <1>1, <1>6, <1>9
    <2>2. Final(answer[Len(answer)]) \/ answer[Len(answer)].kind = "eof"
      BY AnswerTypes
    <2>3. r.type \in Dones
      BY <1>3, <1>6, <2>1, <2>2 DEF Final, Dones
    <2>4. ~Prefetches(c, r.type) /\ to = r.next
      BY <2>3 DEF Prefetches, Dones
    <2>5. ~keepdone
      BY <1>1, <1>2, <1>9, <2>3, <2>4 DEF Dones
    <2>6. command_type[c] = "LANG" => results_state[c] # "EMPTY"
      BY <1>1, <2>5 DEF WInv, Within
    <2>. QED  BY <1>5, <2>3, <2>6
  <1>10. to \in 1 .. Len(answer) + 1
    BY <1>1, <1>6
  <1>. QED  BY <1>7, <1>8, <1>9, <1>10

(* A turn of ct_results().                                                 *)
LEMMA TurnWaits ==
    ASSUME IInv, OInv, WInv, NEW c \in Cmds, ct_results_turn(c)
    PROVE  WInv'
  <1>0. /\ told \in [Cmds -> Tellings] /\ results_state \in [Cmds -> ResultsStates]
        /\ curr_result_type \in [Cmds -> Kinds \cup {"none"}]
        /\ "app" \notin Cmds /\ open \subseteq {owner} /\ in = c
    BY TypeParts, NamesAssumption DEF IInv, Commands, OInv, OneOwner, ct_results_turn
  <1>1. c \in open /\ ~dead /\ ~stuck
    BY <1>0 DEF OInv, RunsForOpen, WInv, Alive
  <1>2. IsAnswer(answer) /\ Len(answer) \in Nat
    <2>1. answer # <<>> /\ Where
      BY <1>1, TypeParts DEF WInv, Begun, IInv
    <2>. QED  BY <2>1, SessionIs DEF Stream
  <1>3. PICK r : r = tds_process_tokens(answer, pos, ResultsFlags)
    OBVIOUS
  <1>4. CASE in' = "app" /\ told' = Set(told, c, "closed")
    BY <1>1, <1>4, ClosesAll, ClosedWaits
  <1>5. CASE dead' = TRUE /\ in' = "app" /\ UNCHANGED <<answer, stuck, told>>
    <2>1. open' = open
      BY <1>5 DEF open
    <2>. QED  BY <1>1, <1>5, <2>1 DEF WInv, Alive, Begun, Between, Within, EndRead, FetchFindsAnAnswer
  <1>6. CASE /\ ~in_cancel /\ r.rc = "SUCCESS"
             /\ pos' = IF Prefetches(c, r.type) THEN r.next + 1 ELSE r.next
             /\ curr_result_type' = Set(curr_result_type, c,
                                         IF r.type = "rowfmt" THEN "row" ELSE r.type)
             /\ results_state' = Set(results_state, c, Turn(c, r).state)
             /\ keepdone' = (keepdone \/ KeepsDone(c, r))
             /\ IF Turn(c, r).what = "none" THEN UNCHANGED <<in, told>>
                ELSE in' = "app" /\ told' = Set(told, c, Turn(c, r).what)
             /\ UNCHANGED <<answer, dead, command_type, stuck, dropped>>
    <2>1. results_state'[c] = Turn(c, r).state
      BY <1>0, <1>6 DEF Set
    <2>2. CASE Turn(c, r).what = "none"
      <3>1. in' = c /\ open' = open
        BY <1>0, <1>6, <2>2 DEF open
      <3>2. /\ Turn(c, r).state = "EMPTY" => /\ r.next - 1 \in 1 .. Len(answer)
                                             /\ answer[r.next - 1].kind \in {"rowfmt", "computefmt"}
            /\ command_type[c] = "LANG" =>
                  \/ keepdone \/ KeepsDone(c, r)
                  \/ Turn(c, r).state # "EMPTY" /\ Ahead(answer, r.next)
            /\ ~Prefetches(c, r.type)
        BY <1>0, <1>2, <1>3, <1>6, <2>2, LoopWaits
      <3>3. pos' = r.next
        BY <1>6, <3>2
      <3>4. Within'
        <4>1. results_state'[c] = "EMPTY" => /\ pos' - 1 \in 1 .. Len(answer)
                                             /\ answer[pos' - 1].kind \in {"rowfmt", "computefmt"}
          BY <2>1, <3>2, <3>3
        <4>2. command_type[c] = "LANG" =>
                 keepdone' \/ (results_state'[c] # "EMPTY" /\ Ahead(answer, pos'))
          <5>1. (keepdone \/ KeepsDone(c, r)) => keepdone'
            BY <1>6, Zenon
          <5>. QED  BY <2>1, <3>2, <3>3, <5>1
        <4>. QED  BY <1>6, <3>1, <4>1, <4>2 DEF Within
      <3>5. Alive' /\ Begun' /\ Between' /\ EndRead' /\ FetchFindsAnAnswer'
        BY <1>0, <1>1, <1>6, <3>1 DEF WInv, Alive, Begun, Between, EndRead, FetchFindsAnAnswer
      <3>. QED  BY <3>4, <3>5 DEF WInv
    <2>3. CASE Turn(c, r).what # "none"
      <3>1. in' = "app" /\ told' = Set(told, c, Turn(c, r).what)
        BY <1>6, <2>3
      <3>2. open' \subseteq {c}
        <4>1. open' \subseteq open
          BY <1>0, <1>1, <3>1, ToldOpens
        <4>. QED  BY <1>0, <1>1, <4>1
      <3>3. PICK to : to = IF Prefetches(c, r.type) THEN r.next + 1 ELSE r.next
        OBVIOUS
      <3>4. /\ Turn(c, r).state # "EMPTY" /\ Ahead(answer, to)
            /\ to = Len(answer) + 1 =>
                 /\ r.type \in Dones
                 /\ command_type[c] = "LANG" => Turn(c, r).what \notin Fetchable
            /\ to \in 1 .. Len(answer) + 1
        BY <1>0, <1>2, <1>3, <1>6, <2>3, <3>3, TellWaits
      <3>5. pos' = to
        BY <1>6, <3>3
      <3>6. Between'
        BY <1>6, <2>1, <3>2, <3>4, <3>5 DEF Between
      <3>7. EndRead'
        <4>. SUFFICES ASSUME idle', command_type[c] = "LANG"
                      PROVE  told'[c] \notin Fetchable /\ curr_result_type'[c] \notin Fetchable
          BY <1>6, <3>2 DEF EndRead
        <4>1. to > Len(answer)
          BY <1>6, <3>5 DEF idle
        <4>2. to = Len(answer) + 1
          BY <1>2, <3>4, <4>1
        <4>3. r.type \in Dones /\ Turn(c, r).what \notin Fetchable
          BY <3>4, <4>2
        <4>4. told'[c] = Turn(c, r).what
          BY <1>0, <3>1 DEF Set
        <4>5. curr_result_type'[c] = r.type
          BY <1>0, <1>6, <4>3 DEF Set, Dones
        <4>. QED  BY <4>3, <4>4, <4>5 DEF Dones, Fetchable
      <3>8. Begun'
        BY <1>1, <1>6 DEF WInv, Begun
      <3>9. Alive' /\ Within' /\ FetchFindsAnAnswer'
        BY <1>1, <1>6, <3>1 DEF Alive, Within, FetchFindsAnAnswer
      <3>. QED  BY <3>6, <3>7, <3>8, <3>9 DEF WInv
    <2>. QED  BY <2>2, <2>3
  <1>. QED  BY <1>3, <1>4, <1>5, <1>6 DEF ct_results_turn, histVars, Tell

(* An answer that is read to its end and thrown away.                      *)
LEMMA DrainEnds ==
    ASSUME IInv, ~idle, Drain
    PROVE  dead' \/ (pos' = Len(answer) + 1 /\ Len(answer) \in dropped')
  <1>1. Len(answer) \in Nat /\ pos \in 1 .. Len(answer) + 1
    BY TypeParts, SessionIs DEF IInv
  <1>2. CASE answer[Len(answer)].kind = "eof"
    <2>1. DrainTo = Len(answer)
      BY <1>2 DEF DrainTo
    <2>2. dead' = (DrainTo = Len(answer))
      BY DEF Drain
    <2>. QED  BY <2>1, <2>2, Zenon
  <1>3. CASE answer[Len(answer)].kind # "eof"
    <2>1. DrainTo = Len(answer) + 1
      BY <1>3 DEF DrainTo
    <2>2. Len(answer) \in pos .. DrainTo - 1
      BY <1>1, <2>1 DEF idle
    <2>. QED  BY <2>1, <2>2 DEF Drain
  <1>. QED  BY <1>2, <1>3

(* A session where nothing happens, or a cancelled answer is read.         *)
LEMMA CancelEnds ==
    ASSUME IInv, (Drain /\ ~idle) \/ UNCHANGED <<sessionVars, dropped>>
    PROVE  /\ answer' = answer
           /\ \/ dead'
              \/ pos' = Len(answer) + 1 /\ Len(answer) \in dropped'
              \/ pos' = pos /\ dropped \subseteq dropped'
  <1>1. CASE Drain /\ ~idle
    BY <1>1, DrainEnds DEF Drain
  <1>2. CASE UNCHANGED <<sessionVars, dropped>>
    BY <1>2 DEF sessionVars
  <1>. QED  BY <1>1, <1>2

(* ct_send(): a cancel is finished, or a new answer begins, or the request *)
(* is refused.                                                             *)
LEMMA SendWaits ==
    ASSUME Disciplined, IInv, OInv, WInv, NEW c \in Cmds, ct_send(c), pos' \in Nat
    PROVE  WInv'
  <1>0. /\ told \in [Cmds -> Tellings] /\ results_state \in [Cmds -> ResultsStates]
        /\ Len(answer) \in Nat /\ CancelWaits
    BY TypeParts, SessionIs DEF IInv, Commands
  <1>1. Calling /\ in' = "app" /\ stuck' = FALSE
    <2>1. Calling /\ UNCHANGED callVars
      BY DEF ct_send
    <2>2. stuck \in BOOLEAN
      BY TypeParts DEF IInv, Truths
    <2>. QED  BY <2>1, <2>2 DEF Calling, callVars
  <1>2. \A d \in open : results_state[d] # "EMPTY" /\ Ahead(answer, pos)
    BY <1>1 DEF WInv, Between, Calling
  <1>3. CASE /\ _ct_cancel_cleanup(c)
             /\ UNCHANGED <<command_type, results_state, curr_result_type>>
    <2>1. told' = Set(told, c, "closed")
      BY <1>3 DEF _ct_cancel_cleanup
    <2>2. open' \subseteq open
      BY <1>0, <2>1, ToldOpens
    <2>3. \A d \in open' : told'[d] = told[d]
      BY <1>0, <2>1 DEF Set, open
    <2>4. (Drain /\ ~idle) \/ UNCHANGED <<sessionVars, dropped>>
      BY <1>0, <1>3 DEF _ct_cancel_cleanup, CancelWaits
    <2>5. /\ answer' = answer
          /\ \/ dead'
             \/ pos' = Len(answer) + 1 /\ Len(answer) \in dropped'
             \/ pos' = pos /\ dropped \subseteq dropped'
      BY <2>4, CancelEnds
    <2>. QED  BY <1>0, <1>1, <1>2, <1>3, <2>2, <2>3, <2>5, QuietWaits
  <1>4. CASE /\ results_state' = Set(results_state, c, "NONE")
             /\ UNCHANGED <<sessionVars, histVars, command_type, curr_result_type>>
    <2>1. open' = open /\ UNCHANGED <<answer, pos, dead, dropped, told>>
      BY <1>4 DEF open, sessionVars, histVars
    <2>2. \A d \in open' : results_state'[d] # "EMPTY"
      BY <1>0, <1>2, <1>4, <2>1 DEF Set
    <2>. QED  BY <1>0, <1>1, <1>4, <2>1, <2>2, QuietWaits
  <1>5. CASE /\ idle /\ told' = Set(told, c, "sent") /\ answer' \in Answers /\ pos' = 1
             /\ results_state' = Set(results_state, c, "NONE")
    <2>1. IsAnswer(answer')
      BY <1>5, AnswersAssumption
    <2>2. Len(answer') \in Nat \ {0} /\ answer' # <<>>
      BY <2>1, AnswerTypes DEF IsAnswer
    <2>3. open' \subseteq {c}
      <3>1. open \subseteq {c}
        BY <1>5 DEF ct_send
      <3>2. open' \subseteq open \cup {c}
        BY <1>0, <1>5, ToldStaysOpen
      <3>. QED  BY <3>1, <3>2
    <2>4. Ahead(answer', 1)
      BY <2>1, AheadFirst
    <2>5. results_state'[c] = "NONE"
      BY <1>0, <1>5 DEF Set
    <2>6. Between'
      BY <1>5, <2>3, <2>4, <2>5 DEF Between
    <2>7. ~idle'
      BY <1>5, <2>2 DEF idle
    <2>. QED  BY <1>1, <2>2, <2>6, <2>7 DEF WInv, Alive, Begun, Within, EndRead, FetchFindsAnAnswer
  <1>. QED  BY <1>3, <1>4, <1>5 DEF ct_send, MaySend

(* ct_results(): the state alone gives the answer, or the loop begins.     *)
LEMMA ResultsWaits ==
    ASSUME IInv, OInv, WInv, NEW c \in Cmds, ct_results(c), pos' \in Nat
    PROVE  WInv'
  <1>0. /\ told \in [Cmds -> Tellings] /\ results_state \in [Cmds -> ResultsStates]
        /\ Len(answer) \in Nat /\ "app" \notin Cmds /\ open \subseteq {owner}
    BY TypeParts, SessionIs, NamesAssumption DEF IInv, Commands, OInv, OneOwner
  <1>1. Calling /\ c \in open /\ in = "app" /\ stuck = FALSE
    <2>1. Calling /\ c \in open
      BY DEF ct_results
    <2>2. stuck \in BOOLEAN
      BY TypeParts DEF IInv, Truths
    <2>. QED  BY <2>1, <2>2 DEF Calling
  <1>2. \A d \in open : results_state[d] # "EMPTY" /\ Ahead(answer, pos)
    BY <1>1 DEF WInv, Between, Calling
  <1>3. CASE _ct_cancel_cleanup(c) /\ UNCHANGED in
    BY <1>1, <1>3, ClosesAll, ClosedWaits DEF _ct_cancel_cleanup
  <1>4. CASE /\ results_state' = Set(results_state, c, "INIT") /\ told' = Set(told, c, "CMD_DONE")
             /\ UNCHANGED <<answer, pos, dead, dropped, command_type, curr_result_type, in, stuck>>
    <2>1. open' \subseteq open
      BY <1>0, <1>1, <1>4, ToldOpens
    <2>2. \A d \in open' : d = c
      BY <1>0, <1>1, <2>1
    <2>3. told'[c] \notin Fetchable /\ results_state'[c] # "EMPTY"
      BY <1>0, <1>4 DEF Set, Fetchable
    <2>. QED  BY <1>0, <1>1, <1>4, <2>1, <2>2, <2>3, QuietWaits
  <1>5. CASE /\ results_state' = Set(results_state, c,
                                  IF results_state[c] = "NONE" THEN "INIT" ELSE results_state[c])
             /\ in' = c
             /\ UNCHANGED <<answer, pos, dead, dropped, command_type, curr_result_type, stuck, told>>
    <2>1. results_state'[c] # "EMPTY"
      BY <1>0, <1>1, <1>2, <1>5 DEF Set
    <2>2. Within'
      BY <1>1, <1>2, <1>5, <2>1 DEF Within
    <2>3. open' = open
      BY <1>5 DEF open
    <2>4. Alive' /\ Begun' /\ Between' /\ EndRead' /\ FetchFindsAnAnswer'
      BY <1>0, <1>1, <1>5, <2>3
          DEF WInv, Alive, Begun, Between, EndRead, FetchFindsAnAnswer, Calling
    <2>. QED  BY <2>2, <2>4 DEF WInv
  <1>. QED  BY <1>3, <1>4, <1>5 DEF ct_results, callVars, histVars, sessionVars

(* ct_fetch() and CS_CANCEL_CURRENT wait at the end of the answer only when *)
(* nothing told the program of rows.                                       *)
LEMMA StuckWaits ==
    ASSUME IInv, OInv, WInv, Calling, NEW c \in open, idle,
           told[c] \in Fetchable \/ curr_result_type[c] \in Fetchable,
           stuck', in' = "app", UNCHANGED <<answer, pos, told, command_type, results_state>>,
           dead' = FALSE, dropped \subseteq dropped'
    PROVE  WInv'
  <1>0. command_type \in [Cmds -> {"LANG", "DYNAMIC"}] /\ open \subseteq {owner} /\ open \subseteq Cmds
    BY TypeParts DEF IInv, Commands, OInv, OneOwner, open
  <1>1. open' = open
    BY DEF open
  <1>2. command_type[c] = "DYNAMIC" \/ Len(answer) \in dropped
    BY <1>0 DEF WInv, EndRead, Calling
  <1>3. FetchFindsAnAnswer'
    BY <1>0, <1>1, <1>2 DEF FetchFindsAnAnswer
  <1>. QED  BY <1>1, <1>3 DEF WInv, Alive, Begun, Between, Within, EndRead, Calling

(* A cancelled fetch closes the command.                                   *)
LEMMA CancelledWaits ==
    ASSUME IInv, OInv, NEW c \in open, FetchCancelled(c), in = "app"
    PROVE  WInv'
  <1>1. told' = Set(told, c, "closed") /\ in' = "app"
    BY DEF FetchCancelled, _ct_cancel_cleanup, callVars
  <1>. QED  BY <1>1, ClosesAll, ClosedWaits

(* ct_fetch().                                                             *)
LEMMA FetchWaiting ==
    ASSUME Disciplined, IInv, OInv, WInv, NEW c \in Cmds, ct_fetch(c), pos' \in Nat
    PROVE  WInv'
  <1>0. /\ Len(answer) \in Nat /\ pos \in 1 .. Len(answer) + 1
        /\ stuck \in BOOLEAN /\ dead \in BOOLEAN
    BY TypeParts, SessionIs DEF IInv, Truths
  <1>1. Calling /\ c \in open /\ told[c] \in Fetchable /\ in = "app" /\ stuck = FALSE /\ dead = FALSE
    BY <1>0 DEF ct_fetch, MayFetch, Calling
  <1>2. \A d \in open : results_state[d] # "EMPTY" /\ Ahead(answer, pos)
    BY <1>1 DEF WInv, Between, Calling
  <1>3. CASE FetchCancelled(c)
    BY <1>1, <1>3, CancelledWaits
  <1>4. CASE FetchWaits(c) /\ stuck' = TRUE /\ UNCHANGED <<sessionVars, cmdVars, in, histVars>>
    <2>1. idle
      BY <1>4 DEF FetchWaits
    <2>2. UNCHANGED <<answer, pos, dead, told, command_type, results_state, dropped>>
      BY <1>4 DEF sessionVars, cmdVars, histVars
    <2>. QED  BY <1>1, <1>4, <2>1, <2>2, StuckWaits
  <1>5. CASE /\ ~FetchWaits(c) /\ pos' = Fetched(c)
             /\ dead' = (~idle /\ Fetched(c) = Len(answer) /\ answer[Len(answer)].kind = "eof"
                         /\ ~row_prefetched[c] /\ ~FetchEnds(c))
             /\ UNCHANGED <<answer, command_type, results_state, curr_result_type, callVars, told, dropped>>
    <2>1. open' = open /\ in' = "app" /\ stuck' = FALSE
      BY <1>1, <1>5 DEF open, callVars
    <2>2. CASE row_prefetched[c] \/ FetchEnds(c)
      <3>1. pos' = pos
        BY <1>5, <2>2 DEF Fetched
      <3>. QED  BY <1>0, <1>1, <1>2, <1>5, <2>1, <3>1, QuietWaits
    <2>3. CASE ~row_prefetched[c] /\ ~FetchEnds(c)
      <3>1. ~idle
        BY <1>5, <2>3 DEF FetchWaits, FetchEnds
      <3>2. /\ Fetched(c) \in pos .. Len(answer)
            /\ \/ Ahead(answer, Fetched(c))
               \/ Fetched(c) = Len(answer) /\ answer[Len(answer)].kind = "eof"
        BY <2>3, <3>1, FetchAhead
      <3>3. Fetched(c) = Len(answer) /\ answer[Len(answer)].kind = "eof" => dead'
        BY <1>5, <2>3, <3>1, Zenon
      <3>4. pos' <= Len(answer)
        BY <1>0, <1>5, <3>2
      <3>5. dead' \/ (pos' <= Len(answer) /\ Ahead(answer, pos'))
        BY <1>5, <3>2, <3>3, <3>4
      <3>. QED  BY <1>0, <1>1, <1>2, <1>5, <2>1, <3>5, QuietWaits
    <2>. QED  BY <2>2, <2>3
  <1>. QED  BY <1>3, <1>4, <1>5 DEF ct_fetch

(* ct_cancel(CS_CANCEL_CURRENT).                                           *)
LEMMA CurrentWaits ==
    ASSUME IInv, OInv, WInv, NEW c \in Cmds, CancelCurrent(c), pos' \in Nat
    PROVE  WInv'
  <1>0. Len(answer) \in Nat /\ stuck \in BOOLEAN
    BY TypeParts, SessionIs DEF IInv, Truths
  <1>1. Calling /\ c \in open /\ curr_result_type[c] \in Fetchable /\ in = "app"
    BY DEF CancelCurrent, MayFetch, Calling
  <1>2. \A d \in open : results_state[d] # "EMPTY" /\ Ahead(answer, pos)
    BY <1>1 DEF WInv, Between, Calling
  <1>3. CASE FetchCancelled(c)
    BY <1>1, <1>3, CancelledWaits
  <1>4. CASE ~FetchCancelled(c)
    <2>1. /\ stuck' = (~FetchEnds(c) /\ idle)
          /\ UNCHANGED <<command_type, results_state, curr_result_type, in, told>>
      BY <1>4 DEF CancelCurrent
    <2>2. /\ answer' = answer /\ dropped \subseteq dropped'
          /\ \/ pos' = pos
             \/ dead'
             \/ pos' <= Len(answer) /\ Ahead(answer, pos')
          /\ FetchEnds(c) \/ idle => pos' = pos /\ dead' = FALSE
      BY <1>4, CurrentAhead
    <2>3. CASE ~FetchEnds(c) /\ idle
      <3>1. stuck'
        BY <2>1, <2>3, Zenon
      <3>. QED  BY <1>1, <2>1, <2>2, <2>3, <3>1, StuckWaits
    <2>4. CASE ~(~FetchEnds(c) /\ idle)
      <3>1. stuck' = FALSE
        BY <2>1, <2>4, Zenon
      <3>2. open' = open /\ in' = "app"
        BY <1>1, <2>1 DEF open
      <3>. QED  BY <1>0, <1>1, <1>2, <2>1, <2>2, <3>1, <3>2, QuietWaits
    <2>. QED  BY <2>3, <2>4
  <1>. QED  BY <1>3, <1>4

(* The calls that leave the results of the open command alone: ct_command(), *)
(* ct_cmd_drop(), and cancels of the connection.                           *)
LEMMA OthersWait ==
    ASSUME Disciplined, IInv, OInv, WInv, pos' \in Nat,
           \/ \E c \in Cmds :
                 \/ \E type \in {"LANG", "DYNAMIC"}, state \in {"BUILDING", "READY"} :
                       ct_command(c, type, state)
                 \/ ct_cmd_drop(c)
           \/ \E s \in Targets : CancelAttn(s) \/ CancelAll(s)
    PROVE  WInv'
  <1>0. /\ told \in [Cmds -> Tellings] /\ results_state \in [Cmds -> ResultsStates]
        /\ curr_result_type \in [Cmds -> Kinds \cup {"none"}]
        /\ command_type \in [Cmds -> {"LANG", "DYNAMIC"}]
        /\ Len(answer) \in Nat /\ stuck \in BOOLEAN
    BY TypeParts, SessionIs DEF IInv, Commands, Truths
  <1>1. Calling /\ in' = "app" /\ stuck' = FALSE
    <2>1. Calling /\ UNCHANGED callVars
      BY DEF ct_command, ct_cmd_drop, CancelAttn, CancelAll
    <2>. QED  BY <1>0, <2>1 DEF Calling, callVars
  <1>2. \A d \in open : results_state[d] # "EMPTY" /\ Ahead(answer, pos)
    BY <1>1 DEF WInv, Between, Calling
  <1>3. ASSUME NEW c \in Cmds, NEW type, NEW state, ct_command(c, type, state)
        PROVE  WInv'
    <2>1. /\ c \notin open /\ command_type' = Set(command_type, c, type)
          /\ UNCHANGED <<answer, pos, dropped, told, results_state, curr_result_type>>
      BY <1>3 DEF ct_command, sessionVars, histVars
    <2>2. open' = open
      BY <2>1 DEF open
    <2>3. \A d \in open' : command_type'[d] = command_type[d]
      BY <1>0, <2>1, <2>2 DEF Set, open
    <2>. QED  BY <1>0, <1>1, <1>2, <2>1, <2>2, <2>3, QuietWaits
  <1>4. ASSUME NEW c \in Cmds, ct_cmd_drop(c)
        PROVE  WInv'
    <2>1. /\ told' = Set(told, c, "closed") /\ command_type' = Set(command_type, c, "LANG")
          /\ results_state' = Set(results_state, c, "INIT")
          /\ curr_result_type' = Set(curr_result_type, c, "none")
          /\ UNCHANGED <<answer, pos, dropped>>
      BY <1>4 DEF ct_cmd_drop, sessionVars
    <2>2. open' \subseteq open
      BY <1>0, <2>1, ToldOpens
    <2>3. \A d \in open' : d # c /\ d \in Cmds
      BY <1>0, <2>1 DEF Set, open
    <2>4. \A d \in open' : /\ told'[d] = told[d] /\ command_type'[d] = command_type[d]
                           /\ results_state'[d] = results_state[d]
                           /\ curr_result_type'[d] = curr_result_type[d]
      BY <1>0, <2>1, <2>3 DEF Set
    <2>. QED  BY <1>0, <1>1, <1>2, <2>1, <2>2, <2>4, QuietWaits
  <1>5. ASSUME NEW s, CancelAttn(s)
        PROVE  WInv'
    <2>1. UNCHANGED <<answer, pos, dropped, told, results_state, curr_result_type, command_type>>
      BY <1>5 DEF CancelAttn, histVars
    <2>2. open' = open
      BY <2>1 DEF open
    <2>. QED  BY <1>0, <1>1, <1>2, <2>1, <2>2, QuietWaits
  <1>6. ASSUME NEW s, CancelAll(s)
        PROVE  WInv'
    <2>1. /\ told' = [c \in Cmds |-> IF c \in s THEN "closed" ELSE told[c]]
          /\ UNCHANGED <<results_state, curr_result_type, command_type>>
      BY <1>6 DEF CancelAll
    <2>2. (Drain /\ ~idle) \/ UNCHANGED <<sessionVars, dropped>>
      BY <1>6 DEF CancelAll
    <2>3. /\ answer' = answer
          /\ \/ dead'
             \/ pos' = Len(answer) + 1 /\ Len(answer) \in dropped'
             \/ pos' = pos /\ dropped \subseteq dropped'
      BY <2>2, CancelEnds
    <2>4. open' \subseteq open /\ \A d \in open' : told'[d] = told[d]
      BY <1>0, <2>1 DEF open
    <2>. QED  BY <1>0, <1>1, <1>2, <2>1, <2>3, <2>4, QuietWaits
  <1>. QED  BY <1>3, <1>4, <1>5, <1>6

(* Every call of a disciplined program keeps the invariant.                *)
LEMMA WaitSteps ==
    ASSUME Disciplined, IInv, OInv, WInv, Next
    PROVE  WInv'
  <1>1. pos' \in Nat
    <2>1. Where'
      BY SessionSteps
    <2>2. pos' \in 1 .. Len(answer') + 1
      BY <2>1 DEF Where
    <2>. QED  BY <2>2
  <1>2. ASSUME NEW c \in Cmds, ct_send(c) \/ ct_results(c) \/ ct_results_turn(c)
        PROVE  WInv'
    BY <1>1, <1>2, SendWaits, ResultsWaits, TurnWaits
  <1>3. ASSUME NEW c \in Cmds, ct_fetch(c) \/ CancelCurrent(c)
        PROVE  WInv'
    BY <1>1, <1>3, FetchWaiting, CurrentWaits
  <1>. QED  BY <1>1, <1>2, <1>3, OthersWait DEF Next

(* A fetch of a disciplined program's language command never waits for     *)
(* data of an idle session, unless a cancel made for another command threw *)
(* its answer away.                                                        *)
THEOREM FetchesFindAnAnswer ==
    ASSUME Disciplined
    PROVE  Spec => []FetchFindsAnAnswer
  <1>1. Init => OInv /\ WInv
    <2>1. ASSUME Init
          PROVE  open = {} /\ in = "app" /\ ~stuck /\ taken = {}
      BY <2>1 DEF Init, open
    <2>2. ASSUME Init
          PROVE  OInv
      BY <2>1, <2>2 DEF OInv, OneOwner, RunsForOpen, RowsGoToTheirCommand
    <2>3. ASSUME Init
          PROVE  WInv
      BY <2>1, <2>3 DEF WInv, Alive, Begun, Between, Within, EndRead, FetchFindsAnAnswer
    <2>. QED  BY <2>2, <2>3
  <1>2. IInv /\ OInv /\ WInv /\ [Next]_vars => OInv' /\ WInv'
    <2>1. ASSUME OInv, UNCHANGED vars
          PROVE  OInv'
      BY <2>1 DEF OInv, OneOwner, RunsForOpen, RowsGoToTheirCommand, open, vars
    <2>2. ASSUME WInv, UNCHANGED vars
          PROVE  WInv'
      BY <2>2 DEF WInv, Alive, Begun, Between, Within, EndRead, FetchFindsAnAnswer, Ahead,
          open, idle, vars
    <2>. QED  BY <2>1, <2>2, OwnerSteps, WaitSteps
  <1>3. WInv => FetchFindsAnAnswer
    BY DEF WInv
  <1>. QED  BY Invariant, <1>1, <1>2, <1>3, PTL DEF Spec
-----------------------------------------------------------------------------
(* Why every result is reported.  What ct_results() must report.           *)
Reportable(a, j) ==
    a[j].kind \in {"rowfmt", "param"} \/ (a[j].kind = "status" /\ Reported(a, j))

(* From p on, neither parameters nor a status come before the next DONE.   *)
NoMore(a, p) == \A j \in p .. Len(a) : a[j].kind \in {"param", "status"} =>
                   \E i \in p .. j : a[i].kind \in Dones

(* What a fetch meets that was told of results and stands at p: k is the   *)
(* kind of the token that ct_results() stopped at.                         *)
Shows(k, a, p) ==
    /\ k \in Fetchable \cup Dones
    /\ k = "param" => NoMore(a, p)
    /\ k = "status" => a[p].kind # "status"
    /\ k \in Dones => a[p].kind \in Dones

(* The command whose results are read was sent.                            *)
Sent == \A c \in open : command_state[c] = "SENT"

(* The results that a program was told of can be fetched without reading   *)
(* others.                                                                 *)
Shown == in = "app" /\ ~dead /\ ~stuck /\ ~idle =>
    \A c \in open : command_type[c] = "LANG" /\ told[c] \in Fetchable =>
                       Shows(curr_result_type[c], answer, pos)

(* What was read was reported, but for the result set of which the loop of *)
(* ct_results() does not yet know whether it is empty.                     *)
Seen == ~dead =>
    \A c \in open : command_type[c] = "LANG" =>
        \A j \in 1 .. pos - 1 : Reportable(answer, j) =>
            \/ j \in reported \cup dropped
            \/ in = c /\ results_state[c] = "EMPTY" /\ j = Fmt(pos)

RInv == Sent /\ Shown /\ Seen

(* The format of the result set does not change while none is read.        *)
LEMMA FmtSame ==
    ASSUME Where, NEW q \in pos .. Len(answer) + 1,
           \A j \in pos .. q - 1 : answer[j].kind # "rowfmt"
    PROVE  Fmt(q) = Fmt(pos)
  <1>1. Len(answer) \in Nat /\ pos \in 1 .. Len(answer) + 1 /\ q \in Nat /\ pos <= q
    BY SessionIs
  <1>2. Read(answer, 1, q, "rowfmt") = Read(answer, 1, pos, "rowfmt")
    <2>1. ASSUME NEW j \in 1 .. q - 1, answer[j].kind = "rowfmt"
          PROVE  j \in 1 .. pos - 1
      <3>1. j \notin pos .. q - 1
        BY <2>1
      <3>. QED  BY <1>1, <3>1
    <2>2. \A j \in 1 .. pos - 1 : j \in 1 .. q - 1
      BY <1>1
    <2>. QED  BY <2>1, <2>2 DEF Read
  <1>. QED  BY <1>2 DEF Fmt, ResInfo

(* A format that was just read is the format of the result set.            *)
LEMMA FmtLast ==
    ASSUME Where, NEW q \in 1 .. Len(answer), answer[q].kind = "rowfmt"
    PROVE  Fmt(q + 1) = q
  <1>1. Len(answer) \in Nat /\ Stream(answer) /\ q \in Nat
    BY SessionIs
  <1>2. 1 \in 1 .. Len(answer) + 1 /\ q + 1 \in 1 .. Len(answer) + 1 /\ 0 \in 0 .. Len(answer)
    BY <1>1
  <1>3. q \in Read(answer, 1, q + 1, "rowfmt")
    BY <1>1 DEF Read
  <1>4. PICK f : f = Fmt(q + 1)
    OBVIOUS
  <1>5. f \in Read(answer, 1, q + 1, "rowfmt") /\ q <= f
    BY <1>1, <1>2, <1>3, <1>4, ResInfoIs DEF Fmt
  <1>6. f \in 1 .. q
    BY <1>1, <1>5 DEF Read
  <1>. QED  BY <1>1, <1>4, <1>5, <1>6

(* An empty result set that the loop has begun is not yet ended.           *)
LEMMA OpenSet ==
    ASSUME IInv, WInv, NEW c \in Cmds, in = c, results_state[c] = "EMPTY", IsAnswer(answer)
    PROVE  /\ Fmt(pos) \in 1 .. pos - 1 /\ answer[Fmt(pos)].kind = "rowfmt"
           /\ \A i \in Fmt(pos) .. pos - 1 : answer[i].kind \notin Dones
  <1>1. /\ Where /\ Len(answer) \in Nat /\ DOMAIN answer = 1 .. Len(answer)
        /\ Stream(answer) /\ pos \in 1 .. Len(answer) + 1 /\ "app" \notin Cmds
    BY TypeParts, SessionIs, NamesAssumption DEF IInv
  <1>2. PICK q \in 1 .. Len(answer) : /\ q = pos - 1 /\ q + 1 = pos
                                      /\ answer[q].kind \in {"rowfmt", "computefmt"}
    BY <1>1 DEF WInv, Within
  <1>3. PICK g \in 1 .. q : answer[g].kind = "rowfmt" /\ \A i \in g .. q : answer[i].kind \notin Dones
    <2>1. CASE answer[q].kind = "rowfmt"
      BY <1>1, <2>1 DEF Dones
    <2>2. CASE answer[q].kind = "computefmt"
      BY <1>1, <2>2 DEF IsAnswer
    <2>. QED  BY <1>2, <2>1, <2>2
  <1>4. g \in Read(answer, 1, pos, "rowfmt")
    BY <1>2, <1>3 DEF Read
  <1>5. PICK f : f = Fmt(pos)
    OBVIOUS
  <1>6. f \in Read(answer, 1, pos, "rowfmt") /\ g <= f
    <2>1. 1 \in 1 .. Len(answer) + 1 /\ pos \in 1 .. Len(answer) + 1 /\ 0 \in 0 .. Len(answer)
      BY <1>1
    <2>. QED  BY <1>1, <1>4, <1>5, <2>1, ResInfoIs DEF Fmt
  <1>7. f \in 1 .. pos - 1 /\ answer[f].kind = "rowfmt"
    BY <1>6 DEF Read
  <1>8. \A i \in f .. pos - 1 : i \in g .. q
    BY <1>1, <1>2, <1>6, <1>7
  <1>. QED  BY <1>3, <1>5, <1>7, <1>8

(* A turn of ct_results() passes over nothing that it must report.         *)
LEMMA TurnPasses ==
    ASSUME IInv, NEW r, r = tds_process_tokens(answer, pos, ResultsFlags)
    PROVE  /\ \A j \in pos .. r.next - 1 : Reportable(answer, j) =>
                 j = r.next - 1 /\ r.rc = "SUCCESS" /\ r.type = answer[j].kind
           /\ r.rc = "SUCCESS" /\ r.type = "status" => Reported(answer, r.next - 1)
           /\ r.rc = "NO_MORE_RESULTS" => idle
           /\ \A j \in pos .. r.next - 1 : answer[j].kind \in Dones =>
                 j = r.next - 1 /\ ~keepdone /\ r.type = answer[j].kind
  <1>1. /\ Where /\ Stream(answer) /\ Len(answer) \in Nat /\ pos \in 1 .. Len(answer) + 1
    BY TypeParts, SessionIs DEF IInv
  <1>2. PICK flag : flag = ResultsFlags
    OBVIOUS
  <1>3. /\ flag.return = {"ROWFMT", "COMPUTEFMT", "PROC"} \cup IF keepdone THEN {} ELSE {"DONE"}
        /\ flag.stopat = {"ROW", "COMPUTE"} \cup IF keepdone THEN {"DONE"} ELSE {}
    BY <1>2 DEF ResultsFlags, TDS_TOKEN_RESULTS, Flags
  <1>4. r = tds_process_tokens(answer, pos, flag)
    BY <1>2
  <1>5. /\ r.next \in pos .. Len(answer) + 1
        /\ \A j \in pos .. r.next - 1 : ~StopsAt(answer, flag, j) /\ answer[j].kind # "eof"
        /\ \A j \in pos .. r.next - 1 : Returns(answer, flag, j) =>
              j = r.next - 1 /\ r.rc = "SUCCESS" /\ r.type = answer[j].kind
    BY <1>1, <1>4, LoopReads
  <1>6. ASSUME NEW j \in pos .. r.next - 1, Reportable(answer, j)
        PROVE  j = r.next - 1 /\ r.rc = "SUCCESS" /\ r.type = answer[j].kind
    <2>1. Class(answer, j) \in {"ROWFMT", "PROC"}
      <3>1. answer[j].kind = "rowfmt" => Class(answer, j) = "ROWFMT"
        BY DEF Class, Dones
      <3>2. answer[j].kind = "param" => Class(answer, j) = "PROC"
        BY DEF Class, Dones
      <3>3. answer[j].kind = "status" /\ Reported(answer, j) => Class(answer, j) = "PROC"
        BY DEF Class, Dones
      <3>. QED  BY <1>6, <3>1, <3>2, <3>3 DEF Reportable
    <2>. QED  BY <1>3, <1>5, <2>1 DEF Returns
  <1>7. ASSUME r.rc = "SUCCESS", r.type = "status"
        PROVE  Reported(answer, r.next - 1)
    <2>1. \/ StopsAt(answer, flag, r.next) /\ r.type = answer[r.next].kind
          \/ Returns(answer, flag, r.next - 1) /\ r.type = answer[r.next - 1].kind
      BY <1>1, <1>4, <1>7, ReturnsWhat
    <2>2. Returns(answer, flag, r.next - 1) /\ answer[r.next - 1].kind = "status"
      BY <1>7, <2>1 DEF StopsAt
    <2>3. Class(answer, r.next - 1) # "NONE"
      BY <1>3, <2>2 DEF Returns
    <2>4. Class(answer, r.next - 1) = IF Reported(answer, r.next - 1) THEN "PROC" ELSE "NONE"
      BY <2>2 DEF Class, Dones
    <2>. QED  BY <2>3, <2>4
  <1>8. ASSUME r.rc = "NO_MORE_RESULTS", ~idle
        PROVE  FALSE
    <2>1. IsAnswer(answer) /\ pos \in 1 .. Len(answer)
      BY <1>1, <1>8 DEF idle, Stream
    <2>2. PICK l \in 1 .. Len(answer) : l = Len(answer) /\ pos <= l
      BY <1>1, <2>1
    <2>3. r.next = l + 1
      BY <1>1, <1>4, <1>8, <2>2, LoopReturns
    <2>4. l \in pos .. r.next - 1
      BY <1>1, <2>2, <2>3
    <2>5. answer[l].kind \in Dones
      BY <1>5, <2>1, <2>2, <2>4, AnswerTypes DEF Final
    <2>6. Class(answer, l) = "DONE" /\ answer[l].kind # "status"
      BY <2>5 DEF Class, Dones
    <2>7. Class(answer, l) \in flag.return \/ Class(answer, l) \in flag.stopat
      BY <1>3, <2>6
    <2>. QED  BY <1>5, <1>8, <2>4, <2>6, <2>7 DEF Returns, StopsAt
  <1>9. ASSUME NEW j \in pos .. r.next - 1, answer[j].kind \in Dones
        PROVE  j = r.next - 1 /\ ~keepdone /\ r.type = answer[j].kind
    <2>1. Class(answer, j) = "DONE" /\ answer[j].kind # "status"
      BY <1>9 DEF Class, Dones
    <2>2. ~keepdone
      BY <1>3, <1>5, <2>1 DEF StopsAt
    <2>. QED  BY <1>3, <1>5, <2>1, <2>2 DEF Returns
  <1>. QED  BY <1>6, <1>7, <1>8, <1>9

(* In order, what follows parameters up to the DONE is no result.          *)
LEMMA AfterParams ==
    ASSUME ProceduresInOrder, answer \in Answers, NEW q \in 1 .. Len(answer), answer[q].kind = "param"
    PROVE  NoMore(answer, q + 1)
  <1>1. Len(answer) \in Nat /\ DOMAIN answer = 1 .. Len(answer) /\ q \in Nat
    BY AnswersAssumption, AnswerTypes
  <1>. SUFFICES ASSUME NEW j \in q + 1 .. Len(answer), answer[j].kind \in {"param", "status"},
                       \A i \in q + 1 .. j : answer[i].kind \notin Dones
                PROVE  FALSE
    BY DEF NoMore
  <1>2. j \in 1 .. Len(answer) /\ q < j
    BY <1>1
  <1>3. ASSUME NEW i \in q .. j - 1
        PROVE  answer[i].kind \notin Dones
    <2>1. i = q \/ i \in q + 1 .. j
      BY <1>1, <1>2
    <2>. QED  BY <2>1 DEF Dones
  <1>. QED  BY <1>1, <1>2, <1>3 DEF ProceduresInOrder

(* Reading on, but not past a DONE.                                        *)
LEMMA NoMoreOn ==
    ASSUME NEW a, Len(a) \in Nat, NEW p \in Nat, NoMore(a, p), NEW q \in Nat, p <= q, q <= Len(a) + 1,
           \A j \in p .. q - 1 : a[j].kind \notin Dones
    PROVE  /\ NoMore(a, q)
           /\ \A j \in p .. q - 1 : a[j].kind \notin {"param", "status"}
  <1>1. ASSUME NEW j \in p .. q - 1, a[j].kind \in {"param", "status"}
        PROVE  FALSE
    <2>1. j \in p .. Len(a)
      OBVIOUS
    <2>2. PICK i \in p .. j : a[i].kind \in Dones
      BY <1>1, <2>1 DEF NoMore
    <2>3. i \in p .. q - 1
      OBVIOUS
    <2>. QED  BY <2>2, <2>3
  <1>2. ASSUME NEW j \in q .. Len(a), a[j].kind \in {"param", "status"}
        PROVE  \E i \in q .. j : a[i].kind \in Dones
    <2>1. j \in p .. Len(a)
      OBVIOUS
    <2>2. PICK i \in p .. j : a[i].kind \in Dones
      BY <1>2, <2>1 DEF NoMore
    <2>3. i \notin p .. q - 1
      BY <2>2
    <2>4. i \in q .. j
      BY <2>3
    <2>. QED  BY <2>2, <2>4
  <1>. QED  BY <1>1, <1>2 DEF NoMore

(* What a turn makes of a result set that it has begun: its rows, its      *)
(* compute rows or its DONE make it a row result, and nothing else comes.  *)
LEMMA TurnEnds ==
    ASSUME IInv, WInv, ProceduresInOrder, NEW c \in Cmds, in = c, answer \in Answers,
           results_state[c] = "EMPTY",
           NEW r, r = tds_process_tokens(answer, pos, ResultsFlags), r.rc = "SUCCESS"
    PROVE  /\ r.type # "rowfmt" /\ Fmt(r.next) = Fmt(pos)
           /\ Turn(c, r).what # "none" => Turn(c, r).what = "row"
           /\ Turn(c, r).what = "none" => Turn(c, r).state = "EMPTY"
  <1>1. /\ Where /\ Len(answer) \in Nat /\ DOMAIN answer = 1 .. Len(answer)
        /\ pos \in 1 .. Len(answer) + 1 /\ IsAnswer(answer)
    BY TypeParts, SessionIs, AnswersAssumption DEF IInv
  <1>2. PICK f \in 1 .. pos - 1 : /\ f = Fmt(pos) /\ answer[f].kind = "rowfmt"
                                  /\ \A i \in f .. pos - 1 : answer[i].kind \notin Dones
    BY <1>1, OpenSet
  <1>3. /\ r.next \in pos .. Len(answer) + 1
        /\ \/ /\ r.type \in {"row", "compute"} \cup Dones
              /\ r.next \in pos .. Len(answer) /\ r.type = answer[r.next].kind
              /\ r.type \in Dones => keepdone
           \/ /\ r.type \in {"rowfmt", "computefmt", "param", "status"} \cup Dones
              /\ r.next - 1 \in pos .. Len(answer) /\ r.type = answer[r.next - 1].kind
    BY TurnReads
  <1>4. \A j \in pos .. r.next - 1 : answer[j].kind \in Dones =>
           j = r.next - 1 /\ ~keepdone /\ r.type = answer[j].kind
    BY TurnPasses
  <1>5. PICK q \in pos .. Len(answer) : /\ q \in {r.next, r.next - 1} /\ r.type = answer[q].kind
                                        /\ r.type \in {"rowfmt", "param", "status"} => q = r.next - 1
                                        /\ r.type \in Dones /\ ~keepdone => q = r.next - 1
    <2>1. CASE /\ r.type \in {"row", "compute"} \cup Dones
               /\ r.next \in pos .. Len(answer) /\ r.type = answer[r.next].kind
               /\ r.type \in Dones => keepdone
      BY <2>1 DEF Dones
    <2>2. CASE r.next - 1 \in pos .. Len(answer) /\ r.type = answer[r.next - 1].kind
      BY <2>2
    <2>. QED  BY <1>3, <2>1, <2>2
  <1>6. f \in 1 .. Len(answer) /\ q \in 1 .. Len(answer) /\ f < q
    BY <1>1
  <1>7. ASSUME NEW i \in f .. q - 1
        PROVE  answer[i].kind \notin Dones
    <2>1. CASE i \in f .. pos - 1
      BY <1>2, <2>1
    <2>2. CASE i \in pos .. q - 1
      <3>1. i \in pos .. r.next - 1 /\ (q = r.next - 1 => i # r.next - 1)
        BY <1>1, <1>3, <1>5, <2>2
      <3>. QED  BY <1>4, <1>5, <3>1
    <2>. QED  BY <1>1, <1>6, <2>1, <2>2
  <1>8. r.type # "doneproc"
    BY <1>1, <1>2, <1>5, <1>6, <1>7 DEF ProceduresInOrder
  <1>9. r.type # "rowfmt"
    <2>1. SUFFICES ASSUME answer[q].kind = "rowfmt" PROVE FALSE
      BY <1>5
    <2>2. PICK k \in f .. q : answer[k].kind \in Dones
      BY <1>1, <1>2, <1>6, <2>1 DEF IsAnswer
    <2>3. k = q \/ k \in f .. q - 1
      BY <1>6
    <2>. QED  BY <1>7, <2>1, <2>2, <2>3 DEF Dones
  <1>10. r.type \notin {"param", "status"}
    <2>1. SUFFICES ASSUME answer[q].kind \in {"param", "status"} PROVE FALSE
      BY <1>5
    <2>2. \A i \in f .. q : answer[i].kind \notin Dones
      <3>1. \A i \in f .. q : i = q \/ i \in f .. q - 1
        BY <1>6
      <3>. QED  BY <1>7, <2>1, <3>1 DEF Dones
    <2>. QED  BY <1>1, <1>2, <1>6, <2>1, <2>2 DEF IsAnswer
  <1>11. r.type \in {"row", "compute", "computefmt", "done", "doneinproc"}
    BY <1>3, <1>8, <1>9, <1>10 DEF Dones
  <1>12. Fmt(r.next) = Fmt(pos)
    <2>1. ASSUME NEW j \in pos .. r.next - 1
          PROVE  answer[j].kind # "rowfmt"
      <3>1. SUFFICES ASSUME answer[j].kind = "rowfmt" PROVE FALSE
        OBVIOUS
      <3>2. Reportable(answer, j)
        BY <3>1 DEF Reportable
      <3>. QED  BY <1>9, <3>1, <3>2, TurnPasses
    <2>. QED  BY <1>1, <1>3, <2>1, FmtSame
  <1>13. \A what, state : Is(what, state).what = what /\ Is(what, state).state = state
    BY DEF Is
  <1>14. DoneInProc("EMPTY") = Is("row", "ROWS")
    BY DEF DoneInProc
  <1>15. Turn(c, r) = IF r.type = "computefmt" THEN Is("none", "EMPTY") ELSE Is("row", "ROWS")
    BY <1>11, <1>14 DEF Turn
  <1>. QED  BY <1>9, <1>12, <1>13, <1>15

(* A step that leaves the program without an open command.                 *)
LEMMA ClosedSees ==
    ASSUME open' = {}
    PROVE  RInv'
  BY DEF RInv, Sent, Shown, Seen

(* The turn that reads the format of a result set, or a compute format, or *)
(* the DONE of a statement without results.                                *)
LEMMA LoopSees ==
    ASSUME IInv, WInv, Seen, ProceduresInOrder, NEW c \in open, c \in Cmds, in = c, ~dead,
           answer \in Answers, command_type[c] = "LANG",
           NEW r, r = tds_process_tokens(answer, pos, ResultsFlags), r.rc = "SUCCESS",
           Turn(c, r).what = "none",
           NEW j \in 1 .. r.next - 1, Reportable(answer, j)
    PROVE  \/ j \in reported \cup dropped
           \/ Turn(c, r).state = "EMPTY" /\ j = Fmt(r.next)
  <1>1. /\ Where /\ Len(answer) \in Nat /\ pos \in 1 .. Len(answer) + 1 /\ IsAnswer(answer)
    BY TypeParts, SessionIs, AnswersAssumption DEF IInv
  <1>2. r.next \in pos .. Len(answer) + 1 /\ r.error \in BOOLEAN
    BY TurnReads
  <1>3. \A what, state : Is(what, state).what = what /\ Is(what, state).state = state
    BY DEF Is
  <1>4. CASE j \in pos .. r.next - 1
    <2>1. PICK q \in 1 .. Len(answer) : q = j /\ r.next = q + 1 /\ r.type = answer[q].kind
      BY <1>1, <1>2, <1>4, TurnPasses
    <2>2. r.type \in {"rowfmt", "param", "status"}
      BY <2>1 DEF Reportable
    <2>3. r.type = "rowfmt" /\ Turn(c, r).state = "EMPTY"
      BY <1>3, <2>2 DEF Turn
    <2>4. Fmt(q + 1) = q
      BY <1>1, <2>1, <2>3, FmtLast
    <2>. QED  BY <2>1, <2>3, <2>4
  <1>5. CASE j \in 1 .. pos - 1
    <2>1. CASE j \in reported \cup dropped
      BY <2>1
    <2>2. CASE results_state[c] = "EMPTY" /\ j = Fmt(pos)
      BY <2>2, TurnEnds
    <2>. QED  BY <1>5, <2>1, <2>2 DEF Seen
  <1>. QED  BY <1>1, <1>2, <1>4, <1>5

(* The turn that tells the program of something: what was begun is         *)
(* reported with it, and what it told of can be fetched.                   *)
LEMMA TellSees ==
    ASSUME IInv, WInv, Seen, ProceduresInOrder, NEW c \in open, c \in Cmds, in = c, ~dead,
           answer \in Answers, command_type[c] = "LANG",
           NEW r, r = tds_process_tokens(answer, pos, ResultsFlags), r.rc = "SUCCESS",
           Turn(c, r).what # "none",
           NEW to, to = IF Prefetches(c, r.type) THEN r.next + 1 ELSE r.next,
           NEW token, token = IF Turn(c, r).what = "row" THEN Fmt(r.next)
                              ELSE IF Turn(c, r).what \in {"param", "status"} THEN r.next - 1 ELSE 0
    PROVE  /\ \A j \in 1 .. to - 1 : Reportable(answer, j) => j \in reported \cup dropped \cup {token}
           /\ Turn(c, r).what \in Fetchable /\ to <= Len(answer) => Shows(r.type, answer, to)
           /\ r.type # "rowfmt"
  <1>1. /\ Where /\ Len(answer) \in Nat /\ pos \in 1 .. Len(answer) + 1 /\ IsAnswer(answer)
        /\ "app" \notin Cmds
    BY TypeParts, SessionIs, AnswersAssumption, NamesAssumption DEF IInv
  <1>2. /\ r.next \in pos .. Len(answer) + 1 /\ r.error \in BOOLEAN
        /\ \/ /\ r.type \in {"row", "compute"} \cup Dones
              /\ r.next \in pos .. Len(answer) /\ r.type = answer[r.next].kind
              /\ r.type \in Dones => keepdone
           \/ /\ r.type \in {"rowfmt", "computefmt", "param", "status"} \cup Dones
              /\ r.next - 1 \in pos .. Len(answer) /\ r.type = answer[r.next - 1].kind
              /\ r.type \in Dones => ~keepdone
    BY TurnReads
  <1>3. \A what, state : Is(what, state).what = what /\ Is(what, state).state = state
    BY DEF Is
  <1>4. r.type \notin {"rowfmt", "computefmt"}
    BY <1>3 DEF Turn
  <1>5. r.type \in {"param", "status"} => Turn(c, r).what = r.type
    BY <1>3 DEF Turn
  <1>6. /\ Turn(c, r).what \in Fetchable /\ r.type \in Dones => results_state[c] = "EMPTY"
    BY <1>2, TurnIs
  <1>7. /\ Prefetches(c, r.type) => r.type = "compute" /\ answer[r.next].kind = "compute"
        /\ ~Prefetches(c, r.type) => to = r.next
    BY <1>2 DEF Prefetches, Dones
  <1>8. ASSUME NEW j \in 1 .. to - 1, Reportable(answer, j)
        PROVE  j \in reported \cup dropped \cup {token}
    <2>1. j \in 1 .. r.next - 1
      <3>1. j # r.next \/ ~Prefetches(c, r.type)
        BY <1>7, <1>8 DEF Reportable
      <3>2. CASE Prefetches(c, r.type)
        BY <1>1, <1>2, <3>1, <3>2
      <3>3. CASE ~Prefetches(c, r.type)
        BY <1>7, <3>3
      <3>. QED  BY <3>2, <3>3
    <2>2. CASE j \in pos .. r.next - 1
      <3>1. j = r.next - 1 /\ r.type = answer[j].kind
        BY <1>8, <2>2, TurnPasses
      <3>2. r.type \in {"param", "status"}
        BY <1>4, <1>8, <3>1 DEF Reportable
      <3>. QED  BY <1>5, <3>1, <3>2
    <2>3. CASE j \in 1 .. pos - 1
      <3>1. CASE j \in reported \cup dropped
        BY <3>1
      <3>2. CASE results_state[c] = "EMPTY" /\ j = Fmt(pos)
        BY <3>2, TurnEnds
      <3>. QED  BY <1>8, <2>3, <3>1, <3>2 DEF Seen
    <2>. QED  BY <1>1, <1>2, <2>1, <2>2, <2>3
  <1>9. ASSUME Turn(c, r).what \in Fetchable, to <= Len(answer)
        PROVE  Shows(r.type, answer, to)
    <2>1. r.type \in Fetchable \cup Dones
      BY <1>2, <1>4 DEF Fetchable
    <2>2. ASSUME r.type = "param"
          PROVE  NoMore(answer, to)
      <3>1. PICK q \in 1 .. Len(answer) : q + 1 = r.next /\ answer[q].kind = "param"
        BY <1>1, <1>2, <2>2 DEF Dones
      <3>2. to = q + 1
        BY <1>7, <2>2, <3>1
      <3>. QED  BY <3>1, <3>2, AfterParams
    <2>3. ASSUME r.type = "status"
          PROVE  answer[to].kind # "status"
      <3>1. r.next - 1 \in pos .. Len(answer) /\ to = r.next /\ (r.next - 1) + 1 = r.next
        BY <1>1, <1>2, <1>7, <2>3 DEF Dones
      <3>2. Reported(answer, r.next - 1)
        BY <2>3, TurnPasses
      <3>. QED  BY <3>1, <3>2 DEF Reported
    <2>4. ASSUME r.type \in Dones
          PROVE  answer[to].kind \in Dones
      <3>1. results_state[in] = "EMPTY"
        BY <1>6, <1>9, <2>4
      <3>2. keepdone
        BY <1>1, <3>1 DEF WInv, Within
      <3>3. r.type = answer[r.next].kind /\ to = r.next
        BY <1>2, <1>7, <2>4, <3>2 DEF Dones
      <3>. QED  BY <2>4, <3>3
    <2>. QED  BY <2>1, <2>2, <2>3, <2>4 DEF Shows
  <1>. QED  BY <1>4, <1>8, <1>9

(* A turn of ct_results().                                                 *)
LEMMA TurnSees ==
    ASSUME IInv, OInv, WInv, RInv, ProceduresInOrder, NEW c \in Cmds, ct_results_turn(c)
    PROVE  RInv'
  <1>0. /\ told \in [Cmds -> Tellings] /\ results_state \in [Cmds -> ResultsStates]
        /\ curr_result_type \in [Cmds -> Kinds \cup {"none"}]
        /\ command_state \in [Cmds -> CommandStates]
        /\ "app" \notin Cmds /\ open \subseteq {owner} /\ in = c
    BY TypeParts, NamesAssumption DEF IInv, Commands, OInv, OneOwner, ct_results_turn
  <1>1. c \in open /\ ~dead /\ ~stuck /\ open \subseteq {c} /\ command_state[c] = "SENT"
    BY <1>0 DEF OInv, RunsForOpen, WInv, Alive, RInv, Sent
  <1>2. answer \in Answers /\ Len(answer) \in Nat /\ pos \in 1 .. Len(answer) + 1
    <2>1. answer # <<>> /\ Where
      BY <1>1, TypeParts DEF WInv, Begun, IInv
    <2>. QED  BY <2>1, SessionIs DEF Where
  <1>3. PICK r : r = tds_process_tokens(answer, pos, ResultsFlags)
    OBVIOUS
  <1>4. CASE in' = "app" /\ told' = Set(told, c, "closed")
    BY <1>1, <1>4, ClosesAll, ClosedSees
  <1>5. CASE dead' = TRUE /\ UNCHANGED <<told, command_state>>
    <2>1. open' = open
      BY <1>5 DEF open
    <2>. QED  BY <1>5, <2>1 DEF RInv, Sent, Shown, Seen
  <1>6. CASE /\ ~in_cancel /\ r.rc = "SUCCESS"
             /\ pos' = IF Prefetches(c, r.type) THEN r.next + 1 ELSE r.next
             /\ curr_result_type' = Set(curr_result_type, c,
                                         IF r.type = "rowfmt" THEN "row" ELSE r.type)
             /\ results_state' = Set(results_state, c, Turn(c, r).state)
             /\ IF Turn(c, r).what = "none" THEN UNCHANGED <<in, told, reported>>
                ELSE Tell(c, Turn(c, r).what,
                          IF Turn(c, r).what = "row" THEN Fmt(r.next)
                          ELSE IF Turn(c, r).what \in {"param", "status"} THEN r.next - 1 ELSE 0)
             /\ UNCHANGED <<answer, dead, command_type, command_state, stuck, dropped>>
    <2>1. results_state'[c] = Turn(c, r).state
      BY <1>0, <1>6 DEF Set
    <2>2. r.next \in pos .. Len(answer) + 1
      BY <1>3, TurnReads
    <2>3. CASE Turn(c, r).what = "none"
      <3>1. in' = c /\ open' = open /\ reported' = reported
        BY <1>0, <1>6, <2>3 DEF open
      <3>2. pos' = r.next
        <4>1. ~Prefetches(c, r.type)
          <5>1. IsAnswer(answer)
            BY <1>2, AnswersAssumption
          <5>. QED  BY <1>0, <1>3, <1>6, <2>3, <5>1, LoopWaits
        <4>. QED  BY <1>6, <4>1
      <3>3. Sent' /\ Shown'
        BY <1>0, <1>6, <3>1 DEF RInv, Sent, Shown
      <3>4. Seen'
        <4>. SUFFICES ASSUME command_type[c] = "LANG", NEW j \in 1 .. r.next - 1, Reportable(answer, j)
                      PROVE  \/ j \in reported \cup dropped
                             \/ results_state'[c] = "EMPTY" /\ j = Fmt(r.next)
          <5>1. Fmt(pos)' = Fmt(r.next)
            BY <1>6, <3>2 DEF Fmt
          <5>. QED  BY <1>1, <1>6, <3>1, <3>2, <5>1 DEF Seen
        <4>. QED  BY <1>0, <1>1, <1>2, <1>3, <1>6, <2>1, <2>3, LoopSees DEF RInv
      <3>. QED  BY <3>3, <3>4 DEF RInv
    <2>4. CASE Turn(c, r).what # "none"
      <3>1. PICK token : token = IF Turn(c, r).what = "row" THEN Fmt(r.next)
                                 ELSE IF Turn(c, r).what \in {"param", "status"} THEN r.next - 1 ELSE 0
        OBVIOUS
      <3>2. /\ in' = "app" /\ told' = Set(told, c, Turn(c, r).what)
            /\ reported' = IF token = 0 THEN reported ELSE reported \cup {token}
        BY <1>6, <2>4, <3>1 DEF Tell
      <3>3. open' \subseteq open /\ told'[c] = Turn(c, r).what
        BY <1>0, <1>1, <3>2, ToldOpens DEF Set
      <3>4. PICK to \in Nat : to = pos' /\ to = IF Prefetches(c, r.type) THEN r.next + 1 ELSE r.next
        BY <1>2, <1>6, <2>2
      <3>5. ASSUME command_type[c] = "LANG"
            PROVE  /\ \A j \in 1 .. to - 1 : Reportable(answer, j) =>
                         j \in reported \cup dropped \cup {token}
                   /\ Turn(c, r).what \in Fetchable /\ to <= Len(answer) => Shows(r.type, answer, to)
                   /\ r.type # "rowfmt"
        BY <1>0, <1>1, <1>2, <1>3, <1>6, <2>4, <3>1, <3>4, <3>5, TellSees DEF RInv
      <3>6. Sent'
        BY <1>1, <1>6, <3>3 DEF Sent
      <3>7. Shown'
        <4>. SUFFICES ASSUME ~idle', command_type[c] = "LANG", told'[c] \in Fetchable
                      PROVE  Shows(curr_result_type'[c], answer, to)
          BY <1>1, <1>6, <3>3, <3>4 DEF Shown
        <4>1. to <= Len(answer)
          BY <1>2, <1>6, <3>4 DEF idle
        <4>2. curr_result_type'[c] = r.type
          BY <1>0, <1>6, <3>5 DEF Set
        <4>. QED  BY <3>3, <3>5, <4>1, <4>2
      <3>8. Seen'
        <4>. SUFFICES ASSUME command_type[c] = "LANG", NEW j \in 1 .. to - 1, Reportable(answer, j)
                      PROVE  j \in reported' \cup dropped
          BY <1>1, <1>6, <3>3, <3>4 DEF Seen
        <4>1. j \in reported \cup dropped \cup {token} /\ j # 0
          BY <3>5
        <4>. QED  BY <3>2, <4>1
      <3>. QED  BY <3>6, <3>7, <3>8 DEF RInv
    <2>. QED  BY <2>3, <2>4
  <1>. QED  BY <1>3, <1>4, <1>5, <1>6 DEF ct_results_turn, histVars, cmdVars

(* A step between two calls that opens no command, and reads nothing,      *)
(* reads what is left and throws it away, or reads what it was told of.    *)
LEMMA QuietSees ==
    ASSUME RInv, Calling, in \notin Cmds, in' = "app", answer' = answer, reported' = reported,
           dropped \subseteq dropped', open' \subseteq open, Len(answer) \in Nat,
           pos \in 1 .. Len(answer) + 1,
           \/ dead'
           \/ pos' = Len(answer) + 1 /\ pos .. Len(answer) \subseteq dropped'
           \/ pos' = pos
           \/ /\ pos' \in pos .. Len(answer)
              /\ \A c \in open : command_type[c] = "LANG" =>
                    /\ \A j \in pos .. pos' - 1 : ~Reportable(answer, j)
                    /\ told[c] \in Fetchable => Shows(curr_result_type[c], answer, pos'),
           \A c \in open' : /\ command_type'[c] = command_type[c]
                            /\ command_state'[c] \in {"SENT", command_state[c]}
                            /\ told'[c] = told[c] \/ told'[c] \notin Fetchable
                            /\ curr_result_type'[c] = curr_result_type[c]
    PROVE  RInv'
  <1>1. Sent'
    BY DEF RInv, Sent
  <1>2. open \subseteq Cmds
    BY DEF open
  <1>3. ASSUME NEW c \in open', ~dead', command_type'[c] = "LANG"
        PROVE  \A j \in 1 .. pos' - 1 : Reportable(answer, j) => j \in reported \cup dropped'
    <2>1. ASSUME NEW j \in 1 .. pos - 1, Reportable(answer, j)
          PROVE  j \in reported \cup dropped
      BY <1>2, <1>3, <2>1 DEF RInv, Seen, Calling
    <2>2. CASE pos' = pos
      BY <2>1, <2>2
    <2>3. CASE pos' = Len(answer) + 1 /\ pos .. Len(answer) \subseteq dropped'
      <3>1. \A j \in 1 .. pos' - 1 : j \in 1 .. pos - 1 \/ j \in pos .. Len(answer)
        BY <2>3
      <3>. QED  BY <2>1, <2>3, <3>1
    <2>4. CASE pos' \in pos .. Len(answer) /\ \A j \in pos .. pos' - 1 : ~Reportable(answer, j)
      <3>0. PICK n \in Nat : n = pos'
        BY <2>4
      <3>1. \A j \in 1 .. n - 1 : j \in 1 .. pos - 1 \/ j \in pos .. n - 1
        OBVIOUS
      <3>. QED  BY <2>1, <2>4, <3>0, <3>1
    <2>. QED  BY <1>3, <2>2, <2>3, <2>4
  <1>4. Seen'
    BY <1>3 DEF Seen
  <1>5. Shown'
    <2>. SUFFICES ASSUME ~dead', ~idle', NEW c \in open', command_type'[c] = "LANG",
                         told'[c] \in Fetchable
                  PROVE  Shows(curr_result_type[c], answer, pos')
      BY DEF Shown
    <2>1. told[c] \in Fetchable /\ command_type[c] = "LANG" /\ c \in open
      OBVIOUS
    <2>2. pos' # Len(answer) + 1
      BY DEF idle
    <2>3. CASE pos' = pos
      <3>1. ~idle
        BY <2>3 DEF idle
      <3>. QED  BY <2>1, <2>3, <3>1 DEF RInv, Shown, Calling
    <2>. QED  BY <2>1, <2>2, <2>3
  <1>. QED  BY <1>1, <1>4, <1>5 DEF RInv

(* A session where nothing happens, or a cancelled answer is read.         *)
LEMMA CancelDrops ==
    ASSUME IInv, (Drain /\ ~idle) \/ UNCHANGED <<sessionVars, dropped>>
    PROVE  /\ answer' = answer /\ dropped \subseteq dropped'
           /\ \/ dead'
              \/ pos' = Len(answer) + 1 /\ pos .. Len(answer) \subseteq dropped'
              \/ pos' = pos
  <1>1. Len(answer) \in Nat /\ pos \in 1 .. Len(answer) + 1
    BY TypeParts, SessionIs DEF IInv
  <1>2. CASE Drain /\ ~idle
    <2>1. answer' = answer /\ dropped \subseteq dropped'
      BY <1>2 DEF Drain
    <2>2. CASE dead'
      BY <2>1, <2>2
    <2>3. CASE ~dead'
      <3>1. DrainTo # Len(answer)
        BY <1>2, <2>3, Zenon DEF Drain
      <3>2. DrainTo = Len(answer) + 1
        BY <3>1 DEF DrainTo
      <3>3. pos .. DrainTo - 1 = pos .. Len(answer)
        BY <1>1, <3>2
      <3>. QED  BY <1>2, <2>1, <3>2, <3>3 DEF Drain
    <2>. QED  BY <2>2, <2>3
  <1>3. CASE UNCHANGED <<sessionVars, dropped>>
    BY <1>3 DEF sessionVars
  <1>. QED  BY <1>2, <1>3

(* A fetch of rows goes on with rows; of parameters it stops at the DONE;  *)
(* of an empty result set it stays at its DONE.                            *)
LEMMA FetchPasses ==
    ASSUME IInv, NEW c \in Cmds, ~idle, ~row_prefetched[c], ~FetchEnds(c),
           Shows(curr_result_type[c], answer, pos)
    PROVE  /\ \A j \in pos .. Fetched(c) - 1 : ~Reportable(answer, j)
           /\ Shows(curr_result_type[c], answer, Fetched(c))
  <1>1. /\ Where /\ Stream(answer) /\ Len(answer) \in Nat /\ pos \in 1 .. Len(answer) + 1
    BY TypeParts, SessionIs DEF IInv
  <1>2. IsAnswer(answer) /\ pos \in 1 .. Len(answer)
    BY <1>1 DEF idle, Stream
  <1>3. PICK flag : flag = FetchFlags
    OBVIOUS
  <1>4. flag.return = {"ROW", "COMPUTE"} /\ flag.stopat = {"ROWFMT", "DONE"}
    BY <1>3 DEF FetchFlags, Flags
  <1>5. PICK r : r = tds_process_tokens(answer, pos, flag)
    OBVIOUS
  <1>6. /\ r.next \in pos .. Len(answer) + 1
        /\ \A j \in pos .. r.next - 1 : ~StopsAt(answer, flag, j)
        /\ \A j \in pos .. r.next - 1 : Returns(answer, flag, j) => j = r.next - 1
    BY <1>1, <1>5, LoopReads
  <1>7. PICK k : k = curr_result_type[c]
    OBVIOUS
  <1>8. /\ k \in {"row", "param"} \cup Dones
        /\ k = "row" => answer[pos].kind = "row"
    BY <1>7 DEF FetchEnds, Shows, Fetchable
  <1>9. Fetched(c) = IF k = "row" /\ r.rc = "SUCCESS" /\ r.type \in {"row", "compute"}
                     THEN r.next + Cardinality(RowsFrom(r.next, BindCount - 1))
                     ELSE IF r.rc = "SUCCESS" /\ r.type \in {"row", "compute"} THEN r.next + 0 ELSE r.next
    BY <1>3, <1>5, <1>7 DEF Fetched
  <1>10. \A j \in pos .. r.next - 1 : answer[j].kind \notin {"rowfmt"} \cup Dones
    <2>1. ASSUME NEW j \in pos .. r.next - 1, answer[j].kind \in {"rowfmt"} \cup Dones
          PROVE  FALSE
      <3>1. Class(answer, j) \in {"ROWFMT", "DONE"} /\ answer[j].kind # "status"
        BY <2>1 DEF Class, Dones
      <3>. QED  BY <1>4, <1>6, <3>1 DEF StopsAt
    <2>. QED  BY <2>1
  <1>11. CASE k = "row"
    <2>1. Class(answer, pos) = "ROW" /\ answer[pos].kind = "row"
      BY <1>8, <1>11 DEF Class, Dones
    <2>2. Returns(answer, flag, pos) /\ ~StopsAt(answer, flag, pos)
      BY <1>4, <2>1 DEF Returns, StopsAt
    <2>3. r.next = pos \/ r.next = pos + 1
      <3>1. r.next # pos => pos \in pos .. r.next - 1
        BY <1>1, <1>6
      <3>. QED  BY <1>1, <1>6, <2>2, <3>1
    <2>4. PICK m \in Nat : m = r.next /\ m \in pos .. Len(answer) + 1
      BY <1>1, <1>6
    <2>5. PICK T : T = RowsFrom(m, BindCount - 1)
      OBVIOUS
    <2>6. PICK n \in Nat : n = Cardinality(T) /\ T = m .. m + n - 1
      <3>1. T \subseteq m .. Len(answer)
        BY <2>5 DEF RowsFrom
      <3>2. ASSUME NEW j \in T, NEW i \in m .. j
            PROVE  i \in T
        <4>1. /\ j \in m .. Len(answer) /\ j < m + (BindCount - 1)
              /\ \A h \in m .. j : answer[h].kind = "row"
          BY <2>5 DEF RowsFrom
        <4>2. BindCount \in Nat
          BY ParametersAssumption
        <4>3. i \in m .. Len(answer) /\ i < m + (BindCount - 1)
          BY <1>1, <2>4, <4>1, <4>2
        <4>4. \A h \in m .. i : answer[h].kind = "row"
          BY <2>4, <4>1
        <4>. QED  BY <2>5, <4>3, <4>4 DEF RowsFrom
      <3>3. m <= Len(answer) + 1
        BY <2>4
      <3>. QED  BY <1>1, <2>4, <3>1, <3>2, <3>3, RunIs
    <2>7. \A j \in T : answer[j].kind = "row"
      <3>1. \A j \in T : j \in m .. Len(answer) /\ \A i \in m .. j : answer[i].kind = "row"
        BY <2>5 DEF RowsFrom
      <3>2. \A j \in m .. Len(answer) : j \in m .. j
        BY <1>1, <2>4
      <3>. QED  BY <3>1, <3>2
    <2>8. PICK to \in Nat : to = Fetched(c) /\ (to = m \/ to = m + n)
      <3>1. m + 0 = m
        BY <2>4
      <3>. QED  BY <1>9, <2>4, <2>5, <2>6, <3>1
    <2>9. ASSUME NEW j \in pos .. to - 1
          PROVE  answer[j].kind = "row"
      <3>1. CASE j < m
        <4>1. j = pos
          BY <1>1, <2>3, <2>4, <2>8, <3>1
        <4>. QED  BY <2>1, <4>1
      <3>2. CASE ~(j < m)
        <4>1. j \in m .. m + n - 1
          BY <1>1, <2>4, <2>6, <2>8, <3>2
        <4>. QED  BY <2>6, <2>7, <4>1
      <3>. QED  BY <3>1, <3>2
    <2>10. \A j \in pos .. to - 1 : ~Reportable(answer, j)
      BY <2>9 DEF Reportable
    <2>11. Shows(k, answer, to)
      BY <1>11 DEF Shows, Fetchable, Dones
    <2>. QED  BY <1>7, <2>8, <2>10, <2>11
  <1>12. CASE k # "row"
    <2>1. PICK m \in Nat : m = r.next /\ m \in pos .. Len(answer) + 1 /\ m = Fetched(c)
      BY <1>1, <1>6, <1>9, <1>12
    <2>2. CASE k = "param"
      <3>1. NoMore(answer, pos)
        BY <1>7, <2>2 DEF Shows
      <3>2. pos \in Nat /\ pos <= m /\ m <= Len(answer) + 1
        BY <1>1, <2>1
      <3>3. /\ NoMore(answer, m)
            /\ \A j \in pos .. m - 1 : answer[j].kind \notin {"param", "status"}
        BY <1>1, <1>10, <2>1, <3>1, <3>2, NoMoreOn
      <3>4. \A j \in pos .. m - 1 : ~Reportable(answer, j)
        BY <1>10, <2>1, <3>3 DEF Reportable
      <3>5. Shows(k, answer, m)
        BY <2>2, <3>3 DEF Shows, Fetchable, Dones
      <3>. QED  BY <1>7, <2>1, <3>4, <3>5
    <2>3. CASE k \in Dones
      <3>1. answer[pos].kind \in Dones
        BY <1>7, <2>3 DEF Shows
      <3>2. pos \notin pos .. m - 1
        BY <1>10, <2>1, <3>1
      <3>3. m = pos /\ pos .. m - 1 = {}
        BY <1>1, <2>1, <3>2
      <3>. QED  BY <2>1, <3>3
    <2>. QED  BY <1>8, <1>12, <2>2, <2>3
  <1>. QED  BY <1>11, <1>12

(* The same for CS_CANCEL_CURRENT.                                         *)
LEMMA CurrentPasses ==
    ASSUME IInv, NEW c \in Cmds, CancelCurrent(c), ~FetchCancelled(c), ~idle, ~FetchEnds(c),
           Shows(curr_result_type[c], answer, pos)
    PROVE  /\ \A j \in pos .. pos' - 1 : ~Reportable(answer, j)
           /\ Shows(curr_result_type[c], answer, pos')
  <1>1. /\ Where /\ Stream(answer) /\ Len(answer) \in Nat /\ pos \in 1 .. Len(answer) + 1
    BY TypeParts, SessionIs DEF IInv
  <1>2. PICK flag : flag = Flags({}, {"ROWFMT", "DONE"})
    OBVIOUS
  <1>3. PICK r : r = tds_process_tokens(answer, pos, flag)
    OBVIOUS
  <1>4. PICK T : T = {j \in pos .. r.next - 1 : curr_result_type[c] = "row" =>
                                                    \A i \in pos .. j : answer[i].kind = "row"}
    OBVIOUS
  <1>5. pos' = pos + Cardinality(T)
    BY <1>2, <1>3, <1>4 DEF CancelCurrent
  <1>6. /\ r.next \in pos .. Len(answer) + 1
        /\ \A j \in pos .. r.next - 1 : ~StopsAt(answer, flag, j)
    BY <1>1, <1>3, LoopReads
  <1>7. flag.stopat = {"ROWFMT", "DONE"}
    BY <1>2 DEF Flags
  <1>8. \A j \in pos .. r.next - 1 : answer[j].kind \notin {"rowfmt"} \cup Dones
    <2>1. ASSUME NEW j \in pos .. r.next - 1, answer[j].kind \in {"rowfmt"} \cup Dones
          PROVE  FALSE
      <3>1. Class(answer, j) \in {"ROWFMT", "DONE"} /\ answer[j].kind # "status"
        BY <2>1 DEF Class, Dones
      <3>. QED  BY <1>6, <1>7, <3>1 DEF StopsAt
    <2>. QED  BY <2>1
  <1>9. PICK hi \in Nat : hi = r.next - 1 /\ pos <= hi + 1 /\ hi <= Len(answer)
    BY <1>1, <1>6
  <1>10. PICK n \in Nat : n = Cardinality(T) /\ T = pos .. pos + n - 1 /\ pos + n <= hi + 1
    <2>1. pos \in Nat /\ T \subseteq pos .. hi
      BY <1>1, <1>4, <1>9
    <2>2. ASSUME NEW j \in T, NEW i \in pos .. j
          PROVE  i \in T
      <3>1. /\ j \in pos .. hi
            /\ curr_result_type[c] = "row" => \A k \in pos .. j : answer[k].kind = "row"
        BY <1>4, <1>9
      <3>2. i \in pos .. hi /\ pos .. i \subseteq pos .. j
        BY <2>1, <3>1
      <3>. QED  BY <1>4, <1>9, <3>1, <3>2
    <2>. QED  BY <1>9, <2>1, <2>2, RunIs
  <1>11. PICK to \in Nat : to = pos' /\ to = pos + n
    BY <1>1, <1>5, <1>10
  <1>12. \A j \in pos .. to - 1 : j \in T
    <2>1. T = pos .. to - 1
      BY <1>1, <1>10, <1>11
    <2>. QED  BY <2>1
  <1>13. curr_result_type[c] \in {"row", "param"}
    BY DEF CancelCurrent, FetchEnds, Shows, Fetchable
  <1>14. CASE curr_result_type[c] = "row"
    <2>1. ASSUME NEW j \in pos .. to - 1
          PROVE  answer[j].kind = "row"
      <3>1. j \in pos .. r.next - 1 /\ \A i \in pos .. j : answer[i].kind = "row"
        BY <1>4, <1>12, <1>14
      <3>2. j \in pos .. j
        BY <1>1, <3>1
      <3>. QED  BY <3>1, <3>2
    <2>2. \A j \in pos .. to - 1 : ~Reportable(answer, j)
      BY <2>1 DEF Reportable
    <2>3. Shows(curr_result_type[c], answer, to)
      BY <1>14 DEF Shows, Fetchable, Dones
    <2>. QED  BY <1>11, <2>2, <2>3
  <1>15. CASE curr_result_type[c] = "param"
    <2>1. NoMore(answer, pos)
      BY <1>15 DEF Shows
    <2>2. pos \in Nat /\ pos <= to /\ to <= Len(answer) + 1
      BY <1>1, <1>9, <1>10, <1>11
    <2>3. \A j \in pos .. to - 1 : j \in pos .. r.next - 1
      BY <1>4, <1>12
    <2>4. /\ NoMore(answer, to)
          /\ \A j \in pos .. to - 1 : answer[j].kind \notin {"param", "status"}
      BY <1>1, <1>8, <2>1, <2>2, <2>3, NoMoreOn
    <2>5. \A j \in pos .. to - 1 : ~Reportable(answer, j)
      BY <1>8, <2>3, <2>4 DEF Reportable
    <2>6. Shows(curr_result_type[c], answer, to)
      BY <1>15, <2>4 DEF Shows, Fetchable, Dones
    <2>. QED  BY <1>11, <2>5, <2>6
  <1>. QED  BY <1>13, <1>14, <1>15

-----------------------------------------------------------------------------
(* ct_send().                                                              *)
LEMMA SendSees ==
    ASSUME Disciplined, IInv, RInv, NEW c \in Cmds, ct_send(c)
    PROVE  RInv'
  <1>0. /\ told \in [Cmds -> Tellings] /\ command_state \in [Cmds -> CommandStates]
        /\ Len(answer) \in Nat /\ pos \in 1 .. Len(answer) + 1 /\ CancelWaits
    BY TypeParts, SessionIs DEF IInv, Commands
  <1>1. Calling /\ in = "app" /\ in' = "app" /\ in \notin Cmds
    BY NamesAssumption DEF ct_send, Calling, callVars
  <1>2. CASE /\ _ct_cancel_cleanup(c)
             /\ UNCHANGED <<command_type, command_state, curr_result_type, reported>>
    <2>1. told' = Set(told, c, "closed")
      BY <1>2 DEF _ct_cancel_cleanup
    <2>2. open' \subseteq open
      BY <1>0, <2>1, ToldOpens
    <2>3. \A d \in open' : told'[d] = told[d]
      BY <1>0, <2>1 DEF Set, open
    <2>4. (Drain /\ ~idle) \/ UNCHANGED <<sessionVars, dropped>>
      BY <1>0, <1>2 DEF _ct_cancel_cleanup, CancelWaits
    <2>5. /\ answer' = answer /\ dropped \subseteq dropped'
          /\ \/ dead'
             \/ pos' = Len(answer) + 1 /\ pos .. Len(answer) \subseteq dropped'
             \/ pos' = pos
      BY <2>4, CancelDrops
    <2>. QED  BY <1>0, <1>1, <1>2, <2>2, <2>3, <2>5, QuietSees
  <1>3. CASE /\ command_state' \in {command_state, Set(command_state, c, "SENT")}
             /\ UNCHANGED <<sessionVars, histVars, command_type, curr_result_type>>
    <2>1. open' = open /\ UNCHANGED <<answer, pos, dead, dropped, told, reported>>
      BY <1>3 DEF open, sessionVars, histVars
    <2>2. \A d \in open' : command_state'[d] \in {"SENT", command_state[d]}
      BY <1>0, <1>3 DEF Set, open
    <2>. QED  BY <1>0, <1>1, <1>3, <2>1, <2>2, QuietSees
  <1>4. CASE /\ idle /\ told' = Set(told, c, "sent") /\ pos' = 1
             /\ command_state' = Set(command_state, c, "SENT")
    <2>1. open' \subseteq {c}
      <3>1. open \subseteq {c}
        BY <1>4 DEF ct_send
      <3>2. open' \subseteq open \cup {c}
        BY <1>0, <1>4, ToldStaysOpen
      <3>. QED  BY <3>1, <3>2
    <2>2. told'[c] = "sent" /\ command_state'[c] = "SENT"
      BY <1>0, <1>4 DEF Set
    <2>3. 1 .. pos' - 1 = {}
      BY <1>4
    <2>. QED  BY <2>1, <2>2, <2>3 DEF RInv, Sent, Shown, Seen, Fetchable
  <1>. QED  BY <1>2, <1>3, <1>4 DEF ct_send, MaySend

(* ct_results(): the state alone gives the answer, or the loop begins.     *)
LEMMA ResultsSees ==
    ASSUME IInv, OInv, RInv, NEW c \in Cmds, ct_results(c)
    PROVE  RInv'
  <1>0. /\ told \in [Cmds -> Tellings] /\ "app" \notin Cmds /\ open \subseteq {owner}
        /\ Len(answer) \in Nat /\ pos \in 1 .. Len(answer) + 1
    BY TypeParts, SessionIs, NamesAssumption DEF IInv, Commands, OInv, OneOwner
  <1>1. Calling /\ c \in open /\ in = "app" /\ in \notin Cmds
    BY <1>0 DEF ct_results, Calling
  <1>2. CASE _ct_cancel_cleanup(c)
    BY <1>1, <1>2, ClosesAll, ClosedSees DEF _ct_cancel_cleanup
  <1>3. CASE /\ told' = Set(told, c, "CMD_DONE")
             /\ UNCHANGED <<answer, pos, dead, dropped, reported, command_type, command_state,
                            curr_result_type, in>>
    <2>1. open' \subseteq open
      BY <1>0, <1>1, <1>3, ToldOpens
    <2>2. \A d \in open' : told'[d] = told[d] \/ told'[d] \notin Fetchable
      BY <1>0, <1>3 DEF Set, Fetchable, open
    <2>. QED  BY <1>0, <1>1, <1>3, <2>1, <2>2, QuietSees
  <1>4. CASE /\ in' = c
             /\ UNCHANGED <<answer, pos, dead, dropped, reported, command_type, command_state,
                            curr_result_type, told>>
    <2>1. open' = open /\ open \subseteq Cmds
      BY <1>4 DEF open
    <2>2. Sent' /\ Shown'
      BY <1>0, <1>4, <2>1 DEF RInv, Sent, Shown
    <2>3. Seen'
      <3>. SUFFICES ASSUME ~dead, NEW d \in open, command_type[d] = "LANG", NEW j \in 1 .. pos - 1,
                           Reportable(answer, j)
                    PROVE  j \in reported \cup dropped
        BY <1>4, <2>1 DEF Seen
      <3>. QED  BY <1>1, <2>1 DEF RInv, Seen
    <2>. QED  BY <2>2, <2>3 DEF RInv
  <1>. QED  BY <1>2, <1>3, <1>4 DEF ct_results, callVars, histVars, sessionVars

(* ct_fetch().                                                             *)
LEMMA FetchSees ==
    ASSUME Disciplined, IInv, OInv, WInv, RInv, NEW c \in Cmds, ct_fetch(c)
    PROVE  RInv'
  <1>0. /\ Len(answer) \in Nat /\ pos \in 1 .. Len(answer) + 1 /\ "app" \notin Cmds
        /\ open \subseteq {owner}
    BY TypeParts, SessionIs, NamesAssumption DEF IInv, OInv, OneOwner
  <1>1. /\ Calling /\ c \in open /\ told[c] \in Fetchable /\ in = "app" /\ in \notin Cmds
        /\ open \subseteq {c}
    BY <1>0 DEF ct_fetch, MayFetch, Calling
  <1>2. CASE FetchCancelled(c)
    BY <1>1, <1>2, ClosesAll, ClosedSees DEF FetchCancelled, _ct_cancel_cleanup
  <1>3. CASE UNCHANGED <<sessionVars, cmdVars, in, histVars>>
    <2>1. open' = open /\ UNCHANGED <<answer, pos, dead, told, command_type, command_state,
                                      curr_result_type, dropped, reported>>
      BY <1>3 DEF open, sessionVars, cmdVars, histVars
    <2>. QED  BY <1>0, <1>1, <1>3, <2>1, QuietSees
  <1>4. CASE /\ ~FetchWaits(c) /\ pos' = Fetched(c)
             /\ dead' = (~idle /\ Fetched(c) = Len(answer) /\ answer[Len(answer)].kind = "eof"
                         /\ ~row_prefetched[c] /\ ~FetchEnds(c))
             /\ UNCHANGED <<answer, command_type, command_state, curr_result_type, callVars, told,
                            dropped, reported>>
    <2>1. open' = open /\ in' = "app"
      BY <1>1, <1>4 DEF open, callVars
    <2>2. CASE row_prefetched[c] \/ FetchEnds(c)
      <3>1. pos' = pos
        BY <1>4, <2>2 DEF Fetched
      <3>. QED  BY <1>0, <1>1, <1>4, <2>1, <3>1, QuietSees
    <2>3. CASE ~row_prefetched[c] /\ ~FetchEnds(c)
      <3>1. ~idle
        BY <1>4, <2>3 DEF FetchWaits, FetchEnds
      <3>2. pos' \in pos .. Len(answer)
        BY <1>4, <2>3, <3>1, FetchAhead
      <3>3. ASSUME command_type[c] = "LANG"
            PROVE  /\ \A j \in pos .. pos' - 1 : ~Reportable(answer, j)
                   /\ Shows(curr_result_type[c], answer, pos')
        <4>1. Shows(curr_result_type[c], answer, pos)
          BY <1>1, <3>1, <3>3 DEF RInv, Shown, Calling
        <4>. QED  BY <1>4, <2>3, <3>1, <4>1, FetchPasses
      <3>4. \A d \in open : command_type[d] = "LANG" =>
               /\ \A j \in pos .. pos' - 1 : ~Reportable(answer, j)
               /\ told[d] \in Fetchable => Shows(curr_result_type[d], answer, pos')
        BY <1>1, <3>3
      <3>. QED  BY <1>0, <1>1, <1>4, <2>1, <3>2, <3>4, QuietSees
    <2>. QED  BY <2>2, <2>3
  <1>. QED  BY <1>2, <1>3, <1>4 DEF ct_fetch

(* ct_cancel(CS_CANCEL_CURRENT).                                           *)
LEMMA CurrentSees ==
    ASSUME Disciplined, IInv, OInv, WInv, RInv, NEW c \in Cmds, CancelCurrent(c)
    PROVE  RInv'
  <1>0. /\ Len(answer) \in Nat /\ pos \in 1 .. Len(answer) + 1 /\ "app" \notin Cmds
        /\ open \subseteq {owner}
    BY TypeParts, SessionIs, NamesAssumption DEF IInv, OInv, OneOwner
  <1>1. /\ Calling /\ c \in open /\ told[c] \in Fetchable /\ in = "app" /\ in \notin Cmds
        /\ open \subseteq {c}
    BY <1>0 DEF CancelCurrent, MayFetch, Calling
  <1>2. CASE FetchCancelled(c)
    BY <1>1, <1>2, ClosesAll, ClosedSees DEF FetchCancelled, _ct_cancel_cleanup
  <1>3. CASE ~FetchCancelled(c)
    <2>1. UNCHANGED <<command_type, command_state, curr_result_type, in, told, reported>>
      BY <1>3 DEF CancelCurrent
    <2>2. /\ answer' = answer /\ dropped \subseteq dropped'
          /\ \/ pos' = pos
             \/ dead'
             \/ pos' <= Len(answer) /\ Ahead(answer, pos')
          /\ FetchEnds(c) \/ idle => pos' = pos /\ dead' = FALSE
      BY <1>3, CurrentAhead
    <2>3. open' = open /\ in' = "app"
      BY <1>1, <2>1 DEF open
    <2>4. CASE dead' \/ pos' = pos
      BY <1>0, <1>1, <2>1, <2>2, <2>3, <2>4, QuietSees
    <2>5. CASE ~dead' /\ pos' # pos
      <3>1. ~idle /\ ~FetchEnds(c) /\ pos' <= Len(answer)
        BY <2>2, <2>5
      <3>2. pos' \in pos .. Len(answer)
        <4>1. Moves
          BY CurrentMoves
        <4>. QED  BY <1>0, <3>1, <4>1 DEF Moves
      <3>3. ASSUME command_type[c] = "LANG"
            PROVE  /\ \A j \in pos .. pos' - 1 : ~Reportable(answer, j)
                   /\ Shows(curr_result_type[c], answer, pos')
        <4>1. Shows(curr_result_type[c], answer, pos)
          BY <1>1, <3>1, <3>3 DEF RInv, Shown, Calling
        <4>. QED  BY <1>3, <3>1, <4>1, CurrentPasses
      <3>4. \A d \in open : command_type[d] = "LANG" =>
               /\ \A j \in pos .. pos' - 1 : ~Reportable(answer, j)
               /\ told[d] \in Fetchable => Shows(curr_result_type[d], answer, pos')
        BY <1>1, <3>3
      <3>. QED  BY <1>0, <1>1, <2>1, <2>2, <2>3, <3>2, <3>4, QuietSees
    <2>. QED  BY <2>4, <2>5
  <1>. QED  BY <1>2, <1>3

(* The calls that leave the results of the open command alone.             *)
LEMMA OthersSee ==
    ASSUME Disciplined, IInv, OInv, RInv,
           \/ \E c \in Cmds :
                 \/ \E type \in {"LANG", "DYNAMIC"}, state \in {"BUILDING", "READY"} :
                       ct_command(c, type, state)
                 \/ ct_cmd_drop(c)
           \/ \E s \in Targets : CancelAttn(s) \/ CancelAll(s)
    PROVE  RInv'
  <1>0. /\ told \in [Cmds -> Tellings] /\ command_state \in [Cmds -> CommandStates]
        /\ curr_result_type \in [Cmds -> Kinds \cup {"none"}]
        /\ command_type \in [Cmds -> {"LANG", "DYNAMIC"}]
        /\ Len(answer) \in Nat /\ pos \in 1 .. Len(answer) + 1
    BY TypeParts, SessionIs DEF IInv, Commands
  <1>1. Calling /\ in \notin Cmds /\ in' = "app"
    BY NamesAssumption DEF ct_command, ct_cmd_drop, CancelAttn, CancelAll, Calling, callVars
  <1>2. ASSUME NEW c \in Cmds, NEW type, NEW state, ct_command(c, type, state)
        PROVE  RInv'
    <2>1. /\ c \notin open /\ command_type' = Set(command_type, c, type)
          /\ command_state' = Set(command_state, c, state)
          /\ UNCHANGED <<answer, pos, dropped, reported, told, curr_result_type>>
      BY <1>2 DEF ct_command, sessionVars, histVars
    <2>2. open' = open
      BY <2>1 DEF open
    <2>3. \A d \in open' : command_type'[d] = command_type[d] /\ command_state'[d] = command_state[d]
      BY <1>0, <2>1, <2>2 DEF Set, open
    <2>. QED  BY <1>0, <1>1, <2>1, <2>2, <2>3, QuietSees
  <1>3. ASSUME NEW c \in Cmds, ct_cmd_drop(c)
        PROVE  RInv'
    <2>1. /\ told' = Set(told, c, "closed") /\ command_type' = Set(command_type, c, "LANG")
          /\ command_state' = Set(command_state, c, "IDLE")
          /\ curr_result_type' = Set(curr_result_type, c, "none")
          /\ UNCHANGED <<answer, pos, dropped, reported>>
      BY <1>3 DEF ct_cmd_drop, sessionVars
    <2>2. open' \subseteq open
      BY <1>0, <2>1, ToldOpens
    <2>3. \A d \in open' : d # c /\ d \in Cmds
      BY <1>0, <2>1 DEF Set, open
    <2>4. \A d \in open' : /\ told'[d] = told[d] /\ command_type'[d] = command_type[d]
                           /\ command_state'[d] = command_state[d]
                           /\ curr_result_type'[d] = curr_result_type[d]
      BY <1>0, <2>1, <2>3 DEF Set
    <2>. QED  BY <1>0, <1>1, <2>1, <2>2, <2>4, QuietSees
  <1>4. ASSUME NEW s, CancelAttn(s)
        PROVE  RInv'
    <2>1. UNCHANGED <<answer, pos, dropped, reported, told, curr_result_type, command_type, command_state>>
      BY <1>4 DEF CancelAttn, histVars
    <2>2. open' = open
      BY <2>1 DEF open
    <2>. QED  BY <1>0, <1>1, <2>1, <2>2, QuietSees
  <1>5. ASSUME NEW s, CancelAll(s)
        PROVE  RInv'
    <2>1. /\ told' = [c \in Cmds |-> IF c \in s THEN "closed" ELSE told[c]]
          /\ command_state' = [c \in Cmds |-> IF c \in s THEN "IDLE" ELSE command_state[c]]
          /\ UNCHANGED <<reported, curr_result_type, command_type>>
      BY <1>5 DEF CancelAll
    <2>2. (Drain /\ ~idle) \/ UNCHANGED <<sessionVars, dropped>>
      BY <1>5 DEF CancelAll
    <2>3. /\ answer' = answer /\ dropped \subseteq dropped'
          /\ \/ dead'
             \/ pos' = Len(answer) + 1 /\ pos .. Len(answer) \subseteq dropped'
             \/ pos' = pos
      BY <2>2, CancelDrops
    <2>4. open' \subseteq open
          /\ \A d \in open' : told'[d] = told[d] /\ command_state'[d] = command_state[d]
      BY <1>0, <2>1 DEF open
    <2>. QED  BY <1>0, <1>1, <2>1, <2>3, <2>4, QuietSees
  <1>. QED  BY <1>2, <1>3, <1>4, <1>5

(* Every call of a disciplined program keeps the invariant.                *)
LEMMA SeenSteps ==
    ASSUME Disciplined, ProceduresInOrder, IInv, OInv, WInv, RInv, Next
    PROVE  RInv'
  <1>1. ASSUME NEW c \in Cmds, ct_send(c) \/ ct_results(c) \/ ct_results_turn(c)
        PROVE  RInv'
    BY <1>1, SendSees, ResultsSees, TurnSees
  <1>2. ASSUME NEW c \in Cmds, ct_fetch(c) \/ CancelCurrent(c)
        PROVE  RInv'
    BY <1>2, FetchSees, CurrentSees
  <1>. QED  BY <1>1, <1>2, OthersSee DEF Next

(* The end of the results is told at the end of the answer, when all was   *)
(* reported.                                                               *)
LEMMA EndReports ==
    ASSUME IInv, OInv, WInv, RInv, Next, NEW c \in Cmds, in = c, in' = "app",
           command_state'[c] = "READY", command_type[c] = "LANG"
    PROVE  {j \in DOMAIN answer : \/ answer[j].kind \in {"rowfmt", "param"}
                                  \/ (answer[j].kind = "status" /\ Reported(answer, j))}
           \subseteq reported \cup dropped
  <1>1. /\ Where /\ Len(answer) \in Nat /\ DOMAIN answer = 1 .. Len(answer)
        /\ pos \in 1 .. Len(answer) + 1 /\ "app" \notin Cmds
        /\ command_state \in [Cmds -> CommandStates]
    BY TypeParts, SessionIs, NamesAssumption DEF IInv, Commands
  <1>2. c \in open /\ ~dead /\ command_state[c] = "SENT"
    BY <1>1 DEF OInv, RunsForOpen, WInv, Alive, RInv, Sent
  <1>3. ct_results_turn(c)
    BY <1>1 DEF Next, ct_command, ct_send, ct_cmd_drop, ct_results, ct_results_turn, ct_fetch,
        CancelCurrent, CancelAttn, CancelAll, Calling
  <1>4. PICK r : r = tds_process_tokens(answer, pos, ResultsFlags)
    OBVIOUS
  <1>5. r.rc = "NO_MORE_RESULTS"
    <2>1. command_state' # command_state
      BY <1>2
    <2>. QED  BY <1>3, <1>4, <2>1 DEF ct_results_turn, cmdVars
  <1>6. pos = Len(answer) + 1
    <2>1. idle
      BY <1>4, <1>5, TurnPasses
    <2>. QED  BY <1>1, <2>1 DEF idle
  <1>7. IsAnswer(answer)
    <2>1. answer # <<>>
      BY <1>2 DEF WInv, Begun
    <2>. QED  BY <1>1, <2>1, SessionIs DEF Stream
  <1>8. results_state[c] # "EMPTY"
    <2>1. Final(answer[Len(answer)]) \/ answer[Len(answer)].kind = "eof"
      BY <1>7, AnswerTypes
    <2>2. answer[Len(answer)].kind \notin {"rowfmt", "computefmt"}
      BY <2>1 DEF Final, Dones
    <2>3. pos - 1 = Len(answer)
      BY <1>1, <1>6
    <2>. QED  BY <1>1, <2>2, <2>3 DEF WInv, Within
  <1>9. ASSUME NEW j \in DOMAIN answer, Reportable(answer, j)
        PROVE  j \in reported \cup dropped
    <2>1. j \in 1 .. pos - 1
      BY <1>1, <1>6, <1>9
    <2>. QED  BY <1>2, <1>8, <1>9, <2>1 DEF RInv, Seen
  <1>. QED  BY <1>9 DEF Reportable

(* In a disciplined program CS_END_RESULTS comes after every result set,   *)
(* every list of parameters and every status of the answer was reported or *)
(* thrown away by a cancel, for every set of answers in which those of     *)
(* procedures are in order.                                                *)
THEOREM AllIsReported ==
    ASSUME Disciplined, ProceduresInOrder
    PROVE  Spec => ResultsAreReported
  <1>1. Init => OInv /\ WInv /\ RInv
    <2>1. ASSUME Init
          PROVE  open = {} /\ in = "app" /\ ~stuck /\ taken = {}
      BY <2>1 DEF Init, open
    <2>2. ASSUME Init
          PROVE  OInv /\ WInv /\ RInv
      BY <2>1, <2>2 DEF OInv, OneOwner, RunsForOpen, RowsGoToTheirCommand, WInv, Alive, Begun,
          Between, Within, EndRead, FetchFindsAnAnswer, RInv, Sent, Shown, Seen
    <2>. QED  BY <2>2
  <1>2. IInv /\ OInv /\ WInv /\ RInv /\ [Next]_vars => OInv' /\ WInv' /\ RInv'
    <2>1. ASSUME OInv, UNCHANGED vars
          PROVE  OInv'
      BY <2>1 DEF OInv, OneOwner, RunsForOpen, RowsGoToTheirCommand, open, vars
    <2>2. ASSUME WInv, UNCHANGED vars
          PROVE  WInv'
      BY <2>2 DEF WInv, Alive, Begun, Between, Within, EndRead, FetchFindsAnAnswer, Ahead,
          open, idle, vars
    <2>3. ASSUME RInv, UNCHANGED vars
          PROVE  RInv'
      <3>1. Fmt(pos)' = Fmt(pos)
        BY <2>3 DEF Fmt, vars
      <3>. QED  BY <2>3, <3>1 DEF RInv, Sent, Shown, Seen, Shows, NoMore, Reportable, Reported,
          open, idle, vars
    <2>. QED  BY <2>1, <2>2, <2>3, OwnerSteps, WaitSteps, SeenSteps
  <1>3. IInv /\ OInv /\ WInv /\ RInv /\ [Next]_vars =>
          [\A c \in Cmds :
             in = c /\ in' = "app" /\ command_state'[c] = "READY" /\ command_type[c] = "LANG" =>
               {j \in DOMAIN answer : \/ answer[j].kind \in {"rowfmt", "param"}
                                      \/ (answer[j].kind = "status" /\ Reported(answer, j))}
               \subseteq reported \cup dropped]_vars
    BY EndReports
  <1>. QED  BY Invariant, <1>1, <1>2, <1>3, PTL DEF Spec, ResultsAreReported
=============================================================================
