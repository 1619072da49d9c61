-------------------------- MODULE RowBuffer_proof --------------------------
(***************************************************************************)
(* The row buffer for every capacity and every length of result set: its   *)
(* indices stay in the ring, the rows it holds are the last ones received, *)
(* without a gap, and a buffered row keeps the values it had when it was   *)
(* read, although the newest one shares them with current_row; the ring    *)
(* implements the window of RowWindow, and dbnextrow() goes through it row *)
(* by row.                                                                 *)
(***************************************************************************)
EXTENDS RowBuffer, TLAPS

(* No helper of a step leaves the ring.                                    *)
LEMMA IncrementInRing ==
    ASSUME TypeOK, NEW i \in Slots
    PROVE  buffer_idx_increment(i) \in Slots
  BY CapacitiesAssumption DEF TypeOK, Slots, buffer_idx_increment

(* The newest slot is in the ring (buffer_save_row()).                     *)
LEMMA SaveIdxInRing ==
    ASSUME TypeOK
    PROVE  SaveIdx \in Slots
  BY CapacitiesAssumption DEF TypeOK, Slots, SaveIdx

(* Saving the newest row keeps the types.                                  *)
LEMMA SavedTypes ==
    ASSUME TypeOK
    PROVE  SavedOwn \in [Slots -> Nat] /\ SavedLive \in Nat
  BY SaveIdxInRing DEF TypeOK, SavedOwn, SavedLive, Saves

(* The bounds of the number of rows dbclrbuf() really deletes.             *)
LEMMA ClearCountBounds ==
    ASSUME TypeOK, tail = capacity => head = 0, NEW n \in Nat
    PROVE  /\ buffer_count \in 0 .. capacity
           /\ ClearCount(n) \in Nat
           /\ ClearCount(n) > 0 => ClearCount(n) < buffer_count
  BY CapacitiesAssumption DEF TypeOK, Slots, buffer_count, ClearCount

----------------------------------------------------------------------------
(* The inductive invariant.  TypeOK alone is not inductive: that the tail  *)
(* stays in the ring when dbclrbuf() moves it needs the empty ring to be   *)
(* in its initial position, which is part of WindowIsContiguous.           *)
IInv == TypeOK /\ WindowIsContiguous

(* Calls that leave the ring and its rows where they are.                  *)
LEMMA RingUntouched ==
    ASSUME IInv, TypeOK',
           UNCHANGED <<head, tail, capacity, received, allocated, rowno>>
    PROVE  WindowIsContiguous'
  BY DEF IInv, WindowIsContiguous, Filled, Slots

(* An assert() or a NULL pointer leaves the ring as it is.                 *)
LEMMA StopStep ==
    ASSUME IInv, NEW why \in {"assert", "null"}, Stop(why)
    PROVE  IInv'
  <1>1. TypeOK'
    BY DEF IInv, Stop, TypeOK, ringVars, wireVars, Slots
  <1>2. WindowIsContiguous'
    BY <1>1, RingUntouched DEF Stop, ringVars
  <1> QED BY <1>1, <1>2 DEF IInv

(* Delivering a buffered row moves current within the ring.                *)
LEMMA DeliverStep ==
    ASSUME IInv, NEW call, NEW i \in Slots, Deliver(call, i)
    PROVE  IInv'
  <1>0. buffer_idx_increment(i) \in Slots /\ capacity \in Nat
    BY IncrementInRing, CapacitiesAssumption DEF IInv, TypeOK
  <1>1. TypeOK'
    <2>1. current' \in 0 .. capacity'
      BY <1>0 DEF Deliver, Slots
    <2>2. Slots' = Slots
      BY DEF Deliver, Slots
    <2> QED BY <2>1, <2>2 DEF IInv, Deliver, TypeOK, wireVars
  <1>2. WindowIsContiguous'
    BY <1>1, RingUntouched DEF Deliver
  <1> QED BY <1>1, <1>2 DEF IInv

(* buffer_add_row() extends the window by one row at its head.             *)
LEMMA FetchStep ==
    ASSUME IInv, allocated, ~buffer_is_full, nread < nrows, FetchRow
    PROVE  IInv'
  <1> USE DEF IInv
  <1>0. /\ buffer_idx_increment(head) \in Slots
        /\ SavedOwn \in [Slots -> Nat] /\ SavedLive \in Nat
        /\ capacity \in Nat /\ nrows \in Nat /\ nread \in Nat
    BY IncrementInRing, SavedTypes, CapacitiesAssumption, MaxRowsAssumption DEF TypeOK
  <1>1. TypeOK'
    <2>1. /\ head' \in Slots /\ tail' \in 0 .. capacity /\ current' \in 0 .. capacity
          /\ nread' \in 0 .. nrows /\ received' \in Nat /\ live' \in Nat
      BY <1>0 DEF FetchRow, TypeOK, Slots
    <2>2. Slots' = Slots
      BY DEF FetchRow, Slots
    <2>3. rowno' \in [Slots -> Nat] /\ own' \in [Slots -> Nat] /\ src' \in [Slots -> Nat]
      BY <1>0 DEF FetchRow, TypeOK
    <2> QED BY <2>1, <2>2, <2>3 DEF FetchRow, TypeOK
  <1>2. PICK c \in Nat : c = capacity /\ c > 0
    BY CapacitiesAssumption DEF TypeOK
  <1>3. /\ head \in Slots /\ tail \in 0 .. capacity /\ received \in Nat
        /\ rowno \in [Slots -> Nat]
        /\ rowno' = [rowno EXCEPT ![head] = received + 1]
        /\ received' = received + 1 /\ capacity' = capacity /\ allocated'
        /\ tail' = IF tail = capacity THEN 0 ELSE tail
        /\ head' = IF head + 1 >= capacity THEN 0 ELSE head + 1
    BY DEF TypeOK, FetchRow, buffer_idx_increment
  <1>4. capacity > 1 => head # tail
    BY <1>2, <1>3 DEF buffer_is_full, buffer_count, Slots
  <1>5. Filled' = Filled \cup {head}
    BY <1>2, <1>3, <1>4 DEF WindowIsContiguous, Filled, Slots
  <1>6. tail' = capacity' => head' = 0
    BY <1>2, <1>3 DEF Slots
  <1>7. ASSUME NEW i \in Slots'
        PROVE  /\ rowno'[i] = IF i \notin Filled' THEN 0
                              ELSE IF i < head' THEN (received' + 1 + i) - head'
                              ELSE (received' + 1 + i) - (head' + capacity')
               /\ i \in Filled' => rowno'[i] > 0
    <2>1. CASE i = head
      BY <1>2, <1>3, <1>5, <2>1 DEF Slots
    <2>2. CASE i # head
      <3>1. rowno'[i] = rowno[i] /\ (i \in Filled' <=> i \in Filled) /\ i \in Slots
        BY <1>3, <1>5, <2>2 DEF Slots
      <3>2. rowno[i] = IF i \notin Filled THEN 0
                       ELSE IF i < head THEN (received + 1 + i) - head
                       ELSE (received + 1 + i) - (head + capacity)
        BY <3>1 DEF WindowIsContiguous
      <3>3. i \in Filled => rowno[i] > 0
        BY DEF WindowIsContiguous
      <3> QED BY <1>2, <1>3, <1>4, <2>2, <3>1, <3>2, <3>3 DEF Slots, Filled
    <2> QED BY <2>1, <2>2
  <1>8. Filled' \subseteq Slots'
    BY DEF Filled
  <1> QED BY <1>1, <1>6, <1>7, <1>8 DEF WindowIsContiguous

(* dbclrbuf() cuts the window at its tail and leaves a row in it.          *)
LEMMA ClearStep ==
    ASSUME IInv, allocated, NEW n \in Nat, dbclrbuf(n)
    PROVE  IInv'
  <1> USE DEF IInv
  <1> DEFINE k == ClearCount(n)
  <1>1. /\ buffer_count \in 0 .. capacity /\ k \in Nat
        /\ k > 0 => k < buffer_count
    BY ClearCountBounds DEF WindowIsContiguous
  <1> HIDE DEF k
  <1>2. PICK c \in Nat : c = capacity /\ c > 0
    BY CapacitiesAssumption DEF TypeOK
  <1>3. buffer_delete_rows(k) /\ UNCHANGED <<wireVars, factive, results, dead, fault>>
    BY DEF dbclrbuf, k
  <1>4. /\ head' = head /\ current' = current /\ capacity' = capacity
        /\ received' = received /\ allocated' = allocated
        /\ tail' = IF tail + k >= capacity /\ k > 0
                   THEN (tail + k) - capacity ELSE tail + k
        /\ rowno' = [i \in Slots |-> IF i \in Deleted(k) THEN 0 ELSE rowno[i]]
        /\ own' = [i \in Slots |-> IF i \in Deleted(k) THEN 0 ELSE own[i]]
        /\ src' = [i \in Slots |-> IF i \in Deleted(k) THEN 0 ELSE src[i]]
    BY <1>1, <1>2, <1>3 DEF buffer_delete_rows, TypeOK
  <1>5. head \in Slots /\ tail \in 0 .. capacity /\ (tail = capacity => head = 0)
    BY DEF TypeOK, WindowIsContiguous
  <1>6. tail' \in 0 .. capacity
    BY <1>1, <1>2, <1>4, <1>5 DEF buffer_count, Slots
  <1>7. TypeOK'
    BY <1>3, <1>4, <1>6 DEF TypeOK, Slots, wireVars
  <1>8. Filled' = Filled \ Deleted(k)
    BY <1>1, <1>2, <1>4, <1>5 DEF Filled, Deleted, Slots, buffer_count
  <1>9. tail' = capacity' => head' = 0
    BY <1>1, <1>2, <1>4, <1>5 DEF Slots, buffer_count
  <1>10. ASSUME NEW i \in Slots'
         PROVE  /\ rowno'[i] = IF i \notin Filled' THEN 0
                               ELSE IF i < head' THEN (received' + 1 + i) - head'
                               ELSE (received' + 1 + i) - (head' + capacity')
                /\ i \in Filled' => rowno'[i] > 0
    BY <1>4, <1>8 DEF WindowIsContiguous, Slots
  <1>11. Filled' \subseteq Slots'
    BY DEF Filled
  <1> QED BY <1>7, <1>9, <1>10, <1>11 DEF WindowIsContiguous

(* The end of the rows, or of the connection, only saves the newest row.   *)
LEMMA SaveOnlyStep ==
    ASSUME IInv, SaveOnly, results' \in {"init", "rows", "next"}, dead' \in BOOLEAN
    PROVE  IInv'
  <1>1. SavedOwn \in [Slots -> Nat] /\ SavedLive \in Nat
    BY SavedTypes DEF IInv
  <1>2. Slots' = Slots
    BY DEF SaveOnly, Slots
  <1>3. TypeOK'
    BY <1>1, <1>2 DEF IInv, SaveOnly, TypeOK
  <1>4. WindowIsContiguous'
    BY <1>3, RingUntouched DEF SaveOnly
  <1> QED BY <1>3, <1>4 DEF IInv

(* Every outcome of dbnextrow().                                           *)
LEMMA NextrowStep ==
    ASSUME IInv, dbnextrow
    PROVE  IInv'
  <1>1. CASE UNCHANGED <<ringVars, wireVars, factive, results, dead, fault>>
    <2>1. TypeOK'
      BY <1>1 DEF IInv, TypeOK, ringVars, wireVars, Slots
    <2> QED BY <1>1, <2>1, RingUntouched DEF ringVars, IInv
  <1>2. CASE \E why \in {"assert", "null"} : Stop(why)
    BY <1>2, StopStep
  <1>3. CASE ~CurrentIsNew /\ Deliver("dbnextrow", current)
    <2>1. current \in Slots
      BY <1>3, CapacitiesAssumption DEF IInv, TypeOK, CurrentIsNew, Slots
    <2> QED BY <1>3, <2>1, DeliverStep
  <1>4. CASE allocated /\ ~buffer_is_full /\ nread < nrows /\ FetchRow
    BY <1>4, FetchStep
  <1>5. CASE SaveOnly /\ results' \in {results, "next"} /\ dead' \in {dead, TRUE}
    BY <1>5, SaveOnlyStep DEF IInv, TypeOK
  <1> QED BY <1>1, <1>2, <1>3, <1>4, <1>5 DEF dbnextrow

(* dbgetrow() and dbsetrow() only move current.                            *)
LEMMA LookupStep ==
    ASSUME IInv, NEW row \in Nat, dbgetrow(row) \/ dbsetrow(row)
    PROVE  IInv'
  <1>1. CASE UNCHANGED <<ringVars, wireVars, factive, results, dead, fault>>
    <2>1. TypeOK'
      BY <1>1 DEF IInv, TypeOK, ringVars, wireVars, Slots
    <2> QED BY <1>1, <2>1, RingUntouched DEF ringVars, IInv
  <1>2. CASE Stop("null")
    BY <1>2, StopStep
  <1>3. CASE \E i \in buffer_row2idx(row) : Deliver("dbgetrow", i)
    BY <1>3, DeliverStep DEF buffer_row2idx, Filled
  <1>4. CASE /\ \E i \in buffer_row2idx(row) : current' = i
             /\ UNCHANGED <<head, tail, capacity, received, allocated, rowno, own, src,
                            wireVars, factive, results, dead, fault>>
    <2>1. Slots' = Slots /\ current' \in 0 .. capacity
      BY <1>4, CapacitiesAssumption DEF Slots, buffer_row2idx, Filled, IInv, TypeOK
    <2>2. TypeOK'
      BY <1>4, <2>1 DEF IInv, TypeOK, wireVars
    <2> QED BY <1>4, <2>2, RingUntouched DEF IInv
  <1> QED BY <1>1, <1>2, <1>3, <1>4 DEF dbgetrow, dbsetrow, NotFound

(* dbsetopt() and dbclropt() leave a ring without rows.                    *)
LEMMA SetCapacityStep ==
    ASSUME IInv, NEW n \in Capacities \cup {1}, buffer_set_capacity(n),
           UNCHANGED <<wireVars, results, dead, fault>>, factive' \in BOOLEAN
    PROVE  IInv'
  <1>1. n \in Nat /\ n > 0
    BY CapacitiesAssumption
  <1>2. TypeOK'
    <2>1. Slots' = 0 .. n - 1 /\ capacity' = n /\ EmptySlots(n) \in [0 .. n - 1 -> Nat]
      BY DEF Slots, buffer_set_capacity, EmptySlots
    <2>2. 0 \in 0 .. n - 1 /\ 0 \in 0 .. n
      BY <1>1
    <2> QED BY <2>1, <2>2 DEF IInv, TypeOK, buffer_set_capacity, wireVars
  <1>3. WindowIsContiguous'
    BY DEF buffer_set_capacity, WindowIsContiguous
  <1> QED BY <1>2, <1>3 DEF IInv

(* A new result set starts with an empty ring.                             *)
LEMMA ResultsStep ==
    ASSUME IInv, dbresults
    PROVE  IInv'
  <1>1. CASE UNCHANGED <<ringVars, wireVars, factive, results, dead, fault>>
    <2>1. TypeOK'
      BY <1>1 DEF IInv, TypeOK, ringVars, wireVars, Slots
    <2> QED BY <1>1, <2>1, RingUntouched DEF ringVars, IInv
  <1>2. CASE /\ buffer_alloc /\ nrows' \in 0 .. MaxRows /\ nread' = 0 /\ live' = 0
             /\ results' \in {"rows", "next"} /\ UNCHANGED <<factive, dead, fault>>
    <2>1. capacity \in Nat /\ capacity > 0 /\ Slots' = Slots
      BY <1>2, CapacitiesAssumption DEF IInv, TypeOK, buffer_alloc, Slots
    <2>2. TypeOK'
      BY <1>2, <2>1, MaxRowsAssumption DEF IInv, TypeOK, buffer_alloc, EmptySlots, Slots
    <2>3. Filled' = {} /\ tail' = capacity' /\ head' = 0
      BY <1>2 DEF buffer_alloc, Filled
    <2>4. WindowIsContiguous'
      BY <1>2, <2>1, <2>3 DEF WindowIsContiguous, buffer_alloc, EmptySlots, Slots
    <2> QED BY <2>2, <2>4 DEF IInv
  <1> QED BY <1>1, <1>2 DEF dbresults

(* Calls on the stream that do not move the ring.                          *)
LEMMA StreamStep ==
    ASSUME IInv, dbcanquery \/ dbreadtext \/ dbfirstrow \/ dblastrow
    PROVE  IInv'
  <1>0. nread \in Nat /\ nrows \in Nat
    BY MaxRowsAssumption DEF IInv, TypeOK
  <1>1. CASE Stop("null")
    BY <1>1, StopStep
  <1>2. CASE UNCHANGED <<ringVars, wireVars, factive, results, dead, fault>>
    <2>1. TypeOK'
      BY <1>2 DEF IInv, TypeOK, ringVars, wireVars, Slots
    <2> QED BY <1>2, <2>1, RingUntouched DEF ringVars, IInv
  <1>3. CASE dbcanquery
    <2>1. TypeOK'
      BY <1>0, <1>3 DEF IInv, TypeOK, dbcanquery, ringVars, Slots
    <2> QED BY <1>3, <2>1, RingUntouched DEF dbcanquery, ringVars, IInv
  <1>4. CASE /\ own' = SavedOwn
             /\ live' = IF nread < nrows THEN nread + 1 ELSE SavedLive
             /\ nread' = IF nread < nrows THEN nread + 1 ELSE nread
             /\ UNCHANGED <<head, tail, current, capacity, received, allocated, rowno,
                            src, nrows, factive, results, dead, fault>>
    <2>1. SavedOwn \in [Slots -> Nat] /\ SavedLive \in Nat
      BY SavedTypes DEF IInv
    <2>2. Slots' = Slots
      BY <1>4 DEF Slots
    <2>3. nread' \in 0 .. nrows /\ live' \in Nat
      BY <1>0, <1>4, <2>1 DEF IInv, TypeOK
    <2>4. TypeOK'
      BY <1>4, <2>1, <2>2, <2>3 DEF IInv, TypeOK
    <2> QED BY <1>4, <2>4, RingUntouched DEF IInv
  <1> QED BY <1>1, <1>2, <1>3, <1>4 DEF dbreadtext, dbfirstrow, dblastrow

(* Every call of db-lib preserves the invariant.                           *)
THEOREM Inductive == Spec => []IInv
  <1>1. Init => IInv
    <2> SUFFICES ASSUME Init PROVE IInv
      OBVIOUS
    <2>1. Slots = 0 .. 0 /\ EmptySlots(1) \in [0 .. 0 -> Nat]
      BY DEF Init, Slots, EmptySlots
    <2>2. TypeOK
      <3>1. 0 \in 0 .. 0 /\ 0 \in 0 .. 1 /\ 0 \in 0 .. MaxRows
        BY MaxRowsAssumption
      <3> QED BY <2>1, <3>1 DEF Init, TypeOK
    <2>3. WindowIsContiguous
      BY DEF Init, WindowIsContiguous
    <2> QED BY <2>2, <2>3 DEF IInv
  <1>2. IInv /\ [Next]_vars => IInv'
    <2> SUFFICES ASSUME IInv, [Next]_vars PROVE IInv'
      OBVIOUS
    <2>1. CASE UNCHANGED vars
      <3>1. TypeOK'
        BY <2>1 DEF IInv, TypeOK, vars, Slots
      <3> QED BY <2>1, <3>1, RingUntouched DEF vars, IInv
    <2>2. CASE dbnextrow
      BY <2>2, NextrowStep
    <2>3. ASSUME NEW row \in 1 .. MaxRows, dbgetrow(row) \/ dbsetrow(row)
          PROVE  IInv'
      BY <2>3, LookupStep, MaxRowsAssumption
    <2>4. ASSUME NEW n \in 1 .. MaxRows, dbclrbuf(n)
          PROVE  IInv'
      <3>1. CASE Stop("null")
        BY <3>1, StopStep
      <3>2. CASE allocated
        BY <2>4, <3>2, ClearStep, MaxRowsAssumption
      <3> QED BY <2>4, <3>1, <3>2 DEF dbclrbuf
    <2>5. ASSUME NEW n \in Capacities, dbsetopt(n)
          PROVE  IInv'
      BY <2>5, SetCapacityStep DEF dbsetopt
    <2>6. CASE dbclropt
      BY <2>6, SetCapacityStep DEF dbclropt
    <2>7. CASE dbresults
      BY <2>7, ResultsStep
    <2>8. CASE dbcanquery \/ dbreadtext \/ dbfirstrow \/ dblastrow
      BY <2>8, StreamStep
    <2> QED BY <2>1, <2>2, <2>3, <2>4, <2>5, <2>6, <2>7, <2>8 DEF Next
  <1> QED BY <1>1, <1>2, PTL DEF Spec

(* The indices of the ring never leave it (buffer_check(), buffering.h).   *)
THEOREM TypeCorrect == Spec => []TypeOK
  BY Inductive, PTL DEF IInv

(* For every capacity, the buffer holds the last rows received, in order   *)
(* and without a gap, and nothing else (buffering.h).                      *)
THEOREM Contiguous == Spec => []WindowIsContiguous
  BY Inductive, PTL DEF IInv

-----------------------------------------------------------------------------
(* The row that is saved must be the one the slot was filled with, which   *)
(* is what RowsKeepTheirValues says while rows can still be fetched; and a *)
(* saved copy must differ from NULL, which needs rows to have values.      *)
RowsHaveValues == \A i \in Filled : allocated => src[i] > 0
VInv == OlderRowsAreSaved /\ RowsKeepTheirValues /\ RowsHaveValues

(* The types a step about values needs.                                    *)
LEMMA ValueTypes ==
    ASSUME IInv
    PROVE  /\ SaveIdx \in Slots /\ Filled \subseteq Slots /\ head \in Slots
           /\ own \in [Slots -> Nat] /\ src \in [Slots -> Nat] /\ live \in Nat
           /\ capacity \in Nat /\ capacity > 0 /\ nread \in Nat /\ nrows \in Nat
  BY SaveIdxInRing, CapacitiesAssumption, MaxRowsAssumption DEF IInv, TypeOK, Filled

(* buffer_save_row() changes no row but the newest ...                     *)
LEMMA SavingSparesOlderRows ==
    ASSUME IInv, NEW i \in Slots, i # SaveIdx
    PROVE  SavedOwn[i] = own[i]
  BY ValueTypes DEF SavedOwn

(* ... and gives that one its own values.                                  *)
LEMMA SavingKeepsValues ==
    ASSUME IInv, VInv, allocated, capacity > 1, results = "rows", NEW i \in Filled
    PROVE  SavedOwn[i] = src[i]
  <1>1. CASE i = SaveIdx
    <2>1. rowno[i] # 0
      BY DEF IInv, WindowIsContiguous, TypeOK
    <2>2. CASE own[i] = 0
      BY <1>1, <2>1, <2>2, ValueTypes
         DEF SavedOwn, Saves, VInv, RowsKeepTheirValues, SlotValues
    <2>3. CASE own[i] # 0
      BY <1>1, <2>3 DEF SavedOwn, Saves, VInv, RowsKeepTheirValues, SlotValues
    <2>. QED  BY <2>2, <2>3
  <1>2. CASE i # SaveIdx
    BY <1>2, ValueTypes, SavingSparesOlderRows DEF VInv, OlderRowsAreSaved
  <1>. QED  BY <1>1, <1>2

(* Calls that leave the rows and their values where they are.              *)
LEMMA ValuesUntouched ==
    ASSUME VInv, UNCHANGED <<head, tail, capacity, allocated, own, src>>,
           results' = "rows" => results = "rows" /\ live' = live
    PROVE  VInv'
  BY DEF VInv, OlderRowsAreSaved, RowsKeepTheirValues, RowsHaveValues, Filled, Slots, SaveIdx,
         SlotValues

(* A ring that is freed, or has just been allocated, has no rows.          *)
LEMMA NoRowsNoValues ==
    ASSUME ~allocated' \/ tail' = capacity'
    PROVE  VInv'
  BY DEF VInv, OlderRowsAreSaved, RowsKeepTheirValues, RowsHaveValues, Filled

(* buffer_save_row(), and whatever is then done to current_row.            *)
LEMMA SavedRowsStay ==
    ASSUME IInv, VInv, own' = SavedOwn,
           UNCHANGED <<head, tail, capacity, allocated, src>>,
           results' = "rows" => results = "rows"
    PROVE  VInv'
  <1>1. Filled' = Filled /\ SaveIdx' = SaveIdx
    BY DEF Filled, Slots, SaveIdx
  <1>2. OlderRowsAreSaved'
    BY <1>1, ValueTypes, SavingSparesOlderRows DEF VInv, OlderRowsAreSaved
  <1>3. RowsKeepTheirValues'
    BY <1>1, ValueTypes, SavingKeepsValues
       DEF VInv, RowsKeepTheirValues, RowsHaveValues, SlotValues
  <1>4. RowsHaveValues'
    BY <1>1 DEF VInv, RowsHaveValues
  <1>. QED  BY <1>2, <1>3, <1>4 DEF VInv

(* The newest row is saved before the next one is added.                   *)
LEMMA FetchedRowsStay ==
    ASSUME IInv, VInv, allocated, ~buffer_is_full, results = "rows", FetchRow
    PROVE  VInv'
  <1>1. PICK c \in Nat : c = capacity /\ c > 0
    BY ValueTypes
  <1>2. /\ head \in 0 .. c - 1 /\ tail \in 0 .. c /\ (tail = c => head = 0)
        /\ head' = (IF head + 1 >= c THEN 0 ELSE head + 1) /\ capacity' = c
        /\ tail' = (IF tail = c THEN 0 ELSE tail) /\ allocated' = allocated
    BY <1>1 DEF IInv, TypeOK, WindowIsContiguous, Slots, FetchRow, buffer_idx_increment
  <1>3. c > 1 => head # tail
    BY <1>1, <1>2 DEF buffer_is_full, buffer_count
  <1>4. Filled' \subseteq Filled \cup {head} /\ SaveIdx' = head /\ Filled' \subseteq Slots
    BY <1>1, <1>2, <1>3 DEF Filled, Slots, SaveIdx
  <1>5. /\ own' = [SavedOwn EXCEPT ![head] = 0] /\ src' = [src EXCEPT ![head] = nread + 1]
        /\ live' = nread + 1 /\ SavedOwn \in [Slots -> Nat]
    BY SavedTypes DEF FetchRow, IInv
  <1>6. own'[head] = 0 /\ src'[head] = live' /\ live' > 0
    BY <1>5, ValueTypes
  <1>7. ASSUME NEW i \in Filled', i # head
        PROVE  c > 1 /\ own'[i] = src'[i] /\ own'[i] > 0
    <2>1. i \in Filled /\ i \in Slots /\ c > 1
      BY <1>1, <1>2, <1>4, <1>7 DEF Slots
    <2>2. SavedOwn[i] = src[i] /\ src[i] > 0
      BY <1>1, <2>1, SavingKeepsValues DEF VInv, RowsHaveValues
    <2>. QED  BY <1>5, <1>7, <2>1, <2>2, ValueTypes
  <1>8. OlderRowsAreSaved'
    BY <1>4, <1>7 DEF OlderRowsAreSaved
  <1>9. RowsKeepTheirValues'
    BY <1>6, <1>7 DEF RowsKeepTheirValues, SlotValues
  <1>10. RowsHaveValues'
    BY <1>6, <1>7 DEF RowsHaveValues
  <1>. QED  BY <1>8, <1>9, <1>10 DEF VInv

(* dbclrbuf() empties the slots it takes out of the window, and no other.  *)
LEMMA ClearedRowsLeave ==
    ASSUME IInv, VInv, allocated, NEW n \in Nat, dbclrbuf(n)
    PROVE  VInv'
  <1> DEFINE k == ClearCount(n)
  <1>1. /\ buffer_count \in 0 .. capacity /\ k \in Nat
        /\ k > 0 => k < buffer_count
    BY ClearCountBounds DEF IInv, WindowIsContiguous
  <1> HIDE DEF k
  <1>2. PICK c \in Nat : c = capacity /\ c > 0
    BY ValueTypes
  <1>3. buffer_delete_rows(k) /\ UNCHANGED <<wireVars, factive, results, dead, fault>>
    BY DEF dbclrbuf, k
  <1>4. /\ head' = head /\ capacity' = capacity /\ allocated' = allocated
        /\ tail' = IF tail + k >= capacity /\ k > 0
                   THEN (tail + k) - capacity ELSE tail + k
        /\ own' = [i \in Slots |-> IF i \in Deleted(k) THEN 0 ELSE own[i]]
        /\ src' = [i \in Slots |-> IF i \in Deleted(k) THEN 0 ELSE src[i]]
    BY <1>1, <1>2, <1>3 DEF buffer_delete_rows, IInv, TypeOK
  <1>5. head \in Slots /\ tail \in 0 .. capacity /\ (tail = capacity => head = 0)
    BY DEF IInv, TypeOK, WindowIsContiguous
  <1>6. Filled' \subseteq Filled \ Deleted(k)
    BY <1>1, <1>2, <1>4, <1>5 DEF Filled, Deleted, Slots, buffer_count
  <1>7. \A i \in Filled' : i \in Filled /\ own'[i] = own[i] /\ src'[i] = src[i]
    BY <1>4, <1>6, ValueTypes
  <1>8. SaveIdx' = SaveIdx /\ live' = live /\ results' = results
    BY <1>3, <1>4 DEF SaveIdx, wireVars
  <1>. QED
    BY <1>4, <1>7, <1>8
       DEF VInv, OlderRowsAreSaved, RowsKeepTheirValues, RowsHaveValues, SlotValues

(* Every outcome of dbnextrow().                                           *)
LEMMA NextrowKeepsValues ==
    ASSUME IInv, VInv, dbnextrow
    PROVE  VInv'
  <1>1. CASE UNCHANGED <<ringVars, wireVars, results>>
    BY <1>1, ValuesUntouched DEF ringVars, wireVars
  <1>2. CASE \E why \in {"assert", "null"} : Stop(why)
    BY <1>2, ValuesUntouched DEF Stop, ringVars, wireVars
  <1>3. CASE Deliver("dbnextrow", current)
    BY <1>3, ValuesUntouched DEF Deliver, wireVars
  <1>4. CASE allocated /\ ~buffer_is_full /\ results = "rows" /\ FetchRow
    BY <1>4, FetchedRowsStay
  <1>5. CASE SaveOnly /\ results' \in {results, "next"}
    BY <1>5, SavedRowsStay DEF SaveOnly
  <1>. QED  BY <1>1, <1>2, <1>3, <1>4, <1>5 DEF dbnextrow

(* Every other call that works on the rows it finds.                       *)
LEMMA OtherCallsKeepValues ==
    ASSUME IInv, VInv, NEW row \in Nat,
           \/ dbgetrow(row) \/ dbsetrow(row)
           \/ dbcanquery \/ dbreadtext \/ dbfirstrow \/ dblastrow
    PROVE  VInv'
  <1>1. CASE UNCHANGED <<ringVars, wireVars, results>>
    BY <1>1, ValuesUntouched DEF ringVars, wireVars
  <1>2. CASE Stop("null")
    BY <1>2, ValuesUntouched DEF Stop, ringVars, wireVars
  <1>3. CASE UNCHANGED <<head, tail, capacity, allocated, own, src, wireVars, results>>
    BY <1>3, ValuesUntouched DEF wireVars
  <1>4. CASE dbcanquery
    BY <1>4, ValuesUntouched DEF dbcanquery, ringVars
  <1>5. CASE own' = SavedOwn /\ UNCHANGED <<head, tail, capacity, allocated, src, results>>
    BY <1>5, SavedRowsStay
  <1>6. CASE dbgetrow(row) \/ dbsetrow(row)
    BY <1>1, <1>2, <1>3, <1>6 DEF dbgetrow, dbsetrow, NotFound, Deliver
  <1>7. CASE dbreadtext \/ dbfirstrow \/ dblastrow
    BY <1>1, <1>2, <1>5, <1>7 DEF dbreadtext, dbfirstrow, dblastrow
  <1>. QED  BY <1>4, <1>6, <1>7

(* Every call of db-lib keeps the values of the buffered rows.             *)
THEOREM ValuesInductive == Spec => []VInv
  <1>1. Init => VInv
    BY DEF Init, VInv, OlderRowsAreSaved, RowsKeepTheirValues, RowsHaveValues
  <1>2. IInv /\ VInv /\ [Next]_vars => VInv'
    <2>. SUFFICES ASSUME IInv, VInv, [Next]_vars
                  PROVE  VInv'
      OBVIOUS
    <2>1. CASE UNCHANGED vars
      BY <2>1, ValuesUntouched DEF vars
    <2>2. CASE dbnextrow
      BY <2>2, NextrowKeepsValues
    <2>3. ASSUME NEW row \in 1 .. MaxRows, dbgetrow(row) \/ dbsetrow(row)
          PROVE  VInv'
      BY <2>3, OtherCallsKeepValues, MaxRowsAssumption
    <2>4. ASSUME NEW n \in 1 .. MaxRows, dbclrbuf(n)
          PROVE  VInv'
      <3>1. CASE Stop("null")
        BY <3>1, ValuesUntouched DEF Stop, ringVars, wireVars
      <3>2. CASE allocated
        BY <2>4, <3>2, ClearedRowsLeave, MaxRowsAssumption
      <3>. QED  BY <2>4, <3>1, <3>2 DEF dbclrbuf
    <2>5. CASE (\E n \in Capacities : dbsetopt(n)) \/ dbclropt
      BY <2>5, NoRowsNoValues DEF dbsetopt, dbclropt, buffer_set_capacity
    <2>6. CASE dbresults
      <3>1. CASE buffer_alloc
        BY <3>1, NoRowsNoValues DEF buffer_alloc
      <3>2. CASE UNCHANGED <<ringVars, wireVars, results>>
        BY <3>2, ValuesUntouched DEF ringVars, wireVars
      <3>. QED  BY <2>6, <3>1, <3>2 DEF dbresults
    <2>7. CASE dbcanquery \/ dbreadtext \/ dbfirstrow \/ dblastrow
      BY <2>7, OtherCallsKeepValues, 0 \in Nat
    <2>. QED  BY <2>1, <2>2, <2>3, <2>4, <2>5, <2>6, <2>7 DEF Next
  <1>. QED  BY <1>1, <1>2, Inductive, PTL DEF Spec

(* However dbnextrow(), dbreadtext(), dbsetrow() and dbclrbuf() are mixed, *)
(* a buffered row keeps the values it had when it came off the wire.       *)
THEOREM ValuesAreKept == Spec => []RowsKeepTheirValues
  BY ValuesInductive, PTL DEF VInv

(* Every row but the newest has its own copy of its values.                *)
THEOREM OlderSaved == Spec => []OlderRowsAreSaved
  BY ValuesInductive, PTL DEF VInv

----------------------------------------------------------------------------
(* The ring implements the window of RowWindow.                            *)

(* The refinement mapping: the window the ring stands for, and the row     *)
(* that the last call delivered.                                           *)
Lo == IF tail = capacity \/ ~allocated THEN received + 1 ELSE rowno[tail]
Out == IF Delivers(ret) THEN ret.row ELSE 0

(* A ring that is not allocated (after dbsetopt()) has received nothing,   *)
(* and a slot of it that is looked at is empty.                            *)
FreshRing == ~allocated => received = 0 /\ \A i \in Slots : rowno[i] = 0

(* The types the arithmetic needs.                                         *)
LEMMA RingTypes ==
    ASSUME IInv
    PROVE  /\ capacity \in Nat /\ capacity > 0 /\ head \in 0 .. capacity - 1
           /\ tail \in 0 .. capacity /\ received \in Nat
           /\ rowno \in [Slots -> Nat] /\ capacity \in Capacities \cup {1}
  BY CapacitiesAssumption DEF IInv, TypeOK, Slots

(* The lower end of a window that has rows.                                *)
LEMMA LowerEnd ==
    ASSUME IInv, allocated, tail # capacity
    PROVE  /\ tail \in Filled
           /\ Lo = IF tail < head THEN (received + 1 + tail) - head
                   ELSE (received + 1 + tail) - (head + capacity)
           /\ Lo > 0 /\ Lo <= received
  <1>1. tail \in Filled /\ tail \in Slots
    BY RingTypes DEF Filled, Slots
  <1>2. rowno[tail] > 0 /\ rowno[tail] = IF tail < head THEN (received + 1 + tail) - head
                                        ELSE (received + 1 + tail) - (head + capacity)
    BY <1>1 DEF IInv, WindowIsContiguous
  <1>. QED  BY <1>1, <1>2, RingTypes DEF Lo

(* Every slot is empty or holds a row of the window.                       *)
LEMMA SlotsAreInWindow ==
    ASSUME IInv, FreshRing, NEW i \in Slots
    PROVE  rowno[i] = 0 \/ rowno[i] \in Lo .. received
  <1>1. CASE ~allocated
    BY <1>1 DEF FreshRing
  <1>2. CASE allocated /\ i \notin Filled
    BY <1>2 DEF IInv, WindowIsContiguous
  <1>3. CASE allocated /\ i \in Filled
    <2>1. tail # capacity
      BY <1>3 DEF Filled
    <2>2. rowno[i] = IF i < head THEN (received + 1 + i) - head
                     ELSE (received + 1 + i) - (head + capacity)
      BY <1>3 DEF IInv, WindowIsContiguous
    <2>3. PICK c \in Nat : c = capacity /\ c > 0
      BY RingTypes
    <2>4. /\ i \in 0 .. c - 1 /\ head \in 0 .. c - 1 /\ tail \in 0 .. c - 1 /\ received \in Nat
          /\ IF tail < head THEN tail <= i /\ i < head ELSE tail <= i \/ i < head
      BY <1>3, <2>1, <2>3, RingTypes DEF Filled, Slots
    <2>5. Lo = IF tail < head THEN (received + 1 + tail) - head
               ELSE (received + 1 + tail) - (head + capacity)
      BY <1>3, <2>1, LowerEnd
    <2>. QED  BY <2>2, <2>3, <2>4, <2>5
  <1>. QED  BY <1>1, <1>2, <1>3

(* FreshRing is an invariant: only dbsetopt() and dbclropt() free a ring,  *)
(* and without one no row is added.                                        *)
LEMMA FreshStep ==
    ASSUME IInv, FreshRing, [Next]_vars
    PROVE  FreshRing'
  <1>1. CASE UNCHANGED <<capacity, allocated, received, rowno>>
    BY <1>1 DEF FreshRing, Slots
  <1>2. CASE allocated'
    BY <1>2 DEF FreshRing
  <1>3. CASE \E n \in Capacities \cup {1} : buffer_set_capacity(n)
    BY <1>3 DEF FreshRing, buffer_set_capacity, EmptySlots, Slots
  <1>4. CASE dbnextrow
    BY <1>1, <1>2, <1>4 DEF dbnextrow, Stop, Deliver, FetchRow, SaveOnly, ringVars
  <1>5. CASE \E row \in 1 .. MaxRows : dbgetrow(row) \/ dbsetrow(row)
    BY <1>1, <1>5 DEF dbgetrow, dbsetrow, NotFound, Stop, Deliver, ringVars
  <1>6. CASE \E n \in 1 .. MaxRows : dbclrbuf(n)
    <2>1. CASE UNCHANGED ringVars
      BY <1>1, <2>1 DEF ringVars
    <2>2. CASE allocated /\ allocated' = allocated
      BY <1>2, <2>2
    <2>. QED  BY <1>6, <2>1, <2>2 DEF dbclrbuf, buffer_delete_rows, Stop
  <1>7. CASE (\E n \in Capacities : dbsetopt(n)) \/ dbclropt
    BY <1>3, <1>7 DEF dbsetopt, dbclropt
  <1>8. CASE dbresults
    BY <1>1, <1>2, <1>8 DEF dbresults, buffer_alloc, ringVars
  <1>9. CASE dbcanquery \/ dbreadtext \/ dbfirstrow \/ dblastrow
    BY <1>1, <1>9 DEF dbcanquery, dbreadtext, dbfirstrow, dblastrow, Stop, ringVars
  <1>. QED
    BY <1>1, <1>4, <1>5, <1>6, <1>7, <1>8, <1>9 DEF Next, vars

----------------------------------------------------------------------------
(* The steps of the window.                                                *)

(* Calls that leave the ring alone and deliver nothing.                    *)
LEMMA NothingStep ==
    ASSUME UNCHANGED <<tail, capacity, received, allocated, rowno>>, Out' = 0
    PROVE  Window!Nothing
  BY DEF Window!Nothing, Lo, Out

(* A call that changes nothing of the ring and delivers what a slot holds. *)
LEMMA ReadStep ==
    ASSUME IInv, FreshRing, NEW call \in {"dbnextrow", "dbgetrow"}, NEW i \in Slots,
           Deliver(call, i)
    PROVE  Window!Read \/ Window!Nothing
  <1>1. Out' = rowno[i]
    BY DEF Deliver, Out, Delivers, Outcome
  <1>2. Lo' = Lo /\ received' = received /\ capacity' = capacity
    BY DEF Deliver, Lo
  <1>3. CASE rowno[i] = 0
    BY <1>1, <1>2, <1>3 DEF Window!Nothing, Lo, Out
  <1>4. CASE rowno[i] \in Lo .. received
    BY <1>1, <1>2, <1>4 DEF Window!Read, Lo, Out
  <1>. QED  BY <1>3, <1>4, SlotsAreInWindow

(* A row off the wire extends the window, or replaces the only row.        *)
LEMMA FetchIsFetch ==
    ASSUME IInv, allocated, ~buffer_is_full, FetchRow
    PROVE  Window!Fetch
  <1>1. PICK c \in Nat : c = capacity /\ c > 0
    BY RingTypes
  <1>2. /\ head \in 0 .. c - 1 /\ tail \in 0 .. c /\ (tail = c => head = 0)
        /\ received \in Nat /\ rowno \in [0 .. c - 1 -> Nat]
    BY <1>1, RingTypes DEF IInv, WindowIsContiguous, Slots
  <1>3. /\ received' = received + 1 /\ rowno' = [rowno EXCEPT ![head] = received + 1]
        /\ tail' = (IF tail = c THEN 0 ELSE tail) /\ allocated' /\ capacity' = c
    BY <1>1 DEF FetchRow
  <1>4. Out' = received'
    BY <1>3 DEF FetchRow, Out, Delivers, Outcome
  <1>5. CASE c = 1
    <2>1. head = 0 /\ tail' = 0 /\ tail' # c
      BY <1>2, <1>3, <1>5
    <2>2. Lo' = received'
      BY <1>2, <1>3, <2>1 DEF Lo
    <2>. QED  BY <1>1, <1>3, <1>4, <1>5, <2>2 DEF Window!Fetch, Lo, Out
  <1>6. CASE c > 1
    <2>1. head # tail
      BY <1>1, <1>2, <1>6 DEF buffer_is_full, buffer_count
    <2>2. CASE tail = c
      <3>1. Lo = received + 1 /\ Lo' = received + 1
        BY <1>1, <1>2, <1>3, <1>6, <2>2 DEF Lo
      <3>. QED  BY <1>1, <1>2, <1>3, <1>4, <1>6, <3>1 DEF Window!Fetch, Lo, Out
    <2>3. CASE tail # c
      <3>1. Lo' = Lo
        BY <1>1, <1>2, <1>3, <2>1, <2>3 DEF Lo
      <3>2. received + 1 < Lo + c
        BY <1>1, <1>2, <2>1, <2>3, LowerEnd
      <3>. QED  BY <1>1, <1>2, <1>3, <1>4, <1>6, <3>1, <3>2 DEF Window!Fetch, Lo, Out
    <2>. QED  BY <2>2, <2>3
  <1>. QED  BY <1>1, <1>5, <1>6

(* dbclrbuf() cuts the window at its lower end and leaves a row.           *)
LEMMA ClearForgets ==
    ASSUME IInv, IInv', allocated, NEW n \in Nat, dbclrbuf(n)
    PROVE  Window!Forget \/ Window!Nothing
  <1> DEFINE k == ClearCount(n)
  <1>1. /\ buffer_count \in 0 .. capacity /\ k \in Nat
        /\ k > 0 => k < buffer_count
    BY ClearCountBounds DEF IInv, WindowIsContiguous
  <1>2. PICK c \in Nat : c = capacity /\ c > 0
    BY RingTypes
  <1>3. Out' = 0
    BY DEF dbclrbuf, Stop, Out, Delivers, Returned, Outcome
  <1>4. buffer_delete_rows(k)
    BY DEF dbclrbuf
  <1> HIDE DEF k
  <1>5. /\ head' = head /\ capacity' = capacity /\ received' = received /\ allocated'
        /\ tail' = IF tail + k >= capacity /\ k > 0
                   THEN (tail + k) - capacity ELSE tail + k
        /\ rowno' = [i \in Slots |-> IF i \in Deleted(k) THEN 0 ELSE rowno[i]]
    BY <1>1, <1>2, <1>4 DEF buffer_delete_rows, IInv, TypeOK
  <1>6. /\ head \in 0 .. c - 1 /\ tail \in 0 .. c /\ (tail = c => head = 0)
        /\ received \in Nat
    BY <1>2, RingTypes DEF IInv, WindowIsContiguous
  <1>7. CASE tail = c
    <2>1. k = 0 /\ tail' = tail
      BY <1>1, <1>2, <1>5, <1>6, <1>7 DEF buffer_count
    <2>2. Lo' = Lo
      BY <1>2, <1>5, <1>7, <2>1 DEF Lo
    <2>. QED  BY <1>3, <1>5, <2>2 DEF Window!Nothing, Lo, Out
  <1>8. CASE tail # c
    <2>1. tail' # c
      BY <1>1, <1>2, <1>5, <1>6, <1>8 DEF buffer_count
    <2>2. Lo' = IF tail' < head' THEN (received' + 1 + tail') - head'
                ELSE (received' + 1 + tail') - (head' + capacity')
      <3>1. tail' \in Filled' /\ tail' \in Slots'
        BY <1>1, <1>2, <1>5, <1>6, <1>8, <2>1 DEF Filled, Slots, buffer_count
      <3>2. rowno'[tail'] = IF tail' < head' THEN (received' + 1 + tail') - head'
                            ELSE (received' + 1 + tail') - (head' + capacity')
        BY <1>5, <3>1 DEF IInv, WindowIsContiguous
      <3>. QED  BY <1>2, <1>5, <2>1, <3>2 DEF Lo
    <2>3. Lo' \in Lo .. received
      BY <1>1, <1>2, <1>5, <1>6, <1>8, <2>1, <2>2, LowerEnd DEF buffer_count
    <2>. QED  BY <1>3, <1>5, <2>3 DEF Window!Forget, Lo, Out
  <1>. QED  BY <1>7, <1>8

(* A new capacity, and a new result set, start an empty window.            *)
LEMMA RestartStep ==
    ASSUME NEW n \in Capacities \cup {1},
           buffer_set_capacity(n) \/ (buffer_alloc /\ capacity = n), Out' = 0
    PROVE  Window!Restart
  <1>1. Lo' = 1 /\ received' = 0 /\ capacity' = n
    BY DEF buffer_set_capacity, buffer_alloc, Lo
  <1>. QED  BY <1>1 DEF Window!Restart, Lo, Out

(* Every outcome of dbnextrow() is a step of the window.                   *)
LEMMA NextrowRefines ==
    ASSUME IInv, FreshRing, dbnextrow
    PROVE  Window!Next \/ UNCHANGED Window!vars
  <1>1. CASE /\ ret' \in {Returned("dbnextrow", code) :
                             code \in {"FAIL", "NO_MORE_ROWS", "BUF_FULL"}}
             /\ UNCHANGED <<tail, capacity, received, allocated, rowno>>
    BY <1>1, NothingStep DEF Returned, Outcome, Out, Delivers, Window!Next
  <1>2. CASE \E why \in {"assert", "null"} : Stop(why)
    BY <1>2 DEF Stop, ringVars, Window!vars, Lo, Out
  <1>3. CASE ~CurrentIsNew /\ Deliver("dbnextrow", current)
    <2>1. current \in Slots
      BY <1>3, RingTypes DEF CurrentIsNew, Slots, IInv, TypeOK
    <2>. QED  BY <1>3, <2>1, ReadStep DEF Window!Next
  <1>4. CASE allocated /\ ~buffer_is_full /\ FetchRow
    BY <1>4, FetchIsFetch DEF Window!Next
  <1>. QED  BY <1>1, <1>2, <1>3, <1>4 DEF dbnextrow, SaveOnly, ringVars

(* Every other call that works on the rows it finds.                       *)
LEMMA OtherCallsRefine ==
    ASSUME IInv, FreshRing, NEW row \in Nat,
           \/ dbgetrow(row) \/ dbsetrow(row)
           \/ dbcanquery \/ dbreadtext \/ dbfirstrow \/ dblastrow
    PROVE  Window!Next \/ UNCHANGED Window!vars
  <1>1. CASE /\ ~Delivers(ret')
             /\ UNCHANGED <<tail, capacity, received, allocated, rowno>>
    BY <1>1, NothingStep DEF Out, Delivers, Window!Next
  <1>2. CASE Stop("null")
    BY <1>2 DEF Stop, ringVars, Window!vars, Lo, Out
  <1>3. CASE dbgetrow(row)
    BY <1>1, <1>2, <1>3, ReadStep
       DEF dbgetrow, NotFound, Returned, Outcome, Delivers, ringVars, buffer_row2idx, Filled,
           Window!Next
  <1>4. CASE dbsetrow(row)
    BY <1>1, <1>2, <1>4 DEF dbsetrow, NotFound, Returned, Outcome, Delivers, ringVars
  <1>5. CASE dbcanquery \/ dbreadtext \/ dbfirstrow \/ dblastrow
    BY <1>1, <1>2, <1>5
       DEF dbcanquery, dbreadtext, dbfirstrow, dblastrow, Returned, Outcome, Delivers, ringVars
  <1>. QED  BY <1>3, <1>4, <1>5

(* Every call of db-lib on the ring is a step of the window or leaves it   *)
(* as it is: the ring promises what RowWindow says.                        *)
THEOREM Implementation == Spec => ImplementsWindow
  <1>1. Init => Window!Init
    BY DEF Init, Window!Init, Lo, Out, Delivers, Returned, Outcome
  <1>2. Init => FreshRing
    BY DEF Init, FreshRing, EmptySlots, Slots
  <1>3. IInv /\ FreshRing /\ [Next]_vars => FreshRing'
    BY FreshStep
  <1>4. IInv /\ IInv' /\ FreshRing /\ [Next]_vars => [Window!Next]_(Window!vars)
    <2>. SUFFICES ASSUME IInv, IInv', FreshRing, [Next]_vars
                  PROVE  Window!Next \/ UNCHANGED Window!vars
      OBVIOUS
    <2>1. CASE UNCHANGED vars
      BY <2>1 DEF vars, Window!vars, Lo, Out, Delivers
    <2>2. CASE dbnextrow
      BY <2>2, NextrowRefines
    <2>3. ASSUME NEW row \in 1 .. MaxRows, dbgetrow(row) \/ dbsetrow(row)
          PROVE  Window!Next \/ UNCHANGED Window!vars
      BY <2>3, OtherCallsRefine, MaxRowsAssumption
    <2>4. ASSUME NEW n \in 1 .. MaxRows, dbclrbuf(n)
          PROVE  Window!Next \/ UNCHANGED Window!vars
      <3>1. CASE Stop("null")
        BY <3>1 DEF Stop, ringVars, Window!vars, Lo, Out
      <3>2. CASE allocated
        BY <2>4, <3>2, ClearForgets, MaxRowsAssumption DEF Window!Next
      <3>. QED  BY <2>4, <3>1, <3>2 DEF dbclrbuf
    <2>5. CASE (\E n \in Capacities : dbsetopt(n)) \/ dbclropt
      BY <2>5, RestartStep
         DEF dbsetopt, dbclropt, Out, Delivers, Returned, Outcome, Window!Next
    <2>6. CASE dbresults
      <3>1. CASE buffer_alloc /\ ~Delivers(ret')
        BY <3>1, RestartStep, RingTypes DEF Out, Delivers, Window!Next
      <3>2. CASE ~Delivers(ret') /\ UNCHANGED ringVars
        BY <3>2, NothingStep DEF ringVars, Out, Delivers, Window!Next
      <3>. QED  BY <2>6, <3>1, <3>2 DEF dbresults, Delivers, Returned, Outcome
    <2>7. CASE dbcanquery \/ dbreadtext \/ dbfirstrow \/ dblastrow
      BY <2>7, OtherCallsRefine, 0 \in Nat
    <2>. QED  BY <2>1, <2>2, <2>3, <2>4, <2>5, <2>6, <2>7 DEF Next
  <1>. QED
    BY <1>1, <1>2, <1>3, <1>4, Inductive, PTL DEF Spec, ImplementsWindow, Window!Spec

----------------------------------------------------------------------------
(* What dbnextrow() delivers after a row that it or dbgetrow() delivered.  *)

(* current is then the slot after the one that holds the row, and a ring   *)
(* that is not allocated is in its first position.                         *)
AfterDelivered ==
    Delivers(ret) /\ capacity > 1 =>
        allocated /\ \E p \in Filled : rowno[p] = ret.row /\ current = buffer_idx_increment(p)
FInv == AfterDelivered /\ (~allocated => head = 0 /\ tail = 0 /\ current = 0)

(* The asserts of buffer_current_index() let it read only a slot that      *)
(* holds a row.                                                            *)
LEMMA CurrentIsFilled ==
    ASSUME IInv, ~allocated => head = 0 /\ tail = 0 /\ current = 0, ~CurrentIsNew, CurrentAsserts
    PROVE  allocated /\ current \in Filled
  <1>1. PICK c \in Nat : c = capacity /\ c > 1
    BY RingTypes DEF CurrentIsNew
  <1>2. /\ head \in 0 .. c - 1 /\ tail \in 0 .. c /\ current \in 0 .. c
        /\ current # head /\ current # c
    BY <1>1, RingTypes DEF CurrentIsNew, IInv, TypeOK
  <1>3. allocated
    BY <1>2
  <1>4. tail = c => head = 0
    BY <1>1, <1>3 DEF IInv, WindowIsContiguous
  <1>5. current \in Slots
    BY <1>1, <1>2 DEF Slots
  <1>6. tail # c
    BY <1>1, <1>2, <1>4 DEF CurrentAsserts
  <1>7. IF tail < head THEN tail <= current /\ current < head ELSE tail <= current \/ current < head
    BY <1>1, <1>2 DEF CurrentAsserts
  <1>. QED  BY <1>1, <1>3, <1>5, <1>6, <1>7 DEF Filled

(* Delivering a row of the ring leaves current after it.                   *)
LEMMA DeliverFollows ==
    ASSUME IInv, allocated, NEW i \in Filled,
           NEW call \in {"dbnextrow", "dbgetrow"}, Deliver(call, i)
    PROVE  FInv'
  <1>1. UNCHANGED <<head, tail, capacity, received, allocated, rowno>> /\ i \in Filled'
    BY DEF Deliver, Filled, Slots
  <1>2. ret'.row = rowno[i] /\ current' = buffer_idx_increment(i)
    BY DEF Deliver, Outcome
  <1>3. buffer_idx_increment(i)' = buffer_idx_increment(i)
    BY <1>1 DEF buffer_idx_increment
  <1>. QED  BY <1>1, <1>2, <1>3 DEF FInv, AfterDelivered

(* So does a row off the wire.                                             *)
LEMMA FetchFollows ==
    ASSUME IInv, allocated, FetchRow
    PROVE  FInv'
  <1>1. PICK c \in Nat : c = capacity /\ c > 0
    BY RingTypes
  <1>2. /\ head \in 0 .. c - 1 /\ tail \in 0 .. c /\ (tail = c => head = 0)
        /\ received \in Nat /\ rowno \in [0 .. c - 1 -> Nat]
    BY <1>1, RingTypes DEF IInv, WindowIsContiguous, Slots
  <1>3. /\ received' = received + 1 /\ rowno' = [rowno EXCEPT ![head] = received + 1]
        /\ tail' = (IF tail = c THEN 0 ELSE tail) /\ allocated' /\ capacity' = c
        /\ head' = buffer_idx_increment(head) /\ current' = buffer_idx_increment(head)
        /\ ret'.row = received + 1
    BY <1>1 DEF FetchRow, Outcome
  <1>4. rowno'[head] = received + 1 /\ head \in Slots'
    BY <1>2, <1>3 DEF Slots
  <1>5. head' = IF head + 1 >= c THEN 0 ELSE head + 1
    BY <1>1, <1>3 DEF buffer_idx_increment
  <1>6. PICK h \in 0 .. c - 1 : h = head
    BY <1>2
  <1>7. buffer_idx_increment(h)' = buffer_idx_increment(head)
    BY <1>1, <1>3, <1>6 DEF buffer_idx_increment
  <1>8. CASE c > 1
    <2>1. tail' # c /\ IF tail' < head' THEN tail' <= h /\ h < head' ELSE tail' <= h \/ h < head'
      BY <1>2, <1>3, <1>5, <1>6, <1>8
    <2>2. h \in Filled'
      BY <1>3, <1>4, <1>6, <2>1 DEF Filled
    <2>. QED  BY <1>3, <1>4, <1>6, <1>7, <2>2 DEF FInv, AfterDelivered
  <1>9. CASE c = 1
    BY <1>3, <1>9 DEF FInv, AfterDelivered
  <1>. QED  BY <1>1, <1>8, <1>9

(* After a delivered row the ring holds rows and the asserts of            *)
(* buffer_current_index() hold.                                            *)
LEMMA DeliveredIsSound ==
    ASSUME IInv, FInv, Delivers(ret), capacity > 1
    PROVE  allocated /\ tail # capacity /\ (CurrentIsNew \/ CurrentAsserts)
  <1>1. PICK c \in Nat : c = capacity /\ c > 1
    BY RingTypes
  <1>2. PICK p \in Filled : current = buffer_idx_increment(p)
    BY DEF FInv, AfterDelivered
  <1>3. /\ head \in 0 .. c - 1 /\ tail \in 0 .. c /\ p \in 0 .. c - 1 /\ tail # c
        /\ IF tail < head THEN tail <= p /\ p < head ELSE tail <= p \/ p < head
    BY <1>1, RingTypes DEF Filled, Slots
  <1>4. current = IF p + 1 >= c THEN 0 ELSE p + 1
    BY <1>1, <1>2 DEF buffer_idx_increment
  <1>5. CurrentIsNew \/ CurrentAsserts
    BY <1>1, <1>3, <1>4 DEF CurrentIsNew, CurrentAsserts
  <1>. QED  BY <1>1, <1>3, <1>5 DEF FInv, AfterDelivered

(* What a step does, as far as the rows delivered are concerned.           *)
Silent ==
    /\ ~Delivers(ret')
    /\ ~allocated' => \/ head' = 0 /\ tail' = 0 /\ current' = 0
                      \/ UNCHANGED <<head, tail, current, allocated>>
Stopped ==
    /\ ~(Delivers(ret) /\ capacity > 1)
    /\ UNCHANGED <<head, tail, current, capacity, received, allocated, rowno, ret>>
Again == ~CurrentIsNew /\ CurrentAsserts /\ Deliver("dbnextrow", current)
Fresh == CurrentIsNew /\ allocated /\ FetchRow
Chosen == allocated /\ \E i \in Filled : Deliver("dbgetrow", i)

(* dbnextrow() delivers a row again, fetches one, or delivers nothing.     *)
LEMMA NextrowKinds ==
    ASSUME IInv, FInv, dbnextrow
    PROVE  Silent \/ Stopped \/ Again \/ Fresh
  <1>1. CASE /\ ret' \in {Returned("dbnextrow", code) :
                             code \in {"FAIL", "NO_MORE_ROWS", "BUF_FULL"}}
             /\ UNCHANGED <<head, tail, current, allocated>>
    BY <1>1 DEF Silent, Delivers, Returned, Outcome
  <1>2. CASE ~CurrentIsNew /\ ~CurrentAsserts /\ Stop("assert")
    BY <1>2, DeliveredIsSound DEF Stopped, Stop, ringVars
  <1>3. CASE ~allocated /\ Stop("null")
    BY <1>3, DeliveredIsSound DEF Stopped, Stop, ringVars
  <1>. QED  BY <1>1, <1>2, <1>3 DEF dbnextrow, SaveOnly, ringVars, Again, Fresh

(* The calls that look at the ring without reading the wire.               *)
LEMMA LookupKinds ==
    ASSUME IInv, FInv, NEW row \in Nat, dbgetrow(row) \/ dbsetrow(row)
    PROVE  Silent \/ Stopped \/ Chosen
  <1>1. ASSUME NEW call \in {"dbgetrow", "dbsetrow"}, NotFound(call, row)
        PROVE  Silent \/ Stopped
    <2>1. CASE LookupFaults /\ Stop("null")
      BY <2>1, DeliveredIsSound DEF Stopped, Stop, ringVars, LookupFaults
    <2>2. CASE ret' = Returned(call, IF dead THEN "FAIL" ELSE "NO_MORE_ROWS") /\ UNCHANGED ringVars
      BY <2>2 DEF Silent, Delivers, Returned, Outcome, ringVars
    <2>. QED  BY <1>1, <2>1, <2>2 DEF NotFound
  <1>2. ASSUME ~LookupFaults, NEW i \in buffer_row2idx(row)
        PROVE  allocated /\ i \in Filled
    BY <1>2 DEF LookupFaults, buffer_row2idx, Filled
  <1>3. CASE dbgetrow(row)
    BY <1>1, <1>2, <1>3 DEF dbgetrow, Chosen
  <1>4. CASE dbsetrow(row)
    <2>1. CASE NotFound("dbsetrow", row)
      BY <1>1, <2>1
    <2>2. CASE /\ ~LookupFaults
               /\ \E i \in buffer_row2idx(row) : ret' = Outcome("dbsetrow", "REG_ROW", rowno[i])
      BY <1>2, <1>4, <2>2
         DEF dbsetrow, NotFound, Silent, Delivers, Outcome, Returned, Stop, ringVars
    <2>. QED  BY <1>4, <2>1, <2>2 DEF dbsetrow
  <1>. QED  BY <1>3, <1>4

(* Every other call delivers nothing, or stops the process.                *)
LEMMA OtherKinds ==
    ASSUME IInv, FInv,
           \/ \E n \in 1 .. MaxRows : dbclrbuf(n)
           \/ \E n \in Capacities : dbsetopt(n)
           \/ dbclropt \/ dbresults \/ dbcanquery \/ dbreadtext \/ dbfirstrow \/ dblastrow
    PROVE  Silent \/ Stopped
  <1>1. CASE Stop("null") /\ (~allocated \/ tail = capacity)
    BY <1>1, DeliveredIsSound DEF Stopped, Stop, ringVars
  <1>2. CASE \E n \in 1 .. MaxRows : dbclrbuf(n)
    <2>1. PICK n \in 1 .. MaxRows : dbclrbuf(n)
      BY <1>2
    <2>2. CASE allocated
      <3>1. allocated' /\ ret'.call = "dbclrbuf"
        BY <2>1, <2>2 DEF dbclrbuf, buffer_delete_rows, Returned, Outcome, Stop, ringVars
      <3>. QED  BY <3>1 DEF Silent, Delivers
    <2>. QED  BY <1>1, <2>1, <2>2 DEF dbclrbuf
  <1>3. CASE (\E n \in Capacities : dbsetopt(n)) \/ dbclropt \/ dbresults
    BY <1>3 DEF dbsetopt, dbclropt, dbresults, buffer_set_capacity, buffer_alloc, ringVars,
                Silent, Delivers, Returned, Outcome
  <1>4. CASE dbcanquery \/ dbreadtext
    BY <1>1, <1>4 DEF dbcanquery, dbreadtext, ringVars, Silent, Delivers, Returned, Outcome
  <1>5. CASE dbfirstrow \/ dblastrow
    BY <1>1, <1>5 DEF dbfirstrow, dblastrow, ringVars, Silent, Delivers, Outcome
  <1>. QED  BY <1>2, <1>3, <1>4, <1>5

(* The kinds of step are all there are.                                    *)
LEMMA StepKinds ==
    ASSUME IInv, FInv, Next
    PROVE  Silent \/ Stopped \/ Again \/ Fresh \/ Chosen
  <1>1. CASE dbnextrow
    BY <1>1, NextrowKinds
  <1>2. ASSUME NEW row \in 1 .. MaxRows, dbgetrow(row) \/ dbsetrow(row)
        PROVE  Silent \/ Stopped \/ Chosen
    BY <1>2, LookupKinds, MaxRowsAssumption
  <1>. QED  BY <1>1, <1>2, OtherKinds DEF Next

(* Each keeps current after the row delivered last.                        *)
LEMMA FollowStep ==
    ASSUME IInv, FInv, [Next]_vars
    PROVE  FInv'
  <1>1. CASE UNCHANGED <<head, tail, current, capacity, received, allocated, rowno, ret>>
    BY <1>1 DEF FInv, AfterDelivered, Filled, Slots, buffer_idx_increment
  <1>2. CASE Silent
    BY <1>2 DEF Silent, FInv, AfterDelivered
  <1>3. CASE Again
    BY <1>3, CurrentIsFilled, DeliverFollows DEF Again, FInv
  <1>4. CASE Fresh
    BY <1>4, FetchFollows DEF Fresh
  <1>5. CASE Chosen
    BY <1>5, DeliverFollows DEF Chosen
  <1>. QED  BY <1>1, <1>2, <1>3, <1>4, <1>5, StepKinds DEF Stopped, vars

(* The slot after a filled one holds the next row, unless it is head: then *)
(* the row is the last one received.                                       *)
LEMMA SuccessorInRing ==
    ASSUME IInv, allocated, capacity > 1, NEW p \in Filled
    PROVE  LET q == buffer_idx_increment(p)
           IN  /\ q = head \/ q = capacity => rowno[p] = received
               /\ q # head /\ q \in Filled => rowno[q] = rowno[p] + 1
  <1> DEFINE q == buffer_idx_increment(p)
  <1>1. PICK c \in Nat : c = capacity /\ c > 1
    BY RingTypes
  <1>2. /\ head \in 0 .. c - 1 /\ tail \in 0 .. c /\ p \in 0 .. c - 1 /\ tail # c
        /\ received \in Nat
        /\ IF tail < head THEN tail <= p /\ p < head ELSE tail <= p \/ p < head
    BY <1>1, RingTypes DEF Filled, Slots
  <1>3. q = IF p + 1 >= c THEN 0 ELSE p + 1
    BY <1>1 DEF buffer_idx_increment
  <1>4. rowno[p] = IF p < head THEN (received + 1 + p) - head
                   ELSE (received + 1 + p) - (head + c)
    BY <1>1 DEF IInv, WindowIsContiguous, Filled
  <1>5. q \in Filled => rowno[q] = IF q < head THEN (received + 1 + q) - head
                                   ELSE (received + 1 + q) - (head + c)
    BY <1>1 DEF IInv, WindowIsContiguous, Filled
  <1> HIDE DEF q
  <1>6. q = head \/ q = c => rowno[p] = received
    BY <1>1, <1>2, <1>3, <1>4
  <1>7. q # head /\ q \in Filled => rowno[q] = rowno[p] + 1
    BY <1>1, <1>2, <1>3, <1>4, <1>5
  <1>. QED  BY <1>1, <1>6, <1>7 DEF q

(* The row dbnextrow() delivers follows the one that it or dbgetrow()      *)
(* delivered before, whether it is read again or comes off the wire, for   *)
(* every capacity and every result set.                                    *)
THEOREM NextFollows == Spec => NextRowFollows
  <1>1. Init => FInv
    BY DEF Init, FInv, AfterDelivered, Delivers, Returned, Outcome
  <1>2. IInv /\ FInv /\ [Next]_vars => FInv'
    BY FollowStep
  <1>3. IInv /\ FInv /\ [Next]_vars =>
          [ (Delivers(ret) /\ Delivers(ret') /\ ret'.call = "dbnextrow" /\ capacity > 1)
             => ret'.row = ret.row + 1 ]_vars
    <2>. SUFFICES ASSUME IInv, FInv, Next, Delivers(ret), Delivers(ret'),
                         ret'.call = "dbnextrow", capacity > 1
                  PROVE  ret'.row = ret.row + 1
      OBVIOUS
    <2>1. PICK p \in Filled : rowno[p] = ret.row /\ current = buffer_idx_increment(p)
      BY DEF FInv, AfterDelivered
    <2>2. allocated
      BY DEF FInv, AfterDelivered
    <2>3. /\ current = head \/ current = capacity => rowno[p] = received
          /\ current # head /\ current \in Filled => rowno[current] = rowno[p] + 1
      BY <2>1, <2>2, SuccessorInRing
    <2>4. CASE Again
      <3>1. current \in Filled /\ current # head
        BY <2>4, CurrentIsFilled DEF Again, FInv, CurrentIsNew
      <3>2. ret'.row = rowno[current]
        BY <2>4 DEF Again, Deliver, Outcome
      <3>. QED  BY <2>1, <2>3, <3>1, <3>2
    <2>5. CASE Fresh
      <3>1. ret'.row = received + 1 /\ (current = head \/ current = capacity)
        BY <2>5, RingTypes DEF Fresh, FetchRow, Outcome, CurrentIsNew
      <3>. QED  BY <2>1, <2>3, <3>1
    <2>6. ~Silent /\ ~Stopped /\ ~Chosen
      BY DEF Silent, Stopped, Chosen, Deliver, Outcome
    <2>. QED  BY <2>4, <2>5, <2>6, StepKinds
  <1>. QED
    BY <1>1, <1>2, <1>3, Inductive, PTL DEF Spec, NextRowFollows

=============================================================================
