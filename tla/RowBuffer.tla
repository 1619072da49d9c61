----------------------------- MODULE RowBuffer -----------------------------
(***************************************************************************)
(* The row buffer of db-lib (src/dblib/buffering.h) and the public calls   *)
(* of src/dblib/dblib.c that read or move it.  The buffer is a ring of     *)
(* `capacity' slots between `tail' (oldest row) and `head' (next free      *)
(* slot); `current' is the slot dbnextrow() reads.  A slot whose row_data  *)
(* is NULL has its values in the result set's only current_row, which the  *)
(* next row off the wire overwrites, so the newest row must be saved first.*)
(*                                                                         *)
(* A row's values are abstracted to the position of the row in the         *)
(* server's result set, 0 standing for "no values" (a NULL row_data or a   *)
(* freshly allocated current_row).                                         *)
(***************************************************************************)
EXTENDS Naturals, FiniteSets

CONSTANTS
    Capacities,     \* the row counts dbsetopt(DBBUFFER) is called with
    MaxRows         \* bound on the rows of one result set

ASSUME CapacitiesAssumption == Capacities \subseteq {n \in Nat : n > 1}
ASSUME MaxRowsAssumption == MaxRows \in Nat

VARIABLES
    head, tail, current, capacity, received,    \* DBPROC_ROWBUF
    allocated,      \* buf->rows is not NULL
    rowno,          \* slot -> row->row, 0 in an empty slot
    own,            \* slot -> the values in row->row_data, 0 when it is NULL
    live,           \* the values in resinfo->current_row
    factive,        \* dbopts[DBBUFFER].factive
    results,        \* dbresults_state: "rows" is _DB_RES_RESULTSET_ROWS
    nrows, nread,   \* rows the server sends in this result set, and read so far
    dead,           \* the connection is gone: CHECK_CONN fails
    fault,          \* what stopped the process, "none" while it runs
    src,            \* history: slot -> the server's row that was stored in it
    ret             \* history: what the last call returned and delivered

ringVars == <<head, tail, current, capacity, received, allocated, rowno, own, src>>
wireVars == <<nrows, nread, live>>
vars == <<head, tail, current, capacity, received, allocated, rowno, own, src,
          nrows, nread, live, factive, results, dead, fault, ret>>

Slots == 0 .. capacity - 1

(* What a call hands to the application: its return code and the number of *)
(* the row whose values (SlotValues) it copied to the bound variables.     *)
Outcome(call, code, row) == [call |-> call, code |-> code, row |-> row]
Returned(call, code) == Outcome(call, code, 0)

----------------------------------------------------------------------------
(* The helpers of buffering.h.                                             *)

buffer_count ==
    IF head > tail THEN head - tail ELSE (capacity + head) - tail

buffer_is_full == capacity = buffer_count /\ capacity > 1

(* Mutant: > for >=, the index runs one past the ring.                     *)
buffer_idx_increment_late(idx) == IF idx + 1 > capacity THEN 0 ELSE idx + 1

buffer_idx_increment(idx) == IF idx + 1 >= capacity THEN 0 ELSE idx + 1

(* The slots from tail up to head, the ones that hold rows.                *)
Filled ==
    {i \in Slots : /\ tail # capacity
                   /\ IF tail < head THEN tail <= i /\ i < head
                                     ELSE tail <= i \/ i < head}

(* The slots buffer_row2idx() finds for a row number: at most one.         *)
buffer_row2idx(row) == {i \in Filled : rowno[i] = row}

(* buffer_row2idx() dereferences rows[tail] unless the ring is in its      *)
(* initial position, and so does every caller that looks at a slot.        *)
LookupFaults == tail # capacity /\ ~allocated

(* The assert()s of buffer_current_index().                                *)
CurrentAsserts ==
    /\ current < capacity
    /\ IF tail < head THEN tail < current /\ current < head
                      ELSE current > head => current > tail

(* buffer_current_index() finds no row to read again.                      *)
CurrentIsNew == capacity <= 1 \/ current = head \/ current = capacity

(* The values buffer_transfer_bound_data() copies out of slot i.           *)
SlotValues(i) == IF own[i] = 0 THEN live ELSE own[i]

(* Mutants: head - 1 is not wrapped; current_row is not taken over.        *)
SaveIdx_unwrapped == IF head = 0 THEN 0 ELSE head - 1
SavedOwn_skipped == own

(* buffer_save_row(): the newest slot takes over current_row.              *)
SaveIdx == IF head = 0 THEN capacity - 1 ELSE head - 1
Saves == capacity > 1 /\ allocated /\ rowno[SaveIdx] # 0 /\ own[SaveIdx] = 0
SavedOwn == IF Saves THEN [own EXCEPT ![SaveIdx] = live] ELSE own
SavedLive == IF Saves THEN 0 ELSE live

EmptySlots(n) == [i \in 0 .. n - 1 |-> 0]

(* buffer_set_capacity(): free the rows, zero the structure.               *)
buffer_set_capacity(n) ==
    /\ capacity' = n
    /\ allocated' = FALSE
    /\ head' = 0 /\ tail' = 0 /\ current' = 0 /\ received' = 0
    /\ rowno' = EmptySlots(n) /\ own' = EmptySlots(n) /\ src' = EmptySlots(n)

(* buffer_free() and buffer_alloc(), which leave the ring in the initial   *)
(* position of buffer_reset().                                             *)
buffer_alloc ==
    /\ allocated' = TRUE
    /\ head' = 0 /\ tail' = capacity /\ current' = capacity /\ received' = 0
    /\ rowno' = EmptySlots(capacity) /\ own' = EmptySlots(capacity)
    /\ src' = EmptySlots(capacity)
    /\ UNCHANGED capacity

(* Mutant: the tail is bumped before its row is freed.                     *)
Deleted_after_bump(n) ==
    {i \in Filled : LET d == IF i >= tail THEN i - tail ELSE (i + capacity) - tail
                    IN  0 < d /\ d <= n}

(* buffer_delete_rows(): empty the `n' oldest slots; a ring that becomes   *)
(* empty goes back to its initial position.                                *)
Deleted(n) ==
    {i \in Filled : IF i >= tail THEN i - tail < n ELSE (i + capacity) - tail < n}

buffer_delete_rows(n) ==
    /\ IF n > 0 /\ n >= buffer_count
       THEN head' = 0 /\ tail' = capacity /\ current' = capacity
       ELSE /\ tail' = IF tail + n >= capacity /\ n > 0
                       THEN (tail + n) - capacity ELSE tail + n
            /\ UNCHANGED <<head, current>>
    /\ rowno' = [i \in Slots |-> IF i \in Deleted(n) THEN 0 ELSE rowno[i]]
    /\ own' = [i \in Slots |-> IF i \in Deleted(n) THEN 0 ELSE own[i]]
    /\ src' = [i \in Slots |-> IF i \in Deleted(n) THEN 0 ELSE src[i]]
    /\ UNCHANGED <<capacity, received, allocated>>

(* The process stops at an assert() or at a NULL pointer.                  *)
Stop(why) ==
    /\ fault' = why
    /\ UNCHANGED <<ringVars, wireVars, factive, results, dead, ret>>

----------------------------------------------------------------------------
(* The calls.  Each is one whole public function of dblib.c.               *)

(* Mutant: current is not bumped.                                          *)
Deliver_unbumped(call, i) ==
    /\ current' = i
    /\ ret' = Outcome(call, "REG_ROW", rowno[i])
    /\ UNCHANGED <<head, tail, capacity, received, allocated, rowno, own, src,
                   wireVars, factive, results, dead, fault>>

(* A row that is already in the ring is delivered and current moves on.    *)
Deliver(call, i) ==
    /\ current' = buffer_idx_increment(i)
    /\ ret' = Outcome(call, "REG_ROW", rowno[i])
    /\ UNCHANGED <<head, tail, capacity, received, allocated, rowno, own, src,
                   wireVars, factive, results, dead, fault>>

(* buffer_save_row(), the next row off the wire, buffer_add_row() and the  *)
(* transfer to the bound variables.                                        *)
FetchRow ==
    LET row == received + 1  values == nread + 1
    IN  /\ received' = row
        /\ nread' = values
        /\ live' = values
        /\ rowno' = [rowno EXCEPT ![head] = row]
        /\ own' = [SavedOwn EXCEPT ![head] = 0]
        /\ src' = [src EXCEPT ![head] = values]
        /\ tail' = IF tail = capacity THEN 0 ELSE tail
        /\ head' = buffer_idx_increment(head)
        /\ current' = buffer_idx_increment(head)
        /\ ret' = Outcome("dbnextrow", "REG_ROW", row)
        /\ UNCHANGED <<capacity, allocated, nrows, factive, results, dead, fault>>

(* The newest row is saved, then the stream ends or the connection fails.  *)
SaveOnly ==
    /\ own' = SavedOwn
    /\ live' = SavedLive
    /\ UNCHANGED <<head, tail, current, capacity, received, allocated, rowno, src,
                   nrows, nread, factive, fault>>

dbnextrow ==
    \/ /\ dead \/ results # "rows"
       /\ ret' = Returned("dbnextrow", IF dead THEN "FAIL" ELSE "NO_MORE_ROWS")
       /\ UNCHANGED <<ringVars, wireVars, factive, results, dead, fault>>
    \/ /\ ~dead /\ results = "rows"
       /\ \/ ~CurrentIsNew /\ ~CurrentAsserts /\ Stop("assert")
          \/ ~CurrentIsNew /\ CurrentAsserts /\ Deliver("dbnextrow", current)
          \/ /\ CurrentIsNew /\ buffer_is_full
             /\ ret' = Returned("dbnextrow", "BUF_FULL")
             /\ UNCHANGED <<ringVars, wireVars, factive, results, dead, fault>>
          \/ /\ CurrentIsNew /\ ~buffer_is_full
             /\ \/ nread < nrows /\ ~allocated /\ Stop("null")
                \/ nread < nrows /\ allocated /\ FetchRow
                \/ /\ nread = nrows
                   /\ SaveOnly
                   /\ results' = "next"
                   /\ ret' = Returned("dbnextrow", "NO_MORE_ROWS")
                   /\ UNCHANGED dead
                \/ /\ SaveOnly
                   /\ dead' = TRUE
                   /\ ret' = Returned("dbnextrow", "FAIL")
                   /\ UNCHANGED results

(* The row is looked up before the connection is checked; dbgetrow() and   *)
(* dbsetrow() fail alike.                                                  *)
NotFound(call, row) ==
    \/ LookupFaults /\ Stop("null")
    \/ /\ ~LookupFaults
       /\ dead \/ buffer_row2idx(row) = {}
       /\ ret' = Returned(call, IF dead THEN "FAIL" ELSE "NO_MORE_ROWS")
       /\ UNCHANGED <<ringVars, wireVars, factive, results, dead, fault>>

dbgetrow(row) ==
    \/ NotFound("dbgetrow", row)
    \/ /\ ~LookupFaults /\ ~dead
       /\ \E i \in buffer_row2idx(row) : Deliver("dbgetrow", i)

dbsetrow(row) ==
    \/ NotFound("dbsetrow", row)
    \/ /\ ~LookupFaults /\ ~dead
       /\ \E i \in buffer_row2idx(row) :
            /\ current' = i
            /\ ret' = Outcome("dbsetrow", "REG_ROW", rowno[i])
       /\ UNCHANGED <<head, tail, capacity, received, allocated, rowno, own, src,
                      wireVars, factive, results, dead, fault>>

(* Mutant: dbclrbuf() may drop the newest row as well.                     *)
ClearCount_all(n) == IF n < buffer_count THEN n ELSE buffer_count

(* n >= count leaves one row behind; without DBBUFFER nothing happens.     *)
ClearCount(n) ==
    IF n < buffer_count THEN n
    ELSE IF buffer_count = 0 THEN 0 ELSE buffer_count - 1

dbclrbuf(n) ==
    /\ factive
    /\ \/ ~allocated /\ Stop("null")
       \/ /\ allocated
          /\ buffer_delete_rows(ClearCount(n))
          /\ ret' = Returned("dbclrbuf", "void")
          /\ UNCHANGED <<wireVars, factive, results, dead, fault>>

dbsetopt(n) ==
    /\ ~dead
    /\ buffer_set_capacity(n)
    /\ factive' = TRUE
    /\ ret' = Returned("dbsetopt", "SUCCEED")
    /\ UNCHANGED <<wireVars, results, dead, fault>>

dbclropt ==
    /\ ~dead
    /\ buffer_set_capacity(1)
    /\ factive' = FALSE
    /\ ret' = Returned("dbclropt", "SUCCEED")
    /\ UNCHANGED <<wireVars, results, dead, fault>>

(* The next result set arrives (also dbsqlok(), which allocates the same   *)
(* way); a set without rows ends at once.                                  *)
dbresults ==
    \/ /\ ~dead /\ results # "rows"
       /\ buffer_alloc
       /\ nrows' \in 0 .. MaxRows
       /\ nread' = 0 /\ live' = 0
       /\ results' = IF nrows' = 0 THEN "next" ELSE "rows"
       /\ ret' = Returned("dbresults", "SUCCEED")
       /\ UNCHANGED <<factive, dead, fault>>
    \/ /\ dead \/ results = "rows"
       /\ ret' = Returned("dbresults", "FAIL")
       /\ UNCHANGED <<ringVars, wireVars, factive, results, dead, fault>>

(* The rows not yet read go through current_row and are dropped.           *)
dbcanquery ==
    /\ ~dead
    /\ nread' = nrows
    /\ live' = IF nread < nrows THEN nrows ELSE live
    /\ results' = IF results = "init" THEN "init" ELSE "next"
    /\ ret' = Returned("dbcanquery", "SUCCEED")
    /\ UNCHANGED <<ringVars, nrows, factive, dead, fault>>

(* One text row, read past the buffer: saved, overwritten, not added.      *)
dbreadtext ==
    /\ ~dead /\ results # "init"
    /\ \/ capacity > 1 /\ ~allocated /\ Stop("null")
       \/ /\ capacity = 1 \/ allocated
          /\ own' = SavedOwn
          /\ live' = IF nread < nrows THEN nread + 1 ELSE SavedLive
          /\ nread' = IF nread < nrows THEN nread + 1 ELSE nread
          /\ ret' = Returned("dbreadtext", IF nread < nrows THEN "bytes" ELSE "NO_MORE_ROWS")
          /\ UNCHANGED <<head, tail, current, capacity, received, allocated, rowno, src,
                         nrows, factive, results, dead, fault>>

(* The row number in the slot a DBFIRSTROW or DBLASTROW query looks at.    *)
dbfirstrow ==
    IF tail = capacity \/ ~allocated
    THEN Stop("null")
    ELSE /\ ret' = Outcome("dbfirstrow", "row", rowno[tail])
         /\ UNCHANGED <<ringVars, wireVars, factive, results, dead, fault>>

LastIdx == IF head # tail THEN SaveIdx ELSE head

dblastrow ==
    IF ~allocated
    THEN Stop("null")
    ELSE /\ ret' = Outcome("dblastrow", "row", rowno[LastIdx])
         /\ UNCHANGED <<ringVars, wireVars, factive, results, dead, fault>>

----------------------------------------------------------------------------
(* dbopen(): no buffering, no rows, capacity 1.                            *)
Init ==
    /\ head = 0 /\ tail = 0 /\ current = 0 /\ capacity = 1 /\ received = 0
    /\ allocated = FALSE
    /\ rowno = EmptySlots(1) /\ own = EmptySlots(1) /\ src = EmptySlots(1)
    /\ live = 0 /\ nrows = 0 /\ nread = 0
    /\ factive = FALSE /\ results = "init" /\ dead = FALSE /\ fault = "none"
    /\ ret = Returned("dbopen", "SUCCEED")

Next ==
    /\ fault = "none"
    /\ \/ dbnextrow
       \/ \E row \in 1 .. MaxRows : dbgetrow(row) \/ dbsetrow(row)
       \/ \E n \in 1 .. MaxRows : dbclrbuf(n)
       \/ \E n \in Capacities : dbsetopt(n)
       \/ dbclropt \/ dbresults \/ dbcanquery \/ dbreadtext
       \/ dbfirstrow \/ dblastrow

Spec == Init /\ [][Next]_vars

----------------------------------------------------------------------------
(* Properties.                                                             *)

(* Every variable has its type and every index lies in the ring or at its  *)
(* initial position (buffer_check(), buffering.h).                         *)
TypeOK ==
    /\ capacity \in Capacities \cup {1}
    /\ head \in Slots /\ tail \in 0 .. capacity /\ current \in 0 .. capacity
    /\ received \in Nat /\ nrows \in 0 .. MaxRows /\ nread \in 0 .. nrows
    /\ rowno \in [Slots -> Nat] /\ own \in [Slots -> Nat] /\ src \in [Slots -> Nat]
    /\ live \in Nat
    /\ allocated \in BOOLEAN /\ factive \in BOOLEAN /\ dead \in BOOLEAN
    /\ results \in {"init", "rows", "next"}
    /\ fault \in {"none", "assert", "null"}

(* The filled slots hold the last rows received, in order and without a    *)
(* gap, and every other slot is empty: what buffer_check() asserts of the  *)
(* filled and the empty part, and what buffer_row2idx() relies on when it  *)
(* marches from tail to head.                                              *)
WindowIsContiguous ==
    allocated =>
    /\ tail = capacity => head = 0
    /\ \A i \in Slots :
        rowno[i] = IF i \notin Filled THEN 0
                   ELSE IF i < head THEN (received + 1 + i) - head
                   ELSE (received + 1 + i) - (head + capacity)
    /\ \A i \in Filled : rowno[i] > 0

(* A row that is no longer the newest has its own copy of its values, so   *)
(* no later read can change it (buffer_save_row() runs before every read   *)
(* that delivers a row).                                                   *)
OlderRowsAreSaved ==
    \A i \in Filled : allocated /\ i # SaveIdx => own[i] = src[i] /\ own[i] # 0

(* While a result set is being read, a buffered row still has the values   *)
(* it had when it came off the wire, however dbnextrow(), dbreadtext(),    *)
(* dbsetrow() and dbclrbuf() are mixed: reading it again shows the same.   *)
RowsKeepTheirValues ==
    \A i \in Filled :
        allocated /\ capacity > 1 /\ results = "rows" => SlotValues(i) = src[i]

(* dbnextrow() never skips a row: the row it delivers follows the one it   *)
(* or dbgetrow() delivered before (dblib.c: "Calls to dbnextrow() read     *)
(* from row + 1 until the buffer is exhausted").                           *)
Delivers(r) == r.code = "REG_ROW" /\ r.call \in {"dbnextrow", "dbgetrow"}
NextRowFollows ==
    [][ (Delivers(ret) /\ Delivers(ret') /\ ret'.call = "dbnextrow" /\ capacity > 1)
        => ret'.row = ret.row + 1 ]_vars

(* The ring implements the window of RowWindow.                            *)
Window == INSTANCE RowWindow WITH
    Sizes <- Capacities \cup {1},
    size <- capacity,
    lo <- IF tail = capacity \/ ~allocated THEN received + 1 ELSE rowno[tail],
    hi <- received,
    out <- IF Delivers(ret) THEN ret.row ELSE 0

(* Every call on the ring is a step of the window, or leaves it alone: no  *)
(* call drops the newest row, reads outside the window or overfills it.    *)
ImplementsWindow == Window!Spec
============================================================================
