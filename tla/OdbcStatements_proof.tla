------------------------ MODULE OdbcStatements_proof ------------------------
(***************************************************************************)
(* The statements of an ODBC connection, for any number of statements,     *)
(* prepared statements, cursors and sessions, of a program that uses them  *)
(* from one thread.                                                        *)
(***************************************************************************)
EXTENDS OdbcStatements, FiniteSetTheorems, WellFoundedInduction, TLAPS

-----------------------------------------------------------------------------
(* The inductive invariant.  The functions of the code go from one value   *)
(* of the connection to the next, so its parts are about any value c.      *)

Distinct(q) == \A i, j \in DOMAIN q : q[i] = q[j] => i = j

(* Who has which session.                                                  *)
Owned(c) ==
    /\ \A s \in Stmts : c.tds[s] # None => s \in c.alive /\ c.state[c.tds[s]] # "free"
    /\ \A s, t \in Stmts : c.tds[s] # None /\ c.tds[s] = c.tds[t] => s = t
    /\ \A s \in Stmts : c.tds[s] = 0 <=> c.current = s
    /\ \A x \in Sids : x # 0 /\ c.state[x] # "free" => \E s \in Stmts : c.tds[s] = x
    /\ ~c.mars => \A x \in Sids : x # 0 => c.state[x] = "free"
    /\ c.connected => c.state[0] # "free"

(* The connection is lost for all sessions at once.                        *)
Lost(c) == \E x \in Sids : c.state[x] = "DEAD"
AllLost(c) == Lost(c) => \A x \in Sids : c.state[x] \in {"free", "DEAD"}

(* An answer that is being read belongs to the statement that has the      *)
(* session, except on the sessions X, on which a call is at work.          *)
Asked(c, X) ==
    \A x \in Sids \ X : c.state[x] = "PENDING" => c.asker[x] \in Stmts /\ c.tds[c.asker[x]] = x

(* The counters of the handles are right.                                  *)
Count(c, h) ==
    Cardinality(Users(c, h)) + Cardinality(Served(c, h)) + IF Listed(c, h) THEN 1 ELSE 0
Counted(c) ==
    /\ Distinct(c.dyns) /\ Distinct(c.cursors)
    /\ \A h \in Handles : c.ref_count[h] = Count(c, h)

(* A freed session and a dropped statement hold nothing.                   *)
NothingLeft(c) ==
    /\ \A x \in Sids : c.state[x] = "free" => c.cur_dyn[x] = None /\ c.cur_cursor[x] = None
    /\ \A s \in Stmts \ c.alive : c.dyn[s] = None /\ c.cursor[s] = None

(* The answers to these requests make something of a handle.               *)
Named(c) ==
    \A x \in Sids : c.state[x] = "PENDING" =>
        /\ c.current_op[x] \in {"prepare", "prepexec"} => c.cur_dyn[x] # None
        /\ c.current_op[x] = "cursoropen" => c.cur_cursor[x] # None

Good(c, X) ==
    /\ c \in Connection
    /\ Owned(c) /\ AllLost(c) /\ Asked(c, X) /\ Counted(c) /\ NothingLeft(c) /\ Named(c)

(* Between two calls, and while a call is at work on session x.            *)
Sound(c) == Good(c, {})
SoundBut(c, x) == Good(c, {x})

-----------------------------------------------------------------------------
(* What the operators leave alone.                                         *)

SameOwners(a, c) ==
    /\ a.connected = c.connected /\ a.mars = c.mars /\ a.current = c.current /\ a.alive = c.alive
    /\ a.tds = c.tds /\ a.got = c.got /\ a.fault = c.fault
    /\ a.is_prepared = c.is_prepared /\ a.need_reprepare = c.need_reprepare
SameStates(a, c) == a.state = c.state /\ a.asker = c.asker /\ a.current_op = c.current_op
SameHeld(a, c) == a.dyn = c.dyn /\ a.cursor = c.cursor
SameServed(a, c) == a.cur_dyn = c.cur_dyn /\ a.cur_cursor = c.cur_cursor
SameLists(a, c) == a.dyns = c.dyns /\ a.cursors = c.cursors
SameCloses(a, c) ==
    a.defer_close = c.defer_close /\ a.pending_close = c.pending_close /\ a.server = c.server

-----------------------------------------------------------------------------
(* Handles are one or the other, and None is none of them.                 *)
LEMMA HandleKinds ==
    /\ Dyns \cap Cursors = {} /\ None \notin Handles /\ None \notin Stmts /\ None \notin Sids
    /\ Dyns \subseteq Handles /\ Cursors \subseteq Handles /\ None \notin Dyns /\ None \notin Cursors
    /\ 0 \in Sids /\ None # 0
  BY ParametersAssumption DEF Handles, Sids

(* Release() takes one reference from the handle and changes nothing else. *)
LEMMA ReleaseIs ==
    ASSUME NEW c \in Connection, NEW h \in Handles \cup {None}, h # None => c.ref_count[h] > 0,
           NEW r, r = Release(c, h)
    PROVE  /\ r \in Connection
           /\ SameOwners(r, c) /\ SameStates(r, c) /\ SameHeld(r, c) /\ SameServed(r, c)
           /\ SameLists(r, c) /\ SameCloses(r, c) /\ r.known = c.known
           /\ r.ref_count = [g \in Handles |-> IF g = h THEN c.ref_count[g] - 1 ELSE c.ref_count[g]]
  <1>1. CASE h = None
    <2>1. r = c
      BY <1>1 DEF Release
    <2>2. \A g \in Handles : g # h
      BY <1>1, HandleKinds
    <2>3. c.ref_count = [g \in Handles |-> IF g = h THEN c.ref_count[g] - 1 ELSE c.ref_count[g]]
      BY <2>2 DEF Connection
    <2>. QED  BY <2>1, <2>3 DEF SameOwners, SameStates, SameHeld, SameServed, SameLists, SameCloses
  <1>2. CASE h # None
    <2>1. r = [c EXCEPT !.ref_count[h] = @ - 1]
      BY <1>2, Zenon DEF Release
    <2>2. r.ref_count = [c.ref_count EXCEPT ![h] = @ - 1] /\ r.ref_count \in [Handles -> Nat]
      BY <2>1, <1>2 DEF Connection
    <2>3. r \in Connection
      BY <2>1, <2>2, <1>2 DEF Connection
    <2>4. /\ SameOwners(r, c) /\ SameStates(r, c) /\ SameHeld(r, c) /\ SameServed(r, c)
          /\ SameLists(r, c) /\ SameCloses(r, c) /\ r.known = c.known
      BY <2>1 DEF Connection, SameOwners, SameStates, SameHeld, SameServed, SameLists, SameCloses
    <2>5. r.ref_count = [g \in Handles |-> IF g = h THEN c.ref_count[g] - 1 ELSE c.ref_count[g]]
      BY <2>2, <1>2 DEF Connection
    <2>. QED  BY <2>3, <2>4, <2>5
  <1>. QED  BY <1>1, <1>2

(* A statement lets go of its prepared statement: one reference less, and  *)
(* the pointer is None.                                                    *)
LEMMA ReleaseDynIs ==
    ASSUME NEW c \in Connection, NEW s \in Stmts, c.dyn[s] # None => c.ref_count[c.dyn[s]] > 0,
           NEW r, r = ReleaseDyn(c, s)
    PROVE  /\ r \in Connection
           /\ SameOwners(r, c) /\ SameStates(r, c) /\ SameServed(r, c)
           /\ SameLists(r, c) /\ SameCloses(r, c) /\ r.known = c.known
           /\ r.dyn = [c.dyn EXCEPT ![s] = None] /\ r.cursor = c.cursor
           /\ r.ref_count = [g \in Handles |-> IF g = c.dyn[s] THEN c.ref_count[g] - 1 ELSE c.ref_count[g]]
  <1>1. PICK e : e = Release(c, c.dyn[s])
    OBVIOUS
  <1>2. c.dyn[s] \in Handles \cup {None}
    BY DEF Connection, Handles
  <1>3. /\ e \in Connection
        /\ SameOwners(e, c) /\ SameStates(e, c) /\ SameHeld(e, c) /\ SameServed(e, c)
        /\ SameLists(e, c) /\ SameCloses(e, c) /\ e.known = c.known
        /\ e.ref_count = [g \in Handles |-> IF g = c.dyn[s] THEN c.ref_count[g] - 1 ELSE c.ref_count[g]]
    BY <1>1, <1>2, ReleaseIs
  <1>4. r = [e EXCEPT !.dyn[s] = None]
    BY <1>1, Zenon DEF ReleaseDyn
  <1>5. r \in Connection
    <2>1. [e.dyn EXCEPT ![s] = None] \in [Stmts -> Dyns \cup {None}]
      BY <1>3 DEF Connection
    <2>2. r = [e EXCEPT !.dyn = [e.dyn EXCEPT ![s] = None]]
      BY <1>4
    <2>. QED  BY <1>3, <2>1, <2>2 DEF Connection
  <1>6. /\ SameOwners(r, e) /\ SameStates(r, e) /\ SameServed(r, e)
        /\ SameLists(r, e) /\ SameCloses(r, e) /\ r.known = e.known
        /\ r.cursor = e.cursor /\ r.ref_count = e.ref_count
        /\ r.dyn = [e.dyn EXCEPT ![s] = None]
    BY <1>3, <1>4 DEF Connection, SameOwners, SameStates, SameServed, SameLists, SameCloses
  <1>. QED  BY <1>3, <1>5, <1>6 DEF SameOwners, SameStates, SameHeld, SameServed, SameLists, SameCloses

(* The same for its cursor.                                                *)
LEMMA ReleaseCursorIs ==
    ASSUME NEW c \in Connection, NEW s \in Stmts, c.cursor[s] # None => c.ref_count[c.cursor[s]] > 0,
           NEW r, r = ReleaseCursor(c, s)
    PROVE  /\ r \in Connection
           /\ SameOwners(r, c) /\ SameStates(r, c) /\ SameServed(r, c)
           /\ SameLists(r, c) /\ SameCloses(r, c) /\ r.known = c.known
           /\ r.cursor = [c.cursor EXCEPT ![s] = None] /\ r.dyn = c.dyn
           /\ r.ref_count = [g \in Handles |-> IF g = c.cursor[s] THEN c.ref_count[g] - 1 ELSE c.ref_count[g]]
  <1>1. PICK e : e = Release(c, c.cursor[s])
    OBVIOUS
  <1>2. c.cursor[s] \in Handles \cup {None}
    BY DEF Connection, Handles
  <1>3. /\ e \in Connection
        /\ SameOwners(e, c) /\ SameStates(e, c) /\ SameHeld(e, c) /\ SameServed(e, c)
        /\ SameLists(e, c) /\ SameCloses(e, c) /\ e.known = c.known
        /\ e.ref_count = [g \in Handles |-> IF g = c.cursor[s] THEN c.ref_count[g] - 1 ELSE c.ref_count[g]]
    BY <1>1, <1>2, ReleaseIs
  <1>4. r = [e EXCEPT !.cursor[s] = None]
    BY <1>1, Zenon DEF ReleaseCursor
  <1>5. r \in Connection
    <2>1. [e.cursor EXCEPT ![s] = None] \in [Stmts -> Cursors \cup {None}]
      BY <1>3 DEF Connection
    <2>2. r = [e EXCEPT !.cursor = [e.cursor EXCEPT ![s] = None]]
      BY <1>4
    <2>. QED  BY <1>3, <2>1, <2>2 DEF Connection
  <1>6. /\ SameOwners(r, e) /\ SameStates(r, e) /\ SameServed(r, e)
        /\ SameLists(r, e) /\ SameCloses(r, e) /\ r.known = e.known
        /\ r.dyn = e.dyn /\ r.ref_count = e.ref_count
        /\ r.cursor = [e.cursor EXCEPT ![s] = None]
    BY <1>3, <1>4 DEF Connection, SameOwners, SameStates, SameServed, SameLists, SameCloses
  <1>. QED  BY <1>3, <1>5, <1>6 DEF SameOwners, SameStates, SameHeld, SameServed, SameLists, SameCloses

(* A session lets go of the handles of its last request.                   *)
LEMMA ReleaseCurIs ==
    ASSUME NEW c \in Connection, NEW x \in Sids,
           c.cur_dyn[x] # None => c.ref_count[c.cur_dyn[x]] > 0,
           c.cur_cursor[x] # None => c.ref_count[c.cur_cursor[x]] > 0,
           NEW r, r = ReleaseCur(c, x)
    PROVE  /\ r \in Connection
           /\ SameOwners(r, c) /\ SameStates(r, c) /\ SameHeld(r, c)
           /\ SameLists(r, c) /\ SameCloses(r, c) /\ r.known = c.known
           /\ r.cur_dyn = [c.cur_dyn EXCEPT ![x] = None]
           /\ r.cur_cursor = [c.cur_cursor EXCEPT ![x] = None]
           /\ r.ref_count = [g \in Handles |-> IF g \in {c.cur_dyn[x], c.cur_cursor[x]}
                                               THEN c.ref_count[g] - 1 ELSE c.ref_count[g]]
  <1>1. PICK e : e = Release(c, c.cur_dyn[x])
    OBVIOUS
  <1>2. PICK f : f = Release(e, c.cur_cursor[x])
    OBVIOUS
  <1>3. /\ c.cur_dyn[x] \in Dyns \cup {None} /\ c.cur_cursor[x] \in Cursors \cup {None}
        /\ c.cur_dyn[x] \in Handles \cup {None} /\ c.cur_cursor[x] \in Handles \cup {None}
    BY DEF Connection, Handles
  <1>4. c.cur_cursor[x] # None => c.cur_cursor[x] # c.cur_dyn[x]
    BY <1>3, HandleKinds
  <1>5. /\ e \in Connection
        /\ SameOwners(e, c) /\ SameStates(e, c) /\ SameHeld(e, c) /\ SameServed(e, c)
        /\ SameLists(e, c) /\ SameCloses(e, c) /\ e.known = c.known
        /\ e.ref_count = [g \in Handles |-> IF g = c.cur_dyn[x] THEN c.ref_count[g] - 1 ELSE c.ref_count[g]]
    BY <1>1, <1>3, ReleaseIs
  <1>6. c.cur_cursor[x] # None => e.ref_count[c.cur_cursor[x]] > 0
    BY <1>3, <1>4, <1>5
  <1>7. /\ f \in Connection
        /\ SameOwners(f, e) /\ SameStates(f, e) /\ SameHeld(f, e) /\ SameServed(f, e)
        /\ SameLists(f, e) /\ SameCloses(f, e) /\ f.known = e.known
        /\ f.ref_count = [g \in Handles |-> IF g = c.cur_cursor[x] THEN e.ref_count[g] - 1 ELSE e.ref_count[g]]
    BY <1>2, <1>3, <1>5, <1>6, ReleaseIs
  <1>8. r = [f EXCEPT !.cur_dyn[x] = None, !.cur_cursor[x] = None]
    BY <1>1, <1>2, Zenon DEF ReleaseCur
  <1>9. r \in Connection
    <2>1. /\ [f.cur_dyn EXCEPT ![x] = None] \in [Sids -> Dyns \cup {None}]
          /\ [f.cur_cursor EXCEPT ![x] = None] \in [Sids -> Cursors \cup {None}]
      BY <1>7 DEF Connection
    <2>. QED  BY <1>7, <1>8, <2>1 DEF Connection
  <1>10. /\ SameOwners(r, f) /\ SameStates(r, f) /\ SameHeld(r, f)
         /\ SameLists(r, f) /\ SameCloses(r, f) /\ r.known = f.known /\ r.ref_count = f.ref_count
         /\ r.cur_dyn = [f.cur_dyn EXCEPT ![x] = None] /\ r.cur_cursor = [f.cur_cursor EXCEPT ![x] = None]
    BY <1>7, <1>8 DEF Connection, SameOwners, SameStates, SameHeld, SameLists, SameCloses
  <1>11. r.ref_count = [g \in Handles |-> IF g \in {c.cur_dyn[x], c.cur_cursor[x]}
                                          THEN c.ref_count[g] - 1 ELSE c.ref_count[g]]
    <2>1. \A g \in Handles : g = c.cur_dyn[x] => g # c.cur_cursor[x]
      BY <1>3, <1>4, HandleKinds
    <2>. QED  BY <1>5, <1>7, <1>10, <2>1
  <1>. QED  BY <1>5, <1>7, <1>9, <1>10, <1>11 DEF SameOwners, SameStates, SameHeld, SameServed, SameLists, SameCloses

-----------------------------------------------------------------------------
(* The lists.                                                              *)

(* The element that is removed is gone, and nothing else is.               *)
LEMMA RemoveFirstIs ==
    ASSUME NEW S, NEW q \in Seq(S), Distinct(q), NEW h, Contains(q, h), NEW r, r = RemoveFirst(q, h)
    PROVE  r \in Seq(S) /\ Distinct(r) /\ \A g : Contains(r, g) <=> Contains(q, g) /\ g # h
  <1>1. PICK i \in 1 .. Len(q) : q[i] = h
    BY DEF Contains
  <1>2. \A j \in 1 .. Len(q) : q[j] = h => j = i
    BY <1>1 DEF Distinct
  <1>3. SelectInSeq(q, LAMBDA v : v = h) = i
    <2>1. {j \in 1 .. Len(q) : q[j] = h} = {i}
      BY <1>1, <1>2
    <2>2. Min({i}) = i
      BY <1>1 DEF Min
    <2>. QED  BY <2>1, <2>2 DEF SelectInSeq
  <1>4. r = RemoveAt(q, i)
    BY <1>1, <1>3 DEF RemoveFirst
  <1>5. r = SubSeq(q, 1, i - 1) \o SubSeq(q, i + 1, Len(q))
    BY <1>4 DEF RemoveAt
  <1>6. /\ r \in Seq(S) /\ Len(r) = Len(q) - 1
        /\ \A j \in 1 .. Len(r) : r[j] = IF j < i THEN q[j] ELSE q[j + 1]
    <2>1. PICK a : a = SubSeq(q, 1, i - 1)
      OBVIOUS
    <2>2. PICK b : b = SubSeq(q, i + 1, Len(q))
      OBVIOUS
    <2>3. a \in Seq(S) /\ Len(a) = i - 1 /\ \A j \in 1 .. i - 1 : a[j] = q[j]
      BY <1>1, <2>1
    <2>4. b \in Seq(S) /\ Len(b) = Len(q) - i /\ \A j \in 1 .. Len(q) - i : b[j] = q[i + j]
      BY <1>1, <2>2
    <2>5. r = a \o b
      BY <1>5, <2>1, <2>2
    <2>6. r \in Seq(S) /\ Len(r) = Len(q) - 1
      BY <1>1, <2>3, <2>4, <2>5
    <2>7. ASSUME NEW j \in 1 .. Len(r)
          PROVE  r[j] = IF j < i THEN q[j] ELSE q[j + 1]
      <3>1. CASE j < i
        BY <1>1, <2>3, <2>4, <2>5, <2>6, <3>1
      <3>2. CASE ~(j < i)
        <4>1. r[j] = b[j - (i - 1)]
          BY <1>1, <2>3, <2>4, <2>5, <2>6, <3>2
        <4>2. j - (i - 1) \in 1 .. Len(q) - i /\ i + (j - (i - 1)) = j + 1
          BY <1>1, <2>6, <3>2
        <4>. QED  BY <2>4, <3>2, <4>1, <4>2
      <3>. QED  BY <3>1, <3>2
    <2>. QED  BY <2>6, <2>7
  <1>7. Distinct(r)
    <2>. SUFFICES ASSUME NEW j \in DOMAIN r, NEW k \in DOMAIN r, r[j] = r[k]
                  PROVE  j = k
      BY DEF Distinct
    <2>1. j \in 1 .. Len(r) /\ k \in 1 .. Len(r) /\ Len(q) \in Nat
      BY <1>6
    <2>2. PICK m \in 1 .. Len(q) : m = IF j < i THEN j ELSE j + 1
      <3>1. (IF j < i THEN j ELSE j + 1) \in 1 .. Len(q)
        BY <1>1, <1>6, <2>1
      <3>. QED  BY <3>1
    <2>3. PICK n \in 1 .. Len(q) : n = IF k < i THEN k ELSE k + 1
      <3>1. (IF k < i THEN k ELSE k + 1) \in 1 .. Len(q)
        BY <1>1, <1>6, <2>1
      <3>. QED  BY <3>1
    <2>4. q[m] = q[n]
      BY <1>6, <2>1, <2>2, <2>3
    <2>5. m = n
      BY <2>4 DEF Distinct
    <2>. QED  BY <1>1, <2>1, <2>2, <2>3, <2>5
  <1>8. ASSUME NEW g PROVE Contains(r, g) <=> Contains(q, g) /\ g # h
    <2>1. ASSUME NEW j \in 1 .. Len(r), r[j] = g
          PROVE  Contains(q, g) /\ g # h
      <3>1. PICK m \in 1 .. Len(q) : m = (IF j < i THEN j ELSE j + 1) /\ m # i
        BY <1>1, <1>6
      <3>2. q[m] = g
        BY <1>6, <2>1, <3>1
      <3>. QED  BY <1>2, <3>1, <3>2 DEF Contains
    <2>2. ASSUME NEW m \in 1 .. Len(q), q[m] = g, g # h
          PROVE  Contains(r, g)
      <3>1. m # i
        BY <1>1, <2>2
      <3>2. PICK j \in 1 .. Len(r) : m = IF j < i THEN j ELSE j + 1
        <4>1. CASE m < i
          BY <1>1, <1>6, <4>1
        <4>2. CASE m > i
          <5>1. m - 1 \in 1 .. Len(r) /\ m = (m - 1) + 1 /\ ~(m - 1 < i)
            BY <1>1, <1>6, <4>2
          <5>. QED  BY <5>1
        <4>. QED  BY <1>1, <3>1, <4>1, <4>2
      <3>3. r[j] = g
        BY <1>6, <2>2, <3>2
      <3>. QED  BY <3>3 DEF Contains
    <2>. QED  BY <2>1, <2>2 DEF Contains
  <1>. QED  BY <1>6, <1>7, <1>8

(* What is added is there, and nothing else is new.                        *)
LEMMA AddedIs ==
    ASSUME NEW S, NEW q \in Seq(S), Distinct(q), NEW h \in S, ~Contains(q, h)
    PROVE  /\ <<h>> \o q \in Seq(S) /\ Distinct(<<h>> \o q)
           /\ \A g : Contains(<<h>> \o q, g) <=> Contains(q, g) \/ g = h
           /\ Append(q, h) \in Seq(S) /\ Distinct(Append(q, h))
           /\ \A g : Contains(Append(q, h), g) <=> Contains(q, g) \/ g = h
  <1>1. PICK r : r = <<h>> \o q
    OBVIOUS
  <1>2. /\ r \in Seq(S) /\ Len(r) = Len(q) + 1 /\ Len(q) \in Nat
        /\ r[1] = h /\ \A j \in 2 .. Len(r) : r[j] = q[j - 1]
    BY <1>1
  <1>3. Distinct(r)
    <2>. SUFFICES ASSUME NEW j \in 1 .. Len(r), NEW k \in 1 .. Len(r), r[j] = r[k]
                  PROVE  j = k
      BY <1>2 DEF Distinct
    <2>1. \A i \in 2 .. Len(r) : i - 1 \in 1 .. Len(q) /\ r[i] = q[i - 1] /\ q[i - 1] # h
      BY <1>2 DEF Contains
    <2>2. CASE j = 1 \/ k = 1
      BY <1>2, <2>1, <2>2
    <2>3. CASE j # 1 /\ k # 1
      <3>1. j \in 2 .. Len(r) /\ k \in 2 .. Len(r)
        BY <1>2, <2>3
      <3>2. j - 1 = k - 1
        BY <2>1, <3>1 DEF Distinct
      <3>. QED  BY <3>2
    <2>. QED  BY <2>2, <2>3
  <1>4. \A g : Contains(r, g) <=> Contains(q, g) \/ g = h
    <2>1. \A i \in 1 .. Len(q) : i + 1 \in 2 .. Len(r) /\ r[i + 1] = q[i]
      BY <1>2
    <2>2. \A i \in 1 .. Len(r) : i = 1 \/ (i - 1 \in 1 .. Len(q) /\ r[i] = q[i - 1])
      BY <1>2
    <2>3. 1 \in 1 .. Len(r)
      BY <1>2
    <2>4. ASSUME NEW g, NEW i \in 1 .. Len(r), r[i] = g
          PROVE  Contains(q, g) \/ g = h
      BY <1>2, <2>2, <2>4 DEF Contains
    <2>5. ASSUME NEW g, NEW i \in 1 .. Len(q), q[i] = g
          PROVE  Contains(r, g)
      <3>1. i + 1 \in 1 .. Len(r) /\ r[i + 1] = g
        BY <1>2, <2>1, <2>5
      <3>. QED  BY <3>1 DEF Contains
    <2>6. Contains(r, h)
      BY <1>2, <2>3 DEF Contains
    <2>. QED  BY <2>4, <2>5, <2>6 DEF Contains
  <1>5. PICK p : p = Append(q, h)
    OBVIOUS
  <1>6. /\ p \in Seq(S) /\ Len(p) = Len(q) + 1 /\ Len(q) \in Nat
        /\ p[Len(p)] = h /\ \A j \in 1 .. Len(q) : p[j] = q[j]
    BY <1>5
  <1>7. Distinct(p)
    <2>. SUFFICES ASSUME NEW j \in 1 .. Len(p), NEW k \in 1 .. Len(p), p[j] = p[k]
                  PROVE  j = k
      BY <1>6 DEF Distinct
    <2>1. \A i \in 1 .. Len(q) : p[i] = q[i] /\ q[i] # h
      BY <1>6 DEF Contains
    <2>2. CASE j = Len(p) \/ k = Len(p)
      BY <1>6, <2>1, <2>2
    <2>3. CASE j # Len(p) /\ k # Len(p)
      <3>1. j \in 1 .. Len(q) /\ k \in 1 .. Len(q)
        BY <1>6, <2>3
      <3>. QED  BY <2>1, <3>1 DEF Distinct
    <2>. QED  BY <2>2, <2>3
  <1>8. \A g : Contains(p, g) <=> Contains(q, g) \/ g = h
    <2>1. Len(p) \in 1 .. Len(p) /\ \A i \in 1 .. Len(p) : i = Len(p) \/ i \in 1 .. Len(q)
      BY <1>6
    <2>2. \A i \in 1 .. Len(q) : i \in 1 .. Len(p)
      BY <1>6
    <2>. QED  BY <1>6, <2>1, <2>2 DEF Contains
  <1>. QED  BY <1>1, <1>2, <1>3, <1>4, <1>5, <1>6, <1>7, <1>8

-----------------------------------------------------------------------------
(* The counters.                                                           *)

(* There are finitely many statements and sessions to count.               *)
LEMMA CountFinite ==
    ASSUME NEW c, NEW h
    PROVE  /\ IsFiniteSet(Users(c, h)) /\ IsFiniteSet(Served(c, h))
           /\ Cardinality(Users(c, h)) \in Nat /\ Cardinality(Served(c, h)) \in Nat
  <1>1. IsFiniteSet(Stmts) /\ IsFiniteSet(Sids)
    <2>1. 0 \in Int /\ MaxSid \in Int
      BY ParametersAssumption
    <2>2. IsFiniteSet(0 .. MaxSid)
      BY <2>1, FS_Interval, Zenon
    <2>. QED  BY <2>2, ParametersAssumption DEF Sids
  <1>2. Users(c, h) \subseteq Stmts /\ Served(c, h) \subseteq Sids
    BY DEF Users, Served
  <1>3. IsFiniteSet(Users(c, h)) /\ IsFiniteSet(Served(c, h))
    BY <1>1, <1>2, FS_Subset
  <1>. QED  BY <1>3, FS_CardinalityType

(* One less.                                                               *)
LEMMA Fewer ==
    ASSUME NEW A, IsFiniteSet(A), NEW x \in A
    PROVE  Cardinality(A \ {x}) = Cardinality(A) - 1 /\ Cardinality(A) > 0
  <1>1. Cardinality(A \ {x}) = Cardinality(A) - 1 /\ IsFiniteSet(A \ {x})
    BY FS_RemoveElement
  <1>2. Cardinality(A) \in Nat /\ Cardinality(A \ {x}) \in Nat
    BY <1>1, FS_CardinalityType
  <1>. QED  BY <1>1, <1>2

(* One more.                                                               *)
LEMMA More ==
    ASSUME NEW A, IsFiniteSet(A), NEW x, x \notin A
    PROVE  Cardinality(A \cup {x}) = Cardinality(A) + 1
  BY FS_AddElement

(* What a statement, a session or a list refers to has not been freed.     *)
LEMMA Positive ==
    ASSUME NEW c \in Connection, Counted(c), NEW h \in Handles,
           Users(c, h) # {} \/ Served(c, h) # {} \/ Listed(c, h)
    PROVE  c.ref_count[h] > 0
  <1>1. c.ref_count[h] = Cardinality(Users(c, h)) + Cardinality(Served(c, h)) + IF Listed(c, h) THEN 1 ELSE 0
    BY DEF Counted, Count
  <1>2. /\ IsFiniteSet(Users(c, h)) /\ IsFiniteSet(Served(c, h))
        /\ Cardinality(Users(c, h)) \in Nat /\ Cardinality(Served(c, h)) \in Nat
    BY CountFinite
  <1>3. CASE Users(c, h) # {}
    <2>1. Cardinality(Users(c, h)) > 0
      BY <1>2, <1>3, Fewer
    <2>. QED  BY <1>1, <1>2, <2>1
  <1>4. CASE Served(c, h) # {}
    <2>1. Cardinality(Served(c, h)) > 0
      BY <1>2, <1>4, Fewer
    <2>. QED  BY <1>1, <1>2, <2>1
  <1>5. CASE Listed(c, h)
    BY <1>1, <1>2, <1>5
  <1>. QED  BY <1>3, <1>4, <1>5

(* So whatever is released has a reference to give back: no counter goes   *)
(* below 0.                                                                *)
LEMMA Positives ==
    ASSUME NEW c \in Connection, Counted(c)
    PROVE  /\ \A s \in Stmts : c.dyn[s] # None => c.ref_count[c.dyn[s]] > 0
           /\ \A s \in Stmts : c.cursor[s] # None => c.ref_count[c.cursor[s]] > 0
           /\ \A x \in Sids : c.cur_dyn[x] # None => c.ref_count[c.cur_dyn[x]] > 0
           /\ \A x \in Sids : c.cur_cursor[x] # None => c.ref_count[c.cur_cursor[x]] > 0
  <1>1. /\ \A s \in Stmts : c.dyn[s] # None => c.dyn[s] \in Handles /\ s \in Users(c, c.dyn[s])
        /\ \A s \in Stmts : c.cursor[s] # None => c.cursor[s] \in Handles /\ s \in Users(c, c.cursor[s])
        /\ \A x \in Sids : c.cur_dyn[x] # None => c.cur_dyn[x] \in Handles /\ x \in Served(c, c.cur_dyn[x])
        /\ \A x \in Sids : c.cur_cursor[x] # None => c.cur_cursor[x] \in Handles /\ x \in Served(c, c.cur_cursor[x])
    BY DEF Connection, Handles, Users, Served
  <1>2. \A h \in Handles : Users(c, h) # {} \/ Served(c, h) # {} => c.ref_count[h] > 0
    BY Positive
  <1>. QED  BY <1>1, <1>2

(* A handle nobody refers to.                                              *)
Unused(c, g) ==
    /\ \A s \in Stmts : c.dyn[s] # g /\ c.cursor[s] # g
    /\ \A x \in Sids : c.cur_dyn[x] # g /\ c.cur_cursor[x] # g
    /\ ~Contains(c.dyns, g) /\ ~Contains(c.cursors, g)

(* A handle is freed exactly when nobody refers to it.                     *)
LEMMA FreedIsUnused ==
    ASSUME NEW c \in Connection, Counted(c), NEW g \in Handles
    PROVE  Unused(c, g) <=> c.ref_count[g] = 0
  <1>1. c.ref_count[g] = Cardinality(Users(c, g)) + Cardinality(Served(c, g)) + IF Listed(c, g) THEN 1 ELSE 0
    BY DEF Counted, Count
  <1>2. ASSUME Unused(c, g) PROVE c.ref_count[g] = 0
    <2>1. Users(c, g) = {} /\ Served(c, g) = {} /\ ~Listed(c, g)
      BY <1>2 DEF Unused, Users, Served, Listed
    <2>. QED  BY <1>1, <2>1, FS_EmptySet
  <1>3. ASSUME c.ref_count[g] = 0 PROVE Unused(c, g)
    <2>1. Users(c, g) = {} /\ Served(c, g) = {} /\ ~Listed(c, g)
      BY <1>3, Positive
    <2>. QED  BY <2>1 DEF Unused, Users, Served, Listed
  <1>. QED  BY <1>2, <1>3

(* The counters only depend on who refers to what.                         *)
LEMMA SameCounts ==
    ASSUME NEW c, NEW r, Counted(c), SameHeld(r, c), SameServed(r, c), SameLists(r, c),
           r.ref_count = c.ref_count
    PROVE  Counted(r)
  <1>1. \A h : Users(r, h) = Users(c, h) /\ Served(r, h) = Served(c, h) /\ (Listed(r, h) <=> Listed(c, h))
    BY DEF SameHeld, SameServed, SameLists, Users, Served, Listed
  <1>2. \A h : Count(r, h) = Count(c, h)
    BY <1>1 DEF Count
  <1>. QED  BY <1>2 DEF Counted, SameLists

-----------------------------------------------------------------------------
(* The operators on handles, now that the counters are right.              *)

(* The counters are right after a statement let go of its prepared         *)
(* statement.                                                              *)
LEMMA ReleasedDyn ==
    ASSUME NEW c \in Connection, Counted(c), NEW s \in Stmts, NEW r, r = ReleaseDyn(c, s)
    PROVE  /\ r \in Connection /\ Counted(r)
           /\ SameOwners(r, c) /\ SameStates(r, c) /\ SameServed(r, c)
           /\ SameLists(r, c) /\ SameCloses(r, c) /\ r.known = c.known
           /\ r.dyn = [c.dyn EXCEPT ![s] = None] /\ r.cursor = c.cursor
  <1>1. /\ r \in Connection
        /\ SameOwners(r, c) /\ SameStates(r, c) /\ SameServed(r, c)
        /\ SameLists(r, c) /\ SameCloses(r, c) /\ r.known = c.known
        /\ r.dyn = [c.dyn EXCEPT ![s] = None] /\ r.cursor = c.cursor
        /\ r.ref_count = [g \in Handles |-> IF g = c.dyn[s] THEN c.ref_count[g] - 1 ELSE c.ref_count[g]]
    BY Positives, ReleaseDynIs
  <1>2. ASSUME NEW h \in Handles PROVE r.ref_count[h] = Count(r, h)
    <2>1. Served(r, h) = Served(c, h) /\ (Listed(r, h) <=> Listed(c, h))
      BY <1>1 DEF SameServed, SameLists, Served, Listed
    <2>2. c.ref_count[h] = Cardinality(Users(c, h)) + Cardinality(Served(c, h)) + IF Listed(c, h) THEN 1 ELSE 0
      BY DEF Counted, Count
    <2>3. /\ IsFiniteSet(Users(c, h))
          /\ Cardinality(Users(c, h)) \in Nat /\ Cardinality(Served(c, h)) \in Nat
      BY CountFinite
    <2>4. CASE h = c.dyn[s]
      <3>1. c.cursor[s] # h /\ None # h
        BY <2>4, HandleKinds DEF Connection
      <3>2. Users(r, h) = Users(c, h) \ {s} /\ s \in Users(c, h)
        BY <1>1, <2>4, <3>1 DEF Users, Connection
      <3>3. Cardinality(Users(r, h)) = Cardinality(Users(c, h)) - 1
        BY <2>3, <3>2, Fewer
      <3>. QED  BY <1>1, <2>1, <2>2, <2>3, <2>4, <3>3 DEF Count
    <2>5. CASE h # c.dyn[s]
      <3>1. None # h
        BY HandleKinds
      <3>2. Users(r, h) = Users(c, h)
        BY <1>1, <2>5, <3>1 DEF Users, Connection
      <3>. QED  BY <1>1, <2>1, <2>2, <2>5, <3>2 DEF Count
    <2>. QED  BY <2>4, <2>5
  <1>3. Distinct(r.dyns) /\ Distinct(r.cursors)
    BY <1>1 DEF Counted, SameLists
  <1>. QED  BY <1>1, <1>2, <1>3 DEF Counted

(* And after it let go of its cursor.                                      *)
LEMMA ReleasedCursor ==
    ASSUME NEW c \in Connection, Counted(c), NEW s \in Stmts, NEW r, r = ReleaseCursor(c, s)
    PROVE  /\ r \in Connection /\ Counted(r)
           /\ SameOwners(r, c) /\ SameStates(r, c) /\ SameServed(r, c)
           /\ SameLists(r, c) /\ SameCloses(r, c) /\ r.known = c.known
           /\ r.cursor = [c.cursor EXCEPT ![s] = None] /\ r.dyn = c.dyn
  <1>1. /\ r \in Connection
        /\ SameOwners(r, c) /\ SameStates(r, c) /\ SameServed(r, c)
        /\ SameLists(r, c) /\ SameCloses(r, c) /\ r.known = c.known
        /\ r.cursor = [c.cursor EXCEPT ![s] = None] /\ r.dyn = c.dyn
        /\ r.ref_count = [g \in Handles |-> IF g = c.cursor[s] THEN c.ref_count[g] - 1 ELSE c.ref_count[g]]
    BY Positives, ReleaseCursorIs
  <1>2. ASSUME NEW h \in Handles PROVE r.ref_count[h] = Count(r, h)
    <2>1. Served(r, h) = Served(c, h) /\ (Listed(r, h) <=> Listed(c, h))
      BY <1>1 DEF SameServed, SameLists, Served, Listed
    <2>2. c.ref_count[h] = Cardinality(Users(c, h)) + Cardinality(Served(c, h)) + IF Listed(c, h) THEN 1 ELSE 0
      BY DEF Counted, Count
    <2>3. /\ IsFiniteSet(Users(c, h))
          /\ Cardinality(Users(c, h)) \in Nat /\ Cardinality(Served(c, h)) \in Nat
      BY CountFinite
    <2>4. CASE h = c.cursor[s]
      <3>1. c.dyn[s] # h /\ None # h
        BY <2>4, HandleKinds DEF Connection
      <3>2. Users(r, h) = Users(c, h) \ {s} /\ s \in Users(c, h)
        BY <1>1, <2>4, <3>1 DEF Users, Connection
      <3>3. Cardinality(Users(r, h)) = Cardinality(Users(c, h)) - 1
        BY <2>3, <3>2, Fewer
      <3>. QED  BY <1>1, <2>1, <2>2, <2>3, <2>4, <3>3 DEF Count
    <2>5. CASE h # c.cursor[s]
      <3>1. None # h
        BY HandleKinds
      <3>2. Users(r, h) = Users(c, h)
        BY <1>1, <2>5, <3>1 DEF Users, Connection
      <3>. QED  BY <1>1, <2>1, <2>2, <2>5, <3>2 DEF Count
    <2>. QED  BY <2>4, <2>5
  <1>3. Distinct(r.dyns) /\ Distinct(r.cursors)
    BY <1>1 DEF Counted, SameLists
  <1>. QED  BY <1>1, <1>2, <1>3 DEF Counted

(* And after a session let go of the handles of its last request.          *)
LEMMA ReleasedCur ==
    ASSUME NEW c \in Connection, Counted(c), NEW x \in Sids, NEW r, r = ReleaseCur(c, x)
    PROVE  /\ r \in Connection /\ Counted(r)
           /\ SameOwners(r, c) /\ SameStates(r, c) /\ SameHeld(r, c)
           /\ SameLists(r, c) /\ SameCloses(r, c) /\ r.known = c.known
           /\ r.cur_dyn = [c.cur_dyn EXCEPT ![x] = None]
           /\ r.cur_cursor = [c.cur_cursor EXCEPT ![x] = None]
  <1>1. /\ r \in Connection
        /\ SameOwners(r, c) /\ SameStates(r, c) /\ SameHeld(r, c)
        /\ SameLists(r, c) /\ SameCloses(r, c) /\ r.known = c.known
        /\ r.cur_dyn = [c.cur_dyn EXCEPT ![x] = None]
        /\ r.cur_cursor = [c.cur_cursor EXCEPT ![x] = None]
        /\ r.ref_count = [g \in Handles |-> IF g \in {c.cur_dyn[x], c.cur_cursor[x]}
                                            THEN c.ref_count[g] - 1 ELSE c.ref_count[g]]
    BY Positives, ReleaseCurIs
  <1>2. ASSUME NEW h \in Handles PROVE r.ref_count[h] = Count(r, h)
    <2>1. Users(r, h) = Users(c, h) /\ (Listed(r, h) <=> Listed(c, h))
      BY <1>1 DEF SameHeld, SameLists, Users, Listed
    <2>2. c.ref_count[h] = Cardinality(Users(c, h)) + Cardinality(Served(c, h)) + IF Listed(c, h) THEN 1 ELSE 0
      BY DEF Counted, Count
    <2>3. /\ IsFiniteSet(Served(c, h))
          /\ Cardinality(Users(c, h)) \in Nat /\ Cardinality(Served(c, h)) \in Nat
      BY CountFinite
    <2>4. None # h
      BY HandleKinds
    <2>5. CASE h \in {c.cur_dyn[x], c.cur_cursor[x]}
      <3>1. Served(r, h) = Served(c, h) \ {x} /\ x \in Served(c, h)
        BY <1>1, <2>4, <2>5 DEF Served, Connection
      <3>2. Cardinality(Served(r, h)) = Cardinality(Served(c, h)) - 1
        BY <2>3, <3>1, Fewer
      <3>. QED  BY <1>1, <2>1, <2>2, <2>3, <2>5, <3>2 DEF Count
    <2>6. CASE h \notin {c.cur_dyn[x], c.cur_cursor[x]}
      <3>1. Served(r, h) = Served(c, h)
        BY <1>1, <2>4, <2>6 DEF Served, Connection
      <3>. QED  BY <1>1, <2>1, <2>2, <2>6, <3>1 DEF Count
    <2>. QED  BY <2>5, <2>6
  <1>3. Distinct(r.dyns) /\ Distinct(r.cursors)
    BY <1>1 DEF Counted, SameLists
  <1>. QED  BY <1>1, <1>2, <1>3 DEF Counted

(* A prepared statement is taken off the list.                             *)
LEMMA DynamicDeallocated ==
    ASSUME NEW c \in Connection, Counted(c), NEW h, NEW r, r = tds_dynamic_deallocated(c, h)
    PROVE  /\ r \in Connection /\ Counted(r)
           /\ SameOwners(r, c) /\ SameStates(r, c) /\ SameHeld(r, c) /\ SameServed(r, c) /\ SameCloses(r, c)
           /\ r.cursors = c.cursors /\ \A g : Contains(r.dyns, g) <=> Contains(c.dyns, g) /\ g # h
           /\ r.known \subseteq c.known /\ c.known \ {h} \subseteq r.known
  <1>1. CASE ~Contains(c.dyns, h)
    <2>1. r = c
      BY <1>1 DEF tds_dynamic_deallocated
    <2>. QED  BY <1>1, <2>1 DEF SameOwners, SameStates, SameHeld, SameServed, SameCloses
  <1>2. CASE Contains(c.dyns, h)
    <2>1. PICK q : q = RemoveFirst(c.dyns, h)
      OBVIOUS
    <2>2. c.dyns \in Seq(Dyns) /\ Distinct(c.dyns)
      BY DEF Counted, Connection
    <2>3. q \in Seq(Dyns) /\ Distinct(q) /\ \A g : Contains(q, g) <=> Contains(c.dyns, g) /\ g # h
      BY <1>2, <2>1, <2>2, RemoveFirstIs
    <2>4. h \in Dyns /\ h \in Handles
      BY <1>2, <2>2 DEF Contains, Handles
    <2>5. PICK e : e = [c EXCEPT !.dyns = RemoveFirst(@, h), !.known = @ \ {h}]
      OBVIOUS
    <2>6. e = [c EXCEPT !.dyns = q, !.known = c.known \ {h}]
      BY <2>1, <2>5
    <2>7. e \in Connection
      BY <2>3, <2>6 DEF Connection
    <2>8. /\ SameOwners(e, c) /\ SameStates(e, c) /\ SameHeld(e, c) /\ SameServed(e, c) /\ SameCloses(e, c)
          /\ e.cursors = c.cursors /\ e.dyns = q /\ e.known = c.known \ {h} /\ e.ref_count = c.ref_count
      BY <2>6 DEF Connection, SameOwners, SameStates, SameHeld, SameServed, SameCloses
    <2>9. r = Release(e, h)
      BY <1>2, <2>5 DEF tds_dynamic_deallocated
    <2>10. Listed(c, h) /\ c.ref_count[h] > 0
      <3>1. Listed(c, h)
        BY <1>2 DEF Listed
      <3>. QED  BY <2>4, <3>1, Positive
    <2>11. /\ r \in Connection
           /\ SameOwners(r, e) /\ SameStates(r, e) /\ SameHeld(r, e) /\ SameServed(r, e)
           /\ SameLists(r, e) /\ SameCloses(r, e) /\ r.known = e.known
           /\ r.ref_count = [g \in Handles |-> IF g = h THEN e.ref_count[g] - 1 ELSE e.ref_count[g]]
      BY <2>4, <2>7, <2>8, <2>9, <2>10, ReleaseIs
    <2>12. ASSUME NEW g \in Handles PROVE r.ref_count[g] = Count(r, g)
      <3>1. Users(r, g) = Users(c, g) /\ Served(r, g) = Served(c, g)
        BY <2>8, <2>11 DEF SameHeld, SameServed, Users, Served
      <3>2. c.ref_count[g] = Cardinality(Users(c, g)) + Cardinality(Served(c, g)) + IF Listed(c, g) THEN 1 ELSE 0
        BY DEF Counted, Count
      <3>3. Cardinality(Users(c, g)) \in Nat /\ Cardinality(Served(c, g)) \in Nat
        BY CountFinite
      <3>4. ~Contains(c.cursors, h)
        BY <2>4, HandleKinds DEF Contains, Connection
      <3>5. Listed(r, g) <=> Listed(c, g) /\ g # h
        BY <2>3, <2>8, <2>11, <3>4 DEF Listed, SameLists
      <3>. QED  BY <2>8, <2>10, <2>11, <3>1, <3>2, <3>3, <3>5 DEF Count
    <2>13. Counted(r)
      BY <2>3, <2>8, <2>11, <2>12 DEF Counted, SameLists
    <2>. QED  BY <2>3, <2>8, <2>11, <2>13
              DEF SameOwners, SameStates, SameHeld, SameServed, SameCloses, SameLists
  <1>. QED  BY <1>1, <1>2

(* A cursor is taken off the list.                                         *)
LEMMA CursorDeallocated ==
    ASSUME NEW c \in Connection, Counted(c), NEW h, NEW r, r = tds_cursor_deallocated(c, h)
    PROVE  /\ r \in Connection /\ Counted(r)
           /\ SameOwners(r, c) /\ SameStates(r, c) /\ SameHeld(r, c) /\ SameServed(r, c) /\ SameCloses(r, c)
           /\ r.dyns = c.dyns /\ \A g : Contains(r.cursors, g) <=> Contains(c.cursors, g) /\ g # h
           /\ r.known = c.known
  <1>1. CASE ~Contains(c.cursors, h)
    <2>1. r = c
      BY <1>1 DEF tds_cursor_deallocated
    <2>. QED  BY <1>1, <2>1 DEF SameOwners, SameStates, SameHeld, SameServed, SameCloses
  <1>2. CASE Contains(c.cursors, h)
    <2>1. PICK q : q = RemoveFirst(c.cursors, h)
      OBVIOUS
    <2>2. c.cursors \in Seq(Cursors) /\ Distinct(c.cursors)
      BY DEF Counted, Connection
    <2>3. q \in Seq(Cursors) /\ Distinct(q) /\ \A g : Contains(q, g) <=> Contains(c.cursors, g) /\ g # h
      BY <1>2, <2>1, <2>2, RemoveFirstIs
    <2>4. h \in Cursors /\ h \in Handles
      BY <1>2, <2>2 DEF Contains, Handles
    <2>5. PICK e : e = [c EXCEPT !.cursors = RemoveFirst(@, h)]
      OBVIOUS
    <2>6. e = [c EXCEPT !.cursors = q]
      BY <2>1, <2>5
    <2>7. e \in Connection
      BY <2>3, <2>6 DEF Connection
    <2>8. /\ SameOwners(e, c) /\ SameStates(e, c) /\ SameHeld(e, c) /\ SameServed(e, c) /\ SameCloses(e, c)
          /\ e.dyns = c.dyns /\ e.cursors = q /\ e.known = c.known /\ e.ref_count = c.ref_count
      BY <2>6 DEF Connection, SameOwners, SameStates, SameHeld, SameServed, SameCloses
    <2>9. r = Release(e, h)
      BY <1>2, <2>5 DEF tds_cursor_deallocated
    <2>10. Listed(c, h) /\ c.ref_count[h] > 0
      <3>1. Listed(c, h)
        BY <1>2 DEF Listed
      <3>. QED  BY <2>4, <3>1, Positive
    <2>11. /\ r \in Connection
           /\ SameOwners(r, e) /\ SameStates(r, e) /\ SameHeld(r, e) /\ SameServed(r, e)
           /\ SameLists(r, e) /\ SameCloses(r, e) /\ r.known = e.known
           /\ r.ref_count = [g \in Handles |-> IF g = h THEN e.ref_count[g] - 1 ELSE e.ref_count[g]]
      BY <2>4, <2>7, <2>8, <2>9, <2>10, ReleaseIs
    <2>12. ASSUME NEW g \in Handles PROVE r.ref_count[g] = Count(r, g)
      <3>1. Users(r, g) = Users(c, g) /\ Served(r, g) = Served(c, g)
        BY <2>8, <2>11 DEF SameHeld, SameServed, Users, Served
      <3>2. c.ref_count[g] = Cardinality(Users(c, g)) + Cardinality(Served(c, g)) + IF Listed(c, g) THEN 1 ELSE 0
        BY DEF Counted, Count
      <3>3. Cardinality(Users(c, g)) \in Nat /\ Cardinality(Served(c, g)) \in Nat
        BY CountFinite
      <3>4. ~Contains(c.dyns, h)
        BY <2>4, HandleKinds DEF Contains, Connection
      <3>5. Listed(r, g) <=> Listed(c, g) /\ g # h
        BY <2>3, <2>8, <2>11, <3>4 DEF Listed, SameLists
      <3>. QED  BY <2>8, <2>10, <2>11, <3>1, <3>2, <3>3, <3>5 DEF Count
    <2>13. Counted(r)
      BY <2>3, <2>8, <2>11, <2>12 DEF Counted, SameLists
    <2>. QED  BY <2>3, <2>8, <2>11, <2>13
              DEF SameOwners, SameStates, SameHeld, SameServed, SameCloses, SameLists
  <1>. QED  BY <1>1, <1>2

(* A statement gets a new prepared statement, which is put on the list.    *)
LEMMA NewDynIs ==
    ASSUME NEW c \in Connection, Counted(c), NEW s \in Stmts, NEW h \in Dyns, Unused(c, h),
           NEW r, r = NewDyn(c, s, h)
    PROVE  /\ r \in Connection /\ Counted(r)
           /\ SameOwners(r, c) /\ SameStates(r, c) /\ SameServed(r, c)
           /\ r.dyn = [c.dyn EXCEPT ![s] = h] /\ r.cursor = c.cursor
           /\ r.cursors = c.cursors /\ \A g : Contains(r.dyns, g) <=> Contains(c.dyns, g) \/ g = h
           /\ r.known = c.known \ {h} /\ r.defer_close = c.defer_close \ {h}
           /\ r.pending_close = c.pending_close /\ r.server = c.server
  <1>1. PICK e : e = ReleaseDyn(c, s)
    OBVIOUS
  <1>2. /\ e \in Connection /\ Counted(e)
        /\ SameOwners(e, c) /\ SameStates(e, c) /\ SameServed(e, c)
        /\ SameLists(e, c) /\ SameCloses(e, c) /\ e.known = c.known
        /\ e.dyn = [c.dyn EXCEPT ![s] = None] /\ e.cursor = c.cursor
    BY <1>1, ReleasedDyn
  <1>3. h \in Handles /\ h # None
    BY HandleKinds
  <1>4. Unused(e, h)
    BY <1>2, <1>3 DEF Unused, SameServed, SameLists, Connection
  <1>5. PICK q : q = <<h>> \o e.dyns
    OBVIOUS
  <1>6. q \in Seq(Dyns) /\ Distinct(q) /\ \A g : Contains(q, g) <=> Contains(e.dyns, g) \/ g = h
    <2>1. e.dyns \in Seq(Dyns) /\ Distinct(e.dyns) /\ ~Contains(e.dyns, h)
      BY <1>2, <1>4 DEF Connection, Counted, Unused
    <2>. QED  BY <1>5, <2>1, AddedIs
  <1>7. PICK a : a = tds_alloc_dynamic(e, h)
    OBVIOUS
  <1>8. a = [e EXCEPT !.ref_count[h] = 2, !.dyns = q, !.known = e.known \ {h}, !.defer_close = e.defer_close \ {h}]
    BY <1>5, <1>7 DEF tds_alloc_dynamic
  <1>9. r = [a EXCEPT !.dyn[s] = h]
    BY <1>1, <1>7, Zenon DEF NewDyn
  <1>10. /\ [e.ref_count EXCEPT ![h] = 2] \in [Handles -> Nat]
         /\ [e.dyn EXCEPT ![s] = h] \in [Stmts -> Dyns \cup {None}]
    BY <1>2, <1>3 DEF Connection
  <1>11. a \in Connection
    BY <1>2, <1>6, <1>8, <1>10 DEF Connection
  <1>12. /\ SameOwners(a, e) /\ SameStates(a, e) /\ SameHeld(a, e) /\ SameServed(a, e)
         /\ a.cursors = e.cursors /\ a.dyns = q /\ a.known = e.known \ {h}
         /\ a.defer_close = e.defer_close \ {h} /\ a.pending_close = e.pending_close /\ a.server = e.server
         /\ a.ref_count = [e.ref_count EXCEPT ![h] = 2]
    BY <1>2, <1>8 DEF Connection, SameOwners, SameStates, SameHeld, SameServed
  <1>13. a.dyn = e.dyn
    BY <1>12 DEF SameHeld
  <1>14. r \in Connection
    <2>1. r = [a EXCEPT !.dyn = [e.dyn EXCEPT ![s] = h]]
      BY <1>9, <1>13
    <2>. QED  BY <1>10, <1>11, <2>1 DEF Connection
  <1>15. /\ SameOwners(r, a) /\ SameStates(r, a) /\ SameServed(r, a) /\ SameLists(r, a) /\ SameCloses(r, a)
         /\ r.dyn = [e.dyn EXCEPT ![s] = h] /\ r.cursor = a.cursor
         /\ r.known = a.known /\ r.ref_count = a.ref_count
    BY <1>9, <1>11, <1>13 DEF Connection, SameOwners, SameStates, SameServed, SameLists, SameCloses
  <1>16. ASSUME NEW g \in Handles PROVE r.ref_count[g] = Count(r, g)
    <2>1. Served(r, g) = Served(e, g)
      BY <1>12, <1>15 DEF SameServed, Served
    <2>2. e.ref_count[g] = Cardinality(Users(e, g)) + Cardinality(Served(e, g)) + IF Listed(e, g) THEN 1 ELSE 0
      BY <1>2 DEF Counted, Count
    <2>3. r.ref_count[g] = IF g = h THEN 2 ELSE e.ref_count[g]
      BY <1>2, <1>12, <1>15 DEF Connection
    <2>4. Listed(r, g) <=> Listed(e, g) \/ g = h
      BY <1>6, <1>12, <1>15 DEF Listed, SameLists
    <2>5. r.cursor = e.cursor
      BY <1>12, <1>15 DEF SameHeld
    <2>6. g # None /\ e.dyn[s] = None
      BY <1>2, HandleKinds DEF Connection
    <2>7. CASE g # h
      <3>1. Users(r, g) = Users(e, g)
        BY <1>2, <1>15, <2>5, <2>6, <2>7 DEF Users, Connection
      <3>. QED  BY <2>1, <2>2, <2>3, <2>4, <2>7, <3>1 DEF Count
    <2>8. CASE g = h
      <3>1. Users(r, g) = {s}
        BY <1>2, <1>4, <1>15, <2>5, <2>8 DEF Users, Connection, Unused
      <3>2. Served(r, g) = {}
        BY <1>4, <2>1, <2>8 DEF Served, Unused
      <3>3. Cardinality({s}) = 1 /\ Cardinality({}) = 0
        BY FS_Singleton, FS_EmptySet
      <3>. QED  BY <2>3, <2>4, <2>8, <3>1, <3>2, <3>3 DEF Count
    <2>. QED  BY <2>7, <2>8
  <1>17. Distinct(r.dyns) /\ Distinct(r.cursors)
    BY <1>2, <1>6, <1>12, <1>15 DEF Counted, SameLists
  <1>18. Counted(r)
    BY <1>16, <1>17 DEF Counted
  <1>19. r.dyn = [c.dyn EXCEPT ![s] = h]
    BY <1>2, <1>15 DEF Connection
  <1>20. \A g : Contains(r.dyns, g) <=> Contains(c.dyns, g) \/ g = h
    BY <1>2, <1>6, <1>12, <1>15 DEF SameLists
  <1>. QED  BY <1>2, <1>12, <1>14, <1>15, <1>18, <1>19, <1>20
            DEF SameOwners, SameStates, SameHeld, SameServed, SameLists, SameCloses

(* A statement gets a new cursor, which is put on the list.                *)
LEMMA NewCursorIs ==
    ASSUME NEW c \in Connection, Counted(c), NEW s \in Stmts, NEW h \in Cursors, Unused(c, h),
           NEW r, r = NewCursor(c, s, h)
    PROVE  /\ r \in Connection /\ Counted(r)
           /\ SameOwners(r, c) /\ SameStates(r, c) /\ SameServed(r, c)
           /\ r.cursor = [c.cursor EXCEPT ![s] = h] /\ r.dyn = c.dyn
           /\ r.dyns = c.dyns /\ \A g : Contains(r.cursors, g) <=> Contains(c.cursors, g) \/ g = h
           /\ r.known = c.known \ {h} /\ r.defer_close = c.defer_close \ {h}
           /\ r.pending_close = c.pending_close /\ r.server = c.server
  <1>1. PICK e : e = ReleaseCursor(c, s)
    OBVIOUS
  <1>2. /\ e \in Connection /\ Counted(e)
        /\ SameOwners(e, c) /\ SameStates(e, c) /\ SameServed(e, c)
        /\ SameLists(e, c) /\ SameCloses(e, c) /\ e.known = c.known
        /\ e.cursor = [c.cursor EXCEPT ![s] = None] /\ e.dyn = c.dyn
    BY <1>1, ReleasedCursor
  <1>3. h \in Handles /\ h # None
    BY HandleKinds
  <1>4. Unused(e, h)
    BY <1>2, <1>3 DEF Unused, SameServed, SameLists, Connection
  <1>5. PICK q : q = Append(e.cursors, h)
    OBVIOUS
  <1>6. q \in Seq(Cursors) /\ Distinct(q) /\ \A g : Contains(q, g) <=> Contains(e.cursors, g) \/ g = h
    <2>1. e.cursors \in Seq(Cursors) /\ Distinct(e.cursors) /\ ~Contains(e.cursors, h)
      BY <1>2, <1>4 DEF Connection, Counted, Unused
    <2>. QED  BY <1>5, <2>1, AddedIs
  <1>7. PICK a : a = tds_alloc_cursor(e, h)
    OBVIOUS
  <1>8. a = [e EXCEPT !.ref_count[h] = 2, !.cursors = q, !.known = e.known \ {h}, !.defer_close = e.defer_close \ {h}]
    BY <1>5, <1>7 DEF tds_alloc_cursor
  <1>9. r = [a EXCEPT !.cursor[s] = h]
    BY <1>1, <1>7, Zenon DEF NewCursor
  <1>10. /\ [e.ref_count EXCEPT ![h] = 2] \in [Handles -> Nat]
         /\ [e.cursor EXCEPT ![s] = h] \in [Stmts -> Cursors \cup {None}]
    BY <1>2, <1>3 DEF Connection
  <1>11. a \in Connection
    BY <1>2, <1>6, <1>8, <1>10 DEF Connection
  <1>12. /\ SameOwners(a, e) /\ SameStates(a, e) /\ SameHeld(a, e) /\ SameServed(a, e)
         /\ a.dyns = e.dyns /\ a.cursors = q /\ a.known = e.known \ {h}
         /\ a.defer_close = e.defer_close \ {h} /\ a.pending_close = e.pending_close /\ a.server = e.server
         /\ a.ref_count = [e.ref_count EXCEPT ![h] = 2]
    BY <1>2, <1>8 DEF Connection, SameOwners, SameStates, SameHeld, SameServed
  <1>13. a.cursor = e.cursor
    BY <1>12 DEF SameHeld
  <1>14. r \in Connection
    <2>1. r = [a EXCEPT !.cursor = [e.cursor EXCEPT ![s] = h]]
      BY <1>9, <1>13
    <2>. QED  BY <1>10, <1>11, <2>1 DEF Connection
  <1>15. /\ SameOwners(r, a) /\ SameStates(r, a) /\ SameServed(r, a) /\ SameLists(r, a) /\ SameCloses(r, a)
         /\ r.cursor = [e.cursor EXCEPT ![s] = h] /\ r.dyn = a.dyn
         /\ r.known = a.known /\ r.ref_count = a.ref_count
    BY <1>9, <1>11, <1>13 DEF Connection, SameOwners, SameStates, SameServed, SameLists, SameCloses
  <1>16. ASSUME NEW g \in Handles PROVE r.ref_count[g] = Count(r, g)
    <2>1. Served(r, g) = Served(e, g)
      BY <1>12, <1>15 DEF SameServed, Served
    <2>2. e.ref_count[g] = Cardinality(Users(e, g)) + Cardinality(Served(e, g)) + IF Listed(e, g) THEN 1 ELSE 0
      BY <1>2 DEF Counted, Count
    <2>3. r.ref_count[g] = IF g = h THEN 2 ELSE e.ref_count[g]
      BY <1>2, <1>12, <1>15 DEF Connection
    <2>4. Listed(r, g) <=> Listed(e, g) \/ g = h
      BY <1>6, <1>12, <1>15 DEF Listed, SameLists
    <2>5. r.dyn = e.dyn
      BY <1>12, <1>15 DEF SameHeld
    <2>6. g # None /\ e.cursor[s] = None
      BY <1>2, HandleKinds DEF Connection
    <2>7. CASE g # h
      <3>1. Users(r, g) = Users(e, g)
        BY <1>2, <1>15, <2>5, <2>6, <2>7 DEF Users, Connection
      <3>. QED  BY <2>1, <2>2, <2>3, <2>4, <2>7, <3>1 DEF Count
    <2>8. CASE g = h
      <3>1. Users(r, g) = {s}
        BY <1>2, <1>4, <1>15, <2>5, <2>8 DEF Users, Connection, Unused
      <3>2. Served(r, g) = {}
        BY <1>4, <2>1, <2>8 DEF Served, Unused
      <3>3. Cardinality({s}) = 1 /\ Cardinality({}) = 0
        BY FS_Singleton, FS_EmptySet
      <3>. QED  BY <2>3, <2>4, <2>8, <3>1, <3>2, <3>3 DEF Count
    <2>. QED  BY <2>7, <2>8
  <1>17. Distinct(r.dyns) /\ Distinct(r.cursors)
    BY <1>2, <1>6, <1>12, <1>15 DEF Counted, SameLists
  <1>18. Counted(r)
    BY <1>16, <1>17 DEF Counted
  <1>19. r.cursor = [c.cursor EXCEPT ![s] = h]
    BY <1>2, <1>15 DEF Connection
  <1>20. \A g : Contains(r.cursors, g) <=> Contains(c.cursors, g) \/ g = h
    BY <1>2, <1>6, <1>12, <1>15 DEF SameLists
  <1>. QED  BY <1>2, <1>12, <1>14, <1>15, <1>18, <1>19, <1>20
            DEF SameOwners, SameStates, SameHeld, SameServed, SameLists, SameCloses

(* What a request changes.                                                 *)
Submitted(r, c, s, x, op, h) ==
    /\ SameOwners(r, c) /\ SameHeld(r, c) /\ SameLists(r, c) /\ r.known = c.known
    /\ r.defer_close = c.defer_close /\ r.pending_close = c.pending_close
    /\ r.state = [c.state EXCEPT ![x] = "PENDING"]
    /\ r.current_op = [c.current_op EXCEPT ![x] = op]
    /\ r.asker = [c.asker EXCEPT ![x] = s]
    /\ r.cur_dyn = [c.cur_dyn EXCEPT ![x] = IF h \in Dyns THEN h ELSE None]
    /\ r.cur_cursor = [c.cur_cursor EXCEPT ![x] = IF h \in Cursors THEN h ELSE None]
    /\ r.server = IF op \in {"unprepare", "cursorclose"} THEN c.server \ {h} ELSE c.server

(* A request: the session refers to the handle it is about, and to no      *)
(* other.                                                                  *)
LEMMA SubmitIs ==
    ASSUME NEW c \in Connection, Counted(c), NEW s \in Stmts \cup {None}, NEW x \in Sids,
           NEW op \in Ops, NEW h \in Handles \cup {None}, NEW r, r = Submit(c, s, x, op, h)
    PROVE  r \in Connection /\ Counted(r) /\ Submitted(r, c, s, x, op, h)
  <1>1. PICK e : e = ReleaseCur(c, x)
    OBVIOUS
  <1>2. /\ e \in Connection /\ Counted(e)
        /\ SameOwners(e, c) /\ SameStates(e, c) /\ SameHeld(e, c)
        /\ SameLists(e, c) /\ SameCloses(e, c) /\ e.known = c.known
        /\ e.cur_dyn = [c.cur_dyn EXCEPT ![x] = None]
        /\ e.cur_cursor = [c.cur_cursor EXCEPT ![x] = None]
    BY <1>1, ReleasedCur
  <1>3. PICK a : a = IF h = None THEN e ELSE [e EXCEPT !.ref_count[h] = @ + 1]
    OBVIOUS
  <1>4. /\ a \in Connection
        /\ SameOwners(a, e) /\ SameStates(a, e) /\ SameHeld(a, e) /\ SameServed(a, e)
        /\ SameLists(a, e) /\ SameCloses(a, e) /\ a.known = e.known
        /\ \A g \in Handles : a.ref_count[g] = IF g = h THEN e.ref_count[g] + 1 ELSE e.ref_count[g]
    <2>1. CASE h = None
      BY <1>2, <1>3, <2>1, HandleKinds DEF SameOwners, SameStates, SameHeld, SameServed, SameLists, SameCloses
    <2>2. CASE h # None
      <3>1. a = [e EXCEPT !.ref_count[h] = @ + 1]
        BY <1>3, <2>2
      <3>2. PICK n : n = [e.ref_count EXCEPT ![h] = @ + 1]
        OBVIOUS
      <3>3. n \in [Handles -> Nat] /\ \A g \in Handles : n[g] = IF g = h THEN e.ref_count[g] + 1 ELSE e.ref_count[g]
        BY <1>2, <2>2, <3>2 DEF Connection
      <3>4. a = [e EXCEPT !.ref_count = n]
        BY <3>1, <3>2
      <3>5. a \in Connection
        BY <1>2, <3>3, <3>4 DEF Connection
      <3>6. /\ SameOwners(a, e) /\ SameStates(a, e) /\ SameHeld(a, e) /\ SameServed(a, e)
            /\ SameLists(a, e) /\ SameCloses(a, e) /\ a.known = e.known /\ a.ref_count = n
        BY <1>2, <3>4 DEF Connection, SameOwners, SameStates, SameHeld, SameServed, SameLists, SameCloses
      <3>. QED  BY <3>3, <3>5, <3>6
    <2>. QED  BY <2>1, <2>2
  <1>5. r = [a EXCEPT !.state[x] = "PENDING", !.current_op[x] = op, !.asker[x] = s,
                      !.cur_dyn[x] = IF h \in Dyns THEN h ELSE None,
                      !.cur_cursor[x] = IF h \in Cursors THEN h ELSE None,
                      !.server = IF op \in {"unprepare", "cursorclose"} THEN @ \ {h} ELSE @]
    BY <1>1, <1>3, Zenon DEF Submit
  <1>6. PICK kd, kc, sv : /\ kd = IF h \in Dyns THEN h ELSE None
                          /\ kc = IF h \in Cursors THEN h ELSE None
                          /\ sv = IF op \in {"unprepare", "cursorclose"} THEN a.server \ {h} ELSE a.server
    OBVIOUS
  <1>7. kd \in Dyns \cup {None} /\ kc \in Cursors \cup {None} /\ sv \in SUBSET Handles
    BY <1>4, <1>6 DEF Connection
  <1>8. r = [a EXCEPT !.state = [a.state EXCEPT ![x] = "PENDING"],
                      !.current_op = [a.current_op EXCEPT ![x] = op],
                      !.asker = [a.asker EXCEPT ![x] = s],
                      !.cur_dyn = [a.cur_dyn EXCEPT ![x] = kd],
                      !.cur_cursor = [a.cur_cursor EXCEPT ![x] = kc], !.server = sv]
    BY <1>5, <1>6
  <1>9. /\ [a.state EXCEPT ![x] = "PENDING"] \in [Sids -> {"free", "IDLE", "PENDING", "DEAD"}]
        /\ [a.current_op EXCEPT ![x] = op] \in [Sids -> Ops]
        /\ [a.asker EXCEPT ![x] = s] \in [Sids -> Stmts \cup {None}]
        /\ [a.cur_dyn EXCEPT ![x] = kd] \in [Sids -> Dyns \cup {None}]
        /\ [a.cur_cursor EXCEPT ![x] = kc] \in [Sids -> Cursors \cup {None}]
    BY <1>4, <1>7 DEF Connection
  <1>10. r \in Connection
    <2>1. PICK st, co, as, cd, cc : /\ st = [a.state EXCEPT ![x] = "PENDING"]
                                    /\ co = [a.current_op EXCEPT ![x] = op]
                                    /\ as = [a.asker EXCEPT ![x] = s]
                                    /\ cd = [a.cur_dyn EXCEPT ![x] = kd]
                                    /\ cc = [a.cur_cursor EXCEPT ![x] = kc]
      OBVIOUS
    <2>2. r = [a EXCEPT !.state = st, !.current_op = co, !.asker = as, !.cur_dyn = cd, !.cur_cursor = cc, !.server = sv]
      BY <1>8, <2>1
    <2>3. /\ st \in [Sids -> {"free", "IDLE", "PENDING", "DEAD"}] /\ co \in [Sids -> Ops]
          /\ as \in [Sids -> Stmts \cup {None}] /\ cd \in [Sids -> Dyns \cup {None}]
          /\ cc \in [Sids -> Cursors \cup {None}]
      BY <1>9, <2>1
    <2>4. PICK b : b = [a EXCEPT !.state = st, !.current_op = co, !.asker = as]
      OBVIOUS
    <2>5. b \in Connection
      BY <1>4, <2>3, <2>4 DEF Connection
    <2>6. PICK f : f = [b EXCEPT !.cur_dyn = cd, !.cur_cursor = cc]
      OBVIOUS
    <2>7. f \in Connection
      BY <2>3, <2>5, <2>6 DEF Connection
    <2>8. r = [f EXCEPT !.server = sv]
      BY <2>2, <2>4, <2>6
    <2>. QED  BY <1>7, <2>7, <2>8 DEF Connection
  <1>11. /\ SameOwners(r, a) /\ SameHeld(r, a) /\ SameLists(r, a) /\ r.known = a.known
         /\ r.defer_close = a.defer_close /\ r.pending_close = a.pending_close
         /\ r.ref_count = a.ref_count
         /\ r.state = [a.state EXCEPT ![x] = "PENDING"]
         /\ r.current_op = [a.current_op EXCEPT ![x] = op]
         /\ r.asker = [a.asker EXCEPT ![x] = s]
         /\ r.cur_dyn = [a.cur_dyn EXCEPT ![x] = kd]
         /\ r.cur_cursor = [a.cur_cursor EXCEPT ![x] = kc]
         /\ r.server = sv
    BY <1>4, <1>8 DEF Connection, SameOwners, SameHeld, SameLists
  <1>12. /\ r.cur_dyn = [c.cur_dyn EXCEPT ![x] = kd]
         /\ r.cur_cursor = [c.cur_cursor EXCEPT ![x] = kc]
         /\ e.cur_dyn[x] = None /\ e.cur_cursor[x] = None
    <2>1. a.cur_dyn = [c.cur_dyn EXCEPT ![x] = None] /\ a.cur_cursor = [c.cur_cursor EXCEPT ![x] = None]
      BY <1>2, <1>4 DEF SameServed
    <2>2. c.cur_dyn \in [Sids -> Dyns \cup {None}] /\ c.cur_cursor \in [Sids -> Cursors \cup {None}]
      BY DEF Connection
    <2>3. r.cur_dyn = [c.cur_dyn EXCEPT ![x] = kd]
      BY <1>11, <2>1, <2>2
    <2>4. r.cur_cursor = [c.cur_cursor EXCEPT ![x] = kc]
      BY <1>11, <2>1, <2>2
    <2>5. e.cur_dyn[x] = None /\ e.cur_cursor[x] = None
      BY <1>2, <2>2
    <2>. QED  BY <2>3, <2>4, <2>5
  <1>13. ASSUME NEW g \in Handles PROVE r.ref_count[g] = Count(r, g)
    <2>1. Users(r, g) = Users(e, g) /\ (Listed(r, g) <=> Listed(e, g))
      BY <1>4, <1>11 DEF SameHeld, SameLists, Users, Listed
    <2>2. e.ref_count[g] = Cardinality(Users(e, g)) + Cardinality(Served(e, g)) + IF Listed(e, g) THEN 1 ELSE 0
      BY <1>2 DEF Counted, Count
    <2>3. /\ IsFiniteSet(Served(e, g))
          /\ Cardinality(Users(e, g)) \in Nat /\ Cardinality(Served(e, g)) \in Nat
      BY CountFinite
    <2>4. None # g
      BY HandleKinds
    <2>5. r.cur_dyn = [e.cur_dyn EXCEPT ![x] = kd] /\ r.cur_cursor = [e.cur_cursor EXCEPT ![x] = kc]
      BY <1>4, <1>11 DEF SameServed
    <2>6. g \in {kd, kc} <=> g = h
      BY <1>6, <2>4 DEF Handles
    <2>7. CASE g = h
      <3>1. Served(r, g) = Served(e, g) \cup {x} /\ x \notin Served(e, g)
        BY <1>2, <1>12, <2>4, <2>5, <2>6, <2>7 DEF Served, Connection
      <3>2. Cardinality(Served(r, g)) = Cardinality(Served(e, g)) + 1
        BY <2>3, <3>1, More
      <3>. QED  BY <1>4, <1>11, <2>1, <2>2, <2>3, <2>7, <3>2 DEF Count
    <2>8. CASE g # h
      <3>1. Served(r, g) = Served(e, g)
        BY <1>2, <1>12, <2>4, <2>5, <2>6, <2>8 DEF Served, Connection
      <3>. QED  BY <1>4, <1>11, <2>1, <2>2, <2>8, <3>1 DEF Count
    <2>. QED  BY <2>7, <2>8
  <1>14. Distinct(r.dyns) /\ Distinct(r.cursors)
    BY <1>2, <1>4, <1>11 DEF Counted, SameLists
  <1>15. Counted(r)
    BY <1>13, <1>14 DEF Counted
  <1>. QED  BY <1>2, <1>4, <1>6, <1>10, <1>11, <1>12, <1>15
            DEF Submitted, SameOwners, SameStates, SameHeld, SameLists, SameCloses

(* A session is freed.                                                     *)
SocketFreed(r, c, x) ==
    /\ SameOwners(r, c) /\ SameHeld(r, c) /\ SameLists(r, c) /\ SameCloses(r, c) /\ r.known = c.known
    /\ r.state = [c.state EXCEPT ![x] = "free"]
    /\ r.current_op = [c.current_op EXCEPT ![x] = "none"] /\ r.asker = c.asker
    /\ r.cur_dyn = [c.cur_dyn EXCEPT ![x] = None]
    /\ r.cur_cursor = [c.cur_cursor EXCEPT ![x] = None]

(* tds_free_socket() keeps the counters right.                             *)
LEMMA FreeSocketIs ==
    ASSUME NEW c \in Connection, Counted(c), NEW x \in Sids, NEW r, r = tds_free_socket(c, x)
    PROVE  r \in Connection /\ Counted(r) /\ SocketFreed(r, c, x)
  <1>1. PICK e : e = ReleaseCur(c, x)
    OBVIOUS
  <1>2. /\ e \in Connection /\ Counted(e)
        /\ SameOwners(e, c) /\ SameStates(e, c) /\ SameHeld(e, c)
        /\ SameLists(e, c) /\ SameCloses(e, c) /\ e.known = c.known
        /\ e.cur_dyn = [c.cur_dyn EXCEPT ![x] = None]
        /\ e.cur_cursor = [c.cur_cursor EXCEPT ![x] = None]
    BY <1>1, ReleasedCur
  <1>3. r = [e EXCEPT !.state[x] = "free", !.current_op[x] = "none"]
    BY <1>1, Zenon DEF tds_free_socket
  <1>4. /\ [e.state EXCEPT ![x] = "free"] \in [Sids -> {"free", "IDLE", "PENDING", "DEAD"}]
        /\ [e.current_op EXCEPT ![x] = "none"] \in [Sids -> Ops]
    BY <1>2 DEF Connection, Ops
  <1>5. r \in Connection
    BY <1>2, <1>3, <1>4 DEF Connection
  <1>6. /\ SameOwners(r, e) /\ SameHeld(r, e) /\ SameServed(r, e) /\ SameLists(r, e) /\ SameCloses(r, e)
        /\ r.known = e.known /\ r.ref_count = e.ref_count /\ r.asker = e.asker
        /\ r.state = [e.state EXCEPT ![x] = "free"]
        /\ r.current_op = [e.current_op EXCEPT ![x] = "none"]
    BY <1>2, <1>3 DEF Connection, SameOwners, SameHeld, SameServed, SameLists, SameCloses
  <1>7. Counted(r)
    BY <1>2, <1>6, SameCounts
  <1>. QED  BY <1>2, <1>5, <1>6, <1>7
            DEF SocketFreed, SameOwners, SameStates, SameHeld, SameServed, SameLists, SameCloses

-----------------------------------------------------------------------------
(* The end of an answer.                                                   *)

(* The handle that the end of the answer on session x lets go of.          *)
Ends(c, x, g) ==
    \/ c.current_op[x] = "unprepare" /\ g = c.cur_dyn[x]
    \/ c.current_op[x] = "cursorclose" /\ g = c.cur_cursor[x]

(* The DONEPROC token of a session.                                        *)
Done(r, c, x) ==
    /\ SameOwners(r, c) /\ SameStates(r, c) /\ SameHeld(r, c) /\ SameServed(r, c) /\ SameCloses(r, c)
    /\ r.cursors = c.cursors
    /\ \A g : Contains(r.dyns, g) => Contains(c.dyns, g)
    /\ \A g : Contains(c.dyns, g) /\ ~Ends(c, x, g) => Contains(r.dyns, g)
    /\ r.known \subseteq c.known
    /\ \A g \in c.known : ~Ends(c, x, g) => g \in r.known

(* The DONEPROC token takes at most the handle that was closed off its     *)
(* list.                                                                   *)
LEMMA DoneProcIs ==
    ASSUME NEW c \in Connection, Counted(c), NEW x \in Sids, NEW ok \in BOOLEAN, NEW r, r = DoneProc(c, x, ok)
    PROVE  r \in Connection /\ Counted(r) /\ Done(r, c, x)
  <1>1. CASE c.current_op[x] = "cursorclose"
    <2>1. r = [c EXCEPT !.known = @ \ {c.cur_cursor[x]}]
      BY <1>1 DEF DoneProc
    <2>2. r \in Connection
      BY <2>1 DEF Connection
    <2>3. /\ SameOwners(r, c) /\ SameStates(r, c) /\ SameHeld(r, c) /\ SameServed(r, c) /\ SameCloses(r, c)
          /\ SameLists(r, c) /\ r.known = c.known \ {c.cur_cursor[x]} /\ r.ref_count = c.ref_count
      BY <2>1 DEF Connection, SameOwners, SameStates, SameHeld, SameServed, SameCloses, SameLists
    <2>4. Counted(r)
      BY <2>3, SameCounts
    <2>. QED  BY <1>1, <2>2, <2>3, <2>4 DEF Done, SameLists, Ends
  <1>2. CASE c.current_op[x] = "unprepare" /\ ok
    <2>1. r = tds_dynamic_deallocated(c, c.cur_dyn[x])
      BY <1>2 DEF DoneProc
    <2>2. PICK h : h = c.cur_dyn[x]
      OBVIOUS
    <2>3. /\ r \in Connection /\ Counted(r)
          /\ SameOwners(r, c) /\ SameStates(r, c) /\ SameHeld(r, c) /\ SameServed(r, c) /\ SameCloses(r, c)
          /\ r.cursors = c.cursors /\ \A g : Contains(r.dyns, g) <=> Contains(c.dyns, g) /\ g # h
          /\ r.known \subseteq c.known /\ c.known \ {h} \subseteq r.known
      BY <2>1, <2>2, DynamicDeallocated
    <2>. QED  BY <1>2, <2>2, <2>3 DEF Done, Ends
  <1>3. CASE ~(c.current_op[x] = "cursorclose") /\ ~(c.current_op[x] = "unprepare" /\ ok)
    <2>1. r = c
      BY <1>3 DEF DoneProc
    <2>. QED  BY <1>3, <2>1 DEF Done, SameOwners, SameStates, SameHeld, SameServed, SameCloses
  <1>. QED  BY <1>1, <1>2, <1>3

(* What the closes on session x change: nothing that is not to be closed.  *)
Closing(a, c, x) ==
    /\ a \in Connection /\ Counted(a)
    /\ SameOwners(a, c) /\ SameHeld(a, c) /\ a.state = c.state /\ a.asker = c.asker
    /\ a.pending_close = c.pending_close
    /\ \A y \in Sids \ {x} : /\ a.current_op[y] = c.current_op[y]
                             /\ a.cur_dyn[y] = c.cur_dyn[y] /\ a.cur_cursor[y] = c.cur_cursor[y]
    /\ a.known \subseteq c.known /\ a.server \subseteq c.server /\ a.defer_close \subseteq c.defer_close
    /\ \A g : Contains(a.dyns, g) => Contains(c.dyns, g)
    /\ \A g : Contains(a.cursors, g) => Contains(c.cursors, g)
    /\ \A g \in Handles \ c.defer_close :
          /\ g \in c.known => g \in a.known
          /\ g \in c.server => g \in a.server
          /\ Contains(c.dyns, g) => Contains(a.dyns, g)
          /\ Contains(c.cursors, g) => Contains(a.cursors, g)
    /\ \A g \in c.defer_close \ a.defer_close : g \notin a.server
    /\ \/ /\ a.current_op[x] = c.current_op[x]
          /\ a.cur_dyn[x] = c.cur_dyn[x] /\ a.cur_cursor[x] = c.cur_cursor[x]
       \/ a.current_op[x] = "unprepare" /\ a.cur_dyn[x] \in c.defer_close \ a.defer_close
       \/ a.current_op[x] = "cursorclose" /\ a.cur_cursor[x] \in c.defer_close \ a.defer_close

(* Two runs of closes, one after the other, are one.                       *)
LEMMA ClosingTwice ==
    ASSUME NEW x \in Sids, NEW a, NEW c, NEW b, Closing(a, c, x), Closing(b, a, x)
    PROVE  Closing(b, c, x)
  <1>1. /\ b \in Connection /\ Counted(b)
        /\ SameOwners(b, c) /\ SameHeld(b, c) /\ b.state = c.state /\ b.asker = c.asker
        /\ b.pending_close = c.pending_close
        /\ b.known \subseteq c.known /\ b.server \subseteq c.server /\ b.defer_close \subseteq c.defer_close
    BY DEF Closing, SameOwners, SameHeld
  <1>2. \A y \in Sids \ {x} : /\ b.current_op[y] = c.current_op[y]
                              /\ b.cur_dyn[y] = c.cur_dyn[y] /\ b.cur_cursor[y] = c.cur_cursor[y]
    BY DEF Closing
  <1>3. /\ \A g : Contains(b.dyns, g) => Contains(c.dyns, g)
        /\ \A g : Contains(b.cursors, g) => Contains(c.cursors, g)
    BY DEF Closing
  <1>4. \A g \in Handles \ c.defer_close :
          /\ g \in c.known => g \in b.known
          /\ g \in c.server => g \in b.server
          /\ Contains(c.dyns, g) => Contains(b.dyns, g)
          /\ Contains(c.cursors, g) => Contains(b.cursors, g)
    BY DEF Closing
  <1>5. \A g \in c.defer_close \ b.defer_close : g \notin b.server
    BY DEF Closing
  <1>6. \/ /\ b.current_op[x] = c.current_op[x]
           /\ b.cur_dyn[x] = c.cur_dyn[x] /\ b.cur_cursor[x] = c.cur_cursor[x]
        \/ b.current_op[x] = "unprepare" /\ b.cur_dyn[x] \in c.defer_close \ b.defer_close
        \/ b.current_op[x] = "cursorclose" /\ b.cur_cursor[x] \in c.defer_close \ b.defer_close
    BY DEF Closing
  <1>. QED  BY <1>1, <1>2, <1>3, <1>4, <1>5, <1>6 DEF Closing

(* One close.                                                              *)
LEMMA CloseIs ==
    ASSUME NEW c \in Connection, Counted(c), NEW x \in Sids, c.state[x] = "IDLE",
           NEW h \in Handles, h \in c.defer_close, NEW r, r = Close(c, x, h)
    PROVE  Closing(r, c, x) /\ h \notin r.defer_close /\ \A g \in Handles : Unused(c, g) /\ g # h => Unused(r, g)
  <1>1. PICK op : op = IF h \in Dyns THEN "unprepare" ELSE "cursorclose"
    OBVIOUS
  <1>2. PICK b : b = Submit(c, c.asker[x], x, op, h)
    OBVIOUS
  <1>3. op \in Ops /\ op \in {"unprepare", "cursorclose"} /\ c.asker[x] \in Stmts \cup {None}
    BY <1>1 DEF Ops, Connection
  <1>4. /\ b \in Connection /\ Counted(b)
        /\ SameOwners(b, c) /\ SameHeld(b, c) /\ SameLists(b, c) /\ b.known = c.known
        /\ b.defer_close = c.defer_close /\ b.pending_close = c.pending_close
        /\ b.state = [c.state EXCEPT ![x] = "PENDING"]
        /\ b.current_op = [c.current_op EXCEPT ![x] = op]
        /\ b.asker = [c.asker EXCEPT ![x] = c.asker[x]]
        /\ b.cur_dyn = [c.cur_dyn EXCEPT ![x] = IF h \in Dyns THEN h ELSE None]
        /\ b.cur_cursor = [c.cur_cursor EXCEPT ![x] = IF h \in Cursors THEN h ELSE None]
        /\ b.server = c.server \ {h}
    <2>1. PICK t : t = c.asker[x]
      OBVIOUS
    <2>2. b = Submit(c, t, x, op, h) /\ t \in Stmts \cup {None} /\ h \in Handles \cup {None}
      BY <1>2, <1>3, <2>1
    <2>3. b \in Connection /\ Counted(b) /\ Submitted(b, c, t, x, op, h)
      BY <1>3, <2>2, SubmitIs
    <2>. QED  BY <1>3, <2>1, <2>3 DEF Submitted
  <1>5. PICK e : e = [b EXCEPT !.state[x] = "IDLE"]
    OBVIOUS
  <1>6. e \in Connection
    <2>1. [b.state EXCEPT ![x] = "IDLE"] \in [Sids -> {"free", "IDLE", "PENDING", "DEAD"}]
      BY <1>4 DEF Connection
    <2>2. e = [b EXCEPT !.state = [b.state EXCEPT ![x] = "IDLE"]]
      BY <1>5
    <2>. QED  BY <1>4, <2>1, <2>2 DEF Connection
  <1>7. /\ SameOwners(e, b) /\ SameHeld(e, b) /\ SameServed(e, b) /\ SameLists(e, b) /\ SameCloses(e, b)
        /\ e.known = b.known /\ e.ref_count = b.ref_count
        /\ e.current_op = b.current_op /\ e.asker = b.asker
        /\ e.state = [b.state EXCEPT ![x] = "IDLE"]
    BY <1>4, <1>5 DEF Connection, SameOwners, SameHeld, SameServed, SameLists, SameCloses
  <1>8. Counted(e)
    BY <1>4, <1>7, SameCounts
  <1>9. e.state = c.state /\ e.asker = c.asker
    <2>1. c.state \in [Sids -> {"free", "IDLE", "PENDING", "DEAD"}] /\ c.asker \in [Sids -> Stmts \cup {None}]
      BY DEF Connection
    <2>. QED  BY <1>4, <1>7, <2>1
  <1>10. /\ e.current_op[x] = op /\ (h \in Dyns => e.cur_dyn[x] = h) /\ (h \in Cursors => e.cur_cursor[x] = h)
         /\ e.cur_dyn[x] \in {h, None} /\ e.cur_cursor[x] \in {h, None}
         /\ \A y \in Sids \ {x} : /\ e.current_op[y] = c.current_op[y]
                                  /\ e.cur_dyn[y] = c.cur_dyn[y] /\ e.cur_cursor[y] = c.cur_cursor[y]
    <2>1. c.current_op \in [Sids -> Ops] /\ c.cur_dyn \in [Sids -> Dyns \cup {None}]
          /\ c.cur_cursor \in [Sids -> Cursors \cup {None}]
      BY DEF Connection
    <2>. QED  BY <1>4, <1>7, <2>1 DEF SameServed
  <1>11. PICK a : a = DoneProc(e, x, TRUE)
    OBVIOUS
  <1>12. a \in Connection /\ Counted(a) /\ Done(a, e, x)
    BY <1>6, <1>8, <1>11, DoneProcIs
  <1>13. PICK f : f = [a EXCEPT !.defer_close = @ \ {h}]
    OBVIOUS
  <1>14. f \in Connection
    BY <1>12, <1>13 DEF Connection
  <1>15. /\ SameOwners(f, a) /\ SameStates(f, a) /\ SameHeld(f, a) /\ SameServed(f, a) /\ SameLists(f, a)
         /\ f.known = a.known /\ f.ref_count = a.ref_count /\ f.server = a.server
         /\ f.pending_close = a.pending_close /\ f.defer_close = a.defer_close \ {h}
    BY <1>12, <1>13 DEF Connection, SameOwners, SameStates, SameHeld, SameServed, SameLists
  <1>16. Counted(f)
    BY <1>12, <1>15, SameCounts
  <1>17. r = IF h \in Dyns THEN f ELSE tds_cursor_check_allocated(f, h)
    BY <1>1, <1>2, <1>5, <1>11, <1>13, Zenon DEF Close
  <1>18. /\ r \in Connection /\ Counted(r)
         /\ SameOwners(r, f) /\ SameStates(r, f) /\ SameHeld(r, f) /\ SameServed(r, f) /\ SameCloses(r, f)
         /\ r.dyns = f.dyns /\ r.known = f.known
         /\ \A g : Contains(r.cursors, g) => Contains(f.cursors, g)
         /\ \A g : Contains(f.cursors, g) /\ g # h => Contains(r.cursors, g)
    <2>1. CASE r = f
      BY <1>14, <1>16, <2>1 DEF SameOwners, SameStates, SameHeld, SameServed, SameCloses
    <2>2. CASE r = tds_cursor_deallocated(f, h)
      BY <1>14, <1>16, <2>2, CursorDeallocated
    <2>. QED  BY <1>17, <2>1, <2>2 DEF tds_cursor_check_allocated
  <1>19. \A g : Ends(e, x, g) => g = h
    BY <1>1, <1>10 DEF Ends, Handles
  <1>20. /\ SameOwners(r, c) /\ SameHeld(r, c) /\ r.state = c.state /\ r.asker = c.asker
         /\ r.pending_close = c.pending_close /\ r.defer_close = c.defer_close \ {h}
         /\ r.server = c.server \ {h} /\ SameServed(r, e) /\ r.current_op = e.current_op
    BY <1>4, <1>7, <1>9, <1>12, <1>15, <1>18 DEF Done, SameOwners, SameHeld, SameStates, SameServed, SameCloses
  <1>21. /\ \A g : Contains(r.dyns, g) => Contains(c.dyns, g)
         /\ \A g : Contains(r.cursors, g) => Contains(c.cursors, g)
         /\ \A g : g # h /\ Contains(c.dyns, g) => Contains(r.dyns, g)
         /\ \A g : g # h /\ Contains(c.cursors, g) => Contains(r.cursors, g)
    BY <1>4, <1>7, <1>12, <1>15, <1>18, <1>19 DEF Done, SameLists
  <1>22. r.known \subseteq c.known /\ \A g \in c.known : g # h => g \in r.known
    BY <1>4, <1>7, <1>12, <1>15, <1>18, <1>19 DEF Done
  <1>23. \A y \in Sids \ {x} : /\ r.current_op[y] = c.current_op[y]
                               /\ r.cur_dyn[y] = c.cur_dyn[y] /\ r.cur_cursor[y] = c.cur_cursor[y]
    BY <1>10, <1>20 DEF SameServed
  <1>24. \/ r.current_op[x] = "unprepare" /\ r.cur_dyn[x] = h
         \/ r.current_op[x] = "cursorclose" /\ r.cur_cursor[x] = h
    BY <1>1, <1>10, <1>20 DEF SameServed, Handles
  <1>25. Closing(r, c, x)
    BY <1>18, <1>20, <1>21, <1>22, <1>23, <1>24 DEF Closing
  <1>26. ASSUME NEW g \in Handles, Unused(c, g), g # h PROVE Unused(r, g)
    <2>1. \A y \in Sids : r.cur_dyn[y] # g /\ r.cur_cursor[y] # g
      BY <1>10, <1>20, <1>23, <1>26, HandleKinds DEF Unused, SameServed
    <2>. QED  BY <1>20, <1>21, <1>26, <2>1 DEF Unused, SameHeld
  <1>. QED  BY <1>20, <1>25, <1>26

(* The closes, one after the other: the local function of                  *)
(* tds_process_pending_closes() has a value, and what it is.               *)
CloseNext(a, x, h) == IF h \in a.defer_close THEN Close(a, x, h) ELSE a

(* A set of naturals that is not empty has a smallest element.             *)
LEMMA Smallest ==
    ASSUME NEW T, T \subseteq Nat, T # {}
    PROVE  \E n \in T : \A m \in T : n <= m
  <1>1. PICK n \in T : \A m \in T : ~(<<m, n>> \in OpToRel(<, Nat))
    BY NatLessThanWellFounded, WFMin
  <1>2. \A m \in T : ~(m < n)
    BY <1>1 DEF OpToRel
  <1>. QED  BY <1>2

AllHandles(c) == c.cursors \o c.dyns
StartCloses(c) == [c EXCEPT !.pending_close = FALSE]
CloseSteps(f, e, x, all, k) == f[0] = e /\ \A n \in 1 .. k : f[n] = CloseNext(f[n - 1], x, all[n])
IsCloses(f, e, x, all, k) ==
    f = [n \in 0 .. k |-> IF n = 0 THEN e ELSE CloseNext(f[n - 1], x, all[n])]

(* There is such a function, for every length of the lists: extend the     *)
(* longest one that is.                                                    *)
LEMMA ClosesExist ==
    ASSUME NEW e, NEW x, NEW all, NEW k \in Nat
    PROVE  \E f : IsCloses(f, e, x, all, k)
  <1>. DEFINE P(m) == \E f : f = [n \in 0 .. m |-> IF n = 0 THEN e ELSE CloseNext(f[n - 1], x, all[n])]
              T == {m \in Nat : ~P(m)}
  <1>1. P(0)
    <2>1. [n \in 0 .. 0 |-> e]
             = [n \in 0 .. 0 |-> IF n = 0 THEN e ELSE CloseNext([i \in 0 .. 0 |-> e][n - 1], x, all[n])]
      OBVIOUS
    <2>. QED  BY <2>1
  <1>2. ASSUME NEW m \in Nat, P(m) PROVE P(m + 1)
    <2>1. PICK f : f = [n \in 0 .. m |-> IF n = 0 THEN e ELSE CloseNext(f[n - 1], x, all[n])]
      BY <1>2
    <2>. DEFINE g == [n \in 0 .. m + 1 |-> IF n \in 0 .. m THEN f[n] ELSE CloseNext(f[m], x, all[m + 1])]
    <2>2. g = [n \in 0 .. m + 1 |-> IF n = 0 THEN e ELSE CloseNext(g[n - 1], x, all[n])]
      <3>. SUFFICES ASSUME NEW n \in 0 .. m + 1
                    PROVE  g[n] = IF n = 0 THEN e ELSE CloseNext(g[n - 1], x, all[n])
        BY SMT
      <3>1. CASE n = 0
        BY <2>1, <3>1
      <3>2. CASE n # 0 /\ n <= m
        <4>1. n - 1 \in 0 .. m /\ n \in 0 .. m
          BY <3>2
        <4>2. f[n] = CloseNext(f[n - 1], x, all[n])
          BY <2>1, <3>2, <4>1
        <4>. QED  BY <3>2, <4>1, <4>2
      <3>3. CASE n = m + 1
        <4>1. n # 0 /\ n \notin 0 .. m /\ n - 1 = m /\ m \in 0 .. m
          BY <3>3
        <4>. QED  BY <3>3, <4>1
      <3>. QED  BY <3>1, <3>2, <3>3
    <2>. HIDE DEF g
    <2>. QED  BY <2>2
  <1>3. T = {}
    <2>. SUFFICES ASSUME T # {} PROVE FALSE
      OBVIOUS
    <2>1. PICK m \in T : \A n \in T : m <= n
      BY Smallest
    <2>. HIDE DEF P
    <2>2. m # 0
      BY <1>1
    <2>3. m - 1 \in Nat /\ P(m - 1)
      BY <2>1, <2>2
    <2>4. P((m - 1) + 1)
      BY <1>2, <2>3
    <2>5. (m - 1) + 1 = m
      BY <2>1
    <2>. QED  BY <2>1, <2>4, <2>5
  <1>. QED  BY <1>3 DEF IsCloses

(* Its values follow each other, one close at a time.                      *)
LEMMA ClosesAre ==
    ASSUME NEW e, NEW x, NEW all, NEW k \in Nat, NEW g, IsCloses(g, e, x, all, k)
    PROVE  CloseSteps(g, e, x, all, k)
  <1>1. g = [n \in 0 .. k |-> IF n = 0 THEN e ELSE CloseNext(g[n - 1], x, all[n])]
    BY DEF IsCloses
  <1>2. g[0] = e
    <2>1. 0 \in 0 .. k
      OBVIOUS
    <2>. QED  BY <1>1, <2>1
  <1>3. ASSUME NEW n \in 1 .. k PROVE g[n] = CloseNext(g[n - 1], x, all[n])
    <2>1. n \in 0 .. k /\ n # 0
      OBVIOUS
    <2>. QED  BY <1>1, <2>1
  <1>. QED  BY <1>2, <1>3 DEF CloseSteps

(* tds_process_pending_closes() is the last of those values.               *)
LEMMA PendingClosesAre ==
    ASSUME NEW c, NEW x, NEW k \in Nat, k = Len(AllHandles(c))
    PROVE  \E f : CloseSteps(f, StartCloses(c), x, AllHandles(c), k) /\ tds_process_pending_closes(c, x) = f[k]
  <1>1. PICK g : g = CHOOSE f : IsCloses(f, StartCloses(c), x, AllHandles(c), k)
    OBVIOUS
  <1>2. tds_process_pending_closes(c, x) = g[k]
    BY <1>1, Zenon DEF tds_process_pending_closes, CloseNext, IsCloses, AllHandles, StartCloses
  <1>3. IsCloses(g, StartCloses(c), x, AllHandles(c), k)
    BY <1>1, ClosesExist, Zenon
  <1>4. CloseSteps(g, StartCloses(c), x, AllHandles(c), k)
    BY <1>3, ClosesAre, Zenon
  <1>. QED  BY <1>2, <1>4

(* One list after another.                                                 *)
Joined(all, p, q) ==
    /\ \A n \in 1 .. Len(all) : Contains(p, all[n]) \/ Contains(q, all[n])
    /\ \A g : Contains(p, g) \/ Contains(q, g) => \E n \in 1 .. Len(all) : all[n] = g

(* The two lists, joined, hold what one or the other holds.                *)
LEMMA BothLists ==
    ASSUME NEW S, NEW p \in Seq(S), NEW q \in Seq(S), NEW all, all = p \o q
    PROVE  Joined(all, p, q) /\ all \in Seq(S)
  <1>2. /\ all \in Seq(S) /\ Len(all) = Len(p) + Len(q) /\ Len(p) \in Nat /\ Len(q) \in Nat
        /\ \A n \in 1 .. Len(p) : all[n] = p[n]
        /\ \A n \in 1 .. Len(q) : all[Len(p) + n] = q[n]
    OBVIOUS
  <1>3. ASSUME NEW n \in 1 .. Len(all) PROVE all[n] \in S /\ (Contains(p, all[n]) \/ Contains(q, all[n]))
    <2>1. CASE n <= Len(p)
      <3>1. n \in 1 .. Len(p) /\ all[n] = p[n]
        BY <1>2, <2>1
      <3>. QED  BY <1>2, <3>1 DEF Contains
    <2>2. CASE n > Len(p)
      <3>1. n - Len(p) \in 1 .. Len(q) /\ Len(p) + (n - Len(p)) = n
        BY <1>2, <2>2
      <3>2. all[n] = q[n - Len(p)]
        BY <1>2, <3>1
      <3>. QED  BY <1>2, <3>1, <3>2 DEF Contains
    <2>. QED  BY <1>2, <2>1, <2>2
  <1>4. ASSUME NEW g, Contains(p, g) PROVE \E n \in 1 .. Len(all) : all[n] = g
    <2>1. PICK i \in 1 .. Len(p) : p[i] = g
      BY <1>4 DEF Contains
    <2>2. i \in 1 .. Len(all) /\ all[i] = g
      BY <1>2, <2>1
    <2>. QED  BY <2>2
  <1>5. ASSUME NEW g, Contains(q, g) PROVE \E n \in 1 .. Len(all) : all[n] = g
    <2>1. PICK i \in 1 .. Len(q) : q[i] = g
      BY <1>5 DEF Contains
    <2>2. Len(p) + i \in 1 .. Len(all) /\ all[Len(p) + i] = g
      BY <1>2, <2>1
    <2>. QED  BY <2>2
  <1>. QED  BY <1>2, <1>3, <1>4, <1>5 DEF Joined

(* All that is listed and to be closed is closed.                          *)
LEMMA PendingCloses ==
    ASSUME NEW c \in Connection, Counted(c), NEW x \in Sids, c.state[x] = "IDLE",
           NEW r, r = tds_process_pending_closes(c, x)
    PROVE  /\ Closing(r, [c EXCEPT !.pending_close = FALSE], x)
           /\ \A g : Listed(c, g) => g \notin r.defer_close
           /\ \A g \in Handles : Unused(c, g) => Unused(r, g)
  <1>1. PICK e : e = [c EXCEPT !.pending_close = FALSE]
    OBVIOUS
  <1>2. e \in Connection
    BY <1>1 DEF Connection
  <1>3. /\ SameOwners(e, c) /\ SameStates(e, c) /\ SameHeld(e, c) /\ SameServed(e, c) /\ SameLists(e, c)
        /\ e.known = c.known /\ e.defer_close = c.defer_close /\ e.server = c.server
        /\ e.ref_count = c.ref_count
    BY <1>1 DEF Connection, SameOwners, SameStates, SameHeld, SameServed, SameLists
  <1>4. Counted(e)
    BY <1>3, SameCounts
  <1>5. \A g : Unused(c, g) <=> Unused(e, g)
    BY <1>3 DEF Unused, SameHeld, SameServed, SameLists
  <1>6. PICK all, k : all = c.cursors \o c.dyns /\ k = Len(all)
    OBVIOUS
  <1>7. /\ k \in Nat /\ \A n \in 1 .. k : all[n] \in Handles /\ Listed(c, all[n])
        /\ \A g : Listed(c, g) => \E n \in 1 .. k : all[n] = g
    <2>1. c.cursors \in Seq(Handles) /\ c.dyns \in Seq(Handles)
      BY DEF Connection, Handles
    <2>2. PICK p, q : p = c.cursors /\ q = c.dyns
      OBVIOUS
    <2>3. Joined(all, p, q) /\ all \in Seq(Handles)
      <3>1. p \in Seq(Handles) /\ q \in Seq(Handles) /\ all = p \o q
        BY <1>6, <2>1, <2>2
      <3>. QED  BY <3>1, BothLists
    <2>4. Len(all) \in Nat /\ \A n \in 1 .. Len(all) : all[n] \in Handles
      BY <2>3
    <2>. QED  BY <1>6, <2>2, <2>3, <2>4, Zenon DEF Listed, Joined
  <1>8. \A n \in 1 .. k : ~Unused(e, all[n])
    BY <1>5, <1>7 DEF Unused, Listed
  <1>9. PICK f : /\ f[0] = e
                 /\ \A n \in 1 .. k : f[n] = CloseNext(f[n - 1], x, all[n])
                 /\ r = f[k]
    <2>1. k \in Nat /\ k = Len(AllHandles(c)) /\ all = AllHandles(c) /\ e = StartCloses(c)
      BY <1>1, <1>6, <1>7, Zenon DEF AllHandles, StartCloses
    <2>2. PICK f : CloseSteps(f, e, x, all, k) /\ r = f[k]
      BY <2>1, PendingClosesAre, Zenon
    <2>. QED  BY <2>2 DEF CloseSteps
  <1>. DEFINE P(n) == /\ Closing(f[n], e, x)
                      /\ \A i \in 1 .. n : all[i] \notin f[n].defer_close
                      /\ \A g \in Handles : Unused(e, g) => Unused(f[n], g)
              T == {n \in 0 .. k : ~P(n)}
  <1>10. P(0)
    <2>1. Closing(e, e, x)
      BY <1>2, <1>4 DEF Closing, SameOwners, SameHeld
    <2>. QED  BY <1>9, <2>1
  <1>11. ASSUME NEW n \in 1 .. k, P(n - 1) PROVE P(n)
    <2>1. PICK a, h : a = f[n - 1] /\ h = all[n]
      OBVIOUS
    <2>2. /\ Closing(a, e, x) /\ \A i \in 1 .. n - 1 : all[i] \notin a.defer_close
          /\ \A g \in Handles : Unused(e, g) => Unused(a, g)
      BY <1>11, <2>1
    <2>3. f[n] = CloseNext(a, x, h) /\ h \in Handles /\ ~Unused(e, h)
      BY <1>7, <1>8, <1>9, <2>1
    <2>4. \A i \in 1 .. n : i = n \/ i \in 1 .. n - 1
      OBVIOUS
    <2>5. CASE h \notin a.defer_close
      <3>1. f[n] = a
        BY <2>3, <2>5 DEF CloseNext
      <3>. QED  BY <2>1, <2>2, <2>4, <2>5, <3>1
    <2>6. CASE h \in a.defer_close
      <3>1. f[n] = Close(a, x, h)
        BY <2>3, <2>6 DEF CloseNext
      <3>2. a \in Connection /\ Counted(a) /\ a.state[x] = "IDLE"
        BY <1>3, <2>2 DEF Closing, SameStates
      <3>3. PICK b : b = f[n]
        OBVIOUS
      <3>4. Closing(b, a, x) /\ h \notin b.defer_close /\ \A g \in Handles : Unused(a, g) /\ g # h => Unused(b, g)
        BY <2>3, <2>6, <3>1, <3>2, <3>3, CloseIs
      <3>5. Closing(b, e, x) /\ b.defer_close \subseteq a.defer_close
        BY <2>2, <3>4, ClosingTwice DEF Closing
      <3>6. \A i \in 1 .. n : all[i] \notin b.defer_close
        BY <2>1, <2>2, <2>4, <3>4, <3>5
      <3>7. \A g \in Handles : Unused(e, g) => Unused(b, g)
        BY <2>2, <2>3, <3>4
      <3>. QED  BY <3>3, <3>5, <3>6, <3>7
    <2>. QED  BY <2>5, <2>6
  <1>12. T = {}
    <2>. SUFFICES ASSUME T # {} PROVE FALSE
      OBVIOUS
    <2>1. T \subseteq Nat
      BY <1>7
    <2>2. PICK m \in T : \A n \in T : m <= n
      BY <2>1, Smallest
    <2>. HIDE DEF P
    <2>3. m # 0 /\ m \in 0 .. k
      BY <1>10
    <2>4. m \in 1 .. k /\ m - 1 \in 0 .. k /\ ~(m <= m - 1)
      BY <1>7, <2>3
    <2>5. P(m - 1)
      BY <2>2, <2>4
    <2>6. P(m)
      BY <1>11, <2>4, <2>5
    <2>. QED  BY <2>2, <2>6
  <1>13. P(k)
    <2>1. k \in 0 .. k
      BY <1>7
    <2>. HIDE DEF P
    <2>. QED  BY <1>12, <2>1
  <1>. QED  BY <1>1, <1>5, <1>7, <1>9, <1>13

(* What the rest of an answer changes, when it can be read.  new: what the *)
(* server made of the request.                                             *)
Finished(f, c, x, new) ==
    /\ SameOwners(f, c) /\ SameHeld(f, c)
    /\ f.state = [c.state EXCEPT ![x] = "IDLE"] /\ f.asker = [c.asker EXCEPT ![x] = None]
    /\ \A y \in Sids \ {x} : /\ f.current_op[y] = c.current_op[y]
                             /\ f.cur_dyn[y] = c.cur_dyn[y] /\ f.cur_cursor[y] = c.cur_cursor[y]
    /\ ~f.pending_close /\ f.defer_close \subseteq c.defer_close
    /\ f.known \subseteq c.known \cup new /\ f.server \subseteq c.server \cup new
    /\ \A g : Contains(f.dyns, g) => Contains(c.dyns, g)
    /\ \A g : Contains(f.cursors, g) => Contains(c.cursors, g)
    /\ \A g \in Handles \ c.defer_close : ~Ends(c, x, g) =>
          /\ g \in c.known \cup new => g \in f.known
          /\ Contains(c.dyns, g) => Contains(f.dyns, g)
          /\ Contains(c.cursors, g) => Contains(f.cursors, g)
    /\ c.pending_close => \A g \in f.server : Listed(c, g) => g \notin c.defer_close

(* And when the connection is lost.                                        *)
Died(f, c) ==
    /\ SameOwners(f, c) /\ SameHeld(f, c) /\ SameServed(f, c) /\ SameLists(f, c) /\ f.known = c.known
    /\ f.defer_close = c.defer_close /\ f.pending_close = c.pending_close /\ f.server = {}
    /\ f.state = [y \in Sids |-> IF c.state[y] = "free" THEN "free" ELSE "DEAD"]

(* Reading the rest of an answer keeps the counters right, whatever it     *)
(* closes on the way.                                                      *)
LEMMA FinishIs ==
    ASSUME NEW c \in Connection, Counted(c), NEW x \in Sids, c.state[x] = "PENDING", Named(c),
           NEW res \in {"ok", "err", "cancel"}, NEW f, f = Finish(c, x, res)
    PROVE  /\ f \in Connection /\ Counted(f) /\ Finished(f, c, x, New(c, x, res))
           /\ \A g \in Handles : Unused(c, g) => Unused(f, g)
  <1>1. PICK new : new = New(c, x, res)
    OBVIOUS
  <1>2. new \subseteq Handles
    BY <1>1 DEF New, Named, Connection, Handles
  <1>3. PICK r : r = [c EXCEPT !.state[x] = "IDLE", !.known = @ \cup new, !.server = @ \cup new]
    OBVIOUS
  <1>4. r \in Connection
    <2>1. [c.state EXCEPT ![x] = "IDLE"] \in [Sids -> {"free", "IDLE", "PENDING", "DEAD"}]
      BY DEF Connection
    <2>2. c.known \cup new \in SUBSET Handles /\ c.server \cup new \in SUBSET Handles
      BY <1>2 DEF Connection
    <2>3. r = [c EXCEPT !.state = [c.state EXCEPT ![x] = "IDLE"], !.known = c.known \cup new,
                        !.server = c.server \cup new]
      BY <1>3
    <2>. QED  BY <2>1, <2>2, <2>3 DEF Connection
  <1>5. /\ SameOwners(r, c) /\ SameHeld(r, c) /\ SameServed(r, c) /\ SameLists(r, c)
        /\ r.current_op = c.current_op /\ r.asker = c.asker /\ r.ref_count = c.ref_count
        /\ r.defer_close = c.defer_close /\ r.pending_close = c.pending_close
        /\ r.state = [c.state EXCEPT ![x] = "IDLE"]
        /\ r.known = c.known \cup new /\ r.server = c.server \cup new
    BY <1>3 DEF Connection, SameOwners, SameHeld, SameServed, SameLists
  <1>6. Counted(r) /\ r.state[x] = "IDLE" /\ \A g : Unused(c, g) => Unused(r, g)
    <2>1. Counted(r)
      BY <1>5, SameCounts
    <2>2. r.state[x] = "IDLE"
      BY <1>5 DEF Connection
    <2>3. \A g : Unused(c, g) => Unused(r, g)
      BY <1>5 DEF Unused, SameHeld, SameServed, SameLists
    <2>. QED  BY <2>1, <2>2, <2>3
  <1>7. PICK a : a = [r EXCEPT !.pending_close = FALSE]
    OBVIOUS
  <1>8. a \in Connection
    BY <1>4, <1>7 DEF Connection
  <1>9. /\ SameOwners(a, r) /\ SameHeld(a, r) /\ SameServed(a, r) /\ SameLists(a, r) /\ SameStates(a, r)
        /\ a.known = r.known /\ a.ref_count = r.ref_count
        /\ a.defer_close = r.defer_close /\ a.server = r.server /\ ~a.pending_close
    BY <1>4, <1>7 DEF Connection, SameOwners, SameHeld, SameServed, SameLists, SameStates
  <1>10. PICK e : e = IF r.pending_close THEN tds_process_pending_closes(r, x) ELSE r
    OBVIOUS
  <1>11. /\ Closing(e, a, x) /\ \A g \in Handles : Unused(r, g) => Unused(e, g)
         /\ r.pending_close => \A g : Listed(r, g) => g \notin e.defer_close
    <2>1. CASE r.pending_close
      <3>1. e = tds_process_pending_closes(r, x)
        BY <1>10, <2>1
      <3>2. /\ Closing(e, [r EXCEPT !.pending_close = FALSE], x)
            /\ \A g : Listed(r, g) => g \notin e.defer_close
            /\ \A g \in Handles : Unused(r, g) => Unused(e, g)
        BY <1>4, <1>6, <3>1, PendingCloses
      <3>. QED  BY <1>7, <3>2
    <2>2. CASE ~r.pending_close
      <3>1. e = r /\ a = r
        BY <1>4, <1>7, <1>10, <2>2 DEF Connection
      <3>2. Closing(r, r, x)
        BY <1>4, <1>6 DEF Closing, SameOwners, SameHeld
      <3>. QED  BY <2>2, <3>1, <3>2
    <2>. QED  BY <2>1, <2>2
  <1>12. e \in Connection /\ Counted(e)
    BY <1>11 DEF Closing
  <1>13. PICK b : b = IF c.current_op[x] = "query" \/ res = "cancel" THEN e ELSE DoneProc(e, x, res = "ok")
    OBVIOUS
  <1>14. b \in Connection /\ Counted(b) /\ Done(b, e, x)
    <2>1. CASE b = e
      BY <1>12, <2>1 DEF Done, SameOwners, SameStates, SameHeld, SameServed, SameCloses
    <2>2. CASE b = DoneProc(e, x, res = "ok")
      <3>1. PICK ok \in BOOLEAN : ok = (res = "ok")
        OBVIOUS
      <3>2. b = DoneProc(e, x, ok)
        BY <2>2, <3>1
      <3>. QED  BY <1>12, <3>2, DoneProcIs
    <2>. QED  BY <1>13, <2>1, <2>2
  <1>15. f = [b EXCEPT !.current_op[x] = "none", !.asker[x] = None]
    <2>1. res # "dead"
      OBVIOUS
    <2>2. e = tds_process_end(c, x, new)
      BY <1>3, <1>5, <1>10, Zenon DEF tds_process_end
    <2>. QED  BY <1>1, <1>13, <2>1, <2>2, Zenon DEF Finish
  <1>16. f \in Connection
    <2>1. /\ [b.current_op EXCEPT ![x] = "none"] \in [Sids -> Ops]
          /\ [b.asker EXCEPT ![x] = None] \in [Sids -> Stmts \cup {None}]
      BY <1>14 DEF Connection, Ops
    <2>2. f = [b EXCEPT !.current_op = [b.current_op EXCEPT ![x] = "none"],
                        !.asker = [b.asker EXCEPT ![x] = None]]
      BY <1>15
    <2>3. PICK co, as : co = [b.current_op EXCEPT ![x] = "none"] /\ as = [b.asker EXCEPT ![x] = None]
      OBVIOUS
    <2>4. f = [b EXCEPT !.current_op = co, !.asker = as] /\ co \in [Sids -> Ops] /\ as \in [Sids -> Stmts \cup {None}]
      BY <2>1, <2>2, <2>3
    <2>. QED  BY <1>14, <2>4 DEF Connection
  <1>17. /\ SameOwners(f, b) /\ SameHeld(f, b) /\ SameServed(f, b) /\ SameLists(f, b) /\ SameCloses(f, b)
         /\ f.known = b.known /\ f.ref_count = b.ref_count /\ f.state = b.state
         /\ f.current_op = [b.current_op EXCEPT ![x] = "none"] /\ f.asker = [b.asker EXCEPT ![x] = None]
    BY <1>14, <1>15 DEF Connection, SameOwners, SameHeld, SameServed, SameLists, SameCloses
  <1>18. Counted(f)
    BY <1>14, <1>17, SameCounts
  <1>19. /\ SameOwners(f, c) /\ SameHeld(f, c) /\ f.state = [c.state EXCEPT ![x] = "IDLE"]
         /\ f.asker = [c.asker EXCEPT ![x] = None] /\ ~f.pending_close
         /\ f.defer_close \subseteq c.defer_close
         /\ f.known \subseteq c.known \cup new /\ f.server \subseteq c.server \cup new
    BY <1>5, <1>9, <1>11, <1>14, <1>17 DEF Done, Closing, SameOwners, SameHeld, SameStates, SameCloses
  <1>20. \A y \in Sids \ {x} : /\ f.current_op[y] = c.current_op[y]
                               /\ f.cur_dyn[y] = c.cur_dyn[y] /\ f.cur_cursor[y] = c.cur_cursor[y]
    <2>1. \A y \in Sids \ {x} : f.current_op[y] = e.current_op[y]
      BY <1>12, <1>14, <1>17 DEF Done, SameStates, Connection
    <2>. QED  BY <1>5, <1>9, <1>11, <1>14, <1>17, <2>1 DEF Done, Closing, SameStates, SameServed
  <1>21. /\ \A g : Contains(f.dyns, g) => Contains(c.dyns, g)
         /\ \A g : Contains(f.cursors, g) => Contains(c.cursors, g)
    BY <1>5, <1>9, <1>11, <1>14, <1>17 DEF Done, Closing, SameLists
  <1>22. \A g : Ends(e, x, g) => Ends(c, x, g) \/ g \in c.defer_close
    BY <1>5, <1>9, <1>11 DEF Closing, Ends, SameStates, SameServed
  <1>23. \A g \in Handles \ c.defer_close : ~Ends(c, x, g) =>
          /\ g \in c.known \cup new => g \in f.known
          /\ Contains(c.dyns, g) => Contains(f.dyns, g)
          /\ Contains(c.cursors, g) => Contains(f.cursors, g)
    BY <1>5, <1>9, <1>11, <1>14, <1>17, <1>22 DEF Done, Closing, SameLists
  <1>24. c.pending_close => \A g \in f.server : Listed(c, g) => g \notin c.defer_close
    <2>1. \A g : Listed(r, g) <=> Listed(c, g)
      BY <1>5 DEF SameLists, Listed
    <2>. QED  BY <1>5, <1>9, <1>11, <1>14, <1>17, <2>1 DEF Done, Closing, SameCloses
  <1>25. \A g \in Handles : Unused(c, g) => Unused(f, g)
    BY <1>6, <1>11, <1>14, <1>17 DEF Done, Unused, SameHeld, SameServed, SameLists
  <1>26. Finished(f, c, x, new)
    BY <1>19, <1>20, <1>21, <1>23, <1>24 DEF Finished
  <1>. QED  BY <1>1, <1>16, <1>18, <1>25, <1>26

(* Losing the connection takes no reference.                               *)
LEMMA FinishDies ==
    ASSUME NEW c \in Connection, Counted(c), NEW x \in Sids, c.state[x] = "PENDING",
           NEW f, f = Finish(c, x, "dead")
    PROVE  f \in Connection /\ Counted(f) /\ Died(f, c)
  <1>1. PICK st, co, as : /\ st = [y \in Sids |-> IF c.state[y] = "free" THEN "free" ELSE "DEAD"]
                          /\ co = All(Sids, "none") /\ as = All(Sids, None)
    OBVIOUS
  <1>2. f = [c EXCEPT !.state = st, !.current_op = co, !.asker = as, !.server = {}]
    <2>1. f = tds_connection_close(c)
      BY Zenon DEF Finish
    <2>. QED  BY <1>1, <2>1 DEF tds_connection_close
  <1>3. /\ st \in [Sids -> {"free", "IDLE", "PENDING", "DEAD"}] /\ co \in [Sids -> Ops]
        /\ as \in [Sids -> Stmts \cup {None}]
    BY <1>1 DEF All, Ops
  <1>4. f \in Connection
    <2>1. PICK b : b = [c EXCEPT !.state = st, !.current_op = co]
      OBVIOUS
    <2>2. b \in Connection
      BY <1>3, <2>1 DEF Connection
    <2>3. f = [b EXCEPT !.asker = as, !.server = {}]
      BY <1>2, <2>1
    <2>4. PICK a : a = [b EXCEPT !.asker = as]
      OBVIOUS
    <2>5. a \in Connection
      BY <1>3, <2>2, <2>4 DEF Connection
    <2>6. f = [a EXCEPT !.server = {}]
      BY <2>3, <2>4
    <2>. QED  BY <2>5, <2>6 DEF Connection
  <1>5. /\ SameOwners(f, c) /\ SameHeld(f, c) /\ SameServed(f, c) /\ SameLists(f, c) /\ f.known = c.known
        /\ f.defer_close = c.defer_close /\ f.pending_close = c.pending_close /\ f.server = {}
        /\ f.state = st /\ f.ref_count = c.ref_count
    BY <1>2 DEF Connection, SameOwners, SameHeld, SameServed, SameLists
  <1>6. Counted(f)
    BY <1>5, SameCounts
  <1>. QED  BY <1>1, <1>4, <1>5, <1>6 DEF Died

-----------------------------------------------------------------------------
(* The invariant of the sessions, through the operators on sessions.       *)

(* What is only given away or taken off a list breaks nothing.             *)
LEMMA GoodFrame ==
    ASSUME NEW c, NEW X, Good(c, X), NEW r, r \in Connection, Counted(r),
           SameOwners(r, c), SameStates(r, c), SameServed(r, c),
           \A s \in Stmts \ c.alive : r.dyn[s] = None /\ r.cursor[s] = None
    PROVE  Good(r, X)
  <1>1. Owned(r) /\ AllLost(r)
    BY DEF Good, Owned, AllLost, Lost, SameOwners, SameStates
  <1>2. Asked(r, X) /\ Named(r)
    BY DEF Good, Asked, Named, SameOwners, SameStates, SameServed
  <1>3. NothingLeft(r)
    BY DEF Good, NothingLeft, SameOwners, SameStates, SameServed
  <1>. QED  BY <1>1, <1>2, <1>3 DEF Good

(* Who has which session only depends on which are free.                   *)
LEMMA OwnedFrame ==
    ASSUME NEW c \in Connection, Owned(c), NEW r, SameOwners(r, c),
           \A y \in Sids : r.state[y] = "free" <=> c.state[y] = "free"
    PROVE  Owned(r)
  <1>1. \A s \in Stmts : c.tds[s] \in Sids \cup {None}
    BY DEF Connection
  <1>2. \A s \in Stmts : r.tds[s] # None => s \in r.alive /\ r.state[r.tds[s]] # "free"
    BY <1>1 DEF Owned, SameOwners
  <1>3. /\ \A s, t \in Stmts : r.tds[s] # None /\ r.tds[s] = r.tds[t] => s = t
        /\ \A s \in Stmts : r.tds[s] = 0 <=> r.current = s
    BY DEF Owned, SameOwners
  <1>4. /\ \A x \in Sids : x # 0 /\ r.state[x] # "free" => \E s \in Stmts : r.tds[s] = x
        /\ ~r.mars => \A x \in Sids : x # 0 => r.state[x] = "free"
        /\ r.connected => r.state[0] # "free"
    BY HandleKinds DEF Owned, SameOwners
  <1>. QED  BY <1>2, <1>3, <1>4 DEF Owned

(* What is sound is sound but for a session.                               *)
LEMMA GoodExcept ==
    ASSUME NEW c, NEW x, Sound(c)
    PROVE  SoundBut(c, x)
  BY DEF Good, Asked, Sound, SoundBut

(* A request on a session that is idle.                                    *)
LEMMA GoodSubmit ==
    ASSUME NEW c, NEW x \in Sids, SoundBut(c, x), c.state[x] \in {"IDLE", "PENDING"},
           NEW s \in Stmts \cup {None}, NEW op \in Ops, NEW h \in Handles \cup {None},
           op \in {"prepare", "prepexec"} => h \in Dyns, op = "cursoropen" => h \in Cursors,
           NEW r, r = Submit(c, s, x, op, h)
    PROVE  /\ SoundBut(r, x) /\ Submitted(r, c, s, x, op, h)
           /\ s \in Stmts /\ c.tds[s] = x => Sound(r)
           /\ \A g \in Handles : Unused(c, g) /\ g # h => Unused(r, g)
  <1>. USE DEF Sound, SoundBut
  <1>1. c \in Connection /\ Owned(c) /\ AllLost(c) /\ Asked(c, {x}) /\ Counted(c) /\ NothingLeft(c) /\ Named(c)
    BY DEF Good
  <1>2. r \in Connection /\ Counted(r) /\ Submitted(r, c, s, x, op, h)
    BY <1>1, SubmitIs
  <1>3. /\ \A y \in Sids : r.state[y] = IF y = x THEN "PENDING" ELSE c.state[y]
        /\ \A y \in Sids : r.asker[y] = IF y = x THEN s ELSE c.asker[y]
        /\ \A y \in Sids : r.current_op[y] = IF y = x THEN op ELSE c.current_op[y]
        /\ \A y \in Sids : r.cur_dyn[y] = IF y = x THEN IF h \in Dyns THEN h ELSE None ELSE c.cur_dyn[y]
        /\ \A y \in Sids : r.cur_cursor[y] = IF y = x THEN IF h \in Cursors THEN h ELSE None ELSE c.cur_cursor[y]
    <2>1. /\ c.state \in [Sids -> {"free", "IDLE", "PENDING", "DEAD"}] /\ c.asker \in [Sids -> Stmts \cup {None}]
          /\ c.current_op \in [Sids -> Ops] /\ c.cur_dyn \in [Sids -> Dyns \cup {None}]
          /\ c.cur_cursor \in [Sids -> Cursors \cup {None}]
      BY <1>1 DEF Connection
    <2>2. /\ \A y \in Sids : r.state[y] = IF y = x THEN "PENDING" ELSE c.state[y]
          /\ \A y \in Sids : r.asker[y] = IF y = x THEN s ELSE c.asker[y]
          /\ \A y \in Sids : r.current_op[y] = IF y = x THEN op ELSE c.current_op[y]
      BY <1>2, <2>1 DEF Submitted
    <2>3. \A y \in Sids : r.cur_dyn[y] = IF y = x THEN IF h \in Dyns THEN h ELSE None ELSE c.cur_dyn[y]
      BY <1>2, <2>1 DEF Submitted
    <2>4. \A y \in Sids : r.cur_cursor[y] = IF y = x THEN IF h \in Cursors THEN h ELSE None ELSE c.cur_cursor[y]
      BY <1>2, <2>1 DEF Submitted
    <2>. QED  BY <2>2, <2>3, <2>4
  <1>4. SameOwners(r, c) /\ SameHeld(r, c) /\ SameLists(r, c)
    BY <1>2 DEF Submitted
  <1>5. Owned(r)
    <2>1. \A y \in Sids : r.state[y] = "free" <=> c.state[y] = "free"
      BY <1>3
    <2>. QED  BY <1>1, <1>4, <2>1, OwnedFrame
  <1>6. AllLost(r)
    BY <1>1, <1>3 DEF AllLost, Lost
  <1>7. Asked(r, {x}) /\ (s \in Stmts /\ c.tds[s] = x => Asked(r, {}))
    BY <1>1, <1>3, <1>4 DEF Asked, SameOwners
  <1>8. NothingLeft(r)
    BY <1>1, <1>3, <1>4 DEF NothingLeft, SameOwners, SameHeld
  <1>9. Named(r)
    BY <1>1, <1>3, HandleKinds DEF Named
  <1>10. \A g \in Handles : Unused(c, g) /\ g # h => Unused(r, g)
    BY <1>3, <1>4, HandleKinds DEF Unused, SameHeld, SameLists
  <1>. QED  BY <1>2, <1>5, <1>6, <1>7, <1>8, <1>9, <1>10 DEF Good

(* The states of the sessions after an answer was read.                    *)
StatesAfter(f, c, x) ==
    /\ f.state[x] # "PENDING"
    /\ \A y \in Sids : f.state[y] = "free" <=> c.state[y] = "free"
    /\ \A y \in Sids : f.state[y] \in {c.state[y], "DEAD"} \/ (y = x /\ c.state[x] = "PENDING" /\ f.state[x] = "IDLE")

(* The rest of an answer leaves the session without one, and every other   *)
(* session as it was or lost with the connection.                          *)
LEMMA GoodFinish ==
    ASSUME NEW c, NEW x \in Sids, SoundBut(c, x), NEW res \in {"ok", "err", "cancel", "dead"},
           NEW f, f = Finish(c, x, res)
    PROVE  /\ Sound(f) /\ SameOwners(f, c) /\ SameHeld(f, c) /\ StatesAfter(f, c, x)
           /\ c.state[x] # "PENDING" => f = c
           /\ c.state[x] = "PENDING" /\ res # "dead" => Finished(f, c, x, New(c, x, res)) /\ f.state[x] = "IDLE"
           /\ c.state[x] = "PENDING" /\ res = "dead" => Died(f, c) /\ f.state[x] = "DEAD"
           /\ \A g \in Handles : Unused(c, g) => Unused(f, g)
  <1>. USE DEF Sound, SoundBut
  <1>1. c \in Connection /\ Owned(c) /\ AllLost(c) /\ Asked(c, {x}) /\ Counted(c) /\ NothingLeft(c) /\ Named(c)
    BY DEF Good
  <1>2. CASE c.state[x] # "PENDING"
    <2>1. f = c
      BY <1>2, Zenon DEF Finish
    <2>2. Asked(f, {})
      BY <1>1, <1>2, <2>1 DEF Asked
    <2>3. Good(f, {})
      BY <1>1, <2>1, <2>2 DEF Good
    <2>. QED  BY <1>2, <2>1, <2>3 DEF SameOwners, SameHeld, StatesAfter
  <1>3. CASE c.state[x] = "PENDING" /\ res # "dead"
    <2>1. /\ f \in Connection /\ Counted(f) /\ Finished(f, c, x, New(c, x, res))
          /\ \A g \in Handles : Unused(c, g) => Unused(f, g)
      BY <1>1, <1>3, FinishIs
    <2>2. /\ \A y \in Sids : f.state[y] = IF y = x THEN "IDLE" ELSE c.state[y]
          /\ \A y \in Sids : f.asker[y] = IF y = x THEN None ELSE c.asker[y]
      <3>1. /\ c.state \in [Sids -> {"free", "IDLE", "PENDING", "DEAD"}] /\ c.asker \in [Sids -> Stmts \cup {None}]
            /\ f.state = [c.state EXCEPT ![x] = "IDLE"] /\ f.asker = [c.asker EXCEPT ![x] = None]
        BY <1>1, <2>1 DEF Connection, Finished
      <3>. QED  BY <3>1
    <2>3. /\ SameOwners(f, c) /\ SameHeld(f, c)
          /\ \A y \in Sids \ {x} : /\ f.current_op[y] = c.current_op[y]
                                   /\ f.cur_dyn[y] = c.cur_dyn[y] /\ f.cur_cursor[y] = c.cur_cursor[y]
      BY <2>1 DEF Finished
    <2>4. Owned(f)
      <3>1. \A y \in Sids : f.state[y] = "free" <=> c.state[y] = "free"
        BY <1>3, <2>2
      <3>. QED  BY <1>1, <2>3, <3>1, OwnedFrame
    <2>5. AllLost(f)
      BY <1>1, <1>3, <2>2 DEF AllLost, Lost
    <2>6. Asked(f, {}) /\ Named(f)
      BY <1>1, <2>2, <2>3 DEF Asked, Named, SameOwners
    <2>7. NothingLeft(f)
      BY <1>1, <2>2, <2>3 DEF NothingLeft, SameOwners, SameHeld
    <2>8. StatesAfter(f, c, x)
      BY <1>3, <2>2 DEF StatesAfter
    <2>9. Good(f, {})
      BY <2>1, <2>4, <2>5, <2>6, <2>7 DEF Good
    <2>. QED  BY <1>3, <2>1, <2>2, <2>3, <2>8, <2>9
  <1>4. CASE c.state[x] = "PENDING" /\ res = "dead"
    <2>1. f \in Connection /\ Counted(f) /\ Died(f, c)
      BY <1>1, <1>4, FinishDies
    <2>2. \A y \in Sids : f.state[y] = IF c.state[y] = "free" THEN "free" ELSE "DEAD"
      BY <2>1 DEF Died
    <2>3. SameOwners(f, c) /\ SameHeld(f, c) /\ SameServed(f, c) /\ SameLists(f, c)
      BY <2>1 DEF Died
    <2>4. Owned(f)
      <3>1. \A y \in Sids : f.state[y] = "free" <=> c.state[y] = "free"
        BY <2>2
      <3>. QED  BY <1>1, <2>3, <3>1, OwnedFrame
    <2>5. AllLost(f)
      BY <2>2 DEF AllLost, Lost
    <2>6. Asked(f, {}) /\ Named(f)
      BY <2>2 DEF Asked, Named
    <2>7. NothingLeft(f)
      BY <1>1, <2>2, <2>3 DEF NothingLeft, SameOwners, SameHeld, SameServed
    <2>8. StatesAfter(f, c, x)
      BY <1>4, <2>2 DEF StatesAfter
    <2>9. \A g \in Handles : Unused(c, g) => Unused(f, g)
      BY <2>3 DEF Unused, SameHeld, SameServed, SameLists
    <2>10. Good(f, {})
      BY <2>1, <2>4, <2>5, <2>6, <2>7 DEF Good
    <2>. QED  BY <1>4, <2>1, <2>2, <2>3, <2>8, <2>9, <2>10
  <1>. QED  BY <1>2, <1>3, <1>4

-----------------------------------------------------------------------------
(* odbc_lock_statement() and odbc_unlock_statement().                      *)

(* What they leave alone.                                                  *)
SameBut(l, c) ==
    /\ l.connected = c.connected /\ l.mars = c.mars /\ l.alive = c.alive /\ l.fault = c.fault
    /\ l.is_prepared = c.is_prepared /\ l.need_reprepare = c.need_reprepare
    /\ SameHeld(l, c) /\ SameLists(l, c) /\ SameCloses(l, c) /\ l.known = c.known

(* The value of the connection after a change to who has the sessions.     *)
Moved(l, c, current, tds, got, state) ==
    /\ l \in Connection /\ SameBut(l, c) /\ SameServed(l, c) /\ l.ref_count = c.ref_count
    /\ l.asker = c.asker /\ l.current_op = c.current_op
    /\ l.current = current /\ l.tds = tds /\ l.got = got /\ l.state = state

WithState(c, state) == [c EXCEPT !.state = state]

(* A new function of states is one.                                        *)
LEMMA StateType ==
    ASSUME NEW c \in Connection, NEW state \in [Sids -> {"free", "IDLE", "PENDING", "DEAD"}]
    PROVE  WithState(c, state) \in Connection
  BY DEF Connection, WithState

(* A change to the owners of the sessions changes nothing else.            *)
LEMMA MovedIs ==
    ASSUME NEW c \in Connection, NEW current \in Stmts \cup {None},
           NEW tds \in [Stmts -> Sids \cup {None}], NEW got \in [Stmts -> Sids \cup {None}],
           NEW state \in [Sids -> {"free", "IDLE", "PENDING", "DEAD"}],
           NEW l, l = [c EXCEPT !.current = current, !.tds = tds, !.got = got, !.state = state]
    PROVE  Moved(l, c, current, tds, got, state)
  <1>1. PICK b : b = [c EXCEPT !.current = current, !.tds = tds]
    OBVIOUS
  <1>2. b \in Connection
    BY <1>1 DEF Connection
  <1>3. l = [b EXCEPT !.got = got, !.state = state]
    BY <1>1
  <1>4. l \in Connection
    <2>1. PICK a : a = [b EXCEPT !.got = got]
      OBVIOUS
    <2>2. a \in Connection
      BY <1>2, <2>1 DEF Connection
    <2>3. l = WithState(a, state)
      BY <1>3, <2>1 DEF WithState
    <2>. QED  BY <2>2, <2>3, StateType
  <1>5. /\ SameBut(b, c) /\ SameServed(b, c) /\ b.ref_count = c.ref_count
        /\ b.asker = c.asker /\ b.current_op = c.current_op
        /\ b.current = current /\ b.tds = tds
    BY <1>1 DEF Connection, SameBut, SameHeld, SameLists, SameCloses, SameServed
  <1>6. /\ SameBut(l, b) /\ SameServed(l, b) /\ l.ref_count = b.ref_count
        /\ l.asker = b.asker /\ l.current_op = b.current_op
        /\ l.current = b.current /\ l.tds = b.tds /\ l.got = got /\ l.state = state
    BY <1>2, <1>3 DEF Connection, SameBut, SameHeld, SameLists, SameCloses, SameServed
  <1>. QED  BY <1>4, <1>5, <1>6 DEF Moved, SameBut, SameHeld, SameLists, SameCloses, SameServed

(* The rest of the invariant after such a change.                          *)
LEMMA MovedGood ==
    ASSUME NEW c, NEW X, Good(c, X), NEW current, NEW tds, NEW got, NEW state, NEW Y, NEW l,
           Moved(l, c, current, tds, got, state), Owned(l), AllLost(l), Asked(l, Y),
           \A y \in Sids : state[y] = "free" => c.state[y] = "free",
           \A y \in Sids : state[y] = "PENDING" => c.state[y] = "PENDING"
    PROVE  Good(l, Y) /\ \A g : Unused(c, g) => Unused(l, g)
  <1>1. Counted(l)
    BY SameCounts DEF Good, Moved, SameBut
  <1>2. NothingLeft(l) /\ Named(l)
    BY DEF Good, NothingLeft, Named, Moved, SameBut, SameServed, SameHeld
  <1>3. \A g : Unused(c, g) => Unused(l, g)
    BY DEF Unused, Moved, SameBut, SameHeld, SameServed, SameLists
  <1>. QED  BY <1>1, <1>2, <1>3 DEF Good, Moved

(* What odbc_lock_statement() did.                                         *)
LockCase(l, c, s) ==
    \/ /\ c.tds[s] # None
       /\ Moved(l, c, c.current, c.tds, [c.got EXCEPT ![s] = c.tds[s]], c.state)
    \/ /\ c.tds[s] = None /\ c.current = None
       /\ Moved(l, c, s, [c.tds EXCEPT ![s] = 0], [c.got EXCEPT ![s] = 0], c.state)
    \/ /\ c.tds[s] = None /\ c.current \in Stmts \ {s} /\ c.state[0] = "IDLE"
       /\ Moved(l, c, s, [t \in Stmts |-> IF t = s THEN 0 ELSE IF t = c.current THEN None ELSE c.tds[t]],
                [c.got EXCEPT ![s] = 0], c.state)
    \/ /\ c.tds[s] = None /\ c.current \in Stmts \ {s} /\ c.state[0] \notin {"IDLE", "DEAD"} /\ c.mars
       /\ \E x \in Sids : /\ c.state[x] = "free"
                          /\ Moved(l, c, c.current, [c.tds EXCEPT ![s] = x], [c.got EXCEPT ![s] = x],
                                   [c.state EXCEPT ![x] = "IDLE"])
    \/ /\ c.tds[s] = None /\ c.current \in Stmts \ {s} /\ c.state[0] # "IDLE"
       /\ Moved(l, c, c.current, c.tds, [c.got EXCEPT ![s] = None], c.state)

(* These are the cases of odbc_lock_statement().                           *)
LEMMA LockIs ==
    ASSUME NEW c \in Connection, Owned(c), NEW s \in Stmts, NEW l, l = odbc_lock_statement(c, s)
    PROVE  LockCase(l, c, s)
  <1>1. PICK e : e = Choose(c, s)
    OBVIOUS
  <1>2. l = IF e.got[s] = None THEN e ELSE [e EXCEPT !.tds[s] = e.got[s]]
    BY <1>1 DEF odbc_lock_statement, Assign
  <1>3. /\ c.current \in Stmts \cup {None} /\ c.tds \in [Stmts -> Sids \cup {None}]
        /\ c.got \in [Stmts -> Sids \cup {None}] /\ 0 \in Sids /\ None \notin Sids /\ None \notin Stmts
        /\ c.state \in [Sids -> {"free", "IDLE", "PENDING", "DEAD"}]
    BY HandleKinds DEF Connection
  <1>4. c.tds[s] = None => c.current # s
    BY HandleKinds DEF Owned
  <1>5. CASE c.tds[s] # None
    <2>1. e = [c EXCEPT !.got[s] = c.tds[s]]
      BY <1>1, <1>5, Zenon DEF Choose
    <2>2. PICK td, gt : td = c.tds /\ gt = [c.got EXCEPT ![s] = c.tds[s]]
      OBVIOUS
    <2>3. e.got[s] = c.tds[s] /\ e.tds = c.tds
      BY <1>3, <2>1 DEF Connection
    <2>4. l = [e EXCEPT !.tds[s] = c.tds[s]]
      BY <1>2, <1>5, <2>3
    <2>5. l = [c EXCEPT !.current = c.current, !.tds = td, !.got = gt, !.state = c.state]
      <3>1. [e.tds EXCEPT ![s] = c.tds[s]] = td
        BY <1>3, <2>2, <2>3
      <3>2. l = [c EXCEPT !.tds = td, !.got = gt]
        BY <2>1, <2>2, <2>3, <2>4, <3>1
      <3>. QED  BY <3>2 DEF Connection
    <2>6. gt \in [Stmts -> Sids \cup {None}] /\ td \in [Stmts -> Sids \cup {None}]
      BY <1>3, <2>2
    <2>7. Moved(l, c, c.current, td, gt, c.state)
      BY <1>3, <2>5, <2>6, MovedIs
    <2>. QED  BY <1>5, <2>2, <2>7 DEF LockCase
  <1>6. CASE c.tds[s] = None /\ c.current \in {None, s}
    <2>1. e = [c EXCEPT !.current = s, !.got[s] = 0] /\ c.current = None
      BY <1>1, <1>4, <1>6, Zenon DEF Choose
    <2>2. PICK td, gt : td = [c.tds EXCEPT ![s] = 0] /\ gt = [c.got EXCEPT ![s] = 0]
      OBVIOUS
    <2>3. e.got[s] = 0 /\ e.tds = c.tds
      BY <1>3, <2>1 DEF Connection
    <2>4. l = [e EXCEPT !.tds[s] = 0]
      BY <1>2, <1>3, <2>3
    <2>5. l = [c EXCEPT !.current = s, !.tds = td, !.got = gt, !.state = c.state]
      <3>1. l = [c EXCEPT !.current = s, !.tds = td, !.got = gt]
        BY <2>1, <2>2, <2>3, <2>4
      <3>. QED  BY <3>1 DEF Connection
    <2>6. gt \in [Stmts -> Sids \cup {None}] /\ td \in [Stmts -> Sids \cup {None}]
      BY <1>3, <2>2
    <2>7. Moved(l, c, s, td, gt, c.state)
      BY <1>3, <2>5, <2>6, MovedIs
    <2>. QED  BY <1>6, <2>1, <2>2, <2>7 DEF LockCase
  <1>7. CASE c.tds[s] = None /\ c.current \notin {None, s} /\ c.state[0] = "IDLE"
    <2>0. c.current \in Stmts \ {s}
      BY <1>3, <1>7
    <2>1. e = [c EXCEPT !.tds[c.current] = None, !.current = s, !.got[s] = 0]
      <3>1. e = Steal(c, s)
        BY <1>1, <1>7, Zenon DEF Choose
      <3>. QED  BY <3>1 DEF Steal
    <2>2. PICK td, gt : /\ td = [t \in Stmts |-> IF t = s THEN 0 ELSE IF t = c.current THEN None ELSE c.tds[t]]
                        /\ gt = [c.got EXCEPT ![s] = 0]
      OBVIOUS
    <2>3. e.got[s] = 0 /\ e.tds = [c.tds EXCEPT ![c.current] = None]
      BY <1>3, <2>1 DEF Connection
    <2>4. l = [e EXCEPT !.tds[s] = 0]
      BY <1>2, <1>3, <2>3
    <2>5. l = [c EXCEPT !.current = s, !.tds = td, !.got = gt, !.state = c.state]
      <3>1. [e.tds EXCEPT ![s] = 0] = td
        BY <1>3, <2>0, <2>2, <2>3
      <3>2. l = [c EXCEPT !.current = s, !.tds = td, !.got = gt]
        BY <2>1, <2>2, <2>4, <3>1
      <3>. QED  BY <3>2 DEF Connection
    <2>6. gt \in [Stmts -> Sids \cup {None}] /\ td \in [Stmts -> Sids \cup {None}]
      BY <1>3, <2>2
    <2>7. Moved(l, c, s, td, gt, c.state)
      BY <1>3, <2>5, <2>6, MovedIs
    <2>. QED  BY <1>7, <2>0, <2>2, <2>7 DEF LockCase
  <1>8. CASE c.tds[s] = None /\ c.current \notin {None, s} /\ c.state[0] # "IDLE"
    <2>0. c.current \in Stmts \ {s}
      BY <1>3, <1>8
    <2>1. PICK unused : unused = {x \in Sids : c.state[x] = "free"}
      OBVIOUS
    <2>2. PICK x : x = CHOOSE z \in unused : TRUE
      OBVIOUS
    <2>3. e = IF c.mars /\ c.state[0] # "DEAD" /\ unused # {}
              THEN [c EXCEPT !.state[x] = "IDLE", !.got[s] = x] ELSE [c EXCEPT !.got[s] = None]
      BY <1>1, <1>8, <2>1, <2>2, Zenon DEF Choose
    <2>4. CASE c.mars /\ c.state[0] # "DEAD" /\ unused # {}
      <3>1. x \in unused
        BY <2>2, <2>4
      <3>2. x \in Sids /\ c.state[x] = "free"
        BY <2>1, <3>1
      <3>3. e = [c EXCEPT !.state[x] = "IDLE", !.got[s] = x]
        BY <2>3, <2>4
      <3>4. PICK td, gt, st : /\ td = [c.tds EXCEPT ![s] = x] /\ gt = [c.got EXCEPT ![s] = x]
                              /\ st = [c.state EXCEPT ![x] = "IDLE"]
        OBVIOUS
      <3>5. e.got[s] = x /\ e.tds = c.tds
        BY <1>3, <3>3 DEF Connection
      <3>6. l = [e EXCEPT !.tds[s] = x]
        BY <1>2, <1>3, <3>2, <3>5
      <3>7. l = [c EXCEPT !.current = c.current, !.tds = td, !.got = gt, !.state = st]
        <4>1. l = [c EXCEPT !.tds = td, !.got = gt, !.state = st]
          BY <3>3, <3>4, <3>5, <3>6
        <4>. QED  BY <4>1 DEF Connection
      <3>8. /\ gt \in [Stmts -> Sids \cup {None}] /\ td \in [Stmts -> Sids \cup {None}]
            /\ st \in [Sids -> {"free", "IDLE", "PENDING", "DEAD"}]
        BY <1>3, <3>2, <3>4
      <3>9. Moved(l, c, c.current, td, gt, st)
        BY <1>3, <3>7, <3>8, MovedIs
      <3>. QED  BY <1>8, <2>0, <2>4, <3>2, <3>4, <3>9 DEF LockCase
    <2>5. CASE ~(c.mars /\ c.state[0] # "DEAD" /\ unused # {})
      <3>1. e = [c EXCEPT !.got[s] = None]
        BY <2>3, <2>5
      <3>2. PICK gt : gt = [c.got EXCEPT ![s] = None]
        OBVIOUS
      <3>3. e.got[s] = None
        BY <1>3, <3>1 DEF Connection
      <3>4. l = [c EXCEPT !.current = c.current, !.tds = c.tds, !.got = gt, !.state = c.state]
        <4>1. l = [c EXCEPT !.got = gt]
          BY <1>2, <3>1, <3>2, <3>3
        <4>. QED  BY <4>1 DEF Connection
      <3>5. gt \in [Stmts -> Sids \cup {None}]
        BY <1>3, <3>2
      <3>6. Moved(l, c, c.current, c.tds, gt, c.state)
        BY <1>3, <3>4, <3>5, MovedIs
      <3>. QED  BY <1>8, <2>0, <3>2, <3>6 DEF LockCase
    <2>. QED  BY <2>4, <2>5
  <1>. QED  BY <1>5, <1>6, <1>7, <1>8

(* After odbc_lock_statement().                                            *)
AfterLock(l, c, s) ==
    /\ SameBut(l, c) /\ SameServed(l, c) /\ l.asker = c.asker /\ l.current_op = c.current_op
    /\ Locked(l, s) => l.tds[s] \in Sids /\ l.got[s] = l.tds[s] /\ l.state[l.tds[s]] # "free"
    /\ ~Locked(l, s) => /\ c.tds[s] = None /\ l.tds = c.tds /\ l.state = c.state /\ l.current = c.current
                        /\ c.state[0] \in {"PENDING", "DEAD"}
    /\ c.tds[s] # None => Locked(l, s) /\ l.tds = c.tds /\ l.state = c.state /\ l.current = c.current
    /\ \A y \in Sids : l.state[y] = c.state[y] \/ (c.state[y] = "free" /\ l.state[y] = "IDLE")

(* odbc_lock_statement() gives the statement a session that no other has,  *)
(* with no answer of another on it.                                        *)
LEMMA LockedGood ==
    ASSUME NEW c, NEW X, Good(c, X), NEW s \in Stmts, s \in c.alive, c.connected,
           X = {} \/ (X = {0} /\ c.current = None /\ c.tds[s] = None /\ c.asker[0] = s),
           NEW l, l = odbc_lock_statement(c, s)
    PROVE  /\ Good(l, {}) /\ AfterLock(l, c, s) /\ \A g : Unused(c, g) => Unused(l, g)
           /\ X = {} /\ c.tds[s] = None /\ Locked(l, s) => l.state[l.tds[s]] # "PENDING"
  <1>1. c \in Connection /\ Owned(c) /\ AllLost(c) /\ Asked(c, X)
    BY DEF Good
  <1>2. LockCase(l, c, s)
    BY <1>1, LockIs
  <1>3. /\ c.current \in Stmts \cup {None} /\ c.tds \in [Stmts -> Sids \cup {None}]
        /\ c.got \in [Stmts -> Sids \cup {None}] /\ 0 \in Sids /\ None \notin Sids /\ None \notin Stmts
        /\ c.state \in [Sids -> {"free", "IDLE", "PENDING", "DEAD"}] /\ c.asker \in [Sids -> Stmts \cup {None}]
        /\ c.state[0] # "free"
    BY <1>1, HandleKinds DEF Connection, Owned
  <1>4. CASE c.tds[s] # None /\ Moved(l, c, c.current, c.tds, [c.got EXCEPT ![s] = c.tds[s]], c.state)
    <2>1. /\ l.current = c.current /\ l.tds = c.tds /\ l.state = c.state /\ l.got[s] = c.tds[s]
          /\ SameBut(l, c) /\ SameServed(l, c) /\ l.asker = c.asker /\ l.current_op = c.current_op
      BY <1>3, <1>4 DEF Moved
    <2>2. X = {}
      BY <1>4
    <2>3. Owned(l) /\ AllLost(l) /\ Asked(l, {})
      BY <1>1, <2>1, <2>2 DEF Owned, AllLost, Lost, Asked, SameBut
    <2>4. Good(l, {}) /\ \A g : Unused(c, g) => Unused(l, g)
      BY <1>4, <2>3, MovedGood
    <2>5. AfterLock(l, c, s)
      BY <1>1, <1>3, <1>4, <2>1 DEF AfterLock, Locked, Owned
    <2>. QED  BY <1>4, <2>4, <2>5
  <1>5. CASE /\ c.tds[s] = None /\ c.current = None
             /\ Moved(l, c, s, [c.tds EXCEPT ![s] = 0], [c.got EXCEPT ![s] = 0], c.state)
    <2>1. /\ l.current = s /\ l.state = c.state /\ l.got[s] = 0
          /\ \A t \in Stmts : l.tds[t] = IF t = s THEN 0 ELSE c.tds[t]
          /\ SameBut(l, c) /\ SameServed(l, c) /\ l.asker = c.asker /\ l.current_op = c.current_op
      BY <1>3, <1>5 DEF Moved
    <2>2. \A t \in Stmts : c.tds[t] # 0
      BY <1>1, <1>3, <1>5 DEF Owned
    <2>3. Owned(l)
      <3>1. /\ \A t \in Stmts : l.tds[t] # None => t \in l.alive /\ l.state[l.tds[t]] # "free"
            /\ \A t, u \in Stmts : l.tds[t] # None /\ l.tds[t] = l.tds[u] => t = u
            /\ \A t \in Stmts : l.tds[t] = 0 <=> l.current = t
        BY <1>1, <1>3, <2>1, <2>2 DEF Owned, SameBut
      <3>2. \A x \in Sids : x # 0 /\ l.state[x] # "free" => \E t \in Stmts : l.tds[t] = x
        BY <1>1, <1>3, <1>5, <2>1 DEF Owned
      <3>. QED  BY <1>1, <2>1, <3>1, <3>2 DEF Owned, SameBut
    <2>4. AllLost(l)
      BY <1>1, <2>1 DEF AllLost, Lost
    <2>5. Asked(l, {}) /\ (X = {} => c.state[0] # "PENDING")
      BY <1>1, <1>3, <1>5, <2>1, <2>2 DEF Asked
    <2>6. Good(l, {}) /\ \A g : Unused(c, g) => Unused(l, g)
      BY <1>5, <2>3, <2>4, <2>5, MovedGood
    <2>7. AfterLock(l, c, s)
      BY <1>3, <1>5, <2>1, HandleKinds DEF AfterLock, Locked
    <2>. QED  BY <2>1, <2>5, <2>6, <2>7
  <1>6. CASE /\ c.tds[s] = None /\ c.current \in Stmts \ {s} /\ c.state[0] = "IDLE"
             /\ Moved(l, c, s, [t \in Stmts |-> IF t = s THEN 0 ELSE IF t = c.current THEN None ELSE c.tds[t]],
                      [c.got EXCEPT ![s] = 0], c.state)
    <2>1. /\ l.current = s /\ l.state = c.state /\ l.got[s] = 0
          /\ \A t \in Stmts : l.tds[t] = IF t = s THEN 0 ELSE IF t = c.current THEN None ELSE c.tds[t]
          /\ SameBut(l, c) /\ SameServed(l, c) /\ l.asker = c.asker /\ l.current_op = c.current_op
      BY <1>3, <1>6 DEF Moved
    <2>2. \A t \in Stmts : c.tds[t] = 0 <=> t = c.current
      BY <1>1, <1>3, <1>6 DEF Owned
    <2>3. Owned(l)
      <3>1. /\ \A t \in Stmts : l.tds[t] # None => t \in l.alive /\ l.state[l.tds[t]] # "free"
            /\ \A t, u \in Stmts : l.tds[t] # None /\ l.tds[t] = l.tds[u] => t = u
            /\ \A t \in Stmts : l.tds[t] = 0 <=> l.current = t
        BY <1>1, <1>3, <2>1, <2>2, HandleKinds DEF Owned, SameBut
      <3>2. ASSUME NEW x \in Sids, x # 0, l.state[x] # "free" PROVE \E t \in Stmts : l.tds[t] = x
        <4>1. PICK t \in Stmts : c.tds[t] = x
          BY <1>1, <2>1, <3>2 DEF Owned
        <4>2. t # s /\ t # c.current
          BY <1>3, <1>6, <2>2, <3>2, <4>1
        <4>. QED  BY <2>1, <4>1, <4>2
      <3>. QED  BY <1>1, <2>1, <3>1, <3>2 DEF Owned, SameBut
    <2>4. AllLost(l)
      BY <1>1, <2>1 DEF AllLost, Lost
    <2>5. Asked(l, {}) /\ X = {}
      <3>1. X = {}
        BY <1>3, <1>6
      <3>2. ASSUME NEW x \in Sids, l.state[x] = "PENDING" PROVE l.asker[x] \in Stmts /\ l.tds[l.asker[x]] = x
        <4>1. c.asker[x] \in Stmts /\ c.tds[c.asker[x]] = x /\ x # 0
          BY <1>1, <1>6, <2>1, <3>1, <3>2 DEF Asked
        <4>2. c.asker[x] # s /\ c.asker[x] # c.current
          BY <1>3, <1>6, <2>2, <4>1
        <4>. QED  BY <2>1, <4>1, <4>2
      <3>. QED  BY <3>1, <3>2 DEF Asked
    <2>6. Good(l, {}) /\ \A g : Unused(c, g) => Unused(l, g)
      BY <1>6, <2>3, <2>4, <2>5, MovedGood
    <2>7. AfterLock(l, c, s)
      BY <1>3, <1>6, <2>1, HandleKinds DEF AfterLock, Locked
    <2>. QED  BY <1>6, <2>1, <2>5, <2>6, <2>7
  <1>7. CASE /\ c.tds[s] = None /\ c.current \in Stmts \ {s} /\ c.state[0] \notin {"IDLE", "DEAD"} /\ c.mars
             /\ \E x \in Sids : /\ c.state[x] = "free"
                                /\ Moved(l, c, c.current, [c.tds EXCEPT ![s] = x], [c.got EXCEPT ![s] = x],
                                         [c.state EXCEPT ![x] = "IDLE"])
    <2>0. PICK x \in Sids : /\ c.state[x] = "free"
                            /\ Moved(l, c, c.current, [c.tds EXCEPT ![s] = x], [c.got EXCEPT ![s] = x],
                                     [c.state EXCEPT ![x] = "IDLE"])
      BY <1>7
    <2>1. /\ l.current = c.current /\ l.got[s] = x
          /\ \A t \in Stmts : l.tds[t] = IF t = s THEN x ELSE c.tds[t]
          /\ \A y \in Sids : l.state[y] = IF y = x THEN "IDLE" ELSE c.state[y]
          /\ SameBut(l, c) /\ SameServed(l, c) /\ l.asker = c.asker /\ l.current_op = c.current_op
      BY <1>3, <2>0 DEF Moved
    <2>2. x # 0 /\ c.state[0] = "PENDING" /\ \A t \in Stmts : c.tds[t] # x
      BY <1>1, <1>3, <1>7, <2>0 DEF Owned
    <2>3. Owned(l)
      <3>1. /\ \A t \in Stmts : l.tds[t] # None => t \in l.alive /\ l.state[l.tds[t]] # "free"
            /\ \A t, u \in Stmts : l.tds[t] # None /\ l.tds[t] = l.tds[u] => t = u
        BY <1>1, <1>3, <2>1, <2>2 DEF Owned, SameBut
      <3>2. \A t \in Stmts : l.tds[t] = 0 <=> l.current = t
        BY <1>1, <1>3, <1>7, <2>1, <2>2 DEF Owned
      <3>3. \A y \in Sids : y # 0 /\ l.state[y] # "free" => \E t \in Stmts : l.tds[t] = y
        BY <1>1, <1>3, <1>7, <2>1 DEF Owned
      <3>4. l.mars /\ l.connected /\ l.state[0] # "free"
        BY <1>3, <1>7, <2>1, <2>2 DEF SameBut
      <3>. QED  BY <3>1, <3>2, <3>3, <3>4 DEF Owned
    <2>4. AllLost(l)
      BY <1>1, <1>3, <2>1, <2>2 DEF AllLost, Lost
    <2>5. Asked(l, {}) /\ X = {}
      <3>1. X = {}
        BY <1>3, <1>7
      <3>. QED  BY <1>1, <1>3, <1>7, <2>1, <3>1 DEF Asked
    <2>6. Good(l, {}) /\ \A g : Unused(c, g) => Unused(l, g)
      <3>1. PICK td, gt, st : /\ Moved(l, c, c.current, td, gt, st) /\ st = l.state
        BY <2>0 DEF Moved
      <3>2. /\ \A y \in Sids : st[y] = "free" => c.state[y] = "free"
            /\ \A y \in Sids : st[y] = "PENDING" => c.state[y] = "PENDING"
        BY <2>1, <3>1
      <3>. QED  BY <2>3, <2>4, <2>5, <3>1, <3>2, MovedGood
    <2>7. AfterLock(l, c, s)
      BY <1>3, <1>7, <2>0, <2>1, HandleKinds DEF AfterLock, Locked
    <2>. QED  BY <2>1, <2>6, <2>7
  <1>8. CASE /\ c.tds[s] = None /\ c.current \in Stmts \ {s} /\ c.state[0] # "IDLE"
             /\ Moved(l, c, c.current, c.tds, [c.got EXCEPT ![s] = None], c.state)
    <2>1. /\ l.current = c.current /\ l.tds = c.tds /\ l.state = c.state /\ l.got[s] = None
          /\ SameBut(l, c) /\ SameServed(l, c) /\ l.asker = c.asker /\ l.current_op = c.current_op
      BY <1>3, <1>8 DEF Moved
    <2>2. X = {}
      BY <1>3, <1>8
    <2>3. Owned(l) /\ AllLost(l) /\ Asked(l, {})
      BY <1>1, <2>1, <2>2 DEF Owned, AllLost, Lost, Asked, SameBut
    <2>4. Good(l, {}) /\ \A g : Unused(c, g) => Unused(l, g)
      BY <1>8, <2>3, MovedGood
    <2>5. AfterLock(l, c, s)
      BY <1>3, <1>8, <2>1 DEF AfterLock, Locked
    <2>. QED  BY <1>8, <2>1, <2>4, <2>5 DEF Locked
  <1>. QED  BY <1>2, <1>4, <1>5, <1>6, <1>7, <1>8 DEF LockCase

(* The same, in terms of what is sound.                                    *)
LEMMA GoodLock ==
    ASSUME NEW c, NEW s \in Stmts, s \in c.alive, c.connected,
           Sound(c) \/ (SoundBut(c, 0) /\ c.current = None /\ c.tds[s] = None /\ c.asker[0] = s),
           NEW l, l = odbc_lock_statement(c, s)
    PROVE  /\ Sound(l) /\ AfterLock(l, c, s) /\ \A g : Unused(c, g) => Unused(l, g)
           /\ Sound(c) /\ c.tds[s] = None /\ Locked(l, s) => l.state[l.tds[s]] # "PENDING"
  <1>1. CASE Sound(c)
    BY <1>1, LockedGood DEF Sound
  <1>2. CASE ~Sound(c) /\ SoundBut(c, 0) /\ c.current = None /\ c.tds[s] = None /\ c.asker[0] = s
    <2>1. PICK X : X = {0}
      OBVIOUS
    <2>2. Good(c, X)
      BY <1>2, <2>1 DEF SoundBut
    <2>3. Sound(l) /\ AfterLock(l, c, s) /\ \A g : Unused(c, g) => Unused(l, g)
      BY <1>2, <2>1, <2>2, LockedGood DEF Sound
    <2>. QED  BY <1>2, <2>3
  <1>. QED  BY <1>1, <1>2

(* After odbc_unlock_statement().                                          *)
AfterUnlock(u, c, s) ==
    /\ SameBut(u, c) /\ u.asker = c.asker /\ u.got = c.got
    /\ \A t \in Stmts \ {s} : u.tds[t] = c.tds[t]
    /\ u.tds[s] \in {None, c.tds[s]}
    /\ c.tds[s] # None /\ c.state[c.tds[s]] \in {"IDLE", "DEAD"} => u.tds[s] = None
    /\ c.tds[s] = 0 /\ c.state[0] \in {"IDLE", "DEAD"} => u.current = None
    /\ \A y \in Sids :
          \/ /\ u.state[y] = c.state[y] /\ u.current_op[y] = c.current_op[y]
             /\ u.cur_dyn[y] = c.cur_dyn[y] /\ u.cur_cursor[y] = c.cur_cursor[y]
          \/ y # 0 /\ y = c.tds[s] /\ c.state[y] \in {"IDLE", "DEAD"} /\ u.state[y] = "free"

(* odbc_unlock_statement() gives the session back when the answer was      *)
(* read, and the assertions in it hold.                                    *)
LEMMA GoodUnlock ==
    ASSUME NEW c, Sound(c), NEW s \in Stmts, NEW u, u = odbc_unlock_statement(c, s)
    PROVE  Sound(u) /\ AfterUnlock(u, c, s) /\ \A g \in Handles : Unused(c, g) => Unused(u, g)
  <1>. USE DEF Sound, SoundBut
  <1>1. c \in Connection /\ Owned(c) /\ AllLost(c) /\ Asked(c, {}) /\ Counted(c) /\ NothingLeft(c) /\ Named(c)
    BY DEF Good
  <1>2. /\ c.current \in Stmts \cup {None} /\ c.tds \in [Stmts -> Sids \cup {None}]
        /\ 0 \in Sids /\ None \notin Sids /\ None \notin Stmts /\ None # 0
        /\ c.state \in [Sids -> {"free", "IDLE", "PENDING", "DEAD"}]
    BY <1>1, HandleKinds DEF Connection
  <1>3. c.current = s <=> c.tds[s] = 0
    BY <1>1 DEF Owned
  <1>5. CASE u = [c EXCEPT !.current = None, !.tds[s] = None] /\ c.current = s /\ c.state[0] \in {"IDLE", "DEAD"}
    <2>1. PICK td : td = [c.tds EXCEPT ![s] = None]
      OBVIOUS
    <2>2. td \in [Stmts -> Sids \cup {None}] /\ \A t \in Stmts : td[t] = IF t = s THEN None ELSE c.tds[t]
      BY <1>2, <2>1
    <2>3. u = [c EXCEPT !.current = None, !.tds = td, !.got = c.got, !.state = c.state]
      <3>1. u = [c EXCEPT !.current = None, !.tds = td]
        BY <1>5, <2>1
      <3>. QED  BY <1>1, <3>1 DEF Connection
    <2>4. c.got \in [Stmts -> Sids \cup {None}]
      BY <1>1 DEF Connection
    <2>5. Moved(u, c, None, td, c.got, c.state)
      BY <1>1, <1>2, <2>2, <2>3, <2>4, MovedIs
    <2>6. /\ SameBut(u, c) /\ SameServed(u, c) /\ u.asker = c.asker /\ u.current_op = c.current_op
          /\ u.current = None /\ u.tds = td /\ u.got = c.got /\ u.state = c.state
      BY <2>5 DEF Moved
    <2>7. Owned(u)
      <3>1. \A x \in Sids : x # 0 /\ u.state[x] # "free" => \E t \in Stmts : u.tds[t] = x
        BY <1>1, <1>3, <1>5, <2>2, <2>6 DEF Owned
      <3>2. /\ \A t \in Stmts : u.tds[t] # None => t \in u.alive /\ u.state[u.tds[t]] # "free"
            /\ \A t, v \in Stmts : u.tds[t] # None /\ u.tds[t] = u.tds[v] => t = v
        BY <1>1, <2>2, <2>6 DEF Owned, SameBut
      <3>3. \A t \in Stmts : u.tds[t] = 0 <=> u.current = t
        BY <1>1, <1>2, <1>3, <1>5, <2>2, <2>6 DEF Owned
      <3>. QED  BY <1>1, <2>6, <3>1, <3>2, <3>3 DEF Owned, SameBut
    <2>8. AllLost(u) /\ Asked(u, {})
      BY <1>1, <1>3, <1>5, <2>2, <2>6 DEF AllLost, Lost, Asked
    <2>9. Good(u, {}) /\ \A g : Unused(c, g) => Unused(u, g)
      BY <2>5, <2>7, <2>8, MovedGood
    <2>10. AfterUnlock(u, c, s)
      BY <2>2, <2>6 DEF AfterUnlock, SameServed
    <2>. QED  BY <2>9, <2>10
  <1>6. CASE c.current # s /\ c.tds[s] # None /\ c.state[c.tds[s]] \in {"IDLE", "DEAD"}
    <2>1. PICK x : x = c.tds[s]
      OBVIOUS
    <2>2. PICK f : f = tds_free_socket(c, x)
      OBVIOUS
    <2>3. u = [f EXCEPT !.tds[s] = None] /\ x \in Sids /\ x # 0
      <3>1. x \in Sids /\ x # 0 /\ x # None
        BY <1>2, <1>3, <1>6, <2>1
      <3>. QED  BY <1>6, <2>1, <2>2, <3>1, Zenon DEF odbc_unlock_statement
    <2>4. /\ f \in Connection /\ Counted(f)
          /\ SameOwners(f, c) /\ SameHeld(f, c) /\ SameLists(f, c) /\ SameCloses(f, c) /\ f.known = c.known
          /\ f.state = [c.state EXCEPT ![x] = "free"]
          /\ f.current_op = [c.current_op EXCEPT ![x] = "none"] /\ f.asker = c.asker
          /\ f.cur_dyn = [c.cur_dyn EXCEPT ![x] = None]
          /\ f.cur_cursor = [c.cur_cursor EXCEPT ![x] = None]
      <3>1. f \in Connection /\ Counted(f) /\ SocketFreed(f, c, x)
        BY <1>1, <2>2, <2>3, FreeSocketIs
      <3>. QED  BY <3>1 DEF SocketFreed
    <2>5. PICK td : td = [f.tds EXCEPT ![s] = None]
      OBVIOUS
    <2>6. td \in [Stmts -> Sids \cup {None}] /\ \A t \in Stmts : td[t] = IF t = s THEN None ELSE c.tds[t]
      BY <1>2, <2>4, <2>5 DEF SameOwners
    <2>7. u = [f EXCEPT !.tds = td]
      BY <2>3, <2>5
    <2>8. u \in Connection
      BY <2>4, <2>6, <2>7 DEF Connection
    <2>9. /\ SameBut(u, f) /\ SameServed(u, f) /\ SameStates(u, f) /\ u.ref_count = f.ref_count
          /\ u.tds = td /\ u.current = f.current /\ u.got = f.got
      BY <2>4, <2>7 DEF Connection, SameBut, SameHeld, SameLists, SameCloses, SameServed, SameStates
    <2>10. SameBut(u, c) /\ u.asker = c.asker /\ u.current = c.current /\ u.got = c.got /\ u.tds = td
      BY <2>4, <2>9 DEF SameBut, SameOwners, SameStates, SameHeld, SameLists, SameCloses
    <2>11. \A y \in Sids :
             /\ u.state[y] = IF y = x THEN "free" ELSE c.state[y]
             /\ u.cur_dyn[y] = IF y = x THEN None ELSE c.cur_dyn[y]
             /\ u.cur_cursor[y] = IF y = x THEN None ELSE c.cur_cursor[y]
             /\ y # x => u.current_op[y] = c.current_op[y]
      <3>1. /\ c.cur_dyn \in [Sids -> Dyns \cup {None}] /\ c.cur_cursor \in [Sids -> Cursors \cup {None}]
            /\ c.current_op \in [Sids -> Ops]
        BY <1>1 DEF Connection
      <3>2. \A y \in Sids : /\ u.state[y] = IF y = x THEN "free" ELSE c.state[y]
                            /\ y # x => u.current_op[y] = c.current_op[y]
        BY <1>2, <2>4, <2>9, <3>1 DEF SameStates
      <3>3. \A y \in Sids : /\ u.cur_dyn[y] = IF y = x THEN None ELSE c.cur_dyn[y]
                            /\ u.cur_cursor[y] = IF y = x THEN None ELSE c.cur_cursor[y]
        BY <2>4, <2>9, <3>1 DEF SameServed
      <3>. QED  BY <3>2, <3>3
    <2>12. Counted(u)
      BY <2>4, <2>9, SameCounts DEF SameBut
    <2>13. \A t \in Stmts : c.tds[t] = x => t = s
      BY <1>1, <1>6, <2>1 DEF Owned
    <2>14. Owned(u)
      <3>1. \A y \in Sids : y # 0 /\ u.state[y] # "free" => \E t \in Stmts : u.tds[t] = y
        <4>. SUFFICES ASSUME NEW y \in Sids, y # 0, u.state[y] # "free" PROVE \E t \in Stmts : u.tds[t] = y
          OBVIOUS
        <4>1. y # x /\ c.state[y] # "free"
          BY <2>11
        <4>2. PICK t \in Stmts : c.tds[t] = y
          BY <1>1, <4>1 DEF Owned
        <4>. QED  BY <2>1, <2>6, <2>10, <4>1, <4>2
      <3>2. \A t \in Stmts : u.tds[t] # None => t \in u.alive /\ u.state[u.tds[t]] # "free"
        <4>. SUFFICES ASSUME NEW t \in Stmts, u.tds[t] # None PROVE t \in u.alive /\ u.state[u.tds[t]] # "free"
          OBVIOUS
        <4>1. t # s /\ u.tds[t] = c.tds[t] /\ c.tds[t] \in Sids /\ c.tds[t] # x
          BY <1>2, <2>6, <2>10, <2>13
        <4>. QED  BY <1>1, <2>10, <2>11, <4>1 DEF Owned, SameBut
      <3>3. \A t, v \in Stmts : u.tds[t] # None /\ u.tds[t] = u.tds[v] => t = v
        BY <1>1, <2>6, <2>10 DEF Owned
      <3>4. \A t \in Stmts : u.tds[t] = 0 <=> u.current = t
        BY <1>1, <1>2, <1>6, <2>6, <2>10 DEF Owned
      <3>5. (~u.mars => \A y \in Sids : y # 0 => u.state[y] = "free") /\ (u.connected => u.state[0] # "free")
        BY <1>1, <1>2, <2>3, <2>10, <2>11 DEF Owned, SameBut
      <3>. QED  BY <3>1, <3>2, <3>3, <3>4, <3>5 DEF Owned
    <2>15. AllLost(u)
      BY <1>1, <2>11 DEF AllLost, Lost
    <2>16. Asked(u, {})
      <3>. SUFFICES ASSUME NEW y \in Sids, u.state[y] = "PENDING"
                    PROVE  u.asker[y] \in Stmts /\ u.tds[u.asker[y]] = y
        BY DEF Asked
      <3>1. y # x /\ c.state[y] = "PENDING"
        BY <2>11
      <3>2. c.asker[y] \in Stmts /\ c.tds[c.asker[y]] = y
        BY <1>1, <3>1 DEF Asked
      <3>. QED  BY <2>1, <2>6, <2>10, <3>1, <3>2
    <2>17. NothingLeft(u) /\ Named(u)
      BY <1>1, <2>10, <2>11 DEF NothingLeft, Named, SameBut, SameHeld
    <2>18. Good(u, {})
      BY <2>8, <2>12, <2>14, <2>15, <2>16, <2>17 DEF Good
    <2>19. AfterUnlock(u, c, s)
      BY <1>3, <1>6, <2>1, <2>3, <2>6, <2>10, <2>11 DEF AfterUnlock
    <2>20. \A g \in Handles : Unused(c, g) => Unused(u, g)
      BY <2>10, <2>11, HandleKinds DEF Unused, SameBut, SameHeld, SameLists
    <2>. QED  BY <2>18, <2>19, <2>20
  <1>7. CASE ~(c.current = s /\ c.state[0] \in {"IDLE", "DEAD"})
             /\ ~(c.current # s /\ c.tds[s] # None /\ c.state[c.tds[s]] \in {"IDLE", "DEAD"})
    <2>1. u = c
      BY <1>3, <1>7, Zenon DEF odbc_unlock_statement
    <2>2. c.tds[s] # None => c.state[c.tds[s]] \notin {"IDLE", "DEAD"}
      BY <1>2, <1>3, <1>7
    <2>3. AfterUnlock(u, c, s)
      BY <2>1, <2>2, <1>2 DEF AfterUnlock, SameBut, SameHeld, SameLists, SameCloses
    <2>. QED  BY <2>1, <2>3
  <1>8. CASE c.current = s /\ c.state[0] \in {"IDLE", "DEAD"}
    <2>1. u = [c EXCEPT !.current = None, !.tds[s] = None]
      BY <1>3, <1>8, Zenon DEF odbc_unlock_statement
    <2>. QED  BY <1>5, <1>8, <2>1
  <1>. QED  BY <1>6, <1>7, <1>8

-----------------------------------------------------------------------------
(* What the statements hold at the server.  k is the handle that a call is *)
(* closing, if any, and X the sessions on which a call is at work.         *)

Held(c, k, X) ==
    /\ \A g \in c.server : g \in c.known /\ Listed(c, g)
    /\ Lost(c) => c.server = {}
    /\ \A s \in Stmts : c.dyn[s] \notin {None, k} => Contains(c.dyns, c.dyn[s]) /\ c.dyn[s] \notin c.defer_close
    /\ \A s \in Stmts : c.cursor[s] \notin {None, k} =>
                           Contains(c.cursors, c.cursor[s]) /\ c.cursor[s] \notin c.defer_close
    /\ \A s, t \in Stmts : c.dyn[s] # None /\ c.dyn[s] = c.dyn[t] => s = t
    /\ \A s, t \in Stmts : c.cursor[s] # None /\ c.cursor[s] = c.cursor[t] => s = t
    /\ \A x \in Sids \ X : c.state[x] = "PENDING" =>
          /\ c.current_op[x] \in {"query", "prepexec", "execute", "cursoroption"}
          /\ c.current_op[x] = "prepexec" =>
                c.asker[x] \in Stmts /\ c.dyn[c.asker[x]] = c.cur_dyn[x] /\ c.cur_dyn[x] # None

(* What is at the server is used, or is going to be closed.                *)
Kept(c) ==
    \A g \in c.server :
        \/ Users(c, g) # {}
        \/ g \in c.defer_close /\ c.pending_close /\ \E x \in Sids : c.state[x] = "PENDING"

(* The states of the sessions, as far as Held and Kept depend on them.     *)
SameAnswers(r, c) ==
    /\ \A y \in Sids : r.state[y] = "PENDING" =>
          /\ c.state[y] = "PENDING" /\ r.current_op[y] = c.current_op[y]
          /\ r.cur_dyn[y] = c.cur_dyn[y] /\ r.asker[y] = c.asker[y]
    /\ \A y \in Sids : c.state[y] = "PENDING" => r.state[y] = "PENDING"
    /\ Lost(r) => Lost(c)

(* What is held at the server only depends on the handles and on the       *)
(* answers that are being read.                                            *)
LEMMA HeldFrame ==
    ASSUME NEW c, NEW k, NEW X, Held(c, k, X), NEW r, SameBut(r, c), SameAnswers(r, c)
    PROVE  Held(r, k, X)
  <1>1. /\ \A g \in r.server : g \in r.known /\ Listed(r, g)
        /\ Lost(r) => r.server = {}
    BY DEF Held, SameBut, SameAnswers, SameLists, SameCloses, Listed
  <1>2. /\ \A s \in Stmts : r.dyn[s] \notin {None, k} => Contains(r.dyns, r.dyn[s]) /\ r.dyn[s] \notin r.defer_close
        /\ \A s \in Stmts : r.cursor[s] \notin {None, k} =>
                               Contains(r.cursors, r.cursor[s]) /\ r.cursor[s] \notin r.defer_close
    BY DEF Held, SameBut, SameHeld, SameLists, SameCloses
  <1>3. /\ \A s, t \in Stmts : r.dyn[s] # None /\ r.dyn[s] = r.dyn[t] => s = t
        /\ \A s, t \in Stmts : r.cursor[s] # None /\ r.cursor[s] = r.cursor[t] => s = t
    BY DEF Held, SameBut, SameHeld
  <1>4. \A x \in Sids \ X : r.state[x] = "PENDING" =>
          /\ r.current_op[x] \in {"query", "prepexec", "execute", "cursoroption"}
          /\ r.current_op[x] = "prepexec" =>
                r.asker[x] \in Stmts /\ r.dyn[r.asker[x]] = r.cur_dyn[x] /\ r.cur_dyn[x] # None
    BY DEF Held, SameBut, SameHeld, SameAnswers
  <1>. QED  BY <1>1, <1>2, <1>3, <1>4 DEF Held

(* And so does whether it will be closed.                                  *)
LEMMA KeptFrame ==
    ASSUME NEW c, Kept(c), NEW r, SameBut(r, c), SameAnswers(r, c)
    PROVE  Kept(r)
  <1>1. \A g : Users(r, g) = Users(c, g)
    BY DEF SameBut, SameHeld, Users
  <1>. QED  BY <1>1 DEF Kept, SameBut, SameCloses, SameAnswers

(* odbc_lock_statement() and odbc_unlock_statement() change none of it.    *)
LEMMA HeldLock ==
    ASSUME NEW c, NEW s, NEW l, AfterLock(l, c, s)
    PROVE  SameBut(l, c) /\ SameAnswers(l, c)
  BY DEF AfterLock, SameAnswers, SameServed, Lost

(* The same for odbc_unlock_statement().                                   *)
LEMMA HeldUnlock ==
    ASSUME NEW c, NEW s, NEW u, AfterUnlock(u, c, s)
    PROVE  SameBut(u, c) /\ SameAnswers(u, c)
  BY DEF AfterUnlock, SameAnswers, Lost

(* A request whose answer is not read now.                                 *)
LEMMA HeldSubmit ==
    ASSUME NEW c \in Connection, AllLost(c), NEW x \in Sids, c.state[x] \in {"IDLE", "PENDING"},
           Held(c, None, {x}), Kept(c),
           NEW s \in Stmts, NEW op \in {"query", "prepexec", "execute", "cursoroption"}, NEW h,
           op = "prepexec" => h \in Dyns /\ c.dyn[s] = h,
           NEW r, Submitted(r, c, s, x, op, h)
    PROVE  Held(r, None, {}) /\ Kept(r)
  <1>1. /\ \A y \in Sids : r.state[y] = IF y = x THEN "PENDING" ELSE c.state[y]
        /\ \A y \in Sids : r.asker[y] = IF y = x THEN s ELSE c.asker[y]
        /\ \A y \in Sids : r.current_op[y] = IF y = x THEN op ELSE c.current_op[y]
        /\ \A y \in Sids : r.cur_dyn[y] = IF y = x THEN IF h \in Dyns THEN h ELSE None ELSE c.cur_dyn[y]
    <2>1. /\ c.state \in [Sids -> {"free", "IDLE", "PENDING", "DEAD"}] /\ c.asker \in [Sids -> Stmts \cup {None}]
          /\ c.current_op \in [Sids -> Ops] /\ c.cur_dyn \in [Sids -> Dyns \cup {None}]
      BY DEF Connection
    <2>. QED  BY <2>1 DEF Submitted
  <1>2. /\ SameOwners(r, c) /\ SameHeld(r, c) /\ SameLists(r, c) /\ r.known = c.known
        /\ r.defer_close = c.defer_close /\ r.pending_close = c.pending_close /\ r.server = c.server
    BY DEF Submitted
  <1>3. ~Lost(r)
    BY <1>1 DEF AllLost, Lost
  <1>4. \A y \in Sids : r.state[y] = "PENDING" =>
          /\ r.current_op[y] \in {"query", "prepexec", "execute", "cursoroption"}
          /\ r.current_op[y] = "prepexec" =>
                r.asker[y] \in Stmts /\ r.dyn[r.asker[y]] = r.cur_dyn[y] /\ r.cur_dyn[y] # None
    BY <1>1, <1>2, HandleKinds DEF Held, SameHeld
  <1>5. \A g \in r.server : g \in r.known /\ Listed(r, g)
    BY <1>2 DEF Held, SameLists, SameHeld, SameOwners, Listed
  <1>6. /\ \A t \in Stmts : r.dyn[t] \notin {None, None} =>
                               Contains(r.dyns, r.dyn[t]) /\ r.dyn[t] \notin r.defer_close
        /\ \A t \in Stmts : r.cursor[t] \notin {None, None} =>
                               Contains(r.cursors, r.cursor[t]) /\ r.cursor[t] \notin r.defer_close
        /\ \A t, u \in Stmts : r.dyn[t] # None /\ r.dyn[t] = r.dyn[u] => t = u
        /\ \A t, u \in Stmts : r.cursor[t] # None /\ r.cursor[t] = r.cursor[u] => t = u
    BY <1>2 DEF Held, SameLists, SameHeld
  <1>7. Held(r, None, {})
    BY <1>3, <1>4, <1>5, <1>6 DEF Held
  <1>8. Kept(r)
    <2>1. \A g : Users(r, g) = Users(c, g)
      BY <1>2 DEF SameHeld, Users
    <2>. QED  BY <1>1, <1>2, <2>1 DEF Kept
  <1>. QED  BY <1>7, <1>8

(* Everything at the server is used.                                       *)
AllUsed(c) == \A g \in c.server : Users(c, g) # {}

(* The rest of an answer: what was to be closed is closed, and nothing     *)
(* else.                                                                   *)
LEMMA HeldFinish ==
    ASSUME NEW c \in Connection, AllLost(c), NEW x \in Sids, c.state[x] = "PENDING",
           NEW k, Held(c, k, {x}), Kept(c), k \notin c.server, NEW new,
           \A g \in new : g \in Handles /\ g # k /\ Users(c, g) # {},
           \A g : Ends(c, x, g) => g = k,
           NEW f, Finished(f, c, x, new)
    PROVE  Held(f, k, {}) /\ AllUsed(f) /\ k \notin f.server
  <1>1. /\ \A y \in Sids : f.state[y] = IF y = x THEN "IDLE" ELSE c.state[y]
        /\ \A y \in Sids : f.asker[y] = IF y = x THEN None ELSE c.asker[y]
    <2>1. /\ c.state \in [Sids -> {"free", "IDLE", "PENDING", "DEAD"}] /\ c.asker \in [Sids -> Stmts \cup {None}]
      BY DEF Connection
    <2>. QED  BY <2>1 DEF Finished
  <1>2. SameOwners(f, c) /\ SameHeld(f, c)
    BY DEF Finished
  <1>3. \A g : Users(f, g) = Users(c, g)
    BY <1>2 DEF SameHeld, Users
  <1>4. \A g \in c.server : g \in Handles
    BY DEF Connection
  <1>5. ASSUME NEW g \in f.server PROVE Users(c, g) # {} /\ g # k /\ g \in Handles /\ g \in c.known \cup new
    <2>1. CASE g \in new
      BY <2>1
    <2>2. CASE g \in c.server
      <3>1. g \in c.known /\ Listed(c, g) /\ g # k /\ g \in Handles
        BY <1>4, <2>2 DEF Held
      <3>2. ~(g \in c.defer_close /\ c.pending_close)
        BY <1>5, <3>1 DEF Finished
      <3>. QED  BY <2>2, <3>1, <3>2 DEF Kept
    <2>. QED  BY <1>5, <2>1, <2>2 DEF Finished
  <1>6. \A g \in Handles : Users(c, g) # {} /\ g # k => Listed(c, g) /\ g \notin c.defer_close
    <2>. SUFFICES ASSUME NEW g \in Handles, NEW s \in Users(c, g), g # k
                  PROVE  Listed(c, g) /\ g \notin c.defer_close
      OBVIOUS
    <2>1. s \in Stmts /\ g \in {c.dyn[s], c.cursor[s]} /\ g # None
      BY HandleKinds DEF Users
    <2>. QED  BY <2>1 DEF Held, Listed
  <1>7. \A g \in Handles \ c.defer_close : g # k =>
          /\ g \in c.known \cup new => g \in f.known
          /\ Contains(c.dyns, g) => Contains(f.dyns, g)
          /\ Contains(c.cursors, g) => Contains(f.cursors, g)
    BY DEF Finished
  <1>8. \A g \in f.server : g \in f.known /\ Listed(f, g)
    BY <1>5, <1>6, <1>7 DEF Listed
  <1>9. AllUsed(f)
    BY <1>3, <1>5 DEF AllUsed
  <1>10. ~Lost(f)
    BY <1>1 DEF AllLost, Lost
  <1>11. f.defer_close \subseteq c.defer_close
    BY DEF Finished
  <1>12. \A s \in Stmts : f.dyn[s] \notin {None, k} => Contains(f.dyns, f.dyn[s]) /\ f.dyn[s] \notin f.defer_close
    <2>. SUFFICES ASSUME NEW s \in Stmts, c.dyn[s] \notin {None, k}
                  PROVE  Contains(f.dyns, c.dyn[s]) /\ c.dyn[s] \notin f.defer_close
      BY <1>2 DEF SameHeld
    <2>1. c.dyn[s] \in Handles /\ Contains(c.dyns, c.dyn[s]) /\ c.dyn[s] \notin c.defer_close
      BY DEF Held, Connection, Handles
    <2>. QED  BY <1>7, <1>11, <2>1
  <1>13. \A s \in Stmts : f.cursor[s] \notin {None, k} =>
                             Contains(f.cursors, f.cursor[s]) /\ f.cursor[s] \notin f.defer_close
    <2>. SUFFICES ASSUME NEW s \in Stmts, c.cursor[s] \notin {None, k}
                  PROVE  Contains(f.cursors, c.cursor[s]) /\ c.cursor[s] \notin f.defer_close
      BY <1>2 DEF SameHeld
    <2>1. c.cursor[s] \in Handles /\ Contains(c.cursors, c.cursor[s]) /\ c.cursor[s] \notin c.defer_close
      BY DEF Held, Connection, Handles
    <2>. QED  BY <1>7, <1>11, <2>1
  <1>14. /\ \A s, t \in Stmts : f.dyn[s] # None /\ f.dyn[s] = f.dyn[t] => s = t
         /\ \A s, t \in Stmts : f.cursor[s] # None /\ f.cursor[s] = f.cursor[t] => s = t
    BY <1>2 DEF Held, SameHeld, SameOwners
  <1>15. \A y \in Sids : f.state[y] = "PENDING" =>
          /\ f.current_op[y] \in {"query", "prepexec", "execute", "cursoroption"}
          /\ f.current_op[y] = "prepexec" =>
                f.asker[y] \in Stmts /\ f.dyn[f.asker[y]] = f.cur_dyn[y] /\ f.cur_dyn[y] # None
    <2>. SUFFICES ASSUME NEW y \in Sids, f.state[y] = "PENDING"
                  PROVE  /\ f.current_op[y] \in {"query", "prepexec", "execute", "cursoroption"}
                         /\ f.current_op[y] = "prepexec" =>
                               f.asker[y] \in Stmts /\ f.dyn[f.asker[y]] = f.cur_dyn[y] /\ f.cur_dyn[y] # None
      OBVIOUS
    <2>1. y \in Sids \ {x} /\ c.state[y] = "PENDING" /\ f.asker[y] = c.asker[y]
      BY <1>1
    <2>2. f.current_op[y] = c.current_op[y] /\ f.cur_dyn[y] = c.cur_dyn[y]
      BY <2>1 DEF Finished
    <2>. QED  BY <1>2, <2>1, <2>2 DEF Held, SameHeld
  <1>16. Held(f, k, {})
    BY <1>8, <1>10, <1>12, <1>13, <1>14, <1>15 DEF Held
  <1>. QED  BY <1>5, <1>9, <1>16

(* Nothing is at the server when the connection is lost.                   *)
LEMMA HeldDied ==
    ASSUME NEW c, NEW k, NEW X, Held(c, k, X), NEW f, Died(f, c)
    PROVE  Held(f, k, {}) /\ AllUsed(f)
  <1>1. \A y \in Sids : f.state[y] # "PENDING"
    BY DEF Died
  <1>2. AllUsed(f) /\ f.server = {}
    BY DEF Died, AllUsed
  <1>3. Held(f, k, {})
    BY <1>1, <1>2 DEF Held, Died, SameHeld, SameLists, SameOwners
  <1>. QED  BY <1>2, <1>3

(* What is used need not be closed.                                        *)
LEMMA UsedIsKept ==
    ASSUME NEW c, AllUsed(c)
    PROVE  Kept(c)
  BY DEF AllUsed, Kept

-----------------------------------------------------------------------------
(* What a statement lets go of, takes off a list or gets.                  *)

(* More handles may be unlisted.                                           *)
LEMMA HeldMore ==
    ASSUME NEW c, NEW X, Held(c, None, {}), NEW k
    PROVE  Held(c, k, X)
  BY DEF Held

(* The answer of the statement is not being read.                          *)
Rested(c, s) == c.tds[s] # None => c.state[c.tds[s]] # "PENDING"

(* Then no answer that is being read is for this statement.                *)
LEMMA RestedAsksNothing ==
    ASSUME NEW c, Asked(c, {}), NEW s \in Stmts, Rested(c, s)
    PROVE  \A x \in Sids : c.state[x] = "PENDING" => c.asker[x] # s
  BY HandleKinds DEF Asked, Rested

(* What is left of the state when only handles change.                     *)
SameSessions(r, c) == SameOwners(r, c) /\ SameStates(r, c) /\ SameServed(r, c)

(* A statement lets go of its prepared statement.                          *)
DynDropped(r, c, s) ==
    /\ SameSessions(r, c) /\ SameLists(r, c) /\ SameCloses(r, c) /\ r.known = c.known
    /\ r.cursor = c.cursor /\ r.dyn[s] = None /\ \A t \in Stmts \ {s} : r.dyn[t] = c.dyn[t]

(* A statement lets go of its cursor.                                      *)
CursorDropped(r, c, s) ==
    /\ SameSessions(r, c) /\ SameLists(r, c) /\ SameCloses(r, c) /\ r.known = c.known
    /\ r.dyn = c.dyn /\ r.cursor[s] = None /\ \A t \in Stmts \ {s} : r.cursor[t] = c.cursor[t]

(* Letting go of a prepared statement keeps the sessions as they are.      *)
LEMMA GoodDropDyn ==
    ASSUME NEW c, Sound(c), NEW s \in Stmts, NEW r, r = ReleaseDyn(c, s)
    PROVE  Sound(r) /\ DynDropped(r, c, s) /\ \A g \in Handles : Unused(c, g) => Unused(r, g)
  <1>. USE DEF Sound, SoundBut
  <1>1. c \in Connection /\ Counted(c) /\ NothingLeft(c) /\ c.dyn \in [Stmts -> Dyns \cup {None}]
    BY DEF Good, Connection
  <1>2. /\ r \in Connection /\ Counted(r)
        /\ SameOwners(r, c) /\ SameStates(r, c) /\ SameServed(r, c)
        /\ SameLists(r, c) /\ SameCloses(r, c) /\ r.known = c.known
        /\ r.dyn = [c.dyn EXCEPT ![s] = None] /\ r.cursor = c.cursor
    BY <1>1, ReleasedDyn
  <1>3. \A t \in Stmts : r.dyn[t] = IF t = s THEN None ELSE c.dyn[t]
    BY <1>1, <1>2
  <1>4. Sound(r)
    <2>1. \A t \in Stmts \ c.alive : r.dyn[t] = None /\ r.cursor[t] = None
      BY <1>1, <1>2, <1>3 DEF NothingLeft
    <2>. QED  BY <1>2, <2>1, GoodFrame
  <1>5. DynDropped(r, c, s)
    BY <1>2, <1>3 DEF DynDropped, SameSessions
  <1>6. \A g \in Handles : Unused(c, g) => Unused(r, g)
    BY <1>2, <1>3, HandleKinds DEF Unused, SameServed, SameLists
  <1>. QED  BY <1>4, <1>5, <1>6

(* Letting go of a cursor keeps the sessions as they are.                  *)
LEMMA GoodDropCursor ==
    ASSUME NEW c, Sound(c), NEW s \in Stmts, NEW r, r = ReleaseCursor(c, s)
    PROVE  Sound(r) /\ CursorDropped(r, c, s) /\ \A g \in Handles : Unused(c, g) => Unused(r, g)
  <1>. USE DEF Sound, SoundBut
  <1>1. c \in Connection /\ Counted(c) /\ NothingLeft(c) /\ c.cursor \in [Stmts -> Cursors \cup {None}]
    BY DEF Good, Connection
  <1>2. /\ r \in Connection /\ Counted(r)
        /\ SameOwners(r, c) /\ SameStates(r, c) /\ SameServed(r, c)
        /\ SameLists(r, c) /\ SameCloses(r, c) /\ r.known = c.known
        /\ r.cursor = [c.cursor EXCEPT ![s] = None] /\ r.dyn = c.dyn
    BY <1>1, ReleasedCursor
  <1>3. \A t \in Stmts : r.cursor[t] = IF t = s THEN None ELSE c.cursor[t]
    BY <1>1, <1>2
  <1>4. Sound(r)
    <2>1. \A t \in Stmts \ c.alive : r.dyn[t] = None /\ r.cursor[t] = None
      BY <1>1, <1>2, <1>3 DEF NothingLeft
    <2>. QED  BY <1>2, <2>1, GoodFrame
  <1>5. CursorDropped(r, c, s)
    BY <1>2, <1>3 DEF CursorDropped, SameSessions
  <1>6. \A g \in Handles : Unused(c, g) => Unused(r, g)
    BY <1>2, <1>3, HandleKinds DEF Unused, SameServed, SameLists
  <1>. QED  BY <1>4, <1>5, <1>6

(* The handle the statement lets go of need not be listed.                 *)
LEMMA HeldDropDyn ==
    ASSUME NEW c \in Connection, NEW s \in Stmts, Held(c, c.dyn[s], {}), Asked(c, {}), Rested(c, s),
           NEW r, DynDropped(r, c, s)
    PROVE  Held(r, None, {})
  <1>1. /\ SameOwners(r, c) /\ SameStates(r, c) /\ SameServed(r, c) /\ SameLists(r, c) /\ SameCloses(r, c)
        /\ r.known = c.known /\ r.cursor = c.cursor /\ r.dyn[s] = None
        /\ \A t \in Stmts : t # s => r.dyn[t] = c.dyn[t]
    BY DEF DynDropped, SameSessions
  <1>2. \A x \in Sids : c.state[x] = "PENDING" => c.asker[x] # s
    BY RestedAsksNothing
  <1>3. \A t \in Stmts : r.dyn[t] # None => t # s /\ r.dyn[t] = c.dyn[t] /\ c.dyn[t] \notin {None, c.dyn[s]}
    BY <1>1 DEF Held
  <1>4. \A t \in Stmts : r.cursor[t] # None => r.cursor[t] = c.cursor[t] /\ c.cursor[t] \notin {None, c.dyn[s]}
    BY <1>1, HandleKinds DEF Connection
  <1>5. /\ \A g \in r.server : g \in r.known /\ Listed(r, g)
        /\ Lost(r) => r.server = {}
    BY <1>1 DEF Held, SameLists, SameCloses, SameStates, Listed, Lost
  <1>6. \A t \in Stmts : r.dyn[t] \notin {None, None} => Contains(r.dyns, r.dyn[t]) /\ r.dyn[t] \notin r.defer_close
    BY <1>1, <1>3 DEF Held, SameLists, SameCloses
  <1>7. \A t \in Stmts : r.cursor[t] \notin {None, None} =>
                            Contains(r.cursors, r.cursor[t]) /\ r.cursor[t] \notin r.defer_close
    BY <1>1, <1>4 DEF Held, SameLists, SameCloses
  <1>8. /\ \A t, u \in Stmts : r.dyn[t] # None /\ r.dyn[t] = r.dyn[u] => t = u
        /\ \A t, u \in Stmts : r.cursor[t] # None /\ r.cursor[t] = r.cursor[u] => t = u
    BY <1>1, <1>3 DEF Held
  <1>9. \A x \in Sids : r.state[x] = "PENDING" =>
          /\ r.current_op[x] \in {"query", "prepexec", "execute", "cursoroption"}
          /\ r.current_op[x] = "prepexec" =>
                r.asker[x] \in Stmts /\ r.dyn[r.asker[x]] = r.cur_dyn[x] /\ r.cur_dyn[x] # None
    BY <1>1, <1>2 DEF Held, SameStates, SameServed
  <1>. QED  BY <1>5, <1>6, <1>7, <1>8, <1>9 DEF Held

(* The same for a cursor.                                                  *)
LEMMA HeldDropCursor ==
    ASSUME NEW c \in Connection, NEW s \in Stmts, Held(c, c.cursor[s], {}),
           NEW r, CursorDropped(r, c, s)
    PROVE  Held(r, None, {})
  <1>1. /\ SameOwners(r, c) /\ SameStates(r, c) /\ SameServed(r, c) /\ SameLists(r, c) /\ SameCloses(r, c)
        /\ r.known = c.known /\ r.dyn = c.dyn /\ r.cursor[s] = None
        /\ \A t \in Stmts : t # s => r.cursor[t] = c.cursor[t]
    BY DEF CursorDropped, SameSessions
  <1>3. \A t \in Stmts : r.cursor[t] # None =>
                            t # s /\ r.cursor[t] = c.cursor[t] /\ c.cursor[t] \notin {None, c.cursor[s]}
    BY <1>1 DEF Held
  <1>4. \A t \in Stmts : r.dyn[t] # None => r.dyn[t] = c.dyn[t] /\ c.dyn[t] \notin {None, c.cursor[s]}
    BY <1>1, HandleKinds DEF Connection
  <1>5. /\ \A g \in r.server : g \in r.known /\ Listed(r, g)
        /\ Lost(r) => r.server = {}
    BY <1>1 DEF Held, SameLists, SameCloses, SameStates, Listed, Lost
  <1>6. \A t \in Stmts : r.dyn[t] \notin {None, None} => Contains(r.dyns, r.dyn[t]) /\ r.dyn[t] \notin r.defer_close
    BY <1>1, <1>4 DEF Held, SameLists, SameCloses
  <1>7. \A t \in Stmts : r.cursor[t] \notin {None, None} =>
                            Contains(r.cursors, r.cursor[t]) /\ r.cursor[t] \notin r.defer_close
    BY <1>1, <1>3 DEF Held, SameLists, SameCloses
  <1>8. /\ \A t, u \in Stmts : r.dyn[t] # None /\ r.dyn[t] = r.dyn[u] => t = u
        /\ \A t, u \in Stmts : r.cursor[t] # None /\ r.cursor[t] = r.cursor[u] => t = u
    BY <1>1, <1>3 DEF Held
  <1>9. \A x \in Sids : r.state[x] = "PENDING" =>
          /\ r.current_op[x] \in {"query", "prepexec", "execute", "cursoroption"}
          /\ r.current_op[x] = "prepexec" =>
                r.asker[x] \in Stmts /\ r.dyn[r.asker[x]] = r.cur_dyn[x] /\ r.cur_dyn[x] # None
    BY <1>1 DEF Held, SameStates, SameServed
  <1>. QED  BY <1>5, <1>6, <1>7, <1>8, <1>9 DEF Held

(* The handle h will be closed by the end of an answer.                    *)
WillClose(c, h) ==
    h \in c.defer_close /\ c.pending_close /\ \E x \in Sids : c.state[x] = "PENDING"

(* What a statement lets go of is not at the server, or will be closed.    *)
LEMMA KeptDrop ==
    ASSUME NEW c \in Connection, Kept(c), NEW s \in Stmts, NEW r, NEW h,
           \/ h = c.dyn[s] /\ DynDropped(r, c, s)
           \/ h = c.cursor[s] /\ CursorDropped(r, c, s),
           h \in c.server => WillClose(c, h)
    PROVE  Kept(r)
  <1>1. SameCloses(r, c) /\ r.state = c.state
    BY DEF DynDropped, CursorDropped, SameSessions, SameStates
  <1>2. ASSUME NEW g \in c.server, g # h, Users(c, g) # {} PROVE Users(r, g) # {}
    <2>1. PICK t \in Stmts : g \in {c.dyn[t], c.cursor[t]}
      BY <1>2 DEF Users
    <2>2. g \in {r.dyn[t], r.cursor[t]}
      BY <1>2, <2>1 DEF DynDropped, CursorDropped
    <2>. QED  BY <2>2 DEF Users
  <1>. QED  BY <1>1, <1>2 DEF Kept, SameCloses, WillClose

(* A handle is taken off its list, or is to be closed later.               *)
Unlisted(r, c, h) ==
    /\ SameSessions(r, c) /\ SameHeld(r, c) /\ SameCloses(r, c)
    /\ \A g : Contains(r.dyns, g) => Contains(c.dyns, g)
    /\ \A g : Contains(r.cursors, g) => Contains(c.cursors, g)
    /\ \A g : g # h => /\ g \in c.known => g \in r.known
                       /\ Contains(c.dyns, g) => Contains(r.dyns, g)
                       /\ Contains(c.cursors, g) => Contains(r.cursors, g)
Deferred(r, c, h) ==
    /\ SameSessions(r, c) /\ SameHeld(r, c) /\ SameLists(r, c) /\ r.known = c.known
    /\ r.server = c.server /\ r.defer_close = c.defer_close \cup {h} /\ r.pending_close

(* tds_cursor_deallocated(), also when the cursor is still open.           *)
LEMMA GoodUnlist ==
    ASSUME NEW c, Sound(c), NEW h, NEW r,
           r = tds_cursor_deallocated(c, h) \/ r = tds_cursor_check_allocated(c, h)
    PROVE  Sound(r) /\ Unlisted(r, c, h) /\ \A g \in Handles : Unused(c, g) => Unused(r, g)
  <1>. USE DEF Sound, SoundBut
  <1>1. CASE r = c
    BY <1>1 DEF Unlisted, SameSessions, SameOwners, SameStates, SameServed, SameHeld, SameCloses
  <1>2. CASE r = tds_cursor_deallocated(c, h)
    <2>1. c \in Connection /\ Counted(c) /\ NothingLeft(c)
      BY DEF Good
    <2>2. /\ r \in Connection /\ Counted(r)
          /\ SameOwners(r, c) /\ SameStates(r, c) /\ SameHeld(r, c) /\ SameServed(r, c) /\ SameCloses(r, c)
          /\ r.dyns = c.dyns /\ \A g : Contains(r.cursors, g) <=> Contains(c.cursors, g) /\ g # h
          /\ r.known = c.known
      BY <1>2, <2>1, CursorDeallocated
    <2>3. Sound(r)
      <3>1. \A t \in Stmts \ c.alive : r.dyn[t] = None /\ r.cursor[t] = None
        BY <2>1, <2>2 DEF NothingLeft, SameHeld
      <3>. QED  BY <2>2, <3>1, GoodFrame
    <2>4. Unlisted(r, c, h)
      BY <2>2 DEF Unlisted, SameSessions
    <2>5. \A g \in Handles : Unused(c, g) => Unused(r, g)
      BY <2>2 DEF Unused, SameServed, SameHeld
    <2>. QED  BY <2>3, <2>4, <2>5
  <1>3. r = c \/ r = tds_cursor_deallocated(c, h)
    BY Zenon DEF tds_cursor_check_allocated
  <1>. QED  BY <1>1, <1>2, <1>3

(* tds_deferred_unprepare() and tds_deferred_cursor_dealloc().             *)
LEMMA GoodDefer ==
    ASSUME NEW c, Sound(c), NEW h \in Handles, NEW r, r = Defer(c, h)
    PROVE  Sound(r) /\ Deferred(r, c, h) /\ \A g \in Handles : Unused(c, g) => Unused(r, g)
  <1>. USE DEF Sound, SoundBut
  <1>1. c \in Connection /\ Counted(c) /\ NothingLeft(c)
    BY DEF Good
  <1>2. r = [c EXCEPT !.defer_close = c.defer_close \cup {h}, !.pending_close = TRUE]
    BY <1>1 DEF Defer
  <1>3. PICK e : e = c.defer_close \cup {h}
    OBVIOUS
  <1>4. e \in SUBSET Handles
    BY <1>1, <1>3 DEF Connection
  <1>5. r = [c EXCEPT !.defer_close = e, !.pending_close = TRUE]
    BY <1>2, <1>3
  <1>6. r \in Connection
    BY <1>1, <1>4, <1>5 DEF Connection
  <1>7. Deferred(r, c, h) /\ r.ref_count = c.ref_count
    BY <1>1, <1>3, <1>5
       DEF Connection, Deferred, SameSessions, SameOwners, SameStates, SameServed, SameHeld, SameLists
  <1>8. Counted(r)
    BY <1>1, <1>7, SameCounts DEF Deferred, SameSessions
  <1>9. Sound(r)
    <2>1. \A t \in Stmts \ c.alive : r.dyn[t] = None /\ r.cursor[t] = None
      BY <1>1, <1>7 DEF Deferred, NothingLeft, SameHeld
    <2>. QED  BY <1>6, <1>7, <1>8, <2>1, GoodFrame DEF Deferred, SameSessions
  <1>10. \A g \in Handles : Unused(c, g) => Unused(r, g)
    BY <1>7 DEF Unused, Deferred, SameSessions, SameServed, SameHeld, SameLists
  <1>. QED  BY <1>7, <1>9, <1>10

(* What is not at the server may be taken off its list.                    *)
LEMMA HeldUnlist ==
    ASSUME NEW c, NEW h, Held(c, h, {}), Kept(c), h \notin c.server, NEW r, Unlisted(r, c, h)
    PROVE  Held(r, h, {}) /\ Kept(r)
  <1>1. /\ SameOwners(r, c) /\ SameStates(r, c) /\ SameServed(r, c) /\ SameHeld(r, c) /\ SameCloses(r, c)
    BY DEF Unlisted, SameSessions
  <1>2. /\ \A g \in r.server : g \in r.known /\ Listed(r, g)
        /\ Lost(r) => r.server = {}
    BY <1>1 DEF Held, Unlisted, SameCloses, SameStates, Listed, Lost
  <1>3. /\ \A t \in Stmts : r.dyn[t] \notin {None, h} => Contains(r.dyns, r.dyn[t]) /\ r.dyn[t] \notin r.defer_close
        /\ \A t \in Stmts : r.cursor[t] \notin {None, h} =>
                               Contains(r.cursors, r.cursor[t]) /\ r.cursor[t] \notin r.defer_close
    BY <1>1 DEF Held, Unlisted, SameCloses, SameHeld
  <1>4. /\ \A t, u \in Stmts : r.dyn[t] # None /\ r.dyn[t] = r.dyn[u] => t = u
        /\ \A t, u \in Stmts : r.cursor[t] # None /\ r.cursor[t] = r.cursor[u] => t = u
    BY <1>1 DEF Held, SameHeld
  <1>5. \A x \in Sids : r.state[x] = "PENDING" =>
          /\ r.current_op[x] \in {"query", "prepexec", "execute", "cursoroption"}
          /\ r.current_op[x] = "prepexec" =>
                r.asker[x] \in Stmts /\ r.dyn[r.asker[x]] = r.cur_dyn[x] /\ r.cur_dyn[x] # None
    BY <1>1 DEF Held, SameStates, SameServed, SameHeld
  <1>6. Held(r, h, {})
    BY <1>2, <1>3, <1>4, <1>5 DEF Held
  <1>7. Kept(r)
    <2>1. \A g : Users(r, g) = Users(c, g)
      BY <1>1 DEF SameHeld, Users
    <2>. QED  BY <1>1, <2>1 DEF Kept, SameCloses, SameStates
  <1>. QED  BY <1>6, <1>7

(* What is to be closed later stays on its list.                           *)
LEMMA HeldDefer ==
    ASSUME NEW c, NEW h, Held(c, h, {}), Kept(c), NEW r, Deferred(r, c, h)
    PROVE  Held(r, h, {}) /\ Kept(r)
  <1>1. /\ SameOwners(r, c) /\ SameStates(r, c) /\ SameServed(r, c) /\ SameHeld(r, c) /\ SameLists(r, c)
        /\ r.known = c.known /\ r.server = c.server /\ r.defer_close = c.defer_close \cup {h} /\ r.pending_close
    BY DEF Deferred, SameSessions
  <1>2. /\ \A g \in r.server : g \in r.known /\ Listed(r, g)
        /\ Lost(r) => r.server = {}
    BY <1>1 DEF Held, SameLists, SameStates, Listed, Lost
  <1>3. /\ \A t \in Stmts : r.dyn[t] \notin {None, h} => Contains(r.dyns, r.dyn[t]) /\ r.dyn[t] \notin r.defer_close
        /\ \A t \in Stmts : r.cursor[t] \notin {None, h} =>
                               Contains(r.cursors, r.cursor[t]) /\ r.cursor[t] \notin r.defer_close
    BY <1>1 DEF Held, SameLists, SameHeld
  <1>4. /\ \A t, u \in Stmts : r.dyn[t] # None /\ r.dyn[t] = r.dyn[u] => t = u
        /\ \A t, u \in Stmts : r.cursor[t] # None /\ r.cursor[t] = r.cursor[u] => t = u
    BY <1>1 DEF Held, SameHeld
  <1>5. \A x \in Sids : r.state[x] = "PENDING" =>
          /\ r.current_op[x] \in {"query", "prepexec", "execute", "cursoroption"}
          /\ r.current_op[x] = "prepexec" =>
                r.asker[x] \in Stmts /\ r.dyn[r.asker[x]] = r.cur_dyn[x] /\ r.cur_dyn[x] # None
    BY <1>1 DEF Held, SameStates, SameServed, SameHeld
  <1>6. Held(r, h, {})
    BY <1>2, <1>3, <1>4, <1>5 DEF Held
  <1>7. Kept(r)
    <2>1. \A g : Users(r, g) = Users(c, g)
      BY <1>1 DEF SameHeld, Users
    <2>. QED  BY <1>1, <2>1 DEF Kept, SameStates
  <1>. QED  BY <1>6, <1>7

(* A statement gets a handle that nobody refers to.                        *)
Given(r, c, s, h) ==
    /\ SameSessions(r, c)
    /\ \/ /\ h \in Dyns /\ r.dyn[s] = h /\ r.cursor = c.cursor
          /\ \A t \in Stmts \ {s} : r.dyn[t] = c.dyn[t]
       \/ /\ h \in Cursors /\ r.cursor[s] = h /\ r.dyn = c.dyn
          /\ \A t \in Stmts \ {s} : r.cursor[t] = c.cursor[t]
    /\ \A g : Contains(r.dyns, g) <=> Contains(c.dyns, g) \/ (g = h /\ h \in Dyns)
    /\ \A g : Contains(r.cursors, g) <=> Contains(c.cursors, g) \/ (g = h /\ h \in Cursors)
    /\ r.known = c.known \ {h} /\ r.defer_close = c.defer_close \ {h}
    /\ r.pending_close = c.pending_close /\ r.server = c.server

(* A new prepared statement, in place of the one the statement had.        *)
LEMMA GoodNewDyn ==
    ASSUME NEW c, Sound(c), NEW s \in c.alive, NEW h \in Dyns, Unused(c, h),
           NEW r, r = NewDyn(c, s, h)
    PROVE  Sound(r) /\ Given(r, c, s, h)
  <1>. USE DEF Sound, SoundBut
  <1>1. c \in Connection /\ Counted(c) /\ NothingLeft(c) /\ c.dyn \in [Stmts -> Dyns \cup {None}] /\ s \in Stmts
    BY DEF Good, Connection
  <1>2. /\ r \in Connection /\ Counted(r)
        /\ SameOwners(r, c) /\ SameStates(r, c) /\ SameServed(r, c)
        /\ r.dyn = [c.dyn EXCEPT ![s] = h] /\ r.cursor = c.cursor
        /\ r.cursors = c.cursors /\ \A g : Contains(r.dyns, g) <=> Contains(c.dyns, g) \/ g = h
        /\ r.known = c.known \ {h} /\ r.defer_close = c.defer_close \ {h}
        /\ r.pending_close = c.pending_close /\ r.server = c.server
    BY <1>1, NewDynIs
  <1>3. \A t \in Stmts : r.dyn[t] = IF t = s THEN h ELSE c.dyn[t]
    BY <1>1, <1>2
  <1>4. Sound(r)
    <2>1. \A t \in Stmts \ c.alive : r.dyn[t] = None /\ r.cursor[t] = None
      BY <1>1, <1>2, <1>3 DEF NothingLeft
    <2>. QED  BY <1>2, <2>1, GoodFrame
  <1>5. h \notin Cursors
    BY HandleKinds
  <1>6. Given(r, c, s, h)
    BY <1>1, <1>2, <1>3, <1>5 DEF Given, SameSessions
  <1>. QED  BY <1>4, <1>6

(* A new cursor.                                                           *)
LEMMA GoodNewCursor ==
    ASSUME NEW c, Sound(c), NEW s \in c.alive, NEW h \in Cursors, Unused(c, h),
           NEW r, r = NewCursor(c, s, h)
    PROVE  Sound(r) /\ Given(r, c, s, h)
  <1>. USE DEF Sound, SoundBut
  <1>1. /\ c \in Connection /\ Counted(c) /\ NothingLeft(c)
        /\ c.cursor \in [Stmts -> Cursors \cup {None}] /\ s \in Stmts
    BY DEF Good, Connection
  <1>2. /\ r \in Connection /\ Counted(r)
        /\ SameOwners(r, c) /\ SameStates(r, c) /\ SameServed(r, c)
        /\ r.cursor = [c.cursor EXCEPT ![s] = h] /\ r.dyn = c.dyn
        /\ r.dyns = c.dyns /\ \A g : Contains(r.cursors, g) <=> Contains(c.cursors, g) \/ g = h
        /\ r.known = c.known \ {h} /\ r.defer_close = c.defer_close \ {h}
        /\ r.pending_close = c.pending_close /\ r.server = c.server
    BY <1>1, NewCursorIs
  <1>3. \A t \in Stmts : r.cursor[t] = IF t = s THEN h ELSE c.cursor[t]
    BY <1>1, <1>2
  <1>4. Sound(r)
    <2>1. \A t \in Stmts \ c.alive : r.dyn[t] = None /\ r.cursor[t] = None
      BY <1>1, <1>2, <1>3 DEF NothingLeft
    <2>. QED  BY <1>2, <2>1, GoodFrame
  <1>5. h \notin Dyns
    BY HandleKinds
  <1>6. Given(r, c, s, h)
    BY <1>1, <1>2, <1>3, <1>5 DEF Given, SameSessions
  <1>. QED  BY <1>4, <1>6

(* The statement had none of the kind.                                     *)
LEMMA HeldGiven ==
    ASSUME NEW c \in Connection, Held(c, None, {}), Kept(c), NEW s \in Stmts, NEW h \in Handles, Unused(c, h),
           h \in Dyns => c.dyn[s] = None, h \in Cursors => c.cursor[s] = None,
           Asked(c, {}), Rested(c, s), NEW r, Given(r, c, s, h)
    PROVE  Held(r, None, {}) /\ Kept(r) /\ h \notin r.server /\ Users(r, h) # {}
  <1>1. /\ SameOwners(r, c) /\ SameStates(r, c) /\ SameServed(r, c)
        /\ \A g : Contains(c.dyns, g) => Contains(r.dyns, g)
        /\ \A g : Contains(c.cursors, g) => Contains(r.cursors, g)
        /\ r.known = c.known \ {h} /\ r.defer_close = c.defer_close \ {h}
        /\ r.pending_close = c.pending_close /\ r.server = c.server
    BY DEF Given, SameSessions
  <1>2. h \notin c.server /\ h # None
    BY HandleKinds DEF Held, Unused, Listed
  <1>3. \A x \in Sids : c.state[x] = "PENDING" => c.asker[x] # s
    BY RestedAsksNothing
  <1>4. \A t \in Stmts : c.dyn[t] # h /\ c.cursor[t] # h
    BY DEF Unused
  <1>5. /\ \A t \in Stmts : r.dyn[t] = c.dyn[t] \/ (t = s /\ r.dyn[t] = h /\ h \in Dyns)
        /\ \A t \in Stmts : r.cursor[t] = c.cursor[t] \/ (t = s /\ r.cursor[t] = h /\ h \in Cursors)
        /\ \A t \in Stmts : t # s => r.dyn[t] = c.dyn[t] /\ r.cursor[t] = c.cursor[t]
        /\ r.dyn[s] = h \/ r.cursor[s] = h
    BY DEF Given
  <1>6. /\ \A g \in r.server : g \in r.known /\ Listed(r, g)
        /\ Lost(r) => r.server = {}
    BY <1>1, <1>2 DEF Held, SameStates, Listed, Lost
  <1>7. (h \in Dyns => Contains(r.dyns, h)) /\ (h \in Cursors => Contains(r.cursors, h)) /\ h \notin r.defer_close
    BY DEF Given
  <1>8. /\ \A t \in Stmts : r.dyn[t] \notin {None, None} => Contains(r.dyns, r.dyn[t]) /\ r.dyn[t] \notin r.defer_close
        /\ \A t \in Stmts : r.cursor[t] \notin {None, None} =>
                               Contains(r.cursors, r.cursor[t]) /\ r.cursor[t] \notin r.defer_close
    BY <1>1, <1>5, <1>7 DEF Held
  <1>9. /\ \A t, u \in Stmts : r.dyn[t] # None /\ r.dyn[t] = r.dyn[u] => t = u
        /\ \A t, u \in Stmts : r.cursor[t] # None /\ r.cursor[t] = r.cursor[u] => t = u
    BY <1>4, <1>5 DEF Held
  <1>10. \A x \in Sids : r.state[x] = "PENDING" =>
          /\ r.current_op[x] \in {"query", "prepexec", "execute", "cursoroption"}
          /\ r.current_op[x] = "prepexec" =>
                r.asker[x] \in Stmts /\ r.dyn[r.asker[x]] = r.cur_dyn[x] /\ r.cur_dyn[x] # None
    BY <1>1, <1>3, <1>5 DEF Held, SameStates, SameServed
  <1>11. Held(r, None, {})
    BY <1>6, <1>8, <1>9, <1>10 DEF Held
  <1>12. ASSUME NEW g \in c.server, Users(c, g) # {} PROVE Users(r, g) # {}
    <2>1. PICK t \in Stmts : g \in {c.dyn[t], c.cursor[t]}
      BY <1>12 DEF Users
    <2>2. g # None
      BY HandleKinds DEF Connection
    <2>3. g \in {r.dyn[t], r.cursor[t]}
      BY <2>1, <2>2, <1>5, HandleKinds DEF Given
    <2>. QED  BY <2>3 DEF Users
  <1>13. Kept(r)
    BY <1>1, <1>2, <1>12 DEF Kept, SameStates
  <1>14. Users(r, h) # {}
    BY <1>5 DEF Users
  <1>. QED  BY <1>1, <1>2, <1>11, <1>13, <1>14

-----------------------------------------------------------------------------
(* A request, with its answer read to the end.                             *)
Request(c, s, x, op, h, res) == Finish(Submit(c, s, x, op, h), x, res)

(* The sessions after it.                                                  *)
Answered(f, c, res) ==
    /\ SameOwners(f, c) /\ SameHeld(f, c)
    /\ res # "dead" => f.state = c.state
    /\ res = "dead" => \A y \in Sids : f.state[y] = IF c.state[y] = "free" THEN "free" ELSE "DEAD"
    /\ res # "ok" => f.server \subseteq c.server /\ f.known \subseteq c.known

(* A request on an idle session with its answer leaves the session idle,   *)
(* or everything lost.                                                     *)
LEMMA GoodRequest ==
    ASSUME NEW c, NEW x \in Sids, SoundBut(c, x), c.state[x] = "IDLE",
           NEW s \in Stmts \cup {None}, NEW op \in Ops, NEW h \in Handles \cup {None},
           op \in {"prepare", "prepexec"} => h \in Dyns, op = "cursoropen" => h \in Cursors,
           NEW res \in Results, NEW f, f = Request(c, s, x, op, h, res)
    PROVE  /\ Sound(f) /\ Answered(f, c, res)
           /\ \A g \in Handles : Unused(c, g) /\ g # h => Unused(f, g)
  <1>1. PICK r : r = Submit(c, s, x, op, h)
    OBVIOUS
  <1>2. /\ SoundBut(r, x) /\ Submitted(r, c, s, x, op, h)
        /\ \A g \in Handles : Unused(c, g) /\ g # h => Unused(r, g)
    <2>1. c.state[x] \in {"IDLE", "PENDING"}
      OBVIOUS
    <2>. QED  BY <1>1, <2>1, GoodSubmit
  <1>3. /\ SameOwners(r, c) /\ SameHeld(r, c) /\ r.server \subseteq c.server /\ r.known = c.known
        /\ \A y \in Sids : r.state[y] = IF y = x THEN "PENDING" ELSE c.state[y]
    <2>1. c.state \in [Sids -> {"free", "IDLE", "PENDING", "DEAD"}]
      BY DEF SoundBut, Good, Connection
    <2>. QED  BY <1>2, <2>1 DEF Submitted
  <1>4. f = Finish(r, x, res) /\ res \in {"ok", "err", "cancel", "dead"}
    BY <1>1 DEF Request, Results
  <1>5. /\ Sound(f) /\ SameOwners(f, r) /\ SameHeld(f, r)
        /\ res # "dead" => Finished(f, r, x, New(r, x, res))
        /\ res = "dead" => Died(f, r)
        /\ \A g \in Handles : Unused(r, g) => Unused(f, g)
    <2>1. r.state[x] = "PENDING"
      BY <1>3
    <2>. QED  BY <1>2, <1>4, <2>1, GoodFinish
  <1>6. SameOwners(f, c) /\ SameHeld(f, c)
    BY <1>3, <1>5 DEF SameOwners, SameHeld
  <1>7. ASSUME res # "dead" PROVE f.state = c.state
    <2>1. /\ c.state \in [Sids -> {"free", "IDLE", "PENDING", "DEAD"}]
          /\ r.state \in [Sids -> {"free", "IDLE", "PENDING", "DEAD"}]
          /\ f.state = [r.state EXCEPT ![x] = "IDLE"]
      BY <1>2, <1>5, <1>7 DEF SoundBut, Good, Connection, Finished
    <2>2. /\ f.state \in [Sids -> {"free", "IDLE", "PENDING", "DEAD"}]
          /\ \A y \in Sids : f.state[y] = c.state[y]
      BY <1>3, <2>1
    <2>. QED  BY <2>1, <2>2
  <1>8. res = "dead" => \A y \in Sids : f.state[y] = IF c.state[y] = "free" THEN "free" ELSE "DEAD"
    BY <1>3, <1>5 DEF Died
  <1>9. ASSUME res # "ok" PROVE f.server \subseteq c.server /\ f.known \subseteq c.known
    <2>1. CASE res = "dead"
      BY <1>3, <1>5, <2>1 DEF Died
    <2>2. CASE res # "dead"
      <3>1. New(r, x, res) = {}
        BY <1>9, Zenon DEF New
      <3>. QED  BY <1>3, <1>5, <2>2, <3>1 DEF Finished
    <2>. QED  BY <2>1, <2>2
  <1>10. Answered(f, c, res)
    BY <1>6, <1>7, <1>8, <1>9 DEF Answered
  <1>. QED  BY <1>2, <1>5, <1>10

(* What is at the server after it: k is the handle it closed, if any.      *)
LEMMA HeldRequest ==
    ASSUME NEW c, NEW x \in Sids, SoundBut(c, x), c.state[x] = "IDLE", Held(c, None, {}), Kept(c),
           NEW s \in Stmts \cup {None}, NEW op \in Ops, NEW h \in Handles \cup {None},
           op \in {"prepare", "prepexec"} => h \in Dyns /\ Users(c, h) # {},
           op = "cursoropen" => h \in Cursors /\ Users(c, h) # {},
           op = "unprepare" => h \in Dyns, op = "cursorclose" => h \in Cursors,
           NEW k, k = IF op \in {"unprepare", "cursorclose"} THEN h ELSE None,
           NEW res \in Results, NEW f, f = Request(c, s, x, op, h, res)
    PROVE  Held(f, k, {}) /\ AllUsed(f) /\ Kept(f) /\ k \notin f.server
  <1>1. PICK r : r = Submit(c, s, x, op, h)
    OBVIOUS
  <1>2. SoundBut(r, x) /\ Submitted(r, c, s, x, op, h)
    <2>1. c.state[x] \in {"IDLE", "PENDING"}
      OBVIOUS
    <2>. QED  BY <1>1, <2>1, GoodSubmit
  <1>3. /\ SameOwners(r, c) /\ SameHeld(r, c) /\ SameLists(r, c) /\ r.known = c.known
        /\ r.defer_close = c.defer_close /\ r.pending_close = c.pending_close
        /\ r.server \subseteq c.server /\ k \notin r.server
    <2>1. None \notin c.server
      BY HandleKinds DEF SoundBut, Good, Connection
    <2>. QED  BY <1>2, <2>1 DEF Submitted
  <1>4. /\ \A y \in Sids : r.state[y] = IF y = x THEN "PENDING" ELSE c.state[y]
        /\ \A y \in Sids : r.asker[y] = IF y = x THEN s ELSE c.asker[y]
        /\ \A y \in Sids : r.current_op[y] = IF y = x THEN op ELSE c.current_op[y]
        /\ \A y \in Sids : r.cur_dyn[y] = IF y = x THEN IF h \in Dyns THEN h ELSE None ELSE c.cur_dyn[y]
        /\ \A y \in Sids : r.cur_cursor[y] = IF y = x THEN IF h \in Cursors THEN h ELSE None ELSE c.cur_cursor[y]
    <2>1. /\ c.state \in [Sids -> {"free", "IDLE", "PENDING", "DEAD"}] /\ c.asker \in [Sids -> Stmts \cup {None}]
          /\ c.current_op \in [Sids -> Ops] /\ c.cur_dyn \in [Sids -> Dyns \cup {None}]
          /\ c.cur_cursor \in [Sids -> Cursors \cup {None}]
      BY DEF SoundBut, Good, Connection
    <2>. QED  BY <1>2, <2>1 DEF Submitted
  <1>5. ~Lost(r)
    BY <1>4 DEF AllLost, Lost, Good, SoundBut
  <1>6. Held(r, k, {x})
    <2>1. \A g \in r.server : g \in r.known /\ Listed(r, g)
      BY <1>3 DEF Held, SameLists, Listed
    <2>2. /\ \A t \in Stmts : r.dyn[t] \notin {None, k} => Contains(r.dyns, r.dyn[t]) /\ r.dyn[t] \notin r.defer_close
          /\ \A t \in Stmts : r.cursor[t] \notin {None, k} =>
                                 Contains(r.cursors, r.cursor[t]) /\ r.cursor[t] \notin r.defer_close
      BY <1>3 DEF Held, SameLists, SameHeld
    <2>3. /\ \A t, u \in Stmts : r.dyn[t] # None /\ r.dyn[t] = r.dyn[u] => t = u
          /\ \A t, u \in Stmts : r.cursor[t] # None /\ r.cursor[t] = r.cursor[u] => t = u
      BY <1>3 DEF Held, SameHeld
    <2>4. \A y \in Sids \ {x} : r.state[y] = "PENDING" =>
            /\ r.current_op[y] \in {"query", "prepexec", "execute", "cursoroption"}
            /\ r.current_op[y] = "prepexec" =>
                  r.asker[y] \in Stmts /\ r.dyn[r.asker[y]] = r.cur_dyn[y] /\ r.cur_dyn[y] # None
      BY <1>3, <1>4 DEF Held, SameHeld
    <2>. QED  BY <1>5, <2>1, <2>2, <2>3, <2>4 DEF Held
  <1>7. (\A g : Users(r, g) = Users(c, g)) /\ Kept(r)
    <2>1. \A g : Users(r, g) = Users(c, g)
      BY <1>3 DEF SameHeld, Users
    <2>. QED  BY <1>3, <1>4, <2>1 DEF Kept
  <1>8. f = Finish(r, x, res) /\ res \in {"ok", "err", "cancel", "dead"} /\ r.state[x] = "PENDING"
    BY <1>1, <1>4 DEF Request, Results
  <1>9. /\ res # "dead" => Finished(f, r, x, New(r, x, res))
        /\ res = "dead" => Died(f, r)
    BY <1>2, <1>8, GoodFinish
  <1>10. CASE res = "dead"
    <2>1. Held(f, k, {}) /\ AllUsed(f)
      BY <1>6, <1>9, <1>10, HeldDied
    <2>. QED  BY <1>9, <1>10, <2>1, UsedIsKept DEF Died
  <1>11. CASE res # "dead"
    <2>1. PICK new : new = New(r, x, res)
      OBVIOUS
    <2>2. r.current_op[x] = op /\ (h \in Dyns => r.cur_dyn[x] = h) /\ (h \in Cursors => r.cur_cursor[x] = h)
      BY <1>4
    <2>3. ASSUME NEW g \in new PROVE g \in Handles /\ g # k /\ Users(r, g) # {}
      <3>1. \/ op \in {"prepare", "prepexec"} /\ g = r.cur_dyn[x]
            \/ op = "cursoropen" /\ g = r.cur_cursor[x]
        BY <2>1, <2>2, <2>3, Zenon DEF New
      <3>2. g = h /\ g \in Handles /\ Users(c, g) # {} /\ k = None
        BY <2>2, <3>1 DEF Handles
      <3>. QED  BY <1>7, <3>2, HandleKinds
    <2>4. \A g : Ends(r, x, g) => g = k
      BY <2>2 DEF Ends
    <2>5. r \in Connection /\ AllLost(r)
      BY <1>2 DEF SoundBut, Good
    <2>6. Held(f, k, {}) /\ AllUsed(f) /\ k \notin f.server
      BY <1>3, <1>6, <1>7, <1>8, <1>9, <1>11, <2>1, <2>3, <2>4, <2>5, HeldFinish
    <2>. QED  BY <2>6, UsedIsKept
  <1>. QED  BY <1>10, <1>11

-----------------------------------------------------------------------------
(* odbc_free_dynamic() and odbc_free_cursor().                             *)

SameProgram(r, c) ==
    /\ r.connected = c.connected /\ r.mars = c.mars /\ r.alive = c.alive /\ r.fault = c.fault
    /\ r.is_prepared = c.is_prepared /\ r.need_reprepare = c.need_reprepare

(* The session that the call began with is still there, or was freed.      *)
StillThere(r, s, x) ==
    r.state[x] = "IDLE" /\ (r.tds[s] = x \/ (x = 0 /\ r.tds[s] = None /\ r.current = None))

DynFreed(r, c, s) ==
    /\ SameProgram(r, c) /\ r.cursor = c.cursor
    /\ r.dyn[s] = None /\ \A t \in Stmts \ {s} : r.dyn[t] = c.dyn[t]
    /\ Rested(c, s) => Rested(r, s)
    /\ \A x \in Sids : c.tds[s] = x /\ c.state[x] = "IDLE" =>
          \/ r.state[x] = "DEAD" \/ StillThere(r, s, x)
          \/ r.state[x] = "free" /\ x # 0 /\ c.dyn[s] \in c.known

(* What a sound value of the connection is made of.                        *)
LEMMA SoundParts ==
    ASSUME NEW c, Sound(c)
    PROVE  c \in Connection /\ Owned(c) /\ AllLost(c) /\ Asked(c, {}) /\ Counted(c)
  BY DEF Sound, Good

(* Nothing is forgotten.                                                   *)
Safe(c) == Held(c, None, {}) /\ Kept(c)

(* The prepared statement is closed now, or later.                         *)
LEMMA SafeDropDyn ==
    ASSUME NEW c, Sound(c), NEW s \in Stmts, Held(c, c.dyn[s], {}), Kept(c), Rested(c, s),
           c.dyn[s] \in c.server => WillClose(c, c.dyn[s]),
           NEW r, DynDropped(r, c, s)
    PROVE  Safe(r)
  <1>1. c \in Connection /\ Asked(c, {})
    BY SoundParts
  <1>2. Held(r, None, {})
    BY <1>1, HeldDropDyn
  <1>3. Kept(r)
    BY <1>1, KeptDrop
  <1>. QED  BY <1>2, <1>3 DEF Safe

(* A session that is busy, while nothing is lost.                          *)
LEMMA Busy ==
    ASSUME NEW l, NEW c, NEW s \in Stmts, AfterLock(l, c, s), Sound(l), Held(l, None, {}), l.server # {},
           ~(Locked(l, s) /\ l.state[l.tds[s]] = "IDLE")
    PROVE  \E x \in Sids : l.state[x] = "PENDING"
  <1>1. l.state \in [Sids -> {"free", "IDLE", "PENDING", "DEAD"}]
    BY SoundParts DEF Connection
  <1>2. \A x \in Sids : l.state[x] # "DEAD"
    BY DEF Held, Lost
  <1>3. CASE Locked(l, s)
    BY <1>1, <1>2, <1>3 DEF AfterLock
  <1>4. CASE ~Locked(l, s)
    <2>1. l.state[0] \in {"PENDING", "DEAD"}
      BY <1>4 DEF AfterLock
    <2>. QED  BY <1>2, <2>1, HandleKinds
  <1>. QED  BY <1>3, <1>4

(* odbc_free_dynamic() closes the prepared statement now or sees that it   *)
(* is closed later; the session that the call began with may be freed by   *)
(* it, which odbc_SQLExecute() has to know.                                *)
LEMMA FreeDynamicIs ==
    ASSUME NEW c, Sound(c), NEW s \in c.alive, c.connected, NEW res \in Results,
           NEW r, r = odbc_free_dynamic(c, s, res)
    PROVE  /\ Sound(r) /\ DynFreed(r, c, s) /\ \A g \in Handles : Unused(c, g) => Unused(r, g)
           /\ Safe(c) /\ Rested(c, s) => Safe(r)
  <1>1. PICK h : h = c.dyn[s]
    OBVIOUS
  <1>2. s \in Stmts /\ h \in Dyns \cup {None} /\ c \in Connection
    BY <1>1, SoundParts DEF Connection
  <1>3. CASE h = None
    <2>1. r = c
      BY <1>1, <1>3, Zenon DEF odbc_free_dynamic
    <2>2. DynFreed(r, c, s)
      BY <1>1, <1>3, <2>1 DEF DynFreed, SameProgram, StillThere
    <2>. QED  BY <2>1, <2>2
  <1>4. CASE h # None /\ h \notin c.known
    <2>1. r = ReleaseDyn(c, s)
      BY <1>1, <1>4, Zenon DEF odbc_free_dynamic
    <2>2. Sound(r) /\ DynDropped(r, c, s) /\ \A g \in Handles : Unused(c, g) => Unused(r, g)
      BY <1>2, <2>1, GoodDropDyn
    <2>3. DynFreed(r, c, s)
      BY <2>2 DEF DynFreed, DynDropped, SameProgram, SameSessions, SameOwners, SameStates, StillThere, Rested
    <2>4. ASSUME Safe(c), Rested(c, s) PROVE Safe(r)
      <3>1. Held(c, c.dyn[s], {}) /\ Kept(c) /\ c.dyn[s] \notin c.server
        BY <1>1, <1>4, <2>4, HeldMore DEF Safe, Held
      <3>. QED  BY <1>2, <2>2, <2>4, <3>1, SafeDropDyn
    <2>. QED  BY <2>2, <2>3, <2>4
  <1>5. CASE h # None /\ h \in c.known
    <2>1. PICK l : l = odbc_lock_statement(c, s)
      OBVIOUS
    <2>2. PICK x : x = l.tds[s]
      OBVIOUS
    <2>3. /\ Sound(l) /\ AfterLock(l, c, s) /\ \A g : Unused(c, g) => Unused(l, g)
          /\ c.tds[s] = None /\ Locked(l, s) => l.state[x] # "PENDING"
      BY <1>2, <2>1, <2>2, GoodLock
    <2>4. SameProgram(l, c) /\ SameHeld(l, c)
      BY <2>3 DEF AfterLock, SameBut, SameProgram
    <2>5. h \in Handles /\ h \in Dyns
      BY <1>2, <1>5 DEF Handles
    <2>6. Safe(c) => Safe(l)
      BY <2>3, HeldLock, HeldFrame, KeptFrame DEF Safe
    <2>7. CASE Locked(l, s) /\ l.state[x] = "IDLE"
      <3>1. PICK f : f = Request(l, s, x, "unprepare", h, res)
        OBVIOUS
      <3>2. x \in Sids /\ SoundBut(l, x)
        BY <2>2, <2>3, <2>7, GoodExcept DEF AfterLock
      <3>3. Sound(f) /\ Answered(f, l, res) /\ \A g \in Handles : Unused(l, g) /\ g # h => Unused(f, g)
        <4>1. "unprepare" \in Ops
          BY DEF Ops
        <4>. QED  BY <1>2, <2>5, <2>7, <3>1, <3>2, <4>1, GoodRequest
      <3>4. SameProgram(f, c) /\ SameHeld(f, c) /\ f.tds = l.tds /\ f.current = l.current
        BY <2>4, <3>3 DEF Answered, SameProgram, SameHeld, SameOwners
      <3>5. \A g \in Handles : Unused(c, g) => Unused(f, g)
        <4>1. ~Unused(c, h)
          BY <1>1, <1>2 DEF Unused
        <4>. QED  BY <2>3, <3>3, <4>1
      <3>6. c.tds[s] # None => c.tds[s] = x
        BY <2>2, <2>3 DEF AfterLock
      <3>7. ASSUME Safe(c) PROVE Held(f, h, {}) /\ Kept(f) /\ h \notin f.server
        <4>1. "unprepare" \in Ops /\ Held(l, None, {}) /\ Kept(l)
          BY <2>6, <3>7 DEF Ops, Safe
        <4>. QED  BY <1>2, <2>5, <2>7, <3>1, <3>2, <4>1, HeldRequest
      <3>8. CASE res = "dead"
        <4>1. PICK e : e = Defer(f, h)
          OBVIOUS
        <4>2. r = ReleaseDyn(e, s)
          BY <1>1, <1>5, <2>1, <2>2, <2>7, <3>1, <3>8, <4>1, Zenon DEF odbc_free_dynamic, Request
        <4>3. Sound(e) /\ Deferred(e, f, h) /\ \A g \in Handles : Unused(f, g) => Unused(e, g)
          BY <2>5, <3>3, <4>1, GoodDefer
        <4>4. Sound(r) /\ DynDropped(r, e, s) /\ \A g \in Handles : Unused(e, g) => Unused(r, g)
          BY <1>2, <4>2, <4>3, GoodDropDyn
        <4>5. f.state[x] = "DEAD"
          BY <2>7, <3>2, <3>3, <3>8 DEF Answered
        <4>6. /\ SameProgram(r, f) /\ r.tds = f.tds /\ r.state = f.state
              /\ r.cursor = f.cursor /\ r.dyn[s] = None /\ \A t \in Stmts \ {s} : r.dyn[t] = f.dyn[t]
              /\ e.dyn = f.dyn /\ e.tds = f.tds /\ e.state = f.state /\ e.server = f.server
          BY <4>3, <4>4
             DEF Deferred, DynDropped, SameSessions, SameProgram, SameHeld, SameOwners, SameStates
        <4>7. DynFreed(r, c, s)
          <5>1. Rested(r, s)
            BY <2>2, <3>4, <4>5, <4>6 DEF Rested
          <5>2. \A y \in Sids : c.tds[s] = y => r.state[y] = "DEAD"
            BY <3>6, <4>5, <4>6, HandleKinds
          <5>. QED  BY <3>4, <4>6, <5>1, <5>2 DEF DynFreed, SameProgram, SameHeld
        <4>8. ASSUME Safe(c) PROVE Safe(r)
          <5>1. Held(e, h, {}) /\ Kept(e)
            BY <3>7, <4>3, <4>8, HeldDefer
          <5>2. e.dyn[s] = h /\ h \notin e.server /\ Rested(e, s)
            BY <1>1, <2>2, <3>4, <3>7, <4>5, <4>6, <4>8 DEF SameHeld, Rested
          <5>. QED  BY <1>2, <4>3, <4>4, <5>1, <5>2, SafeDropDyn
        <4>. QED  BY <3>5, <4>3, <4>4, <4>7, <4>8
      <3>9. CASE res # "dead"
        <4>1. PICK e : e = odbc_unlock_statement(f, s)
          OBVIOUS
        <4>2. r = ReleaseDyn(e, s)
          BY <1>1, <1>5, <2>1, <2>2, <2>7, <3>1, <3>9, <4>1, Zenon DEF odbc_free_dynamic, Request
        <4>3. Sound(e) /\ AfterUnlock(e, f, s) /\ \A g \in Handles : Unused(f, g) => Unused(e, g)
          BY <1>2, <3>3, <4>1, GoodUnlock
        <4>4. Sound(r) /\ DynDropped(r, e, s) /\ \A g \in Handles : Unused(e, g) => Unused(r, g)
          BY <1>2, <4>2, <4>3, GoodDropDyn
        <4>5. f.state[x] = "IDLE" /\ f.tds[s] = x
          BY <2>2, <2>7, <3>3, <3>4, <3>9 DEF Answered
        <4>6. /\ SameProgram(r, f) /\ r.tds = e.tds /\ r.state = e.state /\ r.current = e.current
              /\ r.cursor = f.cursor /\ r.dyn[s] = None /\ \A t \in Stmts \ {s} : r.dyn[t] = f.dyn[t]
              /\ e.dyn = f.dyn /\ e.server = f.server
          BY <4>3, <4>4
             DEF AfterUnlock, SameBut, DynDropped, SameSessions, SameProgram, SameHeld, SameOwners, SameStates, SameCloses
        <4>7. e.tds[s] = None /\ (x = 0 => e.current = None) /\ (e.state[x] = "IDLE" \/ (e.state[x] = "free" /\ x # 0))
              /\ (x = 0 => e.state[x] = "IDLE")
          BY <3>2, <4>3, <4>5, HandleKinds DEF AfterUnlock
        <4>8. DynFreed(r, c, s)
          <5>1. Rested(r, s)
            BY <4>6, <4>7 DEF Rested
          <5>2. \A y \in Sids : c.tds[s] = y /\ c.state[y] = "IDLE" =>
                   r.state[y] = "DEAD" \/ StillThere(r, s, y) \/ (r.state[y] = "free" /\ y # 0 /\ c.dyn[s] \in c.known)
            <6>. SUFFICES ASSUME NEW y \in Sids, c.tds[s] = y
                          PROVE  StillThere(r, s, y) \/ (r.state[y] = "free" /\ y # 0 /\ c.dyn[s] \in c.known)
              OBVIOUS
            <6>1. y = x
              BY <3>6, HandleKinds
            <6>2. CASE e.state[x] = "free" /\ x # 0
              BY <1>1, <1>5, <4>6, <6>1, <6>2
            <6>3. CASE e.state[x] = "IDLE"
              <7>1. x = 0
                <8>. SUFFICES ASSUME x # 0 PROVE FALSE
                  OBVIOUS
                <8>1. Owned(e) /\ Owned(f)
                  BY <3>3, <4>3, SoundParts
                <8>2. PICK t \in Stmts : e.tds[t] = x
                  BY <3>2, <6>3, <8>1 DEF Owned
                <8>3. t # s /\ f.tds[t] = x /\ x # None
                  BY <3>2, <4>3, <4>7, <8>2, HandleKinds DEF AfterUnlock
                <8>. QED  BY <1>2, <4>5, <8>1, <8>3 DEF Owned
              <7>. QED  BY <4>6, <4>7, <6>1, <6>3, <7>1 DEF StillThere
            <6>. QED  BY <4>7, <6>2, <6>3
          <5>. QED  BY <3>4, <4>6, <5>1, <5>2 DEF DynFreed, SameProgram, SameHeld
        <4>9. ASSUME Safe(c) PROVE Safe(r)
          <5>1. SameBut(e, f) /\ SameAnswers(e, f)
            BY <4>3, HeldUnlock
          <5>2. Held(e, h, {}) /\ Kept(e)
            BY <3>7, <4>9, <5>1, HeldFrame, KeptFrame
          <5>3. e.dyn[s] = h /\ h \notin e.server /\ Rested(e, s)
            BY <1>1, <3>4, <3>7, <4>6, <4>7, <4>9 DEF SameHeld, Rested
          <5>. QED  BY <1>2, <4>3, <4>4, <5>2, <5>3, SafeDropDyn
        <4>. QED  BY <3>5, <4>3, <4>4, <4>8, <4>9
      <3>. QED  BY <3>8, <3>9
    <2>8. CASE ~(Locked(l, s) /\ l.state[x] = "IDLE")
      <3>1. PICK e : e = Defer(l, h)
        OBVIOUS
      <3>2. r = ReleaseDyn(e, s)
        BY <1>1, <1>5, <2>1, <2>2, <2>8, <3>1, Zenon DEF odbc_free_dynamic
      <3>3. Sound(e) /\ Deferred(e, l, h) /\ \A g \in Handles : Unused(l, g) => Unused(e, g)
        BY <2>3, <2>5, <3>1, GoodDefer
      <3>4. Sound(r) /\ DynDropped(r, e, s) /\ \A g \in Handles : Unused(e, g) => Unused(r, g)
        BY <1>2, <3>2, <3>3, GoodDropDyn
      <3>5. /\ SameProgram(r, l) /\ r.tds = l.tds /\ r.state = l.state
            /\ r.cursor = l.cursor /\ r.dyn[s] = None /\ \A t \in Stmts \ {s} : r.dyn[t] = l.dyn[t]
            /\ e.dyn = l.dyn /\ e.tds = l.tds /\ e.state = l.state /\ e.server = l.server
            /\ e.defer_close = l.defer_close \cup {h} /\ e.pending_close
        BY <3>3, <3>4
           DEF Deferred, DynDropped, SameSessions, SameProgram, SameHeld, SameOwners, SameStates
      <3>6. Rested(c, s) => Rested(l, s)
        BY <2>2, <2>3 DEF Rested, AfterLock
      <3>7. ~(c.tds[s] # None /\ c.state[c.tds[s]] = "IDLE")
        BY <2>2, <2>3, <2>8 DEF AfterLock
      <3>8. DynFreed(r, c, s)
        <4>1. Rested(c, s) => Rested(r, s)
          BY <3>5, <3>6 DEF Rested
        <4>2. \A y \in Sids : ~(c.tds[s] = y /\ c.state[y] = "IDLE")
          BY <3>7, HandleKinds
        <4>. QED  BY <2>4, <3>5, <4>1, <4>2 DEF DynFreed, SameProgram, SameHeld
      <3>9. ASSUME Safe(c), Rested(c, s) PROVE Safe(r)
        <4>1. Held(l, None, {}) /\ Kept(l)
          BY <2>6, <3>9 DEF Safe
        <4>2. Held(e, h, {}) /\ Kept(e)
          BY <3>3, <4>1, HeldMore, HeldDefer
        <4>3. e.dyn[s] = h /\ Rested(e, s)
          BY <1>1, <2>4, <3>5, <3>6, <3>9 DEF SameHeld, Rested
        <4>4. h \in e.server => WillClose(e, h)
          BY <1>2, <2>2, <2>3, <2>8, <3>5, <4>1, Busy DEF WillClose
        <4>. QED  BY <1>2, <3>3, <3>4, <4>2, <4>3, <4>4, SafeDropDyn
      <3>. QED  BY <2>3, <3>3, <3>4, <3>8, <3>9
    <2>. QED  BY <2>7, <2>8
  <1>. QED  BY <1>3, <1>4, <1>5

(* The cursor of a statement is taken off its list or is to be closed      *)
(* later, and the statement lets go of it.                                 *)
CursorLeft(r, c, s) ==
    /\ SameSessions(r, c) /\ r.dyn = c.dyn
    /\ r.cursor[s] = None /\ \A t \in Stmts \ {s} : r.cursor[t] = c.cursor[t]

(* A cursor at the server must be left to be closed later, while some      *)
(* answer is still to be read.                                             *)
LEMMA LeaveCursor ==
    ASSUME NEW c, Sound(c), NEW s \in Stmts, NEW h \in Cursors, c.cursor[s] = h, NEW e,
           e \in {Defer(c, h), tds_cursor_deallocated(c, h), tds_cursor_check_allocated(c, h)},
           NEW r, r = ReleaseCursor(e, s)
    PROVE  /\ Sound(r) /\ CursorLeft(r, c, s) /\ \A g \in Handles : Unused(c, g) => Unused(r, g)
           /\ /\ Held(c, h, {}) /\ Kept(c)
              /\ h \in c.server => e = Defer(c, h) /\ \E x \in Sids : c.state[x] = "PENDING"
              => Safe(r)
  <1>1. h \in Handles
    BY DEF Handles
  <1>2. /\ Sound(e) /\ (Deferred(e, c, h) \/ Unlisted(e, c, h)) /\ (e = Defer(c, h) => Deferred(e, c, h))
        /\ \A g \in Handles : Unused(c, g) => Unused(e, g)
    BY <1>1, GoodDefer, GoodUnlist
  <1>3. Sound(r) /\ CursorDropped(r, e, s) /\ \A g \in Handles : Unused(e, g) => Unused(r, g)
    BY <1>2, GoodDropCursor
  <1>4. SameSessions(e, c) /\ SameHeld(e, c)
    BY <1>2 DEF Deferred, Unlisted
  <1>5. CursorLeft(r, c, s)
    BY <1>3, <1>4
       DEF CursorLeft, CursorDropped, SameSessions, SameHeld, SameOwners, SameStates, SameServed
  <1>6. ASSUME Held(c, h, {}), Kept(c),
               h \in c.server => e = Defer(c, h) /\ \E x \in Sids : c.state[x] = "PENDING"
        PROVE  Safe(r)
    <2>1. Held(e, h, {}) /\ Kept(e)
      <3>1. CASE h \in c.server
        BY <1>2, <1>6, <3>1, HeldDefer
      <3>2. CASE h \notin c.server
        BY <1>2, <1>6, <3>2, HeldDefer, HeldUnlist
      <3>. QED  BY <3>1, <3>2
    <2>2. e.cursor[s] = h /\ e \in Connection
      BY <1>2, <1>4, SoundParts DEF SameHeld
    <2>3. Held(r, None, {})
      BY <1>3, <2>1, <2>2, HeldDropCursor
    <2>4. h \in e.server => WillClose(e, h)
      <3>1. e.server = c.server /\ e.state = c.state
        BY <1>2, <1>4 DEF Deferred, Unlisted, SameCloses, SameSessions, SameStates
      <3>2. e = Defer(c, h) => h \in e.defer_close /\ e.pending_close
        BY <1>2 DEF Deferred
      <3>. QED  BY <1>6, <3>1, <3>2 DEF WillClose
    <2>5. Kept(r)
      BY <1>3, <2>1, <2>2, <2>4, KeptDrop
    <2>. QED  BY <2>3, <2>5 DEF Safe
  <1>. QED  BY <1>2, <1>3, <1>5, <1>6

CursorFreed(r, c, s) ==
    /\ SameProgram(r, c) /\ r.dyn = c.dyn
    /\ r.cursor[s] = None /\ \A t \in Stmts \ {s} : r.cursor[t] = c.cursor[t]
    /\ Rested(c, s) => Rested(r, s)

(* odbc_free_cursor() closes the cursor now or sees that it is closed      *)
(* later.                                                                  *)
LEMMA FreeCursorIs ==
    ASSUME NEW c, Sound(c), NEW s \in c.alive, c.connected, NEW res \in Results,
           NEW r, r = odbc_free_cursor(c, s, res)
    PROVE  /\ Sound(r) /\ CursorFreed(r, c, s) /\ \A g \in Handles : Unused(c, g) => Unused(r, g)
           /\ Safe(c) => Safe(r)
  <1>1. PICK h : h = c.cursor[s]
    OBVIOUS
  <1>2. s \in Stmts /\ h \in Cursors \cup {None} /\ c \in Connection
    BY <1>1, SoundParts DEF Connection
  <1>3. CASE h = None
    <2>1. r = c
      BY <1>1, <1>3, Zenon DEF odbc_free_cursor
    <2>2. CursorFreed(r, c, s)
      BY <1>1, <1>3, <2>1 DEF CursorFreed, SameProgram
    <2>. QED  BY <2>1, <2>2
  <1>4. CASE h # None
    <2>1. PICK l : l = odbc_lock_statement(c, s)
      OBVIOUS
    <2>2. PICK x : x = l.tds[s]
      OBVIOUS
    <2>3. /\ Sound(l) /\ AfterLock(l, c, s) /\ \A g : Unused(c, g) => Unused(l, g)
          /\ c.tds[s] = None /\ Locked(l, s) => l.state[x] # "PENDING"
      BY <1>2, <2>1, <2>2, GoodLock
    <2>4. SameProgram(l, c) /\ SameHeld(l, c)
      BY <2>3 DEF AfterLock, SameBut, SameProgram
    <2>5. h \in Handles /\ h \in Cursors
      BY <1>2, <1>4 DEF Handles
    <2>6. Safe(c) => Safe(l)
      BY <2>3, HeldLock, HeldFrame, KeptFrame DEF Safe
    <2>7. CASE Locked(l, s) /\ l.state[x] = "IDLE"
      <3>1. PICK f : f = Request(l, s, x, "cursorclose", h, res)
        OBVIOUS
      <3>2. x \in Sids /\ SoundBut(l, x)
        BY <2>2, <2>3, <2>7, GoodExcept DEF AfterLock
      <3>3. Sound(f) /\ Answered(f, l, res) /\ \A g \in Handles : Unused(l, g) /\ g # h => Unused(f, g)
        <4>1. "cursorclose" \in Ops
          BY DEF Ops
        <4>. QED  BY <1>2, <2>5, <2>7, <3>1, <3>2, <4>1, GoodRequest
      <3>4. SameProgram(f, c) /\ SameHeld(f, c) /\ f.tds = l.tds /\ f.current = l.current
        BY <2>4, <3>3 DEF Answered, SameProgram, SameHeld, SameOwners
      <3>5. \A g \in Handles : Unused(c, g) => Unused(f, g)
        <4>1. ~Unused(c, h)
          BY <1>1, <1>2 DEF Unused
        <4>. QED  BY <2>3, <3>3, <4>1
      <3>6. ASSUME Safe(c) PROVE Held(f, h, {}) /\ Kept(f) /\ h \notin f.server
        <4>1. "cursorclose" \in Ops /\ Held(l, None, {}) /\ Kept(l)
          BY <2>6, <3>6 DEF Ops, Safe
        <4>. QED  BY <1>2, <2>5, <2>7, <3>1, <3>2, <4>1, HeldRequest
      <3>7. PICK e \in {Defer(f, h), tds_cursor_deallocated(f, h), tds_cursor_check_allocated(f, h)} :
               r = ReleaseCursor(e, s)
        BY <1>1, <1>4, <2>1, <2>2, <2>7, <3>1, Zenon DEF odbc_free_cursor, Request
      <3>8. f.cursor[s] = h
        BY <1>1, <3>4 DEF SameHeld
      <3>9. /\ Sound(r) /\ CursorLeft(r, f, s) /\ \A g \in Handles : Unused(f, g) => Unused(r, g)
            /\ Held(f, h, {}) /\ Kept(f) /\ h \notin f.server => Safe(r)
        BY <1>2, <2>5, <3>3, <3>7, <3>8, LeaveCursor
      <3>10. f.state[x] # "PENDING" /\ f.tds[s] = x
        BY <2>2, <2>7, <3>2, <3>3, <3>4 DEF Answered
      <3>11. CursorFreed(r, c, s)
        <4>1. Rested(r, s)
          BY <3>9, <3>10 DEF CursorLeft, SameSessions, SameOwners, SameStates, Rested
        <4>. QED  BY <3>4, <3>9, <4>1
                  DEF CursorFreed, CursorLeft, SameProgram, SameHeld, SameSessions, SameOwners
      <3>. QED  BY <3>5, <3>6, <3>9, <3>11
    <2>8. CASE ~(Locked(l, s) /\ l.state[x] = "IDLE")
      <3>1. PICK e \in {Defer(l, h), tds_cursor_deallocated(l, h), tds_cursor_check_allocated(l, h)} :
               r = ReleaseCursor(e, s) /\ (h \in l.known => e = Defer(l, h))
        <4>1. CASE h \in l.known
          <5>1. r = ReleaseCursor(Defer(l, h), s)
            BY <1>1, <1>4, <2>1, <2>2, <2>8, <4>1, Zenon DEF odbc_free_cursor
          <5>. QED  BY <5>1
        <4>2. CASE h \notin l.known
          <5>1. r = ReleaseCursor(tds_cursor_deallocated(l, h), s)
            BY <1>1, <1>4, <2>1, <2>2, <2>8, <4>2, Zenon DEF odbc_free_cursor
          <5>. QED  BY <4>2, <5>1
        <4>. QED  BY <4>1, <4>2
      <3>2. l.cursor[s] = h
        BY <1>1, <2>4 DEF SameHeld
      <3>3. /\ Sound(r) /\ CursorLeft(r, l, s) /\ \A g \in Handles : Unused(l, g) => Unused(r, g)
            /\ /\ Held(l, h, {}) /\ Kept(l)
               /\ h \in l.server => e = Defer(l, h) /\ \E y \in Sids : l.state[y] = "PENDING"
               => Safe(r)
        BY <1>2, <2>3, <2>5, <3>1, <3>2, LeaveCursor
      <3>4. Rested(c, s) => Rested(l, s)
        BY <2>2, <2>3 DEF Rested, AfterLock
      <3>5. CursorFreed(r, c, s)
        <4>1. Rested(c, s) => Rested(r, s)
          BY <3>3, <3>4 DEF CursorLeft, SameSessions, SameOwners, SameStates, Rested
        <4>. QED  BY <2>4, <3>3, <4>1
                  DEF CursorFreed, CursorLeft, SameProgram, SameHeld, SameSessions, SameOwners
      <3>6. ASSUME Safe(c) PROVE Safe(r)
        <4>1. Held(l, None, {}) /\ Kept(l)
          BY <2>6, <3>6 DEF Safe
        <4>2. Held(l, h, {})
          BY <4>1, HeldMore
        <4>3. h \in l.server => h \in l.known /\ \E y \in Sids : l.state[y] = "PENDING"
          BY <1>2, <2>2, <2>3, <2>8, <4>1, Busy DEF Held
        <4>. QED  BY <3>1, <3>3, <4>1, <4>2, <4>3
      <3>. QED  BY <2>3, <3>3, <3>5, <3>6
    <2>. QED  BY <2>7, <2>8
  <1>. QED  BY <1>3, <1>4

-----------------------------------------------------------------------------
(* The rest of an answer.                                                  *)
LEMMA SafeFinish ==
    ASSUME NEW c, NEW x \in Sids, Sound(c), Safe(c), NEW res \in {"ok", "err", "cancel", "dead"},
           NEW f, f = Finish(c, x, res)
    PROVE  Safe(f)
  <1>1. SoundBut(c, x) /\ c \in Connection /\ AllLost(c) /\ Held(c, None, {}) /\ Kept(c)
    BY GoodExcept, SoundParts DEF Safe
  <1>2. CASE c.state[x] # "PENDING"
    BY <1>1, <1>2, GoodFinish
  <1>3. CASE c.state[x] = "PENDING" /\ res = "dead"
    <2>1. Died(f, c)
      BY <1>1, <1>3, GoodFinish
    <2>. QED  BY <1>1, <2>1, HeldDied, UsedIsKept DEF Safe
  <1>4. CASE c.state[x] = "PENDING" /\ res # "dead"
    <2>1. PICK new : new = New(c, x, res)
      OBVIOUS
    <2>2. Finished(f, c, x, new)
      BY <1>1, <1>4, <2>1, GoodFinish
    <2>3. /\ c.current_op[x] \in {"query", "prepexec", "execute", "cursoroption"}
          /\ c.current_op[x] = "prepexec" =>
                c.asker[x] \in Stmts /\ c.dyn[c.asker[x]] = c.cur_dyn[x] /\ c.cur_dyn[x] # None
      BY <1>1, <1>4 DEF Held
    <2>4. \A g : ~Ends(c, x, g)
      BY <2>3 DEF Ends
    <2>5. ASSUME NEW g \in new PROVE g \in Handles /\ g # None /\ Users(c, g) # {}
      <3>1. c.current_op[x] = "prepexec" /\ g = c.cur_dyn[x]
        <4>1. c.current_op[x] # "cursoropen" /\ c.current_op[x] # "prepare"
          BY <2>3
        <4>. QED  BY <2>1, <2>5, <4>1, Zenon DEF New
      <3>2. g = c.dyn[c.asker[x]] /\ c.asker[x] \in Stmts /\ g # None
        BY <2>3, <3>1
      <3>3. g \in Handles
        BY <1>1, <3>1, <3>2 DEF Connection, Handles
      <3>. QED  BY <3>2, <3>3 DEF Users
    <2>6. Held(c, None, {x}) /\ None \notin c.server
      BY <1>1, HandleKinds DEF Held, Connection
    <2>7. Held(f, None, {}) /\ AllUsed(f)
      BY <1>1, <1>4, <2>2, <2>4, <2>5, <2>6, HeldFinish
    <2>. QED  BY <2>7, UsedIsKept DEF Safe
  <1>. QED  BY <1>2, <1>3, <1>4

(* What a call that reads an answer leaves alone.                          *)
SameForAll(r, c) == SameProgram(r, c) /\ SameHeld(r, c)

(* The loop on odbc_process_tokens(): also on the session of the           *)
(* connection when a request was sent on it without the statement having   *)
(* it (see PrepExec).                                                      *)
LEMMA ReadsIs ==
    ASSUME NEW c, NEW s \in c.alive, s \in Stmts, c.connected,
           Sound(c) \/ (SoundBut(c, 0) /\ c.current = None /\ c.tds[s] = None /\ c.asker[0] = s),
           NEW how \in Hows, NEW r, r = Reads(c, s, how)
    PROVE  Sound(r) /\ SameForAll(r, c) /\ (Safe(c) => Safe(r))
  <1>1. PICK l : l = odbc_lock_statement(c, s)
    OBVIOUS
  <1>2. PICK x : x = l.tds[s]
    OBVIOUS
  <1>3. Sound(l) /\ AfterLock(l, c, s)
    BY <1>1, GoodLock
  <1>4. SameForAll(l, c) /\ (Safe(c) => Safe(l))
    <2>1. SameForAll(l, c)
      BY <1>3 DEF AfterLock, SameBut, SameForAll, SameProgram
    <2>2. Safe(c) => Safe(l)
      BY <1>3, HeldLock, HeldFrame, KeptFrame DEF Safe
    <2>. QED  BY <2>1, <2>2
  <1>5. PICK f : f = Finish(l, x, how[2])
    OBVIOUS
  <1>6. r = l \/ (Locked(l, s) /\ (r = f \/ r = odbc_unlock_statement(f, s)))
    BY <1>1, <1>2, <1>5, Zenon DEF Reads
  <1>7. CASE Locked(l, s) /\ (r = f \/ r = odbc_unlock_statement(f, s))
    <2>1. x \in Sids /\ SoundBut(l, x) /\ how[2] \in {"ok", "err", "cancel", "dead"}
      BY <1>2, <1>3, <1>7, GoodExcept DEF AfterLock, Hows
    <2>2. Sound(f) /\ SameOwners(f, l) /\ SameHeld(f, l)
      BY <1>5, <2>1, GoodFinish
    <2>3. SameForAll(f, c)
      BY <1>4, <2>2 DEF SameForAll, SameProgram, SameOwners, SameHeld
    <2>4. Safe(c) => Safe(f)
      BY <1>3, <1>4, <1>5, <2>1, SafeFinish
    <2>5. CASE r = odbc_unlock_statement(f, s)
      <3>1. Sound(r) /\ AfterUnlock(r, f, s)
        BY <2>2, <2>5, GoodUnlock
      <3>2. SameForAll(r, c)
        BY <2>3, <3>1 DEF AfterUnlock, SameBut, SameForAll, SameProgram, SameHeld
      <3>3. Safe(f) => Safe(r)
        BY <3>1, HeldUnlock, HeldFrame, KeptFrame DEF Safe
      <3>. QED  BY <2>4, <3>1, <3>2, <3>3
    <2>. QED  BY <1>7, <2>2, <2>3, <2>4, <2>5
  <1>. QED  BY <1>3, <1>4, <1>6, <1>7

-----------------------------------------------------------------------------
(* The calls.                                                              *)

(* The fields on which Sound and Safe depend.                              *)
SameCore(r, c) ==
    /\ r.connected = c.connected /\ r.mars = c.mars /\ r.alive = c.alive
    /\ r.current = c.current /\ r.tds = c.tds /\ SameStates(r, c) /\ SameServed(r, c) /\ SameHeld(r, c)
    /\ SameLists(r, c) /\ SameCloses(r, c) /\ r.known = c.known /\ r.ref_count = c.ref_count

(* They depend on no others.                                               *)
LEMMA CoreFrame ==
    ASSUME NEW c, Sound(c), NEW r \in Connection, SameCore(r, c)
    PROVE  Sound(r) /\ (Safe(c) => Safe(r)) /\ \A g : Unused(c, g) => Unused(r, g)
  <1>1. /\ Owned(c) /\ AllLost(c) /\ Asked(c, {}) /\ Counted(c) /\ NothingLeft(c) /\ Named(c)
    BY DEF Sound, Good
  <1>2. Owned(r) /\ AllLost(r) /\ Asked(r, {})
    BY <1>1 DEF Owned, AllLost, Lost, Asked, SameCore, SameStates
  <1>3. Counted(r)
    BY <1>1, SameCounts DEF SameCore
  <1>4. NothingLeft(r) /\ Named(r)
    BY <1>1 DEF NothingLeft, Named, SameCore, SameStates, SameServed, SameHeld
  <1>5. Sound(r)
    BY <1>2, <1>3, <1>4 DEF Sound, Good
  <1>6. ASSUME Safe(c) PROVE Safe(r)
    <2>1. /\ \A g \in r.server : g \in r.known /\ Listed(r, g)
          /\ Lost(r) => r.server = {}
      BY <1>6 DEF Safe, Held, SameCore, SameLists, SameCloses, SameStates, Listed, Lost
    <2>2. /\ \A t \in Stmts : r.dyn[t] \notin {None, None} => Contains(r.dyns, r.dyn[t]) /\ r.dyn[t] \notin r.defer_close
          /\ \A t \in Stmts : r.cursor[t] \notin {None, None} =>
                                 Contains(r.cursors, r.cursor[t]) /\ r.cursor[t] \notin r.defer_close
      BY <1>6 DEF Safe, Held, SameCore, SameLists, SameCloses, SameHeld
    <2>3. /\ \A t, u \in Stmts : r.dyn[t] # None /\ r.dyn[t] = r.dyn[u] => t = u
          /\ \A t, u \in Stmts : r.cursor[t] # None /\ r.cursor[t] = r.cursor[u] => t = u
      BY <1>6 DEF Safe, Held, SameCore, SameHeld
    <2>4. \A x \in Sids : r.state[x] = "PENDING" =>
            /\ r.current_op[x] \in {"query", "prepexec", "execute", "cursoroption"}
            /\ r.current_op[x] = "prepexec" =>
                  r.asker[x] \in Stmts /\ r.dyn[r.asker[x]] = r.cur_dyn[x] /\ r.cur_dyn[x] # None
      BY <1>6 DEF Safe, Held, SameCore, SameStates, SameServed, SameHeld
    <2>5. Held(r, None, {})
      BY <2>1, <2>2, <2>3, <2>4 DEF Held
    <2>6. \A g : Users(r, g) = Users(c, g)
      BY DEF SameCore, SameHeld, Users
    <2>7. Kept(r)
      BY <1>6, <2>6 DEF Safe, Kept, SameCore, SameCloses, SameStates
    <2>. QED  BY <2>5, <2>7 DEF Safe
  <1>7. \A g : Unused(c, g) => Unused(r, g)
    BY DEF Unused, SameCore, SameServed, SameHeld, SameLists
  <1>. QED  BY <1>5, <1>6, <1>7

(* Parameters are bound again only where a prepared statement can be       *)
(* replaced on the session that is in use.                                 *)
Bound(c) == \A s \in Stmts : c.need_reprepare[s] /\ c.dyn[s] # None => ~c.mars

Clean(c) == Safe(c) /\ Bound(c) /\ c.fault = "none"

(* A call does not connect, disconnect, make or drop a statement.          *)
Called(r, c) == r.connected = c.connected /\ r.mars = c.mars /\ r.alive = c.alive

(* There is a handle that is not used.                                     *)
FreshFor(c, S) == Fresh(S) \in S /\ Unused(c, Fresh(S))

(* need_reprepare is set.                                                  *)
Reprepare(c, s, b) == [c EXCEPT !.need_reprepare[s] = b]
ReprepareIs(r, c, s, b) ==
    /\ r \in Connection /\ SameCore(r, c) /\ r.fault = c.fault /\ r.is_prepared = c.is_prepared
    /\ r.need_reprepare[s] = b /\ \A t \in Stmts \ {s} : r.need_reprepare[t] = c.need_reprepare[t]

(* Setting it changes nothing else.                                        *)
LEMMA Reprepared ==
    ASSUME NEW c \in Connection, NEW s \in Stmts, NEW b \in BOOLEAN, NEW r, r = Reprepare(c, s, b)
    PROVE  ReprepareIs(r, c, s, b)
  <1>1. PICK n : n = [c.need_reprepare EXCEPT ![s] = b]
    OBVIOUS
  <1>2. n \in [Stmts -> BOOLEAN] /\ n[s] = b /\ \A t \in Stmts \ {s} : n[t] = c.need_reprepare[t]
    <2>1. c.need_reprepare \in [Stmts -> BOOLEAN]
      BY DEF Connection
    <2>. QED  BY <1>1, <2>1
  <1>3. r = [c EXCEPT !.need_reprepare = n]
    BY <1>1 DEF Reprepare
  <1>4. r \in Connection
    BY <1>2, <1>3 DEF Connection
  <1>5. r.need_reprepare = n /\ SameCore(r, c) /\ r.fault = c.fault /\ r.is_prepared = c.is_prepared
    BY <1>3 DEF Connection, SameCore, SameStates, SameServed, SameHeld, SameLists, SameCloses
  <1>. QED  BY <1>2, <1>4, <1>5 DEF ReprepareIs

(* A call is at work on the idle session x.                                *)
Working(c, s, x) ==
    Sound(c) /\ s \in Stmts /\ s \in c.alive /\ c.connected /\ x \in Sids /\ c.tds[s] = x /\ c.state[x] = "IDLE"

(* tds71_submit_prepexec() works on a session that odbc_free_dynamic() did *)
(* not free, if the connection has no MARS or there was nothing to close.  *)
LEMMA PrepExecIs ==
    ASSUME NEW c, NEW s, NEW x, Working(c, s, x), NEW res \in Results, NEW how \in Hows,
           FreshFor(c, Dyns), c.dyn[s] \in c.known => c.need_reprepare[s],
           NEW r, r = PrepExec(c, s, x, res, how)
    PROVE  Sound(r) /\ Called(r, c) /\ (Clean(c) => Clean(r))
  <1>1. /\ s \in Stmts /\ s \in c.alive /\ c.connected /\ x \in Sids /\ x # None
        /\ Sound(c) /\ c.tds[s] = x /\ c.state[x] = "IDLE" /\ Rested(c, s)
    BY HandleKinds DEF Working, Rested
  <1>2. PICK e : e = odbc_free_dynamic(c, s, res)
    OBVIOUS
  <1>3. PICK f : f = [e EXCEPT !.need_reprepare[s] = FALSE]
    OBVIOUS
  <1>4. PICK h : h = Fresh(Dyns)
    OBVIOUS
  <1>5. h \in Dyns /\ h \in Handles /\ h # None /\ Unused(c, h)
    BY <1>4, HandleKinds DEF FreshFor
  <1>6. /\ Sound(e) /\ DynFreed(e, c, s) /\ Unused(e, h)
        /\ Safe(c) => Safe(e)
    BY <1>1, <1>2, <1>5, FreeDynamicIs
  <1>7. /\ f \in Connection /\ SameCore(f, e) /\ f.fault = e.fault
        /\ ~f.need_reprepare[s] /\ \A t \in Stmts \ {s} : f.need_reprepare[t] = e.need_reprepare[t]
    <2>1. f = Reprepare(e, s, FALSE) /\ e \in Connection
      BY <1>3, <1>6, SoundParts DEF Reprepare
    <2>2. ReprepareIs(f, e, s, FALSE)
      BY <1>1, <2>1, Reprepared
    <2>. QED  BY <2>2 DEF ReprepareIs
  <1>8. Sound(f) /\ (Safe(c) => Safe(f)) /\ Unused(f, h)
    BY <1>6, <1>7, CoreFrame
  <1>9. /\ f.connected = c.connected /\ f.mars = c.mars /\ f.alive = c.alive /\ f.fault = c.fault
        /\ f.dyn[s] = None /\ (\A t \in Stmts \ {s} : f.dyn[t] = c.dyn[t] /\ f.need_reprepare[t] = c.need_reprepare[t])
        /\ Rested(f, s)
        /\ f.state[x] = "DEAD" \/ StillThere(f, s, x) \/ (f.state[x] = "free" /\ x # 0 /\ c.dyn[s] \in c.known)
    BY <1>1, <1>6, <1>7 DEF DynFreed, SameProgram, SameCore, SameHeld, SameStates, Rested, StillThere
  <1>10. ASSUME Clean(c) PROVE Clean(f)
    <2>1. Bound(f)
      BY <1>9, <1>10 DEF Clean, Bound
    <2>. QED  BY <1>8, <1>9, <1>10, <2>1 DEF Clean
  <1>11. Called(f, c)
    BY <1>9 DEF Called
  <1>12. CASE f.state[x] = "free"
    <2>1. r = [f EXCEPT !.fault = "freed"]
      BY <1>2, <1>3, <1>12, Zenon DEF PrepExec
    <2>2. r \in Connection /\ SameCore(r, f)
      BY <1>7, <2>1 DEF Connection, SameCore, SameStates, SameServed, SameHeld, SameLists, SameCloses
    <2>3. Sound(r)
      BY <1>8, <2>2, CoreFrame
    <2>4. Called(r, c)
      BY <1>11, <2>2 DEF Called, SameCore
    <2>5. ~Clean(c)
      <3>1. x # 0 /\ c.need_reprepare[s] /\ c.dyn[s] \in c.known
        BY <1>9, <1>12 DEF StillThere
      <3>2. c.dyn[s] # None
        BY <1>1, <3>1, SoundParts, HandleKinds DEF Connection
      <3>3. c.mars
        BY <1>1, <3>1, SoundParts DEF Owned
      <3>. QED  BY <1>1, <3>1, <3>2, <3>3 DEF Clean, Bound
    <2>. QED  BY <2>3, <2>4, <2>5
  <1>13. CASE f.state[x] = "DEAD"
    <2>1. r = f
      BY <1>2, <1>3, <1>13, Zenon DEF PrepExec
    <2>. QED  BY <1>8, <1>10, <1>11, <2>1
  <1>14. CASE f.state[x] # "free" /\ f.state[x] # "DEAD"
    <2>1. PICK n : n = NewDyn(f, s, h)
      OBVIOUS
    <2>2. PICK q : q = Submit(n, s, x, "prepexec", h)
      OBVIOUS
    <2>3. r = Reads(q, s, how)
      BY <1>2, <1>3, <1>4, <1>14, <2>1, <2>2, Zenon DEF PrepExec
    <2>4. Sound(n) /\ Given(n, f, s, h)
      BY <1>1, <1>5, <1>8, <1>9, <2>1, GoodNewDyn
    <2>5. /\ SameOwners(n, f) /\ n.state = f.state /\ n.dyn[s] = h
          /\ \A t \in Stmts \ {s} : n.dyn[t] = f.dyn[t]
      BY <1>5, <2>4, HandleKinds DEF Given, SameSessions, SameStates
    <2>6. SoundBut(n, x) /\ n.state[x] \in {"IDLE", "PENDING"} /\ "prepexec" \in Ops
      BY <1>9, <1>14, <2>4, <2>5, GoodExcept DEF StillThere, Ops
    <2>7. SoundBut(q, x) /\ Submitted(q, n, s, x, "prepexec", h) /\ (n.tds[s] = x => Sound(q))
      BY <1>1, <1>5, <2>2, <2>6, GoodSubmit
    <2>8. SameOwners(q, n) /\ SameHeld(q, n) /\ q.asker[x] = s
      <3>1. n.asker \in [Sids -> Stmts \cup {None}]
        BY <2>4, SoundParts DEF Connection
      <3>. QED  BY <1>1, <2>7, <3>1 DEF Submitted
    <2>9. Sound(q) \/ (SoundBut(q, 0) /\ q.current = None /\ q.tds[s] = None /\ q.asker[0] = s)
      BY <1>9, <1>14, <2>5, <2>7, <2>8 DEF StillThere, SameOwners
    <2>10. s \in q.alive /\ q.connected
      BY <1>1, <1>9, <2>5, <2>8 DEF SameOwners
    <2>11. Sound(r) /\ SameForAll(r, q) /\ (Safe(q) => Safe(r))
      BY <1>1, <2>3, <2>9, <2>10, ReadsIs
    <2>12. Called(r, c)
      BY <1>9, <2>5, <2>8, <2>11 DEF Called, SameForAll, SameProgram, SameOwners
    <2>13. ASSUME Clean(c) PROVE Clean(r)
      <3>1. /\ Held(n, None, {}) /\ Kept(n)
        <4>1. f \in Connection /\ Asked(f, {}) /\ Held(f, None, {}) /\ Kept(f)
          BY <1>7, <1>8, <1>10, <2>13, SoundParts DEF Clean, Safe
        <4>. QED  BY <1>1, <1>5, <1>8, <1>9, <2>4, <4>1, HeldGiven, HandleKinds
      <3>2. n \in Connection /\ AllLost(n)
        BY <2>4, SoundParts
      <3>3. Held(n, None, {x})
        BY <3>1 DEF Held
      <3>4. Safe(q)
        BY <1>1, <1>5, <2>5, <2>6, <2>7, <3>1, <3>2, <3>3, HeldSubmit DEF Safe
      <3>5. r.dyn = n.dyn /\ r.need_reprepare = f.need_reprepare /\ r.mars = f.mars /\ r.fault = f.fault
        BY <2>5, <2>8, <2>11 DEF SameForAll, SameProgram, SameOwners, SameHeld
      <3>6. Bound(r)
        BY <1>7, <1>10, <2>5, <2>13, <3>5 DEF Bound, Clean
      <3>. QED  BY <1>9, <2>11, <2>13, <3>4, <3>5, <3>6 DEF Clean
    <2>. QED  BY <2>11, <2>12, <2>13
  <1>. QED  BY <1>12, <1>13, <1>14

(* odbc_lock_statement() was called.                                       *)
Entered(c, s) ==
    Sound(c) /\ s \in Stmts /\ s \in c.alive /\ c.connected /\ (c.got[s] # None => c.tds[s] = c.got[s])

(* A call that found its session idle works on it.                         *)
LEMMA ReadyIsWorking ==
    ASSUME NEW c, NEW s, Entered(c, s), Ready(c, s)
    PROVE  Working(c, s, c.got[s]) /\ Rested(c, s)
  <1>1. s \in Stmts /\ c.got[s] \in Sids
    BY SoundParts DEF Entered, Ready, Locked, Connection
  <1>2. c.tds[s] = c.got[s] /\ c.state[c.got[s]] = "IDLE"
    BY DEF Entered, Ready, Locked
  <1>. QED  BY <1>1, <1>2 DEF Entered, Working, Rested

(* A request whose answer is read by Reads.                                *)
LEMMA SubmitReads ==
    ASSUME NEW c, NEW s, NEW x, Working(c, s, x), NEW op \in {"query", "execute", "cursoroption"},
           NEW h \in Handles \cup {None}, NEW how \in Hows,
           NEW r, r = Reads(Submit(c, s, x, op, h), s, how)
    PROVE  Sound(r) /\ SameForAll(r, c) /\ (Safe(c) => Safe(r))
  <1>1. s \in Stmts /\ s \in c.alive /\ c.connected /\ x \in Sids /\ c.tds[s] = x /\ c.state[x] = "IDLE" /\ Sound(c)
    BY DEF Working
  <1>2. PICK q : q = Submit(c, s, x, op, h)
    OBVIOUS
  <1>3. SoundBut(c, x) /\ c.state[x] \in {"IDLE", "PENDING"} /\ op \in Ops /\ op \notin {"prepare", "prepexec", "cursoropen"}
    BY <1>1, GoodExcept DEF Ops
  <1>4. Submitted(q, c, s, x, op, h) /\ Sound(q)
    BY <1>1, <1>2, <1>3, GoodSubmit
  <1>5. SameForAll(q, c) /\ s \in q.alive /\ q.connected
    BY <1>1, <1>4 DEF Submitted, SameForAll, SameProgram, SameOwners
  <1>6. Sound(r) /\ SameForAll(r, q) /\ (Safe(q) => Safe(r))
    BY <1>1, <1>2, <1>4, <1>5, ReadsIs
  <1>7. ASSUME Safe(c) PROVE Safe(q)
    <2>1. Held(c, None, {x}) /\ Kept(c) /\ c \in Connection /\ AllLost(c)
      BY <1>1, <1>7, SoundParts DEF Safe, Held
    <2>2. op \in {"query", "prepexec", "execute", "cursoroption"} /\ op # "prepexec"
      OBVIOUS
    <2>. QED  BY <1>1, <1>3, <1>4, <2>1, <2>2, HeldSubmit DEF Safe
  <1>. QED  BY <1>5, <1>6, <1>7 DEF SameForAll, SameProgram, SameHeld

(* Whoever reads an answer binds nothing.                                  *)
LEMMA CleanFrame ==
    ASSUME NEW c, NEW r, SameForAll(r, c)
    PROVE  Called(r, c) /\ (Safe(r) /\ Clean(c) => Clean(r))
  BY DEF SameForAll, SameProgram, SameHeld, Called, Clean, Bound

(* odbc_SQLExecute() without a cursor.                                     *)
LEMMA SQLExecuteIs ==
    ASSUME NEW c, NEW s, Entered(c, s), NEW res \in Results, NEW how \in Hows,
           c.is_prepared[s] => FreshFor(c, Dyns),
           NEW r, r = odbc_SQLExecute(c, s, res, how)
    PROVE  Sound(r) /\ Called(r, c) /\ (Clean(c) => Clean(r))
  <1>1. PICK x : x = c.got[s]
    OBVIOUS
  <1>2. CASE ~Ready(c, s)
    <2>1. r = c
      BY <1>2, Zenon DEF odbc_SQLExecute
    <2>. QED  BY <2>1 DEF Entered, Called
  <1>3. CASE Ready(c, s)
    <2>1. Working(c, s, x)
      BY <1>1, <1>3, ReadyIsWorking
    <2>2. CASE ~c.is_prepared[s]
      <3>1. r = Reads(Submit(c, s, x, "query", None), s, how)
        BY <1>1, <1>3, <2>2, Zenon DEF odbc_SQLExecute
      <3>. QED  BY <2>1, <3>1, SubmitReads, CleanFrame DEF Clean
    <2>3. CASE c.is_prepared[s] /\ c.dyn[s] \in c.known /\ ~c.need_reprepare[s]
      <3>1. r = Reads(Submit(c, s, x, "execute", c.dyn[s]), s, how)
        BY <1>1, <1>3, <2>3, Zenon DEF odbc_SQLExecute
      <3>2. c.dyn[s] \in Handles \cup {None}
        BY <2>1, SoundParts DEF Working, Connection, Handles
      <3>. QED  BY <2>1, <3>1, <3>2, SubmitReads, CleanFrame DEF Clean
    <2>4. CASE c.is_prepared[s] /\ ~(c.dyn[s] \in c.known /\ ~c.need_reprepare[s])
      <3>1. r = PrepExec(c, s, x, res, how)
        BY <1>1, <1>3, <2>4, Zenon DEF odbc_SQLExecute
      <3>. QED  BY <2>1, <2>4, <3>1, PrepExecIs
    <2>. QED  BY <2>2, <2>3, <2>4
  <1>. QED  BY <1>2, <1>3

(* odbc_cursor_execute() and the rest of odbc_SQLExecute().                *)
LEMMA CursorExecuteIs ==
    ASSUME NEW c, NEW s, Entered(c, s), NEW res \in Results, NEW named \in BOOLEAN, NEW how \in Hows,
           FreshFor(c, Cursors), c.cursor[s] = None,
           NEW r, r = odbc_cursor_execute(c, s, res, named, how)
    PROVE  Sound(r) /\ Called(r, c) /\ (Clean(c) => Clean(r))
  <1>1. PICK x : x = c.got[s]
    OBVIOUS
  <1>2. CASE ~Ready(c, s)
    <2>1. r = c
      BY <1>2, Zenon DEF odbc_cursor_execute
    <2>. QED  BY <2>1 DEF Entered, Called
  <1>3. CASE Ready(c, s)
    <2>1. Working(c, s, x) /\ Rested(c, s)
      BY <1>1, <1>3, ReadyIsWorking
    <2>2. s \in Stmts /\ s \in c.alive /\ c.connected /\ x \in Sids /\ c.tds[s] = x /\ c.state[x] = "IDLE" /\ Sound(c)
      BY <2>1 DEF Working
    <2>3. PICK h : h = Fresh(Cursors)
      OBVIOUS
    <2>4. h \in Cursors /\ h \in Handles /\ Unused(c, h)
      BY <2>3 DEF FreshFor, Handles
    <2>5. PICK n : n = NewCursor(c, s, h)
      OBVIOUS
    <2>6. Sound(n) /\ Given(n, c, s, h)
      BY <2>2, <2>4, <2>5, GoodNewCursor
    <2>7. SameOwners(n, c) /\ n.state = c.state /\ n.cursor[s] = h /\ n.dyn = c.dyn /\ SoundBut(n, x)
      BY <2>4, <2>6, HandleKinds, GoodExcept DEF Given, SameSessions, SameStates
    <2>8. PICK o : o = Request(n, s, x, "cursoropen", h, res)
      OBVIOUS
    <2>9. Sound(o) /\ Answered(o, n, res)
      <3>1. "cursoropen" \in Ops
        BY DEF Ops
      <3>. QED  BY <2>2, <2>4, <2>7, <2>8, <3>1, GoodRequest
    <2>10. SameOwners(o, c) /\ o.cursor[s] = h /\ o.dyn = c.dyn
      BY <2>7, <2>9 DEF Answered, SameOwners, SameHeld
    <2>11. ASSUME Safe(c) PROVE Held(o, None, {}) /\ Kept(o) /\ (res # "ok" => h \notin o.server)
      <3>1. c \in Connection /\ Asked(c, {}) /\ Held(c, None, {}) /\ Kept(c)
        BY <2>2, <2>11, SoundParts DEF Safe
      <3>2. Held(n, None, {}) /\ Kept(n) /\ h \notin n.server /\ Users(n, h) # {}
        BY <2>1, <2>2, <2>4, <2>6, <3>1, HeldGiven, HandleKinds
      <3>3. "cursoropen" \in Ops
        BY DEF Ops
      <3>4. Held(o, None, {}) /\ Kept(o)
        BY <2>2, <2>4, <2>7, <2>8, <3>2, <3>3, HeldRequest
      <3>. QED  BY <2>9, <3>2, <3>4 DEF Answered
    <2>12. CASE res # "ok"
      <3>1. PICK e : e = tds_cursor_check_allocated(o, h)
        OBVIOUS
      <3>2. PICK u : u = ReleaseCursor(e, s)
        OBVIOUS
      <3>3. r = u \/ r = Reads(u, s, how)
        <4>1. res = "dead" \/ res = "err"
          BY <2>12 DEF Results
        <4>2. CASE res = "dead"
          BY <1>1, <1>3, <2>3, <2>5, <2>8, <3>1, <3>2, <4>2, Zenon DEF odbc_cursor_execute, Request
        <4>3. CASE res = "err"
          BY <1>1, <1>3, <2>3, <2>5, <2>8, <3>1, <3>2, <4>3, Zenon DEF odbc_cursor_execute, Request
        <4>. QED  BY <4>1, <4>2, <4>3
      <3>4. /\ Sound(u) /\ CursorLeft(u, o, s)
            /\ Held(o, h, {}) /\ Kept(o) /\ h \notin o.server => Safe(u)
        BY <2>2, <2>4, <2>9, <2>10, <3>1, <3>2, LeaveCursor
      <3>5. Safe(c) => Safe(u)
        BY <2>11, <2>12, <3>4, HeldMore
      <3>6. /\ u.connected = c.connected /\ u.mars = c.mars /\ u.alive = c.alive /\ u.fault = c.fault
            /\ u.need_reprepare = c.need_reprepare /\ u.dyn = c.dyn
        BY <2>10, <3>4 DEF CursorLeft, SameSessions, SameOwners
      <3>7. Called(u, c) /\ (Clean(c) => Clean(u))
        BY <3>5, <3>6 DEF Called, Clean, Bound
      <3>8. CASE r = Reads(u, s, how)
        <4>1. Sound(r) /\ SameForAll(r, u) /\ (Safe(u) => Safe(r))
          BY <2>2, <3>4, <3>6, <3>8, ReadsIs
        <4>2. Called(r, u) /\ (Clean(u) => Clean(r))
          BY <4>1, CleanFrame DEF Clean
        <4>. QED  BY <3>7, <4>1, <4>2 DEF Called
      <3>. QED  BY <3>3, <3>4, <3>7, <3>8
    <2>13. CASE res = "ok"
      <3>1. r = Reads(Submit(o, s, x, "cursoroption", h), s, how) \/ r = Reads(o, s, how)
        <4>1. CASE named
          BY <1>1, <1>3, <2>3, <2>5, <2>8, <2>13, <4>1, Zenon DEF odbc_cursor_execute, Request
        <4>2. CASE ~named
          BY <1>1, <1>3, <2>3, <2>5, <2>8, <2>13, <4>2, Zenon DEF odbc_cursor_execute, Request
        <4>. QED  BY <4>1, <4>2
      <3>2. o.state = c.state
        BY <2>7, <2>9, <2>13 DEF Answered
      <3>3. Working(o, s, x)
        BY <2>2, <2>9, <2>10, <3>2 DEF Working, SameOwners
      <3>4. Called(o, c) /\ (Clean(c) => Clean(o))
        BY <2>10, <2>11 DEF Called, Clean, Bound, Safe, SameOwners
      <3>5. Sound(r) /\ SameForAll(r, o) /\ (Safe(o) => Safe(r))
        <4>1. CASE r = Reads(o, s, how)
          BY <3>3, <4>1, ReadsIs DEF Working
        <4>2. CASE r = Reads(Submit(o, s, x, "cursoroption", h), s, how)
          BY <2>4, <3>3, <4>2, SubmitReads
        <4>. QED  BY <3>1, <4>1, <4>2
      <3>6. Called(r, o) /\ (Clean(o) => Clean(r))
        BY <3>5, CleanFrame DEF Clean
      <3>. QED  BY <3>4, <3>5, <3>6 DEF Called
    <2>. QED  BY <2>12, <2>13
  <1>. QED  BY <1>2, <1>3

(* odbc_SQLFetch() with a cursor.                                          *)
LEMMA SQLFetchIs ==
    ASSUME NEW c, NEW s, Entered(c, s), NEW res \in Results, NEW r, r = odbc_SQLFetch(c, s, res)
    PROVE  Sound(r) /\ Called(r, c) /\ (Clean(c) => Clean(r))
  <1>1. PICK x : x = c.got[s]
    OBVIOUS
  <1>2. CASE ~Ready(c, s)
    <2>1. r = c
      BY <1>2, Zenon DEF odbc_SQLFetch
    <2>. QED  BY <2>1 DEF Entered, Called
  <1>3. CASE Ready(c, s)
    <2>1. Working(c, s, x)
      BY <1>1, <1>3, ReadyIsWorking
    <2>2. s \in Stmts /\ x \in Sids /\ c.state[x] = "IDLE" /\ Sound(c) /\ SoundBut(c, x)
      BY <2>1, GoodExcept DEF Working
    <2>3. PICK h : h = c.cursor[s]
      OBVIOUS
    <2>4. h \in Handles \cup {None} /\ "cursorfetch" \in Ops
      BY <2>2, <2>3, SoundParts DEF Connection, Handles, Ops
    <2>5. PICK f : f = Request(c, s, x, "cursorfetch", h, res)
      OBVIOUS
    <2>6. Sound(f) /\ Answered(f, c, res)
      BY <2>2, <2>4, <2>5, GoodRequest
    <2>7. ASSUME Safe(c) PROVE Safe(f)
      <3>1. Held(c, None, {}) /\ Kept(c)
        BY <2>7 DEF Safe
      <3>. QED  BY <2>2, <2>4, <2>5, <3>1, HeldRequest DEF Safe
    <2>8. SameForAll(f, c)
      BY <2>6 DEF Answered, SameForAll, SameProgram, SameOwners
    <2>9. r = f \/ r = odbc_unlock_statement(f, s)
      BY <1>1, <1>3, <2>3, <2>5, Zenon DEF odbc_SQLFetch, Request
    <2>10. CASE r = f
      BY <2>6, <2>7, <2>8, <2>10, CleanFrame DEF Clean
    <2>11. CASE r = odbc_unlock_statement(f, s)
      <3>1. Sound(r) /\ AfterUnlock(r, f, s)
        BY <2>2, <2>6, <2>11, GoodUnlock
      <3>2. SameForAll(r, c)
        BY <2>8, <3>1 DEF AfterUnlock, SameBut, SameForAll, SameProgram, SameHeld
      <3>3. Safe(f) => Safe(r)
        BY <3>1, HeldUnlock, HeldFrame, KeptFrame DEF Safe
      <3>. QED  BY <2>7, <3>1, <3>2, <3>3, CleanFrame DEF Clean
    <2>. QED  BY <2>9, <2>10, <2>11
  <1>. QED  BY <1>2, <1>3

(* odbc_update_ird(): a careful program has no prepared statement then.    *)
LEMMA UpdateIrdIs ==
    ASSUME NEW c, NEW s, Entered(c, s), NEW res \in Results, FreshFor(c, Dyns),
           NEW r, r = odbc_update_ird(c, s, res)
    PROVE  Sound(r) /\ Called(r, c) /\ (Clean(c) /\ c.dyn[s] = None => Clean(r))
  <1>1. PICK x : x = c.got[s]
    OBVIOUS
  <1>2. CASE ~Ready(c, s)
    <2>1. r = c
      BY <1>2, Zenon DEF odbc_update_ird
    <2>. QED  BY <2>1 DEF Entered, Called
  <1>3. CASE Ready(c, s)
    <2>1. Working(c, s, x) /\ Rested(c, s)
      BY <1>1, <1>3, ReadyIsWorking
    <2>2. s \in Stmts /\ s \in c.alive /\ c.connected /\ x \in Sids /\ c.tds[s] = x /\ c.state[x] = "IDLE" /\ Sound(c)
      BY <2>1 DEF Working
    <2>3. PICK h : h = Fresh(Dyns)
      OBVIOUS
    <2>4. h \in Dyns /\ h \in Handles /\ Unused(c, h)
      BY <2>3 DEF FreshFor, Handles
    <2>5. PICK n : n = NewDyn(c, s, h)
      OBVIOUS
    <2>6. Sound(n) /\ Given(n, c, s, h)
      BY <2>2, <2>4, <2>5, GoodNewDyn
    <2>7. /\ SameOwners(n, c) /\ n.state = c.state /\ n.dyn[s] = h /\ SoundBut(n, x)
          /\ \A t \in Stmts \ {s} : n.dyn[t] = c.dyn[t]
      BY <2>4, <2>6, HandleKinds, GoodExcept DEF Given, SameSessions, SameStates
    <2>8. PICK f : f = Request(n, s, x, "prepare", h, res)
      OBVIOUS
    <2>9. Sound(f) /\ Answered(f, n, res)
      <3>1. "prepare" \in Ops
        BY DEF Ops
      <3>. QED  BY <2>2, <2>4, <2>7, <2>8, <3>1, GoodRequest
    <2>10. SameOwners(f, c) /\ f.dyn = n.dyn /\ f.state[x] # "PENDING" /\ f.tds[s] = x
      BY <2>2, <2>7, <2>9 DEF Answered, SameOwners, SameHeld
    <2>11. ASSUME Safe(c), c.dyn[s] = None PROVE Held(f, None, {}) /\ Kept(f) /\ (res # "ok" => h \notin f.server)
      <3>1. c \in Connection /\ Asked(c, {}) /\ Held(c, None, {}) /\ Kept(c)
        BY <2>2, <2>11, SoundParts DEF Safe
      <3>2. Held(n, None, {}) /\ Kept(n) /\ h \notin n.server /\ Users(n, h) # {}
        BY <2>1, <2>2, <2>4, <2>6, <2>11, <3>1, HeldGiven, HandleKinds
      <3>3. "prepare" \in Ops
        BY DEF Ops
      <3>4. Held(f, None, {}) /\ Kept(f)
        BY <2>2, <2>4, <2>7, <2>8, <3>2, <3>3, HeldRequest
      <3>. QED  BY <2>9, <3>2, <3>4 DEF Answered
    <2>12. PICK g : g = IF res = "ok" THEN f ELSE ReleaseDyn(f, s)
      OBVIOUS
    <2>13. /\ Sound(g) /\ SameOwners(g, c) /\ \A t \in Stmts \ {s} : g.dyn[t] = c.dyn[t]
           /\ Safe(c) /\ c.dyn[s] = None => Safe(g)
      <3>1. CASE res = "ok"
        BY <2>7, <2>9, <2>10, <2>11, <2>12, <3>1 DEF Safe
      <3>2. CASE res # "ok"
        <4>1. Sound(g) /\ DynDropped(g, f, s)
          BY <2>2, <2>9, <2>12, <3>2, GoodDropDyn
        <4>2. SameOwners(g, c) /\ \A t \in Stmts \ {s} : g.dyn[t] = c.dyn[t]
          BY <2>7, <2>10, <4>1 DEF DynDropped, SameSessions, SameOwners
        <4>3. ASSUME Safe(c), c.dyn[s] = None PROVE Safe(g)
          <5>1. Held(f, f.dyn[s], {}) /\ Kept(f) /\ f.dyn[s] \notin f.server
            BY <2>7, <2>10, <2>11, <3>2, <4>3, HeldMore
          <5>2. Rested(f, s)
            BY <2>10 DEF Rested
          <5>. QED  BY <2>2, <2>9, <4>1, <5>1, <5>2, SafeDropDyn
        <4>. QED  BY <4>1, <4>2, <4>3
      <3>. QED  BY <3>1, <3>2
    <2>14. PICK u : u = odbc_unlock_statement(g, s)
      OBVIOUS
    <2>15. Sound(u) /\ AfterUnlock(u, g, s) /\ (Safe(g) => Safe(u))
      <3>1. Sound(u) /\ AfterUnlock(u, g, s)
        BY <2>2, <2>13, <2>14, GoodUnlock
      <3>2. Safe(g) => Safe(u)
        BY <3>1, HeldUnlock, HeldFrame, KeptFrame DEF Safe
      <3>. QED  BY <3>1, <3>2
    <2>16. /\ u.connected = c.connected /\ u.mars = c.mars /\ u.alive = c.alive /\ u.fault = c.fault
           /\ u.need_reprepare = c.need_reprepare /\ \A t \in Stmts \ {s} : u.dyn[t] = c.dyn[t]
      BY <2>13, <2>15 DEF AfterUnlock, SameBut, SameHeld, SameOwners
    <2>17. r = Reprepare(u, s, FALSE)
      BY <1>1, <1>3, <2>3, <2>5, <2>8, <2>12, <2>14, Zenon DEF odbc_update_ird, Request, Reprepare
    <2>18. ReprepareIs(r, u, s, FALSE)
      BY <2>2, <2>15, <2>17, Reprepared, SoundParts
    <2>19. Sound(r) /\ (Safe(u) => Safe(r))
      BY <2>15, <2>18, CoreFrame DEF ReprepareIs
    <2>20. /\ Called(r, c) /\ r.fault = c.fault /\ r.mars = c.mars /\ ~r.need_reprepare[s]
           /\ \A t \in Stmts \ {s} : r.dyn[t] = c.dyn[t] /\ r.need_reprepare[t] = c.need_reprepare[t]
      BY <2>16, <2>18 DEF Called, ReprepareIs, SameCore, SameHeld
    <2>21. ASSUME Clean(c), c.dyn[s] = None PROVE Clean(r)
      <3>1. Bound(r)
        BY <2>20, <2>21 DEF Clean, Bound
      <3>. QED  BY <2>13, <2>15, <2>19, <2>20, <2>21, <3>1 DEF Clean
    <2>. QED  BY <2>19, <2>20, <2>21
  <1>. QED  BY <1>2, <1>3

(* odbc_SQLFreeStmt() with SQL_CLOSE.                                      *)
LEMMA CloseStmtIs ==
    ASSUME NEW c, Sound(c), NEW s \in c.alive, c.connected, NEW how \in {"ok", "dead"}, NEW res \in Results,
           NEW r, r = CloseStmt(c, s, how, res)
    PROVE  Sound(r) /\ SameProgram(r, c) /\ r.dyn = c.dyn /\ Rested(r, s) /\ r.cursor[s] = None /\ (Safe(c) => Safe(r))
  <1>1. PICK x : x = c.tds[s]
    OBVIOUS
  <1>2. s \in Stmts /\ x \in Sids \cup {None}
    BY <1>1, SoundParts DEF Connection
  <1>3. PICK e : e = IF x = None THEN c ELSE Finish(c, x, IF how = "dead" THEN how ELSE "cancel")
    OBVIOUS
  <1>4. r = odbc_free_cursor(e, s, res)
    BY <1>1, <1>3, Zenon DEF CloseStmt
  <1>5. Sound(e) /\ SameForAll(e, c) /\ Rested(e, s) /\ (Safe(c) => Safe(e))
    <2>1. CASE x = None
      BY <1>1, <1>3, <2>1 DEF SameForAll, SameProgram, SameHeld, Rested
    <2>2. CASE x # None
      <3>1. PICK how2 \in {"ok", "err", "cancel", "dead"} : e = Finish(c, x, how2)
        BY <1>3, <2>2
      <3>2. x \in Sids /\ SoundBut(c, x)
        BY <1>2, <2>2, GoodExcept
      <3>3. Sound(e) /\ SameOwners(e, c) /\ SameHeld(e, c) /\ StatesAfter(e, c, x)
        BY <3>1, <3>2, GoodFinish
      <3>4. SameForAll(e, c) /\ Rested(e, s)
        BY <1>1, <3>3 DEF SameForAll, SameProgram, SameOwners, StatesAfter, Rested
      <3>5. Safe(c) => Safe(e)
        BY <3>1, <3>2, SafeFinish
      <3>. QED  BY <3>3, <3>4, <3>5
    <2>. QED  BY <2>1, <2>2
  <1>6. s \in e.alive /\ e.connected
    BY <1>5 DEF SameForAll, SameProgram
  <1>7. Sound(r) /\ CursorFreed(r, e, s) /\ (Safe(e) => Safe(r))
    BY <1>4, <1>5, <1>6, FreeCursorIs
  <1>. QED  BY <1>5, <1>7 DEF CursorFreed, SameForAll, SameProgram, SameHeld

-----------------------------------------------------------------------------
(* The transactions: the session of the connection is taken from the       *)
(* statement that has it.                                                  *)
LetGo(c) == IF c.current = None THEN c ELSE [c EXCEPT !.tds[c.current] = None, !.current = None]

(* Nothing of the statement is left on the session.                        *)
LEMMA LetGoIs ==
    ASSUME NEW c, Sound(c), c.connected, c.state[0] # "PENDING", NEW n, n = LetGo(c)
    PROVE  /\ Sound(n) /\ SameForAll(n, c) /\ n.state = c.state /\ n.current = None
           /\ Safe(c) => Safe(n)
  <1>1. c \in Connection /\ Owned(c) /\ AllLost(c) /\ Asked(c, {}) /\ Good(c, {})
    BY DEF Sound, Good
  <1>2. CASE c.current = None
    BY <1>2 DEF LetGo, SameForAll, SameProgram, SameHeld
  <1>3. CASE c.current # None
    <2>1. PICK s : s = c.current
      OBVIOUS
    <2>2. /\ s \in Stmts /\ c.tds \in [Stmts -> Sids \cup {None}] /\ c.got \in [Stmts -> Sids \cup {None}]
          /\ c.state \in [Sids -> {"free", "IDLE", "PENDING", "DEAD"}]
      BY <1>1, <1>3, <2>1 DEF Connection
    <2>3. PICK td : td = [c.tds EXCEPT ![s] = None]
      OBVIOUS
    <2>4. td \in [Stmts -> Sids \cup {None}] /\ \A t \in Stmts : td[t] = IF t = s THEN None ELSE c.tds[t]
      BY <2>2, <2>3
    <2>5. n = [c EXCEPT !.current = None, !.tds = td, !.got = c.got, !.state = c.state]
      <3>1. n = [c EXCEPT !.tds[s] = None, !.current = None]
        BY <1>3, <2>1, Zenon DEF LetGo
      <3>2. n = [c EXCEPT !.current = None, !.tds = td]
        BY <1>1, <2>3, <3>1 DEF Connection
      <3>. QED  BY <1>1, <3>2 DEF Connection
    <2>6. Moved(n, c, None, td, c.got, c.state)
      BY <1>1, <2>2, <2>4, <2>5, MovedIs
    <2>7. /\ SameBut(n, c) /\ SameServed(n, c) /\ n.asker = c.asker /\ n.current_op = c.current_op
          /\ n.current = None /\ n.tds = td /\ n.got = c.got /\ n.state = c.state
      BY <2>6 DEF Moved
    <2>8. \A t \in Stmts : c.tds[t] = 0 <=> t = s
      BY <1>1, <2>1 DEF Owned
    <2>9. Owned(n)
      <3>1. \A x \in Sids : x # 0 /\ n.state[x] # "free" => \E t \in Stmts : n.tds[t] = x
        BY <1>1, <2>4, <2>7, <2>8 DEF Owned
      <3>2. /\ \A t \in Stmts : n.tds[t] # None => t \in n.alive /\ n.state[n.tds[t]] # "free"
            /\ \A t, v \in Stmts : n.tds[t] # None /\ n.tds[t] = n.tds[v] => t = v
        BY <1>1, <2>4, <2>7 DEF Owned, SameBut
      <3>3. \A t \in Stmts : n.tds[t] = 0 <=> n.current = t
        BY <2>4, <2>7, <2>8, HandleKinds
      <3>. QED  BY <1>1, <2>7, <3>1, <3>2, <3>3 DEF Owned, SameBut
    <2>10. AllLost(n)
      BY <1>1, <2>7 DEF AllLost, Lost
    <2>11. Asked(n, {})
      <3>. SUFFICES ASSUME NEW x \in Sids, n.state[x] = "PENDING"
                    PROVE  n.asker[x] \in Stmts /\ n.tds[n.asker[x]] = x
        BY DEF Asked
      <3>1. c.asker[x] \in Stmts /\ c.tds[c.asker[x]] = x /\ x # 0
        BY <1>1, <2>7 DEF Asked
      <3>. QED  BY <2>4, <2>7, <2>8, <3>1
    <2>12. Sound(n)
      BY <1>1, <2>6, <2>9, <2>10, <2>11, MovedGood DEF Sound
    <2>13. SameForAll(n, c)
      BY <2>7 DEF SameBut, SameForAll, SameProgram
    <2>14. Safe(c) => Safe(n)
      <3>1. SameAnswers(n, c)
        BY <2>7 DEF SameAnswers, SameServed, Lost
      <3>. QED  BY <2>7, <3>1, HeldFrame, KeptFrame DEF Safe
    <2>. QED  BY <2>7, <2>12, <2>13, <2>14
  <1>. QED  BY <1>2, <1>3

(* The end of a transaction.                                               *)
EndTran(c, r, res) ==
    LET pending == c.state[0] = "PENDING" /\ c.current # None
        f == IF pending THEN Finish(c, 0, r) ELSE c
        n == LetGo(f)
    IN  IF pending /\ r # "ok" THEN f
        ELSE IF n.state[0] # "IDLE" THEN n
        ELSE Finish(Submit(n, None, 0, "query", None), 0, res)

(* The answer that was being read is read first.                           *)
LEMMA EndTranIs ==
    ASSUME NEW c, Sound(c), c.connected, NEW r \in Results, NEW res \in Results, NEW e, e = EndTran(c, r, res)
    PROVE  Sound(e) /\ SameForAll(e, c) /\ (Safe(c) => Safe(e))
  <1>1. 0 \in Sids /\ c \in Connection /\ Owned(c) /\ Asked(c, {}) /\ SoundBut(c, 0)
    BY HandleKinds, SoundParts, GoodExcept
  <1>2. c.state[0] = "PENDING" => c.current # None
    <2>1. ASSUME c.state[0] = "PENDING" PROVE c.asker[0] \in Stmts /\ c.tds[c.asker[0]] = 0
      BY <1>1, <2>1 DEF Asked
    <2>. QED  BY <1>1, <2>1, HandleKinds DEF Owned
  <1>3. PICK f : f = IF c.state[0] = "PENDING" /\ c.current # None THEN Finish(c, 0, r) ELSE c
    OBVIOUS
  <1>4. Sound(f) /\ SameForAll(f, c) /\ f.connected /\ f.state[0] # "PENDING" /\ (Safe(c) => Safe(f))
    <2>1. CASE c.state[0] # "PENDING"
      BY <1>3, <2>1 DEF SameForAll, SameProgram, SameHeld
    <2>2. CASE c.state[0] = "PENDING"
      <3>1. f = Finish(c, 0, r) /\ r \in {"ok", "err", "cancel", "dead"}
        BY <1>2, <1>3, <2>2 DEF Results
      <3>2. Sound(f) /\ SameOwners(f, c) /\ SameHeld(f, c) /\ StatesAfter(f, c, 0)
        BY <1>1, <3>1, GoodFinish
      <3>3. Safe(c) => Safe(f)
        BY <1>1, <3>1, SafeFinish
      <3>. QED  BY <3>2, <3>3 DEF SameForAll, SameProgram, SameOwners, StatesAfter
    <2>. QED  BY <2>1, <2>2
  <1>5. PICK n : n = LetGo(f)
    OBVIOUS
  <1>6. /\ Sound(n) /\ SameForAll(n, f) /\ n.state = f.state /\ (Safe(f) => Safe(n))
    BY <1>4, <1>5, LetGoIs
  <1>7. SameForAll(n, c) /\ (Safe(c) => Safe(n))
    BY <1>4, <1>6 DEF SameForAll, SameProgram, SameHeld
  <1>8. \/ e = f \/ e = n
        \/ n.state[0] = "IDLE" /\ e = Request(n, None, 0, "query", None, res)
    BY <1>3, <1>5, Zenon DEF EndTran, Request
  <1>9. CASE n.state[0] = "IDLE" /\ e = Request(n, None, 0, "query", None, res)
    <2>1. SoundBut(n, 0) /\ "query" \in Ops /\ "query" \notin {"prepare", "prepexec", "cursoropen", "unprepare", "cursorclose"}
      BY <1>6, GoodExcept DEF Ops
    <2>2. Sound(e) /\ Answered(e, n, res)
      BY <1>1, <1>9, <2>1, GoodRequest
    <2>3. SameForAll(e, c)
      BY <1>7, <2>2 DEF Answered, SameForAll, SameProgram, SameOwners, SameHeld
    <2>4. ASSUME Safe(c) PROVE Safe(e)
      <3>1. Held(n, None, {}) /\ Kept(n)
        BY <1>7, <2>4 DEF Safe
      <3>. QED  BY <1>1, <1>9, <2>1, <3>1, HeldRequest DEF Safe
    <2>. QED  BY <2>2, <2>3, <2>4
  <1>. QED  BY <1>4, <1>6, <1>7, <1>8, <1>9

-----------------------------------------------------------------------------
(* SQLFreeStmt() with SQL_DROP, once the statement holds nothing.          *)
Drop(c, s) ==
    [c EXCEPT !.alive = @ \ {s}, !.tds[s] = None, !.is_prepared[s] = FALSE, !.need_reprepare[s] = FALSE]

(* A statement that holds nothing can be dropped.                          *)
LEMMA DropIs ==
    ASSUME NEW c, Sound(c), NEW s \in Stmts, c.tds[s] = None, c.dyn[s] = None, c.cursor[s] = None,
           NEW r, r = Drop(c, s)
    PROVE  Sound(r) /\ r.connected = c.connected /\ (Clean(c) => Clean(r))
  <1>1. /\ c \in Connection /\ Owned(c) /\ AllLost(c) /\ Asked(c, {}) /\ Counted(c) /\ NothingLeft(c) /\ Named(c)
    BY DEF Sound, Good
  <1>2. PICK al : al = c.alive \ {s}
    OBVIOUS
  <1>3. PICK ip : ip = [c.is_prepared EXCEPT ![s] = FALSE]
    OBVIOUS
  <1>4. PICK nr : nr = [c.need_reprepare EXCEPT ![s] = FALSE]
    OBVIOUS
  <1>5. /\ al \in SUBSET Stmts /\ ip \in [Stmts -> BOOLEAN] /\ nr \in [Stmts -> BOOLEAN]
        /\ nr[s] = FALSE /\ \A t \in Stmts \ {s} : nr[t] = c.need_reprepare[t]
    <2>1. c.alive \in SUBSET Stmts /\ c.is_prepared \in [Stmts -> BOOLEAN] /\ c.need_reprepare \in [Stmts -> BOOLEAN]
      BY <1>1 DEF Connection
    <2>. QED  BY <1>2, <1>3, <1>4, <2>1
  <1>6. r = [c EXCEPT !.alive = al, !.is_prepared = ip, !.need_reprepare = nr]
    <2>1. c.tds \in [Stmts -> Sids \cup {None}]
      BY <1>1 DEF Connection
    <2>2. [c.tds EXCEPT ![s] = None] = c.tds
      BY <2>1
    <2>3. r = [c EXCEPT !.alive = al, !.tds = [c.tds EXCEPT ![s] = None], !.is_prepared = ip, !.need_reprepare = nr]
      BY <1>1, <1>2, <1>3, <1>4 DEF Drop, Connection
    <2>. QED  BY <1>1, <2>2, <2>3 DEF Connection
  <1>7. r \in Connection
    BY <1>1, <1>5, <1>6 DEF Connection
  <1>8. /\ r.connected = c.connected /\ r.mars = c.mars /\ r.current = c.current /\ r.tds = c.tds
        /\ r.fault = c.fault /\ r.alive = al /\ r.need_reprepare = nr
    BY <1>1, <1>6 DEF Connection
  <1>9. /\ SameStates(r, c) /\ SameServed(r, c) /\ SameHeld(r, c)
        /\ SameLists(r, c) /\ SameCloses(r, c) /\ r.known = c.known /\ r.ref_count = c.ref_count
    BY <1>1, <1>6 DEF Connection, SameStates, SameServed, SameHeld, SameLists, SameCloses
  <1>10. Owned(r) /\ AllLost(r) /\ Asked(r, {})
    <2>1. \A t \in Stmts : r.tds[t] # None => t \in r.alive /\ r.state[r.tds[t]] # "free"
      BY <1>1, <1>2, <1>8, <1>9 DEF Owned, SameStates
    <2>. QED  BY <1>1, <1>8, <1>9, <2>1 DEF Owned, AllLost, Lost, Asked, SameStates
  <1>11. Counted(r)
    BY <1>1, <1>9, SameCounts
  <1>12. NothingLeft(r) /\ Named(r)
    <2>1. \A t \in Stmts \ r.alive : t = s \/ t \in Stmts \ c.alive
      BY <1>2, <1>8
    <2>2. \A t \in Stmts \ r.alive : r.dyn[t] = None /\ r.cursor[t] = None
      BY <1>1, <1>9, <2>1 DEF NothingLeft, SameHeld
    <2>. QED  BY <1>1, <1>9, <2>2 DEF NothingLeft, Named, SameStates, SameServed
  <1>13. Sound(r)
    BY <1>7, <1>10, <1>11, <1>12 DEF Sound, Good
  <1>14. ASSUME Clean(c) PROVE Clean(r)
    <2>1. Held(r, None, {})
      <3>1. /\ \A g \in r.server : g \in r.known /\ Listed(r, g)
            /\ Lost(r) => r.server = {}
        BY <1>9, <1>14 DEF Clean, Safe, Held, SameLists, SameCloses, SameStates, Listed, Lost
      <3>2. /\ \A t \in Stmts : r.dyn[t] \notin {None, None} => Contains(r.dyns, r.dyn[t]) /\ r.dyn[t] \notin r.defer_close
            /\ \A t \in Stmts : r.cursor[t] \notin {None, None} =>
                                   Contains(r.cursors, r.cursor[t]) /\ r.cursor[t] \notin r.defer_close
        BY <1>9, <1>14 DEF Clean, Safe, Held, SameLists, SameCloses, SameHeld
      <3>3. /\ \A t, u \in Stmts : r.dyn[t] # None /\ r.dyn[t] = r.dyn[u] => t = u
            /\ \A t, u \in Stmts : r.cursor[t] # None /\ r.cursor[t] = r.cursor[u] => t = u
        BY <1>9, <1>14 DEF Clean, Safe, Held, SameHeld
      <3>4. \A x \in Sids : r.state[x] = "PENDING" =>
              /\ r.current_op[x] \in {"query", "prepexec", "execute", "cursoroption"}
              /\ r.current_op[x] = "prepexec" =>
                    r.asker[x] \in Stmts /\ r.dyn[r.asker[x]] = r.cur_dyn[x] /\ r.cur_dyn[x] # None
        BY <1>9, <1>14 DEF Clean, Safe, Held, SameStates, SameServed, SameHeld
      <3>. QED  BY <3>1, <3>2, <3>3, <3>4 DEF Held
    <2>2. Kept(r)
      <3>1. \A g : Users(r, g) = Users(c, g)
        BY <1>9 DEF SameHeld, Users
      <3>. QED  BY <1>9, <1>14, <3>1 DEF Clean, Safe, Kept, SameCloses, SameStates
    <2>3. Bound(r)
      BY <1>5, <1>8, <1>9, <1>14 DEF Clean, Bound, SameHeld
    <2>. QED  BY <1>8, <1>14, <2>1, <2>2, <2>3 DEF Clean, Safe
  <1>. QED  BY <1>8, <1>13, <1>14

-----------------------------------------------------------------------------
(* SQLDisconnect().                                                        *)
Freed(c) ==
    (\A h \in Handles : c.ref_count[h] = 0) /\ (\A x \in Sids : c.state[x] = "free")

Disconnect(c) ==
    LET f == tds_free_socket(c, 0)
    IN  [IF \A x \in Sids : f.state[x] = "free" THEN tds_deinit_connection(f) ELSE f
           EXCEPT !.connected = FALSE, !.server = {}]

(* The lists let go of what is in them: of everything that is left.        *)
LEMMA DeinitIs ==
    ASSUME NEW c \in Connection, Counted(c),
           \A s \in Stmts : c.dyn[s] = None /\ c.cursor[s] = None,
           \A x \in Sids : c.cur_dyn[x] = None /\ c.cur_cursor[x] = None,
           NEW r, r = tds_deinit_connection(c)
    PROVE  /\ r \in Connection /\ Counted(r) /\ \A h \in Handles : r.ref_count[h] = 0
           /\ SameOwners(r, c) /\ SameStates(r, c) /\ SameHeld(r, c) /\ SameServed(r, c) /\ SameCloses(r, c)
  <1>1. PICK k : k = {h \in c.known : ~Contains(c.dyns, h)}
    OBVIOUS
  <1>2. PICK n : n = [h \in Handles |-> IF Listed(c, h) THEN c.ref_count[h] - 1 ELSE c.ref_count[h]]
    OBVIOUS
  <1>3. \A h \in Handles : Users(c, h) = {} /\ Served(c, h) = {}
    BY HandleKinds DEF Users, Served
  <1>4. \A h \in Handles : c.ref_count[h] = IF Listed(c, h) THEN 1 ELSE 0
    <2>1. Cardinality({}) = 0
      BY FS_EmptySet
    <2>. QED  BY <1>3, <2>1 DEF Counted, Count
  <1>5. n \in [Handles -> Nat] /\ (\A h \in Handles : n[h] = 0) /\ k \in SUBSET Handles
    BY <1>1, <1>2, <1>4 DEF Connection
  <1>6. r = [c EXCEPT !.dyns = <<>>, !.cursors = <<>>, !.known = k, !.ref_count = n]
    BY <1>1, <1>2 DEF tds_deinit_connection, Connection
  <1>7. PICK e : e = [c EXCEPT !.dyns = <<>>, !.cursors = <<>>]
    OBVIOUS
  <1>8. e \in Connection
    <2>1. PICK q : q = <<>>
      OBVIOUS
    <2>2. q \in Seq(Dyns) /\ q \in Seq(Cursors)
      BY <2>1
    <2>. QED  BY <1>7, <2>1, <2>2 DEF Connection
  <1>9. r = [e EXCEPT !.known = k, !.ref_count = n]
    BY <1>6, <1>7 DEF Connection
  <1>10. r \in Connection
    BY <1>5, <1>8, <1>9 DEF Connection
  <1>11. /\ SameOwners(r, c) /\ SameStates(r, c) /\ SameHeld(r, c) /\ SameServed(r, c) /\ SameCloses(r, c)
         /\ r.dyns = <<>> /\ r.cursors = <<>> /\ r.ref_count = n
    BY <1>6 DEF Connection, SameOwners, SameStates, SameHeld, SameServed, SameCloses
  <1>12. \A h : ~Listed(r, h)
    BY <1>11 DEF Listed, Contains
  <1>13. \A h \in Handles : Users(r, h) = {} /\ Served(r, h) = {}
    BY <1>11, HandleKinds DEF Users, Served, SameHeld, SameServed
  <1>14. Counted(r)
    <2>1. Cardinality({}) = 0
      BY FS_EmptySet
    <2>2. \A h \in Handles : r.ref_count[h] = Count(r, h)
      <3>. SUFFICES ASSUME NEW h \in Handles PROVE Count(r, h) = 0
        BY <1>5, <1>11
      <3>1. Users(r, h) = {} /\ Served(r, h) = {} /\ ~Listed(r, h)
        BY <1>12, <1>13
      <3>2. Count(r, h) = 0 + 0 + 0
        BY <2>1, <3>1, Zenon DEF Count
      <3>. QED  BY <3>2
    <2>3. Distinct(r.dyns) /\ Distinct(r.cursors)
      BY <1>11 DEF Distinct
    <2>. QED  BY <2>2, <2>3 DEF Counted
  <1>. QED  BY <1>5, <1>10, <1>11, <1>14

(* Without statements the last session takes the connection with it, and   *)
(* all handles are freed.                                                  *)
LEMMA DisconnectIs ==
    ASSUME NEW c, Sound(c), c.alive = {}, NEW r, r = Disconnect(c)
    PROVE  Sound(r) /\ Freed(r) /\ (Clean(c) => Clean(r))
  <1>1. /\ c \in Connection /\ Owned(c) /\ Counted(c) /\ NothingLeft(c)
    BY DEF Sound, Good
  <1>2. /\ \A s \in Stmts : c.tds[s] = None /\ c.dyn[s] = None /\ c.cursor[s] = None
        /\ \A x \in Sids : x # 0 => c.state[x] = "free" /\ c.cur_dyn[x] = None /\ c.cur_cursor[x] = None
    BY <1>1, HandleKinds DEF Owned, NothingLeft
  <1>3. PICK f : f = tds_free_socket(c, 0)
    OBVIOUS
  <1>4. f \in Connection /\ Counted(f) /\ SocketFreed(f, c, 0)
    BY <1>1, <1>3, FreeSocketIs, HandleKinds
  <1>5. /\ \A x \in Sids : f.state[x] = "free"
        /\ \A x \in Sids : f.cur_dyn[x] = None /\ f.cur_cursor[x] = None
    <2>1. /\ c.state \in [Sids -> {"free", "IDLE", "PENDING", "DEAD"}] /\ 0 \in Sids
          /\ c.cur_dyn \in [Sids -> Dyns \cup {None}] /\ c.cur_cursor \in [Sids -> Cursors \cup {None}]
      BY <1>1, HandleKinds DEF Connection
    <2>. QED  BY <1>2, <1>4, <2>1 DEF SocketFreed
  <1>6. \A s \in Stmts : f.dyn[s] = None /\ f.cursor[s] = None
    BY <1>2, <1>4 DEF SocketFreed, SameHeld
  <1>7. PICK g : g = tds_deinit_connection(f)
    OBVIOUS
  <1>8. /\ g \in Connection /\ Counted(g) /\ \A h \in Handles : g.ref_count[h] = 0
        /\ SameOwners(g, f) /\ SameStates(g, f) /\ SameHeld(g, f) /\ SameServed(g, f) /\ SameCloses(g, f)
    BY <1>4, <1>5, <1>6, <1>7, DeinitIs
  <1>9. r = [g EXCEPT !.connected = FALSE, !.server = {}]
    BY <1>3, <1>5, <1>7, Zenon DEF Disconnect
  <1>10. r \in Connection
    BY <1>8, <1>9 DEF Connection
  <1>11. /\ SameStates(r, g) /\ SameHeld(r, g) /\ SameServed(r, g) /\ SameLists(r, g) /\ r.ref_count = g.ref_count
         /\ ~r.connected /\ r.server = {} /\ r.mars = g.mars /\ r.alive = g.alive /\ r.tds = g.tds
         /\ r.current = g.current /\ r.need_reprepare = g.need_reprepare /\ r.fault = g.fault
    BY <1>8, <1>9 DEF Connection, SameStates, SameHeld, SameServed, SameLists
  <1>12. Freed(r)
    BY <1>5, <1>8, <1>11 DEF Freed, SameStates
  <1>13. /\ \A s \in Stmts : r.tds[s] = None /\ r.dyn[s] = None /\ r.cursor[s] = None
         /\ \A x \in Sids : r.state[x] = "free" /\ r.cur_dyn[x] = None /\ r.cur_cursor[x] = None
         /\ r.current = c.current /\ r.mars = c.mars /\ r.fault = c.fault
    BY <1>2, <1>4, <1>5, <1>6, <1>8, <1>11 DEF SocketFreed, SameOwners, SameStates, SameHeld, SameServed
  <1>14. Sound(r)
    <2>1. Owned(r)
      BY <1>1, <1>2, <1>11, <1>13, HandleKinds DEF Owned
    <2>2. AllLost(r) /\ Asked(r, {}) /\ NothingLeft(r) /\ Named(r)
      BY <1>13 DEF AllLost, Lost, Asked, NothingLeft, Named
    <2>3. Counted(r)
      BY <1>8, <1>11, SameCounts
    <2>. QED  BY <1>10, <2>1, <2>2, <2>3 DEF Sound, Good
  <1>15. ASSUME Clean(c) PROVE Clean(r)
    <2>1. Held(r, None, {}) /\ Kept(r)
      BY <1>11, <1>13 DEF Held, Kept, Lost
    <2>. QED  BY <1>13, <1>15, <2>1 DEF Clean, Safe, Bound
  <1>. QED  BY <1>12, <1>14, <1>15

-----------------------------------------------------------------------------
(* The two halves of a call.                                               *)

(* The part of odbc_lock_statement() under the mutex changes no handle.    *)
LEMMA ChooseIs ==
    ASSUME NEW c \in Connection, NEW s \in Stmts, NEW e, e = Choose(c, s)
    PROVE  e \in Connection /\ SameBut(e, c) /\ SameServed(e, c) /\ e.ref_count = c.ref_count
  <1>1. /\ c.current \in Stmts \cup {None} /\ c.tds \in [Stmts -> Sids \cup {None}]
        /\ c.got \in [Stmts -> Sids \cup {None}] /\ 0 \in Sids
        /\ c.state \in [Sids -> {"free", "IDLE", "PENDING", "DEAD"}]
    BY HandleKinds DEF Connection
  <1>3. CASE c.tds[s] # None
    <2>1. e = [c EXCEPT !.got[s] = c.tds[s]]
      BY <1>3, Zenon DEF Choose
    <2>2. PICK gt : gt = [c.got EXCEPT ![s] = c.tds[s]]
      OBVIOUS
    <2>3. gt \in [Stmts -> Sids \cup {None}]
      BY <1>1, <2>2
    <2>4. e = [c EXCEPT !.current = c.current, !.tds = c.tds, !.got = gt, !.state = c.state]
      <3>1. e = [c EXCEPT !.got = gt]
        BY <2>1, <2>2
      <3>. QED  BY <3>1 DEF Connection
    <2>5. Moved(e, c, c.current, c.tds, gt, c.state)
      BY <1>1, <2>3, <2>4, MovedIs
    <2>. QED  BY <2>5 DEF Moved
  <1>4. CASE c.tds[s] = None /\ c.current \in {None, s}
    <2>1. e = [c EXCEPT !.current = s, !.got[s] = 0]
      BY <1>4, Zenon DEF Choose
    <2>2. PICK gt : gt = [c.got EXCEPT ![s] = 0]
      OBVIOUS
    <2>3. gt \in [Stmts -> Sids \cup {None}]
      BY <1>1, <2>2
    <2>4. e = [c EXCEPT !.current = s, !.tds = c.tds, !.got = gt, !.state = c.state]
      <3>1. e = [c EXCEPT !.current = s, !.got = gt]
        BY <2>1, <2>2
      <3>. QED  BY <3>1 DEF Connection
    <2>5. Moved(e, c, s, c.tds, gt, c.state)
      BY <1>1, <2>3, <2>4, MovedIs
    <2>. QED  BY <2>5 DEF Moved
  <1>5. CASE c.tds[s] = None /\ c.current \notin {None, s} /\ c.state[0] = "IDLE"
    <2>1. e = [c EXCEPT !.tds[c.current] = None, !.current = s, !.got[s] = 0]
      <3>1. e = Steal(c, s)
        BY <1>5, Zenon DEF Choose
      <3>. QED  BY <3>1 DEF Steal
    <2>2. PICK td, gt : td = [c.tds EXCEPT ![c.current] = None] /\ gt = [c.got EXCEPT ![s] = 0]
      OBVIOUS
    <2>3. td \in [Stmts -> Sids \cup {None}] /\ gt \in [Stmts -> Sids \cup {None}]
      BY <1>1, <2>2
    <2>4. e = [c EXCEPT !.current = s, !.tds = td, !.got = gt, !.state = c.state]
      <3>1. e = [c EXCEPT !.tds = td, !.current = s, !.got = gt]
        BY <2>1, <2>2
      <3>. QED  BY <3>1 DEF Connection
    <2>5. Moved(e, c, s, td, gt, c.state)
      BY <1>1, <2>3, <2>4, MovedIs
    <2>. QED  BY <2>5 DEF Moved
  <1>6. CASE c.tds[s] = None /\ c.current \notin {None, s} /\ c.state[0] # "IDLE"
    <2>1. PICK unused : unused = {x \in Sids : c.state[x] = "free"}
      OBVIOUS
    <2>2. PICK x : x = CHOOSE z \in unused : TRUE
      OBVIOUS
    <2>3. e = IF c.mars /\ c.state[0] # "DEAD" /\ unused # {}
              THEN [c EXCEPT !.state[x] = "IDLE", !.got[s] = x] ELSE [c EXCEPT !.got[s] = None]
      BY <1>6, <2>1, <2>2, Zenon DEF Choose
    <2>4. CASE c.mars /\ c.state[0] # "DEAD" /\ unused # {}
      <3>1. x \in unused
        BY <2>2, <2>4
      <3>2. x \in Sids
        BY <2>1, <3>1
      <3>3. PICK gt, st : gt = [c.got EXCEPT ![s] = x] /\ st = [c.state EXCEPT ![x] = "IDLE"]
        OBVIOUS
      <3>4. gt \in [Stmts -> Sids \cup {None}] /\ st \in [Sids -> {"free", "IDLE", "PENDING", "DEAD"}]
        BY <1>1, <3>2, <3>3
      <3>5. e = [c EXCEPT !.current = c.current, !.tds = c.tds, !.got = gt, !.state = st]
        <4>1. e = [c EXCEPT !.state = st, !.got = gt]
          BY <2>3, <2>4, <3>3
        <4>. QED  BY <4>1 DEF Connection
      <3>6. Moved(e, c, c.current, c.tds, gt, st)
        BY <1>1, <3>4, <3>5, MovedIs
      <3>. QED  BY <3>6 DEF Moved
    <2>5. CASE ~(c.mars /\ c.state[0] # "DEAD" /\ unused # {})
      <3>1. PICK gt : gt = [c.got EXCEPT ![s] = None]
        OBVIOUS
      <3>2. gt \in [Stmts -> Sids \cup {None}]
        BY <1>1, <3>1
      <3>3. e = [c EXCEPT !.current = c.current, !.tds = c.tds, !.got = gt, !.state = c.state]
        <4>1. e = [c EXCEPT !.got = gt]
          BY <2>3, <2>5, <3>1
        <4>. QED  BY <4>1 DEF Connection
      <3>4. Moved(e, c, c.current, c.tds, gt, c.state)
        BY <1>1, <3>2, <3>3, MovedIs
      <3>. QED  BY <3>4 DEF Moved
    <2>. QED  BY <2>4, <2>5
  <1>. QED  BY <1>3, <1>4, <1>5, <1>6

(* And the rest of it.                                                     *)
LEMMA AssignIs ==
    ASSUME NEW c \in Connection, NEW s \in Stmts, NEW l, l = Assign(c, s)
    PROVE  /\ SameBut(l, c) /\ SameServed(l, c) /\ l.ref_count = c.ref_count
           /\ l.state = c.state /\ l.got = c.got
  <1>1. CASE c.got[s] = None
    BY <1>1 DEF Assign, SameBut, SameHeld, SameLists, SameCloses, SameServed
  <1>2. CASE c.got[s] # None
    <2>1. PICK td : td = [c.tds EXCEPT ![s] = c.got[s]]
      OBVIOUS
    <2>2. l = [c EXCEPT !.tds = td]
      BY <1>2, <2>1 DEF Assign
    <2>. QED  BY <2>2 DEF Connection, SameBut, SameHeld, SameLists, SameCloses, SameServed
  <1>. QED  BY <1>1, <1>2

(* A call returns.                                                         *)
Returned(c, s) == [c EXCEPT !.got[s] = None]

(* It no longer needs the session that odbc_lock_statement() chose.        *)
LEMMA ReturnIs ==
    ASSUME NEW c, Sound(c), NEW s \in Stmts, NEW r, r = Returned(c, s)
    PROVE  Sound(r) /\ r.connected = c.connected /\ (Clean(c) => Clean(r))
  <1>1. PICK gt : gt = [c.got EXCEPT ![s] = None]
    OBVIOUS
  <1>2. c \in Connection /\ gt \in [Stmts -> Sids \cup {None}]
    <2>1. c \in Connection /\ c.got \in [Stmts -> Sids \cup {None}]
      BY SoundParts DEF Connection
    <2>. QED  BY <1>1, <2>1
  <1>3. r = [c EXCEPT !.got = gt]
    BY <1>1 DEF Returned
  <1>4. r \in Connection
    BY <1>2, <1>3 DEF Connection
  <1>5. SameCore(r, c) /\ r.fault = c.fault /\ r.need_reprepare = c.need_reprepare
    BY <1>2, <1>3 DEF Connection, SameCore, SameStates, SameServed, SameHeld, SameLists, SameCloses
  <1>6. Sound(r) /\ (Safe(c) => Safe(r))
    BY <1>4, <1>5, CoreFrame
  <1>. QED  BY <1>5, <1>6 DEF SameCore, SameHeld, Clean, Bound

(* The flags of a statement are set.                                       *)
Flagged(c, s, p, n) == [c EXCEPT !.is_prepared[s] = p, !.need_reprepare[s] = n]
FlaggedIs(r, c, s, p, n) ==
    /\ r \in Connection /\ SameCore(r, c) /\ r.fault = c.fault
    /\ r.is_prepared[s] = p /\ \A t \in Stmts \ {s} : r.is_prepared[t] = c.is_prepared[t]
    /\ r.need_reprepare[s] = n /\ \A t \in Stmts \ {s} : r.need_reprepare[t] = c.need_reprepare[t]

(* Setting them changes nothing else.                                      *)
LEMMA FlagIs ==
    ASSUME NEW c \in Connection, NEW s \in Stmts, NEW p \in BOOLEAN, NEW n \in BOOLEAN,
           NEW r, r = Flagged(c, s, p, n)
    PROVE  FlaggedIs(r, c, s, p, n)
  <1>1. PICK ip, nr : ip = [c.is_prepared EXCEPT ![s] = p] /\ nr = [c.need_reprepare EXCEPT ![s] = n]
    OBVIOUS
  <1>2. /\ ip \in [Stmts -> BOOLEAN] /\ ip[s] = p /\ \A t \in Stmts \ {s} : ip[t] = c.is_prepared[t]
        /\ nr \in [Stmts -> BOOLEAN] /\ nr[s] = n /\ \A t \in Stmts \ {s} : nr[t] = c.need_reprepare[t]
    <2>1. c.is_prepared \in [Stmts -> BOOLEAN] /\ c.need_reprepare \in [Stmts -> BOOLEAN]
      BY DEF Connection
    <2>. QED  BY <1>1, <2>1
  <1>3. r = [c EXCEPT !.is_prepared = ip, !.need_reprepare = nr]
    BY <1>1 DEF Flagged
  <1>4. r \in Connection
    BY <1>2, <1>3 DEF Connection
  <1>5. /\ r.is_prepared = ip /\ r.need_reprepare = nr /\ r.fault = c.fault /\ SameCore(r, c)
    BY <1>3 DEF Connection, SameCore, SameStates, SameServed, SameHeld, SameLists, SameCloses
  <1>. QED  BY <1>2, <1>4, <1>5 DEF FlaggedIs

-----------------------------------------------------------------------------
(* The inductive invariant.  A call is between its two halves in at most   *)
(* one statement, and the connection is as odbc_lock_statement() leaves it *)
(* once its second half has assigned the session.                          *)

(* Some handle of S is not used.                                           *)
Left(c, S) == \E h \in S : c.ref_count[h] = 0

(* The statement s is between the two halves of a call.                    *)
InCall(c, call, s) ==
    /\ Entered(Assign(c, s), s)
    /\ (call = "exec" /\ c.is_prepared[s]) \/ call = "describe" => Left(c, Dyns)
    /\ call = "execcursor" => Left(c, Cursors) /\ c.cursor[s] = None
    /\ Careful => Clean(Assign(c, s)) /\ (call = "describe" => c.dyn[s] = None)

(* Between two calls.                                                      *)
Quiet(c) == Sound(c) /\ (Careful => Clean(c))

IInv ==
    /\ TypeOK
    /\ \A s, t \in Stmts : pc[s] # "app" /\ pc[t] # "app" => s = t
    /\ Alone => Quiet(d)
    /\ \A s \in Stmts : pc[s] # "app" => InCall(d, pc[s], s)
    /\ ~d.connected => Freed(d)

(* An unused handle is there to take.                                      *)
LEMMA FreshIsUnused ==
    ASSUME NEW S \in {Dyns, Cursors}, d \in Connection, Left(d, S),
           NEW c, Sound(c), c.ref_count = d.ref_count
    PROVE  FreshFor(c, S)
  <1>1. Fresh(S) \in S /\ d.ref_count[Fresh(S)] = 0
    BY DEF Fresh, Left
  <1>2. S \subseteq Handles
    BY HandleKinds
  <1>3. c \in Connection /\ Counted(c)
    BY SoundParts
  <1>4. Unused(c, Fresh(S))
    BY <1>1, <1>2, <1>3, FreedIsUnused
  <1>. QED  BY <1>1, <1>4 DEF FreshFor

(* A call returns a sound connection.                                      *)
LEMMA Returns ==
    ASSUME TypeOK, NEW s \in Stmts, \A t \in Stmts \ {s} : pc[t] = "app",
           NEW c, Quiet(c), c.connected, Return(s, c)
    PROVE  IInv'
  <1>1. d' = Returned(c, s)
    BY DEF Return, Returned
  <1>2. Quiet(d') /\ d'.connected
    BY <1>1, ReturnIs DEF Quiet
  <1>3. pc' \in [Stmts -> Calls \cup {"app"}] /\ \A t \in Stmts : pc'[t] = "app"
    BY DEF Return, TypeOK
  <1>4. d' \in Connection
    BY <1>2, SoundParts DEF Quiet
  <1>. QED  BY <1>2, <1>3, <1>4 DEF IInv, TypeOK

(* odbc_lock_statement() keeps what is at the server.                      *)
LEMMA CleanLock ==
    ASSUME NEW c, NEW s, NEW l, AfterLock(l, c, s), Clean(c)
    PROVE  Clean(l)
  <1>1. SameBut(l, c) /\ SameAnswers(l, c)
    BY HeldLock
  <1>2. Safe(l)
    BY <1>1, HeldFrame, KeptFrame DEF Clean, Safe
  <1>. QED  BY <1>1, <1>2 DEF Clean, Bound, SameBut, SameHeld

(* The first half of a call.                                               *)
LEMMA Enters ==
    ASSUME IInv, ~Threads, NEW s \in Stmts, NEW call \in Calls, NEW c, Quiet(c), c.connected, s \in c.alive,
           (call = "exec" /\ c.is_prepared[s]) \/ call = "describe" => Left(c, Dyns),
           call = "execcursor" => Left(c, Cursors) /\ c.cursor[s] = None,
           Careful /\ call = "describe" => c.dyn[s] = None,
           Enter(s, call, c)
    PROVE  IInv'
  <1>1. c \in Connection
    BY SoundParts DEF Quiet
  <1>2. PICK e : e = Choose(c, s)
    OBVIOUS
  <1>3. PICK l : l = odbc_lock_statement(c, s)
    OBVIOUS
  <1>4. e \in Connection /\ SameBut(e, c) /\ SameServed(e, c) /\ e.ref_count = c.ref_count
    BY <1>1, <1>2, ChooseIs
  <1>5. l = Assign(e, s)
    BY <1>2, <1>3 DEF odbc_lock_statement
  <1>6. Sound(l) /\ AfterLock(l, c, s)
    BY <1>3, GoodLock DEF Quiet
  <1>7. Entered(l, s)
    BY <1>6 DEF Entered, AfterLock, SameBut, Locked
  <1>8. Careful => Clean(l)
    BY <1>6, CleanLock DEF Quiet
  <1>9. /\ e.is_prepared = c.is_prepared /\ e.connected = c.connected
        /\ e.dyn = c.dyn /\ e.cursor = c.cursor /\ e.ref_count = c.ref_count
    BY <1>4 DEF SameBut, SameHeld
  <1>10. InCall(e, call, s)
    BY <1>5, <1>7, <1>8, <1>9 DEF InCall, Left
  <1>11. d' = e /\ pc' = [pc EXCEPT ![s] = call] /\ \A t \in Stmts : pc[t] = "app"
    BY <1>2 DEF Enter, Callable, Alone
  <1>12. /\ pc' \in [Stmts -> Calls \cup {"app"}] /\ pc'[s] = call
         /\ \A t \in Stmts \ {s} : pc'[t] = "app"
    BY <1>11 DEF IInv, TypeOK
  <1>13. call # "app"
    BY DEF Calls
  <1>14. ~Alone'
    BY <1>12, <1>13 DEF Alone
  <1>15. \A t \in Stmts : pc'[t] # "app" => InCall(d', pc'[t], t)
    BY <1>10, <1>11, <1>12
  <1>. QED  BY <1>4, <1>9, <1>11, <1>12, <1>14, <1>15 DEF IInv, TypeOK

-----------------------------------------------------------------------------
(* The first halves of the calls.                                          *)

(* SQLExecDirect() forgets what the statement was prepared for.            *)
LEMMA ExecDirectStep ==
    ASSUME IInv, ~Threads, NEW s \in Stmts, NEW cursor \in BOOLEAN, SQLExecDirect(s, cursor)
    PROVE  IInv'
  <1>1. PICK c, call : c = Flagged(d, s, FALSE, FALSE) /\ call = IF cursor THEN "execcursor" ELSE "exec"
    OBVIOUS
  <1>2. Enter(s, call, c) /\ d.cursor[s] = None /\ (cursor => FreeHandles(Cursors) # {})
    BY <1>1 DEF SQLExecDirect, Flagged
  <1>3. Callable(s) /\ Alone
    BY <1>2 DEF Enter, Callable
  <1>4. Quiet(d) /\ d \in Connection /\ d.connected /\ s \in d.alive
    BY <1>3 DEF IInv, TypeOK, Callable
  <1>5. FlaggedIs(c, d, s, FALSE, FALSE)
    BY <1>1, <1>4, FlagIs
  <1>6. Sound(c) /\ (Safe(d) => Safe(c))
    BY <1>4, <1>5, CoreFrame DEF Quiet, FlaggedIs
  <1>7. Careful => Clean(c)
    <2>1. Clean(d) => Bound(c)
      BY <1>5 DEF Clean, Bound, FlaggedIs, SameCore, SameHeld
    <2>. QED  BY <1>4, <1>5, <1>6, <2>1 DEF Quiet, Clean, FlaggedIs
  <1>8. /\ c.connected /\ s \in c.alive /\ ~c.is_prepared[s] /\ c.cursor = d.cursor
        /\ c.ref_count = d.ref_count
    BY <1>4, <1>5 DEF FlaggedIs, SameCore, SameHeld
  <1>9. call \in Calls /\ call # "describe" /\ (call = "execcursor" => Left(c, Cursors) /\ c.cursor[s] = None)
    BY <1>1, <1>2, <1>8 DEF Calls, Left, FreeHandles
  <1>. QED  BY <1>2, <1>6, <1>7, <1>8, <1>9, Enters DEF Quiet

(* SQLExecute() finds a handle that is not used for what it may prepare or *)
(* open.                                                                   *)
LEMMA ExecuteStep ==
    ASSUME IInv, ~Threads, NEW s \in Stmts, NEW cursor \in BOOLEAN, SQLExecute(s, cursor)
    PROVE  IInv'
  <1>1. PICK call : call = IF cursor THEN "execcursor" ELSE "exec"
    OBVIOUS
  <1>2. Enter(s, call, d) /\ d.cursor[s] = None /\ FreeHandles(IF cursor THEN Cursors ELSE Dyns) # {}
    BY <1>1 DEF SQLExecute
  <1>3. Callable(s) /\ Alone
    BY <1>2 DEF Enter, Callable
  <1>4. Quiet(d) /\ d.connected /\ s \in d.alive
    BY <1>3 DEF IInv, Callable
  <1>5. /\ call \in Calls /\ call # "describe"
        /\ call = "exec" => Left(d, Dyns)
        /\ call = "execcursor" => Left(d, Cursors)
    BY <1>1, <1>2 DEF Calls, Left, FreeHandles
  <1>. QED  BY <1>2, <1>4, <1>5, Enters

(* SQLFetch() with a cursor.                                               *)
LEMMA FetchStep ==
    ASSUME IInv, ~Threads, NEW s \in Stmts, SQLFetch(s)
    PROVE  IInv'
  <1>1. Enter(s, "fetch", d)
    BY DEF SQLFetch
  <1>2. Callable(s) /\ Alone
    BY <1>1 DEF Enter, Callable
  <1>3. Quiet(d) /\ d.connected /\ s \in d.alive
    BY <1>2 DEF IInv, Callable
  <1>4. "fetch" \in Calls
    BY DEF Calls
  <1>. QED  BY <1>1, <1>3, <1>4, Enters

(* The columns are asked for: a careful program has no prepared statement  *)
(* then.                                                                   *)
LEMMA NumResultColsStep ==
    ASSUME IInv, ~Threads, NEW s \in Stmts, SQLNumResultCols(s)
    PROVE  IInv'
  <1>1. Enter(s, "describe", d) /\ FreeHandles(Dyns) # {} /\ (Careful => d.dyn[s] = None)
    BY DEF SQLNumResultCols
  <1>2. Callable(s) /\ Alone
    BY <1>1 DEF Enter, Callable
  <1>3. Quiet(d) /\ d.connected /\ s \in d.alive
    BY <1>2 DEF IInv, Callable
  <1>4. "describe" \in Calls /\ Left(d, Dyns)
    BY <1>1 DEF Calls, Left, FreeHandles
  <1>. QED  BY <1>1, <1>3, <1>4, Enters

-----------------------------------------------------------------------------
(* The second halves.                                                      *)

(* Where they begin.                                                       *)
Begun(c, s) ==
    /\ Entered(c, s) /\ (Careful => Clean(c)) /\ c.connected
    /\ c.ref_count = d.ref_count /\ c.is_prepared = d.is_prepared /\ SameHeld(c, d)

(* odbc_lock_statement() assigns the session and changes nothing else.     *)
LEMMA Begins ==
    ASSUME IInv, NEW s \in Stmts, pc[s] # "app", NEW c, c = Assign(d, s)
    PROVE  Begun(c, s) /\ InCall(d, pc[s], s) /\ d \in Connection /\ \A t \in Stmts \ {s} : pc[t] = "app"
  <1>1. InCall(d, pc[s], s) /\ d \in Connection /\ \A t \in Stmts \ {s} : pc[t] = "app"
    BY DEF IInv, TypeOK
  <1>2. Entered(c, s) /\ (Careful => Clean(c))
    BY <1>1 DEF InCall
  <1>3. SameBut(c, d) /\ c.ref_count = d.ref_count
    BY <1>1, AssignIs
  <1>. QED  BY <1>1, <1>2, <1>3 DEF Begun, Entered, SameBut

(* The rest of SQLExecDirect() and SQLExecute().                           *)
LEMMA ExecStep ==
    ASSUME IInv, NEW s \in Stmts, Execute(s)
    PROVE  IInv'
  <1>1. PICK c : c = Assign(d, s)
    OBVIOUS
  <1>2. pc[s] \in {"exec", "execcursor"} /\ TypeOK
    BY DEF Execute, IInv
  <1>3. Begun(c, s) /\ InCall(d, pc[s], s) /\ d \in Connection /\ \A t \in Stmts \ {s} : pc[t] = "app"
    BY <1>1, <1>2, Begins
  <1>4. PICK res \in Results, how \in Hows :
           IF pc[s] = "exec" THEN Return(s, odbc_SQLExecute(c, s, res, how))
           ELSE \E named \in BOOLEAN : Return(s, odbc_cursor_execute(c, s, res, named, how))
    BY <1>1 DEF Execute
  <1>5. Entered(c, s) /\ Sound(c) /\ c.ref_count = d.ref_count
    BY <1>3 DEF Begun, Entered
  <1>6. CASE pc[s] = "exec"
    <2>1. PICK r : r = odbc_SQLExecute(c, s, res, how)
      OBVIOUS
    <2>2. c.is_prepared[s] => FreshFor(c, Dyns)
      <3>1. c.is_prepared[s] => Left(d, Dyns)
        BY <1>3, <1>6 DEF InCall, Begun
      <3>. QED  BY <1>3, <1>5, <3>1, FreshIsUnused
    <2>3. Sound(r) /\ Called(r, c) /\ (Clean(c) => Clean(r))
      BY <1>5, <2>1, <2>2, SQLExecuteIs
    <2>4. Quiet(r) /\ r.connected
      BY <1>3, <2>3 DEF Quiet, Begun, Called
    <2>5. Return(s, r)
      BY <1>4, <1>6, <2>1
    <2>. QED  BY <1>2, <1>3, <2>4, <2>5, Returns
  <1>7. CASE pc[s] = "execcursor"
    <2>1. PICK named \in BOOLEAN : Return(s, odbc_cursor_execute(c, s, res, named, how))
      BY <1>4, <1>7
    <2>2. PICK r : r = odbc_cursor_execute(c, s, res, named, how)
      OBVIOUS
    <2>3. Left(d, Cursors) /\ c.cursor[s] = None
      BY <1>3, <1>7 DEF InCall, Begun, SameHeld
    <2>4. FreshFor(c, Cursors)
      BY <1>3, <1>5, <2>3, FreshIsUnused
    <2>5. Sound(r) /\ Called(r, c) /\ (Clean(c) => Clean(r))
      BY <1>5, <2>2, <2>3, <2>4, CursorExecuteIs
    <2>6. Quiet(r) /\ r.connected
      BY <1>3, <2>5 DEF Quiet, Begun, Called
    <2>7. Return(s, r)
      BY <2>1, <2>2
    <2>. QED  BY <1>2, <1>3, <2>6, <2>7, Returns
  <1>. QED  BY <1>2, <1>6, <1>7

(* The rest of SQLFetch().                                                 *)
LEMMA FetchedStep ==
    ASSUME IInv, NEW s \in Stmts, Fetch(s)
    PROVE  IInv'
  <1>1. PICK c : c = Assign(d, s)
    OBVIOUS
  <1>2. pc[s] # "app" /\ TypeOK
    BY DEF Fetch, IInv
  <1>3. Begun(c, s) /\ \A t \in Stmts \ {s} : pc[t] = "app"
    BY <1>1, <1>2, Begins
  <1>4. PICK res \in Results : Return(s, odbc_SQLFetch(c, s, res))
    BY <1>1 DEF Fetch
  <1>5. PICK r : r = odbc_SQLFetch(c, s, res)
    OBVIOUS
  <1>6. Entered(c, s)
    BY <1>3 DEF Begun
  <1>7. Sound(r) /\ Called(r, c) /\ (Clean(c) => Clean(r))
    BY <1>5, <1>6, SQLFetchIs
  <1>8. Quiet(r) /\ r.connected
    BY <1>3, <1>7 DEF Quiet, Begun, Called
  <1>9. Return(s, r)
    BY <1>4, <1>5
  <1>. QED  BY <1>2, <1>3, <1>8, <1>9, Returns

(* The rest of SQLNumResultCols().                                         *)
LEMMA DescribeStep ==
    ASSUME IInv, NEW s \in Stmts, Describe(s)
    PROVE  IInv'
  <1>1. PICK c : c = Assign(d, s)
    OBVIOUS
  <1>2. pc[s] = "describe" /\ pc[s] # "app" /\ TypeOK
    BY DEF Describe, IInv
  <1>3. Begun(c, s) /\ InCall(d, pc[s], s) /\ d \in Connection /\ \A t \in Stmts \ {s} : pc[t] = "app"
    BY <1>1, <1>2, Begins
  <1>4. PICK res \in Results : Return(s, odbc_update_ird(c, s, res))
    BY <1>1 DEF Describe
  <1>5. PICK r : r = odbc_update_ird(c, s, res)
    OBVIOUS
  <1>6. Entered(c, s) /\ Sound(c) /\ c.ref_count = d.ref_count /\ (Careful => c.dyn[s] = None) /\ Left(d, Dyns)
    BY <1>2, <1>3 DEF Begun, Entered, InCall, SameHeld
  <1>7. FreshFor(c, Dyns)
    BY <1>3, <1>6, FreshIsUnused
  <1>8. Sound(r) /\ Called(r, c) /\ (Clean(c) /\ c.dyn[s] = None => Clean(r))
    BY <1>5, <1>6, <1>7, UpdateIrdIs
  <1>9. Quiet(r) /\ r.connected
    BY <1>3, <1>6, <1>8 DEF Quiet, Begun, Called
  <1>10. Return(s, r)
    BY <1>4, <1>5
  <1>. QED  BY <1>2, <1>3, <1>9, <1>10, Returns

-----------------------------------------------------------------------------
(* The calls that are one step.                                            *)

(* A call begins between two calls.                                        *)
LEMMA CallableIs ==
    ASSUME IInv, ~Threads, NEW s \in Stmts, Callable(s)
    PROVE  /\ TypeOK /\ Quiet(d) /\ Sound(d) /\ d \in Connection /\ d.connected /\ s \in d.alive
           /\ \A t \in Stmts \ {s} : pc[t] = "app"
  BY DEF IInv, TypeOK, Callable, Alone, Quiet

(* SQLMoreResults() reads what is left of the answer.                      *)
LEMMA MoreResultsStep ==
    ASSUME IInv, ~Threads, NEW s \in Stmts, SQLMoreResults(s)
    PROVE  IInv'
  <1>1. Callable(s)
    BY DEF SQLMoreResults
  <1>2. /\ TypeOK /\ Quiet(d) /\ Sound(d) /\ d \in Connection /\ d.connected /\ s \in d.alive
        /\ \A t \in Stmts \ {s} : pc[t] = "app"
    BY <1>1, CallableIs
  <1>3. PICK how \in Hows : Return(s, Reads(d, s, how))
    BY DEF SQLMoreResults
  <1>4. PICK r : r = Reads(d, s, how)
    OBVIOUS
  <1>5. Sound(r) /\ SameForAll(r, d) /\ (Safe(d) => Safe(r))
    BY <1>2, <1>4, ReadsIs
  <1>6. Called(r, d) /\ (Safe(r) /\ Clean(d) => Clean(r))
    BY <1>5, CleanFrame
  <1>7. Quiet(r) /\ r.connected
    BY <1>2, <1>5, <1>6 DEF Quiet, Called, Clean
  <1>8. Return(s, r)
    BY <1>3, <1>4
  <1>. QED  BY <1>2, <1>7, <1>8, Returns

(* The prepared statement that the statement had is closed first.          *)
LEMMA PrepareStep ==
    ASSUME IInv, ~Threads, NEW s \in Stmts, SQLPrepare(s)
    PROVE  IInv'
  <1>1. Callable(s) /\ (Careful => Rested(d, s))
    BY DEF SQLPrepare, Rested
  <1>2. /\ TypeOK /\ Quiet(d) /\ Sound(d) /\ d \in Connection /\ d.connected /\ s \in d.alive
        /\ \A t \in Stmts \ {s} : pc[t] = "app"
    BY <1>1, CallableIs
  <1>3. PICK res \in Results, forward \in BOOLEAN :
           Return(s, [odbc_free_dynamic(d, s, res) EXCEPT !.is_prepared[s] = TRUE, !.need_reprepare[s] = forward])
    BY DEF SQLPrepare
  <1>4. PICK e : e = odbc_free_dynamic(d, s, res)
    OBVIOUS
  <1>5. PICK r : r = Flagged(e, s, TRUE, forward)
    OBVIOUS
  <1>6. Return(s, r)
    BY <1>3, <1>4, <1>5, Zenon DEF Flagged
  <1>7. Sound(e) /\ DynFreed(e, d, s) /\ (Safe(d) /\ Rested(d, s) => Safe(e))
    BY <1>2, <1>4, FreeDynamicIs
  <1>8. e \in Connection
    BY <1>7, SoundParts
  <1>9. FlaggedIs(r, e, s, TRUE, forward)
    BY <1>5, <1>8, FlagIs
  <1>10. Sound(r) /\ (Safe(e) => Safe(r))
    BY <1>7, <1>9, CoreFrame DEF FlaggedIs
  <1>11. Clean(d) => Bound(r) /\ r.fault = "none"
    <2>1. /\ r.dyn = e.dyn /\ r.mars = e.mars /\ r.fault = e.fault
          /\ \A t \in Stmts \ {s} : r.need_reprepare[t] = e.need_reprepare[t]
      BY <1>9 DEF FlaggedIs, SameCore, SameHeld
    <2>2. /\ e.dyn[s] = None /\ e.mars = d.mars /\ e.fault = d.fault
          /\ \A t \in Stmts \ {s} : e.dyn[t] = d.dyn[t] /\ e.need_reprepare[t] = d.need_reprepare[t]
      BY <1>7 DEF DynFreed, SameProgram
    <2>. QED  BY <2>1, <2>2 DEF Clean, Bound
  <1>12. Quiet(r)
    BY <1>1, <1>2, <1>7, <1>10, <1>11 DEF Quiet, Clean
  <1>13. r.connected
    BY <1>2, <1>7, <1>9 DEF FlaggedIs, SameCore, DynFreed, SameProgram
  <1>. QED  BY <1>2, <1>6, <1>12, <1>13, Returns

(* SQLBindParameter() asks for the statement to be prepared again.         *)
LEMMA BindParameterStep ==
    ASSUME IInv, ~Threads, NEW s \in Stmts, SQLBindParameter(s)
    PROVE  IInv'
  <1>1. Callable(s) /\ (Careful => ~d.mars)
    BY DEF SQLBindParameter
  <1>2. /\ TypeOK /\ Quiet(d) /\ Sound(d) /\ d \in Connection /\ d.connected /\ s \in d.alive
        /\ \A t \in Stmts \ {s} : pc[t] = "app"
    BY <1>1, CallableIs
  <1>3. PICK r : r = Reprepare(d, s, TRUE)
    OBVIOUS
  <1>4. Return(s, r)
    BY <1>3 DEF SQLBindParameter, Reprepare
  <1>5. ReprepareIs(r, d, s, TRUE)
    BY <1>2, <1>3, Reprepared
  <1>6. Sound(r) /\ (Safe(d) => Safe(r))
    BY <1>2, <1>5, CoreFrame DEF ReprepareIs
  <1>7. r.mars = d.mars /\ r.fault = d.fault /\ r.connected
    BY <1>2, <1>5 DEF ReprepareIs, SameCore
  <1>8. Quiet(r)
    BY <1>1, <1>2, <1>6, <1>7 DEF Quiet, Clean, Bound
  <1>. QED  BY <1>2, <1>4, <1>7, <1>8, Returns

(* SQL_CLOSE cancels the answer and closes the cursor.                     *)
LEMMA CloseStep ==
    ASSUME IInv, ~Threads, NEW s \in Stmts, SQLFreeStmt_CLOSE(s)
    PROVE  IInv'
  <1>1. Callable(s)
    BY DEF SQLFreeStmt_CLOSE
  <1>2. /\ TypeOK /\ Quiet(d) /\ Sound(d) /\ d \in Connection /\ d.connected /\ s \in d.alive
        /\ \A t \in Stmts \ {s} : pc[t] = "app"
    BY <1>1, CallableIs
  <1>3. PICK how \in {"ok", "dead"}, res \in Results : Return(s, CloseStmt(d, s, how, res))
    BY DEF SQLFreeStmt_CLOSE
  <1>4. PICK r : r = CloseStmt(d, s, how, res)
    OBVIOUS
  <1>5. Sound(r) /\ SameProgram(r, d) /\ r.dyn = d.dyn /\ (Safe(d) => Safe(r))
    BY <1>2, <1>4, CloseStmtIs
  <1>6. Quiet(r) /\ r.connected
    BY <1>2, <1>5 DEF Quiet, Clean, Bound, SameProgram
  <1>7. Return(s, r)
    BY <1>3, <1>4
  <1>. QED  BY <1>2, <1>6, <1>7, Returns

(* SQL_DROP: the statement has no session once odbc_unlock_statement()     *)
(* found its answer read.                                                  *)
LEMMA DropStep ==
    ASSUME IInv, ~Threads, NEW s \in Stmts, SQLFreeStmt_DROP(s)
    PROVE  IInv'
  <1>1. Callable(s)
    BY DEF SQLFreeStmt_DROP
  <1>2. /\ TypeOK /\ Quiet(d) /\ Sound(d) /\ d \in Connection /\ d.connected /\ s \in d.alive
        /\ \A t \in Stmts \ {s} : pc[t] = "app"
    BY <1>1, CallableIs
  <1>3. PICK how \in {"ok", "dead"}, res \in Results, res2 \in Results :
           LET c == odbc_unlock_statement(odbc_free_dynamic(CloseStmt(d, s, how, res), s, res2), s)
           IN  Return(s, [c EXCEPT !.alive = @ \ {s}, !.tds[s] = None,
                                   !.is_prepared[s] = FALSE, !.need_reprepare[s] = FALSE])
    BY DEF SQLFreeStmt_DROP
  <1>4. PICK c : c = CloseStmt(d, s, how, res)
    OBVIOUS
  <1>5. PICK f : f = odbc_free_dynamic(c, s, res2)
    OBVIOUS
  <1>6. PICK u : u = odbc_unlock_statement(f, s)
    OBVIOUS
  <1>7. PICK r : r = Drop(u, s)
    OBVIOUS
  <1>8. Return(s, r)
    BY <1>3, <1>4, <1>5, <1>6, <1>7, Zenon DEF Drop
  <1>9. Sound(c) /\ SameProgram(c, d) /\ c.dyn = d.dyn /\ Rested(c, s) /\ c.cursor[s] = None /\ (Safe(d) => Safe(c))
    BY <1>2, <1>4, CloseStmtIs
  <1>10. s \in c.alive /\ c.connected
    BY <1>2, <1>9 DEF SameProgram
  <1>11. Sound(f) /\ DynFreed(f, c, s) /\ (Safe(c) /\ Rested(c, s) => Safe(f))
    BY <1>5, <1>9, <1>10, FreeDynamicIs
  <1>12. /\ SameProgram(f, c) /\ f.cursor = c.cursor /\ f.dyn[s] = None /\ Rested(f, s)
         /\ \A t \in Stmts \ {s} : f.dyn[t] = c.dyn[t]
    BY <1>9, <1>11 DEF DynFreed
  <1>13. Sound(u) /\ AfterUnlock(u, f, s)
    BY <1>6, <1>11, GoodUnlock
  <1>14. u.tds[s] = None
    <2>1. f.tds[s] \in Sids \cup {None} /\ (f.tds[s] # None => f.state[f.tds[s]] # "free")
      BY <1>11, SoundParts DEF Connection, Owned
    <2>2. f.tds[s] # None => f.state[f.tds[s]] \in {"free", "IDLE", "PENDING", "DEAD"}
      BY <1>11, <2>1, SoundParts DEF Connection
    <2>3. f.tds[s] # None => f.state[f.tds[s]] \in {"IDLE", "DEAD"}
      BY <1>12, <2>1, <2>2 DEF Rested
    <2>. QED  BY <1>13, <2>3 DEF AfterUnlock
  <1>15. SameBut(u, f) /\ SameAnswers(u, f)
    BY <1>13, HeldUnlock
  <1>16. Safe(f) => Safe(u)
    BY <1>15, HeldFrame, KeptFrame DEF Safe
  <1>17. /\ u.connected = f.connected /\ u.mars = f.mars /\ u.fault = f.fault
         /\ u.dyn = f.dyn /\ u.cursor = f.cursor /\ u.need_reprepare = f.need_reprepare
    BY <1>15 DEF SameBut, SameHeld
  <1>18. Clean(d) => Clean(u)
    <2>1. Clean(d) => Safe(u)
      BY <1>9, <1>11, <1>16 DEF Clean
    <2>2. /\ u.mars = d.mars /\ u.fault = d.fault /\ u.need_reprepare = d.need_reprepare
          /\ u.dyn[s] = None /\ \A t \in Stmts \ {s} : u.dyn[t] = d.dyn[t]
      BY <1>9, <1>12, <1>17 DEF SameProgram
    <2>. QED  BY <2>1, <2>2 DEF Clean, Bound
  <1>19. Sound(r) /\ r.connected = u.connected /\ (Clean(u) => Clean(r))
    BY <1>7, <1>9, <1>12, <1>13, <1>14, <1>17, DropIs
  <1>20. Quiet(r) /\ r.connected
    BY <1>2, <1>10, <1>12, <1>17, <1>18, <1>19 DEF Quiet, SameProgram
  <1>. QED  BY <1>2, <1>8, <1>20, Returns

-----------------------------------------------------------------------------
(* The steps between calls.                                                *)

(* A new statement holds nothing and has no session.                       *)
Alloc(c, s) == [c EXCEPT !.alive = @ \cup {s}]

(* Making one changes nothing for the others.                              *)
LEMMA AllocIs ==
    ASSUME NEW c, Sound(c), NEW s \in Stmts, NEW r, r = Alloc(c, s)
    PROVE  Sound(r) /\ r.connected = c.connected /\ (Clean(c) => Clean(r))
  <1>1. c \in Connection
    BY SoundParts
  <1>2. r \in Connection /\ r.alive = c.alive \cup {s}
    BY <1>1 DEF Connection, Alloc
  <1>3. /\ r.connected = c.connected /\ r.mars = c.mars /\ r.fault = c.fault /\ r.need_reprepare = c.need_reprepare
        /\ r.current = c.current /\ r.tds = c.tds /\ SameStates(r, c) /\ SameServed(r, c) /\ SameHeld(r, c)
        /\ SameLists(r, c) /\ SameCloses(r, c) /\ r.known = c.known /\ r.ref_count = c.ref_count
    BY <1>1 DEF Connection, Alloc, SameStates, SameServed, SameHeld, SameLists, SameCloses
  <1>4. Counted(r)
    BY <1>3, SoundParts, SameCounts
  <1>5. Owned(r) /\ AllLost(r) /\ Asked(r, {})
    BY <1>2, <1>3, SoundParts DEF Owned, AllLost, Lost, Asked, SameStates
  <1>6. NothingLeft(r) /\ Named(r)
    BY <1>2, <1>3 DEF Sound, Good, NothingLeft, Named, SameStates, SameServed, SameHeld
  <1>7. Sound(r)
    BY <1>2, <1>4, <1>5, <1>6 DEF Sound, Good
  <1>8. Held(c, None, {}) => Held(r, None, {})
    BY <1>3 DEF Held, Listed, Lost, SameStates, SameServed, SameHeld, SameLists, SameCloses
  <1>9. Kept(c) => Kept(r)
    BY <1>3 DEF Kept, Users, SameStates, SameHeld, SameCloses
  <1>. QED  BY <1>3, <1>7, <1>8, <1>9 DEF Clean, Safe, Bound, SameHeld

(* SQLAllocStmt().                                                         *)
LEMMA AllocStep ==
    ASSUME IInv, ~Threads, NEW s \in Stmts, SQLAllocStmt(s)
    PROVE  IInv'
  <1>1. d' = Alloc(d, s) /\ UNCHANGED pc /\ Alone /\ d.connected
    BY DEF SQLAllocStmt, Alloc
  <1>2. Quiet(d)
    BY <1>1 DEF IInv
  <1>3. Quiet(d') /\ d'.connected
    BY <1>1, <1>2, AllocIs DEF Quiet
  <1>4. d' \in Connection
    BY <1>3, SoundParts DEF Quiet
  <1>. QED  BY <1>1, <1>3, <1>4 DEF IInv, TypeOK, Alone

(* SQLEndTran().                                                           *)
LEMMA TransactionStep ==
    ASSUME IInv, change_transaction
    PROVE  IInv'
  <1>1. d.connected /\ Alone /\ UNCHANGED pc
    BY DEF change_transaction
  <1>2. Quiet(d)
    BY <1>1 DEF IInv
  <1>3. PICK r \in Results, res \in Results : d' = EndTran(d, r, res)
    BY DEF change_transaction, EndTran, LetGo
  <1>4. Sound(d') /\ SameForAll(d', d) /\ (Safe(d) => Safe(d'))
    BY <1>1, <1>2, <1>3, EndTranIs DEF Quiet
  <1>5. Called(d', d) /\ (Safe(d') /\ Clean(d) => Clean(d'))
    BY <1>4, CleanFrame
  <1>6. Quiet(d') /\ d'.connected
    BY <1>1, <1>2, <1>4, <1>5 DEF Quiet, Called, Clean
  <1>7. d' \in Connection
    BY <1>4, SoundParts
  <1>. QED  BY <1>1, <1>6, <1>7 DEF IInv, TypeOK, Alone

(* SQLDisconnect().                                                        *)
LEMMA DisconnectStep ==
    ASSUME IInv, SQLDisconnect
    PROVE  IInv'
  <1>1. Alone /\ d.alive = {} /\ UNCHANGED pc
    BY DEF SQLDisconnect
  <1>2. d' = Disconnect(d)
    BY Zenon DEF SQLDisconnect, Disconnect
  <1>3. Quiet(d)
    BY <1>1 DEF IInv
  <1>4. Sound(d') /\ Freed(d') /\ (Clean(d) => Clean(d'))
    BY <1>1, <1>2, <1>3, DisconnectIs DEF Quiet
  <1>5. Quiet(d') /\ d' \in Connection
    BY <1>3, <1>4, SoundParts DEF Quiet
  <1>. QED  BY <1>1, <1>4, <1>5 DEF IInv, TypeOK, Alone

-----------------------------------------------------------------------------
(* The theorems.                                                           *)

(* A connection without statements holds nothing.                          *)
LEMMA Initially ==
    ASSUME Init
    PROVE  IInv
  <1>1. PICK mars \in BOOLEAN :
          d = [connected |-> TRUE, mars |-> mars, current |-> None, alive |-> {},
               tds |-> All(Stmts, None), got |-> All(Stmts, None),
               dyn |-> All(Stmts, None), cursor |-> All(Stmts, None),
               is_prepared |-> All(Stmts, FALSE), need_reprepare |-> All(Stmts, FALSE),
               state |-> [x \in Sids |-> IF x = 0 THEN "IDLE" ELSE "free"],
               current_op |-> All(Sids, "none"),
               cur_dyn |-> All(Sids, None), cur_cursor |-> All(Sids, None),
               dyns |-> <<>>, cursors |-> <<>>, ref_count |-> All(Handles, 0),
               known |-> {}, defer_close |-> {}, pending_close |-> FALSE,
               server |-> {}, asker |-> All(Sids, None), fault |-> "none"]
    BY DEF Init
  <1>2. pc \in [Stmts -> Calls \cup {"app"}] /\ \A s \in Stmts : pc[s] = "app"
    BY DEF Init, All
  <1>3. d \in Connection
    <2>1. All(Stmts, None) \in [Stmts -> Sids \cup {None}]
      BY DEF All
    <2>2. All(Stmts, None) \in [Stmts -> Dyns \cup {None}] /\ All(Stmts, None) \in [Stmts -> Cursors \cup {None}]
      BY DEF All
    <2>3. All(Stmts, FALSE) \in [Stmts -> BOOLEAN]
      BY DEF All
    <2>4. [x \in Sids |-> IF x = 0 THEN "IDLE" ELSE "free"] \in [Sids -> {"free", "IDLE", "PENDING", "DEAD"}]
      OBVIOUS
    <2>5. All(Sids, "none") \in [Sids -> Ops]
      BY DEF All, Ops
    <2>6. /\ All(Sids, None) \in [Sids -> Dyns \cup {None}] /\ All(Sids, None) \in [Sids -> Cursors \cup {None}]
          /\ All(Sids, None) \in [Sids -> Stmts \cup {None}]
      BY DEF All
    <2>7. All(Handles, 0) \in [Handles -> Nat]
      BY DEF All
    <2>8. <<>> \in Seq(Dyns) /\ <<>> \in Seq(Cursors)
      OBVIOUS
    <2>. QED  BY <1>1, <2>1, <2>2, <2>3, <2>4, <2>5, <2>6, <2>7, <2>8 DEF Connection
  <1>4. /\ \A s \in Stmts : d.tds[s] = None /\ d.dyn[s] = None /\ d.cursor[s] = None /\ ~d.need_reprepare[s]
        /\ \A x \in Sids : d.cur_dyn[x] = None /\ d.cur_cursor[x] = None
        /\ \A h \in Handles : d.ref_count[h] = 0
    BY <1>1 DEF All
  <1>5. /\ d.connected /\ d.current = None /\ d.alive = {} /\ d.dyns = <<>> /\ d.cursors = <<>>
        /\ d.server = {} /\ d.fault = "none"
    BY <1>1
  <1>6. \A x \in Sids : d.state[x] = IF x = 0 THEN "IDLE" ELSE "free"
    BY <1>1
  <1>7. Owned(d)
    BY <1>4, <1>5, <1>6, HandleKinds DEF Owned
  <1>8. AllLost(d) /\ Asked(d, {}) /\ NothingLeft(d) /\ Named(d) /\ ~Lost(d)
    BY <1>4, <1>6 DEF AllLost, Lost, Asked, NothingLeft, Named
  <1>9. Counted(d)
    <2>1. \A h \in Handles : Unused(d, h)
      BY <1>4, <1>5, HandleKinds DEF Unused, Contains
    <2>2. ASSUME NEW h \in Handles PROVE Count(d, h) = 0
      <3>1. Users(d, h) = {} /\ Served(d, h) = {} /\ ~Listed(d, h)
        BY <2>1 DEF Unused, Users, Served, Listed
      <3>2. Cardinality(Users(d, h)) = 0 /\ Cardinality(Served(d, h)) = 0
        BY <3>1, FS_EmptySet
      <3>. QED  BY <3>1, <3>2 DEF Count
    <2>3. Distinct(d.dyns) /\ Distinct(d.cursors)
      BY <1>5 DEF Distinct
    <2>. QED  BY <1>4, <2>2, <2>3 DEF Counted
  <1>10. Sound(d)
    BY <1>3, <1>7, <1>8, <1>9 DEF Sound, Good
  <1>11. Clean(d)
    BY <1>4, <1>5, <1>6, <1>8 DEF Clean, Safe, Held, Kept, Bound
  <1>. QED  BY <1>2, <1>3, <1>5, <1>10, <1>11 DEF IInv, TypeOK, Quiet

(* Every step keeps the invariant.                                         *)
LEMMA Steps ==
    ASSUME IInv, ~Threads, [Next]_vars
    PROVE  IInv'
  <1>1. ASSUME NEW s \in Stmts,
               \/ SQLAllocStmt(s)
               \/ \E cursor \in BOOLEAN : SQLExecDirect(s, cursor) \/ SQLExecute(s, cursor)
               \/ SQLFetch(s) \/ SQLNumResultCols(s)
               \/ Execute(s) \/ Fetch(s) \/ Describe(s)
               \/ SQLMoreResults(s) \/ SQLPrepare(s) \/ SQLBindParameter(s)
               \/ SQLFreeStmt_CLOSE(s) \/ SQLFreeStmt_DROP(s)
        PROVE  IInv'
    <2>1. CASE SQLAllocStmt(s)
      BY <2>1, AllocStep
    <2>2. CASE \E cursor \in BOOLEAN : SQLExecDirect(s, cursor) \/ SQLExecute(s, cursor)
      BY <2>2, ExecDirectStep, ExecuteStep
    <2>3. CASE SQLFetch(s) \/ SQLNumResultCols(s)
      BY <2>3, FetchStep, NumResultColsStep
    <2>4. CASE Execute(s) \/ Fetch(s) \/ Describe(s)
      BY <2>4, ExecStep, FetchedStep, DescribeStep
    <2>5. CASE SQLMoreResults(s) \/ SQLPrepare(s) \/ SQLBindParameter(s)
      BY <2>5, MoreResultsStep, PrepareStep, BindParameterStep
    <2>6. CASE SQLFreeStmt_CLOSE(s) \/ SQLFreeStmt_DROP(s)
      BY <2>6, CloseStep, DropStep
    <2>. QED  BY <1>1, <2>1, <2>2, <2>3, <2>4, <2>5, <2>6
  <1>2. CASE change_transaction
    BY <1>2, TransactionStep
  <1>3. CASE SQLDisconnect
    BY <1>3, DisconnectStep
  <1>4. CASE UNCHANGED vars
    BY <1>4 DEF vars, IInv, TypeOK, Alone
  <1>. QED  BY <1>1, <1>2, <1>3, <1>4 DEF Next

(* The invariant holds of every program that uses one thread.              *)
THEOREM Invariance == ASSUME ~Threads PROVE Spec => []IInv
  <1>1. Init => IInv
    BY Initially
  <1>2. IInv /\ [Next]_vars => IInv'
    BY Steps
  <1>. QED  BY <1>1, <1>2, PTL DEF Spec

(* At every moment the connection differs from a sound value at most in    *)
(* the session that a call is about to assign.                             *)
LEMMA SoundBehind ==
    ASSUME IInv
    PROVE  \E c : /\ Sound(c) /\ (Careful => Clean(c))
                  /\ SameBut(c, d) /\ SameServed(c, d) /\ c.ref_count = d.ref_count /\ c.state = d.state
  <1>1. CASE Alone
    BY <1>1 DEF IInv, Quiet, SameBut, SameHeld, SameLists, SameCloses, SameServed
  <1>2. CASE ~Alone
    <2>1. PICK s \in Stmts : pc[s] # "app"
      BY <1>2 DEF Alone
    <2>2. PICK c : c = Assign(d, s)
      OBVIOUS
    <2>3. Begun(c, s) /\ d \in Connection
      BY <2>1, <2>2, Begins
    <2>4. SameBut(c, d) /\ SameServed(c, d) /\ c.ref_count = d.ref_count /\ c.state = d.state
      BY <2>2, <2>3, AssignIs
    <2>. QED  BY <2>3, <2>4 DEF Begun, Entered
  <1>. QED  BY <1>1, <1>2

(* The state of the connection and of its statements has its type: no      *)
(* counter goes below 0.                                                   *)
THEOREM TypeCorrect == ASSUME ~Threads PROVE Spec => []TypeOK
  <1>1. IInv => TypeOK
    BY DEF IInv
  <1>. QED  BY <1>1, Invariance, PTL

(* A handle is freed exactly when the last of the statement, the sessions  *)
(* and the list lets go of it, and nothing is left after SQLDisconnect().  *)
THEOREM RefCounts == ASSUME ~Threads PROVE Spec => []RefCountsMatch
  <1>1. ASSUME IInv PROVE RefCountsMatch
    <2>1. PICK c : /\ Sound(c) /\ SameBut(c, d) /\ SameServed(c, d) /\ c.ref_count = d.ref_count
      BY <1>1, SoundBehind
    <2>2. Counted(c) /\ SameHeld(d, c) /\ SameServed(d, c) /\ SameLists(d, c)
      BY <2>1, SoundParts DEF SameBut, SameHeld, SameServed, SameLists
    <2>3. Counted(d)
      BY <2>1, <2>2, SameCounts
    <2>4. ~d.connected => Freed(d)
      BY <1>1 DEF IInv
    <2>. QED  BY <2>3, <2>4 DEF RefCountsMatch, Counted, Count, Freed
  <1>. QED  BY <1>1, Invariance, PTL

(* No call works on a freed session, the assertions of                     *)
(* odbc_unlock_statement() hold, and every session and every answer has    *)
(* its one statement.                                                      *)
THEOREM Owners == ASSUME ~Threads, Careful PROVE Spec => []AnswersHaveTheirOwner
  <1>1. ASSUME IInv PROVE AnswersHaveTheirOwner
    <2>1. d.fault = "none"
      <3>1. PICK c : Clean(c) /\ SameBut(c, d)
        BY <1>1, SoundBehind
      <3>. QED  BY <3>1 DEF Clean, SameBut
    <2>2. ASSUME Alone
          PROVE  /\ \A s \in Stmts : d.tds[s] # None =>
                       /\ s \in d.alive /\ d.state[d.tds[s]] # "free"
                       /\ \A t \in Stmts \ {s} : d.tds[t] # d.tds[s]
                       /\ d.tds[s] = 0 <=> d.current = s
                 /\ \A x \in Sids : d.state[x] = "PENDING" => d.tds[d.asker[x]] = x
      <3>1. Sound(d)
        BY <1>1, <2>2 DEF IInv, Quiet
      <3>2. Owned(d) /\ Asked(d, {})
        BY <3>1, SoundParts
      <3>. QED  BY <3>2 DEF Owned, Asked
    <2>. QED  BY <2>1, <2>2 DEF AnswersHaveTheirOwner
  <1>. QED  BY <1>1, Invariance, PTL

(* What was prepared or opened at the server is held by a statement, or    *)
(* waits in the list for the end of an answer that some session has still  *)
(* to read.                                                                *)
THEOREM NothingForgotten == ASSUME ~Threads, Careful PROVE Spec => []NoForgottenClose
  <1>1. ASSUME IInv PROVE NoForgottenClose
    <2>1. PICK c : Clean(c) /\ SameBut(c, d) /\ c.state = d.state
      BY <1>1, SoundBehind
    <2>2. Held(c, None, {}) /\ Kept(c)
      BY <2>1 DEF Clean, Safe
    <2>3. c.dyn = d.dyn /\ c.cursor = d.cursor /\ SameLists(c, d) /\ SameCloses(c, d)
      BY <2>1 DEF SameBut, SameHeld
    <2>4. \A h : (Users(c, h) = Users(d, h)) /\ (Listed(c, h) <=> Listed(d, h))
      BY <2>3 DEF Users, Listed, SameLists
    <2>5. \A h \in c.server : Listed(c, h)
      BY <2>2 DEF Held
    <2>. QED  BY <2>1, <2>2, <2>3, <2>4, <2>5 DEF NoForgottenClose, Kept, SameCloses
  <1>. QED  BY <1>1, Invariance, PTL
=============================================================================
