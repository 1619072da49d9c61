---------------------------- MODULE TdsPool_proof ----------------------------
(***************************************************************************)
(* Proofs about TdsPool, for every number of users, members and versions,  *)
(* every setting of the limits and any number of threads and events.       *)
(*                                                                         *)
(* The handlers work on lists that are for a moment not those of the pool: *)
(* an event has left the batch, a waiter has left its list.  So the parts  *)
(* of the inductive invariant that the handlers depend on take the users,  *)
(* the waiters and the pending jobs as parameters (us, ws, P).             *)
(***************************************************************************)
EXTENDS TdsPool, FiniteSetTheorems, TLAPS

----------------------------------------------------------------------------
(* The inductive invariant.                                                *)

Distinct(q) == \A i, j \in DOMAIN q : q[i] = q[j] => i = j

(* The users list, the waiters list and num_users fit together.            *)
UserLists(us, ws, n) ==
    /\ us \subseteq Users /\ ws \in Seq(Users) /\ n \in Nat
    /\ us \cap Range(ws) = {} /\ Distinct(ws) /\ Len(ws) = Cardinality(Range(ws))
    /\ n = Cardinality(us) + Len(ws)
    /\ n <= MaxUsers

(* The members lists and num_active_members fit together.                  *)
MemberLists(i, a, n) ==
    /\ i \subseteq Members /\ a \subseteq Members /\ n \in Nat
    /\ i \cap a = {}
    /\ n = Cardinality(i \cup a)
    /\ n <= MaxOpen

(* Users and members that serve them point at each other.                  *)
Pairs(us) ==
    /\ \A m \in Members : m \in active <=> current[m] # NULL
    /\ \A m \in active : current[m] \in us /\ assigned[current[m]] = m
    /\ \A u \in Users : assigned[u] # NULL =>
           assigned[u] \in active /\ current[assigned[u]] = u

(* The other variables of the pool have their types.                       *)
FieldTypes ==
    /\ assigned \in [Users -> Members \cup {NULL}]
    /\ current \in [Members -> Users \cup {NULL}]
    /\ version \in [Socks -> Versions \cup {NULL}]
    /\ login \subseteq Users /\ async \subseteq Members /\ dirty \subseteq Members
    /\ sock \subseteq Socks /\ recv \subseteq Socks /\ send \subseteq Socks
    /\ unsent \subseteq Socks

(* Who has no partner is not polled for data, and holds none back; such a  *)
(* member is neither being opened nor used since its last reset.  A member *)
(* that is being opened is not polled, nor is its user.                    *)
OutsidersAreQuiet ==
    /\ \A u \in Users : assigned[u] = NULL => u \notin recv \cup send \cup unsent
    /\ \A m \in Members \ active : m \notin send \cup unsent \cup async \cup dirty
    /\ \A m \in async : {m, current[m]} \cap (recv \cup send) = {}

(* The jobs P own their users and members, and these hold no data back.    *)
JobsOwn(P, us) ==
    /\ P \subseteq Jobs
    /\ \A j \in P :
        /\ j.u \in us /\ assigned[j.u] = j.m
        /\ j.u \notin recv \cup send \cup unsent
        /\ j.m \notin recv \cup send \cup unsent
        /\ j.kind = "connect" <=> j.m \in async
    /\ \A j, k \in P : j.u = k.u => j = k

(* NoDirectionGoesDeaf for one user.                                       *)
Hears(u) ==
    LET m == assigned[u]
    IN  /\ u \in recv <=> u \notin unsent
        /\ m \in recv <=> m \notin unsent
        /\ m \in send <=> u \in unsent
        /\ u \in send <=> m \in unsent

SessionsHear(P, us) ==
    \A u \in us : assigned[u] # NULL /\ (\A j \in P : j.u # u) => Hears(u)

(* All of it.                                                              *)
Pool(P, us, ws) ==
    /\ UserLists(us, ws, numUsers) /\ MemberLists(idle, active, numActive)
    /\ FieldTypes /\ Pairs(us) /\ OutsidersAreQuiet /\ SessionsHear(P, us)

(* The jobs of a queue of events.                                          *)
EventJobs(q) == {q[i].job : i \in DOMAIN q}
DistinctJobs(q) == \A i, j \in DOMAIN q : q[i].job = q[j].job => i = j

(* No job is pending twice.                                                *)
JobsAreDistinct ==
    /\ DistinctJobs(events) /\ DistinctJobs(batch)
    /\ threads \cap EventJobs(events) = {}
    /\ threads \cap EventJobs(batch) = {}
    /\ EventJobs(events) \cap EventJobs(batch) = {}

Events == [job : Jobs, ok : BOOLEAN]

LoopTypes ==
    /\ threads \subseteq Jobs /\ posted \in Nat
    /\ events \in Seq(Events) /\ batch \in Seq(Events)
    /\ wake \in BOOLEAN /\ timer \in BOOLEAN /\ fault \in BOOLEAN
    /\ pc \in {"poll", "detach", "events", "accept", "users", "members", "schedule", "stopped"}

(* A batch is there exactly while its events are executed.                 *)
BatchFollowsPc == batch # <<>> <=> pc = "events"

IInv ==
    /\ LoopTypes /\ JobsAreDistinct /\ BatchFollowsPc
    /\ Pool(PendingJobs, users, waiters)
    /\ Running => JobsOwn(PendingJobs, users)

----------------------------------------------------------------------------
(* Counting.                                                               *)

(* The lists of users and of members are finite.                           *)
LEMMA FiniteParts ==
    /\ \A S \in SUBSET Users : IsFiniteSet(S) /\ Cardinality(S) \in Nat
    /\ \A S \in SUBSET Members : IsFiniteSet(S) /\ Cardinality(S) \in Nat
  BY FiniteAssumption, FS_Subset, FS_CardinalityType

(* The waiters are users, at places 1 to the length of their list.         *)
LEMMA RangeOfWaiters ==
    ASSUME NEW ws \in Seq(Users)
    PROVE  Range(ws) \subseteq Users /\ DOMAIN ws = 1 .. Len(ws) /\ Len(ws) \in Nat
  BY DEF Range

(* A user that finds no member goes to the end of the waiters list.        *)
LEMMA UserWaits ==
    ASSUME NEW us, NEW ws, NEW n, UserLists(us, ws, n), NEW u \in us
    PROVE  UserLists(us \ {u}, Append(ws, u), n)
  <1>. DEFINE w == Append(ws, u)
  <1>1. ws \in Seq(Users) /\ us \subseteq Users /\ u \in Users /\ Len(ws) \in Nat
        /\ n \in Nat /\ IsFiniteSet(us) /\ IsFiniteSet(Range(ws)) /\ u \notin Range(ws)
        /\ Cardinality(us) \in Nat /\ Cardinality(Range(ws)) \in Nat
    BY FiniteParts, RangeOfWaiters DEF UserLists
  <1>2. w \in Seq(Users) /\ Len(w) = Len(ws) + 1 /\ w[Len(ws) + 1] = u
        /\ \A i \in 1 .. Len(ws) : w[i] = ws[i]
    BY <1>1
  <1>3. Range(w) = Range(ws) \cup {u}
    BY <1>1, <1>2 DEF Range
  <1>4. Distinct(w)
    BY <1>1, <1>2 DEF Distinct, UserLists, Range
  <1>5. Cardinality(Range(ws) \cup {u}) = Cardinality(Range(ws)) + 1
    BY <1>1, FS_AddElement
  <1>6. Cardinality(us \ {u}) = Cardinality(us) - 1
    BY <1>1, FS_RemoveElement
  <1>. QED  BY <1>1, <1>2, <1>3, <1>4, <1>5, <1>6 DEF UserLists

(* pool_schedule_waiters() takes the first waiter back to the users list.  *)
LEMMA WaiterReturns ==
    ASSUME NEW us, NEW ws, NEW n, UserLists(us, ws, n), ws # <<>>
    PROVE  /\ UserLists(us \cup {Head(ws)}, Tail(ws), n)
           /\ Head(ws) \in Users \ us
  <1>. DEFINE u == Head(ws)  w == Tail(ws)
  <1>1. ws \in Seq(Users) /\ us \subseteq Users /\ u \in Users /\ Len(ws) \in Nat
        /\ n \in Nat /\ IsFiniteSet(us) /\ IsFiniteSet(Range(ws))
        /\ Cardinality(us) \in Nat /\ Cardinality(Range(ws)) \in Nat
    BY FiniteParts, RangeOfWaiters DEF UserLists
  <1>2. w \in Seq(Users) /\ Len(w) = Len(ws) - 1 /\ u = ws[1] /\ Len(ws) > 0
        /\ \A i \in 1 .. Len(w) : w[i] = ws[i + 1]
    BY <1>1
  <1>3. u \in Range(ws) /\ u \notin us
    BY <1>1, <1>2 DEF Range, UserLists
  <1>4. Distinct(w) /\ Range(w) = Range(ws) \ {u}
    <2>1. Distinct(w)
      BY <1>1, <1>2 DEF Distinct, UserLists
    <2>2. \A x \in Range(w) : x \in Range(ws) \ {u}
      BY <1>1, <1>2 DEF Distinct, UserLists, Range
    <2>3. ASSUME NEW x \in Range(ws) \ {u}
          PROVE  x \in Range(w)
      <3>1. PICK i \in 1 .. Len(ws) : x = ws[i]
        BY <1>1 DEF Range
      <3>2. i - 1 \in 1 .. Len(w) /\ w[i - 1] = x
        BY <1>1, <1>2, <3>1
      <3>3. DOMAIN w = 1 .. Len(w)
        BY <1>2
      <3>. QED  BY <3>2, <3>3 DEF Range
    <2>. QED  BY <2>1, <2>2, <2>3
  <1>5. Cardinality(Range(ws) \ {u}) = Cardinality(Range(ws)) - 1
    BY <1>1, <1>3, FS_RemoveElement
  <1>6. Cardinality(us \cup {u}) = Cardinality(us) + 1
    BY <1>1, <1>3, FS_AddElement
  <1>7. Len(ws) = Cardinality(Range(ws)) /\ n = Cardinality(us) + Len(ws) /\ n <= MaxUsers
        /\ us \cap Range(ws) = {}
    BY DEF UserLists
  <1>8. (us \cup {u}) \cap Range(w) = {}
    BY <1>4, <1>7
  <1>. HIDE DEF u, w
  <1>9. Len(w) = Cardinality(Range(w)) /\ n = Cardinality(us \cup {u}) + Len(w)
    BY <1>1, <1>2, <1>4, <1>5, <1>6, <1>7
  <1>10. us \cup {u} \subseteq Users
    BY <1>1
  <1>11. UserLists(us \cup {u}, w, n)
    BY <1>1, <1>2, <1>4, <1>7, <1>8, <1>9, <1>10 DEF UserLists
  <1>. QED  BY <1>1, <1>3, <1>11 DEF u, w

(* Users leave the pool.                                                   *)
LEMMA UsersLeave ==
    ASSUME NEW us, NEW ws, NEW n, UserLists(us, ws, n), NEW R \in SUBSET us
    PROVE  UserLists(us \ R, ws, n - Cardinality(R))
  <1>1. IsFiniteSet(us) /\ Cardinality(us) \in Nat /\ Cardinality(R) \in Nat /\ Len(ws) \in Nat
    BY FiniteParts DEF UserLists
  <1>2. Cardinality(us \ R) = Cardinality(us) - Cardinality(R) /\ Cardinality(R) <= Cardinality(us)
    <2>1. us \cap R = R
      OBVIOUS
    <2>. QED  BY <1>1, <2>1, FS_Difference, FS_Subset
  <1>. QED  BY <1>1, <1>2, LimitsAssumption DEF UserLists

(* A new user enters the pool.                                             *)
LEMMA UserEnters ==
    ASSUME NEW us, NEW ws, NEW n, UserLists(us, ws, n), n < MaxUsers,
           NEW u \in Users \ (us \cup Range(ws))
    PROVE  UserLists(us \cup {u}, ws, n + 1)
  <1>1. IsFiniteSet(us) /\ Cardinality(us) \in Nat /\ Len(ws) \in Nat
    BY FiniteParts DEF UserLists
  <1>2. Cardinality(us \cup {u}) = Cardinality(us) + 1
    BY <1>1, FS_AddElement
  <1>. QED  BY <1>1, <1>2, LimitsAssumption DEF UserLists

(* Members are closed.                                                     *)
LEMMA MembersLeave ==
    ASSUME NEW i, NEW a, NEW n, MemberLists(i, a, n), NEW R \in SUBSET (i \cup a)
    PROVE  Cardinality((i \cup a) \ R) = n - Cardinality(R) /\ n - Cardinality(R) \in Nat
           /\ n - Cardinality(R) <= MaxOpen
  <1>1. IsFiniteSet(i \cup a) /\ Cardinality(i \cup a) \in Nat /\ Cardinality(R) \in Nat
    BY FiniteParts DEF MemberLists
  <1>2. Cardinality((i \cup a) \ R) = Cardinality(i \cup a) - Cardinality(R)
        /\ Cardinality(R) <= Cardinality(i \cup a)
    <2>1. (i \cup a) \cap R = R
      OBVIOUS
    <2>. QED  BY <1>1, <2>1, FS_Difference, FS_Subset
  <1>. QED  BY <1>1, <1>2, LimitsAssumption DEF MemberLists

(* A member is opened.                                                     *)
LEMMA MemberEnters ==
    ASSUME NEW i, NEW a, NEW n, MemberLists(i, a, n), n < MaxOpen,
           NEW m \in Members \ (i \cup a)
    PROVE  MemberLists(i, a \cup {m}, n + 1)
  <1>1. IsFiniteSet(i \cup a) /\ Cardinality(i \cup a) \in Nat
    BY FiniteParts DEF MemberLists
  <1>2. Cardinality((i \cup a) \cup {m}) = Cardinality(i \cup a) + 1
    BY <1>1, FS_AddElement
  <1>3. i \cup (a \cup {m}) = (i \cup a) \cup {m}
    OBVIOUS
  <1>. QED  BY <1>1, <1>2, <1>3, LimitsAssumption DEF MemberLists

----------------------------------------------------------------------------
(* Release(): what pool_free_user(), pool_free_member() and                *)
(* pool_reset_member() come to.                                            *)

(* What they release is closed: a user with its member, a member with its  *)
(* user.                                                                   *)
Closed(us, back, freed) ==
    /\ us \subseteq users /\ back \subseteq active /\ freed \subseteq idle \cup active
    /\ back \cap freed = {} /\ back \cap async = {}
    /\ \A u \in us : assigned[u] # NULL => assigned[u] \in back \cup freed
    /\ \A m \in back \cup freed : current[m] # NULL => current[m] \in us

(* The lists, the pairs and the sessions of the others are kept.           *)
LEMMA ReleaseKeepsPool ==
    ASSUME NEW P, NEW us, NEW back, NEW freed,
           UserLists(users, waiters, numUsers), MemberLists(idle, active, numActive),
           FieldTypes, Pairs(users), OutsidersAreQuiet, SessionsHear(P, users \ us),
           Closed(us, back, freed), Release(us, back, freed)
    PROVE  Pool(P, users, waiters)'
  <1>1. UserLists(users, waiters, numUsers)'
    BY UsersLeave DEF Release, Closed
  <1>2. MemberLists(idle, active, numActive)'
    <2>1. idle' \cup active' = (idle \cup active) \ freed
      BY DEF Release, Closed, MemberLists
    <2>2. idle' \cap active' = {} /\ idle' \subseteq Members /\ active' \subseteq Members
      BY DEF Release, Closed, MemberLists
    <2>3. numActive' = numActive - Cardinality(freed)
      BY DEF Release
    <2>4. Cardinality((idle \cup active) \ freed) = numActive - Cardinality(freed)
          /\ numActive - Cardinality(freed) \in Nat /\ numActive - Cardinality(freed) <= MaxOpen
      BY MembersLeave DEF Closed
    <2>. QED  BY <2>1, <2>2, <2>3, <2>4 DEF MemberLists
  <1>3. FieldTypes'
    BY DEF Release, FieldTypes
  <1>. DEFINE gone == back \cup freed
  <1>4. Pairs(users)'
    <2>1. ASSUME NEW m \in Members
          PROVE  /\ m \in active' <=> current'[m] # NULL
                 /\ m \in active' => current'[m] \in users' /\ assigned'[current'[m]] = m
      <3>1. CASE m \in gone
        BY <3>1 DEF Release
      <3>2. CASE m \notin gone
        <4>1. (m \in active' <=> m \in active) /\ current'[m] = current[m]
          BY <3>2 DEF Release
        <4>2. m \in active => current[m] \notin us
          BY <3>2, NullAssumption DEF Closed, Pairs, FieldTypes
        <4>. QED  BY <4>1, <4>2 DEF Release, Pairs, FieldTypes, UserLists
      <3>. QED  BY <3>1, <3>2
    <2>2. ASSUME NEW u \in Users, assigned'[u] # NULL
          PROVE  assigned'[u] \in active' /\ current'[assigned'[u]] = u
      <3>1. u \notin us /\ assigned'[u] = assigned[u]
        BY <2>2 DEF Release
      <3>2. assigned[u] \in active /\ current[assigned[u]] = u /\ u # NULL
        BY <2>2, <3>1, NullAssumption DEF Pairs
      <3>3. assigned[u] \notin gone
        BY <3>1, <3>2 DEF Closed
      <3>. QED  BY <3>1, <3>2, <3>3 DEF Release, MemberLists
    <2>. QED  BY <1>2, <2>1, <2>2 DEF Pairs, MemberLists
  <1>5. OutsidersAreQuiet'
    <2>1. ASSUME NEW u \in Users, assigned'[u] = NULL
          PROVE  u \notin recv' \cup send' \cup unsent'
      BY <2>1 DEF OutsidersAreQuiet, Release, Silenced
    <2>2. ASSUME NEW m \in Members \ active'
          PROVE  m \notin send' \cup unsent' \cup async' \cup dirty'
      <3>1. CASE m \in gone
        BY <3>1 DEF Release, Silenced, Cleaned, Closed
      <3>2. CASE m \notin gone
        BY <3>2, <2>2 DEF Release, OutsidersAreQuiet
      <3>. QED  BY <3>1, <3>2
    <2>3. ASSUME NEW m \in async'
          PROVE  {m, current'[m]} \cap (recv' \cup send') = {}
      <3>1. m \in async \ gone /\ m \in Members
        BY <2>3 DEF Release, Closed, FieldTypes
      <3>2. current'[m] = current[m]
        BY <3>1 DEF Release
      <3>. QED  BY <3>1, <3>2 DEF Release, OutsidersAreQuiet
    <2>. QED  BY <2>1, <2>2, <2>3 DEF OutsidersAreQuiet
  <1>6. SessionsHear(P, users)'
    <2>. SUFFICES ASSUME NEW u \in users \ us, assigned[u] # NULL, \A j \in P : j.u # u
                  PROVE  Hears(u)'
      BY DEF SessionsHear, Release, UserLists
    <2>1. Hears(u)
      BY DEF SessionsHear
    <2>2. u \in Users /\ assigned[u] \in Members /\ assigned[u] \notin back \cup freed
          /\ u \notin Members
      BY NullAssumption DEF Closed, Pairs, UserLists, FieldTypes
    <2>3. assigned'[u] = assigned[u]
      BY <2>2 DEF Release
    <2>. QED  BY <2>1, <2>2, <2>3, NullAssumption
              DEF Hears, Release, Silenced, Closed, UserLists, MemberLists
  <1>. QED  BY <1>1, <1>2, <1>3, <1>4, <1>5, <1>6 DEF Pool

(* The jobs of others keep what they own.                                  *)
LEMMA ReleaseKeepsJobs ==
    ASSUME NEW P, NEW us, NEW back, NEW freed,
           UserLists(users, waiters, numUsers), MemberLists(idle, active, numActive),
           FieldTypes, Pairs(users), JobsOwn(P, users),
           Closed(us, back, freed), Release(us, back, freed),
           \A j \in P : j.u \notin us
    PROVE  JobsOwn(P, users)'
  <1>. SUFFICES ASSUME NEW j \in P
                PROVE  /\ j.u \in users' /\ assigned'[j.u] = j.m
                       /\ j.u \notin recv' \cup send' \cup unsent'
                       /\ j.m \notin recv' \cup send' \cup unsent'
                       /\ j.kind = "connect" <=> j.m \in async'
    BY DEF JobsOwn
  <1>1. j.u \in users \ us /\ assigned[j.u] = j.m
        /\ j.u \notin recv \cup send \cup unsent
        /\ j.m \notin recv \cup send \cup unsent
        /\ (j.kind = "connect" <=> j.m \in async)
    BY DEF JobsOwn
  <1>2. j.m \notin back \cup freed
    BY <1>1, NullAssumption DEF Pairs, Closed, FieldTypes, UserLists, MemberLists
  <1>. QED  BY <1>1, <1>2 DEF Release, UserLists

----------------------------------------------------------------------------
(* pool_user_query(): finding a member for a user.                         *)

(* The user u, of the list us, is being served: it has no member yet and   *)
(* no job but, perhaps, the one that has just ended.                       *)
Served(P, us, u) ==
    /\ u \in us /\ us \subseteq Users /\ assigned[u] = NULL
    /\ \A j \in P : j.u # u

(* A member that served nobody is assigned, together with a job for both.  *)
LEMMA AssignKeeps ==
    ASSUME NEW P, NEW us, NEW u, NEW m \in Members \ active, NEW job \in Jobs,
           job.u = u, job.m = m, job.kind = "connect" <=> m \in async',
           FieldTypes, active \subseteq Members, Pairs(us), OutsidersAreQuiet,
           SessionsHear(P, us), JobsOwn(P, us), Served(P, us, u),
           Assign(u, m), users' = us, async' \in {async, async \cup {m}},
           UNCHANGED <<login, version, sock, unsent, dirty>>
    PROVE  /\ FieldTypes' /\ Pairs(users)' /\ OutsidersAreQuiet'
           /\ SessionsHear(P \cup {job}, users)' /\ JobsOwn(P \cup {job}, users)'
  <1>1. u \in Users /\ u # m /\ u # NULL /\ m # NULL /\ u \in us /\ assigned[u] = NULL
        /\ m \notin Users /\ u \notin Members /\ us \subseteq Users
    BY NullAssumption DEF Served
  <1>2. FieldTypes'
    BY <1>1 DEF FieldTypes, Assign, Socks
  <1>3. /\ assigned'[u] = m /\ current'[m] = u /\ active' = active \cup {m}
        /\ \A v \in Users \ {u} : assigned'[v] = assigned[v]
        /\ \A n \in Members \ {m} : current'[n] = current[n]
        /\ recv' = recv \ {u, m} /\ send' = send \ {u, m} /\ unsent' = unsent
    BY <1>1 DEF Assign, FieldTypes
  <1>4. \A v \in Users : assigned[v] # m
    BY <1>1 DEF Pairs
  <1>5. \A n \in active : n # m /\ current[n] # u
    BY <1>1, NullAssumption DEF Pairs
  <1>6. Pairs(users)'
    BY <1>1, <1>3, <1>4, <1>5, NullAssumption DEF Pairs, FieldTypes
  <1>7. u \notin unsent /\ m \notin unsent
    BY <1>1 DEF OutsidersAreQuiet
  <1>8. OutsidersAreQuiet'
    BY <1>1, <1>3, <1>4, <1>5 DEF OutsidersAreQuiet, FieldTypes
  <1>9. SessionsHear(P \cup {job}, users)'
    <2>. SUFFICES ASSUME NEW v \in us, assigned'[v] # NULL, \A j \in P \cup {job} : j.u # v
                  PROVE  Hears(v)'
      BY DEF SessionsHear
    <2>1. v # u /\ v \in Users /\ v \notin {u, m} /\ assigned'[v] = assigned[v]
      BY <1>1, <1>3
    <2>2. Hears(v)
      BY <2>1 DEF SessionsHear
    <2>3. assigned[v] \in Members /\ assigned[v] \notin {u, m}
      BY <1>1, <1>4, <2>1 DEF FieldTypes
    <2>. QED  BY <1>3, <2>1, <2>2, <2>3 DEF Hears
  <1>10. JobsOwn(P \cup {job}, users)'
    <2>1. ASSUME NEW j \in P
          PROVE  /\ j.u \in us /\ assigned'[j.u] = j.m
                 /\ j.u \notin recv' \cup send' \cup unsent'
                 /\ j.m \notin recv' \cup send' \cup unsent'
                 /\ j.kind = "connect" <=> j.m \in async'
      <3>1. j.u # u /\ j.u \in us /\ assigned[j.u] = j.m /\ j.m # m
        BY <1>1, <1>4 DEF Served, JobsOwn
      <3>2. (j.m \in async' <=> j.m \in async) /\ assigned'[j.u] = assigned[j.u]
        BY <1>1, <1>3, <3>1
      <3>. QED  BY <1>3, <3>1, <3>2 DEF JobsOwn
    <2>2. P \subseteq Jobs /\ (\A j, k \in P : j.u = k.u => j = k) /\ \A j \in P : j.u # u
      BY DEF JobsOwn, Served
    <2>. QED  BY <1>1, <1>3, <1>7, <2>1, <2>2 DEF JobsOwn
  <1>. QED  BY <1>2, <1>6, <1>8, <1>9, <1>10

(* The record of a job has its fields.                                     *)
LEMMA JobFields ==
    ASSUME NEW kind, NEW u, NEW m, NEW saw
    PROVE  /\ Job(kind, u, m, saw).u = u /\ Job(kind, u, m, saw).m = m
           /\ Job(kind, u, m, saw).kind = kind
  BY DEF Job

(* The jobs that the pool starts.                                          *)
LEMMA JobTypes ==
    /\ \A u \in Users : Job("login", u, NULL, TRUE) \in Jobs
    /\ \A u \in Users, m \in Members : Job("end", u, m, TRUE) \in Jobs
    /\ \A u \in Users, m \in Members, saw \in BOOLEAN : Job("connect", u, m, saw) \in Jobs
  <1>1. \A u \in Users : Job("login", u, NULL, TRUE) \in Jobs
    BY DEF Jobs, Job
  <1>2. \A u \in Users, m \in Members : Job("end", u, m, TRUE) \in Jobs
    BY DEF Jobs, Job
  <1>3. \A u \in Users, m \in Members, saw \in BOOLEAN : Job("connect", u, m, saw) \in Jobs
    BY DEF Jobs, Job
  <1>. QED  BY <1>1, <1>2, <1>3

(* And a job is one of these.                                              *)
LEMMA JobKinds ==
    ASSUME NEW j \in Jobs
    PROVE  /\ j.u \in Users
           /\ \/ j.kind = "login" /\ j.m = NULL
              \/ j.kind \in {"end", "connect"} /\ j.m \in Members
  BY DEF Jobs, Job

(* What the search leaves behind: at most one new job, of the user itself. *)
LEMMA QueryKeeps ==
    ASSUME NEW P, NEW us, NEW ws, NEW u, NEW stillUsed,
           Pool(P, us, ws), JobsOwn(P, us), Served(P, us, u),
           pool_user_query(u, us, ws, stillUsed)
    PROVE  \E N \in SUBSET Jobs :
             /\ threads' = threads \cup N
             /\ \A j \in N : j.u = u
             /\ Pool(P \cup N, users, waiters)'
             /\ JobsOwn(P \cup N, users)'
  <1>. USE DEF Pool
  <1>0. u \in Users /\ u \in us /\ assigned[u] = NULL /\ us \subseteq Users
        /\ idle \subseteq Members /\ active \subseteq Members /\ idle \cap active = {}
    BY DEF Served, MemberLists
  <1>1. CASE AssignIdle(u, us, ws)
    <2>1. PICK m \in Compatible(u) :
            /\ Assign(u, m)
            /\ idle' = idle \ {m} /\ users' = us /\ waiters' = ws
            /\ threads' = threads \cup {Job("end", u, m, TRUE)}
            /\ UNCHANGED <<numUsers, numActive, login, version, async, sock, unsent, dirty>>
      BY <1>1 DEF AssignIdle
    <2>. DEFINE job == Job("end", u, m, TRUE)
    <2>2. m \in idle /\ m \in Members \ active
      BY <1>0, <2>1 DEF Compatible
    <2>3. job \in Jobs /\ job.u = u /\ job.m = m /\ job.kind = "end"
      BY <1>0, <2>2, JobTypes DEF Job
    <2>4. m \notin async
      BY <2>2 DEF OutsidersAreQuiet
    <2>5. /\ FieldTypes' /\ Pairs(users)' /\ OutsidersAreQuiet'
          /\ SessionsHear(P \cup {job}, users)' /\ JobsOwn(P \cup {job}, users)'
      <3>. HIDE DEF job
      <3>. QED  BY <1>0, <2>1, <2>2, <2>3, <2>4, AssignKeeps
    <2>6. UserLists(users, waiters, numUsers)'
      BY <2>1
    <2>7. MemberLists(idle, active, numActive)'
      <3>1. active' = active \cup {m}
        BY <2>1 DEF Assign
      <3>2. idle' \cup active' = idle \cup active
        BY <2>1, <2>2, <3>1
      <3>. QED  BY <2>1, <2>2, <3>1, <3>2 DEF MemberLists
    <2>. QED  BY <2>1, <2>3, <2>5, <2>6, <2>7
  <1>2. CASE AssignNew(u, us, ws)
    <2>1. PICK m \in Members \ (idle \cup active), saw \in BOOLEAN :
            /\ MayOpen
            /\ Assign(u, m)
            /\ numActive' = numActive + 1 /\ users' = us /\ waiters' = ws
            /\ async' = async \cup {m}
            /\ threads' = threads \cup {Job("connect", u, m, saw)}
            /\ UNCHANGED <<numUsers, idle, login, version, sock, unsent, dirty>>
      BY <1>2 DEF AssignNew
    <2>. DEFINE job == Job("connect", u, m, saw)
    <2>2. m \in Members \ active
      BY <2>1
    <2>3. job \in Jobs /\ job.u = u /\ job.m = m /\ job.kind = "connect"
      BY <1>0, <2>2, JobFields, JobTypes
    <2>5. /\ FieldTypes' /\ Pairs(users)' /\ OutsidersAreQuiet'
          /\ SessionsHear(P \cup {job}, users)' /\ JobsOwn(P \cup {job}, users)'
      <3>. HIDE DEF job
      <3>. QED  BY <1>0, <2>1, <2>2, <2>3, AssignKeeps
    <2>6. UserLists(users, waiters, numUsers)'
      BY <2>1
    <2>7. MemberLists(idle, active, numActive)'
      BY <2>1, MemberEnters DEF MayOpen, Assign
    <2>. QED  BY <2>1, <2>3, <2>5, <2>6, <2>7
  <1>3. CASE AssignNone(u, us, ws)
    <2>1. UserLists(users, waiters, numUsers)'
      BY <1>0, <1>3, UserWaits DEF AssignNone
    <2>2. FieldTypes' /\ MemberLists(idle, active, numActive)'
      BY <1>3 DEF AssignNone, FieldTypes, MemberLists
    <2>3. Pairs(users)'
      <3>1. \A m \in active : current[m] # u
        BY <1>0, NullAssumption DEF Pairs
      <3>. QED  BY <1>3, <3>1 DEF AssignNone, Pairs
    <2>4. OutsidersAreQuiet'
      BY <1>3 DEF AssignNone, OutsidersAreQuiet
    <2>5. SessionsHear(P, users)'
      <3>1. \A v \in us : assigned[v] # u
        BY <1>0, NullAssumption DEF FieldTypes
      <3>. QED  BY <1>3, <1>0, <3>1 DEF AssignNone, SessionsHear, Hears
    <2>6. JobsOwn(P, users)'
      BY <1>3 DEF AssignNone, JobsOwn, Served
    <2>7. threads' = threads \cup {} /\ P \cup {} = P
      BY <1>3 DEF AssignNone
    <2>. QED  BY <2>1, <2>2, <2>3, <2>4, <2>5, <2>6, <2>7
  <1>4. CASE AssignIdleNoThread(u, us, ws, stillUsed)
    <2>1. PICK m \in Compatible(u) :
            /\ users' = us \ {u} /\ numUsers' = numUsers - 1 /\ waiters' = ws
            /\ idle' = idle \ {m} /\ numActive' = numActive - 1
            /\ login' = login \ {u}
            /\ sock' = sock \ {u, m} /\ recv' = recv \ {u, m} /\ send' = send \ {u, m}
            /\ unsent' = unsent \ {u, m} /\ dirty' = dirty \ {m}
            /\ version' = [version EXCEPT ![u] = NULL, ![m] = NULL]
            /\ UNCHANGED <<active, assigned, current, async, threads>>
      BY <1>4 DEF AssignIdleNoThread
    <2>2. m \in idle /\ m \in Members \ active /\ m # u /\ m \notin Users
      BY <1>0, <2>1, NullAssumption DEF Compatible
    <2>3. UserLists(users, waiters, numUsers)'
      <3>1. Cardinality({u}) = 1
        BY FS_Singleton
      <3>. QED  BY <1>0, <2>1, <3>1, UsersLeave
    <2>4. MemberLists(idle, active, numActive)'
      <3>1. Cardinality({m}) = 1
        BY FS_Singleton
      <3>2. idle' \cup active' = (idle \cup active) \ {m}
        BY <2>1, <2>2
      <3>3. Cardinality((idle \cup active) \ {m}) = numActive - 1 /\ numActive - 1 \in Nat
            /\ numActive - 1 <= MaxOpen
        <4>1. {m} \in SUBSET (idle \cup active)
          BY <2>2
        <4>. QED  BY <3>1, <4>1, MembersLeave
      <3>. QED  BY <1>0, <2>1, <2>2, <3>2, <3>3 DEF MemberLists
    <2>5. FieldTypes'
      BY <1>0, <2>1, <2>2 DEF FieldTypes, Socks
    <2>6. Pairs(users)'
      <3>1. \A n \in active : current[n] # u
        BY <1>0, NullAssumption DEF Pairs
      <3>. QED  BY <2>1, <3>1 DEF Pairs
    <2>7. OutsidersAreQuiet'
      BY <2>1 DEF OutsidersAreQuiet
    <2>8. \A v \in Users : assigned[v] # m /\ assigned[v] # u
      BY <1>0, <2>2, NullAssumption DEF Pairs, FieldTypes
    <2>9. SessionsHear(P, users)'
      <3>. SUFFICES ASSUME NEW v \in us \ {u}, assigned[v] # NULL, \A j \in P : j.u # v
                    PROVE  Hears(v)'
        BY <2>1 DEF SessionsHear
      <3>1. Hears(v) /\ v \notin {u, m} /\ assigned[v] \notin {u, m}
        BY <1>0, <2>2, <2>8 DEF SessionsHear
      <3>. QED  BY <2>1, <3>1 DEF Hears
    <2>10. JobsOwn(P, users)'
      BY <2>1 DEF JobsOwn, Served
    <2>11. threads' = threads \cup {} /\ P \cup {} = P
      BY <2>1
    <2>. QED  BY <2>3, <2>4, <2>5, <2>6, <2>7, <2>9, <2>10, <2>11
  <1>. QED  BY <1>1, <1>2, <1>3, <1>4 DEF pool_user_query

----------------------------------------------------------------------------
(* Jobs that run, wait in pool->events or wait in the detached batch.      *)

(* Those three are all the pending jobs.                                   *)
LEMMA PendingParts == PendingJobs = threads \cup EventJobs(events) \cup EventJobs(batch)
  BY DEF PendingJobs, EventJobs, Range

(* The same, in the next state.                                            *)
LEMMA PendingPartsNext ==
    PendingJobs' = threads' \cup EventJobs(events') \cup EventJobs(batch')
  BY DEF PendingJobs, EventJobs, Range

(* pool_event_add(): an event put in front of a queue.                     *)
LEMMA PutInFront ==
    ASSUME NEW q \in Seq(Events), NEW e \in Events, e.job \notin EventJobs(q), DistinctJobs(q)
    PROVE  /\ <<e>> \o q \in Seq(Events)
           /\ EventJobs(<<e>> \o q) = {e.job} \cup EventJobs(q)
           /\ DistinctJobs(<<e>> \o q)
  <1>. DEFINE r == <<e>> \o q
  <1>1. r \in Seq(Events) /\ Len(r) = Len(q) + 1 /\ r[1] = e /\ DOMAIN r = 1 .. Len(q) + 1
        /\ \A i \in 1 .. Len(q) : r[i + 1] = q[i]
    OBVIOUS
  <1>2. \A i \in 2 .. Len(q) + 1 : i - 1 \in 1 .. Len(q) /\ r[i] = q[i - 1]
    BY <1>1
  <1>3. DOMAIN q = 1 .. Len(q) /\ Len(q) \in Nat
    OBVIOUS
  <1>. HIDE DEF r
  <1>4. EventJobs(r) = {e.job} \cup EventJobs(q)
    <2>1. ASSUME NEW i \in DOMAIN r
          PROVE  r[i].job \in {e.job} \cup EventJobs(q)
      <3>1. CASE i = 1
        BY <1>1, <3>1
      <3>2. CASE i \in 2 .. Len(q) + 1
        BY <1>2, <1>3, <3>2 DEF EventJobs
      <3>. QED  BY <1>1, <1>3, <3>1, <3>2
    <2>2. ASSUME NEW i \in DOMAIN q
          PROVE  q[i].job \in EventJobs(r)
      <3>1. i + 1 \in DOMAIN r /\ r[i + 1] = q[i]
        BY <1>1, <1>3
      <3>. QED  BY <3>1 DEF EventJobs
    <2>3. e.job \in EventJobs(r)
      <3>1. 1 \in DOMAIN r
        BY <1>1, <1>3
      <3>. QED  BY <1>1, <3>1 DEF EventJobs
    <2>. QED  BY <2>1, <2>2, <2>3 DEF EventJobs
  <1>5. DistinctJobs(r)
    <2>. SUFFICES ASSUME NEW i \in DOMAIN r, NEW j \in DOMAIN r, r[i].job = r[j].job
                  PROVE  i = j
      BY DEF DistinctJobs
    <2>1. ASSUME NEW k \in 2 .. Len(q) + 1
          PROVE  r[k].job # e.job
      BY <1>2, <1>3, <2>1 DEF EventJobs
    <2>2. CASE i = 1 \/ j = 1
      BY <1>1, <1>3, <2>1, <2>2
    <2>3. CASE i # 1 /\ j # 1
      <3>1. i \in 2 .. Len(q) + 1 /\ j \in 2 .. Len(q) + 1
        BY <1>1, <1>3, <2>3
      <3>2. q[i - 1].job = q[j - 1].job /\ i - 1 \in DOMAIN q /\ j - 1 \in DOMAIN q
        BY <1>2, <1>3, <3>1
      <3>. QED  BY <3>1, <3>2 DEF DistinctJobs
    <2>. QED  BY <2>2, <2>3
  <1>. QED  BY <1>1, <1>4, <1>5 DEF r

(* The first event leaves a queue.                                         *)
LEMMA TakeFirst ==
    ASSUME NEW q \in Seq(Events), q # <<>>, DistinctJobs(q)
    PROVE  /\ Tail(q) \in Seq(Events) /\ DistinctJobs(Tail(q))
           /\ Head(q) \in Events /\ Head(q).job \in EventJobs(q)
           /\ EventJobs(Tail(q)) = EventJobs(q) \ {Head(q).job}
           /\ Tail(q) = <<>> <=> Len(q) = 1
  <1>. DEFINE r == Tail(q)  e == Head(q)
  <1>1. r \in Seq(Events) /\ Len(r) = Len(q) - 1 /\ q[1] = e /\ DOMAIN r = 1 .. Len(q) - 1
        /\ (\A i \in 1 .. Len(q) - 1 : r[i] = q[i + 1]) /\ e \in Events
    OBVIOUS
  <1>2. DOMAIN q = 1 .. Len(q) /\ Len(q) \in Nat /\ Len(q) >= 1
    OBVIOUS
  <1>3. r = <<>> <=> Len(q) = 1
    BY <1>1, <1>2
  <1>. HIDE DEF r, e
  <1>4. 1 \in DOMAIN q
    BY <1>2
  <1>5. e.job \in EventJobs(q)
    BY <1>1, <1>4 DEF EventJobs
  <1>6. DistinctJobs(r)
    <2>. SUFFICES ASSUME NEW i \in DOMAIN r, NEW j \in DOMAIN r, r[i].job = r[j].job
                  PROVE  i = j
      BY DEF DistinctJobs
    <2>1. i + 1 \in DOMAIN q /\ j + 1 \in DOMAIN q /\ q[i + 1].job = q[j + 1].job
      BY <1>1, <1>2
    <2>2. i + 1 = j + 1
      BY <2>1 DEF DistinctJobs
    <2>. QED  BY <1>1, <2>2
  <1>7. EventJobs(r) = EventJobs(q) \ {e.job}
    <2>1. ASSUME NEW i \in DOMAIN r
          PROVE  r[i].job \in EventJobs(q) \ {e.job}
      <3>1. i + 1 \in DOMAIN q /\ r[i] = q[i + 1] /\ i + 1 # 1
        BY <1>1, <1>2
      <3>2. q[i + 1].job # q[1].job
        BY <1>4, <3>1 DEF DistinctJobs
      <3>. QED  BY <1>1, <3>1, <3>2 DEF EventJobs
    <2>2. ASSUME NEW i \in DOMAIN q, q[i].job # e.job
          PROVE  q[i].job \in EventJobs(r)
      <3>1. i # 1
        BY <1>1, <2>2
      <3>2. i - 1 \in DOMAIN r /\ r[i - 1] = q[i]
        BY <1>1, <1>2, <3>1
      <3>. QED  BY <3>2 DEF EventJobs
    <2>. QED  BY <2>1, <2>2 DEF EventJobs
  <1>. QED  BY <1>1, <1>3, <1>5, <1>6, <1>7 DEF r, e

(* A thread hands its result over: its job is pending as before.           *)
LEMMA PostKeeps ==
    ASSUME LoopTypes, JobsAreDistinct, BatchFollowsPc,
           NEW job \in threads, NEW ok \in BOOLEAN, Post(job, ok)
    PROVE  /\ PendingJobs' = PendingJobs
           /\ LoopTypes' /\ JobsAreDistinct' /\ BatchFollowsPc'
  <1>. DEFINE e == [job |-> job, ok |-> ok]
  <1>1. e \in Events /\ e.job = job /\ job \in Jobs
    BY DEF LoopTypes, Events
  <1>2. events' = <<e>> \o events /\ threads' = threads \ {job} /\ batch' = batch
        /\ posted' = posted + 1
    BY DEF Post
  <1>3. job \notin EventJobs(events) /\ events \in Seq(Events) /\ DistinctJobs(events)
        /\ job \notin EventJobs(batch)
    BY DEF JobsAreDistinct, LoopTypes
  <1>. HIDE DEF e
  <1>4. events' \in Seq(Events) /\ EventJobs(events') = {job} \cup EventJobs(events)
        /\ DistinctJobs(events')
    BY <1>1, <1>2, <1>3, PutInFront
  <1>5. PendingJobs' = PendingJobs
    BY <1>2, <1>4, PendingParts, PendingPartsNext
  <1>6. LoopTypes' /\ BatchFollowsPc'
    BY <1>2, <1>4 DEF LoopTypes, Post, BatchFollowsPc
  <1>7. JobsAreDistinct'
    BY <1>2, <1>3, <1>4 DEF JobsAreDistinct
  <1>. QED  BY <1>5, <1>6, <1>7

(* The main thread executes an event: its job is over, and N are new.      *)
LEMMA ExecuteKeeps ==
    ASSUME LoopTypes, JobsAreDistinct, batch # <<>>, NEW N,
           threads' = threads \cup N, events' = events, batch' = Tail(batch),
           N \cap (PendingJobs \ {Head(batch).job}) = {}
    PROVE  /\ PendingJobs' = (PendingJobs \ {Head(batch).job}) \cup N
           /\ JobsAreDistinct' /\ batch' \in Seq(Events)
           /\ batch' = <<>> <=> Len(batch) = 1
  <1>. DEFINE e == Head(batch)
  <1>1. /\ Tail(batch) \in Seq(Events) /\ DistinctJobs(Tail(batch))
        /\ e.job \in EventJobs(batch)
        /\ EventJobs(Tail(batch)) = EventJobs(batch) \ {e.job}
        /\ Tail(batch) = <<>> <=> Len(batch) = 1
    BY TakeFirst DEF LoopTypes, JobsAreDistinct
  <1>2. e.job \notin threads \cup EventJobs(events)
    BY <1>1 DEF JobsAreDistinct
  <1>3. PendingJobs' = (PendingJobs \ {e.job}) \cup N
    BY <1>1, <1>2, PendingParts, PendingPartsNext
  <1>4. JobsAreDistinct'
    BY <1>1, <1>2, PendingParts DEF JobsAreDistinct
  <1>. QED  BY <1>1, <1>3, <1>4

(* Steps that neither move users or members nor change what is polled.     *)
LEMMA SameSessions ==
    ASSUME IInv, Running, PendingJobs' = PendingJobs, FieldTypes',
           \A m \in dirty' : m \in dirty \cup active,
           UNCHANGED <<users, waiters, numUsers, idle, active, numActive, assigned, current,
                       async, recv, send, unsent>>
    PROVE  /\ Pool(PendingJobs, users, waiters)' /\ JobsOwn(PendingJobs, users)'
  <1>1. Pool(PendingJobs, users, waiters) /\ JobsOwn(PendingJobs, users)
    BY DEF IInv
  <1>2. OutsidersAreQuiet'
    BY <1>1 DEF Pool, OutsidersAreQuiet
  <1>3. SessionsHear(PendingJobs, users)'
    BY <1>1 DEF Pool, SessionsHear, Hears
  <1>4. UserLists(users, waiters, numUsers)' /\ MemberLists(idle, active, numActive)'
        /\ Pairs(users)'
    BY <1>1 DEF Pool, UserLists, MemberLists, Pairs
  <1>5. JobsOwn(PendingJobs, users)'
    BY <1>1 DEF JobsOwn
  <1>. QED  BY <1>2, <1>3, <1>4, <1>5 DEF Pool

(* The detached threads.                                                   *)
LEMMA ThreadsKeep ==
    ASSUME IInv, Running, Threads
    PROVE  IInv'
  <1>0. LoopTypes /\ JobsAreDistinct /\ BatchFollowsPc /\ FieldTypes
        /\ JobsOwn(PendingJobs, users) /\ threads \subseteq PendingJobs
        /\ Pairs(users) /\ users \subseteq Users
    BY PendingParts DEF IInv, Pool, UserLists
  <1>1. ASSUME NEW u \in Users, login_proc(u)
        PROVE  IInv'
    <2>1. PICK ok \in BOOLEAN : Post(Job("login", u, NULL, TRUE), ok)
      BY <1>1 DEF login_proc
    <2>2. PendingJobs' = PendingJobs /\ LoopTypes' /\ JobsAreDistinct' /\ BatchFollowsPc'
      BY <1>0, <1>1, <2>1, PostKeeps DEF login_proc
    <2>3. FieldTypes'
      BY <1>0, <1>1 DEF login_proc, FieldTypes
    <2>4. Pool(PendingJobs, users, waiters)' /\ JobsOwn(PendingJobs, users)'
      BY <1>1, <2>2, <2>3, SameSessions DEF login_proc
    <2>. QED  BY <2>2, <2>4 DEF IInv
  <1>2. ASSUME NEW u \in Users, NEW m \in Members, end_login_proc(u, m)
        PROVE  IInv'
    <2>1. PICK ok \in BOOLEAN : Post(Job("end", u, m, TRUE), ok)
      BY <1>2 DEF end_login_proc
    <2>2. PendingJobs' = PendingJobs /\ LoopTypes' /\ JobsAreDistinct' /\ BatchFollowsPc'
      BY <1>0, <1>2, <2>1, PostKeeps DEF end_login_proc
    <2>3. FieldTypes'
      BY <1>0, <1>2 DEF end_login_proc, FieldTypes
    <2>4. m \in active
      BY <1>0, <1>2, NullAssumption DEF end_login_proc, JobsOwn, Job, Pairs
    <2>5. Pool(PendingJobs, users, waiters)' /\ JobsOwn(PendingJobs, users)'
      BY <1>2, <2>2, <2>3, <2>4, SameSessions DEF end_login_proc
    <2>. QED  BY <2>2, <2>5 DEF IInv
  <1>3. ASSUME NEW u \in Users, NEW m \in Members, NEW saw \in BOOLEAN, connect_proc(u, m, saw)
        PROVE  IInv'
    <2>1. PICK ok \in BOOLEAN : Post(Job("connect", u, m, saw), ok)
      BY <1>3 DEF connect_proc
    <2>2. PendingJobs' = PendingJobs /\ LoopTypes' /\ JobsAreDistinct' /\ BatchFollowsPc'
      BY <1>0, <1>3, <2>1, PostKeeps DEF connect_proc
    <2>3. FieldTypes'
      <3>1. version' \in [Socks -> Versions \cup {NULL}]
        BY <1>0, <1>3 DEF connect_proc, FieldTypes
      <3>2. sock' \subseteq Socks
        BY <1>0, <1>3 DEF connect_proc, FieldTypes, Socks
      <3>3. login' \subseteq Users /\ dirty' \subseteq Members
        BY <1>0, <1>3 DEF connect_proc, FieldTypes
      <3>. QED  BY <1>0, <1>3, <3>1, <3>2, <3>3 DEF connect_proc, FieldTypes
    <2>4. m \in active
      BY <1>0, <1>3, NullAssumption DEF connect_proc, JobsOwn, Job, Pairs
    <2>5. Pool(PendingJobs, users, waiters)' /\ JobsOwn(PendingJobs, users)'
      BY <1>3, <2>2, <2>3, <2>4, SameSessions DEF connect_proc
    <2>. QED  BY <2>2, <2>5 DEF IInv
  <1>4. CASE Wakeup
    <2>1. PendingJobs' = PendingJobs /\ LoopTypes' /\ JobsAreDistinct' /\ BatchFollowsPc'
      BY <1>0, <1>4 DEF Wakeup, PendingJobs, LoopTypes, JobsAreDistinct, BatchFollowsPc
    <2>2. FieldTypes'
      BY <1>0, <1>4 DEF Wakeup, poolVars, FieldTypes
    <2>3. Pool(PendingJobs, users, waiters)' /\ JobsOwn(PendingJobs, users)'
      BY <1>4, <2>1, <2>2, SameSessions DEF Wakeup, poolVars
    <2>. QED  BY <2>1, <2>3 DEF IInv
  <1>. QED  BY <1>1, <1>2, <1>3, <1>4 DEF Threads, ServerThread

----------------------------------------------------------------------------
(* The main loop.                                                          *)

(* Steps of the loop that only move it on.                                 *)
LEMMA QuietStepsKeep ==
    ASSUME IInv, Running, Poll \/ Detach \/ UsersDone \/ NoExpiry
    PROVE  IInv'
  <1>0. LoopTypes /\ JobsAreDistinct /\ BatchFollowsPc /\ FieldTypes
    BY DEF IInv, Pool
  <1>1. PendingJobs' = PendingJobs /\ LoopTypes' /\ JobsAreDistinct' /\ BatchFollowsPc'
    <2>1. CASE Poll \/ UsersDone \/ NoExpiry
      <3>1. UNCHANGED <<threads, events, batch, posted, fault>>
        BY <2>1 DEF Poll, UsersDone, NoExpiry, threadVars
      <3>2. LoopTypes' /\ BatchFollowsPc'
        BY <1>0, <2>1, <3>1 DEF Poll, UsersDone, NoExpiry, threadVars, LoopTypes, BatchFollowsPc
      <3>. QED  BY <1>0, <3>1, <3>2 DEF PendingJobs, JobsAreDistinct
    <2>2. CASE Detach
      <3>1. batch = <<>> /\ batch' = events /\ events' = <<>> /\ threads' = threads
        BY <1>0, <2>2 DEF Detach, BatchFollowsPc
      <3>2. EventJobs(<<>>) = {} /\ DistinctJobs(<<>>) /\ <<>> \in Seq(Events)
        BY DEF EventJobs, DistinctJobs
      <3>3. PendingJobs' = PendingJobs
        BY <3>1, <3>2, PendingParts, PendingPartsNext
      <3>4. JobsAreDistinct'
        BY <1>0, <3>1, <3>2 DEF JobsAreDistinct
      <3>5. LoopTypes' /\ BatchFollowsPc'
        BY <1>0, <2>2, <3>1, <3>2 DEF Detach, LoopTypes, BatchFollowsPc
      <3>. QED  BY <3>3, <3>4, <3>5
    <2>. QED  BY <2>1, <2>2
  <1>2. UNCHANGED poolVars
    BY DEF Poll, Detach, UsersDone, NoExpiry
  <1>3. FieldTypes'
    BY <1>0, <1>2 DEF poolVars, FieldTypes
  <1>4. Pool(PendingJobs, users, waiters)' /\ JobsOwn(PendingJobs, users)'
    BY <1>1, <1>2, <1>3, SameSessions DEF poolVars
  <1>. QED  BY <1>1, <1>4 DEF IInv

(* A user is freed that has no member.                                     *)
LEMMA FreeUserClosed ==
    ASSUME FieldTypes, NEW u \in users, assigned[u] = NULL
    PROVE  Closed({u}, {}, {})
  BY DEF Closed

(* A member is freed, or handed back, together with its user.              *)
LEMMA FreeMemberClosed ==
    ASSUME FieldTypes, users \subseteq Users, active \subseteq Members, Pairs(users),
           NEW m \in active
    PROVE  /\ UserOf(m) = {current[m]} /\ current[m] \in users /\ assigned[current[m]] = m
           /\ Closed(UserOf(m), {}, {m})
           /\ m \notin async => Closed(UserOf(m), {m}, {})
  <1>1. UserOf(m) = {current[m]} /\ current[m] \in users /\ assigned[current[m]] = m
    BY DEF UserOf, Pairs
  <1>. QED  BY <1>1 DEF Closed

(* Freeing user u, which has no job but perhaps the one that is over.      *)
LEMMA ReleaseKeeps ==
    ASSUME NEW P, NEW us, NEW back, NEW freed,
           UserLists(users, waiters, numUsers), MemberLists(idle, active, numActive),
           FieldTypes, Pairs(users), OutsidersAreQuiet, JobsOwn(P, users),
           SessionsHear(P, users \ us), \A j \in P : j.u \notin us,
           Closed(us, back, freed), Release(us, back, freed)
    PROVE  Pool(P, users, waiters)' /\ JobsOwn(P, users)'
  BY ReleaseKeepsPool, ReleaseKeepsJobs

(* A login is over and the session of its user begins.                     *)
LEMMA LoginOver ==
    ASSUME NEW P, NEW job, NEW u, NEW m \in Members, job.u = u, job.m = m, job \notin P,
           Pool(P \cup {job}, users, waiters), JobsOwn(P \cup {job}, users),
           recv' = recv \cup {u, m}, send' = send \ {u, m}, async' = async \ {m},
           UNCHANGED <<users, waiters, numUsers, idle, active, numActive, assigned,
                       current, login, version, sock, unsent, dirty>>
    PROVE  Pool(P, users, waiters)' /\ JobsOwn(P, users)'
  <1>. USE DEF Pool
  <1>1. u \in users /\ u \in Users /\ assigned[u] = m /\ m \in active /\ current[m] = u
        /\ u \notin recv \cup send \cup unsent /\ m \notin recv \cup send \cup unsent
        /\ u \notin Members /\ m \notin Users /\ m # NULL
    BY NullAssumption DEF JobsOwn, UserLists, Pairs
  <1>2. FieldTypes'
    BY <1>1 DEF FieldTypes, Socks
  <1>3. UserLists(users, waiters, numUsers)' /\ MemberLists(idle, active, numActive)'
        /\ Pairs(users)'
    BY DEF UserLists, MemberLists, Pairs
  <1>4. OutsidersAreQuiet'
    <2>1. \A n \in async' : n \in Members /\ n # m /\ current[n] # u /\ current[n] # m /\ n # u
      <3>. SUFFICES ASSUME NEW n \in async'
                    PROVE  n \in Members /\ n # m /\ current[n] # u /\ current[n] # m /\ n # u
        OBVIOUS
      <3>1. n \in Members /\ n # m
        BY DEF FieldTypes
      <3>2. current[n] \in Users \cup {NULL}
        BY <3>1 DEF FieldTypes
      <3>3. current[n] = u => n = m
        BY <1>1, <3>1, NullAssumption DEF Pairs
      <3>. QED  BY <1>1, <3>1, <3>2, <3>3
    <2>. QED  BY <1>1, <2>1 DEF OutsidersAreQuiet
  <1>5. SessionsHear(P, users)'
    <2>. SUFFICES ASSUME NEW v \in users, assigned[v] # NULL, \A j \in P : j.u # v
                  PROVE  Hears(v)'
      BY DEF SessionsHear
    <2>1. CASE v = u
      BY <1>1, <2>1 DEF Hears
    <2>2. CASE v # u
      <3>1. Hears(v)
        BY <2>2 DEF SessionsHear
      <3>2. v \in Users /\ assigned[v] \in Members /\ assigned[v] # m /\ v # m
        BY <1>1, <2>2 DEF UserLists, FieldTypes, Pairs
      <3>. QED  BY <1>1, <2>2, <3>1, <3>2 DEF Hears
    <2>. QED  BY <2>1, <2>2
  <1>6. JobsOwn(P, users)'
    <2>1. ASSUME NEW j \in P
          PROVE  /\ j.u \notin {u, m} /\ j.m \notin {u, m}
      <3>1. j.u # u
        BY DEF JobsOwn
      <3>2. j.u \in Users /\ assigned[j.u] = j.m /\ j.m \in Members \cup {NULL}
        BY DEF JobsOwn, UserLists, FieldTypes
      <3>. QED  BY <1>1, <3>1, <3>2, NullAssumption DEF Pairs
    <2>. QED  BY <1>1, <2>1 DEF JobsOwn
  <1>. QED  BY <1>2, <1>3, <1>4, <1>5, <1>6

(* What executing the event of a job comes to.                             *)
Outcome(job) ==
    \/ /\ job.kind = "login"
       /\ \/ pool_free_user(job.u) /\ threads' = threads
          \/ pool_user_query(job.u, users, waiters, TRUE)
    \/ /\ job.kind \in {"end", "connect"}
       /\ \/ pool_free_member(job.m) /\ threads' = threads
          \/ /\ recv' = recv \cup {job.u, job.m} /\ send' = send \ {job.u, job.m}
             /\ async' = async \ {job.m}
             /\ UNCHANGED <<users, waiters, numUsers, idle, active, numActive, assigned,
                            current, login, version, sock, unsent, dirty, threads>>

(* Executing an event: what becomes of the lists, and which jobs are new.  *)
LEMMA ExecuteLists ==
    ASSUME NEW P, NEW job, job \notin P, Outcome(job),
           Pool(P \cup {job}, users, waiters), JobsOwn(P \cup {job}, users)
    PROVE  \E N \in SUBSET Jobs :
             /\ threads' = threads \cup N
             /\ \A j \in N : j.u = job.u
             /\ Pool(P \cup N, users, waiters)' /\ JobsOwn(P \cup N, users)'
  <1>. DEFINE u == job.u  m == job.m
  <1>0. /\ job \in Jobs /\ u \in users /\ u \in Users /\ assigned[u] = m
        /\ JobsOwn(P, users) /\ \A j \in P : j.u # u
        /\ u \notin recv \cup send /\ m \notin recv \cup send
        /\ job.kind = "connect" <=> m \in async
    BY DEF JobsOwn, Pool, UserLists
  <1>1. /\ UserLists(users, waiters, numUsers) /\ MemberLists(idle, active, numActive)
        /\ FieldTypes /\ Pairs(users) /\ OutsidersAreQuiet /\ SessionsHear(P, users \ {u})
        /\ users \subseteq Users /\ active \subseteq Members
    BY <1>0 DEF Pool, SessionsHear, UserLists, MemberLists
  <1>. DEFINE Goal == Pool(P, users, waiters)' /\ JobsOwn(P, users)' /\ threads' = threads
  <1>2. ASSUME Goal
        PROVE  \E N \in SUBSET Jobs :
                 /\ threads' = threads \cup N
                 /\ \A j \in N : j.u = job.u
                 /\ Pool(P \cup N, users, waiters)' /\ JobsOwn(P \cup N, users)'
    <2>1. P \cup {} = P /\ threads \cup {} = threads
      OBVIOUS
    <2>. QED  BY <1>2, <2>1
  <1>3. ASSUME m \in Members
        PROVE  m \in active /\ current[m] = u /\ UserOf(m) = {u} /\ Closed(UserOf(m), {}, {m})
    <2>1. m \in active /\ current[m] = u
      BY <1>0, <1>1, <1>3, NullAssumption DEF Pairs
    <2>. QED  BY <1>1, <2>1, FreeMemberClosed
  <1>4. ASSUME m \in Members, pool_free_member(m), threads' = threads
        PROVE  Goal
    <2>1. Release({u}, {}, {m}) /\ Closed({u}, {}, {m})
      BY <1>3, <1>4 DEF pool_free_member
    <2>. QED  BY <1>0, <1>1, <1>4, <2>1, ReleaseKeeps
  <1>5. CASE job.kind = "login"
    <2>1. m = NULL
      BY <1>0, <1>5, JobKinds
    <2>2. CASE pool_free_user(u) /\ threads' = threads
      <3>1. Release({u}, {}, {}) /\ Closed({u}, {}, {})
        BY <1>0, <1>1, <2>1, <2>2, FreeUserClosed DEF pool_free_user
      <3>. QED  BY <1>0, <1>1, <1>2, <2>2, <3>1, ReleaseKeeps
    <2>3. CASE pool_user_query(u, users, waiters, TRUE)
      <3>1. Served(P, users, u)
        BY <1>0, <1>1, <2>1 DEF Served
      <3>2. Pool(P, users, waiters)
        BY <1>0, <1>1, <2>1 DEF Pool, SessionsHear
      <3>3. JobsOwn(P, users)
        BY <1>0
      <3>4. \E N \in SUBSET Jobs :
               /\ threads' = threads \cup N
               /\ \A j \in N : j.u = u
               /\ Pool(P \cup N, users, waiters)'
               /\ JobsOwn(P \cup N, users)'
        BY <2>3, <3>1, <3>2, <3>3, QueryKeeps
      <3>. QED  BY <3>4
    <2>. QED  BY <1>5, <2>2, <2>3 DEF Outcome
  <1>6. CASE job.kind \in {"end", "connect"}
    <2>1. m \in Members
      BY <1>0, <1>6, JobKinds
    <2>2. CASE pool_free_member(m) /\ threads' = threads
      BY <1>2, <1>4, <2>1, <2>2
    <2>3. CASE /\ recv' = recv \cup {u, m} /\ send' = send \ {u, m} /\ async' = async \ {m}
               /\ UNCHANGED <<users, waiters, numUsers, idle, active, numActive, assigned,
                              current, login, version, sock, unsent, dirty, threads>>
      BY <1>2, <2>1, <2>3, LoginOver
    <2>. QED  BY <1>6, <2>2, <2>3 DEF Outcome
  <1>. QED  BY <1>5, <1>6 DEF Outcome

(* The handlers of the three events have no other outcomes.                *)
LEMMA ExecuteOutcome ==
    ASSUME NEW job, JobsOwn({job}, users), FieldTypes, Pairs(users), users \subseteq Users,
           NEW ok,
           \/ job.kind = "login" /\ login_execute(job.u, ok)
           \/ job.kind = "end" /\ end_login_execute(job.u, ok)
           \/ job.kind = "connect" /\ connect_execute(job.m, ok)
    PROVE  Outcome(job)
  <1>. DEFINE u == job.u  m == job.m
  <1>1. /\ job \in Jobs /\ u \in Users /\ assigned[u] = m
        /\ u \notin send /\ m \notin send
        /\ job.kind = "connect" <=> m \in async
    BY DEF JobsOwn
  <1>2. CASE job.kind = "login" /\ login_execute(job.u, ok)
    BY <1>2 DEF login_execute, Outcome
  <1>3. CASE job.kind = "end" /\ end_login_execute(job.u, ok)
    <2>1. async \ {m} = async
      BY <1>1, <1>3
    <2>. QED  BY <1>1, <1>3, <2>1 DEF end_login_execute, Outcome
  <1>4. CASE job.kind = "connect" /\ connect_execute(job.m, ok)
    <2>1. m \in Members
      BY <1>1, <1>4, JobKinds
    <2>2. current[m] = u /\ u # NULL /\ send \ {u, m} = send
      BY <1>1, <2>1, NullAssumption DEF Pairs
    <2>. QED  BY <1>4, <2>2 DEF connect_execute, Outcome
  <1>. QED  BY <1>2, <1>3, <1>4

(* The next event of the batch.                                            *)
LEMMA ExecuteStep ==
    ASSUME IInv, Running, Execute
    PROVE  IInv'
  <1>. DEFINE e == Head(batch)  P == PendingJobs \ {e.job}
  <1>1. LoopTypes /\ JobsAreDistinct /\ batch # <<>> /\ JobsOwn(PendingJobs, users)
        /\ Pool(PendingJobs, users, waiters)
    BY DEF IInv, Execute, BatchFollowsPc
  <1>2. e \in Events /\ e.job \in PendingJobs
    BY <1>1, TakeFirst, PendingParts DEF LoopTypes, JobsAreDistinct
  <1>4. PICK Q, job : Q = P /\ job = e.job
    OBVIOUS
  <1>5. PendingJobs = Q \cup {job} /\ job \notin Q
    BY <1>2, <1>4
  <1>6. PICK N \in SUBSET Jobs :
          /\ threads' = threads \cup N
          /\ \A j \in N : j.u = job.u
          /\ Pool(Q \cup N, users, waiters)' /\ JobsOwn(Q \cup N, users)'
    <2>1. Pool(Q \cup {job}, users, waiters) /\ JobsOwn(Q \cup {job}, users)
      BY <1>1, <1>5
    <2>2. JobsOwn({job}, users)
      BY <2>1 DEF JobsOwn
    <2>3. Outcome(job)
      <3>1. PICK ok : ok = e.ok
        OBVIOUS
      <3>2. \/ job.kind = "login" /\ login_execute(job.u, ok)
            \/ job.kind = "end" /\ end_login_execute(job.u, ok)
            \/ job.kind = "connect" /\ connect_execute(job.m, ok)
        BY <1>4, <3>1 DEF Execute
      <3>. QED  BY <2>1, <2>2, <3>2, ExecuteOutcome DEF Pool, UserLists
    <2>. HIDE DEF P, e
    <2>. QED  BY <1>5, <2>1, <2>3, ExecuteLists
  <1>7. N \cap Q = {}
    BY <1>1, <1>5, <1>6 DEF JobsOwn
  <1>8. events' = events /\ batch' = Tail(batch) /\ UNCHANGED <<posted, wake, timer>>
        /\ pc' = IF Len(batch) = 1 THEN "accept" ELSE "events"
    BY DEF Execute
  <1>9. PendingJobs' = Q \cup N /\ JobsAreDistinct' /\ batch' \in Seq(Events)
        /\ (batch' = <<>> <=> Len(batch) = 1)
    BY <1>1, <1>4, <1>6, <1>7, <1>8, ExecuteKeeps
  <1>10. fault' \in BOOLEAN
    BY <1>1 DEF LoopTypes, Execute, login_execute, end_login_execute, connect_execute,
           pool_user_query, AssignIdle, AssignIdleNoThread, AssignNew, AssignNone
  <1>11. LoopTypes' /\ BatchFollowsPc'
    BY <1>1, <1>6, <1>8, <1>9, <1>10 DEF LoopTypes, BatchFollowsPc
  <1>. QED  BY <1>6, <1>9, <1>11 DEF IInv

(* A client connects.                                                      *)
LEMMA AcceptStep ==
    ASSUME IInv, Running, Accept
    PROVE  IInv'
  <1>0. LoopTypes /\ JobsAreDistinct /\ BatchFollowsPc /\ FieldTypes
        /\ Pool(PendingJobs, users, waiters) /\ JobsOwn(PendingJobs, users)
    BY DEF IInv, Pool
  <1>1. UNCHANGED <<posted, events, wake, batch, timer, fault>> /\ pc = "accept" /\ pc' = "users"
    BY DEF Accept
  <1>2. CASE UNCHANGED <<poolVars, threads>>
    <2>1. PendingJobs' = PendingJobs /\ LoopTypes' /\ JobsAreDistinct' /\ BatchFollowsPc'
      BY <1>0, <1>1, <1>2 DEF PendingJobs, LoopTypes, JobsAreDistinct, BatchFollowsPc
    <2>2. FieldTypes'
      BY <1>0, <1>2 DEF poolVars, FieldTypes
    <2>3. Pool(PendingJobs, users, waiters)' /\ JobsOwn(PendingJobs, users)'
      BY <1>2, <2>1, <2>2, SameSessions DEF poolVars
    <2>. QED  BY <2>1, <2>3 DEF IInv
  <1>3. ASSUME NEW u \in Users \ (users \cup Range(waiters)), pool_user_create(u)
        PROVE  IInv'
    <2>. DEFINE job == Job("login", u, NULL, TRUE)
    <2>1. job \in Jobs /\ job.u = u /\ job.m = NULL /\ job.kind = "login"
      BY JobTypes DEF Job
    <2>. HIDE DEF job
    <2>2. PICK N \in SUBSET {job} : threads' = threads \cup N
      <3>1. threads' = threads \cup {job} \/ threads' = threads \cup {}
        BY <1>3 DEF pool_user_create, job
      <3>. QED  BY <3>1
    <2>3. assigned[u] = NULL /\ u \notin recv \cup send \cup unsent
      BY <1>0, NullAssumption DEF Pool, Pairs, OutsidersAreQuiet
    <2>4. \A j \in PendingJobs : j.u # u
      BY <1>0 DEF JobsOwn
    <2>5. PendingJobs' = PendingJobs \cup N /\ JobsAreDistinct'
      <3>1. N \cap PendingJobs = {}
        BY <2>1, <2>4
      <3>. QED  BY <1>0, <1>1, <2>2, <3>1, PendingParts, PendingPartsNext DEF JobsAreDistinct
    <2>6. LoopTypes' /\ BatchFollowsPc'
      BY <1>0, <1>1, <2>1, <2>2 DEF LoopTypes, BatchFollowsPc
    <2>7. /\ users' = users \cup {u} /\ numUsers' = numUsers + 1 /\ numUsers < MaxUsers
          /\ sock' \subseteq sock \cup {u}
          /\ UNCHANGED <<waiters, idle, active, numActive, assigned, current, login, version,
                         async, recv, send, unsent, dirty>>
      BY <1>3 DEF pool_user_create
    <2>8. UserLists(users, waiters, numUsers)'
      BY <1>0, <2>7, UserEnters DEF Pool
    <2>9. MemberLists(idle, active, numActive)' /\ Pairs(users)' /\ OutsidersAreQuiet'
      BY <1>0, <2>7 DEF Pool, MemberLists, Pairs, OutsidersAreQuiet
    <2>10. FieldTypes'
      BY <1>0, <2>7 DEF FieldTypes, Socks
    <2>11. SessionsHear(PendingJobs, users)'
      BY <1>0, <2>3, <2>5, <2>7 DEF Pool, SessionsHear, Hears
    <2>12. JobsOwn(PendingJobs, users)'
      <3>1. NULL \notin Socks /\ NULL \notin async
        BY <1>0, NullAssumption DEF Socks, FieldTypes
      <3>2. NULL \notin recv \cup send \cup unsent
        BY <1>0, <3>1 DEF FieldTypes
      <3>. QED  BY <1>0, <2>1, <2>2, <2>3, <2>4, <2>5, <2>7, <3>1, <3>2 DEF JobsOwn
    <2>. QED  BY <2>5, <2>6, <2>8, <2>9, <2>10, <2>11, <2>12 DEF IInv, Pool
  <1>. QED  BY <1>2, <1>3 DEF Accept

(* The pool, the jobs and the loop after a step that starts no thread.     *)
LEMMA SameJobs ==
    ASSUME IInv, Running, UNCHANGED <<threads, events, batch, posted, wake, fault>>,
           timer' \in BOOLEAN, pc # "events",
           pc' \in {"users", "members", "schedule", "stopped"}
    PROVE  PendingJobs' = PendingJobs /\ LoopTypes' /\ JobsAreDistinct' /\ BatchFollowsPc'
  BY DEF IInv, PendingJobs, LoopTypes, JobsAreDistinct, BatchFollowsPc

(* A user and its member are polled only once the login is over: no job    *)
(* refers to them, so the handlers may do with them what they like.        *)
LEMMA PolledSession ==
    ASSUME IInv, Running, NEW u \in users, NEW m \in Members, assigned[u] = m,
           {u, m} \cap (recv \cup send) # {}
    PROVE  /\ m \in active \ async /\ current[m] = u /\ u \in Users
           /\ \A j \in PendingJobs : j.u # u
           /\ Hears(u)
  <1>1. /\ UserLists(users, waiters, numUsers) /\ FieldTypes /\ Pairs(users) /\ OutsidersAreQuiet
        /\ SessionsHear(PendingJobs, users) /\ JobsOwn(PendingJobs, users)
    BY DEF IInv, Pool
  <1>2. u \in Users /\ m # NULL /\ m \in active /\ current[m] = u
    BY <1>1, NullAssumption DEF UserLists, Pairs
  <1>3. m \notin async
    BY <1>1, <1>2 DEF OutsidersAreQuiet
  <1>4. \A j \in PendingJobs : j.u # u
    BY <1>1 DEF JobsOwn
  <1>. QED  BY <1>1, <1>2, <1>3, <1>4 DEF SessionsHear

(* Such a session ends: the user is freed, the member freed or reset.      *)
LEMMA SessionEnds ==
    ASSUME IInv, Running, NEW u \in users, NEW m \in Members, assigned[u] = m,
           {u, m} \cap (recv \cup send) # {},
           pool_free_user(u) \/ pool_reset_member(m) \/ pool_free_member(m),
           PendingJobs' = PendingJobs
    PROVE  Pool(PendingJobs, users, waiters)' /\ JobsOwn(PendingJobs, users)'
  <1>1. PICK P : P = PendingJobs
    OBVIOUS
  <1>2. /\ UserLists(users, waiters, numUsers) /\ MemberLists(idle, active, numActive)
        /\ FieldTypes /\ Pairs(users) /\ OutsidersAreQuiet
        /\ SessionsHear(P, users \ {u}) /\ JobsOwn(P, users)
    BY <1>1 DEF IInv, Pool, SessionsHear
  <1>3. m \in active /\ m \notin async /\ current[m] = u /\ \A j \in P : j.u # u
    BY <1>1, PolledSession
  <1>4. UserOf(m) = {u} /\ Closed({u}, {}, {m}) /\ Closed({u}, {m}, {})
    <2>1. users \subseteq Users /\ active \subseteq Members
      BY <1>2 DEF UserLists, MemberLists
    <2>. QED  BY <1>2, <1>3, <2>1, FreeMemberClosed
  <1>5. Release({u}, {}, {m}) \/ Release({u}, {m}, {})
    BY <1>4, NullAssumption DEF pool_free_user, pool_reset_member, pool_free_member
  <1>6. Pool(P, users, waiters)' /\ JobsOwn(P, users)'
    BY <1>2, <1>3, <1>4, <1>5, ReleaseKeeps
  <1>. QED  BY <1>1, <1>6

(* A packet of such a session is forwarded, all of it or a part.           *)
LEMMA SessionForwards ==
    ASSUME IInv, Running, NEW u \in users, NEW m \in Members, assigned[u] = m,
           {u, m} \cap (recv \cup send) # {},
           Forwarded(u, m) \/ Forwarded(m, u), dirty' \in {dirty, dirty \cup {m}},
           PendingJobs' = PendingJobs
    PROVE  Pool(PendingJobs, users, waiters)' /\ JobsOwn(PendingJobs, users)'
  <1>1. /\ UserLists(users, waiters, numUsers) /\ MemberLists(idle, active, numActive)
        /\ FieldTypes /\ Pairs(users) /\ OutsidersAreQuiet
        /\ SessionsHear(PendingJobs, users) /\ JobsOwn(PendingJobs, users)
    BY DEF IInv, Pool
  <1>2. m \in active /\ m \notin async /\ current[m] = u /\ u \in Users
        /\ Hears(u) /\ \A j \in PendingJobs : j.u # u
    BY PolledSession
  <1>3. u # m /\ u \notin Members /\ m \notin Users /\ m # NULL /\ u # NULL
    BY <1>2, NullAssumption
  <1>4. UNCHANGED <<users, waiters, numUsers, idle, active, numActive, assigned, current,
                    login, version, async, sock>>
    BY DEF Forwarded
  <1>5. \A x : x \notin {u, m} =>
          (x \in recv' <=> x \in recv) /\ (x \in send' <=> x \in send)
          /\ (x \in unsent' <=> x \in unsent)
    BY DEF Forwarded, WroteAll, WrotePart
  <1>6. Hears(u)'
    BY <1>2, <1>3, <1>4 DEF Hears, Forwarded, WroteAll, WrotePart
  <1>7. FieldTypes'
    <2>1. recv' \subseteq Socks /\ send' \subseteq Socks /\ unsent' \subseteq Socks
      BY <1>1, <1>2 DEF FieldTypes, Socks, Forwarded, WroteAll, WrotePart
    <2>2. dirty' \subseteq Members
      BY <1>1 DEF FieldTypes
    <2>. QED  BY <1>1, <1>4, <2>1, <2>2 DEF FieldTypes
  <1>8. UserLists(users, waiters, numUsers)' /\ MemberLists(idle, active, numActive)'
        /\ Pairs(users)'
    BY <1>1, <1>4 DEF UserLists, MemberLists, Pairs
  <1>9. \A v \in Users \ {u} : assigned[v] # m
    BY <1>1, <1>2, NullAssumption DEF Pairs
  <1>10. \A n \in Members \ {m} : current[n] # u
    BY <1>1, <1>3, NullAssumption DEF Pairs
  <1>11. OutsidersAreQuiet'
    <2>1. ASSUME NEW v \in Users, assigned'[v] = NULL
          PROVE  v \notin recv' \cup send' \cup unsent'
      BY <1>1, <1>3, <1>4, <1>5, <2>1 DEF OutsidersAreQuiet
    <2>2. ASSUME NEW n \in Members \ active'
          PROVE  n \notin send' \cup unsent' \cup async' \cup dirty'
      BY <1>1, <1>2, <1>3, <1>4, <1>5, <2>2 DEF OutsidersAreQuiet
    <2>3. ASSUME NEW n \in async'
          PROVE  {n, current'[n]} \cap (recv' \cup send') = {}
      <3>1. n \in async /\ n \in Members \ {m} /\ current[n] \notin {u, m}
        BY <1>1, <1>2, <1>3, <1>4, <1>10, <2>3 DEF FieldTypes
      <3>. QED  BY <1>1, <1>3, <1>4, <1>5, <3>1 DEF OutsidersAreQuiet
    <2>. QED  BY <2>1, <2>2, <2>3 DEF OutsidersAreQuiet
  <1>12. SessionsHear(PendingJobs, users)'
    <2>. SUFFICES ASSUME NEW v \in users, assigned[v] # NULL, \A j \in PendingJobs : j.u # v
                  PROVE  Hears(v)'
      BY <1>4 DEF SessionsHear
    <2>1. CASE v = u
      BY <1>6, <2>1
    <2>2. CASE v # u
      <3>1. Hears(v)
        BY <1>1 DEF SessionsHear
      <3>2. v \in Users \ {u} /\ v \notin {u, m} /\ assigned[v] \notin {u, m}
        BY <1>1, <1>3, <1>9, <2>2 DEF UserLists, FieldTypes
      <3>. QED  BY <1>4, <1>5, <3>1, <3>2 DEF Hears
    <2>. QED  BY <2>1, <2>2
  <1>13. JobsOwn(PendingJobs, users)'
    <2>1. ASSUME NEW j \in PendingJobs
          PROVE  j.u \notin {u, m} /\ j.m \notin {u, m}
      <3>1. j.u \in Users \ {u} /\ assigned[j.u] = j.m /\ j.m \in Members \cup {NULL}
        BY <1>1, <1>2 DEF JobsOwn, UserLists, FieldTypes
      <3>. QED  BY <1>3, <1>9, <3>1
    <2>. QED  BY <1>1, <1>4, <1>5, <2>1 DEF JobsOwn
  <1>. QED  BY <1>7, <1>8, <1>11, <1>12, <1>13 DEF Pool

(* pool_process_users() and pool_process_members().                        *)
LEMMA HandlersKeep ==
    ASSUME IInv, Running,
           \/ \E u \in Users : pool_user_read(u) \/ UserWrite(u)
           \/ \E m \in Members : pool_process_data(m) \/ MemberWrite(m)
    PROVE  IInv'
  <1>0. /\ UserLists(users, waiters, numUsers) /\ MemberLists(idle, active, numActive)
        /\ FieldTypes /\ Pairs(users) /\ OutsidersAreQuiet /\ timer \in BOOLEAN
    BY DEF IInv, Pool, LoopTypes
  <1>1. PendingJobs' = PendingJobs /\ LoopTypes' /\ JobsAreDistinct' /\ BatchFollowsPc'
    <2>1. pc \in {"users", "members"}
          /\ UNCHANGED <<pc, threads, events, batch, posted, wake, fault, timer>>
      BY DEF pool_user_read, UserWrite, pool_process_data, MemberWrite, Handler, threadVars
    <2>. QED  BY <1>0, <2>1, SameJobs
  <1>2. ASSUME NEW u \in users, NEW m \in Members, assigned[u] = m,
               {u, m} \cap (recv \cup send) # {},
               \/ pool_free_user(u) \/ pool_reset_member(m) \/ pool_free_member(m)
               \/ /\ Forwarded(u, m) \/ Forwarded(m, u)
                  /\ dirty' \in {dirty, dirty \cup {m}}
        PROVE  IInv'
    BY <1>1, <1>2, SessionEnds, SessionForwards DEF IInv
  <1>3. ASSUME NEW u \in Users, pool_user_read(u) \/ UserWrite(u)
        PROVE  IInv'
    <2>1. u \in users /\ u \in recv \cup send
      BY <1>3 DEF pool_user_read, UserWrite
    <2>2. PICK m : m = assigned[u]
      OBVIOUS
    <2>3. m \in Members
      BY <1>0, <2>1, <2>2 DEF OutsidersAreQuiet, FieldTypes
    <2>. QED  BY <1>2, <1>3, <2>1, <2>2, <2>3 DEF pool_user_read, UserWrite
  <1>4. ASSUME NEW m \in Members, pool_process_data(m) \/ MemberWrite(m)
        PROVE  IInv'
    <2>1. m \in active /\ m \in recv \cup send
      BY <1>4 DEF pool_process_data, MemberWrite
    <2>2. PICK u : u = current[m]
      OBVIOUS
    <2>3. u \in users /\ assigned[u] = m
      BY <1>0, <2>1, <2>2 DEF Pairs
    <2>. QED  BY <1>2, <1>4, <2>1, <2>2, <2>3 DEF pool_process_data, MemberWrite
  <1>. QED  BY <1>3, <1>4

(* The end of pool_process_members(): idle members are closed.             *)
LEMMA ExpireStep ==
    ASSUME IInv, Running, NEW aged \in SUBSET idle, Expire(aged)
    PROVE  IInv'
  <1>1. PICK P : P = PendingJobs
    OBVIOUS
  <1>2. /\ UserLists(users, waiters, numUsers) /\ MemberLists(idle, active, numActive)
        /\ FieldTypes /\ Pairs(users) /\ OutsidersAreQuiet
        /\ SessionsHear(P, users \ {}) /\ JobsOwn(P, users)
    BY <1>1 DEF IInv, Pool, SessionsHear
  <1>3. PendingJobs' = PendingJobs /\ LoopTypes' /\ JobsAreDistinct' /\ BatchFollowsPc'
    <2>1. pc = "members" /\ pc' = "schedule" /\ timer' \in BOOLEAN
          /\ UNCHANGED <<threads, events, batch, posted, wake, fault>>
      BY DEF Expire, threadVars
    <2>. QED  BY <2>1, SameJobs
  <1>4. Closed({}, {}, aged)
    BY <1>2 DEF Closed, Pairs, MemberLists
  <1>5. Release({}, {}, aged)
    BY DEF Expire
  <1>6. Pool(P, users, waiters)' /\ JobsOwn(P, users)'
    BY <1>2, <1>4, <1>5, ReleaseKeeps
  <1>. QED  BY <1>1, <1>3, <1>6 DEF IInv

(* pool_schedule_waiters().                                                *)
LEMMA ScheduleStep ==
    ASSUME IInv, Running, pool_schedule_waiters
    PROVE  IInv'
  <1>0. LoopTypes /\ JobsAreDistinct /\ BatchFollowsPc /\ FieldTypes
        /\ Pool(PendingJobs, users, waiters) /\ JobsOwn(PendingJobs, users)
    BY DEF IInv, Pool
  <1>1. UNCHANGED <<posted, events, wake, batch, timer>> /\ pc = "schedule" /\ pc' = "poll"
    BY DEF pool_schedule_waiters
  <1>2. CASE ~(waiters # <<>> /\ idle # {})
    <2>0. UNCHANGED <<poolVars, threads, fault>>
      BY <1>2 DEF pool_schedule_waiters
    <2>1. PendingJobs' = PendingJobs /\ LoopTypes' /\ JobsAreDistinct' /\ BatchFollowsPc'
      BY <1>0, <1>1, <2>0 DEF PendingJobs, LoopTypes, JobsAreDistinct, BatchFollowsPc
    <2>2. FieldTypes'
      BY <1>0, <2>0 DEF poolVars, FieldTypes
    <2>3. Pool(PendingJobs, users, waiters)' /\ JobsOwn(PendingJobs, users)'
      BY <2>0, <2>1, <2>2, SameSessions DEF poolVars
    <2>. QED  BY <2>1, <2>3 DEF IInv
  <1>3. CASE waiters # <<>> /\ idle # {}
    <2>1. PICK P, u, us, ws : P = PendingJobs /\ u = Head(waiters)
                              /\ us = users \cup {u} /\ ws = Tail(waiters)
      OBVIOUS
    <2>2. PICK no : no = FALSE
      OBVIOUS
    <2>3. pool_user_query(u, us, ws, no) /\ fault' \in BOOLEAN
      <3>1. pool_user_query(Head(waiters), users \cup {Head(waiters)}, Tail(waiters), FALSE)
        BY <1>3 DEF pool_schedule_waiters
      <3>2. fault' \in BOOLEAN
        BY <1>0, <3>1 DEF pool_user_query, AssignIdle, AssignIdleNoThread, AssignNew,
               AssignNone, LoopTypes
      <3>. QED  BY <2>1, <2>2, <3>1, <3>2
    <2>4. UserLists(us, ws, numUsers) /\ u \in Users \ users
      BY <1>0, <1>3, <2>1, WaiterReturns DEF Pool
    <2>5. assigned[u] = NULL
      BY <1>0, <2>4, NullAssumption DEF Pool, Pairs
    <2>6. Pairs(us) /\ SessionsHear(P, us)
      BY <1>0, <2>1, <2>5 DEF Pool, Pairs, SessionsHear
    <2>7. Pool(P, us, ws)
      BY <1>0, <2>4, <2>6 DEF Pool
    <2>8. JobsOwn(P, us) /\ Served(P, us, u)
      BY <1>0, <2>1, <2>4, <2>5 DEF JobsOwn, Served, UserLists
    <2>9. PICK N \in SUBSET Jobs :
            /\ threads' = threads \cup N
            /\ \A j \in N : j.u = u
            /\ Pool(P \cup N, users, waiters)' /\ JobsOwn(P \cup N, users)'
      BY <2>3, <2>7, <2>8, QueryKeeps
    <2>10. PendingJobs' = P \cup N /\ JobsAreDistinct'
      <3>1. N \cap PendingJobs = {}
        BY <2>1, <2>8, <2>9 DEF Served
      <3>. QED  BY <1>0, <1>1, <2>1, <2>9, <3>1, PendingParts, PendingPartsNext
                DEF JobsAreDistinct
    <2>11. LoopTypes' /\ BatchFollowsPc'
      BY <1>0, <1>1, <2>3, <2>9 DEF LoopTypes, BatchFollowsPc
    <2>. QED  BY <2>9, <2>10, <2>11 DEF IInv
  <1>. QED  BY <1>2, <1>3

(* No users, no waiters and a counter at zero.                             *)
LEMMA NoUsers == UserLists({}, <<>>, 0)
  <1>1. Range(<<>>) = {} /\ Len(<<>>) = 0 /\ <<>> \in Seq(Users) /\ Distinct(<<>>)
        /\ Cardinality({}) = 0
    BY FS_EmptySet DEF Range, Distinct
  <1>. QED  BY <1>1, LimitsAssumption DEF UserLists

(* pool_destroy(): everything is gone, and both counters are back to zero. *)
LEMMA DestroyStep ==
    ASSUME IInv, Running, pool_destroy
    PROVE  IInv'
  <1>1. PendingJobs' = PendingJobs /\ LoopTypes' /\ JobsAreDistinct' /\ BatchFollowsPc'
    <2>1. pc = "poll" /\ pc' = "stopped" /\ timer' \in BOOLEAN
          /\ UNCHANGED <<threads, events, batch, posted, wake, fault>>
      BY DEF pool_destroy, threadVars, IInv, LoopTypes
    <2>. QED  BY <2>1, SameJobs
  <1>2. UserLists(users, waiters, numUsers) /\ MemberLists(idle, active, numActive)
    BY DEF IInv, Pool
  <1>3. users' = {} /\ waiters' = <<>> /\ idle' = {} /\ active' = {}
        /\ numUsers' = 0 /\ numActive' = 0
    <2>1. Cardinality(users) \in Nat /\ Len(waiters) \in Nat /\ Cardinality(idle \cup active) \in Nat
      BY <1>2, FiniteParts DEF UserLists, MemberLists
    <2>. QED  BY <1>2, <2>1 DEF pool_destroy, UserLists, MemberLists
  <1>4. Cardinality({}) = 0 /\ {} \cup {} = {}
    BY FS_EmptySet
  <1>5. UserLists(users, waiters, numUsers)'
    BY <1>3, NoUsers
  <1>6. MemberLists(idle, active, numActive)'
    BY <1>3, <1>4, LimitsAssumption DEF MemberLists
  <1>7. FieldTypes'
    BY DEF pool_destroy, FieldTypes
  <1>8. Pairs(users)' /\ OutsidersAreQuiet' /\ SessionsHear(PendingJobs, users)'
    BY <1>3 DEF pool_destroy, Pairs, OutsidersAreQuiet, SessionsHear
  <1>9. ~Running'
    BY DEF pool_destroy, Running
  <1>. QED  BY <1>1, <1>5, <1>6, <1>7, <1>8, <1>9 DEF IInv, Pool

----------------------------------------------------------------------------
(* The theorems.                                                           *)

(* pool_init() and pool_mbr_init() establish the invariant.                *)
LEMMA InitHolds ==
    ASSUME Init
    PROVE  IInv
  <1>1. /\ LoopTypes /\ JobsAreDistinct /\ BatchFollowsPc /\ PendingJobs = {}
    <2>1. EventJobs(<<>>) = {} /\ DistinctJobs(<<>>) /\ <<>> \in Seq(Events)
      BY DEF EventJobs, DistinctJobs
    <2>2. threads = {} /\ events = <<>> /\ batch = <<>> /\ pc = "poll"
          /\ posted = 0 /\ wake = FALSE /\ timer = FALSE /\ fault = FALSE
      BY DEF Init
    <2>3. LoopTypes
      BY <2>1, <2>2 DEF LoopTypes
    <2>4. JobsAreDistinct /\ PendingJobs = {}
      BY <2>1, <2>2, PendingParts DEF JobsAreDistinct
    <2>. QED  BY <2>2, <2>3, <2>4 DEF BatchFollowsPc
  <1>2. UserLists(users, waiters, numUsers)
    <2>1. users = {} /\ waiters = <<>> /\ numUsers = 0
      BY DEF Init
    <2>. QED  BY <2>1, NoUsers
  <1>3. MemberLists(idle, active, numActive)
    <2>1. idle \cup active = idle
      BY DEF Init
    <2>. QED  BY <2>1, LimitsAssumption DEF Init, MemberLists
  <1>4. FieldTypes
    BY DEF Init, FieldTypes, Socks
  <1>5. Pairs(users)
    BY DEF Init, Pairs
  <1>6. OutsidersAreQuiet /\ SessionsHear(PendingJobs, users)
    BY NullAssumption DEF Init, OutsidersAreQuiet, SessionsHear
  <1>7. JobsOwn(PendingJobs, users)
    BY <1>1 DEF JobsOwn
  <1>. QED  BY <1>1, <1>2, <1>3, <1>4, <1>5, <1>6, <1>7 DEF IInv, Pool

(* A step that changes nothing.                                            *)
LEMMA StutterKeeps ==
    ASSUME IInv, UNCHANGED vars
    PROVE  IInv'
  <1>1. UNCHANGED <<users, waiters, numUsers, idle, active, numActive, assigned, current,
                    login, version, async, sock, recv, send, unsent, dirty>>
        /\ UNCHANGED <<threads, posted, events, wake>> /\ UNCHANGED <<pc, batch, timer, fault>>
    BY DEF vars, poolVars, threadVars
  <1>2. PendingJobs' = PendingJobs /\ (Running' <=> Running)
    BY <1>1 DEF PendingJobs, Running
  <1>3. LoopTypes' /\ JobsAreDistinct' /\ BatchFollowsPc'
    BY <1>1 DEF IInv, LoopTypes, JobsAreDistinct, BatchFollowsPc
  <1>4. UserLists(users, waiters, numUsers)' /\ MemberLists(idle, active, numActive)'
        /\ FieldTypes' /\ Pairs(users)'
    BY <1>1 DEF IInv, Pool, UserLists, MemberLists, FieldTypes, Pairs
  <1>5. OutsidersAreQuiet' /\ SessionsHear(PendingJobs, users)'
    BY <1>1, <1>2 DEF IInv, Pool, OutsidersAreQuiet, SessionsHear, Hears
  <1>6. Running => JobsOwn(PendingJobs, users)'
    BY <1>1, <1>2 DEF IInv, JobsOwn
  <1>. QED  BY <1>2, <1>3, <1>4, <1>5, <1>6 DEF IInv, Pool

(* Every step of the pool keeps it.                                        *)
LEMMA StepKeeps ==
    ASSUME IInv, [Next]_vars
    PROVE  IInv'
  BY StutterKeeps, ThreadsKeep, QuietStepsKeep, ExecuteStep, AcceptStep, HandlersKeep,
     ExpireStep, ScheduleStep, DestroyStep DEF Next, MainLoop

(* The inductive invariant of the pool: see the head of the module.        *)
THEOREM InvariantHolds == Spec => []IInv
  BY InitHolds, StepKeeps, PTL DEF Spec

(* Every field of the pool, its users and its members keeps its type: the  *)
(* two counters, in particular, never go below zero.                       *)
THEOREM TypeCorrect == Spec => []TypeOK
  <1>1. IInv => TypeOK
    BY DEF IInv, Pool, LoopTypes, FieldTypes, UserLists, MemberLists, Events, TypeOK
  <1>. QED  BY <1>1, InvariantHolds, PTL

(* What pool_mbr_check() and the assert of pool_free_user() rely on: the   *)
(* lists, the pointers between users and members and the two counters      *)
(* agree, and max_open_conn and MAX_POOL_USERS hold, after any mix of      *)
(* logins, failures, disconnections and expiries.                          *)
THEOREM Consistent == Spec => []ListsAreConsistent
  <1>1. IInv => ListsAreConsistent
    BY DEF IInv, Pool, Pairs, UserLists, MemberLists, ListsAreConsistent
  <1>. QED  BY <1>1, InvariantHolds, PTL

(* login_proc(), end_login_proc() and connect_proc() run without a lock:   *)
(* what they work on is not freed, polled or given to a second thread by   *)
(* the main loop before their event has been executed.                     *)
THEOREM ThreadsOwnTheirUser == Spec => []JobsOwnTheirUser
  <1>1. IInv => JobsOwnTheirUser
    BY DEF IInv, Running, JobsOwn, JobsOwnTheirUser
  <1>. QED  BY <1>1, InvariantHolds, PTL

(* pool_write_data() and its callers never leave a session, once logged    *)
(* in, with a direction that is neither read nor waiting to be written.    *)
THEOREM SessionsKeepHearing == Spec => []NoDirectionGoesDeaf
  <1>1. IInv => NoDirectionGoesDeaf
    BY DEF IInv, Pool, SessionsHear, Hears, NoDirectionGoesDeaf
  <1>. QED  BY <1>1, InvariantHolds, PTL

(* A member gets a user in one way only, by being assigned when it has     *)
(* none; every other step keeps its user or takes it away.                 *)
LEMMA WhoGetsAUser ==
    ASSUME IInv, [Next]_vars
    PROVE  \/ \A m \in Members : current'[m] \in {current[m], NULL}
           \/ \E m \in Members \ active : \E u : current' = [current EXCEPT ![m] = u]
  <1>. DEFINE Kept == \A m \in Members : current'[m] \in {current[m], NULL}
              Given == \E m \in Members \ active : \E u : current' = [current EXCEPT ![m] = u]
  <1>0. idle \subseteq Members /\ idle \cap active = {}
    BY DEF IInv, Pool, MemberLists
  <1>1. ASSUME NEW us, NEW back, NEW freed, Release(us, back, freed)
        PROVE  Kept
    BY <1>1 DEF Release
  <1>2. ASSUME NEW u, pool_free_user(u)
        PROVE  Kept
    BY <1>1, <1>2 DEF pool_free_user, pool_reset_member, pool_free_member
  <1>3. ASSUME NEW m, pool_free_member(m) \/ pool_reset_member(m)
        PROVE  Kept
    BY <1>1, <1>3 DEF pool_reset_member, pool_free_member
  <1>4. ASSUME NEW u, NEW us, NEW ws, NEW stillUsed, pool_user_query(u, us, ws, stillUsed)
        PROVE  Kept \/ Given
    <2>1. CASE AssignIdle(u, us, ws)
      BY <1>0, <2>1 DEF AssignIdle, Assign, Compatible
    <2>2. CASE AssignNew(u, us, ws)
      BY <2>2 DEF AssignNew, Assign
    <2>3. CASE AssignIdleNoThread(u, us, ws, stillUsed) \/ AssignNone(u, us, ws)
      BY <2>3 DEF AssignIdleNoThread, AssignNone
    <2>. QED  BY <1>4, <2>1, <2>2, <2>3 DEF pool_user_query
  <1>5. CASE Threads
    BY <1>5 DEF Threads, ServerThread, login_proc, end_login_proc, connect_proc, Wakeup, poolVars
  <1>6. CASE Poll \/ Detach \/ UsersDone \/ NoExpiry \/ UNCHANGED vars
    BY <1>6 DEF Poll, Detach, UsersDone, NoExpiry, vars, poolVars
  <1>7. CASE Accept
    BY <1>7 DEF Accept, pool_user_create, poolVars
  <1>8. CASE Execute
    <2>1. PICK e : e = Head(batch)
      OBVIOUS
    <2>2. PICK ok, u, m : ok = e.ok /\ u = e.job.u /\ m = e.job.m
      OBVIOUS
    <2>3. login_execute(u, ok) \/ end_login_execute(u, ok) \/ connect_execute(m, ok)
      BY <1>8, <2>1, <2>2 DEF Execute
    <2>4. CASE login_execute(u, ok)
      <3>1. PICK yes : yes = TRUE
        OBVIOUS
      <3>2. pool_free_user(u) \/ pool_user_query(u, users, waiters, yes)
        BY <2>4, <3>1 DEF login_execute
      <3>3. PICK us, ws : us = users /\ ws = waiters
        OBVIOUS
      <3>. QED  BY <1>2, <1>4, <3>2, <3>3
    <2>5. CASE end_login_execute(u, ok)
      <3>1. PICK n : n = assigned[u]
        OBVIOUS
      <3>. QED  BY <1>3, <2>5, <3>1 DEF end_login_execute
    <2>6. CASE connect_execute(m, ok)
      BY <1>3, <2>6 DEF connect_execute
    <2>. QED  BY <2>3, <2>4, <2>5, <2>6
  <1>9. ASSUME NEW u \in Users, pool_user_read(u) \/ UserWrite(u)
        PROVE  Kept
    <2>1. PICK n : n = assigned[u]
      OBVIOUS
    <2>. QED  BY <1>2, <1>3, <1>9, <2>1 DEF pool_user_read, UserWrite, Forwarded
  <1>10. ASSUME NEW m \in Members, pool_process_data(m) \/ MemberWrite(m)
         PROVE  Kept
    <2>1. PICK v : v = current[m]
      OBVIOUS
    <2>. QED  BY <1>2, <1>3, <1>10, <2>1 DEF pool_process_data, MemberWrite, Forwarded
  <1>11. ASSUME NEW aged \in SUBSET idle, Expire(aged)
         PROVE  Kept
    BY <1>1, <1>11 DEF Expire
  <1>12. CASE pool_schedule_waiters
    <2>1. PICK no, u, us, ws : no = FALSE /\ u = Head(waiters) /\ us = users \cup {u}
                               /\ ws = Tail(waiters)
      OBVIOUS
    <2>2. CASE waiters # <<>> /\ idle # {}
      <3>1. pool_user_query(u, us, ws, no)
        BY <1>12, <2>1, <2>2 DEF pool_schedule_waiters
      <3>. QED  BY <1>4, <3>1
    <2>3. CASE ~(waiters # <<>> /\ idle # {})
      BY <1>12, <2>3 DEF pool_schedule_waiters, poolVars
    <2>. QED  BY <2>2, <2>3
  <1>13. CASE pool_destroy
    BY <1>13 DEF pool_destroy
  <1>. QED  BY <1>5, <1>6, <1>7, <1>8, <1>9, <1>10, <1>11, <1>12, <1>13 DEF Next, MainLoop

(* pool_reset_member() cannot be bypassed: in no step does a member get a  *)
(* user while it has another or while it was used since its last reset.    *)
THEOREM Isolated == Spec => SessionsAreIsolated
  <1>. DEFINE A == \A m \in Members : current[m] # current'[m] /\ current'[m] # NULL =>
                       m \notin dirty /\ current[m] = NULL
  <1>1. ASSUME IInv, [Next]_vars
        PROVE  A
    <2>1. current \in [Members -> Users \cup {NULL}] /\ Pairs(users) /\ OutsidersAreQuiet
      BY <1>1 DEF IInv, Pool, FieldTypes
    <2>. QED  BY <1>1, <2>1, WhoGetsAUser DEF Pairs, OutsidersAreQuiet
  <1>. QED  BY <1>1, InvariantHolds, PTL DEF Spec, SessionsAreIsolated
==============================================================================
