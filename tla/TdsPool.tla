------------------------------ MODULE TdsPool ------------------------------
(***************************************************************************)
(* tdspool, the connection pool of src/pool: clients (pool users) share a  *)
(* limited number of server connections (pool members).  One main thread   *)
(* polls the sockets and runs every handler; a login, the end of a login   *)
(* and the opening of a new member run in detached threads that hand their *)
(* result back as an event, put in front of pool->events and announced by  *)
(* a byte on a socket pair.                                                *)
(*                                                                         *)
(* A user is a model value that stands for the client, its connection and  *)
(* the TDS_POOL_USER allocated for it, so that a freed structure that is   *)
(* allocated again is the same value; likewise a member.  Packets are      *)
(* abstracted to "some bytes", a write to full, partial or failed.  What   *)
(* clients and server do shows in what poll() reports and in what a read   *)
(* finds: both are choices.  (revents is read through poll_index, which    *)
(* only poll()ed sockets refresh: a socket whose poll_recv was switched on *)
(* by an event of this very pass is handled on another socket's revents.)  *)
(***************************************************************************)
EXTENDS Naturals, Sequences, FiniteSets, Functions

CONSTANTS
    Users, Members,             \* TDS_POOL_USER and TDS_POOL_MEMBER structures
    Versions,                   \* TDS protocol versions of clients and server
    NULL,
    MinOpen, MaxOpen,           \* min_open_conn, max_open_conn
    MaxUsers,                   \* MAX_POOL_USERS
    MaxMemberAge,               \* max_member_age
    Exhaustion,                 \* TRUE: memory and threads may run out
    MaxLate                     \* bound: threads that have yet to write their byte

ASSUME NullAssumption == NULL \notin Users \cup Members \cup Versions /\ Users \cap Members = {}
ASSUME FiniteAssumption == IsFiniteSet(Users) /\ IsFiniteSet(Members)
ASSUME LimitsAssumption ==
    /\ MinOpen \in Nat /\ MaxOpen \in Nat /\ MaxUsers \in Nat /\ MaxMemberAge \in Nat
    /\ MaxLate \in Nat \ {0}
    /\ Exhaustion \in BOOLEAN
    /\ MinOpen <= MaxOpen /\ MaxOpen <= Cardinality(Members)

VARIABLES
    \* struct tds_pool
    users, waiters, numUsers,           \* users and waiters lists, num_users
    idle, active, numActive,            \* idle_members, active_members, num_active_members
    \* struct tds_pool_user and struct tds_pool_member
    assigned, current,                  \* assigned_member, current_user
    login,                              \* users that hold a TDSLOGIN
    version,                            \* TDS version of each user and member, once known
    async,                              \* members doing_async
    sock,                               \* users and members with a non-NULL sock.tds
    recv, send,                         \* users and members with poll_recv, poll_send
    unsent,                             \* sockets whose last packet is not all forwarded
    \* threads: running, between the two halves of pool_event_add(); pool->events;
    \* the byte in the socket pair
    threads, posted, events, wake,
    \* the main loop: where it is, the events it detached, a timeout for poll()
    pc, batch, timer,
    dirty,                              \* members used since they were last reset
    fault                               \* the process dereferenced a freed structure

poolVars == <<users, waiters, numUsers, idle, active, numActive, assigned, current,
              login, version, async, sock, recv, send, unsent, dirty>>
threadVars == <<threads, posted, events, wake>>
vars == <<poolVars, threadVars, pc, batch, timer, fault>>

Socks == Users \cup Members

(* What a detached thread works on: login_proc, end_login_proc or          *)
(* connect_proc.  `saw' tells whether connect_proc ran its test of         *)
(* pmbr->current_user after the main thread had assigned the user: it is   *)
(* started before, with no lock.                                           *)
Job(kind, u, m, saw) == [kind |-> kind, u |-> u, m |-> m, saw |-> saw]
Jobs == [kind : {"login"}, u : Users, m : {NULL}, saw : {TRUE}]
        \cup [kind : {"end"}, u : Users, m : Members, saw : {TRUE}]
        \cup [kind : {"connect"}, u : Users, m : Members, saw : BOOLEAN]

(* Every job not yet executed by the main thread.                          *)
PendingJobs == threads \cup {e.job : e \in Range(events) \cup Range(batch)}

----------------------------------------------------------------------------
(* Freeing and handing back: the mutually recursive pool_free_user(),      *)
(* pool_reset_member() and pool_free_member() end in one of these states.  *)

(* The sockets poll_send is switched off for: pool_deassign_member() does  *)
(* it for the member that is handed back.                                  *)
Silenced(us, back, freed) == us \cup back \cup freed

(* Mutant: a member that is handed back is not reset.                      *)
Cleaned_freed(back, freed) == freed

(* The members whose session is over: cancelled and reset, or closed.      *)
Cleaned(back, freed) == back \cup freed

(* Users `us' leave the pool, members `back' return to the idle list after *)
(* a reset, members `freed' are closed.                                    *)
Release(us, back, freed) ==
    /\ users' = users \ us
    /\ numUsers' = numUsers - Cardinality(us)
    /\ idle' = (idle \cup back) \ freed
    /\ active' = active \ (back \cup freed)
    /\ numActive' = numActive - Cardinality(freed)
    /\ assigned' = [u \in Users |-> IF u \in us THEN NULL ELSE assigned[u]]
    /\ current' = [m \in Members |-> IF m \in back \cup freed THEN NULL ELSE current[m]]
    /\ login' = login \ us
    /\ async' = async \ freed
    /\ sock' = sock \ (us \cup freed)
    /\ recv' = recv \ (us \cup freed)
    /\ send' = send \ Silenced(us, back, freed)
    /\ unsent' = unsent \ (us \cup freed \cup back)
    /\ dirty' = dirty \ Cleaned(back, freed)
    /\ version' = [x \in Socks |-> IF x \in us \cup freed THEN NULL ELSE version[x]]
    /\ UNCHANGED waiters

UserOf(m) == {current[m]} \ {NULL}

(* pool_free_member(): the user it serves is disconnected as well.         *)
pool_free_member_only(m) == Release({}, {}, {m})
pool_free_member(m) == Release(UserOf(m), {}, {m})

(* pool_reset_member(): the user is freed, then the member is cancelled    *)
(* and reset over the wire, which may fail.                                *)
pool_reset_member(m) ==
    \/ Release(UserOf(m), {m}, {})
    \/ pool_free_member(m)

(* pool_free_user(): its member is reset for the next user.                *)
pool_free_user(u) ==
    IF assigned[u] = NULL THEN Release({u}, {}, {})
                          ELSE pool_reset_member(assigned[u])

----------------------------------------------------------------------------
(* Finding a member for a user, in pool_user_query() and                   *)
(* pool_assign_idle_member().  `us' and `ws' are the users and waiters     *)
(* lists the caller left behind.                                           *)

Compatible(u) == {m \in idle : version[m] = version[u]}

Assign_polled(u, m) ==
    /\ assigned' = [assigned EXCEPT ![u] = m]
    /\ current' = [current EXCEPT ![m] = u]
    /\ active' = active \cup {m}
    /\ UNCHANGED <<recv, send>>
Assign(u, m) ==
    /\ assigned' = [assigned EXCEPT ![u] = m]
    /\ current' = [current EXCEPT ![m] = u]
    /\ active' = active \cup {m}
    /\ recv' = recv \ {u, m}
    /\ send' = send \ {u, m}

(* An idle member is taken and end_login_proc started for it.              *)
AssignIdle(u, us, ws) == \E m \in Compatible(u) :
    /\ Assign(u, m)
    /\ idle' = idle \ {m}
    /\ users' = us /\ waiters' = ws
    /\ threads' = threads \cup {Job("end", u, m, TRUE)}
    /\ UNCHANGED <<numUsers, numActive, login, version, async, sock, unsent,
                   dirty, fault>>

(* The same, but end_login_proc cannot be started: the member is freed and *)
(* with it the user, which login_execute() still dereferences.             *)
AssignIdleNoThread(u, us, ws, stillUsed) == Exhaustion /\ \E m \in Compatible(u) :
    /\ users' = us \ {u} /\ numUsers' = numUsers - 1
    /\ waiters' = ws
    /\ idle' = idle \ {m} /\ numActive' = numActive - 1
    /\ login' = login \ {u}
    /\ sock' = sock \ {u, m} /\ recv' = recv \ {u, m} /\ send' = send \ {u, m}
    /\ unsent' = unsent \ {u, m} /\ dirty' = dirty \ {m}
    /\ version' = [version EXCEPT ![u] = NULL, ![m] = NULL]
    /\ fault' = stillUsed
    /\ UNCHANGED <<active, assigned, current, async, threads>>

(* max_open_conn leaves room for a new member.                             *)
MayOpen == numActive < MaxOpen

(* A new member is opened by connect_proc and assigned at once.            *)
AssignNew(u, us, ws) == \E m \in Members \ (idle \cup active) :
    /\ Compatible(u) = {} /\ MayOpen
    /\ Assign(u, m)
    /\ numActive' = numActive + 1
    /\ users' = us /\ waiters' = ws
    /\ async' = async \cup {m}
    /\ \E saw \in BOOLEAN : threads' = threads \cup {Job("connect", u, m, saw)}
    /\ UNCHANGED <<numUsers, idle, login, version, sock, unsent,
                   dirty, fault>>

(* No member: the limit is reached, or memory or a thread is missing.      *)
AssignNone(u, us, ws) ==
    /\ Compatible(u) = {} /\ (MayOpen => Exhaustion)
    /\ users' = us \ {u} /\ waiters' = Append(ws, u)
    /\ recv' = recv \ {u} /\ send' = send \ {u}
    /\ UNCHANGED <<numUsers, idle, active, numActive, assigned, current, login, version,
                   async, sock, unsent, dirty, threads, fault>>

pool_user_query(u, us, ws, stillUsed) ==
    \/ AssignIdle(u, us, ws)
    \/ AssignIdleNoThread(u, us, ws, stillUsed)
    \/ AssignNew(u, us, ws)
    \/ AssignNone(u, us, ws)

----------------------------------------------------------------------------
(* The detached threads.  Each ends by putting its event in front of       *)
(* pool->events under events_mtx and, after that, writing the wakeup byte. *)

Post(job, ok) ==
    /\ threads' = threads \ {job}
    /\ events' = <<[job |-> job, ok |-> ok]>> \o events
    /\ posted < MaxLate /\ posted' = posted + 1
    /\ UNCHANGED <<wake, pc, batch, timer, fault>>

(* login_proc(): pool_user_login() reads the login packet and checks it.   *)
login_proc(u) ==
    /\ Job("login", u, NULL, TRUE) \in threads
    /\ \/ /\ Post(Job("login", u, NULL, TRUE), TRUE)
          /\ login' = login \cup {u}
          /\ \E v \in Versions : version' = [version EXCEPT ![u] = v]
       \/ Post(Job("login", u, NULL, TRUE), FALSE) /\ UNCHANGED <<login, version>>
    /\ UNCHANGED <<users, waiters, numUsers, idle, active, numActive, assigned, current,
                   async, sock, recv, send, unsent, dirty>>

(* end_login_proc(): pool_user_send_login_ack() may run a USE statement on *)
(* the member, sends the acknowledgement and frees the login.              *)
end_login_proc(u, m) ==
    /\ Job("end", u, m, TRUE) \in threads
    /\ \/ Post(Job("end", u, m, TRUE), TRUE) /\ login' = login \ {u}
       \/ Post(Job("end", u, m, TRUE), FALSE) /\ UNCHANGED login
    /\ dirty' = dirty \cup {m}
    /\ UNCHANGED <<users, waiters, numUsers, idle, active, numActive, assigned, current,
                   version, async, sock, recv, send, unsent>>

(* connect_proc(): log in to the server, then acknowledge the user's login *)
(* if the thread sees that the member already has one.                     *)
connect_proc(u, m, saw) ==
    LET job == Job("connect", u, m, saw)
    IN  /\ job \in threads
        /\ \/ /\ Post(job, FALSE)
              /\ sock' \in {sock, sock \cup {m}}
              /\ UNCHANGED <<login, dirty, version>>
           \/ /\ Post(job, TRUE)
              /\ sock' = sock \cup {m}
              /\ \E v \in Versions : version' = [version EXCEPT ![m] = v]
              /\ login' = IF saw THEN login \ {u} ELSE login
              /\ dirty' = IF saw THEN dirty \cup {m} ELSE dirty
        /\ UNCHANGED <<users, waiters, numUsers, idle, active, numActive, assigned,
                       current, async, recv, send, unsent>>

(* Mutant: the byte is not written.                                        *)
Wakeup_lost ==
    /\ posted > 0
    /\ posted' = posted - 1
    /\ UNCHANGED <<poolVars, threads, events, wake, pc, batch, timer, fault>>

(* The second half of pool_event_add().                                    *)
Wakeup ==
    /\ posted > 0
    /\ posted' = posted - 1
    /\ wake' = TRUE
    /\ UNCHANGED <<poolVars, threads, events, pc, batch, timer, fault>>

----------------------------------------------------------------------------
(* The main loop.                                                          *)

(* poll() returns; if the wakeup byte is there it is read.                 *)
Poll ==
    /\ pc = "poll"
    /\ wake' = FALSE
    /\ pc' = IF wake THEN "detach" ELSE "accept"
    /\ UNCHANGED <<poolVars, threads, posted, events, batch, timer, fault>>

(* pool_process_events() detaches the whole list ...                       *)
Detach ==
    /\ pc = "detach"
    /\ batch' = events /\ events' = <<>>
    /\ pc' = IF events = <<>> THEN "accept" ELSE "events"
    /\ UNCHANGED <<poolVars, threads, posted, wake, timer, fault>>

(* ... and executes the events one by one.                                 *)
login_execute(u, ok) ==
    \/ /\ ~ok /\ pool_free_user(u)
       /\ UNCHANGED <<threads, fault>>
    \/ ok /\ pool_user_query(u, users, waiters, TRUE)

end_login_execute(u, ok) ==
    LET m == assigned[u]
    IN  \/ /\ ~ok /\ pool_free_member(m)
           /\ UNCHANGED <<threads, fault>>
        \/ /\ ok
           /\ recv' = recv \cup {u, m} /\ send' = send \ {u, m}
           /\ UNCHANGED <<users, waiters, numUsers, idle, active, numActive, assigned,
                          current, login, version, async, sock, unsent, dirty,
                          threads, fault>>

connect_execute(m, ok) ==
    \/ /\ ~ok /\ pool_free_member(m)
       /\ UNCHANGED <<threads, fault>>
    \/ /\ ok
       /\ async' = async \ {m}
       /\ recv' = IF current[m] = NULL THEN recv ELSE recv \cup {m, current[m]}
       /\ UNCHANGED <<users, waiters, numUsers, idle, active, numActive, assigned,
                      current, login, version, sock, send, unsent, dirty, threads, fault>>

Execute ==
    /\ pc = "events"
    /\ LET e == Head(batch)
       IN  \/ e.job.kind = "login" /\ login_execute(e.job.u, e.ok)
           \/ e.job.kind = "end" /\ end_login_execute(e.job.u, e.ok)
           \/ e.job.kind = "connect" /\ connect_execute(e.job.m, e.ok)
    /\ batch' = Tail(batch)
    /\ pc' = IF Len(batch) = 1 THEN "accept" ELSE "events"
    /\ UNCHANGED <<posted, events, wake, timer>>

(* pool_user_create(): refused at the limit or without memory; a structure *)
(* whose socket or event cannot be allocated stays in the list without a   *)
(* socket; a thread that cannot be started frees the user.                 *)
pool_user_create_uncounted(u) ==
    /\ numUsers < MaxUsers
    /\ users' = users \cup {u} /\ sock' = sock \cup {u}
    /\ threads' = threads \cup {Job("login", u, NULL, TRUE)}
    /\ UNCHANGED <<numUsers, waiters, idle, active, numActive, assigned, current, login,
                   version, async, recv, send, unsent, dirty>>
pool_user_create(u) ==
    /\ numUsers < MaxUsers
    /\ users' = users \cup {u} /\ numUsers' = numUsers + 1
    /\ \/ /\ sock' = sock \cup {u}
          /\ threads' = threads \cup {Job("login", u, NULL, TRUE)}
       \/ Exhaustion /\ UNCHANGED <<sock, threads>>
    /\ UNCHANGED <<waiters, idle, active, numActive, assigned, current, login, version,
                   async, recv, send, unsent, dirty>>

Accept ==
    /\ pc = "accept"
    /\ \/ \E u \in Users \ (users \cup Range(waiters)) : pool_user_create(u)
       \/ UNCHANGED <<poolVars, threads>>
    /\ pc' = "users"
    /\ UNCHANGED <<posted, events, wake, batch, timer, fault>>

(* pool_write_data(from, to) after the destination took everything, or a   *)
(* part; a failure is left to the caller.                                  *)
WroteAll(from, to) ==
    recv' = recv \cup {from} /\ send' = send \ {to} /\ unsent' = unsent \ {from}
WrotePart_unscheduled(from, to) ==
    recv' = recv \ {from} /\ unsent' = unsent \cup {from} /\ UNCHANGED send
WrotePart(from, to) ==
    recv' = recv \ {from} /\ send' = send \cup {to} /\ unsent' = unsent \cup {from}

Forwarded(from, to) ==
    /\ WroteAll(from, to) \/ WrotePart(from, to)
    /\ UNCHANGED <<users, waiters, numUsers, idle, active, numActive, assigned, current,
                   login, version, async, sock>>

(* One step of pool_process_users() or pool_process_members().             *)
Handler(phase) == pc = phase /\ UNCHANGED <<pc, threadVars, batch, timer, fault>>

(* pool_user_read(): the client is gone or sent an unknown packet type,    *)
(* the member refused the packet, or the packet went through.              *)
pool_user_read(u) ==
    /\ Handler("users") /\ u \in users \cap recv
    /\ \/ pool_free_user(u)
       \/ pool_reset_member(assigned[u])
       \/ Forwarded(u, assigned[u]) /\ dirty' = dirty \cup {assigned[u]}

(* The rest of a member's packet goes to its user.                         *)
UserWrite(u) ==
    /\ Handler("users") /\ u \in users \cap send
    /\ \/ pool_free_member(assigned[u])
       \/ Forwarded(assigned[u], u) /\ UNCHANGED dirty

UsersDone ==
    /\ pc = "users" /\ pc' = "members"
    /\ UNCHANGED <<poolVars, threadVars, batch, timer, fault>>

(* pool_process_data(): the server is gone, the user refused the packet,   *)
(* or it went through.                                                     *)
pool_process_data(m) ==
    /\ Handler("members") /\ m \in (active \cap recv) \ async
    /\ \/ pool_free_member(m)
       \/ pool_free_user(current[m])
       \/ Forwarded(m, current[m]) /\ UNCHANGED dirty

(* The rest of a user's packet goes to its member.                         *)
MemberWrite(m) ==
    /\ Handler("members") /\ m \in (active \cap send) \ async
    /\ \/ pool_free_member(m)
       \/ Forwarded(current[m], m) /\ UNCHANGED dirty

(* The end of pool_process_members(): with more members than               *)
(* min_open_conn, every idle member that reached max_member_age is closed, *)
(* and the oldest other one sets the timeout of the next poll().           *)
Expire(aged) ==
    /\ pc = "members" /\ numActive > MinOpen
    /\ MaxMemberAge = 0 => aged = idle
    /\ Release({}, {}, aged)
    /\ timer' = (idle' # {})
    /\ pc' = "schedule"
    /\ UNCHANGED <<threadVars, batch, fault>>

NoExpiry ==
    /\ pc = "members" /\ numActive <= MinOpen
    /\ timer' = FALSE
    /\ pc' = "schedule"
    /\ UNCHANGED <<poolVars, threadVars, batch, fault>>

(* pool_schedule_waiters(): one waiter is tried again if a member is idle. *)
pool_schedule_waiters_room ==
    /\ pc = "schedule"
    /\ IF waiters # <<>> /\ MayOpen
       THEN pool_user_query(Head(waiters), users \cup {Head(waiters)}, Tail(waiters), FALSE)
       ELSE UNCHANGED <<poolVars, threads, fault>>
    /\ pc' = "poll"
    /\ UNCHANGED <<posted, events, wake, batch, timer>>
pool_schedule_waiters ==
    /\ pc = "schedule"
    /\ IF waiters # <<>> /\ idle # {}
       THEN pool_user_query(Head(waiters), users \cup {Head(waiters)}, Tail(waiters), FALSE)
       ELSE UNCHANGED <<poolVars, threads, fault>>
    /\ pc' = "poll"
    /\ UNCHANGED <<posted, events, wake, batch, timer>>

(* SIGTERM: pool_mbr_destroy() and pool_user_destroy(), with no regard to  *)
(* the threads that still run.                                             *)
pool_destroy ==
    /\ pc = "poll"
    /\ users' = {} /\ waiters' = <<>>
    /\ idle' = {} /\ active' = {}
    /\ numActive' = numActive - Cardinality(idle \cup active)
    /\ numUsers' = numUsers - (Cardinality(users) + Len(waiters))
    /\ assigned' = [u \in Users |-> NULL] /\ current' = [m \in Members |-> NULL]
    /\ login' = {} /\ async' = {} /\ sock' = {} /\ recv' = {} /\ send' = {}
    /\ unsent' = {} /\ dirty' = {} /\ version' = [x \in Socks |-> NULL]
    /\ pc' = "stopped"
    /\ UNCHANGED <<threadVars, batch, timer, fault>>

----------------------------------------------------------------------------
(* pool_mbr_init(): min_open_conn members are logged in before the loop.   *)
Init ==
    /\ users = {} /\ waiters = <<>> /\ numUsers = 0
    /\ idle \in SUBSET Members /\ Cardinality(idle) = MinOpen
    /\ active = {} /\ numActive = MinOpen
    /\ assigned = [u \in Users |-> NULL] /\ current = [m \in Members |-> NULL]
    /\ version \in [Socks -> Versions \cup {NULL}]
    /\ \A x \in Socks : version[x] = NULL <=> x \notin idle
    /\ login = {} /\ async = {} /\ sock = idle /\ recv = idle /\ send = {}
    /\ unsent = {} /\ dirty = {}
    /\ threads = {} /\ posted = 0 /\ events = <<>> /\ wake = FALSE
    /\ pc = "poll" /\ batch = <<>> /\ timer = FALSE
    /\ fault = FALSE

ServerThread(u, m) ==
    end_login_proc(u, m) \/ \E saw \in BOOLEAN : connect_proc(u, m, saw)

Threads ==
    \/ \E u \in Users : login_proc(u)
    \/ \E u \in Users, m \in Members : ServerThread(u, m)
    \/ Wakeup

MainLoop ==
    \/ Poll \/ Detach \/ Execute \/ Accept
    \/ \E u \in Users : pool_user_read(u) \/ UserWrite(u)
    \/ UsersDone
    \/ \E m \in Members : pool_process_data(m) \/ MemberWrite(m)
    \/ (\E aged \in SUBSET idle : Expire(aged)) \/ NoExpiry
    \/ pool_schedule_waiters

Running == pc # "stopped" /\ ~fault

Next == Running /\ (MainLoop \/ pool_destroy \/ Threads)

Spec == Init /\ [][Next]_vars

(* The main thread keeps running: poll() returns when the wakeup byte or a *)
(* timeout makes it (not, as far as fairness goes, for a socket), every    *)
(* handler ends (pool_reset_member() waits for the server) and so does     *)
(* every loop.  A thread that posted its event writes the byte, and one    *)
(* that talks to the server ends, with an answer or an error.  A login has *)
(* no such promise: login_proc() waits for the client's packet for ever.   *)
Fairness ==
    /\ WF_vars(Running /\ (wake \/ timer) /\ Poll)
    /\ WF_vars(Running /\ (Detach \/ Execute \/ Accept \/ UsersDone))
    /\ WF_vars(Running /\ ((\E aged \in SUBSET idle : Expire(aged)) \/ NoExpiry
                          \/ pool_schedule_waiters))
    /\ WF_vars(Running /\ Wakeup)
    /\ \A u \in Users, m \in Members : WF_vars(Running /\ ServerThread(u, m))

FairSpec == Spec /\ Fairness

----------------------------------------------------------------------------
(* Properties.                                                             *)

(* Every variable has its type.                                            *)
TypeOK ==
    /\ users \subseteq Users /\ waiters \in Seq(Users)
    /\ idle \subseteq Members /\ active \subseteq Members
    /\ numUsers \in Nat /\ numActive \in Nat
    /\ assigned \in [Users -> Members \cup {NULL}]
    /\ current \in [Members -> Users \cup {NULL}]
    /\ version \in [Socks -> Versions \cup {NULL}]
    /\ login \subseteq Users /\ async \subseteq Members /\ dirty \subseteq Members
    /\ sock \subseteq Socks /\ recv \subseteq Socks /\ send \subseteq Socks
    /\ unsent \subseteq Socks
    /\ threads \subseteq Jobs /\ posted \in Nat
    /\ events \in Seq([job : Jobs, ok : BOOLEAN])
    /\ batch \in Seq([job : Jobs, ok : BOOLEAN])
    /\ wake \in BOOLEAN /\ timer \in BOOLEAN /\ fault \in BOOLEAN
    /\ pc \in {"poll", "detach", "events", "accept", "users", "members", "schedule", "stopped"}

(* pool_mbr_check() and the assert of pool_free_user(): a member is active *)
(* exactly when it serves a user, that user is in the users list and       *)
(* points back at it, no member is in both lists, and num_active_members   *)
(* counts them all; likewise num_users.  max_open_conn and MAX_POOL_USERS  *)
(* are never exceeded, whatever mix of logins, failures and disconnections *)
(* goes on.                                                                *)
ListsAreConsistent ==
    /\ idle \cap active = {}
    /\ \A m \in Members : m \in active <=> current[m] # NULL
    /\ \A m \in active : current[m] \in users /\ assigned[current[m]] = m
    /\ \A u \in Users : assigned[u] # NULL =>
           assigned[u] \in active /\ current[assigned[u]] = u
    /\ numActive = Cardinality(idle \cup active)
    /\ users \cap Range(waiters) = {} /\ Len(waiters) = Cardinality(Range(waiters))
    /\ numUsers = Cardinality(users) + Len(waiters)
    /\ numActive <= MaxOpen /\ numUsers <= MaxUsers

(* A structure that a detached thread or its event still refers to is not  *)
(* freed before the event has run, belongs to no second thread, and is     *)
(* left alone by the main loop: neither it nor its partner is polled.      *)
JobsOwnTheirUser ==
    pc # "stopped" /\ ~fault =>
    /\ \A j \in PendingJobs :
        /\ j.u \in users /\ assigned[j.u] = j.m
        /\ j.u \notin recv \cup send
        /\ j.kind = "connect" <=> j.m \in async
        /\ j.m # NULL => j.m \notin send /\ (j.m \notin recv)
    /\ \A j, k \in PendingJobs : j.u = k.u => j = k

(* Once its login is over, no direction of a user's session goes deaf:     *)
(* each side is being polled for input, or a packet of it is only partly   *)
(* forwarded and the other side is being polled to write the rest.         *)
NoDirectionGoesDeaf ==
    \A u \in users :
        assigned[u] # NULL /\ ~(\E j \in PendingJobs : j.u = u) =>
            LET m == assigned[u]
            IN  /\ u \in recv <=> u \notin unsent
                /\ m \in recv <=> m \notin unsent
                /\ m \in send <=> u \in unsent
                /\ u \in send <=> m \in unsent

(* A member that served one user is cancelled and reset before it serves   *)
(* the next: no state, and no answer, of one session reaches another.      *)
SessionsAreIsolated ==
    [][ \A m \in Members : current[m] # current'[m] /\ current'[m] # NULL =>
            m \notin dirty /\ current[m] = NULL ]_vars

(* Every result a thread hands over is executed by the main thread.        *)
EventsAreExecuted ==
    \A j \in Jobs : (\E i \in DOMAIN events : events[i].job = j)
                   ~> (j \notin PendingJobs \/ pc = "stopped")

(* No member sits idle while a user waits for one: the wait ends, or the   *)
(* idle members are taken (main.c, pool_schedule_waiters()).               *)
IdleMembersServeWaiters ==
    (waiters # <<>> /\ idle # {}) ~> (waiters = <<>> \/ idle = {} \/ pc = "stopped")
============================================================================
