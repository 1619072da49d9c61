# FreeTDS in TLA+

FreeTDS is a client implementation of TDS, the protocol of Microsoft SQL Server
and Sybase. This directory holds TLA+ models of the parts of it in which the
*order* of things matters, TLC configurations that check them on small
instances, and TLAPS proofs for every value of the constants.

Paths such as `tds/packet.c` are relative to `src/src/`.

## 1. Inventory

### The system

```
 application        application         clients
   | db-lib           | ODBC, ct-lib       | TDS
   v                  v                    v
 dblib/dblib.c      odbc/odbc.c, ctlib/  pool/main.c  <- threads: login, connect
   | buffering.h      |                    | user.c, member.c
   v                  v                    v
 libtds: TDSSOCKET, one per session (tds/util.c, query.c, token.c, bulk.c)
   |
 libtds: TDSCONNECTION, one per socket (tds/packet.c, net.c, mem.c)
   v
 socket -> server
```

| component | state it keeps | operations | interacts with | what is hard | what makes it correct |
|---|---|---|---|---|---|
| db-lib row buffer (`dblib/buffering.h`, `dblib.c`) | ring of rows, `head`, `tail`, `current`, the shared `current_row` | `dbnextrow`, `dbgetrow`, `dbsetrow`, `dbclrbuf`, `dbsetopt`, `dbresults`, `dbcanquery`, `dbreadtext` ... | reads rows from libtds | any order of calls; wrap; full against empty; values of the newest row live outside the ring | the ring is a window of consecutive rows whose values do not change |
| tdspool (`pool/`) | users, waiters, idle and active members, event list, poll flags | one `poll()` loop with handlers; detached threads for logins and connects | threads post events and write a byte to a socket pair | the loop against the threads; partial writes; failures half way; a structure freed under a thread | lists and counters agree, limits hold, no event is lost, no session leaks into the next, waiters are served |
| MARS network (`tds/packet.c`, `net.c`) | `in_net_tds`, packet queues, SMP windows, `sending_packet`, `packet_cond` | write, read, acknowledge, close a session | all threads of a connection share one socket and one of them does everyone's I/O | handing over the network; lost signals; windows across wrap; closes crossing data | one network thread, packets in order and within windows, every call returns |
| session, token loop and cancel (`tds/util.c`, `token.c`, `query.c`, `bulk.c`) | `state`, `wire_mtx`, `in_cancel`, `out_flag`, `bulk_query` | submit, process tokens, bulk rows, cancel | cancel may come from another thread, from a timeout handler, or from the same thread | the cancel crosses the end of the answer; tests without locks | the lock follows the state; client and server stay in step; a cancelled call returns |
| request building and packet freezes (`tds/write.c`, `packet.c`) | `send_packet`, `out_pos`, the packets kept back, nesting | `tds_put_n`, `tds_put_int` ..., `tds_freeze`, `_close`, `_abort`, `tds_flush_packet` | writers of requests | lengths across packets, nesting, failure in the middle | the stream that was meant is sent, in full packets; every packet has one owner |
| prepared statements and cursors (`tds/mem.c`, `query.c`, `token.c`) | `conn->dyns`, `conn->cursors`, reference counts, `defer_close`, `pending_close` | prepare, execute, open, fetch, close, deferred close | statements, sessions and the connection all refer to them | closes made inside the end of another answer | counts are exact, nothing is left open at the server |
| token contents (`tds/token.c`), reading, data (`read.c`, `data.c`, `stream.c`) | `TDSRESULTINFO`, buffers | one parser per token | token loop | byte formats | round trips |
| login, TLS, authentication (`login.c`, `tls.c`, `challenge.c`, `gssapi.c`, `sspi.c`, `sec_negotiate.c`) | handshake | one sequence per connection | external libraries | retries, routing | - |
| conversions (`convert.c`, `numeric.c`, `iconv.c`) | none | pure functions | - | boundaries of types | agree with a reference |
| configuration, logging (`config.c`, `locale.c`, `log.c`) | `TDSLOGIN` | parse | - | - | - |
| db-lib commands and results (`dblib.c`, `rpc.c`) | `dbresults_state`, command buffer, list of procedures | `dbsqlsend`, `dbsqlok`, `dbresults`, `dbnextrow`, `dbcanquery`, `dbcancel`, `dbrpcsend` ... | all read one token stream | any order of calls; refused requests | no row is lost, every result set is announced once, before its rows |
| db-lib bulk copy (`bcp.c`), pivot, two-phase commit (`dbpivot.c`, `xact.c`) | file and column formats | `bcp_exec`, `bcp_sendrow` ... | bulk states of the session | formats | - |
| ct-lib (`ctlib/ct.c`) | per command: `command_state`, `results_state`, `cancel_state`, `curr_result_type` | `ct_send`, `ct_results`, `ct_fetch`, `ct_cancel` | the commands of a connection share one token stream | commands and cancels crossing each other | a command gets its own rows, all of them; no call waits for nothing |
| ODBC (`odbc/odbc.c`) | `current_statement`, `stmt->tds`, `stmt->dyn`, `stmt->cursor` | `SQLPrepare`, `SQLExecute`, `SQLFetch`, `SQLMoreResults`, `SQLFreeStmt` ... | statements take sessions from each other | a session freed or taken inside a call | a session has one owner, an answer its asker |
| server library, tools, replacements (`server/`, `apps/`, `replacements/`, `utils/`) | - | - | - | - | - |

`PROJECT.json` lists the same parts with their status, and, under "hazards", the
places in this code where something can go wrong that a test would hardly reach.

### Plan

In order of importance; 1 to 8 are modelled and their safety is proved.

1. `RowBuffer` with its abstract specification `RowWindow`; invariants and refinement proved.
2. `TdsPool`: the loop, the threads and the events of the pool; safety proved.
3. `MarsNet`: several threads on one connection; safety proved.
4. `TdsSession`: the states of one session and the cancel protocol; safety proved.
5. `Tokens`, `DbResults`: the token loop as its callers see it, and the `dbresults_state`
   machine of db-lib on top of it; proved.
6. `CtResults`: the commands of a ct-lib connection on the same token loop; safety proved.
7. `OdbcStatements`: who owns a session, and prepared statements and cursors with their
   reference counts and deferred closes; safety proved for programs of one thread.
8. `WriteBuffer`: requests cut into packets, nested freezes; proved.
9. Left: the reuse of MARS session ids between our FIN and the server's, composed with an
   abstraction of `MarsNet`; ct-lib cursors; packed numerics (`numeric.c`) as operators over
   a small base against a reference over integers; the retries of the login.

Every safety property of the passing runs is stated by a theorem. The modules declare no RECURSIVE operator, so that they can be proved about.

## 2. The modules and the code

### RowBuffer, RowWindow (db-lib row buffer)

One action per public call of `dblib.c`; each does all that the call does to the
ring. `head`, `tail`, `current`, `capacity`, `received` are the fields of
`DBPROC_ROWBUF`; `rowno` is `row->row` of every slot and `own` its `row_data`,
`live` the values in `resinfo->current_row`. A row's values are the position of the
row in the server's answer. `src` and `ret` are history: what was stored in a slot,
and what the last call delivered. Calls on a ring that is not allocated, and the
`assert()`s, stop the program (`fault`).

`RowWindow` is what the buffer promises to the application: a window `lo..hi` of row
numbers that grows at the top, is cut at the bottom but never emptied, and in which
rows can be read again. `ImplementsWindow` is the refinement.

### TdsPool (tdspool)

`pc` is where the main loop is in a pass: poll, detach events, execute them, accept,
users, members, schedule waiters. Each handler is one action, with every function it
calls. Detached threads are *jobs*: `login_proc`, `end_login_proc`, `connect_proc`
each end by posting an event; `pool_event_add()` is two steps, the list (under its
mutex) and the byte (after it). `connect_proc` is started before the main thread has
assigned the user, so its look at `pmbr->current_user` is a choice (`saw`). Packets
are "some bytes"; a write is full, partial or failed. Memory and threads may run out
(`Exhaustion`). What client and server do is a choice of `poll()` and reads.

### MarsNet (MARS network)

Each session has a thread that sends a request of some packets and reads an answer
of some packets. `tds_connection_put_packet()` and `tds_read_packet()` are loops
under `list_mtx`; a step is what happens between two places where the mutex is
released: entering the network, waiting on `packet_cond`, returning. Inside the
network, `poll()` (with the events decided before it blocked), one write, the read of
a header and the read of the rest are steps, as other threads run between them.
`mtx` is the thread that comes back from the network with the mutex. Sequence numbers
are modulo `SeqMod`, and compared as the code does it, by the sign of a difference.
A read takes the first packet of its session from the packets received, which all sessions
share (`First`, `Without`). The server is external: it reads in order, keeps to the window, acknowledges.

### TdsSession (state, tokens, cancel)

`To`, `ToPending`, `ToWriting`, `ToReading` are the transitions of `tds_set_state()`
with `wire_mtx`. The worker is the thread whose calls `stmt->mtx` serialises; the
canceller is another thread in `SQLCancel()`, whose test, assignment, type and flush
are separate steps because nothing protects them. Tokens are rows, DONE with more
results, final DONE with or without error, and the DONE that acknowledges a cancel;
`tds_process_end()` is split at its test of `in_cancel`, since the other thread can
set it there. Four kinds of application are checked together: `"plain"` (one thread,
bulk data is not cancelled), `"bulkcancel"`, `"threads"` (another thread cancels; the
first waits for it before its next call) and `"race"` (it does not wait). A request
is one packet and a write is one step: `MarsNet` has the details of the network.

### Tokens (the token loop)

An answer is a sequence of tokens that ends with the only DONE without
`TDS_DONE_MORE_RESULTS`, or where the connection is lost. `tds_process_tokens()` is a
function of the answer, the place reached and the caller's flags (`TDS_RETURN_X`,
`TDS_STOPAT_X`): what it returns and where the next call goes on. A return status counts
only if what follows ends the results of a procedure, as in the code. Cancelled answers
are in `TdsSession`. `IsAnswer` says what the models take for an answer, as the code
that reads it does: the result set before is ended by a DONE when the next format comes; rows,
compute rows and compute formats are inside a result set, compute formats before its rows;
parameters and the return status are outside. It is checked of the answers of the runs, and
it is what the proofs assume of an answer.

### DbResults (db-lib commands and results)

One action per call, and one per turn of the loops of `dbsqlok()`, `dbresults()` and
`dbnextrow()`. Calls made of calls (`dbsqlexec()`, `dbuse()`, `dbwritetext()`) keep what is
left to do in `todo`. The program may make any call at any time, except `dbsqlok()`, which
it calls only after it sent something. `taken`, `dropped`, `announced` and `excused` are
history: rows delivered or discarded, result sets announced or given up by the program.

### CtResults (ct-lib commands and results)

The variables are the fields of `CS_COMMAND`, one value per command; the token stream is
shared. `ct_results()` is its entry and one action per turn of its loop; `ct_fetch()` and the
three kinds of `ct_cancel()` are one action each. `stuck`: a call waits for data of an idle
session. A refused `ct_send()` costs nothing of the bound on sends. With `Disciplined` a program
sends a command only after `CS_END_RESULTS` or a cancel of the last, or while an answer is
pending (and is refused), and fetches or cancels the results that `ct_results()` told it of;
section 5 says what happens otherwise.

### OdbcStatements (ODBC statements, prepared statements and cursors)

The connection is one record `d`, and the functions of the code are operators from one
value of `d` to the next, so that a call that calls others is their composition:
`odbc_SQLExecute` calls `odbc_free_dynamic`, which locks, submits, reads to the end
(`Finish`, with the pending closes inside, made one after the other by a local recursive
function) and unlocks. A call that sends a request is two
steps: the part of `odbc_lock_statement()` under the mutex of the connection, and the rest.
`server` is what the server holds, `asker` who sent the last request of a session. `fault`
records the use of a freed session and a failed assertion. `Threads` and `Careful` choose
the kind of program; section 5 tells what TLC shows with other values than the run's.

### WriteBuffer (requests, packets, freezes)

`chain` is the list from `frozen_packets` (or `send_packet`) to `send_packet`, each packet
the bytes written to it without the header; `freezes` are the `TDSFREEZE`s of the callers.
Bytes are digits of lengths or numbered data; `want` is the stream that is meant, with
aborted parts removed and lengths in place; the length that is meant is counted in `want`
(`Counts`), independently of `tds_freeze_written()`. A send fails after `luck` packets. The
properties compare what leaves with `want`.

## 3. The runs

| run | what it asks | result | distinct states |
|---|---|---|---|
| `rowbuffer` | window, saved copies, values, order of delivery, and that the ring implements `RowWindow` | hold | 23 thousand |
| `pool` | lists and limits, ownership by threads, poll flags, isolation, with failures | hold | 233 thousand |
| `pool_live` | is every event executed and every idle member used? | yes | 12 thousand |
| `mars` | network thread, windows, order with FIN last, with timeouts, give-ups and a lost connection | hold | 2.5 million |
| `mars_live` | does every call return, with a query timeout? | yes | 118 thousand |
| `session` | lock, step with the server, cancels sent and not forgotten, cancelled calls return | hold | 586 thousand |
| `dbresults` | are rows lost, result sets passed, announced twice or mixed up? | no | 409 thousand |
| `ctresults` | do two commands get their own rows and results, all of them? | yes | 1.3 million |
| `ct_empty_result` | can a fetch wait for data that will not come? | yes, after an empty result set of a dynamic command | |
| `odbc` | session ownership, reference counts, deferred closes | hold | 267 thousand |
| `writebuffer` | is what is sent what was meant? | yes | 453 thousand |
| `freeze_failed_send` | has every packet one owner when a send fails? | no, if it is the last one kept back | |

The two runs that are violated state what a comment or an assertion of the code says;
"findings" in `PROJECT.json` quotes it.

### Bounds

- `rowbuffer`: capacities 1, 2 and 3 and up to five rows: every ring wraps, is full,
  is cut across the wrap, and rows are read again and cleared in all positions. The
  theorems remove the bounds for the properties they cover.
- `pool`: three users and three members, of which two users and two members may be
  there at once, so that freed structures come back; two protocol versions, so that an
  idle member may be unfit for a user; at most two threads between posting and writing
  their byte (`MaxLate`), enough for two bytes to be merged. Symmetric in users and members.
- `pool_live`: one member, two users and one version. With two versions a waiter can
  starve, as each pass tries one waiter only (see section 5).
- `mars`: two sessions, one that sends three packets and one that is sent three,
  with a window of two (4 in the code) and an ACK when one packet may still come (2 in
  the code): both windows close and open again. Sequence numbers are modulo 8 and
  start at 6, so all of them wrap.
- `mars_live`: the same with short answers, without give-ups and losses.
- `session`: two queries (so that what is left of the first meets the second), one
  token on the way in addition to acknowledgements, one packet of bulk data.
- `dbresults`, `ctresults`: two requests, so that what one leaves meets the next, and a
  set of answers with one or two statements: result sets with rows, empty, with compute
  rows, statements of a procedure with return status and parameters, errors before and
  after rows, a lost connection. In `ctresults` a second statement, a
  result set of one row, follows an empty result set, an error, or a procedure with both
  status and parameters. ct-lib has two commands (symmetric) and fetches two rows at once.
- `odbc`: two statements that compete for two sessions (one that can be taken, one that
  comes and goes), two prepared statements (an old one and its successor) and one cursor;
  MARS on or off.
- `writebuffer`: packets of three bytes with two of spare room, integers of one and two
  bytes, lengths of two digits of base three (they lie across packets and overflow), two
  freezes in each other and three packets kept back. Data are numbered modulo three,
  so that bytes out of place within a packet are seen; a packet lost or doubled shows in
  the length of what is left.

### Fairness

The runs with fairness are `pool_live`, `mars_live` and `session`. Threads inside calls run,
the socket delivers. Beyond that:

- pool: `poll()` returns for the wakeup byte or its timeout (not necessarily for a
  client); a thread that talks to the server ends, with an answer or an error; a login
  has no such promise, as it waits for the client.
- mars: the server acknowledges what it reads; with `Timeouts`, waits elapse, as
  `tds_select()` and `tds_cond_timedwait()` return after `query_timeout`. Nothing makes
  the application call or the server answer.
- session: the server reads what is sent to it and so acknowledges a cancel. Nothing
  makes it finish a query, so `CancelEndsTheCall` cannot be met by a query that ends.

No run checks for deadlock: an application may stop calling, bounds end, a pool
that is stopped does nothing more, and a program that failed an `assert()` is over.

## 4. The proofs

| module | theorem | statement |
|---|---|---|
| `RowBuffer_proof` | `TypeCorrect` | `Spec => []TypeOK` |
| `RowBuffer_proof` | `Contiguous` | `Spec => []WindowIsContiguous` |
| `RowBuffer_proof` | `ValuesAreKept` | `Spec => []RowsKeepTheirValues` |
| `RowBuffer_proof` | `OlderSaved` | `Spec => []OlderRowsAreSaved` |
| `RowBuffer_proof` | `NextFollows` | `Spec => NextRowFollows` |
| `RowBuffer_proof` | `Implementation` | `Spec => ImplementsWindow` |
| `TdsSession_proof` | `WireLock` | `Spec => []WireMutexFollowsState` |
| `TdsSession_proof` | `TypeCorrect` | `Spec => []TypeOK` |
| `TdsSession_proof` | `CancelsAreSent` | `Spec => []AskedCancelsAreSent` |
| `TdsSession_proof` | `InStepWithServer` | `Spec => []StaysInStep` |
| `TdsPool_proof` | `TypeCorrect` | `Spec => []TypeOK` |
| `TdsPool_proof` | `Consistent` | `Spec => []ListsAreConsistent` |
| `TdsPool_proof` | `ThreadsOwnTheirUser` | `Spec => []JobsOwnTheirUser` |
| `TdsPool_proof` | `SessionsKeepHearing` | `Spec => []NoDirectionGoesDeaf` |
| `TdsPool_proof` | `Isolated` | `Spec => SessionsAreIsolated` |
| `MarsNet_proof` | `TypeCorrect` | `Spec => []TypeOK` |
| `MarsNet_proof` | `OneInNetwork` | `Spec => []OneNetworkThread` |
| `MarsNet_proof` | `PutsAreWritten` | `Spec => []SentMeansWritten` |
| `MarsNet_proof` | `InWindow` | `Spec => []SendsStayInWindow` |
| `MarsNet_proof` | `OrderIsKept` | `Spec => []NothingOutOfOrder` |
| `DbResults_proof` | `TypeCorrect` | `Spec => []TypeOK` |
| `DbResults_proof` | `RowsAreSafe` | `Spec => []NoRowIsSwallowed` |
| `DbResults_proof` | `SetsAreAnnounced` | `Spec => []ResultSetsAreAnnounced` |
| `DbResults_proof` | `RowsComeAfter` | `Spec => RowsFollowTheirAnnouncement` |
| `CtResults_proof` | `TypeCorrect` | `Spec => []TypeOK` |
| `CtResults_proof` | `NoRowIsLost` | `Spec => []NoRowIsSwallowed` |
| `CtResults_proof` | `OwnRows` | `Spec => []RowsGoToTheirCommand`, if `Disciplined` |
| `CtResults_proof` | `FetchesFindAnAnswer` | `Spec => []FetchFindsAnAnswer`, if `Disciplined` |
| `CtResults_proof` | `AllIsReported` | `Spec => ResultsAreReported`, if `Disciplined` and `ProceduresInOrder` |
| `OdbcStatements_proof` | `TypeCorrect` | `Spec => []TypeOK`, if `~Threads` |
| `OdbcStatements_proof` | `RefCounts` | `Spec => []RefCountsMatch`, if `~Threads` |
| `OdbcStatements_proof` | `Owners` | `Spec => []AnswersHaveTheirOwner`, if `~Threads` and `Careful` |
| `OdbcStatements_proof` | `NothingForgotten` | `Spec => []NoForgottenClose`, if `~Threads` and `Careful` |
| `WriteBuffer_proof` | `TypeCorrect` | `Spec => []TypeOK` |
| `WriteBuffer_proof` | `StreamIntact` | `Spec => []StreamIsIntact` |

The lemmas about the token loop are at the beginning of `DbResults_proof` and `CtResults_proof`.

*Row buffer.* Assumed: capacities are numbers greater than 1 (`dbsetopt()` refuses
others; 1 stands for "off") and `MaxRows` is a number. `TypeOK` alone is not
inductive: when `dbclrbuf()` moves the tail, it stays in the ring only because an
empty ring is in its initial position and fewer rows are deleted than there are,
which is part of `WindowIsContiguous`. The invariant is `IInv`, their conjunction;
one lemma per call. The heart is `FetchStep`: the filled part grows by exactly the
slot at `head`, which was empty because the ring was not full, in each of the ways
`head` and `tail` can lie.

*Values.* The newest row has no copy of its own, so `OlderRowsAreSaved` is not
inductive: when a row stops being the newest, what `buffer_save_row()` puts in its
slot must be its own values. That is `RowsKeepTheirValues`, which holds only while
rows can be fetched (`dbcanquery()` breaks it, and ends that); and the copy must not
look like NULL, so rows have values (`RowsHaveValues`). `VInv` is the three together,
on top of `IInv`.

*Refinement.* The window of `RowWindow` is `rowno[tail] .. received`, empty when the
ring is in its initial position or not allocated. `WindowIsContiguous` turns its lower
end into arithmetic on `head` and `tail`, from which a fetch extends it by one row
while it has room, and `dbclrbuf()` raises it by fewer rows than there are. A slot that
is delivered is empty or in the window (`SlotsAreInWindow`), which for a ring that is not
allocated needs `FreshRing`: nothing was received since `dbsetopt()`.

*Order of delivery.* `NextRowFollows` compares the call made now with what the last call
delivered, so the invariant has to remember it: `FInv` says that after a row was delivered
`current` is the slot after that row, and that a ring without memory is in its initial
position. The asserts of `buffer_current_index()` let it read only a slot that holds a row
(`CurrentIsFilled`), and from `WindowIsContiguous` the slot after a row holds the row after it.

*Session.* For every application and any `MaxQueries`, `MaxTokens` and `MaxPackets`.
`WireMutexFollowsState` is inductive as it stands: every transition of `tds_set_state()`
moves the lock with the state, whoever makes it, and every step that returns to the
application comes from or goes to a state without the lock. `AskedCancelsAreSent` needs
`TypeIsKept`: the packet type that the canceller chose is still there when it flushes, unless
the query has ended. `StaysInStep` says what is true of a session at rest; the proof has
to say where everything is while the session is not at rest. That is `Waiting`: with no
cancel, the pipe holds the request, or the server works on it, or the final DONE is the last
token on the way; with a cancel, the cancel is the last packet to the server, or its
acknowledgement the last token from it, whatever part of the answer comes before. From this it
follows that a session that becomes idle has read everything, also when the cancel crossed
the end of the answer. `Plain` adds where the worker is in each state (`Places`), what
rests while nothing is asked (`Quiet`), and that all that is on the way is of this query.

*Pool.* Assumed: users and members are finite sets, the limits are numbers. `IInv` says
that the lists are disjoint and counted, that partners point at each other, and that no job
is pending twice. A handler works on lists that are for a moment not those of the pool (an
event has left the batch, a waiter its list), so the parts of the invariant take users,
waiters and pending jobs as parameters, and each function of the code has a lemma about those
lists. The properties alone are not inductive: that a thread owns its user, and that each
direction is read or has data to write, also needs that those without a partner are not
polled, hold no bytes back and were not used since they were reset (`OutsidersAreQuiet`);
else the next assignment would start with leftovers. `Isolated` follows from the same.

*MARS.* Assumed (`WindowAssumption`): twice the window fits the sequence numbers, whose
modulus is even (a difference has a sign), and no session is sent as many packets as there
are numbers. The last is a bound on the run, not a promise of the code: the ACK counts packets
received, not packets taken, so nothing else keeps the queue of a session that does not
read from coming round. `OneNetworkThread` is inductive with `TypeOK` and `PollsForWrite`. The
window is a chain: our `send_wnd`, the grants in the packets on their way to us, the last
grant of the server; `Windows` says that they grow along it and that the last is within `Wnd`
of what the server has seen, with distances modulo `SeqMod`, so that the sign test of the code
is the comparison that is meant. `Order` says that the sequence numbers of a session's packets, in
the queue and then in the socket, follow each other without a gap from the last one
taken to the last one the server sent. `FinIsLast` and `AfterFin` say that nothing is queued
behind a FIN, `SendingFollows` and `OneQueued` that `sending_packet` is set while the packet
is in the queue, so that a cleared one means it was written.

*db-lib.* For every set of answers that are answers (`IsAnswer`; acknowledgements have no
rows) and every sequence of calls. At most one result set of what was read is open, begun
and not ended by a DONE; `res_info` is that one, `dbresults_state` knows whether it was announced
(`StateKnows`), and only it may be left to announce (`PendingIsOpen`). With the state in which
each loop runs (`LoopStates`) this is inductive. The token loop is a function of the answer
and the flags: lemmas of their own say what it reads past, what it stops at and what it returns.

*ct-lib.* `IInv` (types, `EofIsNotRead`, `LoopStates`, `NoRowIsSwallowed`) holds of all
programs. The other three theorems are about disciplined programs. `OwnRows`: at most one
command is in the middle of its results (`OneOwner`), it is the one whose call runs, and
the answer is its own. `FetchesFindAnAnswer`: when rows are announced their DONE is still to be
read, because an empty result set of a language command leaves its DONE to the next
`ct_results()` (`Within`) and, between two calls, no compute format is to be met without a
format of its result set before it (`Ahead`, used by `Between`). The theorem is weaker than
what the run first checked: the proof failed at a cancel made for another command, and TLC
then showed with three requests how it throws the answer away (section 5). The property
now names this case. `AllIsReported`: all that was read was reported or thrown away, but for the
result set whose format the loop has just read (`Seen`), and a program that was told of results
can fetch them without reading others (`Shown`): after rows only rows are fetched, and the
fetch of an empty result set stays at its DONE. This proof too failed first, and TLC
showed why with answers that the run did not have: `CS_CANCEL_CURRENT` right after `ct_send()`
reads by the kind of result of the request before (now outside `Disciplined`), and `ct_results()`
relies on the order in which servers answer procedures. `ProceduresInOrder` is that order: result
sets of a procedure end with DONEINPROC, and parameters are its last results. It is assumed of
the theorem, and checked of the answers of the run.

*ODBC.* A call is a composition of operators on the record of the connection, so there is a lemma
per operator on what it preserves, and one per call that puts them together. `Sound` says that
statements and sessions refer to each other (`Owned`), that a lost connection is lost
for all (`AllLost`), that the answer of a session is read by its asker (`Asked`), and that the count
of a handle is the cardinality of the set of those who hold it (`Counted`): each operator adds
or removes one element of that set, and the count changes by one with it. `Safe` adds that what
a statement holds is listed (`Held`) and that what the server still has is held or on a
list of closes to make (`Kept`). The pending closes are a recursive function over the list; that
it makes each of them is shown for a list of any length by its least counterexample. Between
the two steps of a call the record is not sound: the session is not yet assigned. `IInv` says that it
differs from a sound value by exactly that assignment (`InCall`, `SoundBehind`), which is where
`~Threads` is needed: with two threads another call can run on the half-assigned
session. `Careful` programs do not bind parameters
again under MARS or prepare again while their answer is pending; what others lose (section 5) is
`Safe` and not a count, so `RefCounts` does not assume it.

*Requests.* Assumed (`SpaceAssumption`): the spare room of a packet is smaller than the packet, and
no integer is wider than it, as in the code (`TDS_ADDITIONAL_SPACE`). `StreamIsIntact` is
not inductive: a length is written over bytes of packets kept back, so it must be known where they
are. `IInv` has `Shape` (every packet but the last is full, and the last has room after its end),
`Begun` and `Nested` (each freeze knows its place in the packets and in the stream, the places follow
each other, the first is in the first packet) and `Sound`, the stream with what a loop still
has to write as a parameter. Each loop of the code is a local recursive function; that
such a function exists for any number of turns is shown once (`LoopsExist`), and then each loop
is followed turn by turn with its own measure (`PutAll`, `WrittenIs`, `UpdateIs`, `SendKeptIs`).
The digits of a length come out right whatever packets they lie across and whether or not
they overflow.

Only model-checked:
- liveness (`pool_live`, `mars_live`, `CancelEndsTheCall`) and `ENABLED`, out of the prover's reach;
- `OdbcStatements` with several threads, where the properties do not hold (section 5);
- the two runs that are violated.

## 5. What is not modelled, and observations

### Not modelled

`PROJECT.json` lists every component with its status. Left out because they have no
state whose order could be wrong, or because their content is data: conversions,
character sets, column values, column formats, configuration, logging, the server library,
the tools, the portability shims, catalog functions, descriptors. Left out although they
have control: login, TLS and authentication (a sequence driven by external libraries),
bulk copy files (`bcp.c`, `blk.c`), ct-lib cursors, pivots.

Within the modelled parts: token and packet contents, TLS, the build without MARS,
protocols before TDS 7.1 for prepared statements. `tds_set_state()` is one step although it
is not atomic against another thread. `MarsNet` does not reuse session ids.

### Observations

Seen while modelling, most of them with TLC under other constants, without a run of
their own.

*Row buffer*
- `dbcanquery()` (`dblib.c:6086`) reads the pending rows over `current_row` without
  `buffer_save_row()`: the newest buffered row then shows the values of a skipped one.
- `buffer_current_index()` (`buffering.h:420`) asserts `tail < current`, although its
  comment counts the tail among the good rows: `dbsetrow()` on the oldest row followed by
  `dbnextrow()` aborts a build with assertions.
- `dblastrow()` (`dblib.c:7265`) answers the oldest row when the ring is full.

*Pool*
- `pool_schedule_waiters()` returns at once when no member is idle, also when a member was
  closed and a new one may be opened; `pool/README:53` says that the search is reattempted
  the next time the server is woken up. It tries one waiter per pass, the first, and puts
  it at the end if no member fits its protocol version.
- `connect_proc` is started (`member.c:554`) before the user is assigned (`member.c:567`); if
  it looks at `current_user` in between, nothing sends the acknowledgement of the login.
- One expiry pass closes every aged idle member, also below `min pool conn`
  (`member.c:403`; the user guide says "but only until there are 5 remaining open"). A
  `max member age` of 0 is not "no limit".
- When the end-login thread cannot be started, the user is freed under its caller.
- `pool_destroy()` frees what detached threads still use.

*MARS network*
- `tds_connection_network()` leaves without signalling the sessions that wait because it
  was in the network (`packet.c:428`). A session without a query timeout can then wait for
  ever for a packet that is in the socket; `mars_live` assumes a timeout.
- A packet that the server sent before it saw our FIN closes the whole connection
  (`packet.c:181`).
- An ACK counts packets received, not packets taken, so a slow session's queue can
  grow beyond its window; cancel packets are appended without a look at the window.
- A connection that is closed does not signal the sessions that wait.

*Session and cancel*
- `tds_send_cancel()` tests the state without a lock (`query.c:2094`): if the call ends in
  between, the session is IDLE while the acknowledgement is on its way, and the next query
  reads it as its own. In the `"race"` application the packet type set by the canceller can
  also be overwritten by the next request; the cancel is lost.
- A cancel while bulk data may be sent (also after a failed INSERT BULK, which leaves
  SENDING) is never matched with its acknowledgement ("TODO handle cancellation sending data").

*db-lib results*
- `dbrpcsend()` and `dbwritetext()` set `dbresults_state` to INIT before they are refused;
  `dbresults()` then announces the rest of the same rows again.
- `dbrpcsend()` with two procedures submits the name of the first, fails on the second
  because the session is busy, and keeps its list.
- `dbcancel()` leaves `dbresults_state` as it was. `dbreadtext()` does not set it at the end
  of the rows, so that `dbresults()` fails with "results pending". `dbnumrets()` reads the
  DONE tokens of following statements.

*ct-lib*
- A command that the session refused is SENT all the same; `ct_cancel()` of it cancels the
  answer of another command. After `CS_CANCEL_ALL` the next `ct_send()` returns
  `CS_CANCELED`. A command sent between another's `CS_CMD_SUCCEED` and `CS_END_RESULTS` has
  its tokens read by the other (hence `Disciplined`).
- A command closed by a cancel stays SENT. `ct_cancel(conn, CS_CANCEL_ATTN)` skips a command
  that has just sent (its `results_state` is NONE) and can so reach only such a stale one; the
  `ct_send()` of that one reads the acknowledgement and with it the answer of the command that
  was just sent. The next `ct_fetch()` or `CS_CANCEL_CURRENT` of that command waits for ever.
- `curr_result_type` is not reset by `ct_send()`: `CS_CANCEL_CURRENT` before the first
  `ct_results()` acts on the kind of result of the last request (`ct.c:2366`), and if those were
  parameters it reads past a return status, which is then never reported.
- A fetch after parameters reads on to the next DONE (`ct.c:1787`) and would pass a return
  status there; a result set without rows that ended with DONEPROC would not be reported.

*ODBC*, with `Careful` FALSE:
- A statement prepared on an extra MARS session that binds its parameters again and
  executes: `odbc_free_dynamic()` (`odbc.c:3568`) unlocks and frees the session, and
  `tds71_submit_prepexec()` works on it.
- `SQLPrepare()` while the answer of the statement's own prepare-and-execute is pending
  forgets the prepared statement, whose number is not known yet; asking for the columns after
  binding parameters again replaces the old prepared statement without closing it
  (`query.c:1186`: "Any older allocated dynamic won't be freed").

With `Threads` TRUE: `stmt->tds` is set after the mutex is released (`odbc.c:871` to `:881`);
another statement can take the session in between, and `odbc_unlock_statement()` fails its
assertion. In all cases: a failed prepare leaves its `TDSDYNAMIC` in `conn->dyns` until the
disconnect; pending closes made inside `tds_process_end()` change `current_op`, so that the
DONEPROC of the outer request is handled as that of the close; `tds_process_simple_query()`
reports success for a refused unprepare; `odbc_cursor_execute()` releases an old cursor
without closing it; a session whose id was freed by the server's FIN may be freed again by
`odbc_unlock_statement()` after the id was reused (`mem.c:1393`).

*Write buffer*
- `tds_put_n()` loops for ever when `tds_get_packet()` has no memory for the next packet.
- Another thread that loses the connection sets the session DEAD, which aborts the freezes
  under their owner (`util.c:128`); the owner's close then decrements `frozen` below zero.
