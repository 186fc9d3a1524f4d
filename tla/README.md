# Formal models of nesquic

nesquic benchmarks QUIC libraries: for each library a client asks a server for a
number of zero bytes over one stream (docs/PROTOCOL.md), a separate process counts
system calls with eBPF, and scripts run the experiments in containers. The QUIC
libraries themselves are not in the repository; the modules here model the code
around them and treat the libraries as external, from the way the code uses them.

## Inventory

| Component | State | Operations and interactions | Hard behaviour | Correct if |
|---|---|---|---|---|
| perf protocol (docs/PROTOCOL.md, utils/src/perf.rs) | the requested size | 8-byte header out, blob back, end of stream | byte order, early end, loss | a client that sees the end has exactly the size it asked for |
| neqo server (iut/neqo/src/server.rs) | one map from stream id to `StreamState`, shared by all connections | one task: drain events, send output, wait for a datagram or the timer | flow control in the middle of a response, header in pieces, entries that are never removed, several connections | responses have the requested length; nothing waits except for credit; every open connection is served |
| neqo client (iut/neqo/src/client.rs, lib.rs) | counters of `run`, the timer of `drive_until` | closure, output with backpressure, sleep | events raised by output, close while sleeping, early end | connect and run return; success means the whole blob |
| quiche client and server (iut/quiche/src) | maps `pending_req` and `pending_res`, a channel, a oneshot | `run` is a task, each `Benchmark` is driven by a worker | channel without wake-up, errors that are ignored, cancellation | the request is written, answered once, with its own size |
| quinn, noq (iut/quinn, iut/noq) | none shared; a task per connection and per stream | accept, read to end, write, finish | tasks that outlive the connection's loop; cancellation | a request is answered in full; tasks end with their client |
| msquic client and server (iut/msquic/src) | `ClientState`, `StreamState`, handles | callbacks on library threads; main waits on a condition variable or a signal | lifetime of state and handles, order of shutdown events, 32-bit lengths | no use after destruction; every handle closed once |
| metrics collector (nesquic/src) | ring buffer, `SYSCALL_VOLUMES` | programs in every system call, polling task, main's shutdown | three concurrent parties, full buffer, detach, failed push | each accepted event counted once; a signal ends the process |
| harness (iut/common/src/lib.rs) | none | runs client or server until it returns or a signal comes | cancellation in the middle of an exchange | exit status tells failure |
| scripts (script/run.sh, test.sh) | names of two containers | server up, client, stop, wait | launch races, ignored failures, endless waits | one experiment at a time |
| docker, dashboards, build, CI | – | – | – | not modelled: no behaviour of their own |

`PROJECT.json` lists the hazards line by line, each with the properties that cover
it or the reason why none does yet.

## Modules

| Module | Models |
|---|---|
| `PerfExchange` | what docs/PROTOCOL.md promises a client: the abstract specification |
| `NeqoServer` | iut/neqo/src/server.rs, with its clients and the network around it |
| `MCNeqoServer` | instances of `NeqoServer` |
| `NeqoClient` | iut/neqo/src/client.rs |
| `QuicheBenchmark` | iut/quiche/src, both ends of a connection |
| `MsQuicClient` | iut/msquic/src/client.cpp |
| `MsQuicServer` | iut/msquic/src/server.cpp, close_msquic of common.cpp |
| `MCMsQuicClient` | instances of `MsQuicClient` |
| `BlobSize` | the parser of `--blob` in iut/msquic/src/protocol.h, and the size that docs/CLI.md gives |
| `Quinn` | iut/quinn/src and iut/noq/src, both ends, with run_client and run_server of the harness |
| `RunScript` | the experiments of script/run.sh around `Quinn` |
| `Connectivity` | the test of iut/common/src/test.rs around `Quinn` |
| `MCQuinn` | `Quinn` driven by `RunScript` or `Connectivity`, and its fairness |
| `Metrics` | nesquic/src: main.rs, metrics/mod.rs, metrics.bpf.c |
| `MCMetrics` | instances of `Metrics` |
| `NeqoServer_proofs`, `NeqoClient_proofs`, `QuicheBenchmark_proofs`, `MsQuicServer_proofs`, `Metrics_proofs` | theorems about the module of that name |
| `MsQuicClient_proofs` | theorems about `MsQuicClient` and `BlobSize` |
| `Quinn_proofs` | theorems about `MCQuinn`: `Quinn` under either program |
| `Recursion` | lemmas about functions defined by recursion over numbers, for the two proof modules that need them |

**PerfExchange** has one action per thing a client can see: it requests a size, is handed bytes
(the end of the stream only with the last of them), or loses the connection. Each module of an
implementation defines an instance `Exchange` with a refinement mapping and checks
`ImplementsExchange`. What was requested is the client's size, not what the server parsed, so
the header's conversion is part of what is checked.

**NeqoServer.** `pc` is the place in the loop of `listen`: `events`
(`process_all_events`), `output` (`process_output` and `send_to`), `wait` (`select!`).
`stream_states` is the map; `FirstStream` is the one key that every client's stream
has. Handlers are synchronous, so each event's handler is one action: `read_request`
and `try_send_response` are operators on a stream's state, with both passes of the
loop of `read_request` (the second parses `read_buf` again). The library keeps,
for each connection, what has arrived and been read of the request, what has been
accepted of the response, the flow-control limit and the pending events. A
datagram carries any combination of a stream frame, more of the request, its end, new
credit and a close; loss, delay and duplication are datagrams that come later or never.
An error of the socket, of `readable`, `recv` or `send_to`, makes `listen` return and ends every
exchange (`ListenFails`).
The chunks of the send loop are summed up, since nothing runs between them.
`Overlap` says whether an exchange may begin while another is in progress. `WholeSpec`
is `Spec` for clients whose streams open with the whole header, which the client writes in
one `stream_send` (`WholeRequests`).

**NeqoClient.** `call` is the function that is awaited and `step` the place in a round
of `drive_until`; what lies between two awaits is one action. `SendBlocked` and
`Writable` are the backpressure loop; `TimerFires` covers the library's retransmission,
idle and draining timers. An error of the socket, in any of the three awaits and calls on it,
ends the call (`SocketError`). The response may be too short or too long (`Replies`); one that
is too long breaks the exchange, which the refinement counts as lost: `run` must fail.

**QuicheBenchmark.** One connection, since connections share nothing. `client` and
`server` are the workers of tokio-quiche (reads, writes, wait); `run` is the task of
`Client::run`; `queued` and `pending_req` are the channel and the map through which they
meet. Errors that the code ignores (`if let Ok`, `while let Ok`) leave the state as it
is; errors that it returns end the worker (`ClientWrites` when the library refuses the
request, with the oneshot already registered), and the `unwrap` of a dropped oneshot is a panic.
`Split` lets the request arrive in pieces, `Lossy` lets the connection be lost.

**MsQuicClient.** `main` is the thread of `run_client`, from `ConnectionStart` to its return;
`worker` is the thread of the callbacks, which are one action each, but for `finish()`: its
steps (lock, set, notify, unlock) interleave with `cv.wait`, which may wake up spuriously.
The handles' states tell what has been closed; a failure of any call of the CONNECTED
callback is a disjunct of `Connected`. What msquic guarantees is assumed: one callback of a
connection at a time, a stream's SHUTDOWN_COMPLETE before the connection's, none after.
A port that is no number throws out of `run_client` (`PortInvalid`). The response may be too short
or too long (`Replies`); as in `NeqoClient` one that is too long breaks the exchange.

`blob` is the value of `--blob`, parsed by `BlobSize` in `Start`. The refinement takes the
requested size from `DocumentedSize` instead, so a wrong parse shows; numbers of bits that 64
bits cannot hold wrap, are documented nowhere and are excepted.

**MsQuicServer.** `process` is the place in `run_server` and then in `main`; the callbacks
of the connections are one action each. `state`, `request`, `response` and `length` are a
stream's `StreamState`; `sending` says that the library holds its `send_buffer`. A client may
end its request after any number of bytes, none included, which come in any pieces, may vanish or
close at any time. All responses share `Memory` bytes: an allocation that fails throws out
of the callback and ends the process. A signal is taken by the main thread, or by a thread
of the library and then ends the process at once: which one, the library decides. A port
that is no number throws when the listener is open (`ListenPortInvalid`). A size of `Limit`
(2^32) or more is answered with the rest only, and with FIN: `ExactResponse` says that this does
not happen, and `msquic_server_long_blob` that it does. The refinement holds for sizes below
`Limit`, which its run and its theorem assume. One stream per connection, as all clients do.

**Quinn.** `server` is the process; `conn[c]` holds all of one exchange: the place of client
`c` in `run_client`, the task of `handle_connection`, that of `handle_request`, and what the
library carries between them. What lies between two awaits is one action. Clients do not share
a connection, but they share the server's accept loop and its end. `DropClient` and
`CancelServer` drop a future at any await, as `select_with_term_signals` and a timeout do; a
dropped `SendStream` finishes its stream, which `ServerEnds` models with the clients that still
see that, and `DropClient` for a client that is dropped in `write_all`: its request then ends
short, and the server's task panics on it (`ShortRequest`). A client that connects before the
server listens is not refused: its handshake packets are sent again, so `Accept` only waits for
`"listening"`. The idle timeout is `lost`. One request is made per connection.

**RunScript** and **Connectivity** extend `Quinn` with the programs that start its server and
clients. In `RunScript`, `script` is the command of run.sh that is next or in the foreground;
`container` is the server's container, which `docker run --rm` creates, starts and removes on
its own. bash runs the trap between commands (`Interrupt`, `Trapped`). docker stop kills after
two seconds; a process that has no handler for the signal yet ignores it, being the first of
its container. In `Connectivity` each health check and the final run is a client of its own
number, with its timeout; a health check connects and does not call `run` (`OnlyConnects`).
`MCQuinn` picks one of the two programs in its initial state.

**Metrics.** `SysEnter` is a traced system call of the monitored or another process,
with the length that the program computes (vectors, messages, batches; 32 bits), the
reads of user memory that may fail (`Unreadable`: a vector that cannot be read counts as
nothing in the sum) and the reservation that may find no room. `Vectors` has a message's vector
once for each of its buffers, as the loop of metrics.bpf.c:93-95 adds it: a sendmsg of two
buffers is recorded with twice the bytes, which is not what metrics/mod.rs:27 calls "Bytes
transferred per syscall invocation". `process`
and its neighbours are the polling task, the remaining actions main. `accepted` and
`calls` are history variables.

The header is two big-endian digits of base `Base` instead of eight of base 256; a
response is its number of zero bytes.

## Runs

| Run | Shows |
|---|---|
| `neqo_server_sequential` | two clients, one exchange after the other: all safety and liveness properties of the server and `ImplementsExchange` |
| `neqo_server_overlap` | **violation** of `ExactResponse`: two clients at once share an entry of `stream_states` |
| `neqo_client` | connect and run return, and run succeeds only with exactly the blob, whatever the length of the response |
| `quiche_whole_request` | the request arrives in one piece: exact blob, no lost response, no panic unless `run` was cancelled |
| `quiche_split_request` | **violation** of `ClientGetsBlob`: a header in two pieces is parsed twice, and `run` compares no length |
| `quiche_lost_wakeup` | **violation** of `QueuedIsWritten`: nothing wakes a worker for a request in the channel |
| `msquic_client` | no callback meets a destroyed `ClientState`, no handle stays open, `run_client` returns, with 0 only if it has exactly the blob of the documented size, whatever the length of the response |
| `msquic_server` | the library never holds the buffer of a freed `StreamState`, all states and handles are freed however an exchange ends, headers in pieces are put together, a signal ends the server while exchanges are in progress |
| `msquic_server_long_blob` | **violation** of `ExactResponse`: a response of 2^32 bytes or more is finished after the size modulo 2^32 |
| `quinn` | under the script or the test, with signals, timeouts, losses and containers that fail: a client that has asked gets its blob unless something of that happens to it (`ExchangeSucceeds`), success means the whole blob (`ImplementsExchange`), tasks end with their client (`TasksEnd`), each experiment runs against its own container (`FreshServer`), the script ends but for the endless `wait_for_launch` (`ScriptEnds`) and leaves nothing running unless it was being created at teardown (`NothingLeftRunning`) |
| `metrics` | events accepted by the ring buffer are counted once, in order; the polling task catches up; after a signal main ends, or awaits the answer of InfluxDB |
| `metrics_detach` | **violation** of `DetachFlushes`: detaching leaves events behind |

The five violations are disagreements between the code and its documents or comments;
`PROJECT.json` quotes both under "findings".

### Bounds

- Two connections: the entry of the map is shared by pairs, and what an exchange
  leaves behind matters to the next one only. More are covered by the theorems.
- Base 2, sizes {0, 1, 3}: the empty blob, one below and one above the window; 1 and 2
  are each other's reverse, so a wrong byte order shows.
- Window 2: a blob of 3 is stopped by flow control and resumed.
- `NeqoClient`, `MsQuicClient`: responses of every length up to one more than the largest size.
- `BlobSize`: a thousand is 16 and a word 64, so that a value with a unit is small, and one
  wraps; each way to be malformed is there once.
- `Quinn`: two experiments, the fewest where one can meet what another left; two health
  checks, so that one is repeated, and the run of the test: three clients. Base 3, sizes 0 and 2 (written at once
  or in two pieces); the test's blob is not empty.
- `MsQuicServer`: two connections, base 3, sizes 3 and 5, both below `Limit` = 6; of `Memory` = 7
  two responses of 3 fit, other pairs do not. `MsQuicServerLongBlob.cfg`: one connection, and a
  size of 7, above the limit.
- Ring buffer of 2 events, 4 calls (`MaxCalls`): full, emptied, full again. Word 4: the
  length of an event wraps. The calls cover each way a length is computed.
- No state constraint and no symmetry is used. Deadlock is not checked, because every
  system here really ends (a client returns, a connection closes, a process exits).

### Fairness

- A task that can run does run (tokio schedules ready tasks): weak fairness of its steps.
- QUIC retransmits: on a connection that stays open, the rest of a request, new credit
  and the response arrive. These compete with other datagrams for the one task that
  receives them, hence strong fairness of `RestOfRequest` and `NewLimit`.
- In `NeqoClient`, the socket does not stay full (`SF` of `SendBatch`), timers fire, and
  the server answers unless it closes the connection. A close without an error is
  excepted from `CallsReturn`: the code then awaits for ever.
- In `QuicheBenchmark` a worker goes round without sleeping only while it has more to
  send, so it eventually reads all that has arrived (`SF` of a full `ClientReads`).
- In `MsQuicClient` a connection that is neither answered nor closed is ended by the idle
  timeout (10 s, common.cpp:46), and neither thread is kept from the mutex for ever. No
  fairness makes a wake-up spurious: a lost notification would show.
- In `MsQuicServer` a client that is there asks, reads and closes when its exchange is over;
  one that is gone is ended by the idle timeout. `ServerStops` speaks of a signal that the
  main thread gets.
- In `MCQuinn`, tokio runs the tasks, the network delivers unless it fails for the idle
  timeout, bash and docker go on. No fairness makes a signal, a loss, a timeout or a
  container that cannot be created come.
- In `Metrics`, both tasks run. Nothing makes InfluxDB answer: the request has no time limit
  (metrics/mod.rs:215-223), so `SignalEnds` excepts a main that awaits the answer.

No liveness property rests on the absence of a close, a loss or a cancellation: they
appear in the properties as alternatives.

## Proofs

Every invariant that a passing run checks is also proved, for every value of the constants that
the named assumptions allow, and so is every refinement of `PerfExchange`. The assumptions are
the types of the constants (a header base, sizes that the header can hold, a window above zero,
a `None` that is no number, bounds that are numbers), evaluated by TLC in every run. Some
theorems' hypotheses are more than that, and without them the matching **violation** run shows
what happens: `~Overlap` for the neqo server, `Split = FALSE` for quiche, sizes below `Limit`
for the refinement of the msquic server. The two theorems on overlapping exchanges have another
in place of `~Overlap`: that the blobs fit the window, of clients whose headers arrive whole
(`WholeSpec`).

Each proof module has an inductive invariant `IInv`, `InitInv` and one lemma per
action or group of actions, `StepInv`, `Invariance`, and the theorems that follow. The
refinements need `Init => Exchange!Init`, and that a step from a state of `IInv` is a
step of `PerfExchange` or is not seen; the `...Seen` lemmas show it action by action.

| Module | Theorems (property) | Hypothesis |
|---|---|---|
| `NeqoServer_proofs` | `TypeCorrect` (`TypeOK`) | – |
| | `ResponsesExact` (`ExactResponse`), `ResponsesBounded` (`NothingUnasked`), `EntryKept` (`EntryTracksExchange`), `WaitsForCredit` (`WaitsOnlyForCredit`), `Refinement` (`ImplementsExchange`) | `~Overlap` |
| | `OverlapExact` (`ExactResponse`), `OverlapRefinement` (`ImplementsExchange`) | every size is at most `Window`; of `WholeSpec` |
| `NeqoClient_proofs` | `TypeCorrect` (`TypeOK`), `Refinement` (`ImplementsExchange`) | – |
| `QuicheBenchmark_proofs` | `TypeCorrect` (`TypeOK`), `Survives` (`WorkerSurvives`), `NeverQuiet` (`NeverQuietUnanswered`) | – |
| | `GetsBlob` (`ClientGetsBlob`), `Continues` (`ResponseContinues`), `Refinement` (`ImplementsExchange`) | `Split = FALSE` |
| `MsQuicClient_proofs` | `ParsedAsDocumented`, `TypeCorrect` (`TypeOK`), `StateLives` (`StateOutlivesCallbacks`), `AllClosed` (`NothingLeftOpen`), `Refinement` (`ImplementsExchange`) | – |
| `MsQuicServer_proofs` | `TypeCorrect` (`TypeOK`), `BufferLives` (`BufferOutlivesSend`), `AllReleased` (`NothingLeaked`), `NotTooShort` (`WholeRequestServed`) | – |
| | `Refinement` (`ImplementsExchange`) | every size is below `Limit` |
| `Quinn_proofs` | `TypeCorrect` (`TypeOK`), `ServerIsFresh` (`FreshServer`), `ScriptCleansUp` (`NothingLeftRunning`), `Refinement` (`ImplementsExchange`) | – |
| `Metrics_proofs` | `TypeCorrect` (`TypeOK`), `NoEventTwice` (`EachEventOnce`), `FirstEvents` (`OutputIsPrefix`) | – |

Few of these properties are inductive. What each invariant adds, and why:

**NeqoServer.** `ExactResponse` says nothing of the entry that the next handler reads.
`ConnInv` says what has been read, sent and granted on a connection, and that the end of the
request is pending as an event until it is read; `OneExchange` that at most one exchange is
live and only its stream has pending events; `EventsInv` that nothing is pending outside of
`process_all_events`, nor for a stream that is not open; `EntryInv` that once NewStream is
handled the shared entry is that of the live exchange: a prefix of the header, or the whole of
it with `write_remaining + sent` equal to the size. The lemmas on the operators come first:
`HeaderRoundTrip`, `TrySendWriting`, `ReadPassShort`, `ReadPassWhole`, `ReadRequestProgress`
(an exchange stays in step with its entry), `TrySendGrows`, `ReadRequestGrows` (nothing sent is
taken back, nothing follows the end), `TrySendUses`, `ReadRequestUses` (all credit is used).
Two invariants rest on `IInv`: `CreditInv`, that credit is left unused only while
SendStreamWritable is pending, which `WaitsOnlyForCredit` cannot say of the states between two
waits; and `WireInv`, that what is on the wire is behind the send side and ends with it, which
the refinement needs. The types need none of this: `FlowInv` is enough, with any overlap.

When exchanges overlap, the entry belongs to whichever stream was opened last, so
`EntryInv` is lost. `WholeInv` says why small blobs survive: a request is unread or already
answered (`AnsweredInv`), so no response is ever left in the entry (`IdleEntryInv`); and
between two waits only one connection has events (`OneActiveInv`), so the entry that its
NewStream made is still empty when its header is read. `ReadRequestAnswers` shows that one
`read_request` then writes the whole response, and `PassAfterEnd` that the second parse of
`read_buf` leaves nothing behind. Both hypotheses matter, which NeqoServerOverlap.cfg shows
with `SPECIFICATION WholeSpec` and sizes {0, 1, 2} (no violation), with either of them alone
(a violation), and as it is. The refinement's lemmas rest on `SeenInv` alone (no
response exceeds its request, one that has ended is complete, the wire is behind), which
both invariants imply.

**NeqoClient.** `BytesInv` follows the response from the server through socket and library to
`run`, each stage holding no more than the one before; `CallInv` ties the request being
in the stream to `run` having begun, by which a failed `connect` is no exchange.

**QuicheBenchmark.** However the request arrives: `FlowInv` (the server keeps to the
limit), `RequestInv` (what has arrived is read, or the worker has been woken), `ResponseInv`
(a response is in the map from the first byte read until it is complete; a server that waits
with some of it left has no credit or has been woken) and `ClientInv` (the oneshot sender is in
the map exactly from the writing of the request to the end of the response, so a response
that a request in pieces restarts still ends only once for `run`). For a request in one
piece, `WholeInv` adds the sizes: `pending_res + sent = size` until the end is sent.

**MsQuicClient.** `StateOutlivesCallbacks` depends on the lock and on the callbacks' order:
`LockInv` says which step of which thread holds the mutex; `DoneInv` that `finish()` runs once,
after the connection is closed and before `main` can see `done` and take the lock; `StreamInv`
what becomes of the stream's handle; `BytesInv` that what was requested is what the parser made
of `--blob`. For the refinement that has to be the documented size: `ParsedAsDocumented` shows
it of every string that is not malformed and whose bits fit a word. The parser's loop and the
documented sum of places are recursive functions; that they agree is an induction over the
digits, with the value so far below the word.

**MsQuicServer.** `ProcessInv` gives the handles that are open at each place of `run_server`;
`StreamInv` ties a stream's life to its `StreamState` and to its connection; `RequestInv` says
that the buffer holds the first bytes of the request, in whatever pieces; `ResponseInv` that
what msquic is sending belongs to the request, has the length that 32 bits hold (the size
itself, below `Limit`) and that an aborted request was short.

**Quinn.** `ExchangeInv` is the invariant of one exchange by itself (types, `delivered <=
written <= size`, the whole request in the stream from `reading` on). A step of clients,
server, script or test either moves one exchange, in one of four ways (`Unseen`, `Requests`,
`Succeeds`, `Loses`), or changes nothing in any exchange that its client can see (`Rests`).
`ScriptInv` strengthens `FreshServer` to the states before the client runs: while
`wait_for_launch` polls, a container that is not on its way out is the experiment's own.

**Metrics.** `CollectInv` says that nothing is taken from SYSCALL_VOLUMES before main collects
it and that what was printed stays there. `EachEventOnce` itself is then inductive; its steps
are equations between concatenations, and `InRing` is a recursive function, of which
`LengthsAppend` and `LengthsTail` say what an event entering or leaving the ring does.
`CountedLength` shows that the loop of `count_iovec_len` ends in an u32, whatever it adds up.

**Recursion.** `SetInduction` is induction stated about a set instead of an operator, from the
well-foundedness of `<`; `RecursionExists` and `RecursionType` are the existence of a function
that follows a step, and the range of its values. Together they replace the library's induction
theorems, whose operator parameters the provers used here cannot instantiate.

Only model-checked: the liveness properties (`EveryRequestServed`, `CallsReturn`,
`WrittenIsAnswered`, `RunReturns`, `ServerStops`, `ExchangeSucceeds`, `TasksEnd`, `ScriptEnds`,
`PollerCatchesUp`, `SignalEnds`). They rest on fairness, and so on ENABLED, which the provers do
not handle. `WaitsOnlyForCredit` is the safety part of the first, `NeverQuietUnanswered` of the third.

## Not modelled

The QUIC libraries, TLS, name resolution, argument parsing other than `--blob` and msquic's
ports, labels, core affinity, logging, tags and number formatting; `utils/src/io.rs`, which no
crate compiles; docker, dashboards, build scripts and CI. `Stats` in utils/src/perf.rs feeds a
throughput that nothing reads (iut/common/src/lib.rs:88-91 is commented out). script/test.sh
does what `Connectivity` does with containers instead of tasks. Of run.sh, the image builds,
CPU and firewall settings, and the client's container (the script waits for it in the
foreground, so only its process matters). The accept loop of quiche's `Server::listen`.

## Plan

What is left of the models is what the hazards without a property name: the accept loops that
end with the error of one peer (neqo and quiche), the volumes that an HTTP error loses, the
vectors that the programs count more than once, the size parser of msquic beyond a word, and
the thread that a signal of the msquic server is delivered to.

What is left of the proofs is liveness, and the type correctness of `PerfExchange` by itself.
