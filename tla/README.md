# A TLA+ model of python-fleet-telemetry

`fleet_telemetry` is an asyncio server for Tesla Fleet Telemetry: vehicles open
mutually authenticated WebSockets, the server acks and decodes the frames they
send, and a dispatcher hands every record to listeners (callbacks, awaited one
after the other) and to record streams (async iterators over bounded queues).
`ServerCredentials` keeps the private CA and the server certificate on disk.

`examples/end_to_end.py` puts these together: it pushes the CA to the vehicle's
configuration, polls until the vehicle has taken it over, and serves.

This directory models these parts, checks them with TLC on small instances, and
proves the main safety properties with TLAPS for every value of the constants.

## The system

| Component | State it keeps | Operations | Who it talks to |
|---|---|---|---|
| `Dispatcher` (`dispatch.py`) | `_registrations`, `_ids`, `_queues`, `_closed` | `add_listener`, `on_*`, unsubscribe, `records`, `dispatch`, `close` | called by every session and by the application; calls listeners; puts into stream queues |
| `_RecordStream` (`dispatch.py`) | `_queue`, `_closed` | `_put`, `__anext__`, `aclose`, `__del__` | fed by the dispatcher, read by one consumer; may be closed by another task |
| Filters (`_normalize`, `_Registration.matches`) | none | matching | `Record.fields()` |
| Sessions (`TelemetryServer._handle`, `_connect`, `_disconnect`, `_process_frame`) | `_connections`; each handler's place | one handler task per request | aiohttp, the dispatcher |
| Lifecycle (`TelemetryServer.start`, `stop`) | `_runner`, `_closed` | start, stop | aiohttp's `AppRunner`, the dispatcher |
| `ServerCredentials` (`certs.py`) | four files | `ensure`, `rotate_server_cert`, `ca_certificate_pem`, `build_ssl_context` | the file system, the operator |
| Records, envelope, identity (`records.py`, `_envelope.py`, `identity.py`) | none | parse, decode, ack, extract the VIN | called by a session |
| `examples/end_to_end.py` | where it is; the config at the Fleet API | run, push, poll, serve | `ServerCredentials`, the Fleet API, the server |
| `examples/basic.py`, generated protobuf code, CA bundles | none of its own | | |

Hard behaviours, and what makes each component correct:

* **Dispatcher.** `dispatch()` is suspended at every listener whose awaitable is
  not ready. Other calls of `dispatch()`, registrations, unsubscriptions and
  `close()` run in between. Correct: each listener of the snapshot hears the
  record exactly once, in registration order, in the order of the dispatching
  task, unless that dispatch is cancelled; the streams do not wait for it.
* **Streams.** Full queues, bounds of one, zero and less, a consumer that is
  parked, interrupted by a timeout or gone, `close()` on a full queue. Correct:
  nothing is lost that the bound does not force out; iteration ends, after every
  record and for every consumer.
* **Sessions.** A vehicle reconnects before its old session is over; frames,
  acks and listeners suspend the handler; cancellation arrives at any await.
  Correct: the registry follows the latest session, the CONNECTED and
  DISCONNECTED records bracket a session's frames and agree with the registry.
* **Lifecycle.** `stop()` waits for handlers, some of which hang. Requests arrive
  meanwhile. `start()` and `stop()` are called again, by other tasks, fail or are
  cancelled. Correct: `stop()` returns, nothing is read or dispatched to streams
  after it, every iterator ends, and no runner escapes the next `stop()`.
* **Credentials.** Calls that overlap in executor threads, a crash or an exception
  between two file operations, and files that the operator deletes. Correct: the
  CA is never replaced or mismatched, and the leaf on disk belongs to it.
* **The wire.** An ack may arrive although the send was interrupted, or be lost
  although the frame is dispatched; the vehicle sends again in another session.
  Fields are absent or repeated. Correct: a vehicle forgets only what was
  dispatched, under the VIN of its certificate and unchanged, except for what
  acking before the dispatch costs, the last frame of a session that is cut off.
* **The example.** Requests that fail or take long, a deadline tested between
  them, crashes and re-runs while the leaf is rotated. Correct: the poll loop
  ends in bounded time, and what is served is trusted by the vehicle.

## Modules

| Module | Models | Builds on |
|---|---|---|
| `Filters` | filters and matching | |
| `RecordFeed` | what `records()` promises: an abstract specification without queues | |
| `Dispatcher` | `dispatch.py`: dispatcher, listeners, streams | `Filters`; implements `RecordFeed` |
| `TelemetryServer` | `server.py`: sessions, registry, one start and stop | `Disp == INSTANCE Dispatcher WITH Tasks <- Sessions` |
| `ServerLifecycle` | `server.py`: any number of `start()` and `stop()` calls | |
| `ServerCredentials` | `certs.py`: the certificate files | |
| `Envelope`, `Records` | `_envelope.py` with the accessors it uses; `records.py` | |
| `Wire` | `identity.py`, `_authorize`, `_handle_message`, `_process_frame`, and a vehicle | `Envelope`, `Records` |
| `EndToEnd` | `examples/end_to_end.py` | `Creds == INSTANCE ServerCredentials` |
| `DispatcherProofs`, `FeedProofs`, `TelemetryServerProofs`, `LifecycleProofs`, `CredentialsProofs`, `EndToEndProofs`, `RecordsProofs`, `WireProofs` | theorems | the modules they are named after |
| `MC*` | values of the constants for TLC | |

`PROJECT.json` maps every definition to the lines it models.

Every module marks some definitions `Fault:`. They are variants of the
definition that follows, with a plausible bug in them (a dropped guard, a wrong
order, a missing reset). No specification uses them. They document what each
property would catch: with the variant in place of the original, TLC finds the
property violated.

### Dispatcher

One step is what a coroutine does from one suspension to the next, because the
event loop runs nothing else in between. The variables are the attributes of the
code under its own names (`registrations`, `ids`, `queues`, `closed`, `queue`,
`streamClosed`), the control state of the tasks (`reader`: where the consumer of
a stream is; `call`: which record a task is dispatching, which listener it waits
for, which are still to come), and histories that the program does not have
(`log`, `heard`, `cut`, `base`, `seen`) and that no guard reads except for the
bound `Len(log) < MaxLog` and the record numbers the queues hold.

| Code | Action |
|---|---|
| `add_listener`, `on_data`, ..., `on_connectivity`; the returned callable | `AddListener`, `OnTopic`; `Unsubscribe` |
| `dispatch` up to its first suspension | `Dispatch` (`Deliver`, `FanOut`, `RunListeners`) |
| an awaited listener returns or raises | `Resume` |
| `CancelledError` in that await; and a `finally` that dispatches | `Cancel`; `CancelThenDispatch` |
| `records` | `OpenStream` |
| `__anext__` | `AnextClosed`, `Park`, `AnextRecord`, `AnextSentinel` |
| a timeout around `anext`, `aclose`, `__del__` | `Interrupt`, `Aclose`, `Abandon` |
| `close` | `Close` |

`RunListeners` runs the snapshot in the order of the keys up to the first
listener that suspends; which one that is, is a free choice, except that those
in `Hanging` always suspend and never come back. What a synchronous listener
calls from within (`add_listener`, `aclose`, ...) takes effect right after the
step that runs it. The rest of the step touches only the snapshot and the
task's own frame, so the order makes no difference.

Records are numbered in the order of their fan-out. A queue holds the numbers
and 0, the sentinel. That is what lets `BacklogIsNewest` say that a queue is
exact without a second copy of the queue.

### TelemetryServer

A session is one request. `pc` says in which await its handler is: `ws.prepare`,
the CONNECTED dispatch, `ws.receive`, the ack, the frame's dispatch, the
DISCONNECTED dispatch. The steps between two awaits are single actions
(`Connect`, `AckThenDispatch`, `Disconnect`, ...), each with the dispatcher's
action as a conjunct. `Unwind` is a `CancelledError`: the `finally` clause
covers the message loop, not `ws.prepare` and `_connect` before it. `GiveUp` is
everything that ends the handling of a frame before its dispatch: `send_bytes`
raises `ConnectionError`, or returns and the payload does not parse. Whether the
ack was written by then, and may arrive, is a question for `Wire`; this module
keeps no count of acks.

aiohttp is external and modelled from what `server.py` relies on. `cleanup()`
stops listening, waits `shutdown_timeout`, cancels the handlers that are left,
and returns once each has taken its `CancelledError`. It does not wait for one
that is suspended again after that, which is how a session may still be in a
listener of its DISCONNECTED record when `stop()` returns. A request that was
accepted before may begin at any time until then. A handler is not cancelled
when its peer disconnects. TLS, and the question whether a peer has a VIN, are
the constant `VinOf`.

### RecordFeed

The abstract feed has no queue. A stream is two numbers, the last record it was
offered (`upto`) and the last one its consumer got (`got`), whether its end is
queued (`sealed`), and a phase. The next record a consumer gets follows from
them: the oldest of the `Backlog(s)` newest. `Dispatcher!Feed` is the refinement
mapping, and `FeedImplemented` the claim. Listeners, suspended tasks and their
cancellations are stutters of it: that is what "one listener hanging must not
stall the streams" comes to.

### ServerLifecycle

`TelemetryServer` follows one runner from start to stop in detail. This module
has the rest: several tasks call `start()` and `stop()`, a bind fails, the task
that awaits `stop()` is cancelled. `_runner` names one runner only, so the
question is which runners it forgets. `tangled` is a history: a `start()`
overlapped another call, or was made while the runner of an earlier one was in
use. The code then does lose a runner (`start()` overwrites `_runner` at
server.py:189, `stop()` clears it at server.py:209 whatever it holds), and no
line of the repository allows such calls, so the properties exclude them and
nothing else. A restart after `stop()` is not excluded. It serves nobody, since
`_closed` is never reset; the server answers every request with 503.

### ServerCredentials

Files are absent, torn (opened, and so emptied, but not written), or hold a key
or a certificate. A call runs in a thread, and several may overlap, so every look
at a file and every file operation is an action of its own, and a crash may come
between any two. `Crash(dead)` ends the calls of some of the callers and leaves
the others alone: it is the crash of one process, or an I/O error in one call.
`Path.exists()` is true of a torn file. `Delete` is the operator, between calls.
Validity dates and file modes are left out.

`mishaps` is a history of what the code does not guard against: two calls that
find no CA at the same time, two that write a leaf at the same time, a call that
ends between the CA it has created and its leaf, a crash inside a leaf. Each
property names the mishaps it cannot stand, and holds under all the others. A
leaf that is completed afterwards makes up for the last two, and one that a call
writes alone, from its key on, for two that were written at the same time. The
model removes them from the history there, so the properties also say that one
rotation is a cure. Nothing makes up for two calls that created a CA at the same
time, short of deleting it.

### Envelope, Records and Wire

A FlatBuffers table is a function from vtable offsets to values. Absent fields,
defaults and a vector that is absent or empty are told apart exactly where the
code does: `decode` reads every field, a field may hold `Broken` (the accessor
raises), and `AddUint8` leaves out a zero. Byte strings are opaque. Of `bytes ->
str` only the one thing that matters is kept: with `errors="replace"` it is not
injective. `Fields` is a recursive function over the `Datum` entries, one value for
each turn of the loop.

`Wire` has sessions, each from `_authorize` to its end, the messages a session
was sent and how many it has read. The vehicle is external: it keeps every frame
until an ack that names it arrives, and may send it again in the same session or
a later one. `interrupted` is a history of the waits in `send_bytes` that ended
in `ConnectionError` or a cancellation. `connected` is the vehicle's side of the
connection, `closed` the server's transport, which may be closed before or after
the vehicle is lost, and stays so. `send_bytes` raises `ConnectionError` only on a
closed transport. What was written before may still arrive, and messages that
were received before are still read: for each of them `send_bytes` raises again.

Dispatching a record is one step here. What happens in it is `Dispatcher`'s.

### EndToEnd

The program's stages are those of `_run`. While it is in `ensure()` its steps
are those of `ServerCredentials`, interleaved with a rotation by another process,
and the operator may delete files at any time except during `ensure()`. A time
unit is the `sleep(5)` of the poll loop; a request takes up to `MaxRequest` of
them. The vehicle takes over the pushed config (`Sync`) whenever it likes. An
interrupt waits for `ensure()` to return (`asyncio.run` joins its executor's
thread); a crash does not, and it ends the program alone: a rotation goes on, as
the program does when the rotating process crashes.

## Runs

| Run | Instance | What it shows |
|---|---|---|
| `dispatcher` | 2 tasks, 2 listeners with one of two filters each, a stream with a queue of 2 that another task may close, 3 records, cancellations | each due call happens exactly once (`DeliveryAccounting`) and in order (`ListenersInOrder`); a backlog is exact (`BacklogIsNewest`), the sentinel always lands (`EndOfStream`); the whole implements `RecordFeed` (`FeedImplemented`) |
| `sessions` | 3 overlapping sessions of one vehicle, a client without a VIN, 1 message each, 1 listener of connectivity records or of frames, start and stop | the registry follows the latest session (`RegistryTracksLatest`) and agrees with what was announced (`ConnectivityAgrees`); `SessionsBracketed`, `StoppedIsQuiet`, `DispatchedWhileOpen`; the server uses its dispatcher as `Dispatcher` says tasks do (`DispatcherKept`) |
| `hung_listener` | a vehicle that reconnects, 2 listeners of which the first hangs, a stream of bound 1 | the stream keeps up (`StreamsKeepUp`) and ends (`IterationEnds`), and `stop()` returns (`StopEnds`) |
| `lifecycle` | 2 callers, 2 sessions, 3 starts | no runner is lost (`NothingLost`) and nobody is served past `close()` (`ServedWhileOpen`) |
| `credentials` | 2 threads, 2 names, bad arguments, crashes, deletions, 4 keys | the CA is never mismatched (`CaIsPaired`) nor replaced (`CaIsNeverReplaced`); the leaf belongs to the CA (`LeafChainsToCa`) and to its key (`LeafIsPaired`) |
| `end_to_end` | 1 name, 4 keys, a timeout of 3 sleeps, requests of up to 2 | what is served is trusted (`ServedIsTrusted`), the poll loop ends (`PollingEnds`), less than a sleep and a request late (`OverrunBounded`) |
| `wire` | a vehicle with 2 sessions, a client of another authority, 5 messages, 3 sends | a vehicle forgets only what was dispatched (`ForgottenIsDispatched`), and what is given up instead is the last frame its session acks (`GivenUpIsLast`); records say what was sent (`RecordsAreVerbatim`); `fields()` has the last values (`LastSignalWins`) |

The two filters of `dispatcher` are built so that each field of a filter decides:
one lets the record through by a string, a string and a set, the other keeps it
out by a set of vehicles. In `sessions` the listener hears connectivity records
only or frames only.

A queue without a bound (`queue_maxsize` of zero or less) has no run of its own:
the theorem `BacklogExact` covers every bound.

TLC checks each module's `TypeOK` in one of these runs, and deadlock in all of
them but `wire`, where all sessions end. What `TypeOK` says beyond types is what
the other properties lean on: a call that waits has a runner, and nothing is
closed before requests are refused (`ServerLifecycle`); the program is inside
`ensure()` only while it waits for it (`EndToEnd`); every record has a known
topic (`Wire`).

**Bounds.** `MaxKeys` and `MaxLog` of `Dispatcher` bound the listeners ever
registered and the records ever dispatched, `MaxFrames` the messages a session
reads, `MaxKeys` of `ServerCredentials` the key pairs ever generated,
`MaxRunners` the calls of `start()`, `MaxSends` the messages sent. Keys and
records are never reused, so two of each, of two tasks, already give every order
of two calls; the theorems cover any number. Three records overflow a queue of
two, once more with the sentinel. A bound of one leaves no room beside the
sentinel, and two records overflow it. Two sessions of one vehicle overlap; a
third lets the oldest end after the newest has. Two listeners are the one that
hangs and one behind it. Three starts let one fail, one serve and one come after a
stop. Four keys are two CAs with a leaf each, or one
CA with three leaves. Three sends are a frame, the same once more in another
session, and a third that shares its txid; the frames are two that differ in an
absent message id, one without any field of its stream, one that does not parse,
and an oversized one. `MaxElapsed` is one that the clock never passes unnoticed:
`OverrunBounded` fails before it saturates. `MaxLog` of `TelemetryServer` is
derived from the others and never a guard, which `LogHasRoom` proves. `dispatcher`, `sessions`, `lifecycle`,
`credentials` and `wire` use symmetry: the tasks, callers and sessions of one
vehicle are interchangeable in the constants and in the properties, none of
which is a liveness property (`FeedImplemented` has no fairness in it).

**Fairness.** `Dispatcher`: the event loop runs a task whose awaitable is ready
(weak fairness of `Resume`, which is disabled for `Hanging` listeners), and a
consumer keeps calling `anext` and is run when its queue has an item (weak
fairness of `Anext`; a consumer that drops its iterator is "gone"). Nothing is
assumed of `Interrupt`, `Aclose`, `Close` or new records. `TelemetryServer`:
`cleanup()` gives up waiting at `shutdown_timeout` and then returns, a cancelled
handler takes its `CancelledError`, and the above. Nothing is assumed of the
vehicles, nor that `stop()` is called. `EndToEnd`: a request returns or raises,
at aiohttp's total timeout if not before, and a sleep ends (weak fairness of `Get`
and `Sleep`); nothing is assumed of the vehicle or of any other step.

## Where the code and its documentation disagree

Five runs check a promise of the repository that the code does not keep.

* `consumer_stranded`: `aclose()` by another task does not wake a consumer that
  is parked in `anext`, and takes its queue out of the fan-out, so that not even
  `close()` ends it. The docstring of `_RecordStream` says that iteration ends
  when the stream is closed by `aclose`.
* `stale_entry`: a `CancelledError` while CONNECTED is dispatched ends a handler
  before its `try`, and the vehicle stays in the registry of a stopped server.
* `older_session_lives`: when the newer of two sessions of a vehicle ends first,
  `is_connected()` is false although the older session is served.
* `stale_leaf`: an `ensure()` that raises between the new CA and its leaf makes
  the next one keep the leaf of the deleted CA.
* `listener_starved`: listeners are awaited one after the other, so the one
  registered behind a listener that hangs never hears the record. The docstring of
  `dispatch.py` says that one listener hanging must never stall ingestion or starve
  the other consumers. (Ingestion stalls too, for the session that dispatched: it
  waits in that listener until `stop()` cancels it.)

The passing runs show how far the damage goes: `RegistryTracksLatest` says that
a stale entry needs a cancelled CONNECTED, `hung_listener` that a hung listener
holds up no stream and no `stop()`, and its `IterationEnds` that a consumer whose
stream only it closes is never stranded, `LeafChainsToCa` that the next leaf, of
whatever call, cures a stale one. That a listener is starved only by one registered
before it needs no run: `DeliveryAccounting` and `ListenersInOrder` say that a due
call is made or still to come in key order, and `Resume` is fair for those that do
not hang.

## Proofs

`DispatcherProofs` proves, for any tasks, streams, listeners and records and for
any integer `QueueMaxsize`:

* `TypeCorrect`: `Spec => []TypeOK`.
* `BacklogExact`: `Spec => []BacklogIsNewest`.
* `EndOfStreamCorrect`: `Spec => []EndOfStream`.
* `DeliveryAccounted`: `Spec => []DeliveryAccounting`.
* `ListenersOrdered`: `Spec => []ListenersInOrder`.

These are all the safety properties the runs check of `Dispatcher`.
The only assumption is `DispatcherAssumption`: the constants have their types.

Neither stream property is inductive. That a put keeps a backlog exact depends
on the queue having no sentinel (behind one, the count of the records would be
off by one), which holds because a stream in the fan-out belongs to an open
dispatcher, which in turn depends on `close()` emptying the fan-out and on
`records()` not joining a closed one. And a consumer that takes the sentinel
leaves nothing behind only because the sentinel is last. `StreamInv` says all of
this about one stream; `IInv` is `TypeOK` and `StreamInv` of every stream.

The lemmas about sequences come first: `PutContents` is what `_put` does to a
queue, `PutRecord`, `PutSentinel` and `PutSentinelLast` what that means for
`HoldsNewest` and the sentinel, `TakeHead` the same for `Queue.get`. Then there
is one lemma per kind of action (`DeliverStreams`, `CloseStreams`, `OpenStreams`,
`GotStreams`, `ConsumerStreams`), and `StreamsInvariant` puts them together.

`DeliveryAccounting` is not inductive either: that a call is not a second one
depends on no other task running the listeners of the same record. `CallInv`
says why: the record a task is suspended in is one it dispatched itself.
`AInv` adds it for every task. `RunAccounts` is what running listeners does to
`heard` and `call`; `DeliverAccounts`, `ResumeAccounts` and `CancelAccounts` are
the steps.

`ListenersInOrder` needs `OrderInv` in addition: a task is in its latest record,
that record is not cancelled, and what is still due is the end of its snapshot.
The order of two records of one task is then not inductive but a consequence: by
the accounting, a listener of the older record heard it or is still due, and it
cannot be due, because the task is in its latest record (`HeardOrDue`). Only the
order within a record (`InKeyOrder`) is carried along.

`FeedProofs` proves `FeedIsImplemented`: `Spec => FeedImplemented`, from the same
`IInv`. `OpenStreamsAreFed` says which streams are in the fan-out in terms of
their phase, `BacklogIsQueued` that the two numbers determine the length of the
queue, and `HeadIsOldest` what its head is. Then there is a lemma per kind of
action that names the abstract step or the stutter.

`LifecycleProofs` proves `TypeCorrect`, `NothingIsLost` and `OnlyServedWhileOpen`,
assuming `LifecycleAssumption` (the bound is a number). `NothingLost` is not
inductive: that the next step loses nothing depends on who else is suspended.
`Untangled` says it: a `start()` that binds is alone; a `stop()` that waits has
closed its socket, and `_runner` is still its own or was cleared by another
`stop()` of the same runner.

`CredentialsProofs` proves `TypeCorrect`, `CaPaired`, `CaNeverReplaced`, `LeafPaired`
and `LeafChains`, for any number of threads, assuming `CredentialsAssumption` (the types of the constants).
`TInv` adds to the types what a call must know for what it will write to be
good. `CaInv` says that as long as no two calls found no CA at the same time, at
most one call is creating one, the files on disk are those it has written so far,
and a call that saw no `ca.pem` and now looks for `ca.key` finds it if the
certificate has appeared since, and so will not create a second CA.
For the leaf, `StepKinds` first reduces the steps of a call to five kinds (it
looks, creates a CA, signs, opens a file, writes it), and `CutShort` is a sixth, in
which a crash ends some calls and not others. `OneLeaf` says that at most
one call is writing a leaf and how far it has got; it is inductive with the types
alone. `Chained` needs `CaInv`: a leaf under way is signed by the key on disk, a call
that found a CA goes on finding one, and whenever no call is creating a CA, the
leaf that is there is signed by it.

`EndToEndProofs` does not repeat any of this. Its steps are steps of
`ServerCredentials` (`UsesServerCredentials`), so what is promised of the files
holds here too (`CredentialsKept`). `OverrunIsBounded` follows from `Clock`: a
deadline not passed at the last look, plus what one sleep and one request add.
`ServesWhatIsTrusted` is the hardest: between the moment the program reads the CA
and the moment it serves, another process rotates the leaf, the operator deletes
files, and calls crash. `Trust` says that the files on disk `Answer` to the
certificate in the config body all this time: an intact CA on disk is that one,
and so is the signer of an intact leaf, or of one that is being written; no step
of a caller that creates no CA undoes this. Assumed is `EndToEndAssumption`: the
types of the constants, and that the name which makes a call fail is none of the
good ones.

`TelemetryServerProofs` proves every safety property the runs check of
`TelemetryServer`, for any number of sessions, vehicles, listeners and streams:

* `ServerTypeCorrect`, which says besides the types where a session may be inside
  `dispatch()`.
* `ServerImplementsDispatcher`: `Spec => Disp!Spec`. A step of the server is one of
  the dispatcher or leaves it alone; in particular `Unwind` and the `finally`
  clause only dispatch from where `Dispatcher` lets a task do so. `ServerKeepsPromises`
  and `ServerFeeds` carry the theorems about the dispatcher over to the server.
* `StopLeavesQuiet` and `OpenWhileDispatching`, from `Shutdown`, which says for each
  stage of `stop()` where sessions may be. The point is the stage in which handlers
  are being cancelled: whoever is active then has its `CancelledError` still to come,
  or waits in its DISCONNECTED dispatch.
* `RegistryIsLatest`, `ConnectivityIsRegistry` and `SessionsAreBracketed`. They all
  follow from what a step may do to the log and the
  registry. `StepKinds` says there are four ways: a session joins, dispatches a
  frame, leaves, or the step is `Silent`. `LogInv` ties entries of the log to where
  their sessions are, and `RegistryInv` the entry and the last announcement of a
  vehicle to its latest session.
* `LogHasRoom`: wherever the code dispatches, the log has room. A record is told by
  its session and by how many that session had dispatched before, and of those
  pairs one is always free (`PlacesDiffer`, `PlaceCounts`, and the pigeonhole).

Assumed are `ServerAssumption` and `ApplicationAssumption`, the types of what the
server and its application pass on.

`WireProofs` proves `AckRoundTrip`, that `decode_ack` reads back what `encode_ack`
wrote; `TypeCorrect`; `ForgottenOnlyIfDispatched`; `NothingAfterGivingUp`;
`RecordsVerbatim`; and `LastOneWins`, for any certificates, messages and number of sends. `WireAssumption`
says that the ids an ack echoes tell the vehicle's frames apart, which
`ForgottenOnlyIfDispatched` rests on (two frames without ids are acked by the same
bytes, and no server could do better), and that a payload which parses has a
sequence of entries.
`ForgottenIsDispatched` is not inductive, since an ack forgets a frame later than
it is sent: `AcksAreServed` says that every ack on its way is that of a frame that
is dispatched, about to be, given up or unparsable, and `ServedStays` that none of
these is ever undone. `GivenUpIsLast` needs `GivenUp`: once a wait was cut off, the
transport is closed or the handler over, so that no other wait begins. `Traced` ties records and waits to what sessions were sent.

`LastOneWins` follows from `FieldsHoldLast` of `RecordsProofs`, which is about
`fields()` of any record: an induction over its entries. The induction theorems of
the library take a predicate as a parameter, which the provers cannot instantiate.
`AllLengths` is an induction over a set instead, `{n : ... after n entries}`, whose
least missing element exists because `<` is well-founded. It is used twice: for the
recursive function to exist (`DictsExist`), and for each dict to hold the last
values so far (`SetItemKeepsLast`).

Only model-checked: the liveness properties (`StreamsKeepUp`, `IterationEnds`,
`StopEnds`, `PollingEnds`), because fairness and ENABLED are
out of the prover's reach; and, for what they are, the five promises that the code
does not keep.

## Not modelled

* The generated protobuf code and the CA bundles, which have no logic of their
  own; of the generated flatbuffers code, what `_envelope.py` does not call.
* `examples/basic.py`, whose calls are those of `TelemetryServer` and
  `Dispatcher`; the parsing of settings in `end_to_end.py`.
* The bytes of frames, payloads and certificates. Whether a payload parses and
  what entries it has then is an attribute of the payload.
* A listener that calls `stop()`, which awaits its own handler.
* Two consumers on one stream.
* Validity dates of certificates, file modes, logging.

## Plan

In this order:

1. Per-vehicle presence (who is connected, what was announced) as an abstract
   specification that `TelemetryServer` implements; `StepKinds` is most of the proof.
2. Two consumers on one stream, and `asyncio.Queue`'s waiters.
3. A listener that calls `stop()`, `close()` or `aclose()` from within a dispatch.
