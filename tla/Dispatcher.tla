----------------------------- MODULE Dispatcher -----------------------------
(***************************************************************************)
(* fleet_telemetry/dispatch.py: the Dispatcher, its listener registrations *)
(* and the _RecordStream iterators it feeds.                               *)
(*                                                                         *)
(* Everything runs on one asyncio event loop, so a step of this module is  *)
(* what a coroutine does from one suspension to the next.  A call of       *)
(* dispatch(record) feeds every stream and then runs the listeners it has  *)
(* snapshotted; it is suspended whenever a listener returned an awaitable  *)
(* that is not ready, and other tasks then run: they may register or       *)
(* unsubscribe listeners, open, read or close streams, dispatch records of *)
(* their own, or close the dispatcher.  A call the application makes from  *)
(* inside a synchronous listener takes effect here right after the step    *)
(* that listener is part of: the rest of that step touches only the        *)
(* snapshot and the task's own frame, so the two orders agree.             *)
(*                                                                         *)
(* Records are numbered in the order of their fan-out; a queue holds those *)
(* numbers, and the end-of-stream sentinel.                                *)
(***************************************************************************)
EXTENDS Integers, Sequences, FiniteSets, Filters

CONSTANTS
    Tasks,         \* the tasks that call dispatch(), one call at a time each
    Streams,       \* the iterators that records() may return
    Shared,        \* streams that a task other than their consumer may aclose()
    Specs,         \* the filters, [vin, topic, field], the application uses
    Records,       \* the records that are dispatched
    QueueMaxsize,  \* queue_maxsize; as in asyncio.Queue, <= 0 is no bound
    Hanging,       \* keys of listeners whose awaitable never completes
    MaxKeys,       \* bound: listeners ever registered
    MaxLog         \* bound: records ever dispatched

ASSUME DispatcherAssumption ==
    /\ Records \subseteq Record
    /\ Specs \subseteq [vin   : Constraint(Vins),
                        topic : Constraint(Topics),
                        field : Constraint(FieldNames)]
    /\ QueueMaxsize \in Int
    /\ Shared \subseteq Streams
    /\ Hanging \subseteq Nat
    /\ MaxKeys \in Nat
    /\ MaxLog \in Nat

VARIABLES
    registrations,  \* Dispatcher._registrations: key -> registration
    ids,            \* Dispatcher._ids: the next key
    queues,         \* Dispatcher._queues: the streams in the fan-out
    closed,         \* Dispatcher._closed
    queue,          \* _RecordStream._queue of every stream
    streamClosed,   \* _RecordStream._closed of every stream
    reader,         \* where the consumer of every stream is
    call,           \* the dispatch() call every task is suspended in
    log,            \* history: the records dispatched, in fan-out order
    heard,          \* history: <<n, k>> when listener k was called with record n
    cut,            \* history: the records whose dispatch() was cancelled
    base,           \* history: the last record each consumer got
    seen            \* history: the last record each stream was offered

vars == <<registrations, ids, queues, closed, queue, streamClosed, reader,
          call, log, heard, cut, base, seen>>

listenerVars == <<registrations, ids>>
streamVars == <<queues, closed, queue, streamClosed, reader, base, seen>>
callVars == <<call, log, heard, cut>>

Sentinel == 0

\* No call in progress.
Idle == [n |-> 0, at |-> 0, todo |-> {}]

\* "absent": records() not called yet; "ready": between two calls of anext;
\* "parked": inside Queue.get; "ended": anext raised StopAsyncIteration;
\* "gone": the iterator was dropped without being closed.
ReaderStates == {"absent", "ready", "parked", "ended", "gone"}

TypeOK ==
    /\ ids \in Nat
    /\ DOMAIN registrations \subseteq 0 .. ids - 1
    /\ queues \subseteq Streams
    /\ closed \in BOOLEAN
    /\ queue \in [Streams -> Seq(Nat)]
    /\ streamClosed \in [Streams -> BOOLEAN]
    /\ reader \in [Streams -> ReaderStates]
    /\ call \in [Tasks -> [n : Nat, at : Nat, todo : SUBSET Nat]]
    /\ log \in Seq([by : Tasks, record : Records, audience : SUBSET Nat])
    /\ heard \subseteq Nat \X Nat
    /\ cut \subseteq Nat
    /\ base \in [Streams -> Nat]
    /\ seen \in [Streams -> Nat]

Init ==
    /\ registrations = <<>>
    /\ ids = 0
    /\ queues = {}
    /\ closed = FALSE
    /\ queue = [s \in Streams |-> <<>>]
    /\ streamClosed = [s \in Streams |-> FALSE]
    /\ reader = [s \in Streams |-> "absent"]
    /\ call = [t \in Tasks |-> Idle]
    /\ log = <<>>
    /\ heard = {}
    /\ cut = {}
    /\ base = [s \in Streams |-> 0]
    /\ seen = [s \in Streams |-> 0]

-----------------------------------------------------------------------------
(* Listeners *)

\* Fault: keys are taken from the number of listeners, so they are reused.
AddListenerByCount(spec) ==
    /\ ids < MaxKeys
    /\ registrations' = [k \in DOMAIN registrations \cup {ids} |->
                            IF k = ids
                            THEN Registration(spec.vin, spec.topic, spec.field)
                            ELSE registrations[k]]
    /\ ids' = Cardinality(DOMAIN registrations')
    /\ UNCHANGED <<streamVars, callVars>>

AddListener(spec) ==
    /\ ids < MaxKeys
    /\ registrations' = [k \in DOMAIN registrations \cup {ids} |->
                            IF k = ids
                            THEN Registration(spec.vin, spec.topic, spec.field)
                            ELSE registrations[k]]
    /\ ids' = ids + 1
    /\ UNCHANGED <<streamVars, callVars>>

\* on_data, on_alert, on_error and on_connectivity: the topic is preset.
OnTopic(topic, spec) == spec.topic = topic /\ AddListener(spec)

\* The callable that add_listener returned for key; idempotent.
Unsubscribe(key) ==
    /\ key < ids
    /\ registrations' = [k \in DOMAIN registrations \ {key} |-> registrations[k]]
    /\ UNCHANGED <<ids, streamVars, callVars>>

-----------------------------------------------------------------------------
(* dispatch() *)

Full(q) == QueueMaxsize > 0 /\ Len(q) >= QueueMaxsize

\* Fault: when the queue is full, the new record is dropped.
PutDropNewest(q, item) == IF Full(q) THEN q ELSE Append(q, item)

\* put_nowait, and when that raises QueueFull: get_nowait, then put_nowait.
PutDropOldest(q, item) ==
    IF Full(q) THEN Append(Tail(q), item) ELSE Append(q, item)

FanOut(n) ==
    /\ queue' = [s \in Streams |->
                    IF s \in queues THEN PutDropOldest(queue[s], n) ELSE queue[s]]
    /\ seen' = [s \in Streams |-> IF s \in queues THEN n ELSE seen[s]]

\* The snapshot of the registrations, cut down to those that match.
Snapshot(record) == {k \in DOMAIN registrations : Matches(registrations[k], record)}

\* Fault: the listeners are called latest first.
RunLatestFirst(t, n, todo) ==
    \/ /\ todo \cap Hanging = {}
       /\ heard' = heard \cup ({n} \X todo)
       /\ call' = [call EXCEPT ![t] = Idle]
    \/ \E k \in todo :
          /\ heard' = heard \cup ({n} \X {j \in todo : j >= k})
          /\ call' = [call EXCEPT ![t] = [n |-> n, at |-> k,
                                          todo |-> {j \in todo : j < k}]]

\* Task t calls the listeners of todo with record n in the order of their
\* keys, until it is through or until one returns an awaitable that is not
\* ready.  A listener that raises is like one that returns.
RunListeners(t, n, todo) ==
    \/ /\ todo \cap Hanging = {}
       /\ heard' = heard \cup ({n} \X todo)
       /\ call' = [call EXCEPT ![t] = Idle]
    \/ \E k \in todo :
          /\ \A j \in todo \cap Hanging : k <= j
          /\ heard' = heard \cup ({n} \X {j \in todo : j <= k})
          /\ call' = [call EXCEPT ![t] = [n |-> n, at |-> k,
                                          todo |-> {j \in todo : j > k}]]

Suspended(t) == call[t] # Idle

\* Fault: the fan-out waits for the listeners.
DeliverListenersFirst(t, record) ==
    LET n == Len(log) + 1
    IN  /\ log' = Append(log, [by |-> t, record |-> record,
                               audience |-> Snapshot(record)])
        /\ RunListeners(t, n, Snapshot(record))
        /\ IF call'[t] = Idle THEN FanOut(n) ELSE UNCHANGED <<queue, seen>>
        /\ UNCHANGED <<listenerVars, queues, closed, streamClosed, reader, base>>

\* dispatch(record) by task t, from its start to its first suspension.  The
\* fan-out precedes the listeners and nothing is awaited in between.
Deliver(t, record) ==
    LET n == Len(log) + 1
    IN  /\ log' = Append(log, [by |-> t, record |-> record,
                               audience |-> Snapshot(record)])
        /\ FanOut(n)
        /\ RunListeners(t, n, Snapshot(record))
        /\ UNCHANGED <<listenerVars, queues, closed, streamClosed, reader, base>>

Dispatch(t, record) ==
    /\ Len(log) < MaxLog
    /\ ~Suspended(t)
    /\ Deliver(t, record)
    /\ UNCHANGED cut

\* Fault: listeners unsubscribed since the snapshot are skipped.
ResumeWithRegistered(t) ==
    /\ Suspended(t)
    /\ call[t].at \notin Hanging
    /\ RunListeners(t, call[t].n, call[t].todo \cap DOMAIN registrations)
    /\ UNCHANGED <<listenerVars, streamVars, log, cut>>

\* The awaitable of the listener that t waits for returns or raises.
Resume(t) ==
    /\ Suspended(t)
    /\ call[t].at \notin Hanging
    /\ RunListeners(t, call[t].n, call[t].todo)
    /\ UNCHANGED <<listenerVars, streamVars, log, cut>>

\* CancelledError leaves the await: it is no Exception, so dispatch() does
\* not catch it and the remaining listeners are never called.
Cancel(t) ==
    /\ Suspended(t)
    /\ call' = [call EXCEPT ![t] = Idle]
    /\ cut' = cut \cup {call[t].n}
    /\ UNCHANGED <<listenerVars, streamVars, log, heard>>

\* The same, and the finally clause the error unwinds to dispatches a record
\* before the task is suspended again.
CancelThenDispatch(t, record) ==
    /\ Len(log) < MaxLog
    /\ Suspended(t)
    /\ cut' = cut \cup {call[t].n}
    /\ Deliver(t, record)

-----------------------------------------------------------------------------
(* Streams *)

\* Fault: records() does not look at Dispatcher._closed.
OpenStreamAlways(s) ==
    /\ reader[s] = "absent"
    /\ reader' = [reader EXCEPT ![s] = "ready"]
    /\ queues' = queues \cup {s}
    /\ base' = [base EXCEPT ![s] = Len(log)]
    /\ seen' = [seen EXCEPT ![s] = Len(log)]
    /\ UNCHANGED <<listenerVars, callVars, closed, queue, streamClosed>>

\* records(): the queue joins the fan-out now, unless the dispatcher is
\* closed: then the stream is already exhausted.
OpenStream(s) ==
    /\ reader[s] = "absent"
    /\ reader' = [reader EXCEPT ![s] = "ready"]
    /\ streamClosed' = [streamClosed EXCEPT ![s] = closed]
    /\ queues' = IF closed THEN queues ELSE queues \cup {s}
    /\ base' = [base EXCEPT ![s] = Len(log)]
    /\ seen' = [seen EXCEPT ![s] = Len(log)]
    /\ UNCHANGED <<listenerVars, callVars, closed, queue>>

\* Fault: anext on a stream that is closed, or whose dispatcher is.
AnextClosedEither(s) ==
    /\ reader[s] = "ready"
    /\ streamClosed[s] \/ closed
    /\ reader' = [reader EXCEPT ![s] = "ended"]
    /\ UNCHANGED <<listenerVars, callVars, queues, closed, queue, streamClosed,
                   base, seen>>

\* anext on a closed stream.
AnextClosed(s) ==
    /\ reader[s] = "ready"
    /\ streamClosed[s]
    /\ reader' = [reader EXCEPT ![s] = "ended"]
    /\ UNCHANGED <<listenerVars, callVars, queues, closed, queue, streamClosed,
                   base, seen>>

\* anext on an empty queue waits in Queue.get.
Park(s) ==
    /\ reader[s] = "ready"
    /\ ~streamClosed[s]
    /\ queue[s] = <<>>
    /\ reader' = [reader EXCEPT ![s] = "parked"]
    /\ UNCHANGED <<listenerVars, callVars, queues, closed, queue, streamClosed,
                   base, seen>>

\* Queue.get returns.  A consumer that was parked does not look at _closed
\* again.
Got(s) ==
    /\ \/ reader[s] = "parked"
       \/ reader[s] = "ready" /\ ~streamClosed[s]
    /\ queue[s] # <<>>
    /\ queue' = [queue EXCEPT ![s] = Tail(@)]
    /\ UNCHANGED <<listenerVars, callVars, closed, seen>>

AnextRecord(s) ==
    /\ Got(s)
    /\ Head(queue[s]) # Sentinel
    /\ base' = [base EXCEPT ![s] = Head(queue[s])]
    /\ reader' = [reader EXCEPT ![s] = "ready"]
    /\ UNCHANGED <<queues, streamClosed>>

AnextSentinel(s) ==
    /\ Got(s)
    /\ Head(queue[s]) = Sentinel
    /\ streamClosed' = [streamClosed EXCEPT ![s] = TRUE]
    /\ queues' = queues \ {s}
    /\ reader' = [reader EXCEPT ![s] = "ended"]
    /\ UNCHANGED base

\* A timeout around anext, or a cancellation of the consumer, ends its wait.
Interrupt(s) ==
    /\ reader[s] = "parked"
    /\ reader' = [reader EXCEPT ![s] = "ready"]
    /\ UNCHANGED <<listenerVars, callVars, queues, closed, queue, streamClosed,
                   base, seen>>

\* aclose(), or leaving "async with": by the consumer itself between two
\* calls of anext, or by another task at any time.
Aclose(s) ==
    /\ reader[s] = "ready" \/ (s \in Shared /\ reader[s] = "parked")
    /\ streamClosed' = [streamClosed EXCEPT ![s] = TRUE]
    /\ queues' = queues \ {s}
    /\ UNCHANGED <<listenerVars, callVars, closed, queue, reader, base, seen>>

\* __del__ of an iterator dropped without being closed.
Abandon(s) ==
    /\ reader[s] = "ready"
    /\ reader' = [reader EXCEPT ![s] = "gone"]
    /\ queues' = queues \ {s}
    /\ UNCHANGED <<listenerVars, callVars, closed, queue, streamClosed, base, seen>>

\* Fault: close() does not make room for the sentinel.
CloseIfRoom ==
    /\ closed' = TRUE
    /\ queue' = [s \in Streams |->
                    IF s \in queues THEN PutDropNewest(queue[s], Sentinel)
                    ELSE queue[s]]
    /\ queues' = {}
    /\ UNCHANGED <<listenerVars, callVars, streamClosed, reader, base, seen>>

\* Dispatcher.close(): every stream in the fan-out gets the sentinel, at the
\* price of its oldest record when its queue is full.
Close ==
    /\ closed' = TRUE
    /\ queue' = [s \in Streams |->
                    IF s \in queues THEN PutDropOldest(queue[s], Sentinel)
                    ELSE queue[s]]
    /\ queues' = {}
    /\ UNCHANGED <<listenerVars, callVars, streamClosed, reader, base, seen>>

-----------------------------------------------------------------------------
Anext(s) == AnextClosed(s) \/ Park(s) \/ AnextRecord(s) \/ AnextSentinel(s)

\* What the application, rather than a dispatching task, does.
ApplicationNext ==
    \/ \E spec \in Specs : AddListener(spec)
    \/ \E topic \in Topics, spec \in Specs : OnTopic(topic, spec)
    \/ \E key \in 0 .. MaxKeys - 1 : Unsubscribe(key)
    \/ \E s \in Streams : \/ OpenStream(s) \/ Anext(s) \/ Interrupt(s)
                          \/ Aclose(s) \/ Abandon(s)

Next ==
    \/ ApplicationNext
    \/ \E t \in Tasks, record \in Records :
          Dispatch(t, record) \/ CancelThenDispatch(t, record)
    \/ \E t \in Tasks : Resume(t) \/ Cancel(t)
    \/ Close

Spec == Init /\ [][Next]_vars

\* A consumer keeps calling anext, and the event loop keeps running the tasks
\* whose awaitables are ready.
Fairness ==
    /\ \A s \in Streams : WF_vars(Anext(s))
    /\ \A t \in Tasks : WF_vars(Resume(t))

FairSpec == Spec /\ Fairness
-----------------------------------------------------------------------------
(* What the dispatcher promises *)

HasSentinel(q) == q # <<>> /\ q[Len(q)] = Sentinel

RecordsQueued(q) == Len(q) - IF HasSentinel(q) THEN 1 ELSE 0

\* The room that is left for records next to the sentinel.
Room(q) == QueueMaxsize - IF HasSentinel(q) THEN 1 ELSE 0

\* q holds the newest of the records offered that the consumer has not got,
\* as many of them as there is room for.
HoldsNewest(q, got, offered) ==
    LET c == RecordsQueued(q)
        missing == offered - got
    IN  /\ \A i \in 1 .. c : q[i] = offered - c + i
        /\ c = IF QueueMaxsize <= 0 \/ missing <= Room(q) THEN missing ELSE Room(q)

\* Drop-oldest is exact: until the iteration ends, the backlog of a stream is
\* the run of the newest records it was offered and its consumer has not got,
\* without a gap, and it is as long as queue_maxsize lets it be; a record is
\* lost only when the bound forces it, and the sentinel of close() costs at
\* most one.  A stream in the fan-out was offered every record so far.
BacklogIsNewest ==
    \A s \in Streams :
        /\ reader[s] # "ended" => HoldsNewest(queue[s], base[s], seen[s])
        /\ s \in queues => seen[s] = Len(log)

\* The sentinel is queued by close() only, once, and behind every record; and
\* a stream that may still be iterated is, until close(), in the fan-out, and
\* holds the sentinel after it, even if its queue was full.
EndOfStream ==
    \A s \in Streams :
        /\ \A i \in 1 .. Len(queue[s]) :
              queue[s][i] = Sentinel => closed /\ i = Len(queue[s])
        /\ reader[s] \in {"ready", "parked"} /\ ~streamClosed[s] =>
              IF closed THEN HasSentinel(queue[s]) ELSE s \in queues

\* What a stream is to its consumer.
Phase(s) ==
    IF reader[s] \in {"absent", "ended"} THEN reader[s]
    ELSE IF reader[s] = "gone" \/ streamClosed[s] THEN "left" ELSE "open"

Sealed(s) == reader[s] # "ended" /\ HasSentinel(queue[s])

Feed == INSTANCE RecordFeed WITH
    published <- Len(log),
    phase <- [s \in Streams |-> Phase(s)],
    sealed <- [s \in Streams |-> Sealed(s)],
    got <- base,
    upto <- seen

\* The streams implement RecordFeed: whatever tasks and listeners do, a record
\* is offered to all open streams in one step, a consumer gets the oldest record
\* that is kept for it, and, unless it left, the end of the stream behind all of
\* them (the docstrings of records() and _RecordStream).
FeedImplemented == Feed!Spec

\* Every listener that matched a record when it was dispatched is called with
\* it exactly once, whatever is registered or unsubscribed meanwhile, unless
\* the dispatch was cancelled: it was called, or it is still due, not both.
\* No other listener is called.
DeliveryAccounting ==
    /\ \A n \in 1 .. Len(log) : \A k \in log[n].audience :
          \/ <<n, k>> \in heard
          \/ n \in cut
          \/ \E t \in Tasks : call[t].n = n /\ k \in call[t].todo
    /\ \A e \in heard : e[1] \in 1 .. Len(log) /\ e[2] \in log[e[1]].audience
    /\ \A t \in Tasks : \A k \in call[t].todo : <<call[t].n, k>> \notin heard

\* One record reaches the listeners in the order they were registered, and a
\* listener hears the records of one task in the order that task dispatched
\* them, without a gap except where a dispatch was cancelled.
ListenersInOrder ==
    \A e \in heard :
        /\ \A j \in log[e[1]].audience : j < e[2] => <<e[1], j>> \in heard
        /\ \A m \in 1 .. e[1] - 1 :
              /\ log[m].by = log[e[1]].by
              /\ e[2] \in log[m].audience
              => <<m, e[2]>> \in heard \/ m \in cut

\* Iteration ends when the stream is closed, by aclose() or by close()
\* (the docstring of _RecordStream): a consumer that keeps calling anext gets
\* StopAsyncIteration.
IterationEnds ==
    \A s \in Streams :
        (reader[s] # "absent" /\ (streamClosed[s] \/ closed))
            ~> reader[s] \in {"ended", "gone"}

\* Every record that is dispatched while a stream is in the fan-out is reached
\* by the stream's consumer, or dropped for a newer one, or the iteration ends,
\* whatever the listeners do: a hung listener holds up no stream.
StreamsKeepUp ==
    \A s \in Streams : \A n \in 1 .. MaxLog :
        (s \in queues /\ Len(log) >= n)
            ~> (base[s] >= n \/ reader[s] \in {"ended", "gone"})

\* "one listener raising, one listener hanging [...] must never [...] starve the
\* other consumers" (dispatch.py:21): a listener that matched a record is called
\* with it in the end, unless the dispatch was cancelled, whoever else hangs.
EveryListenerServed ==
    \A n \in 1 .. MaxLog : \A k \in 0 .. MaxKeys - 1 :
        (n <= Len(log) /\ k \in log[n].audience /\ k \notin Hanging)
            ~> (<<n, k>> \in heard \/ n \in cut)
=============================================================================
