----------------------------- MODULE FeedProofs -----------------------------
(***************************************************************************)
(* Dispatcher implements RecordFeed, for every value of its constants.     *)
(***************************************************************************)
EXTENDS DispatcherProofs

\* The streams in the fan-out are those that are open and not sealed.
LEMMA OpenStreamsAreFed ==
    ASSUME IInv, NEW s \in Streams
    PROVE  /\ s \in queues <=> Phase(s) = "open" /\ ~Sealed(s)
           /\ closed /\ Phase(s) = "open" => Sealed(s)
<1>1. StreamInv(s) /\ reader[s] \in ReaderStates /\ streamClosed[s] \in BOOLEAN
  BY DEF IInv, TypeOK
<1>2. Phase(s) = "open" <=> reader[s] \in {"ready", "parked"} /\ ~streamClosed[s]
  BY <1>1 DEF Phase, ReaderStates
<1>3. CASE Phase(s) = "open"
  <2>1. reader[s] \in {"ready", "parked"} /\ ~streamClosed[s]
    BY <1>2, <1>3
  <2> QED
    BY <1>1, <1>3, <2>1 DEF StreamInv, Sealed
<1>4. CASE Phase(s) # "open"
  BY <1>1, <1>2, <1>4 DEF StreamInv
<1> QED
  BY <1>3, <1>4

\* The two numbers of RecordFeed determine how many records a queue holds.
LEMMA BacklogIsQueued ==
    ASSUME IInv, NEW s \in Streams, reader[s] # "ended"
    PROVE  /\ Feed!Backlog(s) = RecordsQueued(queue[s])
           /\ HoldsNewest(queue[s], base[s], seen[s])
<1>1. HoldsNewest(queue[s], base[s], seen[s])
  BY DEF IInv, StreamInv
<1>2. [x \in Streams |-> Sealed(x)][s] <=> HasSentinel(queue[s])
  BY DEF Sealed
<1> QED
  BY <1>1, <1>2 DEF Feed!Backlog, HoldsNewest, Room

\* The head of a queue is its oldest record, or there is none.
LEMMA HeadIsOldest ==
    ASSUME NEW q \in Seq(Nat), q # <<>>, SentinelLast(q),
           NEW got \in Nat, NEW offered \in Nat, HoldsNewest(q, got, offered)
    PROVE  IF Head(q) = Sentinel
           THEN HasSentinel(q) /\ RecordsQueued(q) = 0
           ELSE RecordsQueued(q) > 0 /\ Head(q) = offered - RecordsQueued(q) + 1
<1>1. Len(q) \in Nat /\ Len(q) >= 1 /\ Head(q) = q[1]
  BY HeadTailProperties, LenProperties
<1>2. CASE Head(q) = Sentinel
  <2>1. 1 \in 1 .. Len(q) /\ q[1] = Sentinel
    BY <1>1, <1>2
  <2>2. Len(q) = 1
    BY <1>1, <2>1 DEF SentinelLast
  <2> QED
    BY <1>1, <1>2, <2>2 DEF HasSentinel, RecordsQueued
<1>3. CASE Head(q) # Sentinel
  <2>1. RecordsQueued(q) >= 1
    BY <1>1, <1>3 DEF RecordsQueued, HasSentinel
  <2>2. RecordsQueued(q) \in Nat /\ 1 \in 1 .. RecordsQueued(q)
    BY <1>1, <2>1 DEF RecordsQueued
  <2>3. q[1] = offered - RecordsQueued(q) + 1
    BY <2>2 DEF HoldsNewest
  <2> QED
    BY <1>1, <1>3, <2>1, <2>2, <2>3
<1> QED
  BY <1>2, <1>3

-----------------------------------------------------------------------------
(* Each step of the dispatcher, seen from the streams *)

LEMMA FeedUnchanged ==
    ASSUME UNCHANGED <<streamVars, log>>
    PROVE  UNCHANGED Feed!vars
<1>1. \A s \in Streams : Phase(s)' = Phase(s) /\ Sealed(s)' = Sealed(s)
  BY DEF streamVars, Phase, Sealed
<1> QED
  BY <1>1 DEF streamVars, Feed!vars

\* A dispatch() publishes, whatever its listeners do.
LEMMA DeliverPublishes ==
    ASSUME IInv, NEW t \in Tasks, NEW record \in Records, Deliver(t, record)
    PROVE  Feed!Publish
<1>1. Len(log') = Len(log) + 1
  <2>1. log \in Seq(LogEntry)
    BY DEF IInv, TypeOK, LogEntry
  <2>2. Snapshot(record) \in SUBSET Nat
    BY SnapshotType DEF IInv
  <2>3. [by |-> t, record |-> record, audience |-> Snapshot(record)] \in LogEntry
    BY <2>2 DEF LogEntry
  <2> QED
    BY <2>1, <2>3, AppendProperties, LenProperties DEF Deliver
<1>2. UNCHANGED <<queues, closed, streamClosed, reader, base>>
  BY DEF Deliver
<1>3. ASSUME NEW s \in Streams
      PROVE  /\ Phase(s)' = Phase(s) /\ Sealed(s)' = Sealed(s)
             /\ seen'[s] = IF Phase(s) = "open" /\ ~Sealed(s)
                           THEN Len(log) + 1 ELSE seen[s]
  <2>1. Phase(s)' = Phase(s)
    BY <1>2 DEF Phase
  <2>2. CASE s \in queues
    <3>1. queue'[s] = PutDropOldest(queue[s], Len(log) + 1) /\ seen'[s] = Len(log) + 1
      BY <2>2 DEF Deliver, FanOut
    <3>2. SentinelLast(queue[s]) /\ ~HasSentinel(queue[s]) /\ queue[s] \in Seq(Nat)
      BY <2>2 DEF IInv, StreamInv, TypeOK
    <3>3. Len(log) + 1 # Sentinel /\ Len(log) + 1 \in Nat
      BY LenProperties DEF IInv, TypeOK, Sentinel
    <3>4. ~HasSentinel(PutDropOldest(queue[s], Len(log) + 1))
      BY <3>2, <3>3, PutSentinelLast
    <3> QED
      BY <2>1, <2>2, <3>1, <3>2, <3>4, OpenStreamsAreFed DEF Sealed
  <2>3. CASE s \notin queues
    <3>1. queue'[s] = queue[s] /\ seen'[s] = seen[s]
      BY <2>3 DEF Deliver, FanOut
    <3> QED
      BY <1>2, <2>1, <2>3, <3>1, OpenStreamsAreFed DEF Sealed
  <2> QED
    BY <2>2, <2>3
<1>4. seen' = [s \in Streams |-> seen'[s]]
  BY DEF Deliver, FanOut
<1> QED
  BY <1>1, <1>2, <1>3, <1>4 DEF Feed!Publish

LEMMA CloseSeals ==
    ASSUME IInv, Close
    PROVE  Feed!Close
<1>1. closed' = TRUE /\ UNCHANGED <<streamClosed, reader, base, seen, log>>
  BY DEF Close, callVars
<1>2. ASSUME NEW s \in Streams
      PROVE  /\ Phase(s)' = Phase(s)
             /\ Sealed(s)' = (Sealed(s) \/ Phase(s) = "open")
  <2>1. Phase(s)' = Phase(s)
    BY <1>1 DEF Phase
  <2>2. CASE s \in queues
    <3>1. queue'[s] = PutDropOldest(queue[s], Sentinel) /\ reader[s] # "ended"
      BY <2>2 DEF Close, IInv, StreamInv
    <3>2. SentinelLast(queue[s]) /\ ~HasSentinel(queue[s]) /\ queue[s] \in Seq(Nat)
      BY <2>2 DEF IInv, StreamInv, TypeOK
    <3>3. HasSentinel(PutDropOldest(queue[s], Sentinel))
      BY <3>2, PutSentinelLast DEF Sentinel
    <3> QED
      BY <1>1, <2>1, <2>2, <3>1, <3>3, OpenStreamsAreFed DEF Sealed
  <2>3. CASE s \notin queues
    <3>1. queue'[s] = queue[s]
      BY <2>3 DEF Close
    <3>2. Phase(s) = "open" => Sealed(s)
      BY <2>3, OpenStreamsAreFed
    <3>3. Sealed(s)' = Sealed(s) /\ Sealed(s) \in BOOLEAN
      BY <1>1, <3>1 DEF Sealed
    <3> QED
      BY <2>1, <3>2, <3>3
  <2> QED
    BY <2>2, <2>3
<1> QED
  BY <1>1, <1>2 DEF Feed!Close

-----------------------------------------------------------------------------
(* The steps of one stream *)

\* Streams other than o keep what is seen of them.
Others(o) == \A s \in Streams \ {o} : Phase(s)' = Phase(s) /\ Sealed(s)' = Sealed(s)

LEMMA OthersKeep ==
    ASSUME IInv, NEW o \in Streams,
           \/ OpenStream(o) \/ AnextClosed(o) \/ Park(o) \/ AnextRecord(o)
           \/ AnextSentinel(o) \/ Interrupt(o) \/ Aclose(o) \/ Abandon(o)
    PROVE  Others(o)
<1> SUFFICES ASSUME NEW s \in Streams \ {o}
             PROVE  Phase(s)' = Phase(s) /\ Sealed(s)' = Sealed(s)
  BY DEF Others
<1>1. /\ reader \in [Streams -> ReaderStates] /\ streamClosed \in [Streams -> BOOLEAN]
      /\ queue \in [Streams -> Seq(Nat)]
  BY DEF IInv, TypeOK
<1>2. reader'[s] = reader[s] /\ streamClosed'[s] = streamClosed[s] /\ queue'[s] = queue[s]
  BY <1>1 DEF OpenStream, AnextClosed, Park, AnextRecord, AnextSentinel, Got,
              Interrupt, Aclose, Abandon
<1> QED
  BY <1>2 DEF Phase, Sealed

\* Two functions that the steps of o change at o only.
LEMMA PhaseIsUpdated ==
    ASSUME NEW o \in Streams, Others(o)
    PROVE  /\ [s \in Streams |-> Phase(s)]' =
                  [[s \in Streams |-> Phase(s)] EXCEPT ![o] = Phase(o)']
           /\ [s \in Streams |-> Sealed(s)]' =
                  [[s \in Streams |-> Sealed(s)] EXCEPT ![o] = Sealed(o)']
BY DEF Others

LEMMA OpenOpens ==
    ASSUME IInv, NEW o \in Streams, OpenStream(o)
    PROVE  Feed!Open(o)
<1>1. Others(o)
  BY OthersKeep
<1>2. /\ reader \in [Streams -> ReaderStates] /\ streamClosed \in [Streams -> BOOLEAN]
      /\ closed \in BOOLEAN
  BY DEF IInv, TypeOK
<1>3. /\ reader[o] = "absent" /\ reader'[o] = "ready"
      /\ streamClosed'[o] = closed /\ UNCHANGED <<queue, log, closed>>
  BY <1>2 DEF OpenStream, callVars
<1>4. Phase(o) = "absent" /\ Phase(o)' = IF closed THEN "left" ELSE "open"
  <2>1. Phase(o) = "absent"
    BY <1>3 DEF Phase
  <2>2. CASE closed
    BY <1>2, <1>3, <2>1, <2>2 DEF Phase
  <2>3. CASE ~closed
    BY <1>2, <1>3, <2>1, <2>3 DEF Phase
  <2> QED
    BY <2>2, <2>3
<1>5. Sealed(o)' = Sealed(o)
  BY <1>3 DEF Sealed
<1>6. /\ base' = [base EXCEPT ![o] = Len(log)]
      /\ seen' = [seen EXCEPT ![o] = Len(log)]
  BY DEF OpenStream
<1>7. [s \in Streams |-> Sealed(s)]' = [s \in Streams |-> Sealed(s)]
  BY <1>1, <1>5 DEF Others
<1>8. [s \in Streams |-> Phase(s)]' =
          [[s \in Streams |-> Phase(s)] EXCEPT ![o] = IF closed THEN "left" ELSE "open"]
  BY <1>1, <1>4 DEF Others
<1>9. Len(log') = Len(log)
  BY <1>3
<1> QED
  BY <1>3, <1>4, <1>6, <1>7, <1>8, <1>9 DEF Feed!Open

LEMMA RecordIsReceived ==
    ASSUME IInv, NEW o \in Streams, AnextRecord(o)
    PROVE  Feed!Receive(o)
<1>1. Others(o)
  BY OthersKeep
<1>2. /\ reader \in [Streams -> ReaderStates] /\ streamClosed \in [Streams -> BOOLEAN]
      /\ queue \in [Streams -> Seq(Nat)] /\ base[o] \in Nat /\ seen[o] \in Nat
      /\ StreamInv(o)
  BY DEF IInv, TypeOK
<1>3. /\ reader[o] \in {"ready", "parked"} /\ reader'[o] = "ready"
      /\ reader[o] = "ready" => ~streamClosed[o]
      /\ queue[o] # <<>> /\ queue'[o] = Tail(queue[o])
      /\ Head(queue[o]) # Sentinel
      /\ UNCHANGED <<closed, log, seen, streamClosed>>
      /\ base' = [base EXCEPT ![o] = Head(queue[o])]
  BY <1>2 DEF AnextRecord, Got, callVars
<1>4. SentinelLast(queue[o]) /\ HoldsNewest(queue[o], base[o], seen[o]) /\ base[o] <= seen[o]
  BY <1>2, <1>3 DEF StreamInv
<1>5. /\ RecordsQueued(queue[o]) > 0
      /\ Head(queue[o]) = seen[o] - RecordsQueued(queue[o]) + 1
  BY <1>2, <1>3, <1>4, HeadIsOldest
<1>6. Feed!Backlog(o) = RecordsQueued(queue[o])
  BY <1>3, BacklogIsQueued
<1>7. HasSentinel(Tail(queue[o])) = HasSentinel(queue[o])
  <2>1. HasSentinel(Tail(queue[o])) <=> HasSentinel(queue[o])
    BY <1>2, <1>3, <1>4, TakeHead
  <2> QED
    BY <2>1 DEF HasSentinel
<1>8. Phase(o) \in {"open", "left"} /\ Phase(o)' = Phase(o) /\ Sealed(o)' = Sealed(o)
  BY <1>3, <1>7 DEF Phase, Sealed
<1>9. /\ [s \in Streams |-> Phase(s)]' = [s \in Streams |-> Phase(s)]
      /\ [s \in Streams |-> Sealed(s)]' = [s \in Streams |-> Sealed(s)]
  BY <1>1, <1>8 DEF Others
<1>10. Len(log') = Len(log)
  BY <1>3
<1> QED
  BY <1>3, <1>5, <1>6, <1>8, <1>9, <1>10 DEF Feed!Receive

LEMMA IterationIsEnded ==
    ASSUME IInv, NEW o \in Streams, AnextClosed(o) \/ AnextSentinel(o)
    PROVE  Feed!End(o)
<1>1. Others(o)
  BY OthersKeep
<1>2. /\ reader \in [Streams -> ReaderStates] /\ streamClosed \in [Streams -> BOOLEAN]
      /\ queue \in [Streams -> Seq(Nat)] /\ base[o] \in Nat /\ seen[o] \in Nat
      /\ StreamInv(o)
  BY DEF IInv, TypeOK
<1>3. /\ reader[o] \in {"ready", "parked"} /\ reader'[o] = "ended"
      /\ UNCHANGED <<closed, log, seen, base>>
  BY <1>2 DEF AnextClosed, AnextSentinel, Got, callVars
<1>4. Phase(o)' = "ended" /\ Sealed(o)' = FALSE
  BY <1>3 DEF Phase, Sealed
<1>5. /\ [s \in Streams |-> Phase(s)]' = [[s \in Streams |-> Phase(s)] EXCEPT ![o] = "ended"]
      /\ [s \in Streams |-> Sealed(s)]' = [[s \in Streams |-> Sealed(s)] EXCEPT ![o] = FALSE]
  BY <1>1, <1>4 DEF Others
<1>6. \/ Phase(o) = "open" /\ Sealed(o) /\ Feed!Backlog(o) = 0
      \/ Phase(o) = "left"
  <2>1. CASE streamClosed[o]
    BY <1>3, <2>1 DEF Phase
  <2>2. CASE ~streamClosed[o]
    <3>1. queue[o] # <<>> /\ Head(queue[o]) = Sentinel
      BY <2>2 DEF AnextClosed, AnextSentinel, Got
    <3>2. SentinelLast(queue[o]) /\ HoldsNewest(queue[o], base[o], seen[o])
      BY <1>2, <1>3 DEF StreamInv
    <3>3. HasSentinel(queue[o]) /\ RecordsQueued(queue[o]) = 0
      BY <1>2, <3>1, <3>2, HeadIsOldest
    <3>4. Feed!Backlog(o) = 0
      BY <1>3, <3>3, BacklogIsQueued
    <3>5. Phase(o) = "open"
      BY <1>3, <2>2 DEF Phase
    <3> QED
      BY <1>3, <3>3, <3>4, <3>5 DEF Sealed
  <2> QED
    BY <1>2, <2>1, <2>2
<1>7. Len(log') = Len(log)
  BY <1>3
<1> QED
  BY <1>3, <1>5, <1>6, <1>7 DEF Feed!End

LEMMA StreamIsLeft ==
    ASSUME IInv, NEW o \in Streams, Aclose(o) \/ Abandon(o)
    PROVE  Feed!Leave(o) \/ UNCHANGED Feed!vars
<1>1. Others(o)
  BY OthersKeep
<1>2. reader \in [Streams -> ReaderStates] /\ streamClosed \in [Streams -> BOOLEAN]
  BY DEF IInv, TypeOK
<1>3. /\ reader[o] \in {"ready", "parked"}
      /\ reader'[o] = "gone" \/ (reader'[o] = reader[o] /\ streamClosed'[o])
      /\ UNCHANGED <<closed, log, seen, base, queue>>
  BY <1>2 DEF Aclose, Abandon, callVars
<1>4. Phase(o) \in {"open", "left"} /\ Phase(o)' = "left" /\ Sealed(o)' = Sealed(o)
  BY <1>3 DEF Phase, Sealed
<1>5. /\ [s \in Streams |-> Phase(s)]' = [[s \in Streams |-> Phase(s)] EXCEPT ![o] = "left"]
      /\ [s \in Streams |-> Sealed(s)]' = [s \in Streams |-> Sealed(s)]
  BY <1>1, <1>4 DEF Others
<1>6. Len(log') = Len(log)
  BY <1>3
<1>7. CASE Phase(o) = "open"
  BY <1>3, <1>5, <1>6, <1>7 DEF Feed!Leave
<1>8. CASE Phase(o) = "left"
  <2>1. [s \in Streams |-> Phase(s)]' = [s \in Streams |-> Phase(s)]
    BY <1>5, <1>8
  <2> QED
    BY <1>3, <1>5, <1>6, <2>1 DEF Feed!vars
<1> QED
  BY <1>4, <1>7, <1>8

LEMMA ConsumerOnlyMoves ==
    ASSUME IInv, NEW o \in Streams, Park(o) \/ Interrupt(o)
    PROVE  UNCHANGED Feed!vars
<1>1. Others(o)
  BY OthersKeep
<1>2. reader \in [Streams -> ReaderStates] /\ streamClosed \in [Streams -> BOOLEAN]
  BY DEF IInv, TypeOK
<1>3. /\ reader[o] \in {"ready", "parked"} /\ reader'[o] \in {"ready", "parked"}
      /\ UNCHANGED <<closed, log, seen, base, queue, streamClosed>>
  BY <1>2 DEF Park, Interrupt, callVars
<1>4. Phase(o)' = Phase(o) /\ Sealed(o)' = Sealed(o)
  BY <1>3 DEF Phase, Sealed
<1>5. /\ [s \in Streams |-> Phase(s)]' = [s \in Streams |-> Phase(s)]
      /\ [s \in Streams |-> Sealed(s)]' = [s \in Streams |-> Sealed(s)]
  BY <1>1, <1>4 DEF Others
<1> QED
  BY <1>3, <1>5 DEF Feed!vars

-----------------------------------------------------------------------------
\* The streams that records() returns are, in every behaviour of the
\* Dispatcher, streams of RecordFeed: dispatch() offers a record to all of them
\* at once, and each consumer gets the newest records that queue_maxsize leaves
\* it, in order, and then the end.
THEOREM FeedIsImplemented == Spec => FeedImplemented
<1>1. Init => Feed!Init
  <2> SUFFICES ASSUME Init PROVE Feed!Init
    OBVIOUS
  <2>1. \A s \in Streams : Phase(s) = "absent" /\ Sealed(s) = FALSE
    BY DEF Init, Phase, Sealed, HasSentinel
  <2> QED
    BY <2>1 DEF Init, Feed!Init
<1>2. IInv /\ [Next]_vars => [Feed!Next]_Feed!vars
  <2> SUFFICES ASSUME IInv, [Next]_vars PROVE [Feed!Next]_Feed!vars
    OBVIOUS
  <2>1. ASSUME NEW spec, AddListener(spec) PROVE UNCHANGED Feed!vars
    BY <2>1, FeedUnchanged DEF AddListener, callVars
  <2>2. ASSUME NEW key, Unsubscribe(key) PROVE UNCHANGED Feed!vars
    BY <2>2, FeedUnchanged DEF Unsubscribe, callVars
  <2>3. ASSUME NEW t \in Tasks, Resume(t) \/ Cancel(t) PROVE UNCHANGED Feed!vars
    BY <2>3, FeedUnchanged DEF Resume, Cancel
  <2>4. ASSUME NEW t \in Tasks, NEW record \in Records,
               Dispatch(t, record) \/ CancelThenDispatch(t, record)
        PROVE  Feed!Next
    BY <2>4, DeliverPublishes DEF Dispatch, CancelThenDispatch, Feed!Next
  <2>5. ASSUME NEW s \in Streams, OpenStream(s) PROVE Feed!Next
    BY <2>5, OpenOpens DEF Feed!Next
  <2>6. ASSUME NEW s \in Streams, Anext(s) PROVE Feed!Next \/ UNCHANGED Feed!vars
    BY <2>6, IterationIsEnded, RecordIsReceived, ConsumerOnlyMoves DEF Anext, Feed!Next
  <2>7. ASSUME NEW s \in Streams, Interrupt(s) PROVE UNCHANGED Feed!vars
    BY <2>7, ConsumerOnlyMoves
  <2>8. ASSUME NEW s \in Streams, Aclose(s) \/ Abandon(s)
        PROVE  Feed!Next \/ UNCHANGED Feed!vars
    BY <2>8, StreamIsLeft DEF Feed!Next
  <2>9. ASSUME Close PROVE Feed!Next
    BY <2>9, CloseSeals DEF Feed!Next
  <2>10. ASSUME UNCHANGED vars PROVE UNCHANGED Feed!vars
    BY <2>10, FeedUnchanged DEF vars, streamVars
  <2> QED
    BY <2>1, <2>2, <2>3, <2>4, <2>5, <2>6, <2>7, <2>8, <2>9, <2>10
    DEF Next, ApplicationNext, OnTopic
<1> QED
  BY <1>1, <1>2, StreamsInvariant, PTL DEF Spec, FeedImplemented, Feed!Spec
=============================================================================
