-------------------------- MODULE DispatcherProofs --------------------------
(***************************************************************************)
(* Theorems about Dispatcher, for every value of its constants.            *)
(***************************************************************************)
EXTENDS Dispatcher, SequenceTheorems, TLAPS

CallType == [n : Nat, at : Nat, todo : SUBSET Nat]
LogEntry == [by : Tasks, record : Records, audience : SUBSET Nat]

\* A snapshot holds keys of registrations.
LEMMA SnapshotType ==
    ASSUME TypeOK, NEW record
    PROVE  Snapshot(record) \in SUBSET Nat
BY DEF Snapshot, TypeOK

\* Running listeners keeps the types of call and heard.
LEMMA RunListenersType ==
    ASSUME TypeOK, NEW t \in Tasks, NEW n \in Nat, NEW todo \in SUBSET Nat,
           RunListeners(t, n, todo)
    PROVE  call' \in [Tasks -> CallType] /\ heard' \subseteq Nat \X Nat
<1>0. call \in [Tasks -> CallType] /\ heard \subseteq Nat \X Nat
  BY DEF TypeOK, CallType
<1>1. CASE heard' = heard \cup ({n} \X todo) /\ call' = [call EXCEPT ![t] = Idle]
  <2>1. Idle \in CallType
    BY DEF Idle, CallType
  <2> QED
    BY <1>0, <1>1, <2>1
<1>2. ASSUME NEW k \in todo,
             heard' = heard \cup ({n} \X {j \in todo : j <= k}),
             call' = [call EXCEPT ![t] = [n |-> n, at |-> k,
                                          todo |-> {j \in todo : j > k}]]
      PROVE  call' \in [Tasks -> CallType] /\ heard' \subseteq Nat \X Nat
  <2>1. [n |-> n, at |-> k, todo |-> {j \in todo : j > k}] \in CallType
    BY DEF CallType
  <2> QED
    BY <1>0, <1>2, <2>1
<1> QED
  BY <1>1, <1>2 DEF RunListeners

\* A put keeps a queue a sequence of record numbers and sentinels.
LEMMA PutType ==
    ASSUME NEW q \in Seq(Nat), NEW item \in Nat, QueueMaxsize \in Int
    PROVE  PutDropOldest(q, item) \in Seq(Nat)
<1>1. CASE Full(q)
  <2>1. q # <<>>
    BY <1>1 DEF Full
  <2>2. Tail(q) \in Seq(Nat)
    BY <2>1, HeadTailProperties
  <2> QED
    BY <1>1, <2>2, AppendProperties DEF PutDropOldest
<1>2. CASE ~Full(q)
  BY <1>2, AppendProperties DEF PutDropOldest
<1> QED
  BY <1>1, <1>2

\* What dispatch() does before its first suspension keeps the types.
LEMMA DeliverType ==
    ASSUME TypeOK, NEW t \in Tasks, NEW record \in Records, Deliver(t, record)
    PROVE  /\ log' \in Seq(LogEntry)
           /\ call' \in [Tasks -> CallType]
           /\ heard' \subseteq Nat \X Nat
           /\ queue' \in [Streams -> Seq(Nat)]
           /\ seen' \in [Streams -> Nat]
<1> DEFINE n == Len(log) + 1
           entry == [by |-> t, record |-> record, audience |-> Snapshot(record)]
<1>1. log \in Seq(LogEntry) /\ n \in Nat
  <2>1. log \in Seq(LogEntry)
    BY DEF TypeOK, LogEntry
  <2> QED
    BY <2>1, LenProperties
<1>2. Snapshot(record) \in SUBSET Nat
  BY SnapshotType
<1>3. log' \in Seq(LogEntry)
  <2>1. entry \in LogEntry
    BY <1>2 DEF LogEntry
  <2>2. log' = Append(log, entry)
    BY DEF Deliver
  <2> QED
    BY <1>1, <2>1, <2>2, AppendProperties
<1>4. call' \in [Tasks -> CallType] /\ heard' \subseteq Nat \X Nat
  <2>1. RunListeners(t, n, Snapshot(record))
    BY DEF Deliver
  <2> QED
    BY <1>1, <1>2, <2>1, RunListenersType
<1>5. FanOut(n)
  BY DEF Deliver
<1>6. queue' \in [Streams -> Seq(Nat)]
  <2>1. ASSUME NEW s \in Streams
        PROVE  PutDropOldest(queue[s], n) \in Seq(Nat) /\ queue[s] \in Seq(Nat)
    BY <1>1, PutType, DispatcherAssumption DEF TypeOK
  <2> QED
    BY <1>5, <2>1 DEF FanOut
<1>7. seen' \in [Streams -> Nat]
  BY <1>1, <1>5 DEF FanOut, TypeOK
<1> QED
  BY <1>3, <1>4, <1>6, <1>7

\* The types hold initially.
LEMMA InitType == Init => TypeOK
<1> SUFFICES ASSUME Init PROVE TypeOK
  OBVIOUS
<1>1. DOMAIN registrations \subseteq 0 .. ids - 1
  BY DEF Init
<1>2. call \in [Tasks -> [n : Nat, at : Nat, todo : SUBSET Nat]]
  BY DEF Init, Idle
<1>3. queue \in [Streams -> Seq(Nat)]
  <2>1. <<>> \in Seq(Nat)
    OBVIOUS
  <2> QED
    BY <2>1 DEF Init
<1>4. log \in Seq([by : Tasks, record : Records, audience : SUBSET Nat])
  BY DEF Init
<1> QED
  BY <1>1, <1>2, <1>3, <1>4 DEF Init, TypeOK, ReaderStates

\* Every step keeps the types.
LEMMA NextType == TypeOK /\ [Next]_vars => TypeOK'
<1> SUFFICES ASSUME TypeOK, [Next]_vars PROVE TypeOK'
  OBVIOUS
<1> USE DispatcherAssumption DEF listenerVars, streamVars, callVars
<1>1. ASSUME NEW spec, AddListener(spec) PROVE TypeOK'
  BY <1>1 DEF AddListener, TypeOK
<1>2. ASSUME NEW key \in 0 .. MaxKeys - 1, Unsubscribe(key) PROVE TypeOK'
  BY <1>2 DEF Unsubscribe, TypeOK
<1>3. ASSUME NEW t \in Tasks, NEW record \in Records, Deliver(t, record),
             cut' \subseteq Nat
      PROVE  TypeOK'
  <2>1. /\ log' \in Seq(LogEntry)
        /\ call' \in [Tasks -> CallType]
        /\ heard' \subseteq Nat \X Nat
        /\ queue' \in [Streams -> Seq(Nat)]
        /\ seen' \in [Streams -> Nat]
    BY <1>3, DeliverType
  <2> QED
    BY <1>3, <2>1 DEF Deliver, TypeOK, LogEntry, CallType
<1>4. ASSUME NEW t \in Tasks, Resume(t) PROVE TypeOK'
  <2>1. RunListeners(t, call[t].n, call[t].todo)
    BY <1>4 DEF Resume
  <2>2. call[t].n \in Nat /\ call[t].todo \in SUBSET Nat
    BY DEF TypeOK
  <2>3. call' \in [Tasks -> CallType] /\ heard' \subseteq Nat \X Nat
    BY <2>1, <2>2, RunListenersType
  <2> QED
    BY <1>4, <2>3 DEF Resume, TypeOK, CallType
<1>5. ASSUME NEW t \in Tasks PROVE cut \cup {call[t].n} \subseteq Nat
  BY DEF TypeOK
<1>6. ASSUME NEW t \in Tasks, Cancel(t) PROVE TypeOK'
  <2>1. call' \in [Tasks -> CallType]
    BY <1>6 DEF Cancel, TypeOK, CallType, Idle
  <2>2. cut' \subseteq Nat
    BY <1>5, <1>6 DEF Cancel
  <2> QED
    BY <1>6, <2>1, <2>2 DEF Cancel, TypeOK, CallType
<1>7. ASSUME NEW s \in Streams, OpenStream(s) PROVE TypeOK'
  <2>1. Len(log) \in Nat
    BY LenProperties DEF TypeOK
  <2> QED
    BY <1>7, <2>1 DEF OpenStream, TypeOK, ReaderStates
<1>8. ASSUME NEW s \in Streams, AnextClosed(s) PROVE TypeOK'
  BY <1>8 DEF AnextClosed, TypeOK, ReaderStates
<1>9. ASSUME NEW s \in Streams, Park(s) PROVE TypeOK'
  BY <1>9 DEF Park, TypeOK, ReaderStates
<1>10. ASSUME NEW s \in Streams, Got(s)
       PROVE  /\ Head(queue[s]) \in Nat
              /\ queue' \in [Streams -> Seq(Nat)]
  <2>1. queue[s] \in Seq(Nat) /\ queue[s] # <<>>
    BY <1>10 DEF Got, TypeOK
  <2>2. Head(queue[s]) \in Nat /\ Tail(queue[s]) \in Seq(Nat)
    BY <2>1, HeadTailProperties
  <2> QED
    BY <1>10, <2>2 DEF Got, TypeOK
<1>11. ASSUME NEW s \in Streams, AnextRecord(s) PROVE TypeOK'
  <2>1. /\ Head(queue[s]) \in Nat
        /\ queue' \in [Streams -> Seq(Nat)]
    BY <1>10, <1>11 DEF AnextRecord
  <2> QED
    BY <1>11, <2>1 DEF AnextRecord, Got, TypeOK, ReaderStates
<1>12. ASSUME NEW s \in Streams, AnextSentinel(s) PROVE TypeOK'
  <2>1. queue' \in [Streams -> Seq(Nat)]
    BY <1>10, <1>12 DEF AnextSentinel
  <2> QED
    BY <1>12, <2>1 DEF AnextSentinel, Got, TypeOK, ReaderStates
<1>13. ASSUME NEW s \in Streams, Interrupt(s) PROVE TypeOK'
  BY <1>13 DEF Interrupt, TypeOK, ReaderStates
<1>14. ASSUME NEW s \in Streams, Aclose(s) PROVE TypeOK'
  BY <1>14 DEF Aclose, TypeOK
<1>15. ASSUME NEW s \in Streams, Abandon(s) PROVE TypeOK'
  BY <1>15 DEF Abandon, TypeOK, ReaderStates
<1>16. ASSUME Close PROVE TypeOK'
  <2>1. \A s \in Streams : /\ queue[s] \in Seq(Nat)
                           /\ PutDropOldest(queue[s], Sentinel) \in Seq(Nat)
    BY PutType DEF TypeOK, Sentinel
  <2>2. queue' \in [Streams -> Seq(Nat)]
    BY <1>16, <2>1 DEF Close
  <2> QED
    BY <1>16, <2>2 DEF Close, TypeOK
<1>17. ASSUME UNCHANGED vars PROVE TypeOK'
  BY <1>17 DEF vars, TypeOK
<1>18. ASSUME NEW t \in Tasks, NEW record \in Records, Dispatch(t, record)
       PROVE  TypeOK'
  BY <1>3, <1>18 DEF Dispatch, TypeOK
<1>19. ASSUME NEW t \in Tasks, NEW record \in Records,
              CancelThenDispatch(t, record)
       PROVE  TypeOK'
  BY <1>3, <1>5, <1>19 DEF CancelThenDispatch
<1> QED
  BY <1>1, <1>2, <1>4, <1>6, <1>7, <1>8, <1>9, <1>11, <1>12, <1>13, <1>14,
     <1>15, <1>16, <1>17, <1>18, <1>19
  DEF Next, ApplicationNext, Anext, OnTopic

\* Every variable keeps its type.
THEOREM TypeCorrect == Spec => []TypeOK
BY InitType, NextType, PTL DEF Spec

-----------------------------------------------------------------------------
(* Queues *)

\* What put_nowait with drop-oldest leaves in a queue.
LEMMA PutContents ==
    ASSUME NEW q \in Seq(Nat), NEW item \in Nat, NEW p, p = PutDropOldest(q, item)
    PROVE  /\ p \in Seq(Nat)
           /\ Full(q) => /\ Len(p) = Len(q)
                         /\ \A i \in 1 .. Len(q) - 1 : p[i] = q[i + 1]
           /\ ~Full(q) => /\ Len(p) = Len(q) + 1
                          /\ \A i \in 1 .. Len(q) : p[i] = q[i]
           /\ p[Len(p)] = item
           /\ Len(p) >= 1
<1> USE DispatcherAssumption
<1>1. Len(q) \in Nat
  BY LenProperties
<1>2. CASE Full(q)
  <2>1. q # <<>>
    BY <1>2 DEF Full
  <2>2. /\ Tail(q) \in Seq(Nat)
        /\ Len(Tail(q)) = Len(q) - 1
        /\ \A i \in 1 .. Len(Tail(q)) : Tail(q)[i] = q[i + 1]
    BY <2>1, HeadTailProperties
  <2>3. p = Append(Tail(q), item)
    BY <1>2 DEF PutDropOldest
  <2>4. /\ p \in Seq(Nat)
        /\ Len(p) = Len(Tail(q)) + 1
        /\ \A i \in 1 .. Len(Tail(q)) : p[i] = Tail(q)[i]
        /\ p[Len(Tail(q)) + 1] = item
    BY <2>2, <2>3, AppendProperties
  <2>5. Len(q) >= 1
    BY <1>1, <1>2 DEF Full
  <2> QED
    BY <1>1, <1>2, <2>2, <2>4, <2>5
<1>3. CASE ~Full(q)
  <2>1. p = Append(q, item)
    BY <1>3 DEF PutDropOldest
  <2>2. /\ p \in Seq(Nat)
        /\ Len(p) = Len(q) + 1
        /\ \A i \in 1 .. Len(q) : p[i] = q[i]
        /\ p[Len(q) + 1] = item
    BY <2>1, AppendProperties
  <2> QED
    BY <1>1, <1>3, <2>2
<1> QED
  BY <1>2, <1>3

\* The sentinel is nowhere but at the end.
SentinelLast(q) == \A i \in 1 .. Len(q) : q[i] = Sentinel => i = Len(q)

\* A queue without sentinel that holds the newest records still does when the
\* next record is put.
LEMMA PutRecord ==
    ASSUME NEW q \in Seq(Nat), NEW got \in Nat, NEW offered \in Nat,
           got <= offered, ~HasSentinel(q), HoldsNewest(q, got, offered)
    PROVE  HoldsNewest(PutDropOldest(q, offered + 1), got, offered + 1)
<1> DEFINE p == PutDropOldest(q, offered + 1)
<1> USE DispatcherAssumption
<1>1. /\ p \in Seq(Nat)
      /\ Full(q) => /\ Len(p) = Len(q)
                    /\ \A i \in 1 .. Len(q) - 1 : p[i] = q[i + 1]
      /\ ~Full(q) => /\ Len(p) = Len(q) + 1
                     /\ \A i \in 1 .. Len(q) : p[i] = q[i]
      /\ p[Len(p)] = offered + 1
      /\ Len(p) >= 1
  <2>1. offered + 1 \in Nat
    OBVIOUS
  <2> QED
    BY <2>1, PutContents
<1> HIDE DEF p
<1>2. Len(q) \in Nat /\ Len(p) \in Nat
  BY <1>1, LenProperties
<1>3. /\ \A i \in 1 .. Len(q) : q[i] = offered - Len(q) + i
      /\ Len(q) = IF QueueMaxsize <= 0 \/ offered - got <= QueueMaxsize
                  THEN offered - got ELSE QueueMaxsize
  BY <1>2 DEF HoldsNewest, RecordsQueued, Room
<1>4. ~HasSentinel(p)
  BY <1>1 DEF HasSentinel, Sentinel
<1>5. RecordsQueued(p) = Len(p) /\ Room(p) = QueueMaxsize
  BY <1>2, <1>4 DEF RecordsQueued, Room
<1>6. ASSUME NEW i \in 1 .. Len(p)
      PROVE  p[i] = offered + 1 - Len(p) + i
  <2>1. CASE i = Len(p)
    BY <1>1, <1>2, <2>1
  <2>2. CASE i < Len(p) /\ Full(q)
    <3>1. i \in 1 .. Len(q) - 1 /\ i + 1 \in 1 .. Len(q) /\ Len(p) = Len(q)
      BY <1>1, <1>2, <2>2
    <3>2. p[i] = q[i + 1] /\ q[i + 1] = offered - Len(q) + (i + 1)
      BY <1>1, <1>3, <2>2, <3>1
    <3> QED
      BY <1>2, <3>1, <3>2
  <2>3. CASE i < Len(p) /\ ~Full(q)
    <3>1. i \in 1 .. Len(q) /\ Len(p) = Len(q) + 1
      BY <1>1, <1>2, <2>3
    <3>2. p[i] = q[i] /\ q[i] = offered - Len(q) + i
      BY <1>1, <1>3, <2>3, <3>1
    <3> QED
      BY <1>2, <3>1, <3>2
  <2> QED
    BY <1>2, <2>1, <2>2, <2>3
<1>7. Len(p) = IF QueueMaxsize <= 0 \/ offered + 1 - got <= QueueMaxsize
               THEN offered + 1 - got ELSE QueueMaxsize
  BY <1>1, <1>2, <1>3 DEF Full
<1>8. \A i \in 1 .. RecordsQueued(p) : p[i] = offered + 1 - RecordsQueued(p) + i
  BY <1>5, <1>6
<1>9. RecordsQueued(p) = IF QueueMaxsize <= 0 \/ offered + 1 - got <= Room(p)
                         THEN offered + 1 - got ELSE Room(p)
  BY <1>5, <1>7
<1>10. HoldsNewest(p, got, offered + 1)
  BY <1>2, <1>5, <1>6, <1>7 DEF HoldsNewest
<1> QED
  BY <1>10 DEF p

\* Nor does the sentinel of close() cost more than the bound requires.
LEMMA PutSentinel ==
    ASSUME NEW q \in Seq(Nat), NEW got \in Nat, NEW offered \in Nat,
           got <= offered, ~HasSentinel(q), HoldsNewest(q, got, offered)
    PROVE  HoldsNewest(PutDropOldest(q, Sentinel), got, offered)
<1> DEFINE p == PutDropOldest(q, Sentinel)
<1> USE DispatcherAssumption
<1>1. /\ p \in Seq(Nat)
      /\ Full(q) => /\ Len(p) = Len(q)
                    /\ \A i \in 1 .. Len(q) - 1 : p[i] = q[i + 1]
      /\ ~Full(q) => /\ Len(p) = Len(q) + 1
                     /\ \A i \in 1 .. Len(q) : p[i] = q[i]
      /\ p[Len(p)] = Sentinel
      /\ Len(p) >= 1
  <2>1. Sentinel \in Nat
    BY DEF Sentinel
  <2> QED
    BY <2>1, PutContents
<1> HIDE DEF p
<1>2. Len(q) \in Nat /\ Len(p) \in Nat
  BY <1>1, LenProperties
<1>3. /\ \A i \in 1 .. Len(q) : q[i] = offered - Len(q) + i
      /\ Len(q) = IF QueueMaxsize <= 0 \/ offered - got <= QueueMaxsize
                  THEN offered - got ELSE QueueMaxsize
  BY <1>2 DEF HoldsNewest, RecordsQueued, Room
<1>4. HasSentinel(p)
  <2>1. p # <<>>
    BY <1>1
  <2> QED
    BY <1>1, <2>1 DEF HasSentinel
<1>5. RecordsQueued(p) = Len(p) - 1 /\ Room(p) = QueueMaxsize - 1
  BY <1>2, <1>4 DEF RecordsQueued, Room
<1>6. ASSUME NEW i \in 1 .. Len(p) - 1
      PROVE  p[i] = offered - (Len(p) - 1) + i
  <2>1. CASE Full(q)
    <3>1. i \in 1 .. Len(q) - 1 /\ i + 1 \in 1 .. Len(q) /\ Len(p) = Len(q)
      BY <1>1, <1>2, <2>1
    <3>2. p[i] = q[i + 1] /\ q[i + 1] = offered - Len(q) + (i + 1)
      BY <1>1, <1>3, <2>1, <3>1
    <3> QED
      BY <1>2, <3>1, <3>2
  <2>2. CASE ~Full(q)
    <3>1. i \in 1 .. Len(q) /\ Len(p) = Len(q) + 1
      BY <1>1, <1>2, <2>2
    <3>2. p[i] = q[i] /\ q[i] = offered - Len(q) + i
      BY <1>1, <1>3, <2>2, <3>1
    <3> QED
      BY <1>2, <3>1, <3>2
  <2> QED
    BY <2>1, <2>2
<1>7. Len(p) - 1 = IF QueueMaxsize <= 0 \/ offered - got <= QueueMaxsize - 1
                   THEN offered - got ELSE QueueMaxsize - 1
  BY <1>1, <1>2, <1>3 DEF Full
<1>8. \A i \in 1 .. RecordsQueued(p) : p[i] = offered - RecordsQueued(p) + i
  BY <1>5, <1>6
<1>9. RecordsQueued(p) = IF QueueMaxsize <= 0 \/ offered - got <= Room(p)
                         THEN offered - got ELSE Room(p)
  BY <1>5, <1>7
<1>10. HoldsNewest(p, got, offered)
  BY <1>8, <1>9 DEF HoldsNewest
<1> QED
  BY <1>10 DEF p

\* Taking the head off a queue: a record is the oldest of those it holds.
LEMMA TakeHead ==
    ASSUME NEW q \in Seq(Nat), q # <<>>, NEW got \in Nat, NEW offered \in Nat,
           got <= offered, SentinelLast(q), HoldsNewest(q, got, offered)
    PROVE  /\ SentinelLast(Tail(q))
           /\ HasSentinel(Tail(q)) => HasSentinel(q)
           /\ Head(q) # Sentinel =>
                 /\ HasSentinel(q) => HasSentinel(Tail(q))
                 /\ got <= Head(q) /\ Head(q) <= offered
                 /\ HoldsNewest(Tail(q), Head(q), offered)
<1> DEFINE p == Tail(q)
<1> USE DispatcherAssumption
<1>1. /\ p \in Seq(Nat)
      /\ Len(p) = Len(q) - 1
      /\ \A i \in 1 .. Len(p) : p[i] = q[i + 1]
      /\ Head(q) = q[1]
  BY HeadTailProperties
<1> HIDE DEF p
<1>2. Len(q) \in Nat /\ Len(p) \in Nat /\ Len(q) >= 1
  BY <1>1, LenProperties
<1>3. p # <<>> <=> Len(p) >= 1
  BY <1>1, <1>2, EmptySeq
<1>4. SentinelLast(p)
  BY <1>1, <1>2 DEF SentinelLast
<1>5. HasSentinel(p) => HasSentinel(q)
  BY <1>1, <1>2, <1>3 DEF HasSentinel
<1>6. ASSUME Head(q) # Sentinel
      PROVE  /\ HasSentinel(q) => HasSentinel(p)
             /\ got <= Head(q) /\ Head(q) <= offered
             /\ HoldsNewest(p, Head(q), offered)
  <2> DEFINE c == RecordsQueued(q)
  <2>1. HasSentinel(q) <=> HasSentinel(p)
    BY <1>1, <1>2, <1>3, <1>5, <1>6 DEF HasSentinel
  <2>2. c \in Nat /\ c >= 1 /\ RecordsQueued(p) = c - 1 /\ Room(p) = Room(q)
    <3>1. CASE HasSentinel(q)
      <4>1. Len(q) >= 2
        BY <1>1, <1>2, <1>6, <3>1 DEF HasSentinel
      <4> QED
        BY <1>1, <1>2, <2>1, <3>1, <4>1 DEF RecordsQueued, Room
    <3>2. CASE ~HasSentinel(q)
      BY <1>1, <1>2, <2>1, <3>2 DEF RecordsQueued, Room
    <3> QED
      BY <3>1, <3>2
  <2>3. /\ \A i \in 1 .. c : q[i] = offered - c + i
        /\ c = IF QueueMaxsize <= 0 \/ offered - got <= Room(q)
               THEN offered - got ELSE Room(q)
    BY DEF HoldsNewest
  <2>4. c <= Len(q)
    BY <1>2 DEF RecordsQueued
  <2>5. Room(q) \in Int
    BY DEF Room
  <2> HIDE DEF c
  <2>6. Head(q) = offered - c + 1
    BY <1>1, <2>2, <2>3
  <2>7. c <= offered - got
    BY <2>3, <2>5
  <2>8. ASSUME NEW i \in 1 .. c - 1
        PROVE  p[i] = offered - (c - 1) + i
    <3>1. i \in 1 .. Len(p) /\ i + 1 \in 1 .. c
      BY <1>1, <1>2, <2>2, <2>4
    <3>2. p[i] = q[i + 1] /\ q[i + 1] = offered - c + (i + 1)
      BY <1>1, <2>3, <3>1
    <3> QED
      BY <2>2, <3>2
  <2>9. c - 1 = IF QueueMaxsize <= 0 \/ offered - Head(q) <= Room(q)
                THEN offered - Head(q) ELSE Room(q)
    BY <2>2, <2>3, <2>5, <2>6
  <2>10. HoldsNewest(p, Head(q), offered)
    BY <2>2, <2>8, <2>9 DEF HoldsNewest
  <2>11. got <= Head(q) /\ Head(q) <= offered
    BY <2>2, <2>6, <2>7
  <2> QED
    BY <2>1, <2>10, <2>11
<1> QED
  BY <1>4, <1>5, <1>6 DEF p

\* An empty queue holds the newest records of a consumer that misses none.
LEMMA NothingMissing ==
    ASSUME NEW n \in Nat
    PROVE  HoldsNewest(<<>>, n, n) /\ ~HasSentinel(<<>>) /\ SentinelLast(<<>>)
<1> USE DispatcherAssumption
<1>1. Len(<<>>) = 0 /\ ~HasSentinel(<<>>)
  BY DEF HasSentinel
<1>2. RecordsQueued(<<>>) = 0 /\ Room(<<>>) = QueueMaxsize
  BY <1>1 DEF RecordsQueued, Room
<1>3. HoldsNewest(<<>>, n, n)
  BY <1>2 DEF HoldsNewest
<1> QED
  BY <1>1, <1>3 DEF SentinelLast

\* A queue has its sentinel last if it had none before the put.
LEMMA PutSentinelLast ==
    ASSUME NEW q \in Seq(Nat), NEW item \in Nat, SentinelLast(q), ~HasSentinel(q)
    PROVE  /\ SentinelLast(PutDropOldest(q, item))
           /\ HasSentinel(PutDropOldest(q, item)) <=> item = Sentinel
<1> DEFINE p == PutDropOldest(q, item)
<1>1. /\ p \in Seq(Nat)
      /\ Full(q) => /\ Len(p) = Len(q)
                    /\ \A i \in 1 .. Len(q) - 1 : p[i] = q[i + 1]
      /\ ~Full(q) => /\ Len(p) = Len(q) + 1
                     /\ \A i \in 1 .. Len(q) : p[i] = q[i]
      /\ p[Len(p)] = item
      /\ Len(p) >= 1
  BY PutContents
<1> HIDE DEF p
<1>2. Len(q) \in Nat /\ Len(p) \in Nat
  BY <1>1, LenProperties
<1>3. ASSUME NEW i \in 1 .. Len(q) PROVE q[i] # Sentinel
  <2>1. q # <<>>
    BY <1>2
  <2> QED
    BY <1>2, <1>3, <2>1 DEF SentinelLast, HasSentinel
<1>4. ASSUME NEW i \in 1 .. Len(p), p[i] = Sentinel PROVE i = Len(p)
  <2> SUFFICES ASSUME i < Len(p) PROVE FALSE
    BY <1>2
  <2>1. CASE Full(q)
    <3>1. i \in 1 .. Len(q) - 1 /\ i + 1 \in 1 .. Len(q)
      BY <1>1, <1>2, <2>1
    <3> QED
      BY <1>1, <1>3, <1>4, <2>1, <3>1
  <2>2. CASE ~Full(q)
    <3>1. i \in 1 .. Len(q)
      BY <1>1, <1>2, <2>2
    <3> QED
      BY <1>1, <1>3, <1>4, <2>2, <3>1
  <2> QED
    BY <2>1, <2>2
<1>5. p # <<>>
  BY <1>1
<1>6. HasSentinel(p) <=> item = Sentinel
  BY <1>1, <1>5 DEF HasSentinel
<1> QED
  BY <1>4, <1>6 DEF SentinelLast, p

-----------------------------------------------------------------------------
(* Streams *)

\* The inductive invariant behind BacklogIsNewest and EndOfStream.  A stream in
\* the fan-out may still be iterated and its dispatcher is open, so no record
\* is ever put behind a sentinel; that is why PutRecord applies.
StreamInv(s) ==
    /\ reader[s] = "absent" => /\ queue[s] = <<>>
                               /\ s \notin queues
                               /\ ~streamClosed[s]
    /\ s \in queues => /\ reader[s] \in {"ready", "parked"}
                       /\ ~streamClosed[s]
                       /\ ~closed
                       /\ seen[s] = Len(log)
    /\ base[s] <= seen[s]
    /\ SentinelLast(queue[s])
    /\ HasSentinel(queue[s]) => closed
    /\ reader[s] # "ended" => HoldsNewest(queue[s], base[s], seen[s])
    /\ reader[s] \in {"ready", "parked"} /\ ~streamClosed[s] =>
          IF closed THEN HasSentinel(queue[s]) ELSE s \in queues

IInv == TypeOK /\ \A s \in Streams : StreamInv(s)

\* What StreamInv says of a stream is about these variables only.
LEMMA StreamInvUnchanged ==
    ASSUME NEW s \in Streams, StreamInv(s),
           UNCHANGED <<streamVars, log>>
    PROVE  StreamInv(s)'
BY DEF StreamInv, streamVars

\* A stream an action leaves alone, whatever it does to the others.
LEMMA OtherStream ==
    ASSUME NEW s \in Streams, StreamInv(s), UNCHANGED <<closed, log>>,
           queue'[s] = queue[s], streamClosed'[s] = streamClosed[s],
           reader'[s] = reader[s], base'[s] = base[s], seen'[s] = seen[s],
           s \in queues' <=> s \in queues
    PROVE  StreamInv(s)'
BY DEF StreamInv

\* The fan-out keeps StreamInv: a stream in it has no sentinel yet.
LEMMA DeliverStreams ==
    ASSUME IInv, NEW t \in Tasks, NEW record \in Records, Deliver(t, record),
           NEW s \in Streams
    PROVE  StreamInv(s)'
<1> DEFINE n == Len(log) + 1
<1>1. Len(log) \in Nat /\ Len(log') = n
  <2>1. log \in Seq(LogEntry)
    BY DEF IInv, TypeOK, LogEntry
  <2>2. Snapshot(record) \in SUBSET Nat
    BY SnapshotType DEF IInv
  <2>3. [by |-> t, record |-> record, audience |-> Snapshot(record)] \in LogEntry
    BY <2>2 DEF LogEntry
  <2> QED
    BY <2>1, <2>3, AppendProperties, LenProperties DEF Deliver
<1>2. /\ queue[s] \in Seq(Nat) /\ base[s] \in Nat /\ seen[s] \in Nat
      /\ StreamInv(s)
  BY DEF IInv, TypeOK
<1>3. UNCHANGED <<queues, closed, streamClosed, reader, base>>
  BY DEF Deliver
<1>4. CASE s \in queues
  <2>1. queue'[s] = PutDropOldest(queue[s], n) /\ seen'[s] = n
    BY <1>4 DEF Deliver, FanOut
  <2>2. /\ ~HasSentinel(queue[s]) /\ seen[s] = Len(log) /\ ~closed
        /\ reader[s] \in {"ready", "parked"} /\ ~streamClosed[s]
        /\ base[s] <= seen[s] /\ SentinelLast(queue[s])
        /\ HoldsNewest(queue[s], base[s], seen[s])
    BY <1>2, <1>4 DEF StreamInv
  <2>3. HoldsNewest(PutDropOldest(queue[s], n), base[s], n)
    BY <1>1, <1>2, <2>2, PutRecord
  <2>4. n # Sentinel /\ n \in Nat
    BY <1>1 DEF Sentinel
  <2>5. /\ SentinelLast(PutDropOldest(queue[s], n))
        /\ ~HasSentinel(PutDropOldest(queue[s], n))
    BY <1>2, <2>2, <2>4, PutSentinelLast
  <2> QED
    BY <1>1, <1>2, <1>3, <1>4, <2>1, <2>2, <2>3, <2>5 DEF StreamInv
<1>5. CASE s \notin queues
  <2>1. queue'[s] = queue[s] /\ seen'[s] = seen[s]
    BY <1>5 DEF Deliver, FanOut
  <2> QED
    BY <1>2, <1>3, <1>5, <2>1 DEF StreamInv
<1> QED
  BY <1>4, <1>5

\* close() keeps StreamInv: it puts the first and last sentinel.
LEMMA CloseStreams ==
    ASSUME IInv, Close, NEW s \in Streams
    PROVE  StreamInv(s)'
<1>1. /\ queue[s] \in Seq(Nat) /\ base[s] \in Nat /\ seen[s] \in Nat
      /\ StreamInv(s)
  BY DEF IInv, TypeOK
<1>2. /\ closed' = TRUE /\ queues' = {}
      /\ UNCHANGED <<streamClosed, reader, base, seen, log>>
  BY DEF Close, callVars
<1>3. CASE s \in queues
  <2>1. queue'[s] = PutDropOldest(queue[s], Sentinel)
    BY <1>3 DEF Close
  <2>2. /\ ~HasSentinel(queue[s]) /\ reader[s] \in {"ready", "parked"}
        /\ base[s] <= seen[s] /\ SentinelLast(queue[s])
        /\ HoldsNewest(queue[s], base[s], seen[s])
    BY <1>1, <1>3 DEF StreamInv
  <2>3. HoldsNewest(PutDropOldest(queue[s], Sentinel), base[s], seen[s])
    BY <1>1, <2>2, PutSentinel
  <2>4. /\ SentinelLast(PutDropOldest(queue[s], Sentinel))
        /\ HasSentinel(PutDropOldest(queue[s], Sentinel))
    BY <1>1, <2>2, PutSentinelLast DEF Sentinel
  <2> QED
    BY <1>1, <1>2, <2>1, <2>2, <2>3, <2>4 DEF StreamInv
<1>4. CASE s \notin queues
  <2>1. queue'[s] = queue[s]
    BY <1>4 DEF Close
  <2> QED
    BY <1>1, <1>2, <1>4, <2>1 DEF StreamInv
<1> QED
  BY <1>3, <1>4

\* records() keeps StreamInv: a new stream misses nothing.
LEMMA OpenStreams ==
    ASSUME IInv, NEW o \in Streams, OpenStream(o), NEW s \in Streams
    PROVE  StreamInv(s)'
<1>1. StreamInv(s)
  BY DEF IInv
<1>2. CASE s = o
  <2>1. queue[s] = <<>> /\ queue'[s] = <<>> /\ UNCHANGED <<log, closed>>
    BY <1>1, <1>2 DEF OpenStream, StreamInv, callVars
  <2>2. Len(log) \in Nat
    BY LenProperties DEF IInv, TypeOK
  <2>3. /\ reader'[s] = "ready" /\ streamClosed'[s] = closed
        /\ base'[s] = Len(log) /\ seen'[s] = Len(log)
    BY <1>2 DEF OpenStream, IInv, TypeOK
  <2>4. s \in queues' <=> ~closed
    BY <1>1, <1>2 DEF OpenStream, StreamInv, IInv, TypeOK
  <2>5. /\ HoldsNewest(<<>>, Len(log), Len(log))
        /\ ~HasSentinel(<<>>) /\ SentinelLast(<<>>)
    BY <2>2, NothingMissing
  <2> QED
    BY <2>1, <2>2, <2>3, <2>4, <2>5 DEF StreamInv, IInv, TypeOK
<1>3. CASE s # o
  BY <1>1, <1>3, OtherStream DEF OpenStream, callVars, IInv, TypeOK
<1> QED
  BY <1>2, <1>3

\* Queue.get keeps StreamInv: the head is the oldest record, or the sentinel.
LEMMA GotStreams ==
    ASSUME IInv, NEW o \in Streams, AnextRecord(o) \/ AnextSentinel(o),
           NEW s \in Streams
    PROVE  StreamInv(s)'
<1> DEFINE q == queue[s]
<1>1. /\ q \in Seq(Nat) /\ base[s] \in Nat /\ seen[s] \in Nat
      /\ StreamInv(s)
  BY DEF IInv, TypeOK
<1>2. UNCHANGED <<closed, log, seen>>
  BY DEF AnextRecord, AnextSentinel, Got, callVars
<1>3. CASE s = o
  <2>1. q # <<>> /\ queue'[s] = Tail(q) /\ reader[s] \in {"ready", "parked"}
    BY <1>3 DEF AnextRecord, AnextSentinel, Got, IInv, TypeOK
  <2>2. base[s] <= seen[s] /\ SentinelLast(q) /\ HoldsNewest(q, base[s], seen[s])
    BY <1>1, <2>1 DEF StreamInv
  <2>3. /\ SentinelLast(Tail(q))
        /\ HasSentinel(Tail(q)) => HasSentinel(q)
        /\ Head(q) # Sentinel =>
              /\ HasSentinel(q) => HasSentinel(Tail(q))
              /\ base[s] <= Head(q) /\ Head(q) <= seen[s]
              /\ HoldsNewest(Tail(q), Head(q), seen[s])
    BY <1>1, <2>1, <2>2, TakeHead
  <2>4. CASE AnextRecord(o)
    <3>1. /\ Head(q) # Sentinel /\ base'[s] = Head(q) /\ reader'[s] = "ready"
          /\ UNCHANGED <<queues, streamClosed>>
      BY <1>3, <2>4 DEF AnextRecord, IInv, TypeOK
    <3> QED
      BY <1>1, <1>2, <2>1, <2>3, <3>1 DEF StreamInv
  <2>5. CASE AnextSentinel(o)
    <3>1. /\ streamClosed'[s] = TRUE /\ s \notin queues' /\ reader'[s] = "ended"
          /\ UNCHANGED base
      BY <1>3, <2>5 DEF AnextSentinel, IInv, TypeOK
    <3> QED
      BY <1>1, <1>2, <2>1, <2>3, <3>1 DEF StreamInv
  <2> QED
    BY <2>4, <2>5
<1>4. CASE s # o
  <2>1. /\ queue'[s] = queue[s] /\ reader'[s] = reader[s] /\ base'[s] = base[s]
        /\ streamClosed'[s] = streamClosed[s]
        /\ s \in queues' <=> s \in queues
    BY <1>4 DEF AnextRecord, AnextSentinel, Got, IInv, TypeOK
  <2> QED
    BY <1>1, <1>2, <2>1, OtherStream
<1> QED
  BY <1>3, <1>4

\* The steps of a consumer that only move it, and those that close its stream.
LEMMA ConsumerStreams ==
    ASSUME IInv, NEW o \in Streams,
           \/ AnextClosed(o) \/ Park(o) \/ Interrupt(o) \/ Aclose(o) \/ Abandon(o),
           NEW s \in Streams
    PROVE  StreamInv(s)'
<1>1. StreamInv(s) /\ StreamInv(o)
  BY DEF IInv
<1>2. UNCHANGED <<closed, log, queue, base, seen>>
  BY DEF AnextClosed, Park, Interrupt, Aclose, Abandon, callVars
<1>3. reader \in [Streams -> ReaderStates] /\ streamClosed \in [Streams -> BOOLEAN]
  BY DEF IInv, TypeOK
<1>4. CASE s = o
  <2>1. ASSUME AnextClosed(o) PROVE StreamInv(s)'
    <3>1. /\ streamClosed[s] /\ reader[s] = "ready" /\ reader'[s] = "ended"
          /\ UNCHANGED <<queues, streamClosed>>
      BY <1>3, <1>4, <2>1 DEF AnextClosed
    <3> QED
      BY <1>1, <1>2, <3>1 DEF StreamInv
  <2>2. ASSUME Park(o) \/ Interrupt(o) PROVE StreamInv(s)'
    <3>1. /\ reader[s] \in {"ready", "parked"} /\ reader'[s] \in {"ready", "parked"}
          /\ UNCHANGED <<queues, streamClosed>>
      BY <1>3, <1>4, <2>2 DEF Park, Interrupt
    <3> QED
      BY <1>1, <1>2, <3>1 DEF StreamInv
  <2>3. ASSUME Aclose(o) PROVE StreamInv(s)'
    <3>1. /\ reader[s] \in {"ready", "parked"} /\ UNCHANGED reader
          /\ streamClosed'[s] = TRUE /\ s \notin queues'
      BY <1>3, <1>4, <2>3 DEF Aclose
    <3> QED
      BY <1>1, <1>2, <3>1 DEF StreamInv
  <2>4. ASSUME Abandon(o) PROVE StreamInv(s)'
    <3>1. /\ reader[s] = "ready" /\ reader'[s] = "gone"
          /\ UNCHANGED streamClosed /\ s \notin queues'
      BY <1>3, <1>4, <2>4 DEF Abandon
    <3> QED
      BY <1>1, <1>2, <3>1 DEF StreamInv
  <2> QED
    BY <2>1, <2>2, <2>3, <2>4
<1>5. CASE s # o
  <2>1. /\ reader'[s] = reader[s] /\ streamClosed'[s] = streamClosed[s]
        /\ s \in queues' <=> s \in queues
    BY <1>3, <1>5 DEF AnextClosed, Park, Interrupt, Aclose, Abandon
  <2> QED
    BY <1>1, <1>2, <2>1, OtherStream
<1> QED
  BY <1>4, <1>5

\* IInv is inductive.
LEMMA StreamsInvariant == Spec => []IInv
<1>1. Init => IInv
  <2> SUFFICES ASSUME Init PROVE IInv
    OBVIOUS
  <2>1. TypeOK
    BY InitType
  <2>2. ASSUME NEW s \in Streams PROVE StreamInv(s)
    <3>1. HoldsNewest(<<>>, 0, 0) /\ ~HasSentinel(<<>>) /\ SentinelLast(<<>>)
      BY NothingMissing
    <3> QED
      BY <3>1 DEF Init, StreamInv
  <2> QED
    BY <2>1, <2>2 DEF IInv
<1>2. IInv /\ [Next]_vars => IInv'
  <2> SUFFICES ASSUME IInv, [Next]_vars PROVE IInv'
    OBVIOUS
  <2>1. TypeOK'
    BY NextType DEF IInv
  <2> SUFFICES ASSUME NEW s \in Streams PROVE StreamInv(s)'
    BY <2>1 DEF IInv
  <2>2. StreamInv(s)
    BY DEF IInv
  <2>3. ASSUME UNCHANGED <<streamVars, log>> PROVE StreamInv(s)'
    BY <2>2, <2>3, StreamInvUnchanged
  <2>4. ASSUME NEW spec, AddListener(spec) PROVE StreamInv(s)'
    BY <2>3, <2>4 DEF AddListener, callVars
  <2>5. ASSUME NEW key, Unsubscribe(key) PROVE StreamInv(s)'
    BY <2>3, <2>5 DEF Unsubscribe, callVars
  <2>6. ASSUME NEW t \in Tasks, Resume(t) \/ Cancel(t) PROVE StreamInv(s)'
    BY <2>3, <2>6 DEF Resume, Cancel
  <2>7. ASSUME NEW t \in Tasks, NEW record \in Records,
               Dispatch(t, record) \/ CancelThenDispatch(t, record)
        PROVE  StreamInv(s)'
    BY <2>7, DeliverStreams DEF Dispatch, CancelThenDispatch
  <2>8. ASSUME NEW o \in Streams, OpenStream(o) PROVE StreamInv(s)'
    BY <2>8, OpenStreams
  <2>9. ASSUME NEW o \in Streams, Anext(o) \/ Interrupt(o) \/ Aclose(o) \/ Abandon(o)
        PROVE  StreamInv(s)'
    BY <2>9, GotStreams, ConsumerStreams DEF Anext
  <2>10. ASSUME Close PROVE StreamInv(s)'
    BY <2>10, CloseStreams
  <2>11. ASSUME UNCHANGED vars PROVE StreamInv(s)'
    BY <2>3, <2>11 DEF vars, streamVars
  <2> QED
    BY <2>4, <2>5, <2>6, <2>7, <2>8, <2>9, <2>10, <2>11
    DEF Next, ApplicationNext, OnTopic
<1> QED
  BY <1>1, <1>2, PTL DEF Spec

\* The backlog of every stream is exact at every moment: _RecordStream._put
\* loses a record only when queue_maxsize forces it, the oldest one, and the
\* sentinel Dispatcher.close() queues costs one at most.
THEOREM BacklogExact == Spec => []BacklogIsNewest
<1>1. IInv => BacklogIsNewest
  BY DEF IInv, StreamInv, BacklogIsNewest
<1> QED
  BY <1>1, StreamsInvariant, PTL

\* The end-of-stream marker of Dispatcher.close() is queued once and behind
\* every record, and no stream that may still be iterated misses it.
THEOREM EndOfStreamCorrect == Spec => []EndOfStream
<1>1. IInv => EndOfStream
  <2> SUFFICES ASSUME IInv, NEW s \in Streams
               PROVE  /\ \A i \in 1 .. Len(queue[s]) :
                            queue[s][i] = Sentinel => closed /\ i = Len(queue[s])
                      /\ reader[s] \in {"ready", "parked"} /\ ~streamClosed[s] =>
                            IF closed THEN HasSentinel(queue[s]) ELSE s \in queues
    BY DEF EndOfStream
  <2>1. StreamInv(s) /\ queue[s] \in Seq(Nat)
    BY DEF IInv, TypeOK
  <2>2. ASSUME NEW i \in 1 .. Len(queue[s]), queue[s][i] = Sentinel
        PROVE  closed /\ i = Len(queue[s])
    <3>1. i = Len(queue[s])
      BY <2>1, <2>2 DEF StreamInv, SentinelLast
    <3>2. queue[s] # <<>>
      BY <2>1, <2>2
    <3>3. HasSentinel(queue[s])
      BY <2>2, <3>1, <3>2 DEF HasSentinel
    <3> QED
      BY <2>1, <3>1, <3>3 DEF StreamInv
  <2>3. reader[s] \in {"ready", "parked"} /\ ~streamClosed[s] =>
           IF closed THEN HasSentinel(queue[s]) ELSE s \in queues
    BY <2>1 DEF StreamInv
  <2> QED
    BY <2>2, <2>3
<1> QED
  BY <1>1, StreamsInvariant, PTL

-----------------------------------------------------------------------------
(* Listeners *)

\* A task that is suspended in dispatch() dispatches a record of its own, to
\* listeners of that record's snapshot.  So no two tasks run the listeners of
\* one record, and neither can make the other's call a second one.
CallInv(t) ==
    Suspended(t) => /\ call[t].n \in 1 .. Len(log)
                    /\ log[call[t].n].by = t
                    /\ call[t].todo \subseteq log[call[t].n].audience

AInv == TypeOK /\ DeliveryAccounting /\ \A t \in Tasks : CallInv(t)

\* Record numbers and keys are natural numbers.
LEMMA AudienceType ==
    ASSUME TypeOK, NEW n \in 1 .. Len(log), NEW k \in log[n].audience
    PROVE  n \in Nat /\ k \in Nat
<1>1. log \in Seq(LogEntry)
  BY DEF TypeOK, LogEntry
<1>2. log[n] \in LogEntry
  BY <1>1, ElementOfSeq
<1>3. Len(log) \in Nat
  BY <1>1, LenProperties
<1> QED
  BY <1>2, <1>3 DEF LogEntry

\* What running the listeners of todo does: those called are heard, the others
\* are still due, and nothing else changes.
LEMMA RunAccounts ==
    ASSUME TypeOK, NEW t \in Tasks, NEW n \in Nat, NEW todo \in SUBSET Nat,
           RunListeners(t, n, todo)
    PROVE  /\ \A m, k \in Nat : <<m, k>> \in heard => <<m, k>> \in heard'
           /\ \A m, k \in Nat : <<m, k>> \in heard' =>
                 <<m, k>> \in heard \/ (m = n /\ k \in todo)
           /\ \A k \in todo : \/ <<n, k>> \in heard'
                              \/ call'[t].n = n /\ k \in call'[t].todo
           /\ \A k \in call'[t].todo :
                 k \in todo /\ (<<n, k>> \in heard' => <<n, k>> \in heard)
           /\ call'[t] # Idle => call'[t].n = n
           /\ \A u \in Tasks \ {t} : call'[u] = call[u]
<1>0. call \in [Tasks -> CallType]
  BY DEF TypeOK, CallType
<1>1. CASE heard' = heard \cup ({n} \X todo) /\ call' = [call EXCEPT ![t] = Idle]
  BY <1>0, <1>1 DEF Idle
<1>2. ASSUME NEW k \in todo,
             heard' = heard \cup ({n} \X {j \in todo : j <= k}),
             call' = [call EXCEPT ![t] = [n |-> n, at |-> k,
                                          todo |-> {j \in todo : j > k}]]
      PROVE  /\ \A m, j \in Nat : <<m, j>> \in heard => <<m, j>> \in heard'
             /\ \A m, j \in Nat : <<m, j>> \in heard' =>
                   <<m, j>> \in heard \/ (m = n /\ j \in todo)
             /\ \A j \in todo : \/ <<n, j>> \in heard'
                                \/ call'[t].n = n /\ j \in call'[t].todo
             /\ \A j \in call'[t].todo :
                   j \in todo /\ (<<n, j>> \in heard' => <<n, j>> \in heard)
             /\ call'[t] # Idle => call'[t].n = n
             /\ \A u \in Tasks \ {t} : call'[u] = call[u]
  <2>1. call'[t].n = n /\ call'[t].todo = {j \in todo : j > k}
    BY <1>0, <1>2
  <2>2. \A u \in Tasks \ {t} : call'[u] = call[u]
    BY <1>0, <1>2
  <2>3. \A m, j : <<m, j>> \in heard' <=>
                     <<m, j>> \in heard \/ (m = n /\ j \in todo /\ j <= k)
    BY <1>2
  <2>4. \A j \in todo : j \in Nat /\ k \in Nat /\ (j > k <=> ~(j <= k))
    BY <1>2
  <2> QED
    BY <2>1, <2>2, <2>3, <2>4
<1> QED
  BY <1>1, <1>2 DEF RunListeners

\* The accounting reads these variables only.
LEMMA AccountingUnchanged ==
    ASSUME AInv, TypeOK', UNCHANGED callVars
    PROVE  AInv'
BY DEF AInv, CallInv, DeliveryAccounting, Suspended, callVars

\* A listener that returns keeps the accounting: the record is the task's own.
LEMMA ResumeAccounts ==
    ASSUME AInv, TypeOK', NEW t \in Tasks, Resume(t)
    PROVE  AInv'
<1> DEFINE n == call[t].n
           todo == call[t].todo
<1>1. /\ n \in 1 .. Len(log) /\ log[n].by = t /\ todo \subseteq log[n].audience
      /\ Len(log) \in Nat /\ n \in Nat /\ todo \in SUBSET Nat
  <2>1. CallInv(t) /\ TypeOK /\ Suspended(t)
    BY DEF AInv, Resume
  <2> QED
    BY <2>1, LenProperties DEF CallInv, TypeOK
<1>2. UNCHANGED <<log, cut>>
  BY DEF Resume
<1>3. RunListeners(t, n, todo)
  BY DEF Resume
<1> HIDE DEF n, todo
<1>4. /\ \A m, k \in Nat : <<m, k>> \in heard => <<m, k>> \in heard'
      /\ \A m, k \in Nat : <<m, k>> \in heard' =>
            <<m, k>> \in heard \/ (m = n /\ k \in todo)
      /\ \A k \in todo : \/ <<n, k>> \in heard'
                         \/ call'[t].n = n /\ k \in call'[t].todo
      /\ \A k \in call'[t].todo :
            k \in todo /\ (<<n, k>> \in heard' => <<n, k>> \in heard)
      /\ call'[t] # Idle => call'[t].n = n
      /\ \A u \in Tasks \ {t} : call'[u] = call[u]
  BY <1>1, <1>3, RunAccounts DEF AInv
<1>5. \A u \in Tasks : CallInv(u)'
  <2>1. ASSUME NEW u \in Tasks PROVE CallInv(u)'
    <3>1. CallInv(u)
      BY DEF AInv
    <3>2. CASE u = t
      BY <1>1, <1>2, <1>4, <3>2 DEF CallInv, Suspended
    <3>3. CASE u # t
      BY <1>2, <1>4, <3>1, <3>3 DEF CallInv, Suspended
    <3> QED
      BY <3>2, <3>3
  <2> QED
    BY <2>1
<1>6. ASSUME NEW m \in 1 .. Len(log), NEW k \in log[m].audience
      PROVE  \/ <<m, k>> \in heard' \/ m \in cut
             \/ \E u \in Tasks : call'[u].n = m /\ k \in call'[u].todo
  <2>1. m \in Nat /\ k \in Nat
    BY AudienceType DEF AInv
  <2>2. \/ <<m, k>> \in heard \/ m \in cut
        \/ \E u \in Tasks : call[u].n = m /\ k \in call[u].todo
    BY DEF AInv, DeliveryAccounting
  <2>3. ASSUME NEW u \in Tasks, call[u].n = m, k \in call[u].todo
        PROVE  \/ <<m, k>> \in heard'
               \/ \E v \in Tasks : call'[v].n = m /\ k \in call'[v].todo
    <3>1. CASE u = t
      BY <1>4, <2>3, <3>1 DEF n, todo
    <3>2. CASE u # t
      BY <1>4, <2>3, <3>2
    <3> QED
      BY <3>1, <3>2
  <2> QED
    BY <1>4, <2>1, <2>2, <2>3
<1>7. ASSUME NEW e \in heard'
      PROVE  e[1] \in 1 .. Len(log) /\ e[2] \in log[e[1]].audience
  <2>1. e = <<e[1], e[2]>> /\ e[1] \in Nat /\ e[2] \in Nat
    BY DEF TypeOK
  <2>2. e \in heard \/ (e[1] = n /\ e[2] \in todo)
    BY <1>4, <2>1
  <2> QED
    BY <1>1, <2>2 DEF AInv, DeliveryAccounting
<1>8. ASSUME NEW u \in Tasks, NEW k \in call'[u].todo
      PROVE  <<call'[u].n, k>> \notin heard'
  <2>1. CASE u = t
    <3>1. k \in todo /\ (<<n, k>> \in heard' => <<n, k>> \in heard)
      BY <1>4, <1>8, <2>1
    <3>2. <<n, k>> \notin heard
      BY <3>1 DEF AInv, DeliveryAccounting, n, todo
    <3>3. call'[t].n = n
      BY <1>4, <1>8, <2>1 DEF Idle
    <3> QED
      BY <2>1, <3>1, <3>2, <3>3
  <2>2. CASE u # t
    <3>1. call'[u] = call[u] /\ k \in call[u].todo /\ CallInv(u)
      BY <1>4, <1>8, <2>2 DEF AInv
    <3>2. <<call[u].n, k>> \notin heard /\ call[u].n \in Nat /\ k \in Nat
      BY <3>1 DEF AInv, DeliveryAccounting, TypeOK
    <3>3. log[call[u].n].by = u
      BY <3>1 DEF CallInv, Suspended, Idle
    <3>4. call[u].n # n
      BY <1>1, <2>2, <3>3
    <3> QED
      BY <1>4, <3>1, <3>2, <3>4
  <2> QED
    BY <2>1, <2>2
<1> QED
  BY <1>2, <1>5, <1>6, <1>7, <1>8 DEF AInv, DeliveryAccounting

\* A cancellation keeps the accounting: what was due is covered by cut.
LEMMA CancelAccounts ==
    ASSUME AInv, TypeOK', NEW t \in Tasks, Cancel(t)
    PROVE  AInv'
<1>1. UNCHANGED <<log, heard>> /\ cut' = cut \cup {call[t].n}
      /\ call' = [call EXCEPT ![t] = Idle] /\ call \in [Tasks -> CallType]
  BY DEF Cancel, AInv, TypeOK, CallType
<1>2. call'[t] = Idle /\ \A u \in Tasks \ {t} : call'[u] = call[u]
  BY <1>1
<1>3. ASSUME NEW u \in Tasks PROVE CallInv(u)'
  BY <1>1, <1>2 DEF AInv, CallInv, Suspended
<1>4. ASSUME NEW m \in 1 .. Len(log), NEW k \in log[m].audience
      PROVE  \/ <<m, k>> \in heard \/ m \in cut'
             \/ \E u \in Tasks : call'[u].n = m /\ k \in call'[u].todo
  <2>1. \/ <<m, k>> \in heard \/ m \in cut
        \/ \E u \in Tasks : call[u].n = m /\ k \in call[u].todo
    BY DEF AInv, DeliveryAccounting
  <2> QED
    BY <1>1, <1>2, <2>1
<1>5. ASSUME NEW u \in Tasks, NEW k \in call'[u].todo
      PROVE  <<call'[u].n, k>> \notin heard
  <2>1. u # t
    BY <1>2, <1>5 DEF Idle
  <2> QED
    BY <1>2, <1>5, <2>1 DEF AInv, DeliveryAccounting
<1>6. \A e \in heard : e[1] \in 1 .. Len(log) /\ e[2] \in log[e[1]].audience
  BY DEF AInv, DeliveryAccounting
<1> QED
  BY <1>1, <1>3, <1>4, <1>5, <1>6 DEF AInv, DeliveryAccounting

\* What dispatch() adds to the log.
LEMMA DeliverLog ==
    ASSUME TypeOK, NEW t \in Tasks, NEW record \in Records, Deliver(t, record)
    PROVE  /\ Len(log) \in Nat /\ Len(log) + 1 \in Nat
           /\ Len(log') = Len(log) + 1
           /\ \A i \in 1 .. Len(log) : log'[i] = log[i]
           /\ log'[Len(log) + 1].by = t
           /\ log'[Len(log) + 1].audience = Snapshot(record)
           /\ Snapshot(record) \in SUBSET Nat
<1> DEFINE todo == Snapshot(record)
<1>1. log \in Seq(LogEntry)
  BY DEF TypeOK, LogEntry
<1>2. todo \in SUBSET Nat
  BY SnapshotType
<1>3. [by |-> t, record |-> record, audience |-> todo] \in LogEntry
  BY <1>2 DEF LogEntry
<1>4. log' = Append(log, [by |-> t, record |-> record, audience |-> todo])
  BY DEF Deliver
<1> HIDE DEF todo
<1>5. /\ Len(log) \in Nat /\ Len(log') = Len(log) + 1
      /\ \A i \in 1 .. Len(log) : log'[i] = log[i]
      /\ log'[Len(log) + 1] = [by |-> t, record |-> record, audience |-> todo]
  BY <1>1, <1>3, <1>4, AppendProperties, LenProperties
<1> QED
  BY <1>2, <1>5 DEF todo

\* The record is new: nobody has heard it, and no other task dispatches it.
LEMMA DeliverAccounts ==
    ASSUME AInv, TypeOK', NEW t \in Tasks, NEW record \in Records,
           Deliver(t, record),
           \/ ~Suspended(t) /\ cut' = cut
           \/ cut' = cut \cup {call[t].n}
    PROVE  AInv'
<1> DEFINE n == Len(log) + 1
           todo == Snapshot(record)
<1>1. /\ Len(log) \in Nat /\ n \in Nat /\ n = Len(log) + 1 /\ Len(log') = n
      /\ \A i \in 1 .. Len(log) : log'[i] = log[i]
      /\ log'[n].by = t /\ log'[n].audience = todo
      /\ todo \in SUBSET Nat
  BY DeliverLog DEF AInv
<1>2. RunListeners(t, n, todo)
  BY DEF Deliver
<1> HIDE DEF n, todo
<1>3. /\ \A m, k \in Nat : <<m, k>> \in heard => <<m, k>> \in heard'
      /\ \A m, k \in Nat : <<m, k>> \in heard' =>
            <<m, k>> \in heard \/ (m = n /\ k \in todo)
      /\ \A k \in todo : \/ <<n, k>> \in heard'
                         \/ call'[t].n = n /\ k \in call'[t].todo
      /\ \A k \in call'[t].todo :
            k \in todo /\ (<<n, k>> \in heard' => <<n, k>> \in heard)
      /\ call'[t] # Idle => call'[t].n = n
      /\ \A u \in Tasks \ {t} : call'[u] = call[u]
  BY <1>1, <1>2, RunAccounts DEF AInv
<1>4. \A e \in heard : e[1] \in 1 .. Len(log) /\ e[2] \in log[e[1]].audience
  BY DEF AInv, DeliveryAccounting
<1>5. \A k \in Nat : <<n, k>> \notin heard
  BY <1>1, <1>4
<1>6. ASSUME NEW u \in Tasks, u # t
      PROVE  CallInv(u)' /\ (call[u].todo # {} => call[u].n \in 1 .. Len(log))
  <2>1. call'[u] = call[u] /\ CallInv(u)
    BY <1>3, <1>6 DEF AInv
  <2>2. CASE Suspended(u)
    <3>1. /\ call[u].n \in 1 .. Len(log) /\ log'[call[u].n] = log[call[u].n]
          /\ log[call[u].n].by = u /\ call[u].todo \subseteq log[call[u].n].audience
      BY <1>1, <2>1, <2>2 DEF CallInv
    <3>2. call[u].n \in 1 .. Len(log')
      BY <1>1, <3>1
    <3> QED
      BY <2>1, <3>1, <3>2 DEF CallInv
  <2>3. CASE ~Suspended(u)
    BY <2>1, <2>3 DEF CallInv, Suspended, Idle
  <2> QED
    BY <2>2, <2>3
<1>7. CallInv(t)'
  <2> SUFFICES ASSUME call'[t] # Idle
               PROVE  /\ call'[t].n \in 1 .. Len(log')
                      /\ log'[call'[t].n].by = t
                      /\ call'[t].todo \subseteq log'[call'[t].n].audience
    BY DEF CallInv, Suspended
  <2>1. call'[t].n = n /\ call'[t].todo \subseteq todo
    BY <1>3
  <2>2. n \in 1 .. Len(log')
    BY <1>1
  <2> QED
    BY <1>1, <2>1, <2>2
<1>8. ASSUME NEW m \in 1 .. Len(log'), NEW k \in log'[m].audience
      PROVE  \/ <<m, k>> \in heard' \/ m \in cut'
             \/ \E u \in Tasks : call'[u].n = m /\ k \in call'[u].todo
  <2>1. CASE m = n
    BY <1>1, <1>3, <2>1
  <2>2. CASE m # n
    <3>1. m \in 1 .. Len(log) /\ m \in Nat
      BY <1>1, <2>2
    <3>2. log'[m] = log[m] /\ k \in log[m].audience
      BY <1>1, <3>1
    <3>3. k \in Nat
      BY <3>1, <3>2, AudienceType DEF AInv
    <3>4. \/ <<m, k>> \in heard \/ m \in cut
          \/ \E u \in Tasks : call[u].n = m /\ k \in call[u].todo
      BY <3>1, <3>2 DEF AInv, DeliveryAccounting
    <3>5. ASSUME NEW u \in Tasks, call[u].n = m, k \in call[u].todo
          PROVE  m \in cut' \/ (call'[u].n = m /\ k \in call'[u].todo)
      <4>1. CASE u = t
        BY <3>5, <4>1 DEF Suspended, Idle
      <4>2. CASE u # t
        BY <1>3, <3>5, <4>2
      <4> QED
        BY <4>1, <4>2
    <3>6. cut \subseteq cut'
      OBVIOUS
    <3> QED
      BY <1>3, <3>1, <3>3, <3>4, <3>5, <3>6
  <2> QED
    BY <2>1, <2>2
<1>9. ASSUME NEW e \in heard'
      PROVE  e[1] \in 1 .. Len(log') /\ e[2] \in log'[e[1]].audience
  <2>1. e = <<e[1], e[2]>> /\ e[1] \in Nat /\ e[2] \in Nat
    BY DEF TypeOK
  <2>2. CASE e \in heard
    <3>1. e[1] \in 1 .. Len(log) /\ e[2] \in log[e[1]].audience
      BY <1>4, <2>2
    <3> QED
      BY <1>1, <3>1
  <2>3. CASE e[1] = n /\ e[2] \in todo
    BY <1>1, <2>3
  <2> QED
    BY <1>3, <2>1, <2>2, <2>3
<1>10. ASSUME NEW u \in Tasks, NEW k \in call'[u].todo
       PROVE  <<call'[u].n, k>> \notin heard'
  <2>1. CASE u = t
    <3>1. k \in todo /\ (<<n, k>> \in heard' => <<n, k>> \in heard)
      BY <1>3, <1>10, <2>1
    <3>2. call'[t].n = n
      BY <1>3, <1>10, <2>1 DEF Idle
    <3>3. k \in Nat
      BY <1>1, <3>1
    <3> QED
      BY <1>5, <2>1, <3>1, <3>2, <3>3
  <2>2. CASE u # t
    <3>1. call'[u] = call[u] /\ k \in call[u].todo
      BY <1>3, <1>10, <2>2
    <3>2. <<call[u].n, k>> \notin heard /\ call[u].n \in Nat /\ k \in Nat
      BY <3>1 DEF AInv, DeliveryAccounting, TypeOK
    <3>3. call[u].n # n
      BY <1>1, <1>6, <2>2, <3>1
    <3> QED
      BY <1>3, <3>1, <3>2, <3>3
  <2> QED
    BY <2>1, <2>2
<1>11. \A u \in Tasks : CallInv(u)'
  BY <1>6, <1>7
<1> QED
  BY <1>8, <1>9, <1>10, <1>11 DEF AInv, DeliveryAccounting

\* Every step but those of the tasks that dispatch.
LEMMA QuietSteps ==
    ASSUME ApplicationNext \/ Close \/ UNCHANGED vars
    PROVE  UNCHANGED callVars
<1>1. CASE ApplicationNext
  BY <1>1 DEF ApplicationNext, AddListener, OnTopic, Unsubscribe, OpenStream,
              Anext, AnextClosed, Park, AnextRecord, AnextSentinel, Got,
              Interrupt, Aclose, Abandon
<1>2. CASE Close
  BY <1>2 DEF Close
<1>3. CASE UNCHANGED vars
  BY <1>3 DEF vars, callVars
<1> QED
  BY <1>1, <1>2, <1>3

\* The accounting holds initially.
LEMMA AccountingInit == Init => AInv
<1> SUFFICES ASSUME Init PROVE AInv
  OBVIOUS
<1>1. TypeOK
  BY InitType
<1>2. DeliveryAccounting
  BY DEF Init, DeliveryAccounting, Idle
<1>3. \A t \in Tasks : CallInv(t)
  BY DEF Init, CallInv, Suspended
<1> QED
  BY <1>1, <1>2, <1>3 DEF AInv

\* Every step keeps the accounting.
LEMMA AccountingStep == AInv /\ [Next]_vars => AInv'
<1> SUFFICES ASSUME AInv, [Next]_vars PROVE AInv'
  OBVIOUS
<1>1. TypeOK'
  BY NextType DEF AInv
<1>2. ASSUME UNCHANGED callVars PROVE AInv'
  BY <1>1, <1>2, AccountingUnchanged
<1>3. ASSUME NEW t \in Tasks, NEW record \in Records, Dispatch(t, record)
      PROVE  AInv'
  BY <1>1, <1>3, DeliverAccounts DEF Dispatch
<1>4. ASSUME NEW t \in Tasks, NEW record \in Records,
             CancelThenDispatch(t, record)
      PROVE  AInv'
  BY <1>1, <1>4, DeliverAccounts DEF CancelThenDispatch
<1>5. ASSUME NEW t \in Tasks, Resume(t) PROVE AInv'
  BY <1>1, <1>5, ResumeAccounts
<1>6. ASSUME NEW t \in Tasks, Cancel(t) PROVE AInv'
  BY <1>1, <1>6, CancelAccounts
<1> QED
  BY <1>2, <1>3, <1>4, <1>5, <1>6, QuietSteps DEF Next

\* Every listener that matched a record when dispatch() took its snapshot is
\* called with it exactly once, and no other is: whatever is registered,
\* unsubscribed, dispatched or cancelled while listeners are awaited.
THEOREM DeliveryAccounted == Spec => []DeliveryAccounting
<1>1. AInv => DeliveryAccounting
  BY DEF AInv
<1> QED
  BY <1>1, AccountingInit, AccountingStep, PTL DEF Spec

-----------------------------------------------------------------------------
(* The order of the calls *)

\* The listeners that heard a record are the first ones of its audience.
InKeyOrder ==
    \A e \in heard : \A j \in log[e[1]].audience :
        j < e[2] => <<e[1], j>> \in heard

\* A task is in its latest record, that record was not cancelled, and the
\* listeners still due are the last ones of its snapshot.
OrderInv(t) ==
    Suspended(t) =>
        /\ \A m \in 1 .. Len(log) : log[m].by = t => m <= call[t].n
        /\ call[t].n \notin cut
        /\ \A j \in call[t].todo : \A k \in log[call[t].n].audience :
              j <= k => k \in call[t].todo

OInv ==
    /\ AInv
    /\ InKeyOrder
    /\ cut \subseteq 1 .. Len(log)
    /\ \A t \in Tasks : OrderInv(t)

\* The listeners called are the first ones of todo.
LEMMA RunOrder ==
    ASSUME TypeOK, NEW t \in Tasks, NEW n \in Nat, NEW todo \in SUBSET Nat,
           RunListeners(t, n, todo)
    PROVE  /\ \A k \in todo : \A j \in todo :
                 <<n, k>> \in heard' /\ <<n, k>> \notin heard /\ j < k
                 => <<n, j>> \in heard'
           /\ \A j \in call'[t].todo : \A k \in todo :
                 j <= k => k \in call'[t].todo
<1>0. call \in [Tasks -> CallType]
  BY DEF TypeOK, CallType
<1>1. CASE heard' = heard \cup ({n} \X todo) /\ call' = [call EXCEPT ![t] = Idle]
  <2>1. call'[t].todo = {}
    BY <1>0, <1>1 DEF Idle
  <2>2. \A j \in todo : <<n, j>> \in heard'
    BY <1>1
  <2> QED
    BY <2>1, <2>2
<1>2. ASSUME NEW i \in todo,
             heard' = heard \cup ({n} \X {j \in todo : j <= i}),
             call' = [call EXCEPT ![t] = [n |-> n, at |-> i,
                                          todo |-> {j \in todo : j > i}]]
      PROVE  /\ \A k \in todo : \A j \in todo :
                   <<n, k>> \in heard' /\ <<n, k>> \notin heard /\ j < k
                   => <<n, j>> \in heard'
             /\ \A j \in call'[t].todo : \A k \in todo :
                   j <= k => k \in call'[t].todo
  <2>1. call'[t].todo = {j \in todo : j > i}
    BY <1>0, <1>2
  <2>2. \A j : <<n, j>> \in heard' <=>
                  <<n, j>> \in heard \/ (j \in todo /\ j <= i)
    BY <1>2
  <2>3. i \in Nat /\ \A j \in todo : j \in Nat
    BY <1>2
  <2>4. ASSUME NEW k \in todo, NEW j \in todo, <<n, k>> \in heard',
               <<n, k>> \notin heard, j < k
        PROVE  <<n, j>> \in heard'
    BY <2>2, <2>3, <2>4
  <2>5. ASSUME NEW j \in call'[t].todo, NEW k \in todo, j <= k
        PROVE  k \in call'[t].todo
    <3>1. j \in {x \in todo : x > i}
      BY <2>1, <2>5
    <3>2. k > i
      BY <2>3, <2>5, <3>1
    <3> QED
      BY <2>1, <3>2
  <2> QED
    BY <2>4, <2>5
<1> QED
  BY <1>1, <1>2 DEF RunListeners

\* A record that no task but t dispatches any more, and that was not cancelled,
\* was heard by all of its audience but those t still has to call.
LEMMA HeardOrDue ==
    ASSUME AInv, NEW t \in Tasks, NEW m \in 1 .. Len(log), log[m].by = t,
           m \notin cut, NEW k \in log[m].audience
    PROVE  <<m, k>> \in heard \/ (call[t].n = m /\ k \in call[t].todo)
<1>1. \/ <<m, k>> \in heard
      \/ \E u \in Tasks : call[u].n = m /\ k \in call[u].todo
  BY DEF AInv, DeliveryAccounting
<1>2. ASSUME NEW u \in Tasks, call[u].n = m, k \in call[u].todo
      PROVE  u = t
  <2>1. Suspended(u) /\ CallInv(u)
    BY <1>2 DEF Suspended, Idle, AInv
  <2> QED
    BY <1>2, <2>1 DEF CallInv
<1> QED
  BY <1>1, <1>2

\* A listener that returns keeps the order: the next ones are the first due.
LEMMA ResumeOrder ==
    ASSUME OInv, AInv', NEW t \in Tasks, Resume(t)
    PROVE  OInv'
<1> DEFINE n == call[t].n
           todo == call[t].todo
<1>1. /\ n \in 1 .. Len(log) /\ log[n].by = t /\ todo \subseteq log[n].audience
      /\ n \in Nat /\ todo \in SUBSET Nat /\ n \notin cut
      /\ \A m \in 1 .. Len(log) : log[m].by = t => m <= n
      /\ \A j \in todo : \A k \in log[n].audience : j <= k => k \in todo
  <2>1. CallInv(t) /\ OrderInv(t) /\ TypeOK /\ Suspended(t)
    BY DEF OInv, AInv, Resume
  <2> QED
    BY <2>1 DEF CallInv, OrderInv, TypeOK
<1>2. UNCHANGED <<log, cut>>
  BY DEF Resume
<1>3. RunListeners(t, n, todo) /\ TypeOK
  BY DEF Resume, OInv, AInv
<1>4. \A k \in log[n].audience : <<n, k>> \in heard \/ k \in todo
  BY <1>1, HeardOrDue DEF OInv
<1> HIDE DEF n, todo
<1>5. /\ \A m, k \in Nat : <<m, k>> \in heard => <<m, k>> \in heard'
      /\ \A m, k \in Nat : <<m, k>> \in heard' =>
            <<m, k>> \in heard \/ (m = n /\ k \in todo)
      /\ \A k \in todo : \/ <<n, k>> \in heard'
                         \/ call'[t].n = n /\ k \in call'[t].todo
      /\ \A k \in call'[t].todo :
            k \in todo /\ (<<n, k>> \in heard' => <<n, k>> \in heard)
      /\ call'[t] # Idle => call'[t].n = n
      /\ \A u \in Tasks \ {t} : call'[u] = call[u]
  BY <1>1, <1>3, RunAccounts
<1>6. /\ \A k \in todo : \A j \in todo :
            <<n, k>> \in heard' /\ <<n, k>> \notin heard /\ j < k
            => <<n, j>> \in heard'
      /\ \A j \in call'[t].todo : \A k \in todo : j <= k => k \in call'[t].todo
  BY <1>1, <1>3, RunOrder
<1>7. ASSUME NEW e \in heard', NEW j \in log[e[1]].audience, j < e[2]
      PROVE  <<e[1], j>> \in heard'
  <2>1. e = <<e[1], e[2]>> /\ e[1] \in Nat /\ e[2] \in Nat
    <3>1. heard' \subseteq Nat \X Nat
      BY DEF AInv, TypeOK
    <3> QED
      BY <3>1
  <2>2. CASE e \in heard
    <3>1. <<e[1], j>> \in heard
      BY <1>7, <2>2 DEF OInv, InKeyOrder
    <3>2. j \in Nat
      BY <3>1 DEF OInv, AInv, TypeOK
    <3> QED
      BY <1>5, <2>1, <3>1, <3>2
  <2>3. CASE e \notin heard
    <3>1. e[1] = n /\ e[2] \in todo
      BY <1>5, <2>1, <2>3
    <3>2. j \in Nat
      BY <1>1, <1>3, <1>7, <3>1, AudienceType
    <3>3. CASE j \in todo
      BY <1>6, <1>7, <2>1, <2>3, <3>1, <3>3
    <3>4. CASE j \notin todo
      BY <1>1, <1>4, <1>5, <1>7, <3>1, <3>2, <3>4
    <3> QED
      BY <3>3, <3>4
  <2> QED
    BY <2>2, <2>3
<1>8. ASSUME NEW u \in Tasks PROVE OrderInv(u)'
  <2>1. CASE u = t
    <3>1. ASSUME call'[t] # Idle, NEW j \in call'[t].todo, NEW k \in log[n].audience,
                 j <= k
          PROVE  k \in call'[t].todo
      <4>1. k \in todo
        BY <1>1, <1>5, <3>1
      <4> QED
        BY <1>6, <3>1, <4>1
    <3> QED
      BY <1>1, <1>2, <1>5, <2>1, <3>1 DEF OrderInv, Suspended
  <2>2. CASE u # t
    <3>1. call'[u] = call[u] /\ OrderInv(u)
      BY <1>5, <2>2 DEF OInv
    <3> QED
      BY <1>2, <3>1 DEF OrderInv, Suspended
  <2> QED
    BY <2>1, <2>2
<1> QED
  BY <1>2, <1>7, <1>8 DEF OInv, InKeyOrder

\* A cancellation keeps the order: no other task is in the cancelled record.
LEMMA CancelOrder ==
    ASSUME OInv, AInv', NEW t \in Tasks, Cancel(t)
    PROVE  OInv'
<1>1. UNCHANGED <<log, heard>> /\ cut' = cut \cup {call[t].n}
      /\ call' = [call EXCEPT ![t] = Idle] /\ call \in [Tasks -> CallType]
      /\ Suspended(t)
  BY DEF Cancel, OInv, AInv, TypeOK, CallType
<1>2. call'[t] = Idle /\ \A u \in Tasks \ {t} : call'[u] = call[u]
  BY <1>1
<1>3. call[t].n \in 1 .. Len(log) /\ log[call[t].n].by = t
  BY <1>1 DEF OInv, AInv, CallInv
<1>4. ASSUME NEW u \in Tasks PROVE OrderInv(u)'
  <2>1. CASE u = t
    BY <1>2, <2>1 DEF OrderInv, Suspended
  <2>2. CASE u # t
    <3>1. call'[u] = call[u] /\ OrderInv(u) /\ CallInv(u)
      BY <1>2, <2>2 DEF OInv, AInv
    <3>2. Suspended(u) => call[u].n # call[t].n
      BY <1>3, <2>2, <3>1 DEF CallInv
    <3> QED
      BY <1>1, <3>1, <3>2 DEF OrderInv, Suspended
  <2> QED
    BY <2>1, <2>2
<1> QED
  BY <1>1, <1>3, <1>4 DEF OInv, InKeyOrder

\* A new record keeps the order: it is the latest of its task.
LEMMA DeliverOrder ==
    ASSUME OInv, AInv', NEW t \in Tasks, NEW record \in Records,
           Deliver(t, record),
           \/ cut' = cut
           \/ Suspended(t) /\ cut' = cut \cup {call[t].n}
    PROVE  OInv'
<1> DEFINE n == Len(log) + 1
           todo == Snapshot(record)
<1>1. /\ Len(log) \in Nat /\ n \in Nat /\ n = Len(log) + 1 /\ Len(log') = n
      /\ \A i \in 1 .. Len(log) : log'[i] = log[i]
      /\ log'[n].by = t /\ log'[n].audience = todo /\ todo \in SUBSET Nat
  BY DeliverLog DEF OInv, AInv
<1>2. RunListeners(t, n, todo) /\ TypeOK
  BY DEF Deliver, OInv, AInv
<1> HIDE DEF n, todo
<1>3. /\ \A m, k \in Nat : <<m, k>> \in heard => <<m, k>> \in heard'
      /\ \A m, k \in Nat : <<m, k>> \in heard' =>
            <<m, k>> \in heard \/ (m = n /\ k \in todo)
      /\ \A k \in todo : \/ <<n, k>> \in heard'
                         \/ call'[t].n = n /\ k \in call'[t].todo
      /\ \A k \in call'[t].todo :
            k \in todo /\ (<<n, k>> \in heard' => <<n, k>> \in heard)
      /\ call'[t] # Idle => call'[t].n = n
      /\ \A u \in Tasks \ {t} : call'[u] = call[u]
  BY <1>1, <1>2, RunAccounts
<1>4. /\ \A k \in todo : \A j \in todo :
            <<n, k>> \in heard' /\ <<n, k>> \notin heard /\ j < k
            => <<n, j>> \in heard'
      /\ \A j \in call'[t].todo : \A k \in todo : j <= k => k \in call'[t].todo
  BY <1>1, <1>2, RunOrder
<1>5. \A e \in heard : e[1] \in 1 .. Len(log) /\ e[2] \in log[e[1]].audience
  BY DEF OInv, AInv, DeliveryAccounting
<1>6. cut' \subseteq 1 .. Len(log)
  <2>1. Suspended(t) => call[t].n \in 1 .. Len(log)
    BY DEF OInv, AInv, CallInv
  <2> QED
    BY <2>1 DEF OInv
<1>7. ASSUME NEW e \in heard', NEW j \in log'[e[1]].audience, j < e[2]
      PROVE  <<e[1], j>> \in heard'
  <2>1. e = <<e[1], e[2]>> /\ e[1] \in Nat /\ e[2] \in Nat
    BY DEF AInv, TypeOK
  <2>2. CASE e \in heard
    <3>1. log'[e[1]] = log[e[1]]
      BY <1>1, <1>5, <2>2
    <3>2. <<e[1], j>> \in heard
      BY <1>7, <2>2, <3>1 DEF OInv, InKeyOrder
    <3>3. j \in Nat
      BY <3>2 DEF OInv, AInv, TypeOK
    <3> QED
      BY <1>3, <2>1, <3>2, <3>3
  <2>3. CASE e \notin heard
    <3>1. e[1] = n /\ e[2] \in todo
      BY <1>3, <2>1, <2>3
    <3>2. j \in todo
      BY <1>1, <1>7, <3>1
    <3> QED
      BY <1>4, <1>7, <2>1, <2>3, <3>1, <3>2
  <2> QED
    BY <2>2, <2>3
<1>8. ASSUME NEW u \in Tasks PROVE OrderInv(u)'
  <2>1. CASE u = t
    <3> SUFFICES ASSUME call'[t] # Idle
                 PROVE  /\ \A m \in 1 .. Len(log') :
                              log'[m].by = t => m <= call'[t].n
                        /\ call'[t].n \notin cut'
                        /\ \A j \in call'[t].todo :
                              \A k \in log'[call'[t].n].audience :
                                 j <= k => k \in call'[t].todo
      BY <2>1 DEF OrderInv, Suspended
    <3>1. call'[t].n = n
      BY <1>3
    <3>2. n \notin cut'
      BY <1>1, <1>6
    <3>3. \A m \in 1 .. Len(log') : m <= n
      BY <1>1
    <3>4. \A j \in call'[t].todo : \A k \in todo : j <= k => k \in call'[t].todo
      BY <1>4
    <3>5. log'[n].audience = todo
      BY <1>1
    <3> QED
      BY <3>1, <3>2, <3>3, <3>4, <3>5
  <2>2. CASE u # t
    <3> SUFFICES ASSUME Suspended(u)
                 PROVE  /\ \A m \in 1 .. Len(log') :
                              log'[m].by = u => m <= call[u].n
                        /\ call[u].n \notin cut'
                        /\ \A j \in call[u].todo :
                              \A k \in log'[call[u].n].audience :
                                 j <= k => k \in call[u].todo
      BY <1>3, <2>2 DEF OrderInv, Suspended
    <3>1. /\ call[u].n \in 1 .. Len(log) /\ log[call[u].n].by = u
          /\ \A m \in 1 .. Len(log) : log[m].by = u => m <= call[u].n
          /\ call[u].n \notin cut
          /\ \A j \in call[u].todo : \A k \in log[call[u].n].audience :
                j <= k => k \in call[u].todo
      BY DEF OInv, AInv, CallInv, OrderInv
    <3>2. ASSUME NEW m \in 1 .. Len(log'), log'[m].by = u PROVE m <= call[u].n
      <4>1. m # n
        BY <1>1, <2>2, <3>2
      <4>2. m \in 1 .. Len(log)
        BY <1>1, <4>1
      <4> QED
        BY <1>1, <3>1, <3>2, <4>2
    <3>3. Suspended(t) => call[t].n # call[u].n
      BY <2>2, <3>1 DEF OInv, AInv, CallInv
    <3>4. log'[call[u].n] = log[call[u].n]
      BY <1>1, <3>1
    <3> QED
      BY <3>1, <3>2, <3>3, <3>4
  <2> QED
    BY <2>1, <2>2
<1>9. cut' \subseteq 1 .. Len(log')
  BY <1>1, <1>6
<1> QED
  BY <1>7, <1>8, <1>9 DEF OInv, InKeyOrder

\* A record reaches its listeners in the order they were registered, and a
\* listener hears the records of one task, such as the frames of one session,
\* in the order that task dispatched them, without a gap but for cancellations.
THEOREM ListenersOrdered == Spec => []ListenersInOrder
<1>1. Init => OInv
  <2> SUFFICES ASSUME Init PROVE OInv
    OBVIOUS
  <2>1. AInv
    BY AccountingInit
  <2>2. InKeyOrder /\ cut \subseteq 1 .. Len(log)
    BY DEF Init, InKeyOrder
  <2>3. \A t \in Tasks : OrderInv(t)
    BY DEF Init, OrderInv, Suspended
  <2> QED
    BY <2>1, <2>2, <2>3 DEF OInv
<1>2. OInv /\ [Next]_vars => OInv'
  <2> SUFFICES ASSUME OInv, [Next]_vars PROVE OInv'
    OBVIOUS
  <2>1. AInv'
    BY AccountingStep DEF OInv
  <2>2. ASSUME UNCHANGED callVars PROVE OInv'
    BY <2>1, <2>2 DEF OInv, InKeyOrder, OrderInv, Suspended, callVars
  <2>3. ASSUME NEW t \in Tasks, NEW record \in Records,
               Dispatch(t, record) \/ CancelThenDispatch(t, record)
        PROVE  OInv'
    BY <2>1, <2>3, DeliverOrder DEF Dispatch, CancelThenDispatch
  <2>4. ASSUME NEW t \in Tasks, Resume(t) PROVE OInv'
    BY <2>1, <2>4, ResumeOrder
  <2>5. ASSUME NEW t \in Tasks, Cancel(t) PROVE OInv'
    BY <2>1, <2>5, CancelOrder
  <2> QED
    BY <2>2, <2>3, <2>4, <2>5, QuietSteps DEF Next
<1>3. OInv => ListenersInOrder
  <2> SUFFICES ASSUME OInv, NEW e \in heard
               PROVE  /\ \A j \in log[e[1]].audience :
                            j < e[2] => <<e[1], j>> \in heard
                      /\ \A m \in 1 .. e[1] - 1 :
                            /\ log[m].by = log[e[1]].by
                            /\ e[2] \in log[m].audience
                            => <<m, e[2]>> \in heard \/ m \in cut
    BY DEF ListenersInOrder
  <2>1. e[1] \in 1 .. Len(log) /\ Len(log) \in Nat /\ log \in Seq(LogEntry)
    BY LenProperties DEF OInv, AInv, DeliveryAccounting, TypeOK, LogEntry
  <2>2. ASSUME NEW m \in 1 .. e[1] - 1, log[m].by = log[e[1]].by,
               e[2] \in log[m].audience, m \notin cut
        PROVE  <<m, e[2]>> \in heard
    <3>1. m \in 1 .. Len(log) /\ ~(e[1] <= m)
      BY <2>1
    <3>2. log[m].by \in Tasks
      <4>1. log[m] \in LogEntry
        BY <2>1, <3>1, ElementOfSeq
      <4> QED
        BY <4>1 DEF LogEntry
    <3> DEFINE t == log[m].by
    <3>3. <<m, e[2]>> \in heard \/ (call[t].n = m /\ e[2] \in call[t].todo)
      BY <2>2, <3>1, <3>2, HeardOrDue DEF OInv
    <3>4. ASSUME call[t].n = m, e[2] \in call[t].todo PROVE FALSE
      <4>1. Suspended(t) /\ OrderInv(t)
        BY <3>2, <3>4 DEF Suspended, Idle, OInv
      <4> QED
        BY <2>1, <2>2, <3>1, <3>4, <4>1 DEF OrderInv
    <3> QED
      BY <3>3, <3>4
  <2> QED
    BY <2>2 DEF OInv, InKeyOrder
<1> QED
  BY <1>1, <1>2, <1>3, PTL DEF Spec
=============================================================================
