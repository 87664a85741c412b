----------------------------- MODULE WireProofs -----------------------------
(***************************************************************************)
(* Theorems about Envelope and Wire, for every client, message and bound.  *)
(***************************************************************************)
EXTENDS Wire, RecordsProofs, TLAPS

\* A vehicle need not keep f: it was dispatched or is about to be, does not
\* parse, or was given up by an interrupted wait.
Served(v, f) ==
    \/ Dispatched(v, f) \/ Pending(v, f) \/ WasInterrupted(v, f)
    \/ ~Parsable(Decode(f))

AckTables == {Ack(Decode(f)) : f \in Frames}

Typed ==
    /\ state \in [Sessions -> {"new", "refused", "receiving", "acking", "ended"}]
    /\ connected \in [Sessions -> BOOLEAN]
    /\ closed \in [Sessions -> BOOLEAN]
    /\ sent \in [Sessions -> Seq(Messages)]
    /\ read \in [Sessions -> Nat]
    /\ acks \in [Sessions -> Seq(AckTables)]
    /\ kept \in [Vins -> SUBSET Frames]

\* Where records come from: each from a frame that a session was sent.
RecordOf(r, s, n) ==
    /\ Authorized(s)
    /\ FrameOf(s, n) \in Frames /\ Parsable(Decode(FrameOf(s, n)))
    /\ r = <<s, n, ParseRecord(Vin(s), Decode(FrameOf(s, n)))>>

Traced ==
    /\ \A s \in Sessions : read[s] <= Len(sent[s])
    /\ \A s \in Sessions : connected[s] \/ state[s] \notin {"new", "refused"} => Authorized(s)
    /\ \A s \in Sessions : state[s] = "acking" =>
          read[s] \in 1 .. Len(sent[s]) /\ FrameOf(s, read[s]) \in Frames
    /\ \A r \in records : \E s \in Sessions : \E n \in 1 .. Len(sent[s]) : RecordOf(r, s, n)
    /\ \A e \in interrupted : \E s \in Sessions : \E n \in 1 .. Len(sent[s]) : e = <<s, n>>

\* The inductive invariant behind ForgottenIsDispatched: an ack on its way is
\* that of a frame that its vehicle need not keep.
AcksAreServed ==
    \A s \in Sessions : \A i \in 1 .. Len(acks[s]) :
        \E f \in Frames : acks[s][i] = Ack(Decode(f)) /\ Served(Vin(s), f)

\* The inductive invariant behind GivenUpIsLast: once a wait was interrupted, the
\* transport is closed or the handler over, so that no ack is waited for again,
\* and nothing that a session dispatched comes after what it has read.
GivenUp ==
    /\ \A e \in interrupted : \A s \in Sessions : s = e[1] =>
          /\ e[2] <= read[s]
          /\ state[s] \in {"receiving", "ended"}
          /\ state[s] = "ended" \/ closed[s]
          /\ \A d \in interrupted : d[1] = s => d = e
          /\ \A r \in records : r[1] = s => r[2] < e[2]
    /\ \A r \in records : \A s \in Sessions : s = r[1] =>
          r[2] <= read[s] /\ (state[s] = "acking" => r[2] < read[s])

IInv == Typed /\ Traced /\ AcksAreServed /\ ForgottenIsDispatched /\ GivenUp

-----------------------------------------------------------------------------
(* The envelope *)

\* decode_ack reads back what encode_ack has written: the ids of the frame and
\* nothing else, whatever they are (_envelope.py:133, 158).
THEOREM AckRoundTrip ==
    ASSUME NEW txid, NEW topic, NEW message_id
    PROVE  DecodeAck(EncodeAck(txid, topic, message_id)) =
               [topic |-> topic, txid |-> txid, message_id |-> message_id]
<1> DEFINE a == Put(<<>>, 4, txid)
           b == Put(a, 6, topic)
           c == Put(b, 8, 5)
           d == Put(c, 10, <<>>)
           e == Put(d, 12, message_id)
<1>1. EncodeAck(txid, topic, message_id) = e
  BY DEF EncodeAck, AddOffset, AddUint8, Slot, MESSAGE_TYPE_STREAM_ACK
<1>2. 4 \in DOMAIN a /\ a[4] = txid
  BY DEF Put
<1>3. 4 \in DOMAIN b /\ b[4] = txid /\ 6 \in DOMAIN b /\ b[6] = topic
  <2> HIDE DEF a
  <2> QED
    BY <1>2 DEF Put
<1>4. 4 \in DOMAIN c /\ c[4] = txid /\ 6 \in DOMAIN c /\ c[6] = topic
  <2> HIDE DEF b
  <2> QED
    BY <1>3 DEF Put
<1>5. 4 \in DOMAIN d /\ d[4] = txid /\ 6 \in DOMAIN d /\ d[6] = topic
  <2> HIDE DEF c
  <2> QED
    BY <1>4 DEF Put
<1>6. /\ 4 \in DOMAIN e /\ e[4] = txid /\ 6 \in DOMAIN e /\ e[6] = topic
      /\ 12 \in DOMAIN e /\ e[12] = message_id
  <2> HIDE DEF d
  <2> QED
    BY <1>5 DEF Put
<1> HIDE DEF e
<1>7. Slot(0) = 4 /\ Slot(1) = 6 /\ Slot(4) = 12
  BY DEF Slot
<1> QED
  BY <1>1, <1>6, <1>7 DEF DecodeAck, Txid, Topic, MessageId, Field

\* The ack of a frame names that frame.
LEMMA AckNamesFrame ==
    ASSUME NEW f
    PROVE  DecodeAck(Ack(Decode(f))) = DecodeAck(f)
BY AckRoundTrip DEF Ack, Decode, DecodeAck

-----------------------------------------------------------------------------
(* Wire *)

LEMMA InitInv == Init => IInv
<1> SUFFICES ASSUME Init PROVE IInv
  OBVIOUS
<1>1. Typed
  BY DEF Init, Typed
<1>2. Traced
  BY DEF Init, Traced
<1>3. AcksAreServed
  BY DEF Init, AcksAreServed
<1>4. ForgottenIsDispatched
  BY DEF Init, ForgottenIsDispatched
<1>5. GivenUp
  BY DEF Init, GivenUp
<1> QED
  BY <1>1, <1>2, <1>3, <1>4, <1>5 DEF IInv

\* The message a session is about to read, when it is a frame.
LEMMA IncomingFrame ==
    ASSUME IInv, NEW s \in Sessions, Read(s),
           Usable(Incoming(s)), Decodable(Incoming(s).data)
    PROVE  Incoming(s).data \in Frames
<1>1. sent[s] \in Seq(Messages) /\ read[s] \in Nat /\ read[s] < Len(sent[s])
  BY DEF IInv, Typed, Read
<1>2. Incoming(s) \in Messages
  BY <1>1 DEF Incoming
<1> QED
  BY <1>2 DEF Frames

LEMMA NextTyped == IInv /\ [Next]_vars => Typed'
<1> SUFFICES ASSUME IInv, [Next]_vars PROVE Typed'
  OBVIOUS
<1> USE DEF IInv, Typed
<1>1. ASSUME NEW s \in Sessions, Open(s) PROVE Typed'
  BY <1>1 DEF Open, Goto, Authorized
<1>2. ASSUME NEW s \in Sessions, Skip(s) PROVE Typed'
  <2>1. state' \in [Sessions -> {"new", "refused", "receiving", "acking", "ended"}]
    BY <1>2 DEF Skip, Goto
  <2>2. /\ UNCHANGED <<connected, closed, sent, acks, kept>>
        /\ read' = [read EXCEPT ![s] = @ + 1]
    BY <1>2 DEF Skip, Read
  <2> QED
    BY <2>1, <2>2
<1>3. ASSUME NEW s \in Sessions, SendAck(s) PROVE Typed'
  <2>1. Ack(Decode(Incoming(s).data)) \in AckTables
    BY <1>3, IncomingFrame DEF SendAck, AckTables
  <2>2. acks' \in [Sessions -> Seq(AckTables)]
    BY <1>3, <2>1 DEF SendAck
  <2> QED
    BY <1>3, <2>2 DEF SendAck, Read, Goto
<1>4. ASSUME NEW s \in Sessions, AckFails(s) PROVE Typed'
  BY <1>4 DEF AckFails, Read
<1>5. ASSUME NEW s \in Sessions, AckInterrupted(s) PROVE Typed'
  BY <1>5 DEF AckInterrupted, Goto
<1>6. ASSUME NEW s \in Sessions, Process(s) PROVE Typed'
  BY <1>6 DEF Process, Goto
<1>7. ASSUME NEW s \in Sessions, End(s) PROVE Typed'
  BY <1>7 DEF End, Goto
<1>8. ASSUME NEW s \in Sessions, AckArrives(s) PROVE Typed'
  <2>1. acks' \in [Sessions -> Seq(AckTables)]
    BY <1>8 DEF AckArrives
  <2>2. \A v \in Vins : kept'[v] \subseteq kept[v]
    BY <1>8 DEF AckArrives
  <2>3. kept' \in [Vins -> SUBSET Frames]
    BY <1>8, <2>2 DEF AckArrives
  <2> QED
    BY <1>8, <2>1, <2>3 DEF AckArrives
<1>9. ASSUME NEW s \in Sessions, Lose(s) PROVE Typed'
  BY <1>9 DEF Lose
<1>10. ASSUME NEW s \in Sessions, NEW m \in Messages, Send(s, m) PROVE Typed'
  BY <1>10 DEF Send
<1>11. ASSUME NEW s \in Sessions, Closes(s) PROVE Typed'
  BY <1>11 DEF Closes
<1>12. CASE UNCHANGED vars
  BY <1>12 DEF vars
<1> QED
  BY <1>1, <1>2, <1>3, <1>4, <1>5, <1>6, <1>7, <1>8, <1>9, <1>10, <1>11, <1>12 DEF Next

\* What a session was sent stays as it is.
LEMMA SentStays ==
    ASSUME IInv, [Next]_vars, NEW s \in Sessions
    PROVE  /\ Len(sent[s]) <= Len(sent'[s])
           /\ \A n \in 1 .. Len(sent[s]) : sent'[s][n] = sent[s][n]
<1>1. sent[s] \in Seq(Messages) /\ DOMAIN sent = Sessions
  BY DEF IInv, Typed
<1>2. sent'[s] = sent[s] \/ \E m \in Messages : sent'[s] = Append(sent[s], m)
  BY <1>1 DEF Next, vars, Open, Skip, Read, SendAck, AckFails, AckInterrupted, Process,
              End, AckArrives, Lose, Closes, Send
<1>3. CASE sent'[s] = sent[s]
  BY <1>1, <1>3
<1>4. CASE \E m \in Messages : sent'[s] = Append(sent[s], m)
  BY <1>1, <1>4
<1> QED
  BY <1>2, <1>3, <1>4

\* What has happened is not forgotten.
LEMMA HistoryGrows ==
    ASSUME [Next]_vars
    PROVE  records \subseteq records' /\ interrupted \subseteq interrupted'
BY DEF Next, vars, Open, Skip, Read, SendAck, AckFails, AckInterrupted, Process,
       End, AckArrives, Lose, Closes, Send

\* A wait for an ack ends with the frame processed, or interrupted.
LEMMA WaitEnds ==
    ASSUME IInv, [Next]_vars, NEW s \in Sessions, state[s] = "acking"
    PROVE  \/ state'[s] = "acking" /\ read'[s] = read[s]
           \/ Process(s) \/ AckInterrupted(s)
<1> USE DEF IInv, Typed
<1>1. ASSUME NEW t \in Sessions, Open(t)
      PROVE  state'[s] = "acking" /\ read'[s] = read[s]
  BY <1>1 DEF Open, Goto
<1>2. ASSUME NEW t \in Sessions, Read(t), s # t => state'[s] = state[s]
      PROVE  state'[s] = "acking" /\ read'[s] = read[s]
  BY <1>2 DEF Read
<1>3. ASSUME NEW t \in Sessions, Skip(t) \/ SendAck(t) \/ AckFails(t)
      PROVE  Read(t) /\ (s # t => state'[s] = state[s])
  BY <1>3 DEF Skip, SendAck, AckFails, Goto
<1>4. ASSUME NEW t \in Sessions, Process(t) \/ AckInterrupted(t), t # s
      PROVE  state'[s] = "acking" /\ read'[s] = read[s]
  BY <1>4 DEF Process, AckInterrupted, Goto
<1>5. ASSUME NEW t \in Sessions, End(t)
      PROVE  state'[s] = "acking" /\ read'[s] = read[s]
  BY <1>5 DEF End, Goto
<1>6. ASSUME NEW t \in Sessions,
             AckArrives(t) \/ Lose(t) \/ Closes(t) \/ \E m \in Messages : Send(t, m)
      PROVE  state'[s] = "acking" /\ read'[s] = read[s]
  BY <1>6 DEF AckArrives, Lose, Closes, Send
<1>7. CASE UNCHANGED vars
  BY <1>7 DEF vars
<1> QED
  BY <1>1, <1>2, <1>3, <1>4, <1>5, <1>6, <1>7 DEF Next

\* A frame that need not be kept will not have to be kept again.
LEMMA ServedStays ==
    ASSUME IInv, [Next]_vars, NEW v, NEW f, Served(v, f)
    PROVE  Served(v, f)'
<1>1. CASE Dispatched(v, f)
  <2>1. PICK r \in records : Vin(r[1]) = v /\ FrameOf(r[1], r[2]) = f
    BY <1>1 DEF Dispatched
  <2>5. PICK s \in Sessions : \E n \in 1 .. Len(sent[s]) : RecordOf(r, s, n)
    BY DEF IInv, Traced
  <2>2. PICK n \in 1 .. Len(sent[s]) : RecordOf(r, s, n)
    BY <2>5
  <2>3. r[1] = s /\ r[2] = n
    BY <2>2 DEF RecordOf
  <2>4. sent'[s][n] = sent[s][n] /\ r \in records'
    BY SentStays, HistoryGrows
  <2> QED
    BY <2>1, <2>3, <2>4 DEF Served, Dispatched, FrameOf
<1>2. CASE WasInterrupted(v, f)
  <2>1. PICK e \in interrupted : Vin(e[1]) = v /\ FrameOf(e[1], e[2]) = f
    BY <1>2 DEF WasInterrupted
  <2>4. PICK s \in Sessions : \E n \in 1 .. Len(sent[s]) : e = <<s, n>>
    BY DEF IInv, Traced
  <2>2. PICK n \in 1 .. Len(sent[s]) : e = <<s, n>>
    BY <2>4
  <2>3. sent'[s][n] = sent[s][n] /\ e \in interrupted'
    BY SentStays, HistoryGrows
  <2> QED
    BY <2>1, <2>2, <2>3 DEF Served, WasInterrupted, FrameOf
<1>3. CASE Pending(v, f)
  <2>1. PICK s \in Sessions : state[s] = "acking" /\ Vin(s) = v /\ FrameOf(s, read[s]) = f
    BY <1>3 DEF Pending
  <2>2. read[s] \in 1 .. Len(sent[s])
    BY <2>1 DEF IInv, Traced
  <2>3. sent'[s][read[s]] = sent[s][read[s]]
    BY <2>2, SentStays
  <2>4. CASE state'[s] = "acking" /\ read'[s] = read[s]
    BY <2>1, <2>3, <2>4 DEF Served, Pending, FrameOf
  <2>5. CASE AckInterrupted(s)
    <3>1. <<s, read[s]>> \in interrupted'
      BY <2>5 DEF AckInterrupted
    <3> QED
      BY <2>1, <2>3, <3>1 DEF Served, WasInterrupted, FrameOf
  <2>6. CASE Process(s)
    <3>1. CASE ~Parsable(Decode(f))
      BY <3>1 DEF Served
    <3>2. CASE Parsable(Decode(f))
      <4>1. \E x : <<s, read[s], x>> \in records'
        BY <2>1, <2>6, <3>2 DEF Process, FrameOf
      <4>2. PICK x : <<s, read[s], x>> \in records'
        BY <4>1
      <4> QED
        BY <2>1, <2>3, <4>2 DEF Served, Dispatched, FrameOf
    <3> QED
      BY <3>1, <3>2
  <2> QED
    BY <2>1, <2>4, <2>5, <2>6, WaitEnds
<1>4. CASE ~Parsable(Decode(f))
  BY <1>4 DEF Served
<1> QED
  BY <1>1, <1>2, <1>3, <1>4 DEF Served

\* A session reads and waits only once it is authorized, what it waits for is a
\* frame, and records and interruptions are of what was read.
LEMMA NextTraced == IInv /\ [Next]_vars => Traced'
<1> SUFFICES ASSUME IInv, [Next]_vars PROVE Traced'
  OBVIOUS
<1> USE DEF IInv, Typed
<1>1. \A s \in Sessions : read'[s] <= Len(sent'[s])
  <2> SUFFICES ASSUME NEW s \in Sessions PROVE read'[s] <= Len(sent'[s])
    OBVIOUS
  <2>1. read'[s] = read[s] \/ (read[s] < Len(sent[s]) /\ read'[s] = read[s] + 1)
    BY DEF Next, vars, Open, Skip, Read, SendAck, AckFails, AckInterrupted, Process,
           End, AckArrives, Lose, Closes, Send
  <2>2. Len(sent[s]) <= Len(sent'[s]) /\ read[s] <= Len(sent[s])
    BY SentStays DEF Traced
  <2>3. sent[s] \in Seq(Messages) /\ sent'[s] \in Seq(Messages)
    BY NextTyped
  <2> QED
    BY <2>1, <2>2, <2>3
<1>2. ASSUME NEW s \in Sessions, connected'[s] \/ state'[s] \notin {"new", "refused"}
      PROVE  Authorized(s)
  <2>1. \/ Authorized(s)
        \/ connected[s] \/ state[s] \notin {"new", "refused"}
    BY <1>2 DEF Next, vars, Open, Skip, Read, SendAck, AckFails, AckInterrupted, Process,
           End, AckArrives, Lose, Closes, Send, Goto
  <2> QED
    BY <2>1 DEF Traced
<1>3. ASSUME NEW s \in Sessions, state'[s] = "acking"
      PROVE  read'[s] \in 1 .. Len(sent'[s]) /\ FrameOf(s, read[s])' \in Frames
  <2>1. CASE SendAck(s)
    <3>1. Incoming(s).data \in Frames
      BY <2>1, IncomingFrame DEF SendAck
    <3>2. read'[s] = read[s] + 1 /\ read[s] < Len(sent[s]) /\ sent' = sent
      BY <2>1 DEF SendAck, Read
    <3> QED
      BY <3>1, <3>2 DEF Incoming, FrameOf
  <2>2. CASE state[s] = "acking" /\ read'[s] = read[s]
    <3>1. read[s] \in 1 .. Len(sent[s]) /\ FrameOf(s, read[s]) \in Frames
      BY <2>2 DEF Traced
    <3>2. sent'[s][read[s]] = sent[s][read[s]] /\ Len(sent[s]) <= Len(sent'[s])
      BY <3>1, SentStays
    <3> QED
      BY <1>1, <2>2, <3>1, <3>2, NextTyped DEF FrameOf
  <2>3. state[s] = "acking" \/ SendAck(s)
    BY <1>3 DEF Next, vars, Open, Skip, Read, SendAck, AckFails, AckInterrupted, Process,
           End, AckArrives, Lose, Closes, Send, Goto
  <2>4. ~Process(s) /\ ~AckInterrupted(s)
    BY <1>3 DEF Process, AckInterrupted, Goto
  <2> QED
    BY <2>1, <2>2, <2>3, <2>4, WaitEnds
<1>4. ASSUME NEW r \in records'
      PROVE  \E s \in Sessions : \E n \in 1 .. Len(sent'[s]) : RecordOf(r, s, n)'
  <2>1. PICK s \in Sessions : \E n \in 1 .. Len(sent[s]) : RecordOf(r, s, n)
    <3>1. CASE r \in records
      BY <3>1 DEF Traced
    <3>2. CASE r \notin records
      <4>1. PICK s \in Sessions : Process(s)
        BY <1>4, <3>2 DEF Next, vars, Open, Skip, Read, SendAck, AckFails, AckInterrupted,
              End, AckArrives, Lose, Closes, Send
      <4>2. /\ read[s] \in 1 .. Len(sent[s]) /\ FrameOf(s, read[s]) \in Frames
            /\ Authorized(s)
        BY <4>1 DEF Process, Traced
      <4>3. RecordOf(r, s, read[s])
        BY <1>4, <3>2, <4>1, <4>2 DEF Process, RecordOf, FrameOf
      <4> QED
        BY <4>2, <4>3
    <3> QED
      BY <3>1, <3>2
  <2>2. PICK n \in 1 .. Len(sent[s]) : RecordOf(r, s, n)
    BY <2>1
  <2>3. n \in 1 .. Len(sent'[s]) /\ sent'[s][n] = sent[s][n]
    BY SentStays, NextTyped
  <2> QED
    BY <2>2, <2>3 DEF RecordOf, FrameOf
<1>5. ASSUME NEW e \in interrupted'
      PROVE  \E s \in Sessions : \E n \in 1 .. Len(sent'[s]) : e = <<s, n>>
  <2>1. PICK s \in Sessions : \E n \in 1 .. Len(sent[s]) : e = <<s, n>>
    <3>1. CASE e \in interrupted
      BY <3>1 DEF Traced
    <3>2. CASE e \notin interrupted
      <4>1. PICK s \in Sessions : AckInterrupted(s)
        BY <1>5, <3>2 DEF Next, vars, Open, Skip, Read, SendAck, AckFails, Process,
              End, AckArrives, Lose, Closes, Send
      <4>2. read[s] \in 1 .. Len(sent[s])
        BY <4>1 DEF AckInterrupted, Traced
      <4> QED
        BY <1>5, <3>2, <4>1, <4>2 DEF AckInterrupted
    <3> QED
      BY <3>1, <3>2
  <2>2. PICK n \in 1 .. Len(sent[s]) : e = <<s, n>>
    BY <2>1
  <2>3. n \in 1 .. Len(sent'[s])
    BY SentStays, NextTyped
  <2> QED
    BY <2>2, <2>3
<1> QED
  BY <1>1, <1>2, <1>3, <1>4, <1>5 DEF Traced

\* An ack goes on its way as that of the frame for which its session now waits,
\* and a frame that need not be kept remains one.
LEMMA NextAcks == IInv /\ [Next]_vars => AcksAreServed'
<1> SUFFICES ASSUME IInv, [Next]_vars, NEW s \in Sessions, NEW i \in 1 .. Len(acks'[s])
             PROVE  \E f \in Frames : acks'[s][i] = Ack(Decode(f)) /\ Served(Vin(s), f)'
  BY DEF AcksAreServed
<1>1. acks[s] \in Seq(AckTables) /\ DOMAIN acks = Sessions
  BY DEF IInv, Typed
<1>2. ASSUME NEW j \in 1 .. Len(acks[s]), acks'[s][i] = acks[s][j]
      PROVE  \E f \in Frames : acks'[s][i] = Ack(Decode(f)) /\ Served(Vin(s), f)'
  <2>1. PICK f \in Frames : acks[s][j] = Ack(Decode(f)) /\ Served(Vin(s), f)
    BY DEF IInv, AcksAreServed
  <2> DEFINE v == Vin(s)
  <2>2. Served(v, f)
    BY <2>1
  <2> HIDE DEF v
  <2>3. Served(v, f)'
    BY <2>2, ServedStays
  <2> QED
    BY <1>2, <2>1, <2>3 DEF v
<1>3. CASE acks'[s] = acks[s]
  BY <1>2, <1>3
<1>4. CASE AckArrives(s)
  <2>1. acks'[s] = Tail(acks[s]) /\ acks[s] # <<>>
    BY <1>1, <1>4 DEF AckArrives
  <2>2. i + 1 \in 1 .. Len(acks[s]) /\ acks'[s][i] = acks[s][i + 1]
    BY <1>1, <2>1
  <2> QED
    BY <1>2, <2>2
<1>5. CASE Lose(s)
  BY <1>1, <1>5 DEF Lose
<1>6. CASE SendAck(s)
  <2>2. PICK f \in Frames : f = Incoming(s).data
    BY <1>6, IncomingFrame DEF SendAck
  <2>1. acks'[s] = acks[s] \/ acks'[s] = Append(acks[s], Ack(Decode(f)))
    BY <1>1, <1>6, <2>2 DEF SendAck
  <2>3. state'[s] = "acking" /\ sent'[s][read'[s]].data = f
    BY <1>6, <2>2 DEF SendAck, Read, Goto, Incoming, IInv, Typed
  <2>4. Served(Vin(s), f)'
    BY <2>3 DEF Served, Pending, FrameOf
  <2>5. CASE acks'[s] = Append(acks[s], Ack(Decode(f)))
    <3>1. CASE i \in 1 .. Len(acks[s])
      BY <1>1, <1>2, <2>5, <3>1
    <3>2. CASE i \notin 1 .. Len(acks[s])
      <4>1. acks'[s][i] = Ack(Decode(f))
        BY <1>1, <2>5, <3>2
      <4> QED
        BY <2>2, <2>4, <4>1
    <3> QED
      BY <3>1, <3>2
  <2> QED
    BY <1>3, <2>1, <2>5
<1>7. \/ acks'[s] = acks[s]
      \/ AckArrives(s) \/ Lose(s) \/ SendAck(s)
  BY <1>1 DEF Next, vars, Open, Skip, Read, SendAck, AckFails, AckInterrupted, Process,
        End, AckArrives, Lose, Closes, Send
<1> QED
  BY <1>3, <1>4, <1>5, <1>6, <1>7

\* What a vehicle forgets at an ack is the one frame that the ack names.
LEMMA NextForgotten == IInv /\ [Next]_vars => ForgottenIsDispatched'
<1> SUFFICES ASSUME IInv, [Next]_vars, NEW v \in Vins, NEW f \in Frames \ kept'[v]
             PROVE  Served(v, f)'
  BY DEF ForgottenIsDispatched, Served
<1>1. CASE f \notin kept[v]
  BY <1>1, ServedStays DEF IInv, ForgottenIsDispatched, Served
<1>2. CASE f \in kept[v]
  <2>1. PICK s \in Sessions : AckArrives(s)
    BY <1>2 DEF Next, vars, Open, Skip, Read, SendAck, AckFails, AckInterrupted, Process,
          End, Lose, Closes, Send
  <2>2. acks[s] \in Seq(AckTables) /\ acks[s] # <<>> /\ DOMAIN kept = Vins
    BY <2>1 DEF AckArrives, IInv, Typed
  <2>3. PICK g \in Frames : acks[s][1] = Ack(Decode(g)) /\ Served(Vin(s), g)
    BY <2>2 DEF IInv, AcksAreServed
  <2>4. Vin(s) = v /\ DecodeAck(f) = DecodeAck(Head(acks[s]))
    BY <1>2, <2>1, <2>2 DEF AckArrives
  <2>7. Head(acks[s]) = Ack(Decode(g))
    BY <2>2, <2>3
  <2>8. DecodeAck(f) = DecodeAck(g)
    BY <2>4, <2>7, AckNamesFrame
  <2>5. f = g
    BY <2>8, WireAssumption
  <2>6. Served(v, f)
    BY <2>3, <2>4, <2>5
  <2> QED
    BY <2>6, ServedStays
<1> QED
  BY <1>1, <1>2

\* Records and interruptions name their session and a message of it by number.
LEMMA HistoryTyped ==
    ASSUME IInv
    PROVE  /\ \A r \in records : r[1] \in Sessions /\ r[2] \in Nat
           /\ \A e \in interrupted : /\ e[1] \in Sessions /\ e[2] \in Nat
                                     /\ e = <<e[1], e[2]>>
<1>1. \A s \in Sessions : Len(sent[s]) \in Nat
  BY DEF IInv, Typed
<1>2. ASSUME NEW r \in records PROVE r[1] \in Sessions /\ r[2] \in Nat
  <2>1. PICK s \in Sessions : \E n \in 1 .. Len(sent[s]) : RecordOf(r, s, n)
    BY DEF IInv, Traced
  <2>2. PICK n \in 1 .. Len(sent[s]) : RecordOf(r, s, n)
    BY <2>1
  <2>3. r[1] = s /\ r[2] = n
    BY <2>2 DEF RecordOf
  <2> QED
    BY <1>1, <2>3
<1>3. ASSUME NEW e \in interrupted
      PROVE  e[1] \in Sessions /\ e[2] \in Nat /\ e = <<e[1], e[2]>>
  <2>1. PICK s \in Sessions : \E n \in 1 .. Len(sent[s]) : e = <<s, n>>
    BY DEF IInv, Traced
  <2> QED
    BY <1>1, <2>1
<1> QED
  BY <1>2, <1>3

\* A step that reads, waits or ends leaves a session that was interrupted as one
\* that waits for no ack, and one that was not has its numbers in order.
LEMMA NextGivenUp == IInv /\ [Next]_vars => GivenUp'
<1> SUFFICES ASSUME IInv, [Next]_vars PROVE GivenUp'
  OBVIOUS
<1> USE DEF IInv, Typed
<1>1. /\ \A r \in records : r[1] \in Sessions /\ r[2] \in Nat
      /\ \A e \in interrupted : /\ e[1] \in Sessions /\ e[2] \in Nat
                                /\ e = <<e[1], e[2]>>
  BY HistoryTyped
<1>2. ASSUME UNCHANGED <<records, interrupted>>,
             \A s \in Sessions :
                /\ read[s] <= read'[s]
                /\ closed[s] => closed'[s]
                /\ state'[s] = "acking" => /\ \/ state[s] = "acking"
                                              \/ read'[s] > read[s] /\ ~closed[s]
                /\ state[s] = "ended" => state'[s] = "ended"
                /\ state[s] = "receiving" => state'[s] \in {"receiving", "ended", "acking"}
                /\ state[s] \in {"new", "refused", "receiving", "ended", "acking"}
                /\ read[s] \in Nat /\ read'[s] \in Nat
      PROVE  GivenUp'
  <2>1. ASSUME NEW e \in interrupted, NEW s \in Sessions, s = e[1]
        PROVE  /\ e[2] <= read'[s]
               /\ state'[s] \in {"receiving", "ended"}
               /\ state'[s] = "ended" \/ closed'[s]
               /\ \A d \in interrupted : d[1] = s => d = e
               /\ \A r \in records : r[1] = s => r[2] < e[2]
    BY <1>1, <1>2, <2>1 DEF GivenUp
  <2>2. ASSUME NEW r \in records, NEW s \in Sessions, s = r[1]
        PROVE  r[2] <= read'[s] /\ (state'[s] = "acking" => r[2] < read'[s])
    BY <1>1, <1>2, <2>2 DEF GivenUp
  <2> QED
    BY <1>2, <2>1, <2>2 DEF GivenUp
<1>3. ASSUME NEW s \in Sessions, Open(s) PROVE GivenUp'
  BY <1>2, <1>3 DEF Open, Goto
<1>4. ASSUME NEW s \in Sessions, Skip(s) PROVE GivenUp'
  <2>1. /\ UNCHANGED <<records, interrupted, closed>>
        /\ read' = [read EXCEPT ![s] = @ + 1]
        /\ state[s] = "receiving"
    BY <1>4 DEF Skip, Read
  <2>2. /\ state'[s] \in {"receiving", "ended"}
        /\ \A t \in Sessions \ {s} : state'[t] = state[t]
    BY <1>4, <2>1 DEF Skip, Goto
  <2>3. \A t \in Sessions : read[t] \in Nat /\ read'[t] \in Nat /\ read[t] <= read'[t]
    BY <2>1
  <2>4. \A t \in Sessions : state'[t] = state[t] \/ t = s
    BY <2>2
  <2> QED
    BY <1>2, <2>1, <2>2, <2>3, <2>4
<1>5. ASSUME NEW s \in Sessions, SendAck(s) PROVE GivenUp'
  BY <1>2, <1>5 DEF SendAck, Read, Goto
<1>6. ASSUME NEW s \in Sessions, AckFails(s) PROVE GivenUp'
  BY <1>2, <1>6 DEF AckFails, Read
<1>7. ASSUME NEW s \in Sessions, AckInterrupted(s) PROVE GivenUp'
  <2>1. /\ state[s] = "acking" /\ read' = read /\ records' = records
        /\ state'[s] \in {"receiving", "ended"}
        /\ state'[s] = "ended" \/ closed'[s]
        /\ closed' = closed /\ \A t \in Sessions \ {s} : state'[t] = state[t]
        /\ interrupted' = interrupted \cup {<<s, read[s]>>}
    BY <1>7 DEF AckInterrupted, Goto
  <2>2. \A d \in interrupted : d[1] # s
    BY <1>1, <2>1 DEF GivenUp
  <2>3. \A r \in records : r[1] = s => r[2] < read[s]
    BY <1>1, <2>1 DEF GivenUp
  <2>4. ASSUME NEW e \in interrupted', NEW t \in Sessions, t = e[1]
        PROVE  /\ e[2] <= read'[t]
               /\ state'[t] \in {"receiving", "ended"}
               /\ state'[t] = "ended" \/ closed'[t]
               /\ \A d \in interrupted' : d[1] = t => d = e
               /\ \A r \in records' : r[1] = t => r[2] < e[2]
    <3>1. CASE t = s
      <4>1. e = <<s, read[s]>>
        BY <2>1, <2>2, <2>4, <3>1
      <4>2. \A d \in interrupted' : d[1] = t => d = e
        BY <2>1, <2>2, <3>1, <4>1
      <4> QED
        BY <2>1, <2>3, <3>1, <4>1, <4>2
    <3>2. CASE t # s
      <4>1. e \in interrupted
        BY <2>1, <2>4, <3>2
      <4>2. \A d \in interrupted' : d[1] = t => d = e
        BY <1>1, <2>1, <2>4, <3>2, <4>1 DEF GivenUp
      <4> QED
        BY <1>1, <2>1, <2>4, <3>2, <4>1, <4>2 DEF GivenUp
    <3> QED
      BY <3>1, <3>2
  <2>5. ASSUME NEW r \in records', NEW t \in Sessions, t = r[1]
        PROVE  r[2] <= read'[t] /\ (state'[t] = "acking" => r[2] < read'[t])
    BY <1>1, <2>1, <2>5 DEF GivenUp
  <2> QED
    BY <2>4, <2>5 DEF GivenUp
<1>8. ASSUME NEW s \in Sessions, Process(s) PROVE GivenUp'
  <2>1. /\ state[s] = "acking" /\ read' = read /\ interrupted' = interrupted
        /\ state'[s] = "receiving" /\ closed' = closed
        /\ \A t \in Sessions \ {s} : state'[t] = state[t]
        /\ \A r \in records' : r \in records \/ (r[1] = s /\ r[2] = read[s])
    BY <1>8 DEF Process, Goto
  <2>2. \A d \in interrupted : d[1] # s
    BY <1>1, <2>1 DEF GivenUp
  <2>3. ASSUME NEW e \in interrupted', NEW t \in Sessions, t = e[1]
        PROVE  /\ e[2] <= read'[t]
               /\ state'[t] \in {"receiving", "ended"}
               /\ state'[t] = "ended" \/ closed'[t]
               /\ \A d \in interrupted' : d[1] = t => d = e
               /\ \A r \in records' : r[1] = t => r[2] < e[2]
    <3>1. e \in interrupted /\ t # s
      BY <2>1, <2>2, <2>3
    <3>2. \A r \in records' : r[1] = t => r[2] < e[2]
      BY <2>1, <2>3, <3>1 DEF GivenUp
    <3> QED
      BY <2>1, <2>3, <3>1, <3>2 DEF GivenUp
  <2>4. ASSUME NEW r \in records', NEW t \in Sessions, t = r[1]
        PROVE  r[2] <= read'[t] /\ (state'[t] = "acking" => r[2] < read'[t])
    <3>1. CASE r \in records
      BY <1>1, <2>1, <2>4, <3>1 DEF GivenUp
    <3>2. CASE r \notin records
      BY <2>1, <2>4, <3>2
    <3> QED
      BY <3>1, <3>2
  <2> QED
    BY <2>3, <2>4 DEF GivenUp
<1>9. ASSUME NEW s \in Sessions, End(s) PROVE GivenUp'
  BY <1>2, <1>9 DEF End, Goto
<1>10. ASSUME NEW s \in Sessions,
              AckArrives(s) \/ Lose(s) \/ Closes(s) \/ \E m \in Messages : Send(s, m)
       PROVE  GivenUp'
  <2>1. UNCHANGED <<state, read, records, interrupted>>
    BY <1>10 DEF AckArrives, Lose, Closes, Send
  <2>2. \A t \in Sessions : closed[t] => closed'[t]
    BY <1>10 DEF AckArrives, Lose, Closes, Send
  <2> QED
    BY <1>2, <2>1, <2>2
<1>11. CASE UNCHANGED vars
  BY <1>2, <1>11 DEF vars
<1> QED
  BY <1>3, <1>4, <1>5, <1>6, <1>7, <1>8, <1>9, <1>10, <1>11 DEF Next

LEMMA NextInv == IInv /\ [Next]_vars => IInv'
BY NextTyped, NextTraced, NextAcks, NextForgotten, NextGivenUp DEF IInv

LEMMA Invariant == Spec => []IInv
BY InitInv, NextInv, PTL DEF Spec

\* Whatever frames vehicles send, in however many sessions, if what an ack
\* echoes tells them apart then no vehicle forgets one that was not dispatched,
\* but for those that do not parse and those whose ack was on its way when the
\* wait in send_bytes was interrupted (_process_frame, server.py:308).
THEOREM ForgottenOnlyIfDispatched == Spec => []ForgottenIsDispatched
BY Invariant, PTL DEF IInv

\* Whatever a session is sent and however its waits for acks end: the first that
\* is interrupted is its last, and every frame the session dispatched came before
\* the one that was given up (the except clause of _process_frame, server.py:308).
THEOREM NothingAfterGivingUp == Spec => []GivenUpIsLast
<1>1. IInv => GivenUpIsLast
  <2> SUFFICES ASSUME IInv, NEW e \in interrupted
               PROVE  /\ state[e[1]] # "acking"
                      /\ \A d \in interrupted : d[1] = e[1] => d = e
                      /\ \A r \in records : r[1] = e[1] => r[2] < e[2]
    BY DEF GivenUpIsLast
  <2>1. e[1] \in Sessions
    BY HistoryTyped
  <2> QED
    BY <2>1 DEF IInv, GivenUp
<1> QED
  BY <1>1, Invariant, PTL

\* For every certificate and every frame: a record carries the VIN of the
\* certificate of its session, and the payload, txid, topic and time of one
\* frame which that session received (parse_record, records.py:119).
THEOREM RecordsVerbatim == Spec => []RecordsAreVerbatim
<1>1. IInv => RecordsAreVerbatim
  <2> SUFFICES ASSUME IInv, NEW r \in records
               PROVE  LET cert == Peer[r[1]].cert
                          env == FrameOf(r[1], r[2])
                          stream == env[10]
                          record == r[3]
                      IN  /\ Recognized(cert)
                          /\ record.vin = Dashed[Head(cert.subject)]
                          /\ record.txid = Text[Written(env, 4, "")]
                          /\ record.topic = Text[Written(env, 6, "")]
                          /\ record.created_at = Utc(Written(stream, 4, 0))
                          /\ record.raw = Written(stream, 8, EmptyPayload)
    BY DEF RecordsAreVerbatim
  <2>1. PICK s \in Sessions : \E n \in 1 .. Len(sent[s]) : RecordOf(r, s, n)
    BY DEF IInv, Traced
  <2>2. PICK n \in 1 .. Len(sent[s]) : RecordOf(r, s, n)
    BY <2>1
  <2>3. r[1] = s /\ r[2] = n /\ r[3] = ParseRecord(Vin(s), Decode(FrameOf(s, n)))
    BY <2>2 DEF RecordOf
  <2>4. Recognized(Peer[s].cert) /\ Vin(s) # ""
    BY <2>2 DEF RecordOf, Authorized, Vin
  <2>5. Vin(s) = Dashed[Head(Peer[s].cert.subject)]
    BY <2>4, WireAssumption DEF Vin, Identity, CommonName
  <2> DEFINE frame == Decode(FrameOf(s, n))
             record == ParseRecord(Vin(s), frame)
  <2>6. /\ frame.payload = Written(FrameOf(s, n)[10], 8, EmptyPayload)
        /\ frame.txid = Written(FrameOf(s, n), 4, "")
        /\ frame.topic = Written(FrameOf(s, n), 6, "")
        /\ frame.created_at = Written(FrameOf(s, n)[10], 4, 0)
    <3>1. Slot(0) = 4 /\ Slot(1) = 6 /\ Slot(2) = 8 /\ Slot(3) = 10
      BY DEF Slot
    <3> QED
      BY <3>1 DEF Decode, Message, Payload, Txid, Topic, CreatedAt, Field, Written, Empty
  <2>7. /\ record.vin = Vin(s) /\ record.raw = frame.payload
        /\ record.txid = Text[frame.txid] /\ record.topic = Text[frame.topic]
        /\ record.created_at = Utc(frame.created_at)
    <3> HIDE DEF frame
    <3> QED
      BY DEF ParseRecord
  <2>8. r[3] = record
    BY <2>3
  <2> HIDE DEF frame, record
  <2> QED
    BY <2>3, <2>4, <2>5, <2>6, <2>7, <2>8
<1> QED
  BY <1>1, Invariant, PTL

\* The handlers' and the vehicles' state has its type, and every record a known
\* topic (Topic, records.py:31).
THEOREM TypeCorrect == Spec => []TypeOK
<1>1. IInv => TypeOK
  <2> SUFFICES ASSUME IInv PROVE TypeOK
    OBVIOUS
  <2> USE DEF IInv, Typed
  <2>1. \A s \in Sessions : /\ \A i \in 1 .. Len(sent[s]) : sent[s][i] \in Messages
                            /\ read[s] \in 0 .. Len(sent[s])
    BY DEF Traced
  <2>2. \A r \in records : r[3].topic \in Topics
    <3> SUFFICES ASSUME NEW r \in records PROVE r[3].topic \in Topics
      OBVIOUS
    <3>1. PICK s \in Sessions : \E n \in 1 .. Len(sent[s]) : RecordOf(r, s, n)
      BY DEF Traced
    <3>2. PICK n \in 1 .. Len(sent[s]) : RecordOf(r, s, n)
      BY <3>1
    <3> DEFINE frame == Decode(FrameOf(s, n))
    <3> HIDE DEF frame
    <3>3. Parsable(frame) /\ r[3] = ParseRecord(Vin(s), frame)
      BY <3>2 DEF RecordOf, frame
    <3> QED
      BY <3>3 DEF Parsable, ParseRecord
  <2> QED
    BY <2>1, <2>2 DEF TypeOK
<1> QED
  BY <1>1, Invariant, PTL

\* Whatever signals vehicles send, repeated at will: fields() of a dispatched
\* DATA record has the last value of each, also of a key that vd.Field does not
\* know, and fields() of another record is empty (records.py:77).
THEOREM LastOneWins == Spec => []LastSignalWins
<1>1. IInv => LastSignalWins
  <2> SUFFICES ASSUME IInv, NEW r \in records
               PROVE  HoldsLast(Data(r[3]), Len(Data(r[3])), Fields(r[3]))
    BY DEF LastSignalWins, HoldsLast, LastOf, Name, Value
  <2>1. PICK s \in Sessions : \E n \in 1 .. Len(sent[s]) : RecordOf(r, s, n)
    BY DEF IInv, Traced
  <2>2. PICK n \in 1 .. Len(sent[s]) : RecordOf(r, s, n)
    BY <2>1
  <2> DEFINE frame == Decode(FrameOf(s, n))
  <2>3. frame.payload.data \in Seq(Range(frame.payload.data))
    BY <2>2, WireAssumption DEF RecordOf
  <2>4. r[3].message = frame.payload.data
    <3>1. r[3] = ParseRecord(Vin(s), frame)
      BY <2>2 DEF RecordOf
    <3> HIDE DEF frame
    <3> QED
      BY <3>1 DEF ParseRecord
  <2> HIDE DEF frame
  <2>5. Len(Data(r[3])) \in Nat
    BY <2>3, <2>4 DEF Data
  <2> QED
    BY <2>5, FieldsHoldLast
<1> QED
  BY <1>1, Invariant, PTL
=============================================================================
