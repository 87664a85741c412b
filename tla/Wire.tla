-------------------------------- MODULE Wire --------------------------------
(***************************************************************************)
(* What goes over the sockets of TelemetryServer and what becomes of it:   *)
(* _authorize and identity_from_cert at the beginning of a session,        *)
(* _handle_message and _process_frame for every message, the ack that goes *)
(* back, and a vehicle that keeps every frame until an ack for it arrives, *)
(* sending it again in later sessions.                                     *)
(*                                                                         *)
(* The vehicle and the network are external: a message is kept in order or *)
(* lost with its connection.  An ack may reach the vehicle while its       *)
(* handler still waits in send_bytes, and that wait may end in             *)
(* ConnectionError or CancelledError although the ack has arrived.         *)
(* send_bytes raises ConnectionError only when the server's transport is   *)
(* closed, which it stays; what was written before may still arrive, and   *)
(* what was received before is still read.                                 *)
(***************************************************************************)
EXTENDS Naturals, FiniteSetsExt, Envelope, Records

CONSTANTS
    Sessions,   \* the requests clients make
    Peer,       \* session -> [transport, tls, cert]: what _authorize sees
    NoCert,     \* no client certificate
    Dashed,     \* Common Name -> the same with dashes for dots
    Messages,   \* what vehicles send: [type, oversized, data]
    MaxSends    \* bound: messages sent in all sessions

VARIABLES
    state,        \* where the handler of a session is
    connected,    \* whether a vehicle's connection for a session is up
    closed,       \* whether the server's transport of a session is closed
    sent,         \* the messages a session was sent
    read,         \* how many of them its handler has read
    acks,         \* the acks on their way to the vehicle
    kept,         \* the frames a vehicle keeps for want of an ack
    records,      \* history: <<s, n, record>> dispatched for the n-th message of s
    interrupted   \* history: <<s, n>>: the wait for its ack was interrupted

vars == <<state, connected, closed, sent, read, acks, kept, records, interrupted>>

KnownIssuers ==
    {"TeslaMotors", "Tesla Issuing CA", "Tesla Motors Products CA",
     "Tesla Motors Product Issuing CA", "Tesla Motors Product RSA Issuing CA",
     "Tesla Motors GF3 Product Issuing CA", "Tesla Motors GF3 Product RSA Issuing CA",
     "Tesla Energy Product Issuing CA", "Tesla Energy GF0 Product Issuing CA",
     "Tesla Motors GF0 Product Issuing CA", "Tesla Motors GF Austin Product Issuing CA",
     "Tesla Motors GF Berlin Product Issuing CA", "Tesla Product Access Issuing CA",
     "Tesla China Product Access Issuing CA", "Tesla GF0 Product Access Issuing CA",
     "Tesla GF3 Product Access Issuing CA", "Tesla GF Austin Product Access Issuing CA",
     "Tesla GF Berlin Product Access Issuing CA"}

\* A name is the sequence of its Common Names.
CommonName(name) == IF name = <<>> THEN "" ELSE Head(name)

\* identity_from_cert, which raises for an unknown issuer.
Recognized(cert) == CommonName(cert.issuer) \in KnownIssuers
Identity(cert) == [vin |-> Dashed[CommonName(cert.subject)], client_type |-> "vehicle_device"]

\* _authorize: 496 unless there is a VIN in a client certificate of Tesla's.
Authorized(s) ==
    /\ Peer[s].transport /\ Peer[s].tls
    /\ Peer[s].cert # NoCert
    /\ Recognized(Peer[s].cert)
    /\ Identity(Peer[s].cert).vin # ""

Vin(s) == Identity(Peer[s].cert).vin
Vins == {Vin(s) : s \in {x \in Sessions : Authorized(x)}}

\* The messages that _handle_message passes on, and of these the frames that decode.
Usable(m) == m.type = "BINARY" /\ ~m.oversized
Frames == {m.data : m \in {x \in Messages : Usable(x) /\ Decodable(x.data)}}

\* What an ack echoes tells the frames that vehicles send apart, and a payload
\* that parses has a sequence of entries.
ASSUME WireAssumption ==
    /\ Dashed[""] = ""
    /\ \A f, g \in Frames : DecodeAck(f) = DecodeAck(g) => f = g
    /\ \A f \in Frames : LET data == Decode(f).payload.data
                        IN  Parsable(Decode(f)) => data \in Seq(Range(data))
    /\ MaxSends \in Nat

TypeOK ==
    /\ state \in [Sessions -> {"new", "refused", "receiving", "acking", "ended"}]
    /\ connected \in [Sessions -> BOOLEAN]
    /\ closed \in [Sessions -> BOOLEAN]
    /\ \A s \in Sessions : /\ \A i \in 1 .. Len(sent[s]) : sent[s][i] \in Messages
                           /\ read[s] \in 0 .. Len(sent[s])
    /\ \A v \in Vins : kept[v] \subseteq Frames
    /\ \A r \in records : r[3].topic \in Topics

Init ==
    /\ state = [s \in Sessions |-> "new"]
    /\ connected = [s \in Sessions |-> FALSE]
    /\ closed = [s \in Sessions |-> FALSE]
    /\ sent = [s \in Sessions |-> <<>>]
    /\ read = [s \in Sessions |-> 0]
    /\ acks = [s \in Sessions |-> <<>>]
    /\ kept = [v \in Vins |-> Frames]
    /\ records = {}
    /\ interrupted = {}

Goto(s, to) == state' = [state EXCEPT ![s] = to]

Open(s) ==
    /\ state[s] = "new"
    /\ Goto(s, IF Authorized(s) THEN "receiving" ELSE "refused")
    /\ connected' = [connected EXCEPT ![s] = Authorized(s)]
    /\ UNCHANGED <<closed, sent, read, acks, kept, records, interrupted>>

TotalSent == MapThenSumSet(LAMBDA s : Len(sent[s]), Sessions)

\* The vehicle sends a frame it still keeps, or something else.
Send(s, m) ==
    /\ connected[s] /\ ~closed[s] /\ state[s] # "ended"
    /\ TotalSent < MaxSends
    /\ m.data \in Frames => m.data \in kept[Vin(s)]
    /\ sent' = [sent EXCEPT ![s] = Append(@, m)]
    /\ UNCHANGED <<state, connected, closed, read, acks, kept, records, interrupted>>

\* The next message of s, received before the connection was lost or not.
Incoming(s) == sent[s][read[s] + 1]
Read(s) ==
    /\ state[s] = "receiving"
    /\ read[s] < Len(sent[s])
    /\ read' = [read EXCEPT ![s] = @ + 1]
    /\ UNCHANGED <<connected, closed, sent, kept, records>>

\* A message that is not binary, is oversized or does not decode is dropped;
\* aiohttp closes the connection of an oversized one.
Skip(s) ==
    /\ Read(s)
    /\ ~(Usable(Incoming(s)) /\ Decodable(Incoming(s).data))
    /\ Goto(s, IF Incoming(s).oversized THEN "ended" ELSE "receiving") \/ UNCHANGED state
    /\ UNCHANGED <<acks, interrupted>>

Ack(frame) == EncodeAck(frame.txid, frame.topic, frame.message_id)

\* The ack of a frame that decodes is written, and send_bytes may wait.
SendAck(s) ==
    /\ Read(s)
    /\ ~closed[s]
    /\ Usable(Incoming(s)) /\ Decodable(Incoming(s).data)
    /\ Goto(s, "acking")
    /\ acks' = [acks EXCEPT ![s] = IF connected[s]
                                   THEN Append(@, Ack(Decode(Incoming(s).data))) ELSE @]
    /\ UNCHANGED interrupted

\* The transport is closed and send_bytes raises: the frame is given up.
AckFails(s) ==
    /\ Read(s)
    /\ closed[s]
    /\ Usable(Incoming(s)) /\ Decodable(Incoming(s).data)
    /\ UNCHANGED <<state, acks, interrupted>>

\* Fault: send_bytes has a timeout, and the frame is given up at its end.
AckTimesOut(s) ==
    /\ state[s] = "acking"
    /\ Goto(s, "receiving") \/ Goto(s, "ended")
    /\ interrupted' = interrupted \cup {<<s, read[s]>>}
    /\ UNCHANGED <<connected, closed, sent, read, acks, kept, records>>

\* ConnectionError, or a CancelledError that ends the session, while s waits in
\* send_bytes: the frame is given up, though its ack may arrive.
AckInterrupted(s) ==
    /\ state[s] = "acking"
    /\ \/ closed[s] /\ Goto(s, "receiving")
       \/ Goto(s, "ended")
    /\ interrupted' = interrupted \cup {<<s, read[s]>>}
    /\ UNCHANGED <<connected, closed, sent, read, acks, kept, records>>

\* send_bytes returns: the frame is parsed, and its record dispatched.
Process(s) ==
    /\ state[s] = "acking"
    /\ Goto(s, "receiving")
    /\ LET frame == Decode(sent[s][read[s]].data)
       IN  records' = IF Parsable(frame)
                      THEN records \cup {<<s, read[s], ParseRecord(Vin(s), frame)>>}
                      ELSE records
    /\ UNCHANGED <<connected, closed, sent, read, acks, kept, interrupted>>

\* The message loop ends when the connection is gone, or by a cancellation.
End(s) ==
    /\ state[s] = "receiving"
    /\ Goto(s, "ended")
    /\ UNCHANGED <<connected, closed, sent, read, acks, kept, records, interrupted>>

\* The vehicle forgets the frame that an ack names.
AckArrives(s) ==
    /\ connected[s] /\ acks[s] # <<>>
    /\ acks' = [acks EXCEPT ![s] = Tail(@)]
    /\ kept' = [kept EXCEPT ![Vin(s)] =
                   {f \in @ : DecodeAck(f) # DecodeAck(Head(acks[s]))}]
    /\ UNCHANGED <<state, connected, closed, sent, read, records, interrupted>>

\* The connection is lost, and the acks that are under way with it.
Lose(s) ==
    /\ connected[s]
    /\ connected' = [connected EXCEPT ![s] = FALSE]
    /\ acks' = [acks EXCEPT ![s] = <<>>]
    /\ UNCHANGED <<state, closed, sent, read, kept, records, interrupted>>

\* The server's transport is closed: it has noticed a loss, or stop() closes it.
Closes(s) ==
    /\ state[s] \in {"receiving", "acking"} /\ ~closed[s]
    /\ closed' = [closed EXCEPT ![s] = TRUE]
    /\ UNCHANGED <<state, connected, sent, read, acks, kept, records, interrupted>>

Next ==
    \E s \in Sessions :
        \/ Open(s) \/ Skip(s) \/ SendAck(s) \/ AckFails(s) \/ AckInterrupted(s)
        \/ Process(s) \/ End(s) \/ AckArrives(s) \/ Lose(s) \/ Closes(s)
        \/ \E m \in Messages : Send(s, m)

Spec == Init /\ [][Next]_vars
-----------------------------------------------------------------------------
FrameOf(s, n) == sent[s][n].data
Dispatched(v, f) == \E r \in records : Vin(r[1]) = v /\ FrameOf(r[1], r[2]) = f
Pending(v, f) ==
    \E s \in Sessions : state[s] = "acking" /\ Vin(s) = v /\ FrameOf(s, read[s]) = f
WasInterrupted(v, f) == \E e \in interrupted : Vin(e[1]) = v /\ FrameOf(e[1], e[2]) = f

\* A vehicle forgets a frame only if that very frame was dispatched or is about
\* to be, does not parse, or the wait for its ack was interrupted: no ack makes
\* it forget another frame, in whichever session it arrives (_process_frame).
ForgottenIsDispatched ==
    \A v \in Vins : \A f \in Frames \ kept[v] :
        \/ Dispatched(v, f) \/ Pending(v, f) \/ WasInterrupted(v, f)
        \/ ~Parsable(Decode(f))

\* The frame whose ack could not be sent is the last one its session acks: the
\* frames a session dispatches are those before it, so that "return" in the
\* except clause leaves no gap that later frames of the session close over, and
\* a frame that was given up is dispatched only when the vehicle sends it again
\* (_process_frame, server.py:308).
GivenUpIsLast ==
    \A e \in interrupted :
        /\ state[e[1]] # "acking"
        /\ \A d \in interrupted : d[1] = e[1] => d = e
        /\ \A r \in records : r[1] = e[1] => r[2] < e[2]

\* What the writer of a table has put at offset o, or means by leaving it out.
Written(table, o, absent) == IF o \in DOMAIN table THEN table[o] ELSE absent

\* A record is of the vehicle whose certificate opened the session and says what
\* that vehicle wrote or, being the default, left out, its payload verbatim and
\* its txid as text ("callers can re-decode or forward them verbatim",
\* records.py:54).  It is stated of the offsets in the buffer, not of the
\* accessors that decode() reads them with.
RecordsAreVerbatim ==
    \A r \in records :
        LET cert == Peer[r[1]].cert
            env == FrameOf(r[1], r[2])
            stream == env[10]
            record == r[3]
        IN  /\ Recognized(cert)
            /\ record.vin = Dashed[Head(cert.subject)]
            /\ record.txid = Text[Written(env, 4, "")]
            /\ record.topic = Text[Written(env, 6, "")]
            /\ record.created_at = Utc(Written(stream, 4, 0))
            /\ record.raw = Written(stream, 8, EmptyPayload)

\* fields() gives every signal of a DATA record its last value, one with an
\* unknown key too, and nothing for other topics (records.py:77).
LastSignalWins ==
    \A r \in records :
        LET data == Data(r[3])
            last == {n \in 1 .. Len(data) : \A m \in n + 1 .. Len(data) :
                        FieldName(data[m].key) # FieldName(data[n].key)}
        IN  /\ DOMAIN Fields(r[3]) = {FieldName(data[n].key) : n \in last}
            /\ \A n \in last : Fields(r[3])[FieldName(data[n].key)] = data[n].value
=============================================================================
