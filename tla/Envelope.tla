------------------------------ MODULE Envelope ------------------------------
(***************************************************************************)
(* fleet_telemetry/_envelope.py and the accessors it uses of               *)
(* _flatbuffers/tesla_generated.py: the transport envelope.                *)
(*                                                                         *)
(* A FlatBuffers table is a function from the vtable offsets of the fields *)
(* it holds to their values; a reader takes the default for a field that   *)
(* is absent, and a writer leaves out a scalar that has the default.  A    *)
(* frame is its root table.  An accessor that leads out of the buffer      *)
(* raises: the field holds Broken.  A buffer that is no envelope at all is *)
(* one whose every field does.                                             *)
(***************************************************************************)
EXTENDS Naturals

CONSTANTS
    Broken,       \* what a field holds whose accessor raises
    EmptyPayload  \* b"", as a payload

MESSAGE_TYPE_STREAM == 4
MESSAGE_TYPE_STREAM_ACK == 5

\* b"", what _read_vector makes of an absent vector and of an empty one.
Empty == ""

Slot(i) == 4 + 2 * i
Offsets == {Slot(i) : i \in 0 .. 4}
Garbage == [o \in Offsets |-> Broken]

Field(table, i, default) == IF Slot(i) \in DOMAIN table THEN table[Slot(i)] ELSE default
Put(table, key, value) ==
    [k \in DOMAIN table \cup {key} |-> IF k = key THEN value ELSE table[k]]

\* An offset is never 0, so a vector is present even when it is empty.
AddOffset(table, i, value) == Put(table, Slot(i), value)
AddUint8(table, i, value) == IF value = 0 THEN table ELSE Put(table, Slot(i), value)

Txid(env) == Field(env, 0, Empty)
Topic(env) == Field(env, 1, Empty)
MessageType(env) == Field(env, 2, 0)
HasMessage(env) == Slot(3) \in DOMAIN env
Message(env) == env[Slot(3)]
MessageId(env) == Field(env, 4, Empty)

\* Fault: the default is not the schema's.
CreatedAtOne(stream) == Field(stream, 0, 1)

CreatedAt(stream) == Field(stream, 0, 0)
SenderId(stream) == Field(stream, 1, Empty)
Payload(stream) == Field(stream, 2, EmptyPayload)
DeviceType(stream) == Field(stream, 3, Empty)
DeviceId(stream) == Field(stream, 4, Empty)

\* No read of the fields in slots raises.
Readable(table, slots) ==
    \A i \in slots : Slot(i) \in DOMAIN table => table[Slot(i)] # Broken

\* Whether decode, which reads every field, returns; otherwise it raises
\* EnvelopeError.
Decodable(frame) ==
    /\ Readable(frame, 0 .. 4)
    /\ MessageType(frame) = MESSAGE_TYPE_STREAM
    /\ HasMessage(frame)
    /\ Readable(Message(frame), 0 .. 4)

\* The StreamFrame it returns.
Decode(frame) ==
    LET stream == Message(frame)
    IN  [topic |-> Topic(frame), txid |-> Txid(frame),
         sender_id |-> SenderId(stream), device_type |-> DeviceType(stream),
         device_id |-> DeviceId(stream), payload |-> Payload(stream),
         created_at |-> CreatedAt(stream), message_id |-> MessageId(frame)]

\* The same of decode_ack, which does not look at the message.
AckDecodable(frame) ==
    Readable(frame, {0, 1, 2, 4}) /\ MessageType(frame) = MESSAGE_TYPE_STREAM_ACK

DecodeAck(frame) ==
    [topic |-> Topic(frame), txid |-> Txid(frame), message_id |-> MessageId(frame)]

\* Fault: the message id is not echoed.
EncodeAckNoId(txid, topic, message_id) ==
    AddOffset(AddUint8(AddOffset(AddOffset(<<>>, 0, txid), 1, topic),
                       2, MESSAGE_TYPE_STREAM_ACK), 3, <<>>)

EncodeAck(txid, topic, message_id) ==
    LET start == <<>>
        withTxid == AddOffset(start, 0, txid)
        withTopic == AddOffset(withTxid, 1, topic)
        withType == AddUint8(withTopic, 2, MESSAGE_TYPE_STREAM_ACK)
        withMessage == AddOffset(withType, 3, <<>>)
    IN  AddOffset(withMessage, 4, message_id)
=============================================================================
