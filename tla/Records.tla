------------------------------ MODULE Records ------------------------------
(***************************************************************************)
(* fleet_telemetry/records.py: what parse_record makes of a decoded frame, *)
(* and the signals of a DATA record.                                       *)
(*                                                                         *)
(* A payload says which topics' messages it parses as, and what Datum      *)
(* entries it has when parsed as a vd.Payload.                             *)
(***************************************************************************)
EXTENDS Naturals, Sequences

CONSTANTS
    Text,      \* bytes -> str, undecodable bytes replaced: not injective
    FieldEnum  \* vd.Field: the keys that have a name -> that name

DATA == "V"
Topics == {DATA, "alerts", "errors", "connectivity"}

\* Fault: the topic is not looked at.
ParsableAnyhow(frame) == frame.payload.parses # {}

\* An unknown topic raises ValueError, a payload that does not parse as the
\* message of its topic DecodeError; a uint32 of seconds is never out of range.
Parsable(frame) == Text[frame.topic] \in Topics /\ Text[frame.topic] \in frame.payload.parses

Utc(seconds) == [epoch |-> seconds, tz |-> "UTC"]

ParseRecord(vin, frame) ==
    [vin |-> vin, topic |-> Text[frame.topic], created_at |-> Utc(frame.created_at),
     txid |-> Text[frame.txid], message |-> frame.payload.data, raw |-> frame.payload]

\* vd.Field.Name, and the synthetic Field_<int> of a key it does not know.
FieldName(key) == IF key \in DOMAIN FieldEnum THEN <<FieldEnum[key]>> ELSE <<"Field", key>>

SetItem(dict, key, value) ==
    [k \in DOMAIN dict \cup {key} |-> IF k = key THEN value ELSE dict[k]]

\* The entries that fields() goes through: those of a DATA record.
Data(record) == IF record.topic = DATA THEN record.message ELSE <<>>

\* Fault: a key that is there already keeps its value.
FieldsFirstWins(record) ==
    LET data == Data(record)
        result[n \in 0 .. Len(data)] ==
            IF n = 0 THEN <<>>
            ELSE IF FieldName(data[n].key) \in DOMAIN result[n - 1] THEN result[n - 1]
            ELSE SetItem(result[n - 1], FieldName(data[n].key), data[n].value)
    IN  result[Len(data)]

\* result[n] is the dict after n of them.
Fields(record) ==
    LET data == Data(record)
        result[n \in 0 .. Len(data)] ==
            IF n = 0 THEN <<>>
            ELSE SetItem(result[n - 1], FieldName(data[n].key), data[n].value)
    IN  result[Len(data)]
=============================================================================
