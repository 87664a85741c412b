------------------------------- MODULE MCWire -------------------------------
(***************************************************************************)
(* Values for the constants of Wire.                                       *)
(***************************************************************************)
EXTENDS Wire, TLC

CONSTANTS r1, r2, r3

\* A vehicle that connects twice, and a client of another authority.
MCSessions == {r1, r2, r3}
Client(issuer) == [transport |-> TRUE, tls |-> TRUE,
                   cert |-> [subject |-> <<"5YJ.1", "other">>, issuer |-> <<issuer>>]]
MCPeer == [s \in MCSessions |-> Client(IF s = r3 THEN "Somebody" ELSE "TeslaMotors")]
MCDashed == [n \in {"5YJ.1", ""} |-> IF n = "5YJ.1" THEN "5YJ-1" ELSE n]

\* "t2?" stands for two byte strings that differ in what cannot be decoded.
MCText == [b \in {"t1", "t2a", "t2b", "V", "alerts", "unknown"} |->
              IF b \in {"t2a", "t2b"} THEN "t2?" ELSE b]
MCFieldEnum == [k \in {4} |-> "VehicleSpeed"]
NoBytes == [parses |-> Topics, data |-> <<>>]

Signals(data) == [parses |-> {DATA}, data |-> data]
Speed(v) == [key |-> 4, value |-> v]
Unknown(v) == [key |-> 999, value |-> v]

\* Tables as their writer makes them: an absent field is not in the domain.
Stream(created, payload) == AddOffset(AddUint8(<<>>, 0, created), 2, payload)
Envelope(txid, topic, id, stream) ==
    AddOffset(AddOffset(AddUint8(AddOffset(AddOffset(<<>>, 0, txid), 1, topic),
                                 2, MESSAGE_TYPE_STREAM), 3, stream), 4, id)

Binary(data) == [type |-> "BINARY", oversized |-> FALSE, data |-> data]
Repeated == Stream(7, Signals(<<Speed(1), Unknown(3), Speed(2)>>))

\* The sessions of the vehicle are interchangeable.
Symmetry == Permutations({r1, r2})

\* Frames that share a txid, one of them without a message id, or differ in
\* undecodable bytes of it only; one that
\* does not parse; and one that _handle_message drops.
MCMessages ==
    {Binary(Envelope("t1", "V", "", Repeated)),
     Binary(Envelope("t1", "V", "m2", Stream(0, Signals(<<Unknown(1)>>)))),
     Binary(Envelope("t2a", "alerts", "", <<>>)),
     Binary(Envelope("t2b", "unknown", "", Stream(7, Signals(<<>>)))),
     [Binary(Garbage) EXCEPT !.oversized = TRUE]}
=============================================================================
