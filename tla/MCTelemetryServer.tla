------------------------- MODULE MCTelemetryServer -------------------------
(***************************************************************************)
(* Values for the constants of TelemetryServer.                            *)
(***************************************************************************)
EXTENDS TelemetryServer, TLC

CONSTANTS r1, r2, r3, r4, v1, s1, speed

TwoSessions == {r1, r2}
FourSessions == {r1, r2, r3, r4}
OneVin == {v1}
MCFieldNames == {speed}

\* A vehicle that reconnects.
SameVin == [s \in TwoSessions |-> v1]
\* A vehicle that reconnects twice, and a client without a VIN.
IntruderHasNone == [s \in FourSessions |-> IF s = r4 THEN None ELSE v1]
MCPayloads == {[topic |-> "V", fields |-> {speed}]}
OneStream == {s1}
Nobody == {}
FirstListener == {0}
AnySpec == {[vin |-> None, topic |-> None, field |-> None]}

\* A listener that hears the connectivity records, and one that hears frames.
EitherSpec ==
    {[vin |-> v1,   topic |-> "connectivity", field |-> None],
     [vin |-> None, topic |-> None,           field |-> {speed}]}

\* The sessions of one vehicle are interchangeable.
Symmetry == Permutations({r1, r2, r3})
=============================================================================
