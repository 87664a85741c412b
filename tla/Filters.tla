------------------------------ MODULE Filters ------------------------------
(***************************************************************************)
(* The listener filters of fleet_telemetry/dispatch.py: how a filter given *)
(* by the application is normalised, and when a registration matches a     *)
(* record.                                                                 *)
(*                                                                         *)
(* A record is [vin, topic, fields, message], where fields is the set of   *)
(* keys of Record.fields(), which only DATA records have.                  *)
(***************************************************************************)
CONSTANTS
    Vins,        \* the vehicles
    Topics,      \* the record topics
    FieldNames,  \* the field keys that a record may carry
    Messages,    \* what records carry; it plays no part in routing
    None         \* Python's None, the absent constraint

Record == [vin : Vins, topic : Topics, fields : SUBSET FieldNames,
           message : Messages]

\* A lone value becomes a one-element set, None stays None, an iterable is
\* taken as a set (the empty one can never be satisfied).
Normalize(value, Values) ==
    IF value = None THEN None
    ELSE IF value \in Values THEN {value}
    ELSE value

\* What the application may pass for one filter argument.
Constraint(Values) == {None} \cup Values \cup SUBSET Values

Registration(vin, topic, field) ==
    [vins   |-> Normalize(vin, Vins),
     topics |-> Normalize(topic, Topics),
     fields |-> Normalize(field, FieldNames)]

\* Every constraint that is present must hold.
Matches(registration, record) ==
    /\ registration.vins = None \/ record.vin \in registration.vins
    /\ registration.topics = None \/ record.topic \in registration.topics
    /\ registration.fields = None \/ registration.fields \cap record.fields # {}
=============================================================================
