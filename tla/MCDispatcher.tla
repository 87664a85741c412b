---------------------------- MODULE MCDispatcher ----------------------------
(***************************************************************************)
(* Values for the constants of Dispatcher.                                 *)
(***************************************************************************)
EXTENDS Dispatcher, TLC

CONSTANTS t1, t2, s1, v1, v2, data, connectivity, speed, payload

MCTasks == {t1, t2}
OneTask == {t1}
OneStream == {s1}
MCVins == {v1, v2}
MCTopics == {data, connectivity}
MCFieldNames == {speed}
MCMessages == {payload}
Nobody == {}
FirstListener == {0}

\* The listener that hears everything.
AnySpec == {[vin |-> None, topic |-> None, field |-> None]}

\* A listener that hears OneRecord for its vehicle, its topic and its field, and
\* one that does not, for the vehicle alone.
OneOfTwo ==
    {[vin |-> v1,   topic |-> data,                 field |-> {speed}],
     [vin |-> {v2}, topic |-> {data, connectivity}, field |-> None]}

OneRecord == {[vin |-> v1, topic |-> data, fields |-> {speed}, message |-> payload]}

\* The tasks are interchangeable.
Symmetry == Permutations(MCTasks)
=============================================================================
