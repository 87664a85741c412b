----------------------------- MODULE RecordFeed -----------------------------
(***************************************************************************)
(* What records() promises, without queues, tasks or listeners: records    *)
(* are published, and every open stream is offered each of them in the     *)
(* very step that publishes it.  A stream remembers two numbers, the last  *)
(* record it was offered and the last one its consumer got; they determine *)
(* the record that the consumer gets next.  Records are numbered in the    *)
(* order they are published.  Dispatcher implements this specification.    *)
(***************************************************************************)
EXTENDS Integers

CONSTANTS Streams, QueueMaxsize

VARIABLES
    published,  \* the number of records published
    closed,     \* whether the dispatcher is closed
    phase,      \* of every stream: "absent", "open", "left" or "ended"
    sealed,     \* whether the end of the stream is queued
    got,        \* the last record its consumer got
    upto        \* the last record it was offered

vars == <<published, closed, phase, sealed, got, upto>>

Init ==
    /\ published = 0
    /\ closed = FALSE
    /\ phase = [s \in Streams |-> "absent"]
    /\ sealed = [s \in Streams |-> FALSE]
    /\ got = [s \in Streams |-> 0]
    /\ upto = [s \in Streams |-> 0]

\* How many of the records offered are kept for the consumer: the newest, as
\* many as there is room for, of which the end of the stream takes one.
Backlog(s) ==
    LET unread == upto[s] - got[s]
        room == QueueMaxsize - IF sealed[s] THEN 1 ELSE 0
    IN  IF QueueMaxsize <= 0 \/ unread <= room THEN unread ELSE room

Open(s) ==
    /\ phase[s] = "absent"
    /\ phase' = [phase EXCEPT ![s] = IF closed THEN "left" ELSE "open"]
    /\ got' = [got EXCEPT ![s] = published]
    /\ upto' = [upto EXCEPT ![s] = published]
    /\ UNCHANGED <<published, closed, sealed>>

Publish ==
    /\ published' = published + 1
    /\ upto' = [s \in Streams |->
                   IF phase[s] = "open" /\ ~sealed[s] THEN published + 1 ELSE upto[s]]
    /\ UNCHANGED <<closed, phase, sealed, got>>

\* The consumer gets the oldest record that is kept; in a stream that was left,
\* only if it was waiting already.
Receive(s) ==
    /\ phase[s] \in {"open", "left"}
    /\ Backlog(s) > 0
    /\ got' = [got EXCEPT ![s] = upto[s] - Backlog(s) + 1]
    /\ UNCHANGED <<published, closed, phase, sealed, upto>>

\* aclose(), or the iterator is dropped.
Leave(s) ==
    /\ phase[s] = "open"
    /\ phase' = [phase EXCEPT ![s] = "left"]
    /\ UNCHANGED <<published, closed, sealed, got, upto>>

Close ==
    /\ closed' = TRUE
    /\ sealed' = [s \in Streams |-> sealed[s] \/ phase[s] = "open"]
    /\ UNCHANGED <<published, phase, got, upto>>

\* StopAsyncIteration: in a stream that was not left, behind all that is kept.
End(s) ==
    /\ \/ phase[s] = "open" /\ sealed[s] /\ Backlog(s) = 0
       \/ phase[s] = "left"
    /\ phase' = [phase EXCEPT ![s] = "ended"]
    /\ sealed' = [sealed EXCEPT ![s] = FALSE]
    /\ UNCHANGED <<published, closed, got, upto>>

Next ==
    \/ Publish \/ Close
    \/ \E s \in Streams : Open(s) \/ Receive(s) \/ Leave(s) \/ End(s)

Spec == Init /\ [][Next]_vars
=============================================================================
