-------------------------- MODULE TelemetryServer --------------------------
(***************************************************************************)
(* fleet_telemetry/server.py: the TelemetryServer, composed with the       *)
(* Dispatcher it owns.                                                     *)
(*                                                                         *)
(* A session is one request that a vehicle makes, from its arrival to the  *)
(* end of its handler task.  A step is what the handler does from one      *)
(* suspension to the next: it waits for the upgrade to be written          *)
(* ("preparing"), for a listener of the CONNECTED record ("connecting"),   *)
(* for the next message ("receiving"), for an ack to be written            *)
(* ("acking"), for a listener of a frame's record ("handling") and for one *)
(* of the DISCONNECTED record ("disconnecting").                           *)
(*                                                                         *)
(* What aiohttp does is external: AppRunner.cleanup() stops listening,     *)
(* waits shutdown_timeout for the handlers that run, and cancels those     *)
(* that are left, each of which takes its CancelledError before cleanup()  *)
(* returns; it does not wait for a handler that is suspended again after   *)
(* that.  A handler is not cancelled when its peer disconnects.            *)
(***************************************************************************)
EXTENDS Integers, Sequences, FiniteSets

CONSTANTS
    Sessions,      \* the requests vehicles make
    Vins,          \* the vehicles
    VinOf,         \* session -> its authorised VIN, None if it has none
    Payloads,      \* the parsable frames: [topic, fields]
    MaxFrames,     \* bound: messages read per session
    FieldNames, None, Streams, Shared, Specs, QueueMaxsize, Hanging, MaxKeys

Topics == {"V", "alerts", "errors", "connectivity"}
ConnectivityEvents == {"CONNECTED", "DISCONNECTED"}
Messages == ConnectivityEvents \cup {"frame"}

ASSUME ServerAssumption ==
    /\ VinOf \in [Sessions -> Vins \cup {None}]
    /\ None \notin Vins \cup Sessions
    /\ IsFiniteSet(Sessions)
    /\ Payloads \subseteq [topic : Topics, fields : SUBSET FieldNames]
    /\ MaxFrames \in Nat

\* The synthetic record of _connectivity_record.
ConnectivityRecord(vin, event) ==
    [vin |-> vin, topic |-> "connectivity", fields |-> {}, message |-> event]

\* What parse_record makes of a frame that session s sent.
FrameRecord(s, payload) ==
    [vin |-> VinOf[s], topic |-> payload.topic, fields |-> payload.fields,
     message |-> "frame"]

Records ==
    {ConnectivityRecord(v, e) : v \in Vins, e \in ConnectivityEvents}
    \cup {FrameRecord(s, p) : s \in {x \in Sessions : VinOf[x] # None},
                              p \in Payloads}

\* Enough for every record the sessions can ever dispatch: never a guard.
MaxLog == Cardinality(Sessions) * (MaxFrames + 2)

VARIABLES
    life,          \* where start() and stop() are
    serverClosed,  \* TelemetryServer._closed
    runner,        \* TelemetryServer._runner is not None
    registry,      \* TelemetryServer._connections: VIN -> session, or None
    pc,            \* where the handler of every session is
    cancelled,     \* sessions whose handler is due a CancelledError
    read,          \* messages read per session
    latest,        \* history: the last session registered for a VIN
    registrations, ids, queues, closed, queue, streamClosed, reader,
    call, log, heard, cut, base, seen

dispatcherVars == <<registrations, ids, queues, closed, queue, streamClosed,
                    reader, call, log, heard, cut, base, seen>>
lifeVars == <<life, serverClosed, runner>>
sessionVars == <<registry, pc, cancelled, read, latest>>
vars == <<lifeVars, sessionVars, dispatcherVars>>

Disp == INSTANCE Dispatcher WITH Tasks <- Sessions

\* What the application gives the dispatcher: filters, bounds, listeners.
ASSUME ApplicationAssumption ==
    /\ Specs \subseteq [vin   : Disp!Constraint(Vins),
                        topic : Disp!Constraint(Topics),
                        field : Disp!Constraint(FieldNames)]
    /\ QueueMaxsize \in Int
    /\ Shared \subseteq Streams
    /\ Hanging \subseteq Nat
    /\ MaxKeys \in Nat

InSession == {"connecting", "receiving", "acking", "handling"}
Active == InSession \cup {"preparing", "disconnecting"}
InListener == {"connecting", "handling", "disconnecting"}

TypeOK ==
    /\ life \in {"new", "serving", "draining", "cancelling", "stopped"}
    /\ serverClosed \in BOOLEAN
    /\ runner \in BOOLEAN
    /\ registry \in [Vins -> Sessions \cup {None}]
    /\ pc \in [Sessions -> Active \cup {"new", "refused", "ended"}]
    /\ cancelled \subseteq Sessions
    /\ latest \in [Vins -> Sessions \cup {None}]
    /\ read \in [Sessions -> Nat]
    /\ Disp!TypeOK
    \* A task is inside dispatch() exactly when its handler waits there.
    /\ \A s \in Sessions : Disp!Suspended(s) <=> pc[s] \in InListener

Init ==
    /\ life = "new"
    /\ serverClosed = FALSE
    /\ runner = FALSE
    /\ registry = [v \in Vins |-> None]
    /\ pc = [s \in Sessions |-> "new"]
    /\ cancelled = {}
    /\ read = [s \in Sessions |-> 0]
    /\ latest = [v \in Vins |-> None]
    /\ Disp!Init

\* Fault: dispatch() is not awaited.
GotoAtOnce(s, inListener, otherwise) == pc' = [pc EXCEPT ![s] = otherwise]

\* Where s waits after a step that may have suspended it in a listener.
Goto(s, inListener, otherwise) ==
    pc' = [pc EXCEPT ![s] = IF call'[s] # Disp!Idle THEN inListener ELSE otherwise]

-----------------------------------------------------------------------------
(* The beginning of a session *)

\* Fault: _handle does not look at _closed.
RequestAnyTime(s) ==
    /\ life # "new"
    /\ pc[s] = "new"
    /\ pc' = [pc EXCEPT ![s] = IF VinOf[s] = None THEN "refused" ELSE "preparing"]
    /\ UNCHANGED <<lifeVars, registry, cancelled, read, latest, dispatcherVars>>

\* Fault: _handle lets a client without a VIN in.
RequestUnauthorised(s) ==
    /\ life # "new"
    /\ pc[s] = "new"
    /\ pc' = [pc EXCEPT ![s] = IF serverClosed THEN "refused" ELSE "preparing"]
    /\ UNCHANGED <<lifeVars, registry, cancelled, read, latest, dispatcherVars>>

\* _handle up to ws.prepare: 503 while shutting down, 496 without a VIN.
Request(s) ==
    /\ life # "new"
    /\ pc[s] = "new"
    /\ pc' = [pc EXCEPT ![s] = IF serverClosed \/ VinOf[s] = None
                               THEN "refused" ELSE "preparing"]
    /\ UNCHANGED <<lifeVars, registry, cancelled, read, latest, dispatcherVars>>

\* ws.prepare raises: no upgrade in the request, or the peer is gone.
PrepareFails(s) ==
    /\ pc[s] = "preparing" /\ s \notin cancelled
    /\ pc' = [pc EXCEPT ![s] = "ended"]
    /\ UNCHANGED <<lifeVars, registry, cancelled, read, latest, dispatcherVars>>

\* ws.prepare returns: _connect registers the session, whatever the registry
\* holds for its VIN, and dispatches CONNECTED.
Connect(s) ==
    /\ pc[s] = "preparing" /\ s \notin cancelled
    /\ registry' = [registry EXCEPT ![VinOf[s]] = s]
    /\ latest' = [latest EXCEPT ![VinOf[s]] = s]
    /\ Disp!Dispatch(s, ConnectivityRecord(VinOf[s], "CONNECTED"))
    /\ Goto(s, "connecting", "receiving")
    /\ UNCHANGED <<lifeVars, cancelled, read>>

\* A listener that s waits for returns or raises, and s goes on.
ListenerDone(s) ==
    /\ s \notin cancelled
    /\ Disp!Resume(s)
    /\ Goto(s, pc[s], IF pc[s] = "disconnecting" THEN "ended" ELSE "receiving")
    /\ UNCHANGED <<lifeVars, registry, cancelled, read, latest>>

-----------------------------------------------------------------------------
(* Messages *)

Read(s) ==
    /\ pc[s] = "receiving" /\ s \notin cancelled
    /\ read[s] < MaxFrames
    /\ read' = [read EXCEPT ![s] = @ + 1]

\* A message that is not binary, or no Stream envelope: it is skipped.
ReadUnusable(s) ==
    /\ Read(s)
    /\ UNCHANGED <<lifeVars, registry, pc, cancelled, latest, dispatcherVars>>

\* A frame that decodes: its ack is being sent.
ReadFrame(s) ==
    /\ Read(s)
    /\ pc' = [pc EXCEPT ![s] = "acking"]
    /\ UNCHANGED <<lifeVars, registry, cancelled, latest, dispatcherVars>>

\* send_bytes raises ConnectionError, or it returns and the payload does not
\* parse: the frame is given up.  Whether the ack was written is Wire's subject.
GiveUp(s) ==
    /\ pc[s] = "acking" /\ s \notin cancelled
    /\ pc' = [pc EXCEPT ![s] = "receiving"]
    /\ UNCHANGED <<lifeVars, registry, cancelled, read, latest, dispatcherVars>>

\* send_bytes returns, and the record is dispatched.
AckThenDispatch(s, payload) ==
    /\ pc[s] = "acking" /\ s \notin cancelled
    /\ Disp!Dispatch(s, FrameRecord(s, payload))
    /\ Goto(s, "handling", "receiving")
    /\ UNCHANGED <<lifeVars, registry, cancelled, read, latest>>

-----------------------------------------------------------------------------
(* The end of a session *)

\* Fault: _disconnect removes the entry of its VIN, whoever's it is.
DisconnectAnyEntry(s) ==
    IF registry[VinOf[s]] # None
    THEN LET gone == ConnectivityRecord(VinOf[s], "DISCONNECTED")
         IN  /\ registry' = [registry EXCEPT ![VinOf[s]] = None]
             /\ Disp!Dispatch(s, gone) \/ Disp!CancelThenDispatch(s, gone)
             /\ Goto(s, "disconnecting", "ended")
    ELSE /\ IF Disp!Suspended(s) THEN Disp!Cancel(s) ELSE UNCHANGED dispatcherVars
         /\ pc' = [pc EXCEPT ![s] = "ended"]
         /\ UNCHANGED registry

\* Fault: DISCONNECTED is dispatched for a session that was replaced, too.
DisconnectAlwaysTold(s) ==
    LET gone == ConnectivityRecord(VinOf[s], "DISCONNECTED")
    IN  /\ registry' = IF registry[VinOf[s]] = s
                       THEN [registry EXCEPT ![VinOf[s]] = None] ELSE registry
        /\ Disp!Dispatch(s, gone) \/ Disp!CancelThenDispatch(s, gone)
        /\ Goto(s, "disconnecting", "ended")

\* The finally clause: _disconnect acts only if s is still the entry of its
\* VIN.  If a CancelledError led here, the dispatch() s was in is over.
Disconnect(s) ==
    IF registry[VinOf[s]] = s
    THEN LET gone == ConnectivityRecord(VinOf[s], "DISCONNECTED")
         IN  /\ registry' = [registry EXCEPT ![VinOf[s]] = None]
             /\ Disp!Dispatch(s, gone) \/ Disp!CancelThenDispatch(s, gone)
             /\ Goto(s, "disconnecting", "ended")
    ELSE /\ IF Disp!Suspended(s) THEN Disp!Cancel(s) ELSE UNCHANGED dispatcherVars
         /\ pc' = [pc EXCEPT ![s] = "ended"]
         /\ UNCHANGED registry

\* The peer closes the socket, or aiohttp does after a protocol error.
PeerCloses(s) ==
    /\ pc[s] = "receiving" /\ s \notin cancelled
    /\ Disconnect(s)
    /\ UNCHANGED <<lifeVars, cancelled, read, latest>>

\* A CancelledError reaches the handler of s: the finally clause covers the
\* message loop, not ws.prepare and _connect before it.
Unwind(s) ==
    /\ IF pc[s] \in {"receiving", "acking", "handling"}
       THEN Disconnect(s)
       ELSE /\ IF Disp!Suspended(s) THEN Disp!Cancel(s) ELSE UNCHANGED dispatcherVars
            /\ pc' = [pc EXCEPT ![s] = "ended"]
            /\ UNCHANGED registry
    /\ UNCHANGED <<lifeVars, read, latest>>

\* The CancelledError of cleanup().
HandlerCancelled(s) ==
    /\ s \in cancelled
    /\ cancelled' = cancelled \ {s}
    /\ Unwind(s)

\* The CancelledError of an awaitable that a listener returned, such as a
\* task that someone else cancelled.
ListenerCancelled(s) ==
    /\ Disp!Suspended(s) /\ s \notin cancelled
    /\ Unwind(s)
    /\ UNCHANGED cancelled

-----------------------------------------------------------------------------
(* start() and stop() *)

\* start() binds the socket, or raises when that fails; _runner is set first.
Start ==
    /\ life = "new"
    /\ runner' = TRUE
    /\ life' \in {"serving", "new"}
    /\ UNCHANGED <<serverClosed, sessionVars, dispatcherVars>>

\* Fault: stop() closes the dispatcher before the cleanup.
StopClosingFirst ==
    /\ life \in {"new", "serving"}
    /\ serverClosed' = TRUE
    /\ life' = IF runner THEN "draining" ELSE "stopped"
    /\ Disp!Close
    /\ UNCHANGED <<runner, sessionVars>>

\* stop() up to the await of runner.cleanup(), or to its end without a runner.
Stop ==
    /\ life \in {"new", "serving"}
    /\ serverClosed' = TRUE
    /\ IF runner
       THEN life' = "draining" /\ UNCHANGED dispatcherVars
       ELSE life' = "stopped" /\ Disp!Close
    /\ UNCHANGED <<runner, sessionVars>>

ActiveSessions == {s \in Sessions : pc[s] \in Active}

\* shutdown_timeout is over: cleanup() cancels the handlers that still run.
ShutdownTimeout ==
    /\ life = "draining"
    /\ ActiveSessions # {}
    /\ life' = "cancelling"
    /\ cancelled' = ActiveSessions
    /\ UNCHANGED <<serverClosed, runner, registry, pc, read, latest,
                   dispatcherVars>>

\* Fault: stop() does not close the dispatcher after the cleanup.
FinishStopOpen ==
    /\ \/ life = "draining" /\ ActiveSessions = {}
       \/ life = "cancelling" /\ cancelled = {}
    /\ life' = "stopped"
    /\ runner' = FALSE
    /\ UNCHANGED <<serverClosed, sessionVars, dispatcherVars>>

\* cleanup() returns, and stop() closes the dispatcher.
FinishStop ==
    /\ \/ life = "draining" /\ ActiveSessions = {}
       \/ life = "cancelling" /\ cancelled = {}
    /\ life' = "stopped"
    /\ runner' = FALSE
    /\ Disp!Close
    /\ UNCHANGED <<serverClosed, sessionVars>>

-----------------------------------------------------------------------------
HandlerNext(s) ==
    \/ Request(s) \/ PrepareFails(s) \/ Connect(s) \/ ListenerDone(s)
    \/ ReadUnusable(s) \/ ReadFrame(s) \/ GiveUp(s)
    \/ \E payload \in Payloads : AckThenDispatch(s, payload)
    \/ PeerCloses(s) \/ HandlerCancelled(s) \/ ListenerCancelled(s)

\* Listeners and iterators, through the methods that delegate to dispatcher.
Application == Disp!ApplicationNext /\ UNCHANGED <<lifeVars, sessionVars>>

Lifecycle == Start \/ Stop \/ ShutdownTimeout \/ FinishStop

Next == Lifecycle \/ Application \/ \E s \in Sessions : HandlerNext(s)

Spec == Init /\ [][Next]_vars

\* cleanup() ends its wait at shutdown_timeout and then returns, a handler
\* takes its CancelledError, the awaitables of listeners that do not hang
\* complete, and consumers keep calling anext.  Nothing is assumed of the
\* vehicles.
Fairness ==
    /\ WF_vars(ShutdownTimeout)
    /\ WF_vars(FinishStop)
    /\ \A s \in Sessions : WF_vars(HandlerCancelled(s)) /\ WF_vars(ListenerDone(s))
    /\ \A x \in Streams :
          WF_vars(Disp!Anext(x) /\ UNCHANGED <<lifeVars, sessionVars>>)

FairSpec == Spec /\ Fairness

-----------------------------------------------------------------------------
(* What the server promises *)

\* The places of the synthetic connectivity records of VIN v in the log.
Events(v) == {n \in 1 .. Len(log) : /\ log[n].record.vin = v
                                    /\ log[n].record.message \in ConnectivityEvents}

IsLastEvent(n, v) == n \in Events(v) /\ \A m \in Events(v) : m <= n

\* While the session that registered last for a VIN runs, the registry holds
\* it: the late end of an older session of the same vehicle never removes it.
\* An entry is the latest session's, and one whose session is over exists only
\* if the dispatch of its CONNECTED record was cancelled.
RegistryTracksLatest ==
    \A v \in Vins :
        /\ latest[v] # None /\ pc[latest[v]] \in InSession => registry[v] = latest[v]
        /\ registry[v] # None =>
              /\ registry[v] = latest[v]
              /\ \/ pc[registry[v]] \in InSession
                 \/ \E n \in Events(v) \cap cut : log[n].by = registry[v]

\* The connectivity records a consumer sees end in CONNECTED exactly when the
\* vehicle is in the registry.
ConnectivityAgrees ==
    \A v \in Vins :
        registry[v] # None <=>
            \E n \in 1 .. Len(log) :
                IsLastEvent(n, v) /\ log[n].record.message = "CONNECTED"

\* In the order of the fan-out, the records of a session's frames lie between
\* its CONNECTED and its DISCONNECTED, and a DISCONNECTED directly follows,
\* among the connectivity records of its VIN, the CONNECTED of its session.
SessionsBracketed ==
    \A n \in 1 .. Len(log) :
        CASE log[n].record.message = "frame" ->
                /\ \E m \in 1 .. n - 1 : /\ log[m].by = log[n].by
                                         /\ log[m].record.message = "CONNECTED"
                /\ \A m \in 1 .. n - 1 :
                      log[m].by = log[n].by => log[m].record.message # "DISCONNECTED"
          [] log[n].record.message = "DISCONNECTED" ->
                \E m \in Events(log[n].record.vin) :
                    /\ m < n
                    /\ log[m].by = log[n].by
                    /\ log[m].record.message = "CONNECTED"
                    /\ \A i \in Events(log[n].record.vin) : i <= m \/ i >= n
          [] OTHER -> TRUE

\* When stop() has returned, no session reads or dispatches frames any more,
\* and none can begin; what is left of a session waits in a listener of its
\* DISCONNECTED record.
StoppedIsQuiet ==
    life = "stopped" =>
        /\ closed
        /\ \A s \in Sessions : pc[s] \in {"new", "refused", "disconnecting", "ended"}

\* "each session's finally runs its disconnect dispatch while the dispatcher is
\* still open" (stop()): no record is dispatched to closed streams.
DispatchedWhileOpen ==
    [][log' # log => ~closed]_vars

\* The sessions drive the dispatcher as Dispatcher says tasks do: one dispatch()
\* each at a time, of records of authorised vehicles, whether it is a message,
\* the finally clause or a CancelledError that leads there; so what Dispatcher
\* promises to listeners and iterators, the server promises too.
DispatcherKept == Disp!Spec

\* Whatever hangs in a listener, no iterator misses a record, or waits forever
\* once it is closed: the promises of Dispatcher, with tasks that are sessions
\* and come to an end, and a close() that stop() calls.
StreamsKeepUp == Disp!StreamsKeepUp
IterationEnds == Disp!IterationEnds

\* stop() returns and every iterator ends, even when a listener hangs.
StopEnds ==
    serverClosed ~> (life = "stopped"
                     /\ \A x \in Streams : reader[x] \in {"absent", "ended", "gone"})

\* "each session's finally runs its disconnect dispatch" (stop(), server.py):
\* no vehicle is left in the registry.
StopDeregisters == life = "stopped" => \A v \in Vins : registry[v] = None

\* "Return whether a vehicle with vin is currently connected" (is_connected):
\* it is for a vehicle whose session is reading messages.
LiveSessionIsConnected ==
    \A s \in Sessions : pc[s] = "receiving" => registry[VinOf[s]] # None
=============================================================================
