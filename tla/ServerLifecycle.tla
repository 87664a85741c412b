-------------------------- MODULE ServerLifecycle --------------------------
(***************************************************************************)
(* fleet_telemetry/server.py: start() and stop(), called any number of     *)
(* times and by several tasks, so that the calls overlap.                  *)
(*                                                                         *)
(* TelemetryServer keeps the AppRunner of the last start() only.  A runner *)
(* is a number here, drawn afresh by every start(); of its socket, whether *)
(* it listens, and of a session, the runner that accepted it.  A call is   *)
(* suspended while it binds the socket and while cleanup() waits for the   *)
(* sessions of its runner; the module TelemetryServer says what happens to *)
(* these meanwhile.  AppRunner and TCPSite are external: cleanup() closes  *)
(* the runner's socket before its first suspension, and a socket that is   *)
(* bound after that is not closed by it.                                   *)
(***************************************************************************)
EXTENDS Naturals

CONSTANTS
    Callers,    \* the tasks that call start() and stop()
    Sessions,   \* the requests of vehicles
    MaxRunners  \* bound: calls of start()

ASSUME LifecycleAssumption == MaxRunners \in Nat

VARIABLES
    runner,        \* TelemetryServer._runner
    serverClosed,  \* TelemetryServer._closed
    closed,        \* Dispatcher._closed
    runners,       \* runners made so far
    listening,     \* the runners whose socket listens
    session,       \* the runner that serves a session
    call,          \* what every caller waits for, and the runner it is about
    tangled        \* history: a start() overlapped another call, or was made
                   \* while the runner of an earlier one was in use

vars == <<runner, serverClosed, closed, runners, listening, session, call, tangled>>

NoRunner == 0
Runners == 1 .. MaxRunners
Resting == {"idle", "started", "raised", "stopped", "cancelled"}
Waiting(c, at) == call[c].at = at

TypeOK ==
    /\ runners \in 0 .. MaxRunners
    /\ runner \in 0 .. runners
    /\ serverClosed \in BOOLEAN
    /\ closed \in BOOLEAN
    /\ listening \subseteq 1 .. runners
    /\ session \in [Sessions -> 0 .. runners]
    /\ call \in [Callers -> [at : Resting \cup {"binding", "draining"}, of : 0 .. runners]]
    /\ \A c \in Callers : call[c].at \notin Resting => call[c].of # NoRunner
    \* stop() refuses requests before it waits, and closes the dispatcher after.
    /\ closed \/ (\E c \in Callers : call[c].at = "draining") => serverClosed
    /\ tangled \in BOOLEAN

Init ==
    /\ runner = NoRunner
    /\ serverClosed = FALSE
    /\ closed = FALSE
    /\ runners = 0
    /\ listening = {}
    /\ session = [s \in Sessions |-> NoRunner]
    /\ call = [c \in Callers |-> [at |-> "idle", of |-> NoRunner]]
    /\ tangled = FALSE

InUse(r) == r \in listening \/ \E s \in Sessions : session[s] = r
SomethingGoesOn ==
    (\E r \in Runners : InUse(r)) \/ \E c \in Callers : call[c].at \notin Resting

Returns(c, result) == call' = [call EXCEPT ![c].at = result]
Awaits(c, at, r) == call' = [call EXCEPT ![c] = [at |-> at, of |-> r]]

\* Fault: a server that was stopped is served by again.
StartReopening(c) ==
    /\ call[c].at \in Resting
    /\ runners < MaxRunners
    /\ runners' = runners + 1
    /\ runner' = runners + 1
    /\ serverClosed' = FALSE
    /\ Awaits(c, "binding", runners + 1)
    /\ tangled' = (tangled \/ SomethingGoesOn)
    /\ UNCHANGED <<closed, listening, session>>

\* start() replaces _runner, whatever it holds, and waits for the socket.
Start(c) ==
    /\ call[c].at \in Resting
    /\ runners < MaxRunners
    /\ runners' = runners + 1
    /\ runner' = runners + 1
    /\ Awaits(c, "binding", runners + 1)
    /\ tangled' = (tangled \/ SomethingGoesOn)
    /\ UNCHANGED <<serverClosed, closed, listening, session>>

\* The socket is bound; only one of this server can have its port.
Bind(c) ==
    /\ Waiting(c, "binding")
    /\ listening = {}
    /\ listening' = {call[c].of}
    /\ Returns(c, "started")
    /\ UNCHANGED <<runner, serverClosed, closed, runners, session, tangled>>

\* It is not: start() raises and leaves _runner as it is.
BindFails(c) ==
    /\ Waiting(c, "binding")
    /\ Returns(c, "raised")
    /\ UNCHANGED <<runner, serverClosed, closed, runners, listening, session, tangled>>

\* stop() up to the first suspension of cleanup(), or to its end without a runner.
Stop(c) ==
    /\ call[c].at \in Resting
    /\ serverClosed' = TRUE
    /\ IF runner = NoRunner
       THEN closed' = TRUE /\ Returns(c, "stopped")
       ELSE UNCHANGED closed /\ Awaits(c, "draining", runner)
    /\ listening' = listening \ {runner}
    /\ tangled' = (tangled \/ \E d \in Callers : Waiting(d, "binding"))
    /\ UNCHANGED <<runner, runners, session>>

\* cleanup() returns when no session of its runner is left.  stop() clears
\* _runner, whatever it holds by now, and closes the dispatcher.
Stopped(c) ==
    /\ Waiting(c, "draining")
    /\ \A s \in Sessions : session[s] # call[c].of
    /\ runner' = NoRunner
    /\ closed' = TRUE
    /\ Returns(c, "stopped")
    /\ UNCHANGED <<serverClosed, runners, listening, session, tangled>>

\* Fault: _runner is cleared although cleanup() did not return.
StopCancelledClearing(c) ==
    /\ Waiting(c, "draining")
    /\ runner' = NoRunner
    /\ Returns(c, "cancelled")
    /\ UNCHANGED <<serverClosed, closed, runners, listening, session, tangled>>

\* The task that awaits stop() is cancelled: _runner and the dispatcher stay.
StopCancelled(c) ==
    /\ Waiting(c, "draining")
    /\ Returns(c, "cancelled")
    /\ UNCHANGED <<runner, serverClosed, closed, runners, listening, session, tangled>>

\* A request that a listening socket accepts, _handle serves unless _closed.
Accept(s) ==
    /\ session[s] = NoRunner
    /\ ~serverClosed
    /\ \E r \in listening : session' = [session EXCEPT ![s] = r]
    /\ UNCHANGED <<runner, serverClosed, closed, runners, listening, call, tangled>>

\* The session ends, by itself or cancelled by cleanup().
Leave(s) ==
    /\ session[s] # NoRunner
    /\ session' = [session EXCEPT ![s] = NoRunner]
    /\ UNCHANGED <<runner, serverClosed, closed, runners, listening, call, tangled>>

Next ==
    \/ \E c \in Callers : \/ Start(c) \/ Bind(c) \/ BindFails(c)
                          \/ Stop(c) \/ Stopped(c) \/ StopCancelled(c)
    \/ \E s \in Sessions : Accept(s) \/ Leave(s)

Spec == Init /\ [][Next]_vars
---------------------------------------------------------------------------
\* The server never loses hold of a runner that still listens or serves, so
\* that a later stop() reaches it ("release the socket", stop()), even when a
\* bind failed or a stop() was cancelled, unless calls of start() were tangled.
NothingLost == ~tangled => \A r \in Runners : InUse(r) => r = runner

\* No session is served once the dispatcher is closed, whatever sequence of
\* start() and stop() came before: stop() closes it only after the last session
\* has ended ("while the dispatcher is still open"), and a start() after it
\* serves nobody (_handle, server.py:223), unless calls of start() were tangled.
ServedWhileOpen == ~tangled => (closed => \A s \in Sessions : session[s] = NoRunner)
=============================================================================
