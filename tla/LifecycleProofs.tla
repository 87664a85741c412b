-------------------------- MODULE LifecycleProofs --------------------------
(***************************************************************************)
(* Theorems about ServerLifecycle, for every number of callers, sessions   *)
(* and runners.                                                            *)
(***************************************************************************)
EXTENDS ServerLifecycle, TLAPS

CallType == [at : Resting \cup {"binding", "draining"}, of : 0 .. runners]

Nobody == \A s \in Sessions : session[s] = NoRunner

\* The inductive invariant behind NothingLost and ServedWhileOpen.  As long as
\* calls of start() are not tangled, the socket and the sessions are those of
\* _runner; a start() that binds is alone, and a stop() that waits has closed
\* the socket already, and either _runner is its own or another stop() that
\* waited for the same runner has cleared it.
Untangled ==
    /\ \A r \in listening : r = runner
    /\ \A s \in Sessions : session[s] \in {NoRunner, runner}
    /\ \A c \in Callers : Waiting(c, "binding") =>
          /\ call[c].of = runner
          /\ listening = {} /\ Nobody
          /\ \A d \in Callers \ {c} : call[d].at \in Resting
    /\ \A c \in Callers : Waiting(c, "draining") =>
          /\ listening = {}
          /\ runner \in {NoRunner, call[c].of}
    /\ closed => Nobody

IInv == TypeOK /\ (~tangled => Untangled)

-----------------------------------------------------------------------------
LEMMA InitType == Init => TypeOK
<1> SUFFICES ASSUME Init PROVE TypeOK
  OBVIOUS
<1>1. \A c \in Callers : call[c].at = "idle"
  BY DEF Init
<1>2. call \in [Callers -> CallType]
  BY DEF Init, CallType, Resting, NoRunner
<1>3. /\ session \in [Sessions -> 0 .. runners] /\ runner \in 0 .. runners
      /\ runners \in 0 .. MaxRunners
  BY LifecycleAssumption DEF Init, NoRunner
<1> QED
  BY <1>1, <1>2, <1>3 DEF Init, TypeOK, CallType, Resting

LEMMA StartType ==
    ASSUME TypeOK, NEW c \in Callers, Start(c)
    PROVE  TypeOK'
<1>1. runners' = runners + 1 /\ runners + 1 \in 0 .. MaxRunners
  BY LifecycleAssumption DEF Start, TypeOK
<1>2. call' = [call EXCEPT ![c] = [at |-> "binding", of |-> runners + 1]]
  BY DEF Start, Awaits
<1>3. CallType \subseteq CallType' /\ [at |-> "binding", of |-> runners + 1] \in CallType'
  BY <1>1, LifecycleAssumption DEF CallType, TypeOK
<1>4. call' \in [Callers -> CallType']
  BY <1>2, <1>3 DEF TypeOK, CallType
<1>5. /\ runner' \in 0 .. runners' /\ listening' \subseteq 1 .. runners'
      /\ session' \in [Sessions -> 0 .. runners']
  BY <1>1 DEF Start, TypeOK
<1>8. \A d \in Callers : call'[d].at \notin Resting => call'[d].of # NoRunner
  BY <1>1, <1>2 DEF TypeOK, NoRunner
<1>6. closed' \/ (\E d \in Callers : call'[d].at = "draining") => serverClosed'
  BY <1>2 DEF Start, TypeOK
<1>7. tangled' \in BOOLEAN /\ closed' \in BOOLEAN /\ serverClosed' \in BOOLEAN
  BY DEF Start, TypeOK
<1> QED
  BY <1>1, <1>4, <1>5, <1>6, <1>7, <1>8 DEF TypeOK, CallType

LEMMA StopType ==
    ASSUME TypeOK, NEW c \in Callers, Stop(c)
    PROVE  TypeOK'
<1>1. /\ serverClosed' = TRUE /\ listening' = listening \ {runner}
      /\ UNCHANGED <<runner, runners, session>>
      /\ tangled' = (tangled \/ \E d \in Callers : Waiting(d, "binding"))
      /\ closed' \in BOOLEAN
  BY DEF Stop, TypeOK
<1>2. /\ call' \in [Callers -> CallType]
      /\ \A d \in Callers : call'[d].at \notin Resting => call'[d].of # NoRunner
  <2>1. CASE runner = NoRunner
    BY <2>1 DEF Stop, Returns, TypeOK, CallType, Resting
  <2>2. CASE runner # NoRunner
    BY <2>2 DEF Stop, Awaits, TypeOK, CallType
  <2> QED
    BY <2>1, <2>2
<1>3. tangled' \in BOOLEAN
  BY <1>1 DEF TypeOK
<1> QED
  BY <1>1, <1>2, <1>3 DEF TypeOK, CallType

\* The other steps of a call end it.
LEMMA ReturnType ==
    ASSUME TypeOK, NEW c \in Callers, NEW result \in Resting, Returns(c, result)
    PROVE  /\ call' \in [Callers -> CallType]
           /\ \A d \in Callers :
                 /\ call'[d].at = "draining" => call[d].at = "draining"
                 /\ call'[d].at \notin Resting => call'[d].of # NoRunner
<1>1. call \in [Callers -> CallType]
  BY DEF TypeOK, CallType
<1>2. [call[c] EXCEPT !.at = result] \in CallType
  BY <1>1 DEF CallType
<1>3. call' = [call EXCEPT ![c] = [call[c] EXCEPT !.at = result]]
  BY DEF Returns
<1> QED
  BY <1>1, <1>2, <1>3 DEF Resting, CallType, TypeOK

LEMMA NextType == TypeOK /\ [Next]_vars => TypeOK'
<1> SUFFICES ASSUME TypeOK, [Next]_vars PROVE TypeOK'
  OBVIOUS
<1>1. ASSUME NEW c \in Callers, Bind(c) PROVE TypeOK'
  <2>1. call[c].of \in 1 .. runners
    BY <1>1 DEF Bind, TypeOK, Waiting, Resting, NoRunner
  <2> QED
    BY <1>1, <2>1, ReturnType DEF Bind, TypeOK, CallType, Resting
<1>2. ASSUME NEW c \in Callers, BindFails(c) PROVE TypeOK'
  BY <1>2, ReturnType DEF BindFails, TypeOK, CallType, Resting
<1>3. ASSUME NEW c \in Callers, Stopped(c) PROVE TypeOK'
  BY <1>3, ReturnType DEF Stopped, TypeOK, CallType, Resting, Waiting, NoRunner
<1>4. ASSUME NEW c \in Callers, StopCancelled(c) PROVE TypeOK'
  BY <1>4, ReturnType DEF StopCancelled, TypeOK, CallType, Resting
<1>5. ASSUME NEW s \in Sessions, Accept(s) PROVE TypeOK'
  BY <1>5 DEF Accept, TypeOK
<1>6. ASSUME NEW s \in Sessions, Leave(s) PROVE TypeOK'
  BY <1>6 DEF Leave, TypeOK, NoRunner
<1>7. ASSUME UNCHANGED vars PROVE TypeOK'
  BY <1>7 DEF vars, TypeOK
<1> QED
  BY StartType, StopType, <1>1, <1>2, <1>3, <1>4, <1>5, <1>6, <1>7 DEF Next

\* Every variable keeps its type, and the dispatcher is closed, and a stop()
\* waits for sessions, only when _handle refuses new ones.
THEOREM TypeCorrect == Spec => []TypeOK
BY InitType, NextType, PTL DEF Spec
-----------------------------------------------------------------------------
(* One step of each action, as long as no start() was tangled *)

\* When nothing goes on, nobody is served and no socket listens.
LEMMA NothingGoesOn ==
    ASSUME TypeOK, ~SomethingGoesOn
    PROVE  listening = {} /\ Nobody /\ \A c \in Callers : call[c].at \in Resting
<1>1. \A s \in Sessions : session[s] \in Runners \/ session[s] = NoRunner
  BY LifecycleAssumption DEF TypeOK, Runners, NoRunner
<1>2. listening \subseteq Runners
  BY LifecycleAssumption DEF TypeOK, Runners
<1> QED
  BY <1>1, <1>2 DEF SomethingGoesOn, InUse, Nobody

LEMMA StartStep ==
    ASSUME IInv, NEW c \in Callers, Start(c), ~tangled'
    PROVE  Untangled'
<1>1. listening = {} /\ Nobody /\ \A d \in Callers : call[d].at \in Resting
  BY NothingGoesOn DEF Start, IInv
<1>2. /\ listening' = {} /\ session' = session /\ Nobody'
      /\ runner' = runners + 1
  BY <1>1 DEF Start, Nobody
<1>3. call' = [call EXCEPT ![c] = [at |-> "binding", of |-> runners + 1]]
  BY DEF Start, Awaits
<1>4. \A d \in Callers \ {c} : call'[d] = call[d] /\ call'[d].at \in Resting
  BY <1>1, <1>3 DEF IInv, TypeOK
<1>5. call'[c] = [at |-> "binding", of |-> runners + 1]
  BY <1>3 DEF IInv, TypeOK
<1> QED
  BY <1>2, <1>4, <1>5 DEF Untangled, Waiting, Nobody, Resting

LEMMA StopStep ==
    ASSUME IInv, NEW c \in Callers, Stop(c), ~tangled'
    PROVE  Untangled'
<1>1. Untangled /\ \A d \in Callers : ~Waiting(d, "binding")
  BY DEF Stop, IInv
<1>2. /\ listening' = {} /\ UNCHANGED <<runner, session>>
  BY <1>1 DEF Stop, Untangled
<1>3. \A d \in Callers \ {c} : call'[d] = call[d]
  BY DEF Stop, Returns, Awaits, IInv, TypeOK
<1>4. \/ runner = NoRunner /\ call'[c].at = "stopped"
      \/ call'[c] = [at |-> "draining", of |-> runner]
  BY DEF Stop, Returns, Awaits, IInv, TypeOK
<1>5. closed' => Nobody
  BY <1>1 DEF Stop, Untangled, Nobody
<1> QED
  BY <1>1, <1>2, <1>3, <1>4, <1>5 DEF Untangled, Waiting, Nobody

LEMMA BindStep ==
    ASSUME IInv, NEW c \in Callers, Bind(c) \/ BindFails(c), ~tangled'
    PROVE  Untangled'
<1>1. Untangled /\ Waiting(c, "binding") /\ UNCHANGED <<runner, session, closed>>
  BY DEF Bind, BindFails, IInv
<1>2. /\ call[c].of = runner /\ Nobody
      /\ \A d \in Callers \ {c} : call[d].at \in Resting
  BY <1>1 DEF Untangled
<1>3. /\ listening' \subseteq {runner}
      /\ call'[c].at \in Resting
      /\ \A d \in Callers \ {c} : call'[d] = call[d]
  BY <1>1, <1>2 DEF Bind, BindFails, Returns, Resting, IInv, TypeOK, Untangled
<1>4. \A d \in Callers : ~Waiting(d, "binding")' /\ ~Waiting(d, "draining")'
  BY <1>2, <1>3 DEF Waiting, Resting
<1> QED
  BY <1>1, <1>2, <1>3, <1>4 DEF Untangled, Nobody

LEMMA StoppedStep ==
    ASSUME IInv, NEW c \in Callers, Stopped(c) \/ StopCancelled(c), ~tangled'
    PROVE  Untangled'
<1>1. /\ Untangled /\ Waiting(c, "draining") /\ UNCHANGED <<listening, session>>
      /\ runner' \in {NoRunner, runner}
  BY DEF Stopped, StopCancelled, IInv
<1>2. listening = {} /\ runner \in {NoRunner, call[c].of}
  BY <1>1 DEF Untangled
<1>3. /\ call'[c].at \in Resting
      /\ \A d \in Callers \ {c} : call'[d] = call[d]
  BY DEF Stopped, StopCancelled, Returns, Resting, IInv, TypeOK
<1>4. \A d \in Callers : ~Waiting(d, "binding")
  BY <1>1 DEF Untangled, Waiting, Resting
<1>5. Nobody \/ (runner' = runner /\ closed' = closed)
  BY <1>1, <1>2 DEF Untangled, Nobody, Stopped, StopCancelled
<1>6. \A d \in Callers : /\ ~Waiting(d, "binding")'
                         /\ Waiting(d, "draining")' => Waiting(d, "draining") /\ call'[d] = call[d]
  BY <1>3, <1>4 DEF Waiting, Resting
<1> QED
  BY <1>1, <1>2, <1>5, <1>6 DEF Untangled, Nobody

\* Only a runner that listens accepts a session, so there is a start() that
\* has bound it, and no stop() has begun.
LEMMA SessionStep ==
    ASSUME IInv, NEW s \in Sessions, Accept(s) \/ Leave(s), ~tangled'
    PROVE  Untangled'
<1>1. Untangled /\ UNCHANGED <<runner, closed, listening, call>>
  BY DEF Accept, Leave, IInv
<1>2. session \in [Sessions -> 0 .. runners]
  BY DEF IInv, TypeOK
<1>3. CASE Accept(s)
  <2>1. listening # {} /\ ~closed /\ session' = [session EXCEPT ![s] = runner]
    BY <1>1, <1>3 DEF Accept, Untangled, IInv, TypeOK
  <2>2. \A c \in Callers : ~Waiting(c, "binding") /\ ~Waiting(c, "draining")
    BY <1>1, <2>1 DEF Untangled
  <2>3. \A x \in Sessions : session'[x] \in {NoRunner, runner}
    BY <1>1, <1>2, <2>1 DEF Untangled
  <2> QED
    BY <1>1, <2>1, <2>2, <2>3 DEF Untangled, Waiting
<1>4. CASE Leave(s)
  <2>1. \A x \in Sessions : session'[x] \in {NoRunner, session[x]}
    BY <1>2, <1>4 DEF Leave
  <2>2. Nobody => Nobody'
    BY <2>1 DEF Nobody
  <2>3. \A x \in Sessions : session'[x] \in {NoRunner, runner}
    BY <1>1, <2>1 DEF Untangled
  <2> QED
    BY <1>1, <2>2, <2>3 DEF Untangled, Waiting
<1> QED
  BY <1>3, <1>4

LEMMA Invariant == Spec => []IInv
<1>1. Init => IInv
  BY InitType DEF Init, IInv, Untangled, Nobody, Waiting, NoRunner
<1>2. IInv /\ [Next]_vars => IInv'
  <2> SUFFICES ASSUME IInv, [Next]_vars, ~tangled' PROVE Untangled'
    BY NextType DEF IInv
  <2>1. CASE UNCHANGED vars
    BY <2>1 DEF vars, IInv, Untangled, Nobody, Waiting
  <2>2. CASE Next
    BY <2>2, StartStep, StopStep, BindStep, StoppedStep, SessionStep DEF Next
  <2> QED
    BY <2>1, <2>2
<1> QED
  BY <1>1, <1>2, PTL DEF Spec

-----------------------------------------------------------------------------
\* TelemetryServer._runner is the only runner that listens or serves, whatever
\* fails and whichever stop() is cancelled, while no start() is tangled.
THEOREM NothingIsLost == Spec => []NothingLost
<1>1. IInv => NothingLost
  BY DEF IInv, Untangled, NothingLost, InUse, Runners, NoRunner
<1> QED
  BY <1>1, Invariant, PTL

\* stop() closes the dispatcher behind the last session, and a start() after it
\* serves nobody, while no start() is tangled.
THEOREM OnlyServedWhileOpen == Spec => []ServedWhileOpen
<1>1. IInv => ServedWhileOpen
  BY DEF IInv, Untangled, ServedWhileOpen, Nobody
<1> QED
  BY <1>1, Invariant, PTL
=============================================================================
