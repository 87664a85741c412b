------------------------ MODULE TelemetryServerProofs ------------------------
(***************************************************************************)
(* Theorems about TelemetryServer, for every value of its constants.       *)
(***************************************************************************)
EXTENDS TelemetryServer, FiniteSetTheorems, TLAPS

\* The theorems about the dispatcher, for the dispatcher of the server.
DP == INSTANCE FeedProofs WITH Tasks <- Sessions

-----------------------------------------------------------------------------
(* The dispatcher of the server *)

\* The instance of Dispatcher in TelemetryServer and the one the theorems are
\* about have the same initial states and the same steps.
LEMMA SameInit == Disp!Init <=> DP!Init
BY DEF Disp!Init, DP!Init, Disp!Idle, DP!Idle

LEMMA SameStep == [Disp!Next]_(Disp!vars) <=> [DP!Next]_(DP!vars)
<1>1. Disp!Next <=> DP!Next
  BY Zenon DEF Disp!Next, DP!Next, Disp!ApplicationNext, DP!ApplicationNext,
     Disp!AddListener, DP!AddListener, Disp!OnTopic, DP!OnTopic,
     Disp!Registration, DP!Registration, Disp!Normalize, DP!Normalize,
     Disp!listenerVars, DP!listenerVars, Disp!streamVars, DP!streamVars,
     Disp!callVars, DP!callVars, Disp!Unsubscribe, DP!Unsubscribe,
     Disp!Full, DP!Full, Disp!PutDropOldest, DP!PutDropOldest,
     Disp!FanOut, DP!FanOut, Disp!Snapshot, DP!Snapshot,
     Disp!Matches, DP!Matches, Disp!RunListeners, DP!RunListeners,
     Disp!Idle, DP!Idle, Disp!Suspended, DP!Suspended,
     Disp!Deliver, DP!Deliver, Disp!Dispatch, DP!Dispatch,
     Disp!CancelThenDispatch, DP!CancelThenDispatch, Disp!Cancel, DP!Cancel,
     Disp!Resume, DP!Resume, Disp!Close, DP!Close, Disp!Sentinel, DP!Sentinel,
     Disp!OpenStream, DP!OpenStream, Disp!Anext, DP!Anext,
     Disp!AnextClosed, DP!AnextClosed, Disp!Park, DP!Park, Disp!Got, DP!Got,
     Disp!AnextRecord, DP!AnextRecord, Disp!AnextSentinel, DP!AnextSentinel,
     Disp!Interrupt, DP!Interrupt, Disp!Aclose, DP!Aclose,
     Disp!Abandon, DP!Abandon
<1> QED
  BY <1>1 DEF Disp!vars, DP!vars

LEMMA SameTypes == Disp!TypeOK <=> DP!TypeOK
BY DEF Disp!TypeOK, DP!TypeOK, Disp!ReaderStates, DP!ReaderStates

\* The constants of the server meet what Dispatcher assumes of its own.
LEMMA DispatcherAssumed == DP!DispatcherAssumption
<1> USE ServerAssumption, ApplicationAssumption
<1>1. Records \subseteq [vin : Vins, topic : Topics, fields : SUBSET FieldNames,
                         message : Messages]
  <2>1. ASSUME NEW v \in Vins, NEW e \in ConnectivityEvents
        PROVE  ConnectivityRecord(v, e) \in
                  [vin : Vins, topic : Topics, fields : SUBSET FieldNames,
                   message : Messages]
    BY DEF ConnectivityRecord, Topics, Messages
  <2>2. ASSUME NEW s \in Sessions, VinOf[s] # None, NEW p \in Payloads
        PROVE  FrameRecord(s, p) \in
                  [vin : Vins, topic : Topics, fields : SUBSET FieldNames,
                   message : Messages]
    BY <2>2 DEF FrameRecord, Messages
  <2> QED
    BY <2>1, <2>2 DEF Records
<1>2. MaxLog \in Nat
  BY FS_CardinalityType DEF MaxLog
<1> QED
  BY <1>1, <1>2 DEF DP!DispatcherAssumption, DP!Record, DP!Constraint,
     Disp!Constraint

-----------------------------------------------------------------------------
(* What the steps of the dispatcher do to the log and to the calls *)

\* The log grows by record, dispatched by session s.
Appends(s, record) ==
    \E audience \in SUBSET Nat :
        log' = Append(log, [by |-> s, record |-> record, audience |-> audience])

\* The call of session s is over, or goes on with record n.
CallAbout(s, n) ==
    \E c : /\ call' = [call EXCEPT ![s] = c]
           /\ c = Disp!Idle \/ c.n = n

LEMMA RunListenersShape ==
    ASSUME NEW s, NEW n, NEW todo, Disp!RunListeners(s, n, todo)
    PROVE  CallAbout(s, n)
<1>1. CASE call' = [call EXCEPT ![s] = Disp!Idle]
  BY <1>1 DEF CallAbout
<1>2. ASSUME NEW k \in todo,
             call' = [call EXCEPT ![s] = [n |-> n, at |-> k,
                                          todo |-> {j \in todo : j > k}]]
      PROVE  CallAbout(s, n)
  <2>1. [n |-> n, at |-> k, todo |-> {j \in todo : j > k}].n = n
    OBVIOUS
  <2> QED
    BY <1>2, <2>1 DEF CallAbout
<1> QED
  BY <1>1, <1>2 DEF Disp!RunListeners

LEMMA DeliverShape ==
    ASSUME Disp!TypeOK, NEW s \in Sessions, NEW record, Disp!Deliver(s, record)
    PROVE  /\ Appends(s, record)
           /\ CallAbout(s, Len(log) + 1)
           /\ closed' = closed
<1>1. Disp!Snapshot(record) \in SUBSET Nat
  BY DEF Disp!Snapshot, Disp!TypeOK
<1>2. Appends(s, record)
  BY <1>1 DEF Disp!Deliver, Appends
<1>3. Disp!RunListeners(s, Len(log) + 1, Disp!Snapshot(record))
  BY DEF Disp!Deliver
<1> QED
  BY <1>2, <1>3, RunListenersShape DEF Disp!Deliver

LEMMA DispatchShape ==
    ASSUME Disp!TypeOK, NEW s \in Sessions, NEW record, Disp!Dispatch(s, record)
    PROVE  /\ Appends(s, record)
           /\ CallAbout(s, Len(log) + 1)
           /\ closed' = closed /\ cut' = cut
BY DeliverShape DEF Disp!Dispatch

LEMMA CancelThenDispatchShape ==
    ASSUME Disp!TypeOK, NEW s \in Sessions, NEW record,
           Disp!CancelThenDispatch(s, record)
    PROVE  /\ Appends(s, record)
           /\ CallAbout(s, Len(log) + 1)
           /\ closed' = closed /\ cut \subseteq cut'
BY DeliverShape DEF Disp!CancelThenDispatch

LEMMA ResumeShape ==
    ASSUME NEW s, Disp!Resume(s)
    PROVE  /\ Disp!Suspended(s)
           /\ CallAbout(s, call[s].n)
           /\ UNCHANGED <<closed, log, cut>>
BY RunListenersShape DEF Disp!Resume, Disp!streamVars

\* A CancelledError leaves the dispatch() of s, if it is in one.
CutOff(s) == IF Disp!Suspended(s) THEN Disp!Cancel(s) ELSE UNCHANGED dispatcherVars

LEMMA CutOffShape ==
    ASSUME NEW s \in Sessions, CutOff(s), Disp!TypeOK
    PROVE  /\ UNCHANGED <<closed, log>>
           /\ cut \subseteq cut'
           /\ Disp!Suspended(s) => call[s].n \in cut'
           /\ call' = [call EXCEPT ![s] = Disp!Idle]
<1>1. CASE Disp!Suspended(s)
  BY <1>1 DEF CutOff, Disp!Cancel, Disp!streamVars
<1>2. CASE ~Disp!Suspended(s)
  <2>1. UNCHANGED dispatcherVars
    BY <1>2 DEF CutOff
  <2>2. call' = call /\ call[s] = Disp!Idle
    BY <1>2, <2>1 DEF dispatcherVars, Disp!Suspended
  <2>3. call = [call EXCEPT ![s] = call[s]]
    BY DEF Disp!TypeOK
  <2> QED
    BY <1>2, <2>1, <2>2, <2>3 DEF dispatcherVars
<1> QED
  BY <1>1, <1>2

LEMMA ApplicationShape ==
    ASSUME Disp!ApplicationNext
    PROVE  UNCHANGED <<closed, call, log, cut>>
BY DEF Disp!ApplicationNext, Disp!AddListener, Disp!OnTopic, Disp!Unsubscribe,
   Disp!OpenStream, Disp!Anext, Disp!AnextClosed, Disp!Park, Disp!Got,
   Disp!AnextRecord, Disp!AnextSentinel, Disp!Interrupt, Disp!Aclose,
   Disp!Abandon, Disp!listenerVars, Disp!streamVars, Disp!callVars

LEMMA CloseShape ==
    ASSUME Disp!Close
    PROVE  closed' /\ UNCHANGED <<call, log, cut>>
BY DEF Disp!Close, Disp!callVars

-----------------------------------------------------------------------------
(* How a session ends *)

InLoop == {"receiving", "acking", "handling"}

\* _disconnect finds s in the registry and tells the consumers.
Told(s) ==
    /\ pc[s] \in InLoop
    /\ registry[VinOf[s]] = s
    /\ registry' = [registry EXCEPT ![VinOf[s]] = None]
    /\ LET gone == ConnectivityRecord(VinOf[s], "DISCONNECTED")
       IN  Disp!Dispatch(s, gone) \/ Disp!CancelThenDispatch(s, gone)
    /\ Goto(s, "disconnecting", "ended")

\* _disconnect finds another session there, or is not reached.
Untold(s) ==
    /\ pc[s] \in InLoop => registry[VinOf[s]] # s
    /\ CutOff(s)
    /\ pc' = [pc EXCEPT ![s] = "ended"]
    /\ UNCHANGED registry

Ends(s) == PeerCloses(s) \/ HandlerCancelled(s) \/ ListenerCancelled(s)

LEMMA EndsShape ==
    ASSUME NEW s \in Sessions, Ends(s)
    PROVE  /\ Told(s) \/ Untold(s)
           /\ UNCHANGED <<lifeVars, read, latest>>
           /\ s \notin cancelled' /\ cancelled' \subseteq cancelled
           /\ cancelled \subseteq cancelled' \cup {s}
           /\ pc[s] = "receiving" \/ s \in cancelled \/ Disp!Suspended(s)
<1>1. ASSUME Disconnect(s), pc[s] \in InLoop
      PROVE  Told(s) \/ Untold(s)
  BY <1>1 DEF Disconnect, Told, Untold, CutOff
<1>2. ASSUME Unwind(s)
      PROVE  (Told(s) \/ Untold(s)) /\ UNCHANGED <<lifeVars, read, latest>>
  <2>1. CASE pc[s] \in InLoop
    BY <1>1, <1>2, <2>1 DEF Unwind, InLoop
  <2>2. CASE pc[s] \notin InLoop
    BY <1>2, <2>2 DEF Unwind, InLoop, Untold, CutOff
  <2> QED
    BY <2>1, <2>2
<1>3. CASE PeerCloses(s)
  BY <1>1, <1>3 DEF PeerCloses, InLoop
<1>4. CASE HandlerCancelled(s)
  BY <1>2, <1>4 DEF HandlerCancelled
<1>5. CASE ListenerCancelled(s)
  BY <1>2, <1>5 DEF ListenerCancelled
<1> QED
  BY <1>3, <1>4, <1>5 DEF Ends

-----------------------------------------------------------------------------
(* Types, and the implementation of Dispatcher *)

\* Only an authorised client gets beyond _handle, and cleanup() cancels the
\* handlers of active sessions.
Authorised ==
    /\ \A s \in Sessions : pc[s] \notin {"new", "refused"} => VinOf[s] # None
    /\ \A s \in cancelled : pc[s] \in Active

\* The VIN of an authorised session is a vehicle.
LEMMA AuthorisedVin ==
    ASSUME Authorised, NEW s \in Sessions, pc[s] \notin {"new", "refused"}
    PROVE  VinOf[s] \in Vins
BY ServerAssumption DEF Authorised

LEMMA ConnectivityRecordKnown ==
    ASSUME NEW v \in Vins, NEW e \in ConnectivityEvents
    PROVE  ConnectivityRecord(v, e) \in Records
BY DEF Records

LEMMA FrameRecordKnown ==
    ASSUME NEW s \in Sessions, VinOf[s] # None, NEW p \in Payloads
    PROVE  FrameRecord(s, p) \in Records
BY DEF Records

\* Where s waits after a step that dispatched: in a listener or not.
LEMMA GotoShape ==
    ASSUME TypeOK, NEW s \in Sessions, NEW n, CallAbout(s, n),
           NEW inListener \in InListener, NEW otherwise,
           otherwise \notin InListener, Goto(s, inListener, otherwise)
    PROVE  /\ \E place \in {inListener, otherwise} : pc' = [pc EXCEPT ![s] = place]
           /\ pc'[s] \in {inListener, otherwise}
           /\ call'[s].n = n \/ pc'[s] = otherwise
           /\ \A t \in Sessions \ {s} : call'[t] = call[t] /\ pc'[t] = pc[t]
           /\ \A t \in Sessions : Disp!Suspended(t)' <=> pc'[t] \in InListener
<1>1. pc \in [Sessions -> Active \cup {"new", "refused", "ended"}]
  BY DEF TypeOK
<1>2. DOMAIN call = Sessions
  BY DEF TypeOK, Disp!TypeOK
<1>3. PICK c : /\ call' = [call EXCEPT ![s] = c]
               /\ c = Disp!Idle \/ c.n = n
  BY DEF CallAbout
<1>4. call'[s] = c /\ \A t \in Sessions \ {s} : call'[t] = call[t]
  BY <1>2, <1>3
<1>5. pc' = [pc EXCEPT ![s] = IF c # Disp!Idle THEN inListener ELSE otherwise]
  BY <1>4 DEF Goto
<1>6. pc'[s] = IF c # Disp!Idle THEN inListener ELSE otherwise
  BY <1>1, <1>5
<1>7. \A t \in Sessions \ {s} : pc'[t] = pc[t]
  BY <1>1, <1>5
<1>8. \A t \in Sessions : Disp!Suspended(t)' <=> pc'[t] \in InListener
  BY <1>4, <1>6, <1>7 DEF Disp!Suspended, TypeOK, Disp!Idle
<1> QED
  BY <1>3, <1>4, <1>5, <1>6, <1>7, <1>8

\* Moving s to a place that an authorised, active session may be in.
LEMMA GotoAuthorised ==
    ASSUME Authorised, NEW s \in Sessions, pc[s] \notin {"new", "refused"},
           DOMAIN pc = Sessions,
           NEW place, pc' = [pc EXCEPT ![s] = place],
           cancelled' \subseteq cancelled,
           s \notin cancelled' \/ place \in Active
    PROVE  Authorised'
BY DEF Authorised

LEMMA AuthorisedStep == TypeOK /\ Authorised /\ [Next]_vars => Authorised'
<1> SUFFICES ASSUME TypeOK, Authorised, [Next]_vars PROVE Authorised'
  OBVIOUS
<1>0. pc \in [Sessions -> Active \cup {"new", "refused", "ended"}]
  BY DEF TypeOK
<1>1. DOMAIN pc = Sessions
  BY <1>0
<1>2. ASSUME NEW s \in Sessions, Request(s) PROVE Authorised'
  BY <1>0, <1>2 DEF Request, Authorised, Active, InSession
<1>3. ASSUME NEW s \in Sessions, PrepareFails(s) PROVE Authorised'
  BY <1>0, <1>3 DEF PrepareFails, Authorised
<1>4. ASSUME NEW s \in Sessions, NEW n, CallAbout(s, n),
             NEW inListener \in InListener, NEW otherwise,
             otherwise \notin InListener, Goto(s, inListener, otherwise),
             pc[s] \notin {"new", "refused"}, s \notin cancelled',
             cancelled' \subseteq cancelled
      PROVE  Authorised'
  <2>1. PICK place \in {inListener, otherwise} : pc' = [pc EXCEPT ![s] = place]
    BY <1>4, GotoShape
  <2> QED
    BY <1>1, <1>4, <2>1, GotoAuthorised
<1>5. ASSUME NEW s \in Sessions, Connect(s) PROVE Authorised'
  BY <1>4, <1>5, DispatchShape DEF Connect, InListener, TypeOK
<1>6. ASSUME NEW s \in Sessions, ListenerDone(s) PROVE Authorised'
  <2>1. Disp!Suspended(s) /\ CallAbout(s, call[s].n)
    BY <1>6, ResumeShape DEF ListenerDone
  <2>2. pc[s] \in InListener
    BY <2>1 DEF TypeOK
  <2> QED
    BY <1>4, <1>6, <2>1, <2>2 DEF ListenerDone, InListener
<1>7. ASSUME NEW s \in Sessions,
             ReadUnusable(s) \/ ReadFrame(s) \/ GiveUp(s)
      PROVE  Authorised'
  <2>1. CASE ReadUnusable(s)
    BY <2>1 DEF ReadUnusable, Authorised
  <2>2. CASE ReadFrame(s)
    BY <1>1, <2>2, GotoAuthorised DEF ReadFrame, Read
  <2>3. CASE GiveUp(s)
    BY <1>1, <2>3, GotoAuthorised DEF GiveUp
  <2> QED
    BY <1>7, <2>1, <2>2, <2>3
<1>8. ASSUME NEW s \in Sessions, NEW payload \in Payloads,
             AckThenDispatch(s, payload)
      PROVE  Authorised'
  BY <1>4, <1>8, DispatchShape DEF AckThenDispatch, InListener, TypeOK
<1>9. ASSUME NEW s \in Sessions, Ends(s) PROVE Authorised'
  <2>1. /\ s \notin cancelled' /\ cancelled' \subseteq cancelled
        /\ Told(s) \/ Untold(s)
        /\ pc[s] = "receiving" \/ s \in cancelled \/ Disp!Suspended(s)
    BY <1>9, EndsShape
  <2>2. pc[s] \notin {"new", "refused"}
    BY <2>1 DEF Authorised, TypeOK, Active, InSession, InListener
  <2>3. CASE Told(s)
    <3>1. CallAbout(s, Len(log) + 1)
      BY <2>3, DispatchShape, CancelThenDispatchShape DEF Told, TypeOK
    <3> QED
      BY <1>4, <2>1, <2>2, <2>3, <3>1 DEF Told, InListener
  <2>4. CASE Untold(s)
    <3>1. pc' = [pc EXCEPT ![s] = "ended"]
      BY <2>4 DEF Untold
    <3> QED
      BY <1>1, <2>1, <2>2, <3>1, GotoAuthorised
  <2> QED
    BY <2>1, <2>3, <2>4
<1>10. ASSUME ShutdownTimeout PROVE Authorised'
  BY <1>10 DEF ShutdownTimeout, ActiveSessions, Authorised
<1>11. ASSUME UNCHANGED <<pc, cancelled>> PROVE Authorised'
  BY <1>11 DEF Authorised
<1>12. ASSUME Start \/ Stop \/ FinishStop \/ Application \/ UNCHANGED vars
       PROVE  Authorised'
  BY <1>11, <1>12 DEF Start, Stop, FinishStop, Application, vars, sessionVars
<1> QED
  BY <1>2, <1>3, <1>5, <1>6, <1>7, <1>8, <1>9, <1>10, <1>12
  DEF Next, Lifecycle, HandlerNext, Ends

\* Every step of the server is a step of its dispatcher, or none.
LEMMA DispatcherStep ==
    TypeOK /\ Authorised /\ [Next]_vars => [Disp!Next]_(Disp!vars)
<1> SUFFICES ASSUME TypeOK, Authorised, [Next]_vars
             PROVE  [Disp!Next]_(Disp!vars)
  OBVIOUS
<1>1. ASSUME UNCHANGED dispatcherVars PROVE UNCHANGED Disp!vars
  BY <1>1 DEF dispatcherVars, Disp!vars
<1>2. ASSUME NEW s \in Sessions, NEW record \in Records,
             Disp!Dispatch(s, record) \/ Disp!CancelThenDispatch(s, record)
      PROVE  Disp!Next
  BY <1>2 DEF Disp!Next
<1>3. ASSUME NEW s \in Sessions, pc[s] \notin {"new", "refused"},
             NEW e \in ConnectivityEvents
      PROVE  ConnectivityRecord(VinOf[s], e) \in Records
  BY <1>3, AuthorisedVin, ConnectivityRecordKnown
<1>4. ASSUME NEW s \in Sessions, Connect(s) PROVE Disp!Next
  BY <1>2, <1>3, <1>4 DEF Connect, ConnectivityEvents
<1>5. ASSUME NEW s \in Sessions, ListenerDone(s) PROVE Disp!Next
  BY <1>5 DEF ListenerDone, Disp!Next
<1>6. ASSUME NEW s \in Sessions, NEW payload \in Payloads,
             AckThenDispatch(s, payload)
      PROVE  Disp!Next
  <2>1. FrameRecord(s, payload) \in Records
    BY <1>6, FrameRecordKnown DEF AckThenDispatch, Authorised
  <2> QED
    BY <1>2, <1>6, <2>1 DEF AckThenDispatch
<1>7. ASSUME NEW s \in Sessions, Ends(s)
      PROVE  Disp!Next \/ UNCHANGED dispatcherVars
  <2>1. Told(s) \/ Untold(s)
    BY <1>7, EndsShape
  <2>2. CASE Told(s)
    BY <1>2, <1>3, <2>2 DEF Told, InLoop, ConnectivityEvents
  <2>3. CASE Untold(s)
    BY <2>3 DEF Untold, CutOff, Disp!Next
  <2> QED
    BY <2>1, <2>2, <2>3
<1>8. ASSUME NEW s \in Sessions,
             \/ Request(s) \/ PrepareFails(s) \/ ReadUnusable(s) \/ ReadFrame(s)
             \/ GiveUp(s)
      PROVE  UNCHANGED dispatcherVars
  BY <1>8 DEF Request, PrepareFails, ReadUnusable, ReadFrame, Read, GiveUp
<1>9. ASSUME Lifecycle PROVE Disp!Next \/ UNCHANGED dispatcherVars
  BY <1>9 DEF Lifecycle, Start, Stop, ShutdownTimeout, FinishStop, Disp!Next
<1>10. ASSUME Application PROVE Disp!Next
  BY <1>10 DEF Application, Disp!Next
<1>11. ASSUME UNCHANGED vars PROVE UNCHANGED dispatcherVars
  BY <1>11 DEF vars
<1> QED
  BY <1>1, <1>4, <1>5, <1>6, <1>7, <1>8, <1>9, <1>10, <1>11
  DEF Next, HandlerNext, Ends

\* The types that the server itself adds to those of its dispatcher.
ServerTypes ==
    /\ life \in {"new", "serving", "draining", "cancelling", "stopped"}
    /\ serverClosed \in BOOLEAN
    /\ runner \in BOOLEAN
    /\ registry \in [Vins -> Sessions \cup {None}]
    /\ pc \in [Sessions -> Active \cup {"new", "refused", "ended"}]
    /\ cancelled \subseteq Sessions
    /\ latest \in [Vins -> Sessions \cup {None}]

Counts == read \in [Sessions -> Nat]

\* A task is inside dispatch() exactly when its handler waits there.
WaitsInListener == \A s \in Sessions : Disp!Suspended(s) <=> pc[s] \in InListener

LEMMA TypeParts ==
    TypeOK <=> ServerTypes /\ Counts /\ Disp!TypeOK /\ WaitsInListener
BY DEF TypeOK, ServerTypes, Counts, WaitsInListener

LEMMA CountsStep == TypeOK /\ [Next]_vars => Counts'
<1> SUFFICES ASSUME TypeOK, [Next]_vars PROVE Counts'
  OBVIOUS
<1>1. Counts
  BY TypeParts
<1>2. ASSUME UNCHANGED read PROVE Counts'
  BY <1>1, <1>2 DEF Counts
<1>3. ASSUME NEW s \in Sessions, ReadUnusable(s) \/ ReadFrame(s) PROVE Counts'
  BY <1>1, <1>3 DEF ReadUnusable, ReadFrame, Read, Counts
<1>4. ASSUME NEW s \in Sessions, Ends(s) PROVE UNCHANGED read
  BY <1>4, EndsShape
<1>5. ASSUME NEW s \in Sessions,
             \/ Request(s) \/ PrepareFails(s) \/ Connect(s) \/ ListenerDone(s)
             \/ GiveUp(s) \/ \E payload \in Payloads : AckThenDispatch(s, payload)
      PROVE  UNCHANGED read
  BY <1>5 DEF Request, PrepareFails, Connect, ListenerDone, GiveUp, AckThenDispatch
<1>6. ASSUME Lifecycle \/ Application \/ UNCHANGED vars
      PROVE  UNCHANGED read
  BY <1>6 DEF Lifecycle, Start, Stop, ShutdownTimeout, FinishStop, Application,
     vars, sessionVars
<1> QED
  BY <1>2, <1>3, <1>4, <1>5, <1>6 DEF Next, HandlerNext, Ends

\* A session that moves on, into a listener or not.
LEMMA GotoTypes ==
    ASSUME TypeOK, NEW s \in Sessions, NEW n, CallAbout(s, n),
           NEW inListener \in InListener, NEW otherwise,
           otherwise \in {"receiving", "ended"}, Goto(s, inListener, otherwise)
    PROVE  /\ pc' \in [Sessions -> Active \cup {"new", "refused", "ended"}]
           /\ WaitsInListener'
<1>1. otherwise \notin InListener
  BY DEF InListener
<1>2. PICK place \in {inListener, otherwise} : pc' = [pc EXCEPT ![s] = place]
  BY <1>1, GotoShape
<1>3. \A t \in Sessions : Disp!Suspended(t)' <=> pc'[t] \in InListener
  BY <1>1, GotoShape
<1>4. place \in Active \cup {"new", "refused", "ended"}
  BY DEF Active, InSession, InListener
<1> QED
  BY <1>2, <1>3, <1>4 DEF TypeOK, WaitsInListener

LEMMA ServerTypesStep ==
    TypeOK /\ Authorised /\ [Next]_vars => ServerTypes' /\ WaitsInListener'
<1> SUFFICES ASSUME TypeOK, Authorised, [Next]_vars
             PROVE  ServerTypes' /\ WaitsInListener'
  OBVIOUS
<1>0. ServerTypes /\ WaitsInListener /\ Disp!TypeOK
  BY TypeParts
<1>1. ASSUME NEW s \in Sessions, UNCHANGED <<lifeVars, cancelled, latest, call>>,
             UNCHANGED registry, pc[s] \notin InListener,
             NEW place \in Active \cup {"new", "refused", "ended"},
             place \notin InListener, pc' = [pc EXCEPT ![s] = place]
      PROVE  ServerTypes' /\ WaitsInListener'
  BY <1>0, <1>1 DEF ServerTypes, WaitsInListener, lifeVars, Disp!Suspended, Disp!Idle
<1>2. ASSUME NEW s \in Sessions, Request(s)
      PROVE  ServerTypes' /\ WaitsInListener'
  <2>1. PICK place \in {"refused", "preparing"} : pc' = [pc EXCEPT ![s] = place]
    BY <1>2 DEF Request
  <2> QED
    BY <1>1, <1>2, <2>1 DEF Request, dispatcherVars, Active, InListener
<1>3. ASSUME NEW s \in Sessions,
             PrepareFails(s) \/ ReadFrame(s) \/ GiveUp(s)
      PROVE  ServerTypes' /\ WaitsInListener'
  <2>1. CASE PrepareFails(s)
    BY <1>1, <2>1 DEF PrepareFails, dispatcherVars, Active, InListener
  <2>2. CASE ReadFrame(s)
    BY <1>1, <2>2 DEF ReadFrame, Read, dispatcherVars, Active, InSession, InListener
  <2>3. CASE GiveUp(s)
    BY <1>1, <2>3 DEF GiveUp, dispatcherVars, Active, InSession,
       InListener
  <2> QED
    BY <1>3, <2>1, <2>2, <2>3
<1>4. ASSUME NEW s \in Sessions, Connect(s)
      PROVE  ServerTypes' /\ WaitsInListener'
  <2>1. CallAbout(s, Len(log) + 1)
    BY <1>0, <1>4, DispatchShape DEF Connect
  <2>2. /\ pc' \in [Sessions -> Active \cup {"new", "refused", "ended"}]
        /\ WaitsInListener'
    BY <1>4, <2>1, GotoTypes DEF Connect, InListener
  <2> QED
    BY <1>0, <1>4, <2>2 DEF Connect, ServerTypes, lifeVars
<1>5. ASSUME NEW s \in Sessions, ListenerDone(s)
      PROVE  ServerTypes' /\ WaitsInListener'
  <2>1. Disp!Suspended(s) /\ CallAbout(s, call[s].n)
    BY <1>5, ResumeShape DEF ListenerDone
  <2>2. pc[s] \in InListener
    BY <2>1 DEF TypeOK
  <2>3. /\ pc' \in [Sessions -> Active \cup {"new", "refused", "ended"}]
        /\ WaitsInListener'
    BY <1>5, <2>1, <2>2, GotoTypes DEF ListenerDone
  <2> QED
    BY <1>0, <1>5, <2>3 DEF ListenerDone, ServerTypes, lifeVars
<1>6. ASSUME NEW s \in Sessions, NEW payload \in Payloads,
             AckThenDispatch(s, payload)
      PROVE  ServerTypes' /\ WaitsInListener'
  <2>1. CallAbout(s, Len(log) + 1)
    BY <1>0, <1>6, DispatchShape DEF AckThenDispatch
  <2>2. /\ pc' \in [Sessions -> Active \cup {"new", "refused", "ended"}]
        /\ WaitsInListener'
    BY <1>6, <2>1, GotoTypes DEF AckThenDispatch, InListener
  <2> QED
    BY <1>0, <1>6, <2>2 DEF AckThenDispatch, ServerTypes, lifeVars
<1>7. ASSUME NEW s \in Sessions, Ends(s)
      PROVE  ServerTypes' /\ WaitsInListener'
  <2>1. /\ cancelled' \subseteq cancelled
        /\ Told(s) \/ Untold(s)
        /\ UNCHANGED <<lifeVars, latest>>
    BY <1>7, EndsShape
  <2>2. CASE Told(s)
    <3>1. CallAbout(s, Len(log) + 1)
      BY <1>0, <2>2, DispatchShape, CancelThenDispatchShape DEF Told
    <3>2. /\ pc' \in [Sessions -> Active \cup {"new", "refused", "ended"}]
          /\ WaitsInListener'
      BY <2>2, <3>1, GotoTypes DEF Told, InListener
    <3> QED
      BY <1>0, <2>1, <2>2, <3>2 DEF Told, ServerTypes, lifeVars
  <2>3. CASE Untold(s)
    <3>1. /\ call' = [call EXCEPT ![s] = Disp!Idle]
          /\ pc' = [pc EXCEPT ![s] = "ended"] /\ UNCHANGED registry
      BY <1>0, <2>3, CutOffShape DEF Untold
    <3>2. DOMAIN call = Sessions
      BY <1>0 DEF Disp!TypeOK
    <3>3. WaitsInListener'
      BY <1>0, <3>1, <3>2 DEF WaitsInListener, Disp!Suspended, ServerTypes,
         InListener, Disp!Idle
    <3> QED
      BY <1>0, <2>1, <3>1, <3>3 DEF ServerTypes, lifeVars
  <2> QED
    BY <2>1, <2>2, <2>3
<1>8. ASSUME UNCHANGED <<registry, pc, latest, call>>, cancelled' \subseteq Sessions,
             life' \in {"new", "serving", "draining", "cancelling", "stopped"},
             serverClosed' \in BOOLEAN, runner' \in BOOLEAN
      PROVE  ServerTypes' /\ WaitsInListener'
  BY <1>0, <1>8 DEF ServerTypes, WaitsInListener, Disp!Suspended, Disp!Idle
<1>9. ASSUME Lifecycle PROVE ServerTypes' /\ WaitsInListener'
  <2>1. UNCHANGED dispatcherVars \/ Disp!Close
    BY <1>9 DEF Lifecycle, Start, Stop, ShutdownTimeout, FinishStop
  <2>2. UNCHANGED call
    BY <2>1, CloseShape DEF dispatcherVars
  <2>3. UNCHANGED <<registry, pc, latest>> /\ cancelled' \subseteq Sessions
    BY <1>0, <1>9 DEF Lifecycle, Start, Stop, ShutdownTimeout, FinishStop,
       sessionVars, ActiveSessions, ServerTypes
  <2>4. /\ life' \in {"new", "serving", "draining", "cancelling", "stopped"}
        /\ serverClosed' \in BOOLEAN /\ runner' \in BOOLEAN
    BY <1>0, <1>9 DEF Lifecycle, Start, Stop, ShutdownTimeout, FinishStop, ServerTypes
  <2> QED
    BY <1>8, <2>2, <2>3, <2>4
<1>10. ASSUME Application PROVE ServerTypes' /\ WaitsInListener'
  BY <1>0, <1>8, <1>10, ApplicationShape
  DEF Application, lifeVars, sessionVars, ServerTypes
<1>11. ASSUME NEW s \in Sessions, ReadUnusable(s)
       PROVE  ServerTypes' /\ WaitsInListener'
  BY <1>0, <1>8, <1>11 DEF ReadUnusable, lifeVars, dispatcherVars, ServerTypes
<1>12. ASSUME UNCHANGED vars PROVE ServerTypes' /\ WaitsInListener'
  BY <1>0, <1>8, <1>12 DEF vars, lifeVars, sessionVars, dispatcherVars, ServerTypes
<1> QED
  BY <1>2, <1>3, <1>4, <1>5, <1>6, <1>7, <1>9, <1>10, <1>11, <1>12
  DEF Next, HandlerNext, Ends

LEMMA DispatcherTypesStep == Disp!TypeOK /\ [Disp!Next]_(Disp!vars) => Disp!TypeOK'
<1>1. DP!TypeOK /\ [DP!Next]_(DP!vars) => DP!TypeOK'
  BY DispatcherAssumed, DP!NextType
<1> QED
  BY <1>1, SameStep, SameTypes, PTL

LEMMA TypeInit == Init => TypeOK /\ Authorised
<1> SUFFICES ASSUME Init PROVE TypeOK /\ Authorised
  OBVIOUS
<1>1. Disp!TypeOK
  BY DispatcherAssumed, SameInit, SameTypes, DP!InitType DEF Init
<1>2. ServerTypes /\ Counts /\ Authorised
  BY DEF Init, ServerTypes, Counts, Authorised
<1>3. WaitsInListener
  BY DEF Init, Disp!Init, WaitsInListener, Disp!Suspended, InListener
<1> QED
  BY <1>1, <1>2, <1>3, TypeParts

LEMMA TypeStep ==
    TypeOK /\ Authorised /\ [Next]_vars => TypeOK' /\ Authorised'
<1>1. TypeOK => Disp!TypeOK
  BY TypeParts
<1> QED
  BY <1>1, TypeParts, CountsStep, ServerTypesStep, AuthorisedStep, DispatcherStep,
     DispatcherTypesStep, PTL

LEMMA Typed == Spec => [](TypeOK /\ Authorised)
BY TypeInit, TypeStep, PTL DEF Spec

\* Every variable keeps its type, and a session is inside dispatch() exactly
\* where its handler can be waiting for a listener.
THEOREM ServerTypeCorrect == Spec => []TypeOK
BY Typed, PTL

\* The sessions, start() and stop() use the dispatcher only as Dispatcher lets
\* its tasks: TelemetryServer implements Dispatcher, step by step.
THEOREM ServerImplementsDispatcher == Spec => DispatcherKept
<1>1. Init => Disp!Init
  BY DEF Init
<1> QED
  BY <1>1, Typed, DispatcherStep, PTL DEF Spec, DispatcherKept, Disp!Spec

LEMMA SamePromises ==
    /\ Disp!BacklogIsNewest <=> DP!BacklogIsNewest
    /\ Disp!EndOfStream <=> DP!EndOfStream
    /\ Disp!DeliveryAccounting <=> DP!DeliveryAccounting
    /\ Disp!ListenersInOrder <=> DP!ListenersInOrder
<1> USE DEF Disp!HasSentinel, DP!HasSentinel, Disp!Sentinel, DP!Sentinel
<1>1. Disp!BacklogIsNewest <=> DP!BacklogIsNewest
  BY Zenon DEF Disp!BacklogIsNewest, DP!BacklogIsNewest, Disp!HoldsNewest,
     DP!HoldsNewest, Disp!RecordsQueued, DP!RecordsQueued, Disp!Room, DP!Room
<1>2. Disp!EndOfStream <=> DP!EndOfStream
  BY Zenon DEF Disp!EndOfStream, DP!EndOfStream
<1>3. Disp!DeliveryAccounting <=> DP!DeliveryAccounting
  BY Zenon DEF Disp!DeliveryAccounting, DP!DeliveryAccounting
<1>4. Disp!ListenersInOrder <=> DP!ListenersInOrder
  BY Zenon DEF Disp!ListenersInOrder, DP!ListenersInOrder
<1> QED
  BY <1>1, <1>2, <1>3, <1>4

LEMMA SameFeed == Disp!FeedImplemented <=> DP!FeedImplemented
<1> USE DEF Disp!Phase, DP!Phase, Disp!Sealed, DP!Sealed,
            Disp!HasSentinel, DP!HasSentinel, Disp!Sentinel, DP!Sentinel,
            Disp!Feed!Backlog, DP!Feed!Backlog
<1>1. Disp!Feed!Init <=> DP!Feed!Init
  BY Zenon DEF Disp!Feed!Init, DP!Feed!Init
<1>2. Disp!Feed!Next <=> DP!Feed!Next
  BY Zenon DEF Disp!Feed!Next, DP!Feed!Next, Disp!Feed!Publish, DP!Feed!Publish,
     Disp!Feed!Close, DP!Feed!Close, Disp!Feed!Open, DP!Feed!Open,
     Disp!Feed!Receive, DP!Feed!Receive, Disp!Feed!Leave, DP!Feed!Leave,
     Disp!Feed!End, DP!Feed!End
<1>3. [Disp!Feed!Next]_(Disp!Feed!vars) <=> [DP!Feed!Next]_(DP!Feed!vars)
  BY <1>2 DEF Disp!Feed!vars, DP!Feed!vars
<1> QED
  BY <1>1, <1>3, PTL DEF Disp!FeedImplemented, DP!FeedImplemented,
     Disp!Feed!Spec, DP!Feed!Spec

\* What Dispatcher promises its consumers, the server promises too: drop-oldest
\* is exact, close() ends every stream behind its records, and every listener
\* that matched a record is called with it once, in order.
THEOREM ServerKeepsPromises ==
    Spec => [](/\ Disp!BacklogIsNewest
               /\ Disp!EndOfStream
               /\ Disp!DeliveryAccounting
               /\ Disp!ListenersInOrder)
<1>1. Spec => DP!Spec
  BY ServerImplementsDispatcher, SameInit, SameStep, PTL
  DEF DispatcherKept, Disp!Spec, DP!Spec
<1>2. DP!Spec => [](/\ DP!BacklogIsNewest /\ DP!EndOfStream
                    /\ DP!DeliveryAccounting /\ DP!ListenersInOrder)
  BY DispatcherAssumed, DP!BacklogExact, DP!EndOfStreamCorrect,
     DP!DeliveryAccounted, DP!ListenersOrdered, PTL
<1> QED
  BY <1>1, <1>2, SamePromises, PTL

\* The iterators of the server are a RecordFeed.
THEOREM ServerFeeds == Spec => Disp!FeedImplemented
<1>1. Spec => DP!Spec
  BY ServerImplementsDispatcher, SameInit, SameStep, PTL
  DEF DispatcherKept, Disp!Spec, DP!Spec
<1>2. DP!Spec => DP!FeedImplemented
  BY DispatcherAssumed, DP!FeedIsImplemented
<1> QED
  BY <1>1, <1>2, SameFeed, PTL

-----------------------------------------------------------------------------
(* start() and stop() *)

\* How far stop() is bounds what the sessions may be doing.
Shutdown ==
    /\ closed <=> life = "stopped"
    /\ serverClosed <=> life \in {"draining", "cancelling", "stopped"}
    /\ life = "serving" => runner
    /\ life = "new" => \A s \in Sessions : pc[s] = "new"
    /\ life # "cancelling" => cancelled = {}
    /\ life = "cancelling" =>
          \A s \in Sessions : pc[s] \in Active => s \in cancelled \/ pc[s] = "disconnecting"
    /\ life = "stopped" =>
          \A s \in Sessions : pc[s] \in {"new", "refused", "disconnecting", "ended"}

\* A session that is not stopped yet moves on.
LEMMA MoveShutdown ==
    ASSUME TypeOK, Shutdown, NEW s \in Sessions, UNCHANGED <<lifeVars, closed>>,
           NEW place, pc' = [pc EXCEPT ![s] = place],
           life # "new", cancelled' \subseteq cancelled,
           cancelled \subseteq cancelled' \cup {s},
           \/ place \in {"refused", "disconnecting", "ended"}
           \/ pc[s] \in Active \ {"disconnecting"} /\ s \notin cancelled
           \/ serverClosed = FALSE
    PROVE  Shutdown'
<1>1. life \in {"new", "serving", "draining", "cancelling", "stopped"}
  BY DEF TypeOK
<1>2. DOMAIN pc = Sessions
  BY DEF TypeOK
<1>3. CASE life \in {"serving", "draining"}
  BY <1>2, <1>3 DEF Shutdown, lifeVars
<1>4. CASE life = "cancelling"
  <2>1. cancelled' = cancelled \/ (s \in cancelled /\ cancelled' = cancelled \ {s})
    OBVIOUS
  <2>2. place \in {"refused", "disconnecting", "ended"}
    BY <1>4 DEF Shutdown
  <2>3. \A t \in Sessions : pc'[t] \in Active =>
                               t \in cancelled' \/ pc'[t] = "disconnecting"
    BY <1>2, <1>4, <2>2 DEF Shutdown, Active, InSession
  <2> QED
    BY <1>4, <2>3 DEF Shutdown, lifeVars
<1>5. CASE life = "stopped"
  <2>1. place \in {"refused", "disconnecting", "ended"}
    BY <1>5 DEF Shutdown, Active, InSession
  <2>2. \A t \in Sessions : pc'[t] \in {"new", "refused", "disconnecting", "ended"}
    BY <1>2, <1>5, <2>1 DEF Shutdown
  <2> QED
    BY <1>5, <2>2 DEF Shutdown, lifeVars
<1> QED
  BY <1>1, <1>3, <1>4, <1>5

LEMMA ShutdownStep ==
    TypeOK /\ Authorised /\ Shutdown /\ [Next]_vars => Shutdown'
<1> SUFFICES ASSUME TypeOK, Authorised, Shutdown, [Next]_vars PROVE Shutdown'
  OBVIOUS
<1>0. Disp!TypeOK
  BY TypeParts
<1>1. \A s \in Sessions : pc[s] # "new" => life # "new"
  BY DEF Shutdown
<1>2. ASSUME NEW s \in Sessions, Request(s) PROVE Shutdown'
  <2>1. PICK place \in {"refused", "preparing"} :
           /\ pc' = [pc EXCEPT ![s] = place]
           /\ place = "refused" \/ serverClosed = FALSE
    BY <1>2 DEF Request, TypeOK
  <2> QED
    BY <1>2, <2>1, MoveShutdown DEF Request, dispatcherVars
<1>3. ASSUME NEW s \in Sessions,
             \/ PrepareFails(s) \/ ReadFrame(s) \/ GiveUp(s)
      PROVE  Shutdown'
  <2>1. pc[s] \in Active \ {"disconnecting"} /\ s \notin cancelled /\ life # "new"
    BY <1>1, <1>3 DEF PrepareFails, ReadFrame, Read, GiveUp, Active,
       InSession
  <2>2. UNCHANGED <<lifeVars, closed, cancelled>>
    BY <1>3 DEF PrepareFails, ReadFrame, Read, GiveUp, dispatcherVars
  <2>3. PICK place : pc' = [pc EXCEPT ![s] = place]
    BY <1>3 DEF PrepareFails, ReadFrame, Read, GiveUp
  <2> QED
    BY <2>1, <2>2, <2>3, MoveShutdown
<1>4. ASSUME NEW s \in Sessions, NEW n, CallAbout(s, n),
             NEW inListener \in InListener, NEW otherwise,
             otherwise \notin InListener, Goto(s, inListener, otherwise),
             pc[s] # "new", cancelled' \subseteq cancelled,
             cancelled \subseteq cancelled' \cup {s}, UNCHANGED <<lifeVars, closed>>,
             \/ inListener = "disconnecting" /\ otherwise = "ended"
             \/ pc[s] \in Active \ {"disconnecting"} /\ s \notin cancelled
      PROVE  Shutdown'
  <2>1. PICK place \in {inListener, otherwise} : pc' = [pc EXCEPT ![s] = place]
    BY <1>4, GotoShape
  <2> QED
    BY <1>1, <1>4, <2>1, MoveShutdown
<1>5. ASSUME NEW s \in Sessions, Connect(s) PROVE Shutdown'
  <2>1. CallAbout(s, Len(log) + 1) /\ closed' = closed
    BY <1>0, <1>5, DispatchShape DEF Connect
  <2> QED
    BY <1>4, <1>5, <2>1 DEF Connect, InListener, Active
<1>6. ASSUME NEW s \in Sessions, ListenerDone(s) PROVE Shutdown'
  <2>1. /\ Disp!Suspended(s) /\ CallAbout(s, call[s].n)
        /\ closed' = closed
    BY <1>6, ResumeShape DEF ListenerDone
  <2>2. pc[s] \in InListener
    BY <2>1 DEF TypeOK
  <2>3. CASE pc[s] = "disconnecting"
    BY <1>4, <1>6, <2>1, <2>3 DEF ListenerDone, InListener
  <2>4. CASE pc[s] # "disconnecting"
    BY <1>4, <1>6, <2>1, <2>2, <2>4 DEF ListenerDone, InListener, Active, InSession
  <2> QED
    BY <2>3, <2>4
<1>7. ASSUME NEW s \in Sessions, NEW payload \in Payloads,
             AckThenDispatch(s, payload)
      PROVE  Shutdown'
  <2>1. CallAbout(s, Len(log) + 1) /\ closed' = closed
    BY <1>0, <1>7, DispatchShape DEF AckThenDispatch
  <2> QED
    BY <1>4, <1>7, <2>1 DEF AckThenDispatch, InListener, Active, InSession
<1>8. ASSUME NEW s \in Sessions, Ends(s) PROVE Shutdown'
  <2>1. /\ cancelled' \subseteq cancelled /\ cancelled \subseteq cancelled' \cup {s}
        /\ Told(s) \/ Untold(s)
        /\ UNCHANGED lifeVars
        /\ pc[s] = "receiving" \/ s \in cancelled \/ Disp!Suspended(s)
    BY <1>8, EndsShape
  <2>2. pc[s] # "new"
    BY <2>1 DEF Authorised, TypeOK, Active, InSession, InListener
  <2>3. CASE Told(s)
    <3>1. CallAbout(s, Len(log) + 1) /\ closed' = closed
      BY <1>0, <2>3, DispatchShape, CancelThenDispatchShape DEF Told
    <3> QED
      BY <1>4, <2>1, <2>2, <2>3, <3>1 DEF Told, InListener
  <2>4. CASE Untold(s)
    <3>1. pc' = [pc EXCEPT ![s] = "ended"] /\ closed' = closed
      BY <1>0, <2>4, CutOffShape DEF Untold
    <3> QED
      BY <1>1, <2>1, <2>2, <3>1, MoveShutdown
  <2> QED
    BY <2>1, <2>3, <2>4
<1>9. ASSUME UNCHANGED <<lifeVars, closed, pc, cancelled>> PROVE Shutdown'
  BY <1>9 DEF Shutdown, lifeVars
<1>10. ASSUME NEW s \in Sessions, ReadUnusable(s) PROVE Shutdown'
  BY <1>9, <1>10 DEF ReadUnusable, dispatcherVars
<1>11. ASSUME Application PROVE Shutdown'
  BY <1>9, <1>11, ApplicationShape DEF Application, sessionVars
<1>12. ASSUME UNCHANGED vars PROVE Shutdown'
  BY <1>9, <1>12 DEF vars, sessionVars, dispatcherVars
<1>13. ASSUME Start PROVE Shutdown'
  BY <1>13 DEF Start, Shutdown, sessionVars, dispatcherVars
<1>14. ASSUME Stop PROVE Shutdown'
  <2>1. CASE runner
    BY <1>14, <2>1 DEF Stop, Shutdown, sessionVars, dispatcherVars
  <2>2. CASE ~runner
    BY <1>14, <2>2, CloseShape DEF Stop, Shutdown, sessionVars
  <2> QED
    BY <2>1, <2>2
<1>15. ASSUME ShutdownTimeout PROVE Shutdown'
  BY <1>15 DEF ShutdownTimeout, Shutdown, ActiveSessions, dispatcherVars
<1>16. ASSUME FinishStop PROVE Shutdown'
  <2>1. \A s \in Sessions : pc[s] \in {"new", "refused", "disconnecting", "ended"}
    BY <1>16 DEF FinishStop, ActiveSessions, Shutdown, TypeOK, Active
  <2>2. closed' /\ cancelled = {} /\ life \in {"draining", "cancelling"}
    BY <1>16, CloseShape DEF FinishStop, Shutdown
  <2> QED
    BY <1>16, <2>1, <2>2 DEF FinishStop, Shutdown, sessionVars
<1> QED
  BY <1>2, <1>3, <1>5, <1>6, <1>7, <1>8, <1>10, <1>11, <1>12, <1>13, <1>14, <1>15,
     <1>16
  DEF Next, Lifecycle, HandlerNext, Ends

LEMMA ShutdownInit == Init => Shutdown
BY DEF Init, Disp!Init, Shutdown

LEMMA ShutdownHolds == Spec => []Shutdown
BY Typed, ShutdownInit, ShutdownStep, PTL DEF Spec

\* When stop() has returned, no session reads or dispatches frames any more,
\* and none can begin.
THEOREM StopLeavesQuiet == Spec => []StoppedIsQuiet
<1>1. Shutdown => StoppedIsQuiet
  BY DEF Shutdown, StoppedIsQuiet
<1> QED
  BY <1>1, ShutdownHolds, PTL

\* No step dispatches a record after the dispatcher is closed: whoever still
\* dispatches is a session that stop() has waited for.
THEOREM OpenWhileDispatching == Spec => DispatchedWhileOpen
<1>1. TypeOK /\ Authorised /\ Shutdown /\ [Next]_vars => [log' # log => ~closed]_vars
  <2> SUFFICES ASSUME TypeOK, Authorised, Shutdown, Next, closed
               PROVE  UNCHANGED log
    BY DEF vars, dispatcherVars
  <2>0. Disp!TypeOK
    BY TypeParts
  <2>1. \A s \in Sessions : pc[s] \in {"new", "refused", "disconnecting", "ended"}
    BY DEF Shutdown
  <2>2. ASSUME NEW s \in Sessions, Ends(s) PROVE UNCHANGED log
    <3>1. Told(s) \/ Untold(s)
      BY <2>2, EndsShape
    <3> QED
      BY <2>0, <2>1, <3>1, CutOffShape DEF Told, Untold, InLoop
  <2>3. ASSUME NEW s \in Sessions, ListenerDone(s) PROVE UNCHANGED log
    BY <2>3, ResumeShape DEF ListenerDone
  <2>4. ASSUME NEW s \in Sessions, NEW payload \in Payloads,
               \/ Request(s) \/ PrepareFails(s) \/ Connect(s) \/ ReadUnusable(s)
               \/ ReadFrame(s) \/ GiveUp(s)
               \/ AckThenDispatch(s, payload)
        PROVE  UNCHANGED log
    BY <2>1, <2>4 DEF Request, PrepareFails, Connect, ReadUnusable, ReadFrame, Read,
       GiveUp, AckThenDispatch, dispatcherVars
  <2>5. ASSUME Lifecycle PROVE UNCHANGED log
    BY <2>5, CloseShape DEF Lifecycle, Start, Stop, ShutdownTimeout, FinishStop,
       dispatcherVars
  <2>6. ASSUME Application PROVE UNCHANGED log
    BY <2>6, ApplicationShape DEF Application
  <2>7. ASSUME NEW s \in Sessions, HandlerNext(s) PROVE UNCHANGED log
    <3>1. ASSUME \E payload \in Payloads : AckThenDispatch(s, payload)
          PROVE  UNCHANGED log
      BY <2>4, <3>1
    <3>2. CASE \/ Request(s) \/ PrepareFails(s) \/ Connect(s) \/ ReadUnusable(s)
               \/ ReadFrame(s) \/ GiveUp(s)
      BY <2>1, <3>2 DEF Request, PrepareFails, Connect, ReadUnusable, ReadFrame,
         Read, GiveUp, dispatcherVars
    <3> QED
      BY <2>2, <2>3, <2>7, <3>1, <3>2 DEF HandlerNext, Ends
  <2> QED
    BY <2>5, <2>6, <2>7 DEF Next
<1> QED
  BY <1>1, Typed, ShutdownHolds, PTL DEF Spec, DispatchedWhileOpen

-----------------------------------------------------------------------------
(* The four kinds of steps, as far as the log and the registry are concerned *)

\* Where a session is once it was registered.
Joined == InSession \cup {"disconnecting", "ended"}

\* How many messages the handler of s is done with.
Finished(s) == read[s] - (IF pc[s] = "acking" THEN 1 ELSE 0)

\* Nothing is dispatched.  A session leaves the message loop only if the
\* registry holds another, or while it waits in the dispatch of CONNECTED.
Silent ==
    /\ UNCHANGED <<log, registry, latest>>
    /\ cut \subseteq cut'
    /\ \A s \in Sessions :
          /\ pc[s] \in Joined => pc'[s] \in Joined
          /\ pc'[s] \in InSession => pc[s] \in InSession
          /\ pc[s] \in InSession /\ pc'[s] \notin InSession =>
                \/ registry[VinOf[s]] # s
                \/ pc[s] = "connecting" /\ call[s].n \in cut'
          /\ pc'[s] = "connecting" => pc[s] = "connecting" /\ call'[s].n = call[s].n
          /\ Finished(s) <= Finished(s)'

\* Session s dispatches record and moves on; the others stay where they are.
Dispatches(s, record) ==
    /\ Appends(s, record)
    /\ cut \subseteq cut'
    /\ pc'[s] = "connecting" => call'[s].n = Len(log) + 1
    /\ \A t \in Sessions \ {s} : pc'[t] = pc[t] /\ call'[t] = call[t]

Joins(s) ==
    /\ pc[s] = "preparing" /\ pc'[s] \in {"connecting", "receiving"}
    /\ registry' = [registry EXCEPT ![VinOf[s]] = s]
    /\ latest' = [latest EXCEPT ![VinOf[s]] = s]
    /\ read' = read
    /\ Dispatches(s, ConnectivityRecord(VinOf[s], "CONNECTED"))

Frames(s, payload) ==
    /\ pc[s] = "acking" /\ pc'[s] \in {"handling", "receiving"}
    /\ UNCHANGED <<read, registry, latest>>
    /\ Dispatches(s, FrameRecord(s, payload))

Leaves(s) ==
    /\ pc[s] \in InLoop /\ pc'[s] \in {"disconnecting", "ended"}
    /\ registry[VinOf[s]] = s
    /\ registry' = [registry EXCEPT ![VinOf[s]] = None]
    /\ UNCHANGED <<read, latest>>
    /\ Dispatches(s, ConnectivityRecord(VinOf[s], "DISCONNECTED"))

\* What a step that dispatches and then goes to goto or otherwise is.
LEMMA GotoDispatches ==
    ASSUME TypeOK, NEW s \in Sessions, NEW record, Appends(s, record),
           CallAbout(s, Len(log) + 1), cut \subseteq cut',
           NEW inListener \in InListener, NEW otherwise,
           otherwise \in {"receiving", "ended"}, Goto(s, inListener, otherwise)
    PROVE  /\ Dispatches(s, record)
           /\ pc'[s] \in {inListener, otherwise}
<1>1. otherwise \notin InListener /\ otherwise # "connecting"
  BY DEF InListener
<1>2. /\ pc'[s] \in {inListener, otherwise}
      /\ call'[s].n = Len(log) + 1 \/ pc'[s] = otherwise
      /\ \A t \in Sessions \ {s} : call'[t] = call[t] /\ pc'[t] = pc[t]
  BY <1>1, GotoShape
<1> QED
  BY <1>1, <1>2 DEF Dispatches

LEMMA StepKinds ==
    ASSUME TypeOK, Authorised, [Next]_vars
    PROVE  \/ Silent
           \/ \E s \in Sessions : \/ Joins(s) \/ Leaves(s)
                                   \/ \E payload \in Payloads : Frames(s, payload)
<1>0. Disp!TypeOK /\ ServerTypes /\ Counts
  BY TypeParts
<1>1. ASSUME UNCHANGED <<log, registry, latest, cut, pc, call, read>>
      PROVE  Silent
  BY <1>0, <1>1 DEF Silent, Finished, Counts
<1>2. ASSUME NEW s \in Sessions,
             UNCHANGED <<log, registry, latest, cut, call, read>>,
             NEW place, pc' = [pc EXCEPT ![s] = place],
             \/ pc[s] = "new" /\ place \in {"refused", "preparing"}
             \/ pc[s] = "preparing" /\ place = "ended"
             \/ pc[s] \in InLoop /\ place = "receiving"
      PROVE  Silent
  BY <1>0, <1>2 DEF Silent, ServerTypes, Joined, InSession, InLoop, Finished, Counts
<1>3. ASSUME NEW s \in Sessions, Request(s) PROVE Silent
  <2>1. PICK place \in {"refused", "preparing"} : pc' = [pc EXCEPT ![s] = place]
    BY <1>3 DEF Request
  <2> QED
    BY <1>2, <1>3, <2>1 DEF Request, dispatcherVars
<1>4. ASSUME NEW s \in Sessions, PrepareFails(s) PROVE Silent
  BY <1>2, <1>4 DEF PrepareFails, dispatcherVars
<1>5. ASSUME NEW s \in Sessions, ReadUnusable(s) \/ ReadFrame(s) PROVE Silent
  <2>1. UNCHANGED <<log, registry, latest, cut, call>>
    BY <1>5 DEF ReadUnusable, ReadFrame, dispatcherVars
  <2>2. pc[s] = "receiving" /\ pc' \in {pc, [pc EXCEPT ![s] = "acking"]}
    BY <1>5 DEF ReadUnusable, ReadFrame, Read
  <2>3. read' = [read EXCEPT ![s] = @ + 1]
    BY <1>5 DEF ReadUnusable, ReadFrame, Read
  <2> QED
    BY <1>0, <2>1, <2>2, <2>3 DEF Silent, ServerTypes, Counts, Finished, Joined, InSession
<1>6. ASSUME NEW s \in Sessions, GiveUp(s) PROVE Silent
  BY <1>2, <1>6 DEF GiveUp, dispatcherVars, InLoop
<1>7. ASSUME NEW s \in Sessions, ListenerDone(s) PROVE Silent
  <2>1. Disp!Suspended(s) /\ CallAbout(s, call[s].n) /\ UNCHANGED <<log, cut>>
    BY <1>7, ResumeShape DEF ListenerDone
  <2>2. pc[s] \in InListener
    BY <2>1 DEF TypeOK
  <2> DEFINE otherwise == IF pc[s] = "disconnecting" THEN "ended" ELSE "receiving"
  <2>3. otherwise \notin InListener
    BY DEF InListener
  <2>4. Goto(s, pc[s], otherwise)
    BY <1>7 DEF ListenerDone
  <2> HIDE DEF otherwise
  <2>5. /\ pc'[s] \in {pc[s], otherwise}
        /\ call'[s].n = call[s].n \/ pc'[s] = otherwise
        /\ \A t \in Sessions \ {s} : call'[t] = call[t] /\ pc'[t] = pc[t]
    BY <2>1, <2>2, <2>3, <2>4, GotoShape
  <2>6. UNCHANGED <<registry, latest, read>>
    BY <1>7 DEF ListenerDone
  <2>7. \A t \in Sessions : Finished(t)' = Finished(t)
    BY <2>2, <2>5, <2>6 DEF otherwise, Finished, InListener
  <2>8. \A t \in Sessions : Finished(t) <= Finished(t)'
    BY <1>0, <2>7 DEF Finished, Counts
  <2> QED
    BY <2>1, <2>2, <2>5, <2>6, <2>8 DEF otherwise, Silent, InListener, Joined, InSession
<1>8. ASSUME NEW s \in Sessions, Connect(s) PROVE Joins(s)
  <2>1. /\ Appends(s, ConnectivityRecord(VinOf[s], "CONNECTED"))
        /\ CallAbout(s, Len(log) + 1) /\ cut' = cut
    BY <1>0, <1>8, DispatchShape DEF Connect
  <2>2. /\ Dispatches(s, ConnectivityRecord(VinOf[s], "CONNECTED"))
        /\ pc'[s] \in {"connecting", "receiving"}
    BY <1>8, <2>1, GotoDispatches DEF Connect, InListener
  <2> QED
    BY <1>8, <2>2 DEF Connect, Joins
<1>9. ASSUME NEW s \in Sessions, NEW payload \in Payloads,
             AckThenDispatch(s, payload)
      PROVE  Frames(s, payload)
  <2>1. /\ Appends(s, FrameRecord(s, payload))
        /\ CallAbout(s, Len(log) + 1) /\ cut' = cut
    BY <1>0, <1>9, DispatchShape DEF AckThenDispatch
  <2>2. /\ Dispatches(s, FrameRecord(s, payload))
        /\ pc'[s] \in {"handling", "receiving"}
    BY <1>9, <2>1, GotoDispatches DEF AckThenDispatch, InListener
  <2> QED
    BY <1>9, <2>2 DEF AckThenDispatch, Frames
<1>10. ASSUME NEW s \in Sessions, Ends(s) PROVE Silent \/ Leaves(s)
  <2>1. /\ Told(s) \/ Untold(s)
        /\ UNCHANGED <<read, latest>>
        /\ pc[s] = "receiving" \/ s \in cancelled \/ Disp!Suspended(s)
    BY <1>10, EndsShape
  <2>2. CASE Told(s)
    <3>1. /\ Appends(s, ConnectivityRecord(VinOf[s], "DISCONNECTED"))
          /\ CallAbout(s, Len(log) + 1) /\ cut \subseteq cut'
      BY <1>0, <2>2, DispatchShape, CancelThenDispatchShape DEF Told
    <3>2. /\ Dispatches(s, ConnectivityRecord(VinOf[s], "DISCONNECTED"))
          /\ pc'[s] \in {"disconnecting", "ended"}
      BY <2>2, <3>1, GotoDispatches DEF Told, InListener
    <3> QED
      BY <2>1, <2>2, <3>2 DEF Told, Leaves
  <2>3. CASE Untold(s)
    <3>1. /\ UNCHANGED <<log, registry>> /\ cut \subseteq cut'
          /\ pc' = [pc EXCEPT ![s] = "ended"]
          /\ Disp!Suspended(s) => call[s].n \in cut'
          /\ call' = [call EXCEPT ![s] = Disp!Idle]
          /\ pc[s] \in InLoop => registry[VinOf[s]] # s
      BY <1>0, <2>3, CutOffShape DEF Untold
    <3>2. pc'[s] = "ended"
      BY <1>0, <3>1 DEF ServerTypes
    <3>3. \A t \in Sessions \ {s} : pc'[t] = pc[t] /\ call'[t] = call[t]
      BY <1>0, <3>1 DEF ServerTypes, Disp!TypeOK
    <3>4. pc[s] = "connecting" => call[s].n \in cut'
      BY <3>1 DEF TypeOK, InListener
    <3>5. \A t \in Sessions : Finished(t) <= Finished(t)'
      BY <1>0, <2>1, <3>2, <3>3 DEF Finished, Counts
    <3> QED
      BY <2>1, <3>1, <3>2, <3>3, <3>4, <3>5 DEF Silent, Joined, InSession, InLoop
  <2> QED
    BY <2>1, <2>2, <2>3
<1>11. ASSUME Lifecycle PROVE Silent
  <2>1. UNCHANGED <<log, cut, call>>
    BY <1>11, CloseShape DEF Lifecycle, Start, Stop, ShutdownTimeout, FinishStop,
       dispatcherVars
  <2>2. UNCHANGED <<registry, latest, pc, read>>
    BY <1>11 DEF Lifecycle, Start, Stop, ShutdownTimeout, FinishStop, sessionVars
  <2> QED
    BY <1>1, <2>1, <2>2
<1>12. ASSUME Application PROVE Silent
  BY <1>1, <1>12, ApplicationShape DEF Application, sessionVars
<1>13. ASSUME UNCHANGED vars PROVE Silent
  BY <1>1, <1>13 DEF vars, sessionVars, dispatcherVars
<1> QED
  BY <1>3, <1>4, <1>5, <1>6, <1>7, <1>8, <1>9, <1>10, <1>11, <1>12, <1>13
  DEF Next, HandlerNext, Ends

-----------------------------------------------------------------------------
(* The log *)

LEMMA LogGrowth ==
    ASSUME TypeOK, NEW s \in Sessions, NEW record, Dispatches(s, record)
    PROVE  /\ Len(log) \in Nat /\ Len(log') = Len(log) + 1
           /\ \A i \in 1 .. Len(log) : log'[i] = log[i]
           /\ log'[Len(log) + 1].by = s
           /\ log'[Len(log) + 1].record = record
<1>1. log \in Seq([by : Sessions, record : Records, audience : SUBSET Nat])
  BY TypeParts DEF Disp!TypeOK
<1>2. PICK audience \in SUBSET Nat :
         log' = Append(log, [by |-> s, record |-> record, audience |-> audience])
  BY DEF Dispatches, Appends
<1> DEFINE entry == [by |-> s, record |-> record, audience |-> audience]
<1>3. entry.by = s /\ entry.record = record
  OBVIOUS
<1> HIDE DEF entry
<1>4. log' = Append(log, entry)
  BY <1>2 DEF entry
<1> QED
  BY <1>1, <1>3, <1>4

LEMMA EntryOf ==
    ASSUME NEW S, NEW q \in Seq(S), NEW n \in 1 .. Len(q)
    PROVE  q[n] \in S
OBVIOUS

\* An entry of the log is by a session, about a vehicle, with a known message.
LEMMA EntryType ==
    ASSUME TypeOK, NEW n \in 1 .. Len(log)
    PROVE  /\ log[n].by \in Sessions /\ log[n].record.vin \in Vins
           /\ log[n].record.message \in Messages
<1>1. log \in Seq([by : Sessions, record : Records, audience : SUBSET Nat])
  BY TypeParts DEF Disp!TypeOK
<1>2. log[n] \in [by : Sessions, record : Records, audience : SUBSET Nat]
  BY <1>1, EntryOf
<1>3. Records \subseteq [vin : Vins, topic : Topics, fields : SUBSET FieldNames,
                         message : Messages]
  BY DispatcherAssumed DEF DP!DispatcherAssumption, DP!Record
<1> QED
  BY <1>2, <1>3

\* The events of a vehicle after a step that dispatches.
LEMMA EventsGrowth ==
    ASSUME TypeOK, NEW s \in Sessions, NEW record, Dispatches(s, record),
           NEW v
    PROVE  /\ record.vin = v /\ record.message \in ConnectivityEvents =>
                 Events(v)' = Events(v) \cup {Len(log) + 1}
           /\ ~(record.vin = v /\ record.message \in ConnectivityEvents) =>
                 Events(v)' = Events(v)
<1>1. /\ Len(log) \in Nat /\ Len(log') = Len(log) + 1
      /\ \A i \in 1 .. Len(log) : log'[i] = log[i]
      /\ log'[Len(log) + 1].record = record
  BY LogGrowth
<1>2. 1 .. Len(log') = (1 .. Len(log)) \cup {Len(log) + 1}
  BY <1>1
<1>3. \A n \in 1 .. Len(log) : n \in Events(v)' <=> n \in Events(v)
  BY <1>1 DEF Events
<1>4. Len(log) + 1 \in Events(v)' <=>
         record.vin = v /\ record.message \in ConnectivityEvents
  BY <1>1 DEF Events
<1>5. Events(v) \subseteq 1 .. Len(log) /\ Events(v)' \subseteq 1 .. Len(log')
  BY DEF Events
<1> QED
  BY <1>2, <1>3, <1>4, <1>5

-----------------------------------------------------------------------------
(* The log and the sessions *)

\* Who dispatched a record was registered, and is over if it was DISCONNECTED.
EntriesMatch ==
    \A n \in 1 .. Len(log) :
        /\ pc[log[n].by] \in Joined
        /\ log[n].record.vin = VinOf[log[n].by]
        /\ log[n].record.message = "DISCONNECTED" => pc[log[n].by] \notin InSession

\* A running session was announced.
Announced ==
    \A s \in Sessions : pc[s] \in InSession =>
        \E m \in 1 .. Len(log) : log[m].by = s /\ log[m].record.message = "CONNECTED"

\* A session that is "connecting" waits for a listener of its CONNECTED.
Connecting ==
    \A s \in Sessions : pc[s] = "connecting" =>
        call[s].n \in Events(VinOf[s]) /\ log[call[s].n].by = s

LogInv == EntriesMatch /\ Announced /\ Connecting

LEMMA SilentLog ==
    ASSUME TypeOK, LogInv, Silent
    PROVE  LogInv'
<1>1. UNCHANGED log
  BY DEF Silent
<1>2. \A v : Events(v)' = Events(v)
  BY <1>1 DEF Events
<1>3. EntriesMatch'
  BY <1>1, EntryType DEF LogInv, EntriesMatch, Silent
<1>4. Announced'
  BY <1>1 DEF LogInv, Announced, Silent
<1>5. Connecting'
  BY <1>1, <1>2 DEF LogInv, Connecting, Silent
<1> QED
  BY <1>3, <1>4, <1>5 DEF LogInv

LEMMA DispatchesLog ==
    ASSUME TypeOK, LogInv, NEW s \in Sessions, NEW record, Dispatches(s, record),
           record.vin = VinOf[s], pc'[s] \in Joined,
           pc[s] \in InSession \/ record.message = "CONNECTED",
           record.message = "DISCONNECTED" <=> pc'[s] \notin InSession,
           pc[s] \in Joined => pc[s] \in InSession,
           pc'[s] = "connecting" => record.message = "CONNECTED"
    PROVE  LogInv'
<1>1. /\ Len(log) \in Nat /\ Len(log') = Len(log) + 1
      /\ \A i \in 1 .. Len(log) : log'[i] = log[i]
      /\ log'[Len(log) + 1].by = s
      /\ log'[Len(log) + 1].record = record
  BY LogGrowth
<1>2. \A t \in Sessions \ {s} : pc'[t] = pc[t] /\ call'[t] = call[t]
  BY DEF Dispatches
<1>3. EntriesMatch'
  <2> SUFFICES ASSUME NEW n \in 1 .. Len(log')
               PROVE  /\ pc'[log'[n].by] \in Joined
                      /\ log'[n].record.vin = VinOf[log'[n].by]
                      /\ log'[n].record.message = "DISCONNECTED" =>
                            pc'[log'[n].by] \notin InSession
    BY DEF EntriesMatch
  <2>1. CASE n = Len(log) + 1
    BY <1>1, <2>1
  <2>2. CASE n # Len(log) + 1
    <3>1. n \in 1 .. Len(log) /\ log'[n] = log[n]
      BY <1>1, <2>2
    <3>2. /\ pc[log[n].by] \in Joined
          /\ log[n].record.vin = VinOf[log[n].by]
          /\ log[n].record.message = "DISCONNECTED" => pc[log[n].by] \notin InSession
      BY <3>1 DEF LogInv, EntriesMatch
    <3>3. log[n].by \in Sessions
      BY <3>1, EntryType
    <3> QED
      BY <1>2, <3>1, <3>2, <3>3
  <2> QED
    BY <2>1, <2>2
<1>4. Announced'
  <2> SUFFICES ASSUME NEW t \in Sessions, pc'[t] \in InSession
               PROVE  \E m \in 1 .. Len(log') :
                         log'[m].by = t /\ log'[m].record.message = "CONNECTED"
    BY DEF Announced
  <2>1. CASE t = s /\ record.message = "CONNECTED"
    <3>1. Len(log) + 1 \in 1 .. Len(log')
      BY <1>1
    <3> QED
      BY <1>1, <2>1, <3>1
  <2>2. CASE ~(t = s /\ record.message = "CONNECTED")
    <3>1. pc[t] \in InSession
      BY <1>2, <2>2
    <3>2. PICK m \in 1 .. Len(log) :
             log[m].by = t /\ log[m].record.message = "CONNECTED"
      BY <3>1 DEF LogInv, Announced
    <3>3. m \in 1 .. Len(log')
      BY <1>1
    <3> QED
      BY <1>1, <3>2, <3>3
  <2> QED
    BY <2>1, <2>2
<1>5. Connecting'
  <2> SUFFICES ASSUME NEW t \in Sessions, pc'[t] = "connecting"
               PROVE  call'[t].n \in Events(VinOf[t])' /\ log'[call'[t].n].by = t
    BY DEF Connecting
  <2>1. CASE t = s
    <3>1. record.message = "CONNECTED" /\ call'[s].n = Len(log) + 1
      BY <2>1 DEF Dispatches
    <3>2. Events(VinOf[s])' = Events(VinOf[s]) \cup {Len(log) + 1}
      BY <3>1, EventsGrowth DEF ConnectivityEvents
    <3> QED
      BY <1>1, <2>1, <3>1, <3>2
  <2>2. CASE t # s
    <3>1. /\ call[t].n \in Events(VinOf[t]) /\ log[call[t].n].by = t
          /\ call'[t] = call[t]
      BY <1>2, <2>2 DEF LogInv, Connecting
    <3>2. Events(VinOf[t]) \subseteq Events(VinOf[t])'
      BY EventsGrowth
    <3>3. call[t].n \in 1 .. Len(log)
      BY <3>1 DEF Events
    <3> QED
      BY <1>1, <3>1, <3>2, <3>3
  <2> QED
    BY <2>1, <2>2
<1> QED
  BY <1>3, <1>4, <1>5 DEF LogInv

LEMMA LogStep ==
    ASSUME TypeOK, Authorised, LogInv, [Next]_vars
    PROVE  LogInv'
<1> USE DEF Joined, InSession, ConnectivityRecord, FrameRecord
<1>1. ASSUME NEW s \in Sessions, Joins(s) PROVE LogInv'
  BY <1>1, DispatchesLog DEF Joins
<1>2. ASSUME NEW s \in Sessions, Leaves(s) PROVE LogInv'
  BY <1>2, DispatchesLog DEF Leaves, InLoop
<1>3. ASSUME NEW s \in Sessions, NEW payload \in Payloads, Frames(s, payload)
      PROVE  LogInv'
  BY <1>3, DispatchesLog DEF Frames
<1> QED
  BY <1>1, <1>2, <1>3, SilentLog, StepKinds

-----------------------------------------------------------------------------
(* The registry *)

\* The entry of v is the latest session's, which runs or was cut off while it
\* was announced; the latest session has the entry for as long as it runs.
LatestOf(v) ==
    /\ registry[v] \in {None, latest[v]}
    /\ latest[v] # None => VinOf[latest[v]] = v /\ pc[latest[v]] \in Joined
    /\ latest[v] # None /\ pc[latest[v]] \in InSession => registry[v] = latest[v]
    /\ registry[v] # None =>
          \/ pc[registry[v]] \in InSession
          \/ \E n \in Events(v) \cap cut : log[n].by = registry[v]

\* The last event of v is the CONNECTED of the session it is registered with,
\* if it is.
LastOf(v) ==
    /\ registry[v] # None =>
          \E m \in Events(v) : /\ IsLastEvent(m, v)
                               /\ log[m].by = registry[v]
                               /\ log[m].record.message = "CONNECTED"
    /\ registry[v] = None =>
          \A m \in Events(v) : IsLastEvent(m, v) => log[m].record.message # "CONNECTED"

RegistryInv == \A v \in Vins : LatestOf(v) /\ LastOf(v)

\* The events of a vehicle are places in the log.
LEMMA EventsInLog ==
    ASSUME NEW v
    PROVE  Events(v) \subseteq 1 .. Len(log)
BY DEF Events

\* A step keeps the events of v, or adds a last one.
LEMMA LastEventSame ==
    ASSUME NEW v, Events(v)' = Events(v), NEW m
    PROVE  IsLastEvent(m, v)' <=> IsLastEvent(m, v)
BY DEF IsLastEvent

LEMMA LastEventNew ==
    ASSUME Len(log) \in Nat, NEW v, Events(v)' = Events(v) \cup {Len(log) + 1}, NEW m
    PROVE  IsLastEvent(m, v)' <=> m = Len(log) + 1
<1>1. \A i \in Events(v) : i \in Nat /\ i < Len(log) + 1
  BY EventsInLog
<1> QED
  BY <1>1 DEF IsLastEvent

LEMMA SilentRegistry ==
    ASSUME TypeOK, LogInv, RegistryInv, Silent
    PROVE  RegistryInv'
<1>1. UNCHANGED <<log, registry, latest>> /\ cut \subseteq cut'
  BY DEF Silent
<1>2. \A v : Events(v)' = Events(v)
  BY <1>1 DEF Events
<1>3. ASSUME NEW v \in Vins PROVE LastOf(v)'
  BY <1>1, <1>2 DEF RegistryInv, LastOf, IsLastEvent
<1>4. ASSUME NEW v \in Vins PROVE LatestOf(v)'
  <2>1. LatestOf(v)
    BY DEF RegistryInv
  <2>2. registry[v] \in Sessions \cup {None} /\ latest[v] \in Sessions \cup {None}
    BY DEF TypeOK
  <2>3. /\ registry'[v] \in {None, latest'[v]}
        /\ latest'[v] # None =>
              VinOf[latest'[v]] = v /\ pc'[latest'[v]] \in Joined
        /\ latest'[v] # None /\ pc'[latest'[v]] \in InSession =>
              registry'[v] = latest'[v]
    BY <1>1, <2>1, <2>2 DEF Silent, LatestOf
  <2>4. ASSUME registry[v] # None, pc'[registry[v]] \notin InSession
        PROVE  \E n \in Events(v) \cap cut' : log[n].by = registry[v]
    <3>1. CASE pc[registry[v]] \notin InSession
      BY <1>1, <2>1, <2>4, <3>1 DEF LatestOf
    <3>2. CASE pc[registry[v]] \in InSession
      <4>1. registry[v] \in Sessions /\ VinOf[registry[v]] = v
        BY <2>1, <2>2, <2>4 DEF LatestOf
      <4>2. pc[registry[v]] = "connecting" /\ call[registry[v]].n \in cut'
        BY <2>4, <3>2, <4>1 DEF Silent
      <4>3. call[registry[v]].n \in Events(v) /\ log[call[registry[v]].n].by = registry[v]
        BY <4>1, <4>2 DEF LogInv, Connecting
      <4> QED
        BY <4>2, <4>3
    <3> QED
      BY <3>1, <3>2
  <2>5. registry'[v] # None =>
           \/ pc'[registry'[v]] \in InSession
           \/ \E n \in Events(v)' \cap cut' : log'[n].by = registry'[v]
    BY <1>1, <1>2, <2>4
  <2> QED
    BY <2>3, <2>5 DEF LatestOf
<1> QED
  BY <1>3, <1>4 DEF RegistryInv

\* A step that neither changes the entry of v nor adds one of its events.
LEMMA OtherVehicle ==
    ASSUME TypeOK, NEW v \in Vins, LatestOf(v), LastOf(v),
           NEW s \in Sessions, NEW record, Dispatches(s, record),
           registry'[v] = registry[v], latest'[v] = latest[v],
           ~(record.vin = v /\ record.message \in ConnectivityEvents),
           latest[v] = s => pc[s] \in InSession /\ pc'[s] \in InSession
    PROVE  LatestOf(v)' /\ LastOf(v)'
<1>1. /\ Len(log) \in Nat /\ Len(log') = Len(log) + 1
      /\ \A i \in 1 .. Len(log) : log'[i] = log[i]
  BY LogGrowth
<1>2. Events(v)' = Events(v)
  BY EventsGrowth
<1>3. \A i \in Events(v) : log'[i] = log[i]
  BY <1>1, EventsInLog
<1>4. \A m : IsLastEvent(m, v)' <=> IsLastEvent(m, v)
  BY <1>2, LastEventSame
<1>5. LastOf(v)'
  BY <1>2, <1>3, <1>4 DEF LastOf
<1>6. /\ cut \subseteq cut'
      /\ \A t \in Sessions \ {s} : pc'[t] = pc[t]
  BY DEF Dispatches
<1>7. registry[v] \in Sessions \cup {None} /\ latest[v] \in Sessions \cup {None}
  BY DEF TypeOK
<1>8. /\ registry'[v] \in {None, latest'[v]}
      /\ latest'[v] # None => VinOf[latest'[v]] = v /\ pc'[latest'[v]] \in Joined
      /\ latest'[v] # None /\ pc'[latest'[v]] \in InSession =>
            registry'[v] = latest'[v]
  BY <1>6, <1>7 DEF LatestOf, Joined
<1>9. registry'[v] # None =>
         \/ pc'[registry'[v]] \in InSession
         \/ \E n \in Events(v)' \cap cut' : log'[n].by = registry'[v]
  BY <1>2, <1>3, <1>6, <1>7 DEF LatestOf
<1> QED
  BY <1>5, <1>8, <1>9 DEF LatestOf

LEMMA JoinsRegistry ==
    ASSUME TypeOK, Authorised, RegistryInv,
           NEW s \in Sessions, Joins(s)
    PROVE  RegistryInv'
<1> DEFINE record == ConnectivityRecord(VinOf[s], "CONNECTED")
<1>0. /\ record.vin = VinOf[s] /\ record.message = "CONNECTED"
      /\ record.message \in ConnectivityEvents
      /\ Dispatches(s, record)
  BY DEF ConnectivityRecord, ConnectivityEvents, Joins
<1> HIDE DEF record
<1>1. VinOf[s] \in Vins /\ s # None
  BY AuthorisedVin, ServerAssumption DEF Joins
<1>2. registry \in [Vins -> Sessions \cup {None}] /\ latest \in [Vins -> Sessions \cup {None}]
  BY DEF TypeOK
<1>3. ASSUME NEW v \in Vins, v # VinOf[s] PROVE LatestOf(v)' /\ LastOf(v)'
  <2>1. registry'[v] = registry[v] /\ latest'[v] = latest[v]
    BY <1>2, <1>3 DEF Joins
  <2>2. LatestOf(v) /\ LastOf(v)
    BY DEF RegistryInv
  <2>3. latest[v] # s
    BY <1>1, <1>3, <2>2 DEF LatestOf
  <2> QED
    BY <1>0, <1>3, <2>1, <2>2, <2>3, OtherVehicle
<1>4. ASSUME NEW v \in Vins, v = VinOf[s] PROVE LatestOf(v)' /\ LastOf(v)'
  <2>1. registry'[v] = s /\ latest'[v] = s /\ pc'[s] \in InSession
    BY <1>2, <1>4 DEF Joins, InSession
  <2>2. LatestOf(v)'
    BY <1>4, <2>1 DEF LatestOf, Joined
  <2>3. /\ Len(log) \in Nat
        /\ log'[Len(log) + 1].by = s
        /\ log'[Len(log) + 1].record = record
    BY <1>0, LogGrowth
  <2>4. Events(v)' = Events(v) \cup {Len(log) + 1}
    BY <1>0, <1>4, EventsGrowth
  <2>5. \A m : IsLastEvent(m, v)' <=> m = Len(log) + 1
    BY <2>3, <2>4, LastEventNew
  <2>6. LastOf(v)'
    BY <1>0, <1>1, <2>1, <2>3, <2>4, <2>5 DEF LastOf
  <2> QED
    BY <2>2, <2>6
<1>5. \A v \in Vins : LatestOf(v)' /\ LastOf(v)'
  BY <1>3, <1>4
<1> QED
  BY <1>5 DEF RegistryInv

LEMMA LeavesRegistry ==
    ASSUME TypeOK, Authorised, RegistryInv,
           NEW s \in Sessions, Leaves(s)
    PROVE  RegistryInv'
<1> DEFINE record == ConnectivityRecord(VinOf[s], "DISCONNECTED")
<1>0. /\ record.vin = VinOf[s] /\ record.message = "DISCONNECTED"
      /\ record.message \in ConnectivityEvents
      /\ Dispatches(s, record)
  BY DEF ConnectivityRecord, ConnectivityEvents, Leaves
<1> HIDE DEF record
<1>1. VinOf[s] \in Vins /\ s # None
  BY AuthorisedVin, ServerAssumption DEF Leaves, InLoop
<1>2. registry \in [Vins -> Sessions \cup {None}] /\ latest' = latest
  BY DEF TypeOK, Leaves
<1>3. ASSUME NEW v \in Vins, v # VinOf[s] PROVE LatestOf(v)' /\ LastOf(v)'
  <2>1. registry'[v] = registry[v] /\ latest'[v] = latest[v]
    BY <1>2, <1>3 DEF Leaves
  <2>2. LatestOf(v) /\ LastOf(v)
    BY DEF RegistryInv
  <2>3. latest[v] # s
    BY <1>1, <1>3, <2>2 DEF LatestOf
  <2> QED
    BY <1>0, <1>3, <2>1, <2>2, <2>3, OtherVehicle
<1>4. ASSUME NEW v \in Vins, v = VinOf[s] PROVE LatestOf(v)' /\ LastOf(v)'
  <2>1. /\ registry'[v] = None /\ registry[v] = s
        /\ pc'[s] \in {"disconnecting", "ended"}
    BY <1>2, <1>4 DEF Leaves
  <2>2. LatestOf(v)
    BY DEF RegistryInv
  <2>3. latest'[v] = s
    BY <1>1, <1>2, <2>1, <2>2 DEF LatestOf
  <2>4. LatestOf(v)'
    BY <1>4, <2>1, <2>3 DEF LatestOf, Joined, InSession
  <2>5. Len(log) \in Nat /\ log'[Len(log) + 1].record = record
    BY <1>0, LogGrowth
  <2>6. Events(v)' = Events(v) \cup {Len(log) + 1}
    BY <1>0, <1>4, EventsGrowth
  <2>7. \A m : IsLastEvent(m, v)' <=> m = Len(log) + 1
    BY <2>5, <2>6, LastEventNew
  <2>8. LastOf(v)'
    BY <1>0, <2>1, <2>5, <2>7 DEF LastOf
  <2> QED
    BY <2>4, <2>8
<1>5. \A v \in Vins : LatestOf(v)' /\ LastOf(v)'
  BY <1>3, <1>4
<1> QED
  BY <1>5 DEF RegistryInv

LEMMA FramesRegistry ==
    ASSUME TypeOK, RegistryInv,
           NEW s \in Sessions, NEW payload \in Payloads, Frames(s, payload)
    PROVE  RegistryInv'
<1> DEFINE record == FrameRecord(s, payload)
<1>0. record.message \notin ConnectivityEvents /\ Dispatches(s, record)
  BY DEF FrameRecord, ConnectivityEvents, Frames
<1> HIDE DEF record
<1>1. ASSUME NEW v \in Vins PROVE LatestOf(v)' /\ LastOf(v)'
  <2>1. /\ registry'[v] = registry[v] /\ latest'[v] = latest[v]
        /\ pc[s] \in InSession /\ pc'[s] \in InSession
    BY DEF Frames, InSession
  <2>2. LatestOf(v) /\ LastOf(v)
    BY DEF RegistryInv
  <2> QED
    BY <1>0, <2>1, <2>2, OtherVehicle
<1>2. \A v \in Vins : LatestOf(v)' /\ LastOf(v)'
  BY <1>1
<1> QED
  BY <1>2 DEF RegistryInv

LEMMA RegistryStep ==
    ASSUME TypeOK, Authorised, LogInv, RegistryInv, [Next]_vars
    PROVE  RegistryInv'
BY StepKinds, SilentRegistry, JoinsRegistry, LeavesRegistry, FramesRegistry

-----------------------------------------------------------------------------
(* Sessions in the log *)

\* An entry of the log is where SessionsBracketed wants it.
FramePlaced(n) ==
    log[n].record.message = "frame" =>
        /\ \E m \in 1 .. n - 1 : /\ log[m].by = log[n].by
                                 /\ log[m].record.message = "CONNECTED"
        /\ \A m \in 1 .. n - 1 :
              log[m].by = log[n].by => log[m].record.message # "DISCONNECTED"

EndPlaced(n) ==
    log[n].record.message = "DISCONNECTED" =>
        \E m \in Events(log[n].record.vin) :
            /\ m < n
            /\ log[m].by = log[n].by
            /\ log[m].record.message = "CONNECTED"
            /\ \A i \in Events(log[n].record.vin) : i <= m \/ i >= n

Bracketed == \A n \in 1 .. Len(log) : FramePlaced(n) /\ EndPlaced(n)

LEMMA BracketParts == SessionsBracketed <=> Bracketed
BY DEF SessionsBracketed, Bracketed, FramePlaced, EndPlaced

\* The entries that are in the log stay well placed.
LEMMA OldEntriesPlaced ==
    ASSUME TypeOK, Bracketed, NEW s \in Sessions, NEW record,
           Dispatches(s, record), NEW n \in 1 .. Len(log)
    PROVE  FramePlaced(n)' /\ EndPlaced(n)'
<1>1. /\ Len(log) \in Nat
      /\ \A i \in 1 .. Len(log) : log'[i] = log[i]
  BY LogGrowth
<1>2. FramePlaced(n) /\ EndPlaced(n)
  BY DEF Bracketed
<1>3. 1 .. n - 1 \subseteq 1 .. Len(log)
  BY <1>1
<1>4. log'[n] = log[n]
  BY <1>1
<1>5. \A i \in 1 .. n - 1 : log'[i] = log[i]
  BY <1>1, <1>3
<1>6. FramePlaced(n)'
  BY <1>2, <1>4, <1>5 DEF FramePlaced
<1>7. EndPlaced(n)'
  <2>1. PICK v : v = log[n].record.vin
    OBVIOUS
  <2>2. SUFFICES ASSUME log[n].record.message = "DISCONNECTED"
                 PROVE  \E m \in Events(v)' :
                           /\ m < n
                           /\ log'[m].by = log'[n].by
                           /\ log'[m].record.message = "CONNECTED"
                           /\ \A i \in Events(v)' : i <= m \/ i >= n
    BY <1>4, <2>1 DEF EndPlaced, Events
  <2>3. PICK m \in Events(v) :
           /\ m < n
           /\ log[m].by = log[n].by
           /\ log[m].record.message = "CONNECTED"
           /\ \A i \in Events(v) : i <= m \/ i >= n
    BY <1>2, <2>1, <2>2 DEF EndPlaced
  <2>4. Events(v)' = Events(v) \/ Events(v)' = Events(v) \cup {Len(log) + 1}
    BY EventsGrowth
  <2>5. m \in Events(v)' /\ log'[m] = log[m]
    BY <1>1, <2>3, <2>4, EventsInLog
  <2>6. \A i \in Events(v)' : i <= m \/ i >= n
    BY <1>1, <2>3, <2>4
  <2> QED
    BY <1>4, <2>3, <2>5, <2>6
<1> QED
  BY <1>6, <1>7

\* The record that a step adds is well placed, at n: a frame lies in its session.
LEMMA NewFramePlaced ==
    ASSUME TypeOK, LogInv, NEW s \in Sessions, pc[s] \in InSession,
           NEW record, record.message = "frame", Dispatches(s, record),
           NEW n, n = Len(log) + 1
    PROVE  FramePlaced(n)' /\ EndPlaced(n)'
<1>1. /\ Len(log) \in Nat
      /\ \A i \in 1 .. Len(log) : log'[i] = log[i]
      /\ log'[n].by = s /\ log'[n].record = record
  BY LogGrowth
<1>2. 1 .. n - 1 = 1 .. Len(log)
  BY <1>1
<1>3. PICK m \in 1 .. Len(log) : log[m].by = s /\ log[m].record.message = "CONNECTED"
  BY DEF LogInv, Announced
<1>4. \A i \in 1 .. Len(log) :
         log[i].by = s => log[i].record.message # "DISCONNECTED"
  BY DEF LogInv, EntriesMatch
<1>5. FramePlaced(n)'
  BY <1>1, <1>2, <1>3, <1>4 DEF FramePlaced
<1>6. EndPlaced(n)'
  BY <1>1 DEF EndPlaced
<1> QED
  BY <1>5, <1>6

\* A DISCONNECTED follows the CONNECTED of its session.
LEMMA NewEndPlaced ==
    ASSUME TypeOK, Authorised, RegistryInv, NEW s \in Sessions, Leaves(s),
           NEW n, n = Len(log) + 1
    PROVE  FramePlaced(n)' /\ EndPlaced(n)'
<1> DEFINE record == ConnectivityRecord(VinOf[s], "DISCONNECTED")
<1>0. /\ record.vin = VinOf[s] /\ record.message = "DISCONNECTED"
      /\ record.message \in ConnectivityEvents
      /\ Dispatches(s, record)
  BY DEF ConnectivityRecord, ConnectivityEvents, Leaves
<1> HIDE DEF record
<1>1. /\ Len(log) \in Nat
      /\ \A i \in 1 .. Len(log) : log'[i] = log[i]
      /\ log'[n].by = s /\ log'[n].record = record
  BY <1>0, LogGrowth
<1>2. FramePlaced(n)'
  BY <1>0, <1>1 DEF FramePlaced
<1>3. PICK v \in Vins : v = VinOf[s]
  BY AuthorisedVin DEF Leaves, InLoop
<1>4. SUFFICES \E m \in Events(v)' :
                  /\ m < n
                  /\ log'[m].by = log'[n].by
                  /\ log'[m].record.message = "CONNECTED"
                  /\ \A i \in Events(v)' : i <= m \/ i >= n
  BY <1>0, <1>1, <1>2, <1>3 DEF EndPlaced, Events
<1>5. registry[v] = s /\ s # None
  BY <1>3, ServerAssumption DEF Leaves
<1>6. PICK m \in Events(v) : /\ IsLastEvent(m, v)
                             /\ log[m].by = s
                             /\ log[m].record.message = "CONNECTED"
  BY <1>5 DEF RegistryInv, LastOf
<1>7. Events(v)' = Events(v) \cup {n}
  BY <1>0, <1>3, EventsGrowth
<1>8. m \in 1 .. Len(log) /\ \A i \in Events(v) : i \in 1 .. Len(log) /\ i <= m
  BY <1>6, EventsInLog DEF IsLastEvent
<1>9. m < n /\ log'[m] = log[m] /\ \A i \in Events(v)' : i <= m \/ i >= n
  BY <1>1, <1>7, <1>8
<1> QED
  BY <1>1, <1>6, <1>7, <1>9

LEMMA BracketedStep ==
    ASSUME TypeOK, Authorised, LogInv, RegistryInv, Bracketed, [Next]_vars
    PROVE  Bracketed'
<1>1. ASSUME Silent PROVE Bracketed'
  BY <1>1 DEF Silent, Bracketed, FramePlaced, EndPlaced, Events
<1>2. ASSUME NEW s \in Sessions, NEW record, Dispatches(s, record),
             NEW n, n = Len(log) + 1, FramePlaced(n)' /\ EndPlaced(n)'
      PROVE  Bracketed'
  <2>1. Len(log) \in Nat /\ Len(log') = n
    BY <1>2, LogGrowth
  <2>2. ASSUME NEW i \in 1 .. Len(log') PROVE FramePlaced(i)' /\ EndPlaced(i)'
    <3>1. CASE i = n
      BY <1>2, <3>1
    <3>2. CASE i # n
      <4>1. i \in 1 .. Len(log)
        BY <1>2, <2>1, <3>2
      <4> QED
        BY <1>2, <4>1, OldEntriesPlaced
    <3> QED
      BY <3>1, <3>2
  <2> QED
    BY <2>2 DEF Bracketed
<1>3. PICK n : n = Len(log) + 1
  OBVIOUS
<1>4. ASSUME NEW s \in Sessions, Joins(s) PROVE Bracketed'
  <2> DEFINE record == ConnectivityRecord(VinOf[s], "CONNECTED")
  <2>1. Dispatches(s, record) /\ record.message = "CONNECTED"
    BY <1>4 DEF Joins, ConnectivityRecord
  <2> HIDE DEF record
  <2>2. log'[n].record = record
    BY <1>3, <2>1, LogGrowth
  <2>3. FramePlaced(n)' /\ EndPlaced(n)'
    BY <2>1, <2>2 DEF FramePlaced, EndPlaced
  <2> QED
    BY <1>2, <1>3, <2>1, <2>3
<1>5. ASSUME NEW s \in Sessions, Leaves(s) PROVE Bracketed'
  <2>1. FramePlaced(n)' /\ EndPlaced(n)'
    BY <1>3, <1>5, NewEndPlaced
  <2> QED
    BY <1>2, <1>3, <1>5, <2>1 DEF Leaves
<1>6. ASSUME NEW s \in Sessions, NEW payload \in Payloads, Frames(s, payload)
      PROVE  Bracketed'
  <2> DEFINE record == FrameRecord(s, payload)
  <2>1. Dispatches(s, record) /\ record.message = "frame" /\ pc[s] \in InSession
    BY <1>6 DEF Frames, FrameRecord, InSession
  <2> HIDE DEF record
  <2>2. FramePlaced(n)' /\ EndPlaced(n)'
    BY <1>3, <2>1, NewFramePlaced
  <2> QED
    BY <1>2, <1>3, <2>1, <2>2
<1> QED
  BY <1>1, <1>4, <1>5, <1>6, StepKinds

-----------------------------------------------------------------------------
(* What the server promises *)

LEMMA SessionsInit ==
    Init => LogInv /\ RegistryInv /\ Bracketed
<1> SUFFICES ASSUME Init
             PROVE  LogInv /\ RegistryInv /\ Bracketed
  OBVIOUS
<1>1. log = <<>> /\ 1 .. Len(log) = {}
  BY DEF Init, Disp!Init
<1>2. LogInv
  BY <1>1 DEF Init, LogInv, EntriesMatch, Announced, Connecting, InSession
<1>3. RegistryInv
  BY <1>1 DEF Init, RegistryInv, LatestOf, LastOf, Events
<1>4. Bracketed
  BY <1>1 DEF Bracketed
<1> QED
  BY <1>2, <1>3, <1>4

\* The inductive invariant of the sessions.
IInv ==
    /\ TypeOK /\ Authorised
    /\ LogInv /\ RegistryInv /\ Bracketed

LEMMA Invariant == Spec => []IInv
<1>1. Init => IInv
  BY TypeInit, SessionsInit DEF IInv
<1>2. IInv /\ [Next]_vars => IInv'
  BY TypeStep, LogStep, RegistryStep, BracketedStep DEF IInv
<1> QED
  BY <1>1, <1>2, PTL DEF Spec

\* The late end of an older session never removes the entry of the session that
\* replaced it, and an entry outlives its session only if the dispatch of its
\* CONNECTED record was cancelled.
THEOREM RegistryIsLatest == Spec => []RegistryTracksLatest
<1>1. IInv => RegistryTracksLatest
  BY DEF IInv, RegistryInv, LatestOf, RegistryTracksLatest
<1> QED
  BY <1>1, Invariant, PTL

\* The connectivity records end in CONNECTED exactly when the vehicle is in the
\* registry.
THEOREM ConnectivityIsRegistry == Spec => []ConnectivityAgrees
<1>1. IInv => ConnectivityAgrees
  <2> SUFFICES ASSUME IInv, NEW v \in Vins
               PROVE  registry[v] # None <=>
                         \E n \in 1 .. Len(log) :
                            IsLastEvent(n, v) /\ log[n].record.message = "CONNECTED"
    BY DEF ConnectivityAgrees
  <2>1. LastOf(v)
    BY DEF IInv, RegistryInv
  <2>2. Events(v) \subseteq 1 .. Len(log) /\ \A n : IsLastEvent(n, v) => n \in Events(v)
    BY EventsInLog DEF IsLastEvent
  <2> QED
    BY <2>1, <2>2 DEF LastOf
<1> QED
  BY <1>1, Invariant, PTL

\* The records of a session's frames lie between its CONNECTED and its
\* DISCONNECTED, which no other event of the vehicle separates.
THEOREM SessionsAreBracketed == Spec => []SessionsBracketed
<1>1. IInv => SessionsBracketed
  BY BracketParts DEF IInv
<1> QED
  BY <1>1, Invariant, PTL

-----------------------------------------------------------------------------
(* The bound on the log *)

Reads == \A s \in Sessions : read[s] <= MaxFrames

LEMMA ReadsStep ==
    ASSUME TypeOK, Reads, [Next]_vars
    PROVE  Reads'
<1>0. Counts /\ MaxFrames \in Nat
  BY TypeParts, ServerAssumption
<1>1. ASSUME UNCHANGED read PROVE Reads'
  BY <1>1 DEF Reads
<1>2. ASSUME NEW s \in Sessions, ReadUnusable(s) \/ ReadFrame(s) PROVE Reads'
  BY <1>0, <1>2 DEF ReadUnusable, ReadFrame, Read, Reads, Counts
<1>3. ASSUME NEW s \in Sessions, Ends(s) PROVE UNCHANGED read
  BY <1>3, EndsShape
<1>4. ASSUME NEW s \in Sessions,
             \/ Request(s) \/ PrepareFails(s) \/ Connect(s) \/ ListenerDone(s)
             \/ GiveUp(s) \/ \E payload \in Payloads : AckThenDispatch(s, payload)
      PROVE  UNCHANGED read
  BY <1>4 DEF Request, PrepareFails, Connect, ListenerDone, GiveUp, AckThenDispatch
<1>5. ASSUME Lifecycle \/ Application \/ UNCHANGED vars PROVE UNCHANGED read
  BY <1>5 DEF Lifecycle, Start, Stop, ShutdownTimeout, FinishStop, Application,
     vars, sessionVars
<1> QED
  BY <1>1, <1>2, <1>3, <1>4, <1>5 DEF Next, HandlerNext, Ends

\* What session s has dispatched.
EntriesOf(s) == {n \in 1 .. Len(log) : log[n].by = s}

\* How many connectivity records that may be: a CONNECTED, and a DISCONNECTED.
Announcements(s) ==
    IF pc[s] \in InSession THEN 1 ELSE IF pc[s] \in Joined THEN 2 ELSE 0

\* A frame is dispatched at most once, when the wait for its ack is over.
EntriesCounted ==
    \A s \in Sessions : Cardinality(EntriesOf(s)) <= Finished(s) + Announcements(s)

LEMMA EntriesFinite ==
    ASSUME TypeOK, NEW s
    PROVE  /\ Len(log) \in Nat /\ EntriesOf(s) \in SUBSET (1 .. Len(log))
           /\ IsFiniteSet(EntriesOf(s)) /\ Cardinality(EntriesOf(s)) \in Nat
<1>1. Len(log) \in Nat
  BY TypeParts DEF Disp!TypeOK
<1>2. EntriesOf(s) \in SUBSET (1 .. Len(log)) /\ IsFiniteSet(1 .. Len(log))
  BY <1>1, FS_Interval DEF EntriesOf
<1> QED
  BY <1>1, <1>2, FS_Subset, FS_CardinalityType

LEMMA EntriesGrowth ==
    ASSUME TypeOK, NEW s \in Sessions, NEW record, Dispatches(s, record), NEW t
    PROVE  Cardinality(EntriesOf(t)') =
               Cardinality(EntriesOf(t)) + (IF t = s THEN 1 ELSE 0)
<1>1. /\ Len(log) \in Nat /\ Len(log') = Len(log) + 1
      /\ \A i \in 1 .. Len(log) : log'[i] = log[i]
      /\ log'[Len(log) + 1].by = s
  BY LogGrowth
<1>2. 1 .. Len(log') = (1 .. Len(log)) \cup {Len(log) + 1}
  BY <1>1
<1>3. EntriesOf(t)' = IF t = s THEN EntriesOf(t) \cup {Len(log) + 1} ELSE EntriesOf(t)
  BY <1>1, <1>2 DEF EntriesOf
<1>4. Len(log) + 1 \notin EntriesOf(t)
  BY <1>1 DEF EntriesOf
<1>5. IsFiniteSet(EntriesOf(t)) /\ Cardinality(EntriesOf(t)) \in Nat
  BY EntriesFinite
<1>6. Cardinality(EntriesOf(t) \cup {Len(log) + 1}) = Cardinality(EntriesOf(t)) + 1
  BY <1>4, <1>5, FS_AddElement
<1> QED
  BY <1>3, <1>5, <1>6

LEMMA EntriesStep ==
    ASSUME TypeOK, Authorised, EntriesCounted, [Next]_vars
    PROVE  EntriesCounted'
<1>0. Counts /\ Counts'
  BY TypeParts, CountsStep
<1>1. SUFFICES ASSUME NEW t \in Sessions
               PROVE  Cardinality(EntriesOf(t)') <= Finished(t)' + Announcements(t)'
  BY DEF EntriesCounted
<1>2. /\ Cardinality(EntriesOf(t)) \in Nat
      /\ Cardinality(EntriesOf(t)) <= Finished(t) + Announcements(t)
      /\ Finished(t) \in Int /\ Finished(t)' \in Int
  BY <1>0, EntriesFinite DEF EntriesCounted, Counts, Finished
<1>3. Announcements(t) \in 0 .. 2 /\ Announcements(t)' \in 0 .. 2
  BY DEF Announcements
<1>4. CASE Silent
  <2>1. EntriesOf(t)' = EntriesOf(t)
    BY <1>4 DEF Silent, EntriesOf
  <2>2. Finished(t) <= Finished(t)'
    BY <1>4 DEF Silent
  <2>3. Announcements(t) <= Announcements(t)'
    BY <1>4 DEF Silent, Announcements, Joined
  <2> QED
    BY <1>2, <1>3, <2>1, <2>2, <2>3
<1>5. ASSUME NEW s \in Sessions, NEW record, Dispatches(s, record), read' = read,
             t = s => Finished(s) + Announcements(s) < Finished(s)' + Announcements(s)'
      PROVE  Cardinality(EntriesOf(t)') <= Finished(t)' + Announcements(t)'
  <2>1. CASE t = s
    <3>1. Cardinality(EntriesOf(t)') = Cardinality(EntriesOf(t)) + 1
      BY <1>5, <2>1, EntriesGrowth
    <3> QED
      BY <1>2, <1>3, <1>5, <2>1, <3>1
  <2>2. CASE t # s
    <3>1. Announcements(t)' = Announcements(t) /\ Finished(t)' = Finished(t)
      BY <1>5, <2>2 DEF Dispatches, Announcements, Finished
    <3>2. Cardinality(EntriesOf(t)') = Cardinality(EntriesOf(t))
      BY <1>2, <1>5, <2>2, EntriesGrowth
    <3> QED
      BY <1>2, <3>1, <3>2
  <2> QED
    BY <2>1, <2>2
<1>6. ASSUME NEW s \in Sessions, Joins(s) \/ Leaves(s)
      PROVE  Cardinality(EntriesOf(t)') <= Finished(t)' + Announcements(t)'
  <2>1. (\E record : Dispatches(s, record)) /\ read' = read
    BY <1>6 DEF Joins, Leaves
  <2>2. /\ Announcements(s)' = Announcements(s) + 1
        /\ pc'[s] = "acking" => pc[s] = "acking"
    BY <1>6 DEF Joins, Leaves, Announcements, Joined, InSession, InLoop, Dispatches
  <2>3. t = s => Finished(s) <= Finished(s)'
    BY <1>0, <2>1, <2>2 DEF Finished, Counts
  <2> QED
    BY <1>2, <1>3, <1>5, <2>1, <2>2, <2>3
<1>7. ASSUME NEW s \in Sessions, NEW payload \in Payloads, Frames(s, payload)
      PROVE  Cardinality(EntriesOf(t)') <= Finished(t)' + Announcements(t)'
  <2>1. (\E record : Dispatches(s, record)) /\ read' = read
    BY <1>7 DEF Frames
  <2>2. Announcements(s)' = Announcements(s)
    BY <1>7 DEF Frames, Announcements, InSession
  <2>3. Finished(s)' = Finished(s) + 1
    BY <1>0, <1>7 DEF Frames, Finished, Counts
  <2> QED
    BY <1>2, <1>3, <1>5, <2>1, <2>2, <2>3
<1> QED
  BY <1>4, <1>6, <1>7, StepKinds

\* Who dispatched a record and how many it had dispatched before tell the record.
Place(n) == <<log[n].by, Cardinality(EntriesOf(log[n].by) \cap (1 .. n - 1))>>

LEMMA PlacesDiffer ==
    ASSUME TypeOK, NEW m \in 1 .. Len(log), NEW n \in 1 .. Len(log), m < n,
           log[m].by = log[n].by
    PROVE  Place(m)[2] < Place(n)[2]
<1> DEFINE E == EntriesOf(log[n].by)
           M == E \cap (1 .. m - 1)
           N == E \cap (1 .. n - 1)
<1>1. Len(log) \in Nat /\ IsFiniteSet(E)
  BY EntriesFinite
<1>2. M \in SUBSET N /\ m \in N /\ m \notin M
  BY <1>1 DEF EntriesOf
<1>3. IsFiniteSet(N) /\ Cardinality(N) \in Nat
  BY <1>1, FS_Subset, FS_CardinalityType
<1>4. IsFiniteSet(M) /\ Cardinality(M) \in Nat
  BY <1>1, FS_Subset, FS_CardinalityType
<1>5. Cardinality(M) <= Cardinality(N) /\ Cardinality(M) # Cardinality(N)
  <2> HIDE DEF M, N
  <2> QED
    BY <1>2, <1>3, FS_Subset
<1>6. Cardinality(M) < Cardinality(N)
  BY <1>3, <1>4, <1>5
<1> QED
  BY <1>6 DEF Place

LEMMA PlaceCounts ==
    ASSUME TypeOK, NEW n \in 1 .. Len(log)
    PROVE  Place(n)[2] \in Nat /\ Place(n)[2] < Cardinality(EntriesOf(log[n].by))
<1> DEFINE E == EntriesOf(log[n].by)
           N == E \cap (1 .. n - 1)
<1>1. Len(log) \in Nat /\ IsFiniteSet(E) /\ Cardinality(E) \in Nat
  BY EntriesFinite
<1>2. N \in SUBSET E /\ n \in E /\ n \notin N
  BY <1>1 DEF EntriesOf
<1>3. Cardinality(N) \in Nat
  BY <1>1, <1>2, FS_Subset, FS_CardinalityType
<1>4. Cardinality(N) <= Cardinality(E) /\ Cardinality(N) # Cardinality(E)
  <2> HIDE DEF E, N
  <2> QED
    BY <1>1, <1>2, FS_Subset
<1>5. Cardinality(N) < Cardinality(E)
  BY <1>1, <1>3, <1>4
<1> QED
  BY <1>3, <1>5 DEF Place

\* A session that is in its message loop, or about to be, can always dispatch.
CanDispatch ==
    \A s \in Sessions : pc[s] = "preparing" \/ pc[s] \in InLoop => Len(log) < MaxLog

\* MaxLog is no restriction: Dispatch and CancelThenDispatch find room in the log
\* wherever _connect, _process_frame and _disconnect call dispatch().
THEOREM LogHasRoom == Spec => []CanDispatch
<1> DEFINE BInv == TypeOK /\ Authorised /\ Reads /\ EntriesCounted
<1>1. Init => BInv
  <2> SUFFICES ASSUME Init PROVE Reads /\ EntriesCounted
    BY TypeInit
  <2>1. Reads
    BY ServerAssumption DEF Init, Reads
  <2>2. ASSUME NEW s \in Sessions PROVE Cardinality(EntriesOf(s)) = 0
    <3>1. EntriesOf(s) = {}
      BY DEF EntriesOf, Init, Disp!Init
    <3> QED
      BY <3>1, FS_EmptySet
  <2>3. EntriesCounted
    BY <2>2 DEF Init, EntriesCounted, Finished, Announcements, InSession, Joined
  <2> QED
    BY <2>1, <2>3
<1>2. BInv /\ [Next]_vars => BInv'
  BY TypeStep, ReadsStep, EntriesStep
<1>3. BInv => CanDispatch
  <2> SUFFICES ASSUME BInv, NEW s \in Sessions, pc[s] = "preparing" \/ pc[s] \in InLoop
               PROVE  Len(log) < MaxLog
    BY DEF CanDispatch
  <2> DEFINE Places == Sessions \X (0 .. MaxFrames + 1)
             free == <<s, MaxFrames + 1>>
             T == Places \ {free}
             f == [n \in 1 .. Len(log) |-> Place(n)]
  <2>0. Len(log) \in Nat /\ MaxFrames \in Nat /\ IsFiniteSet(Sessions)
    BY EntriesFinite, ServerAssumption
  <2>1. ASSUME NEW t \in Sessions
        PROVE  /\ Cardinality(EntriesOf(t)) \in Nat
               /\ Cardinality(EntriesOf(t)) <= MaxFrames + Announcements(t)
    <3>1. read[t] \in Nat /\ read[t] <= MaxFrames
      BY TypeParts DEF Counts, Reads
    <3>2. Finished(t) \in Int /\ Finished(t) <= MaxFrames
      BY <2>0, <3>1 DEF Finished
    <3>3. Announcements(t) \in 0 .. 2
      BY DEF Announcements
    <3>4. /\ Cardinality(EntriesOf(t)) \in Nat
          /\ Cardinality(EntriesOf(t)) <= Finished(t) + Announcements(t)
      BY EntriesFinite DEF EntriesCounted
    <3> QED
      BY <2>0, <3>1, <3>2, <3>3, <3>4
  <2>2. Announcements(s) <= 1 /\ \A t \in Sessions : Announcements(t) \in 0 .. 2
    BY DEF Announcements, InLoop, InSession, Joined
  <2>3. ASSUME NEW n \in 1 .. Len(log) PROVE Place(n) \in T
    <3>1. log[n].by \in Sessions
      BY EntryType
    <3>2. Place(n)[2] \in Nat /\ Place(n)[2] < Cardinality(EntriesOf(log[n].by))
      BY PlaceCounts
    <3>3. Place(n)[2] \in 0 .. MaxFrames + 1
      BY <2>0, <2>1, <2>2, <3>1, <3>2
    <3>4. log[n].by = s => Place(n)[2] # MaxFrames + 1
      BY <2>0, <2>1, <2>2, <3>2
    <3> QED
      BY <3>1, <3>3, <3>4 DEF Place
  <2>4. f \in Injection(1 .. Len(log), T)
    <3>1. f \in [1 .. Len(log) -> T]
      BY <2>3
    <3>2. ASSUME NEW m \in 1 .. Len(log), NEW n \in 1 .. Len(log), Place(m) = Place(n)
          PROVE  m = n
      <4>1. log[m].by = log[n].by
        BY <3>2 DEF Place
      <4>2. Place(m)[2] \in Nat /\ Place(n)[2] \in Nat /\ Place(m)[2] = Place(n)[2]
        BY <3>2, PlaceCounts
      <4>3. ~(m < n) /\ ~(n < m)
        BY <4>1, <4>2, PlacesDiffer
      <4> QED
        BY <2>0, <4>3
    <3> QED
      BY <3>1, <3>2 DEF Injection, IsInjective
  <2>5. /\ IsFiniteSet(Places) /\ Cardinality(Places) = MaxLog
        /\ MaxLog \in Nat
    <3>1. IsFiniteSet(0 .. MaxFrames + 1) /\ Cardinality(0 .. MaxFrames + 1) = MaxFrames + 2
      BY <2>0, FS_Interval
    <3>2. Cardinality(Sessions) \in Nat
      BY <2>0, FS_CardinalityType
    <3>3. /\ IsFiniteSet(Places)
          /\ Cardinality(Places) = Cardinality(Sessions) * (MaxFrames + 2)
      BY <2>0, <3>1, FS_Product
    <3> QED
      BY <3>3, FS_CardinalityType DEF MaxLog
  <2>6. IsFiniteSet(T) /\ Cardinality(T) = MaxLog - 1
    <3>1. free \in Places
      BY <2>0
    <3> HIDE DEF Places, free
    <3> QED
      BY <2>5, <3>1, FS_RemoveElement
  <2>7. Cardinality(1 .. Len(log)) = Len(log)
    BY <2>0, FS_Interval
  <2>8. Cardinality(1 .. Len(log)) <= Cardinality(T)
    <3> HIDE DEF f, T
    <3> QED
      BY <2>4, <2>6, FS_Injection
  <2> QED
    BY <2>0, <2>5, <2>6, <2>7, <2>8
<1> QED
  BY <1>1, <1>2, <1>3, PTL DEF Spec
=============================================================================
