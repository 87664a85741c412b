--------------------------- MODULE EndToEndProofs ---------------------------
(***************************************************************************)
(* Theorems about EndToEnd: the certificate files behave as in             *)
(* ServerCredentials, the poll loop outlasts its timeout by a bounded      *)
(* time, and the program serves only what its vehicle trusts.              *)
(***************************************************************************)
EXTENDS EndToEnd, TLAPS

\* The theorems of ServerCredentials, for these callers.
CP == INSTANCE CredentialsProofs

LEMMA CredentialsAssumed == CP!CredentialsAssumption
BY EndToEndAssumption DEF CP!CredentialsAssumption, Arguments, MayCrash

-----------------------------------------------------------------------------
(* The two instances of ServerCredentials are one *)

LEMMA SameFiles ==
    /\ Creds!Absent = CP!Absent /\ Creds!Torn = CP!Torn /\ Creds!Files = CP!Files
    /\ Creds!Resting = CP!Resting
    /\ \A f : /\ Creds!Exists(f) <=> CP!Exists(f)
              /\ Creds!Intact(f) <=> CP!Intact(f)
              /\ Creds!Good(f) = CP!Good(f)
BY DEF Creds!Absent, CP!Absent, Creds!Torn, CP!Torn, Creds!Content, CP!Content,
       Creds!NoKey, CP!NoKey, Creds!Files, CP!Files, Creds!CaFiles, CP!CaFiles,
       Creds!LeafFiles, CP!LeafFiles, Creds!Exists, CP!Exists, Creds!Intact, CP!Intact,
       Creds!Good, CP!Good, Creds!Key, CP!Key, Creds!Cert, CP!Cert,
       Creds!Resting, CP!Resting

LEMMA SameInit == Creds!Init <=> CP!Init
BY Zenon DEF Creds!Init, CP!Init, Creds!Files, CP!Files, Creds!CaFiles, CP!CaFiles,
     Creds!LeafFiles, CP!LeafFiles, Creds!Absent, CP!Absent, Creds!Content, CP!Content,
     Creds!NoKey, CP!NoKey, Creds!Idle, CP!Idle

LEMMA SameTypes == Creds!TypeOK <=> CP!TypeOK
BY SameFiles, Zenon DEF Creds!TypeOK, CP!TypeOK, Creds!Calls, CP!Calls,
     Creds!Mishaps, CP!Mishaps, Creds!Looking, CP!Looking, Creds!Writing, CP!Writing,
     Creds!Idle, CP!Idle, Creds!NoKey, CP!NoKey

LEMMA SameActions ==
    /\ \A c, op, arg : Creds!Begin(c, op, arg) <=> CP!Begin(c, op, arg)
    /\ \A c : Creds!Step(c) <=> CP!Step(c)
    /\ \A dead : Creds!Crash(dead) <=> CP!Crash(dead)
    /\ \A some : Creds!Delete(some) <=> CP!Delete(some)
<1> USE DEF Creds!Resting, CP!Resting, Creds!Idle, CP!Idle, Creds!NoKey, CP!NoKey,
            Creds!Absent, CP!Absent, Creds!Torn, CP!Torn, Creds!Content, CP!Content,
            Creds!Exists, CP!Exists, Creds!Intact, CP!Intact, Creds!At, CP!At,
            Creds!Goto, CP!Goto, Creds!Raise, CP!Raise, Creds!Generate, CP!Generate,
            Creds!Files, CP!Files, Creds!CaFiles, CP!CaFiles,
            Creds!LeafFiles, CP!LeafFiles, Creds!Writing, CP!Writing,
            Creds!Creating, CP!Creating, Creds!WritingLeaf, CP!WritingLeaf
<1>1. \A c, op, arg : Creds!Begin(c, op, arg) <=> CP!Begin(c, op, arg)
  BY Zenon DEF Creds!Begin, CP!Begin
<1>2. \A c : Creds!LookForCaCert(c) <=> CP!LookForCaCert(c)
  BY Zenon DEF Creds!LookForCaCert, CP!LookForCaCert
<1>3. \A c : Creds!LookForCaKey(c) <=> CP!LookForCaKey(c)
  BY Zenon DEF Creds!LookForCaKey, CP!LookForCaKey
<1>4. \A c : /\ Creds!LookForLeaf(c) <=> CP!LookForLeaf(c)
             /\ Creds!LookAtLeaf(c) <=> CP!LookAtLeaf(c)
             /\ Creds!LoadCaCert(c) <=> CP!LoadCaCert(c)
  BY Zenon DEF Creds!LookForLeaf, CP!LookForLeaf, Creds!LookAtLeaf, CP!LookAtLeaf,
     Creds!LoadCaCert, CP!LoadCaCert
<1>5. \A c : Creds!Sign(c) <=> CP!Sign(c)
  BY Zenon DEF Creds!Sign, CP!Sign
<1>6. \A c : /\ Creds!OpenFile(c) <=> CP!OpenFile(c)
             /\ Creds!WriteFile(c) <=> CP!WriteFile(c)
  BY Zenon DEF Creds!OpenFile, CP!OpenFile, Creds!WriteFile, CP!WriteFile,
     Creds!Text, CP!Text, Creds!After, CP!After, Creds!Key, CP!Key, Creds!Cert, CP!Cert
<1>7. \A c : Creds!Step(c) <=> CP!Step(c)
  BY <1>2, <1>3, <1>4, <1>5, <1>6, Zenon DEF Creds!Step, CP!Step
<1>8. \A dead : Creds!Crash(dead) <=> CP!Crash(dead)
  BY Zenon DEF Creds!Crash, CP!Crash
<1>9. \A some : Creds!Delete(some) <=> CP!Delete(some)
  BY Zenon DEF Creds!Delete, CP!Delete, Creds!Quiet, CP!Quiet
<1> QED
  BY <1>1, <1>7, <1>8, <1>9

-----------------------------------------------------------------------------
(* What a step does to the certificate files *)

\* The operator deletes files: all calls are over.
AllOver ==
    /\ call' = [c \in Callers |-> CP!Idle]
    /\ \A f \in CP!Files : files'[f] \in {files[f], CP!Absent}
    /\ mishaps \subseteq mishaps'

Rotating ==
    \/ CP!Step(Rotator)
    \/ \E arg \in Arguments : CP!Begin(Rotator, "rotate", arg)

\* A step of the program itself that leaves the files alone.
Proceeds ==
    \/ BuildBody \/ DryRun \/ WakeUp \/ Push \/ Get \/ Sleep \/ Serve \/ Sync
    \/ stage' = "off" /\ call[Program].at \in CP!Resting
          /\ UNCHANGED <<credentials, body, presented, elapsed, outside>>

\* The process of the program ends in the middle of ensure().
ProgramDies ==
    /\ CP!CutShort /\ call'[Program].at \in CP!Resting
    /\ stage' = "off" /\ UNCHANGED <<body, presented, elapsed, outside>>

LEMMA StepKinds ==
    ASSUME [Next]_vars
    PROVE  \/ Run \/ Ensuring
           \/ Rotating /\ UNCHANGED <<program, outside>>
           \/ (AllOver \/ CP!CutShort) /\ UNCHANGED <<program, outside>>
           \/ ProgramDies
           \/ Proceeds
           \/ UNCHANGED vars
<1>1. \A dead \in SUBSET Callers : CP!Crash(dead) => CP!CutShort
  BY CredentialsAssumed, CP!CrashCutsShort
<1>2. \A some : CP!Delete(some) => AllOver
  BY DEF CP!Delete, AllOver
<1>3. Interrupted => ProgramDies \/ Proceeds
  <2>1. ASSUME Creds!Crash({Program}) PROVE CP!CutShort /\ call'[Program].at \in CP!Resting
    <3>1. CP!Crash({Program}) /\ {Program} \in SUBSET Callers
      BY <2>1, SameActions DEF Callers
    <3>2. call'[Program] = CP!Idle
      BY <3>1 DEF CP!Crash
    <3> QED
      BY <1>1, <3>1, <3>2 DEF CP!Idle, CP!Resting
  <2> QED
    BY <2>1, SameFiles DEF Interrupted, ProgramDies, Proceeds
<1>4. Rotate => (Rotating \/ CP!CutShort) /\ UNCHANGED <<program, outside>>
  <2>1. {Rotator} \in SUBSET Callers
    BY DEF Callers
  <2> QED
    BY <1>1, <2>1, SameActions DEF Rotate, Rotating, Arguments
<1>5. Delete => AllOver /\ UNCHANGED <<program, outside>>
  BY <1>2, SameActions DEF Delete
<1> QED
  BY <1>3, <1>4, <1>5 DEF Next, Proceeds

LEMMA CredentialsStep == [Next]_vars => [CP!Next]_(CP!vars)
<1> SUFFICES ASSUME [Next]_vars PROVE [CP!Next]_(CP!vars)
  OBVIOUS
<1>1. Program \in Callers /\ Rotator \in Callers
  BY DEF Callers
<1>2. ASSUME NEW c \in Callers, CP!Step(c) PROVE CP!Next
  BY <1>2 DEF CP!Next
<1>3. ASSUME NEW c \in Callers, NEW op \in {"ensure", "rotate"}, NEW arg \in Arguments,
             CP!Begin(c, op, arg)
      PROVE  CP!Next
  BY <1>3 DEF CP!Next
<1>4. CASE Run
  BY <1>1, <1>3, <1>4, SameActions DEF Run, Arguments
<1>5. CASE Ensuring
  BY <1>1, <1>2, <1>5, SameActions DEF Ensuring
<1>6. CASE Interrupted \/ Rotate
  <2>1. ASSUME NEW dead \in SUBSET Callers, CP!Crash(dead) PROVE CP!Next
    BY <2>1 DEF CP!Next
  <2>2. {Program} \in SUBSET Callers /\ {Rotator} \in SUBSET Callers
    BY <1>1
  <2> QED
    BY <1>1, <1>2, <1>3, <1>6, <2>1, <2>2, SameActions
    DEF Interrupted, Rotate, Arguments, credentials, CP!vars
<1>7. CASE Delete
  BY <1>7, SameActions, SameFiles DEF Delete, CP!Next
<1>8. CASE Proceeds \/ UNCHANGED vars
  BY <1>8 DEF Proceeds, BuildBody, DryRun, WakeUp, Push, Get, Sleep, Serve, Sync,
              credentials, vars, CP!vars
<1> QED
  BY <1>4, <1>5, <1>6, <1>7, <1>8 DEF Next, Proceeds

\* The certificate files of the example are those of ServerCredentials, ...
THEOREM UsesServerCredentials == Spec => CP!Spec
<1>1. Init => CP!Init
  BY SameInit DEF Init
<1> QED
  BY <1>1, CredentialsStep, PTL DEF Spec, CP!Spec

\* ... so what is promised of those holds of it as well: the pairs belong
\* together, the leaf chains to the CA, and the CA is never replaced.
THEOREM CredentialsKept ==
    Spec => /\ [](CP!CaIsPaired /\ CP!LeafIsPaired /\ CP!LeafChainsToCa)
            /\ CP!CaIsNeverReplaced
BY UsesServerCredentials, CredentialsAssumed, CP!CaPaired, CP!LeafPaired, CP!LeafChains,
   CP!CaNeverReplaced, PTL
-----------------------------------------------------------------------------
(* Types *)

\* What is known of the certificate files.
CredentialsInv ==
    /\ CP!IInv
    /\ "two CAs" \notin mishaps => CP!Chained
    /\ CP!CreatesNoCa(Rotator)

LEMMA CredentialsInvType == CredentialsInv => CP!TInv /\ CP!TypeOK
BY DEF CredentialsInv, CP!IInv, CP!TInv

LEMMA OnlyOneMoves ==
    ASSUME CP!TInv, NEW c \in Callers,
           \/ CP!Step(c)
           \/ \E op \in {"ensure", "rotate"}, arg \in Arguments : CP!Begin(c, op, arg)
    PROVE  \A d \in Callers \ {c} : call'[d] = call[d]
BY CredentialsAssumed, CP!StepKinds

LEMMA RotatorApart == CredentialsInv /\ [Next]_vars => CP!CreatesNoCa(Rotator)'
<1> SUFFICES ASSUME CredentialsInv, [Next]_vars PROVE CP!CreatesNoCa(Rotator)'
  OBVIOUS
<1>1. CP!TInv /\ Program \in Callers /\ Rotator \in Callers /\ Rotator # Program
  BY CredentialsInvType DEF Callers, Program, Rotator
<1>2. CASE Rotating
  BY <1>1, <1>2, CredentialsAssumed, CP!RotateCreatesNoCa DEF Rotating, CredentialsInv
<1>3. CASE call'[Rotator] = call[Rotator]
  BY <1>3 DEF CredentialsInv, CP!CreatesNoCa, CP!At
<1>4. CASE AllOver
  <2>1. call'[Rotator] = CP!Idle
    BY <1>1, <1>4 DEF AllOver
  <2>2. CP!Idle.at = "idle" /\ CP!Idle.fresh = FALSE
    BY DEF CP!Idle
  <2> QED
    BY <2>1, <2>2 DEF CP!CreatesNoCa, CP!At
<1>7. CASE CP!CutShort
  <2>1. call'[Rotator] \in {call[Rotator], CP!Idle}
    BY <1>1, <1>7 DEF CP!CutShort
  <2>2. CP!Idle.at = "idle" /\ CP!Idle.fresh = FALSE
    BY DEF CP!Idle
  <2>3. CASE call'[Rotator] = CP!Idle
    BY <2>2, <2>3 DEF CP!CreatesNoCa, CP!At
  <2> QED
    BY <1>3, <2>1, <2>3
<1>5. CASE Run \/ Ensuring
  <2>1. \/ CP!Step(Program)
        \/ \E op \in {"ensure", "rotate"}, arg \in Arguments : CP!Begin(Program, op, arg)
    BY <1>5, SameActions DEF Run, Ensuring, Arguments
  <2> QED
    BY <1>1, <1>3, <2>1, OnlyOneMoves
<1>6. CASE Proceeds \/ UNCHANGED vars
  BY <1>3, <1>6 DEF Proceeds, BuildBody, DryRun, WakeUp, Push, Get, Sleep, Serve, Sync,
                    credentials, vars
<1> QED
  BY <1>2, <1>4, <1>5, <1>6, <1>7, StepKinds DEF ProgramDies

LEMMA NextCredentials == CredentialsInv /\ [Next]_vars => CredentialsInv'
<1> SUFFICES ASSUME CredentialsInv, [Next]_vars PROVE CredentialsInv'
  OBVIOUS
<1>1. [CP!Next]_(CP!vars)
  BY CredentialsStep
<1>2. CP!IInv'
  BY <1>1, CredentialsAssumed, CP!NextInvariant DEF CredentialsInv
<1>3. ("two CAs" \notin mishaps => CP!Chained)'
  BY <1>1, CredentialsAssumed, CP!NextKeepsChained DEF CredentialsInv
<1> QED
  BY <1>2, <1>3, RotatorApart DEF CredentialsInv

LEMMA InitCredentials == Init => CredentialsInv
<1> SUFFICES ASSUME Init PROVE CredentialsInv
  OBVIOUS
<1>1. CP!Init
  BY SameInit DEF Init
<1>2. CP!IInv /\ CP!Chained
  BY <1>1, CredentialsAssumed, CP!InitInvariant, CP!InitChained
<1>3. call[Rotator].at = "idle" /\ call[Rotator].fresh = FALSE
  BY <1>1 DEF CP!Init, CP!Idle, Callers
<1> QED
  BY <1>2, <1>3 DEF CredentialsInv, CP!CreatesNoCa, CP!At

Body == CP!Good("ca.pem") \cup {CP!Absent, CP!Torn}
Leaf == CP!Good("server.pem") \cup {CP!Absent}

\* TypeOK, without the files.
ProgramTypes ==
    /\ stage \in Stages
    /\ body \in Body /\ registered \in Body /\ trusted \in Body
    /\ presented \in Leaf
    /\ elapsed \in 0 .. MaxElapsed
    /\ stage # "ensuring" => call[Program].at \in CP!Resting

LEMMA TypesSplit == TypeOK <=> CP!TypeOK /\ ProgramTypes
BY SameTypes, SameFiles DEF TypeOK, ProgramTypes, Body, Leaf

LEMMA BodiesGrow ==
    ASSUME CredentialsInv, [Next]_vars
    PROVE  Body \subseteq Body' /\ Leaf \subseteq Leaf'
<1>1. CP!TInv /\ [CP!Next]_(CP!vars)
  BY CredentialsInvType, CredentialsStep
<1>2. keys \in Nat /\ keys' \in Nat /\ keys <= keys'
  <2>1. keys \in Nat
    BY <1>1, CredentialsInvType, EndToEndAssumption DEF CP!TypeOK
  <2> QED
    BY <1>1, <2>1, CredentialsAssumed, CP!KeysGrow
<1>3. \A f : CP!Good(f) \subseteq CP!Good(f)'
  BY <1>2, CredentialsAssumed, CP!GoodGrows
<1> QED
  BY <1>3 DEF Body, Leaf, CP!Absent, CP!Torn, CP!Content, CP!NoKey

\* A file of the CA that exists may become a body, and an intact leaf be presented.
LEMMA FilesFit ==
    ASSUME CredentialsInv
    PROVE  /\ files["ca.pem"] \in Body
           /\ CP!Intact("server.pem") => files["server.pem"] \in Leaf
<1>1. /\ files["ca.pem"] \in CP!Good("ca.pem") \cup {CP!Absent, CP!Torn}
      /\ files["server.pem"] \in CP!Good("server.pem") \cup {CP!Absent, CP!Torn}
  BY CredentialsInvType DEF CP!TypeOK, CP!Files, CP!CaFiles, CP!LeafFiles
<1> QED
  BY <1>1 DEF Body, Leaf, CP!Intact

LEMMA PassType ==
    ASSUME NEW d \in Nat, Pass(d), elapsed \in 0 .. MaxElapsed
    PROVE  elapsed' \in 0 .. MaxElapsed
BY EndToEndAssumption DEF Pass

LEMMA ProceedsType ==
    ASSUME CredentialsInv, ProgramTypes, Proceeds
    PROVE  ProgramTypes'
<1>1. UNCHANGED keys
  BY DEF Proceeds, BuildBody, DryRun, WakeUp, Push, Get, Sleep, Serve, Sync, credentials
<1>2. Body' = Body /\ Leaf' = Leaf
  BY <1>1 DEF Body, Leaf, CP!Good, CP!Absent, CP!Torn, CP!Content, CP!NoKey
<1>3. UNCHANGED call
  BY DEF Proceeds, BuildBody, DryRun, WakeUp, Push, Get, Sleep, Serve, Sync, credentials
<1>4. stage \in {"ensured", "ready", "pushing", "polling", "sleeping", "synced"}
         => call[Program].at \in CP!Resting
  BY DEF ProgramTypes
<1>5. CASE BuildBody
  BY <1>2, <1>3, <1>4, <1>5, FilesFit DEF BuildBody, CaCertificatePem, ProgramTypes, Stages,
                                     outside
<1>6. CASE DryRun \/ WakeUp \/ Push
  BY <1>2, <1>3, <1>4, <1>6 DEF DryRun, WakeUp, Push, ProgramTypes, Stages, outside
<1>7. CASE Get
  <2>1. MaxRequest \in Nat
    BY EndToEndAssumption
  <2>2. elapsed' \in 0 .. MaxElapsed
    BY <1>7, <2>1, PassType DEF Get, ProgramTypes
  <2>3. stage' \in Stages /\ UNCHANGED <<body, presented, registered, trusted>>
    BY <1>7 DEF Get, Stages, outside
  <2> QED
    BY <1>2, <1>3, <1>4, <1>7, <2>2, <2>3 DEF ProgramTypes, Get
<1>8. CASE Sleep
  <2>1. elapsed' \in 0 .. MaxElapsed
    BY <1>8, PassType DEF Sleep, ProgramTypes
  <2> QED
    BY <1>2, <1>3, <1>4, <1>8, <2>1 DEF ProgramTypes, Sleep, Stages, outside
<1>9. CASE Serve
  <2>1. presented' \in SslContext => presented' \in Leaf
    BY FilesFit, SameFiles DEF SslContext
  <2> QED
    BY <1>2, <1>3, <1>4, <1>9, <2>1 DEF ProgramTypes, Serve, Stages, outside
<1>10. CASE Sync
  BY <1>2, <1>3, <1>10 DEF ProgramTypes, Sync, program
<1>11. CASE /\ stage' = "off" /\ call[Program].at \in CP!Resting
            /\ UNCHANGED <<credentials, body, presented, elapsed, outside>>
  BY <1>2, <1>3, <1>11 DEF ProgramTypes, Stages, outside
<1> QED
  BY <1>5, <1>6, <1>7, <1>8, <1>9, <1>10, <1>11 DEF Proceeds

\* What a step of ensure() means to the program.
LEMMA EnsuringShape ==
    ASSUME Ensuring
    PROVE  /\ stage = "ensuring" /\ CP!Step(Program)
           /\ UNCHANGED <<body, presented, elapsed, registered, trusted>>
           /\ stage' \in {"ensured", "off", "ensuring"}
           /\ stage' # "ensuring" => call'[Program].at \in CP!Resting
<1>1. CASE call'[Program].at = "ok"
  BY <1>1, SameActions DEF Ensuring, outside, CP!Resting
<1>2. CASE call'[Program].at = "error"
  BY <1>2, SameActions DEF Ensuring, outside, CP!Resting
<1>3. CASE call'[Program].at \notin {"ok", "error"}
  BY <1>3, SameActions DEF Ensuring, outside, CP!Resting
<1> QED
  BY <1>1, <1>2, <1>3

LEMMA NextTypes == CredentialsInv /\ ProgramTypes /\ [Next]_vars => ProgramTypes'
<1> SUFFICES ASSUME CredentialsInv, ProgramTypes, [Next]_vars PROVE ProgramTypes'
  OBVIOUS
<1>1. Body \subseteq Body' /\ Leaf \subseteq Leaf'
  BY BodiesGrow
<1>2. CP!TInv /\ Program \in Callers /\ Rotator \in Callers /\ Rotator # Program
  BY CredentialsInvType DEF Callers, Program, Rotator
<1>3. CASE Run
  BY <1>1, <1>3, EndToEndAssumption DEF Run, ProgramTypes, Stages, outside, Leaf,
     Creds!Absent, CP!Absent, Creds!Content, CP!Content, Creds!NoKey, CP!NoKey
<1>4. CASE Ensuring
  BY <1>1, <1>4, EnsuringShape DEF ProgramTypes, Stages
<1>5. CASE Rotating /\ UNCHANGED <<program, outside>>
  <2>1. call'[Program] = call[Program]
    BY <1>2, <1>5, OnlyOneMoves DEF Rotating
  <2> QED
    BY <1>1, <1>5, <2>1 DEF ProgramTypes, program, outside
<1>6. CASE (AllOver \/ CP!CutShort) /\ UNCHANGED <<program, outside>>
  <2>1. call'[Program] = call[Program] \/ call'[Program].at = "idle"
    <3>1. CASE AllOver
      BY <1>2, <3>1 DEF AllOver, CP!Idle
    <3>2. CASE CP!CutShort
      BY <1>2, <3>2, CredentialsAssumed, CP!CutShortCalls
    <3> QED
      BY <1>6, <3>1, <3>2
  <2>2. stage # "ensuring" => call'[Program].at \in CP!Resting
    BY <2>1 DEF ProgramTypes, CP!Resting
  <2> QED
    BY <1>1, <1>6, <2>2 DEF ProgramTypes, program, outside
<1>7. CASE ProgramDies
  BY <1>1, <1>7 DEF ProgramDies, ProgramTypes, Stages, outside
<1>8. CASE Proceeds
  BY <1>8, ProceedsType
<1>9. CASE UNCHANGED vars
  BY <1>1, <1>9 DEF ProgramTypes, vars, credentials, program, outside
<1> QED
  BY <1>3, <1>4, <1>5, <1>6, <1>7, <1>8, <1>9, StepKinds

LEMMA InitTypes == Init => ProgramTypes
<1> SUFFICES ASSUME Init PROVE ProgramTypes
  OBVIOUS
<1>1. CP!Init /\ Program \in Callers
  BY SameInit DEF Init, Callers
<1>2. call[Program].at \in CP!Resting
  BY <1>1 DEF CP!Init, CP!Idle, CP!Resting
<1> QED
  BY <1>2, SameFiles, EndToEndAssumption DEF Init, ProgramTypes, Stages, Body, Leaf

LEMMA TypesInvariant == Spec => [](CredentialsInv /\ ProgramTypes)
<1>1. Init => CredentialsInv /\ ProgramTypes
  BY InitCredentials, InitTypes
<1>2. CredentialsInv /\ ProgramTypes /\ [Next]_vars => (CredentialsInv /\ ProgramTypes)'
  BY NextCredentials, NextTypes
<1> QED
  BY <1>1, <1>2, PTL DEF Spec

\* Every config body is a certificate of the CA, or one that was cut short, what is
\* presented is a leaf, and the program is inside ensure() only while it waits.
THEOREM TypeCorrect == Spec => []TypeOK
<1>1. CredentialsInv /\ ProgramTypes => TypeOK
  BY TypesSplit, CredentialsInvType
<1> QED
  BY <1>1, TypesInvariant, PTL

-----------------------------------------------------------------------------
(* The deadline *)

\* How late it may be: the deadline is looked at after every request, and what
\* comes between two looks is one sleep and one request.
Clock ==
    /\ stage \in {"ensuring", "ensured", "ready", "pushing"} => elapsed = 0
    /\ stage = "polling" => elapsed < SyncTimeout + 1
    /\ stage = "sleeping" => elapsed < SyncTimeout
    /\ OverrunBounded

LEMMA NextClock == ProgramTypes /\ Clock /\ [Next]_vars => Clock'
<1> SUFFICES ASSUME ProgramTypes, Clock, [Next]_vars PROVE Clock'
  OBVIOUS
<1>1. /\ SyncTimeout \in Nat /\ MaxRequest \in Nat /\ MaxElapsed \in Nat
      /\ SyncTimeout + 1 + MaxRequest <= MaxElapsed
  BY EndToEndAssumption
<1>2. elapsed \in Nat
  BY <1>1 DEF ProgramTypes
<1>3. CASE Get
  <2>1. PICK d \in 0 .. MaxRequest : Pass(d)
    BY <1>3 DEF Get
  <2>2. elapsed + d < SyncTimeout + 1 + MaxRequest /\ stage = "polling"
    BY <1>1, <1>2, <1>3, <2>1 DEF Clock, Get
  <2>3. elapsed' = elapsed + d
    BY <1>1, <1>2, <2>1, <2>2 DEF Pass
  <2>4. \/ stage' = "synced"
        \/ stage' = "off"
        \/ stage' = "sleeping" /\ ~(elapsed' >= SyncTimeout)
    BY <1>3 DEF Get
  <2> QED
    BY <1>1, <1>2, <2>2, <2>3, <2>4 DEF Clock, OverrunBounded
<1>4. CASE Sleep
  <2>1. elapsed' = elapsed + 1 /\ stage = "sleeping" /\ stage' = "polling"
    BY <1>1, <1>2, <1>4 DEF Sleep, Pass, Clock
  <2> QED
    BY <1>1, <1>2, <2>1 DEF Clock, OverrunBounded
<1>5. CASE Run
  BY <1>1, <1>5 DEF Run, Clock, OverrunBounded
<1>6. CASE Ensuring
  BY <1>1, <1>6, EnsuringShape DEF Clock, OverrunBounded
<1>7. CASE BuildBody \/ DryRun \/ WakeUp \/ Push \/ Serve \/ Sync
  BY <1>1, <1>7 DEF BuildBody, DryRun, WakeUp, Push, Serve, Sync, Clock, OverrunBounded, program
<1>8. CASE /\ stage' = "off" /\ UNCHANGED elapsed
  BY <1>1, <1>8 DEF Clock, OverrunBounded
<1>9. CASE UNCHANGED program
  BY <1>9 DEF program, Clock, OverrunBounded
<1> QED
  BY <1>3, <1>4, <1>5, <1>6, <1>7, <1>8, <1>9, StepKinds DEF Proceeds, ProgramDies, vars

\* _poll_until_synced ends less than one sleep and one request after its timeout,
\* for every timeout, every length of a request, and however requests fail.
THEOREM OverrunIsBounded == Spec => []OverrunBounded
<1>1. Init => Clock
  BY EndToEndAssumption DEF Init, Clock, OverrunBounded
<1>2. Clock => OverrunBounded
  BY DEF Clock
<1> QED
  BY <1>1, <1>2, NextClock, TypesInvariant, PTL DEF Spec

-----------------------------------------------------------------------------
(* What the vehicle trusts *)

\* The inductive invariant behind ServedIsTrusted: what is on disk answers to the
\* certificate in the config body, whoever rotates or deletes meanwhile; the body
\* is what is registered, and, once synced, what the vehicle trusts.
Trust ==
    /\ stage \in {"ready", "pushing", "polling", "sleeping", "synced"} => CP!Answers(body)
    /\ stage \in {"polling", "sleeping", "synced"} => registered = body
    /\ stage = "synced" => trusted = registered

\* No call creates a CA but ensure() of the program.
LEMMA NoneCreates ==
    ASSUME CredentialsInv, ProgramTypes, stage # "ensuring"
    PROVE  \A c \in Callers : ~CP!Creating(c)
BY DEF CredentialsInv, ProgramTypes, CP!CreatesNoCa, CP!Creating, Callers

\* A step of the rotator or the operator, or a crash.
LEMMA AnswersStay ==
    ASSUME CredentialsInv, CP!Chained, Rotating \/ AllOver \/ CP!CutShort,
           NEW ca, CP!Answers(ca)
    PROVE  CP!Answers(ca)'
<1>1. CASE Rotating
  <2>1. \/ CP!Step(Rotator)
        \/ \E op \in {"ensure", "rotate"}, arg \in Arguments : CP!Begin(Rotator, op, arg)
    BY <1>1 DEF Rotating
  <2>2. CP!TInv /\ Rotator \in Callers /\ CP!CreatesNoCa(Rotator)
    BY CredentialsInvType DEF Callers, CredentialsInv
  <2> QED
    BY <2>1, <2>2, CredentialsAssumed, CP!StepKeepsAnswers
<1>2. CASE AllOver
  BY <1>2, CredentialsAssumed, CP!IdleKeepsAnswers DEF AllOver
<1>3. CASE CP!CutShort
  BY <1>3, CredentialsAssumed, CP!CutShortKeepsAnswers
<1> QED
  BY <1>1, <1>2, <1>3

LEMMA BuildBodyKeepsTrust ==
    ASSUME CredentialsInv, ProgramTypes, CP!CaInv, CP!Chained, BuildBody
    PROVE  Trust'
<1>1. CASE stage' = "off"
  BY <1>1 DEF Trust
<1>2. CASE stage' # "off"
  <2>1. stage = "ensured" /\ stage' = "ready" /\ body' \in CaCertificatePem
    BY <1>2 DEF BuildBody
  <2>2. CP!Exists("ca.pem") /\ body' = files["ca.pem"]
    BY <2>1, SameFiles DEF CaCertificatePem, CP!Exists
  <2>3. CP!TInv /\ \A c \in Callers : ~CP!Creating(c)
    BY <2>1, CredentialsInvType, NoneCreates
  <2>4. CP!Answers(files["ca.pem"])
    BY <2>2, <2>3, CredentialsAssumed, CP!CaAnswers
  <2>5. PICK ca : ca = files["ca.pem"]
    OBVIOUS
  <2>6. UNCHANGED <<files, call, mishaps>>
    BY DEF BuildBody, credentials
  <2>7. CP!Answers(ca) /\ body' = ca
    BY <2>2, <2>4, <2>5
  <2>8. CP!Answers(ca)'
    BY <2>6, <2>7 DEF CP!Answers, CP!SpeaksFor, CP!Intact, CP!WritingLeaf
  <2>9. CP!Answers(body)'
    BY <2>7, <2>8 DEF CP!Answers, CP!SpeaksFor
  <2> QED
    BY <2>1, <2>9 DEF Trust
<1> QED
  BY <1>1, <1>2

\* Whenever the body stays and what is on disk keeps answering to it.
LEMMA AnswersBody ==
    ASSUME UNCHANGED body, CP!Answers(body),
           \A ca : CP!Answers(ca) => CP!Answers(ca)'
    PROVE  CP!Answers(body)'
<1>1. PICK ca : ca = body
  OBVIOUS
<1>2. CP!Answers(ca)' /\ body' = ca
  BY <1>1
<1> QED
  BY <1>2 DEF CP!Answers, CP!SpeaksFor

LEMMA AnswersUnchanged ==
    ASSUME UNCHANGED <<files, call, mishaps>>, UNCHANGED body, CP!Answers(body)
    PROVE  CP!Answers(body)'
BY DEF CP!Answers, CP!SpeaksFor, CP!Intact, CP!WritingLeaf

LEMMA NextTrust ==
    ASSUME CredentialsInv, ProgramTypes, Trust, [Next]_vars, "two CAs" \notin mishaps
    PROVE  Trust'
<1>1. CP!CaInv /\ CP!Chained
  BY DEF CredentialsInv, CP!IInv
<1>2. CASE Run \/ Ensuring
  <2>1. stage' \in {"ensuring", "ensured", "off"}
    BY <1>2, EnsuringShape DEF Run
  <2> QED
    BY <2>1 DEF Trust
<1>3. CASE (Rotating \/ AllOver \/ CP!CutShort) /\ UNCHANGED <<program, outside>>
  <2>1. \A ca : CP!Answers(ca) => CP!Answers(ca)'
    BY <1>1, <1>3, AnswersStay
  <2>2. UNCHANGED <<stage, body, registered, trusted>>
    BY <1>3 DEF program, outside
  <2>3. CP!Answers(body) => CP!Answers(body)'
    BY <2>1, <2>2, AnswersBody
  <2> QED
    BY <2>2, <2>3 DEF Trust
<1>4. CASE stage' = "off"
  BY <1>4 DEF Trust
<1>5. CASE BuildBody
  BY <1>1, <1>5, BuildBodyKeepsTrust
<1>6. CASE WakeUp \/ Push \/ Get \/ Sleep \/ Sync \/ UNCHANGED vars
  <2>1. UNCHANGED <<files, call, mishaps>> /\ UNCHANGED body
    BY <1>6 DEF WakeUp, Push, Get, Sleep, Sync, vars, credentials, program
  <2>2. CP!Answers(body) => CP!Answers(body)'
    BY <2>1, AnswersUnchanged
  <2>3. CASE WakeUp
    BY <2>2, <2>3 DEF WakeUp, Trust
  <2>4. CASE Push
    BY <2>1, <2>2, <2>4 DEF Push, Trust
  <2>5. CASE Get \/ Sleep
    BY <2>1, <2>2, <2>5 DEF Get, Sleep, Trust, outside
  <2>6. CASE Sync \/ UNCHANGED vars
    BY <2>2, <2>6 DEF Sync, vars, program, outside, Trust
  <2> QED
    BY <1>6, <2>3, <2>4, <2>5, <2>6
<1>7. CASE Serve
  BY <1>7 DEF Serve, Trust
<1>8. CASE DryRun
  BY <1>4, <1>8 DEF DryRun
<1> QED
  BY <1>2, <1>3, <1>4, <1>5, <1>6, <1>7, <1>8, StepKinds DEF Proceeds, ProgramDies

IInv ==
    /\ CredentialsInv
    /\ ProgramTypes
    /\ "two CAs" \notin mishaps => Trust

LEMMA Invariant == Spec => []IInv
<1>1. Init => IInv
  BY InitCredentials, InitTypes DEF IInv, Init, Trust
<1>2. IInv /\ [Next]_vars => IInv'
  <2> SUFFICES ASSUME IInv, [Next]_vars, "two CAs" \notin mishaps' PROVE Trust'
    BY NextCredentials, NextTypes DEF IInv
  <2>1. "two CAs" \notin mishaps
    <3>1. [CP!Next]_(CP!vars) /\ CP!TInv
      BY CredentialsStep, CredentialsInvType DEF IInv
    <3> QED
      BY <3>1, CredentialsAssumed, CP!MishapsStay
  <2> QED
    BY <2>1, NextTrust DEF IInv
<1> QED
  BY <1>1, <1>2, PTL DEF Spec

\* Whenever the program starts to serve, the CA in the config that its vehicle has
\* taken over is the one that signed the leaf it presents, however often it was
\* run before, the leaf rotated and files deleted, unless a CA was left without a
\* leaf.
THEOREM ServesWhatIsTrusted == Spec => ServedIsTrusted
<1> DEFINE Served ==
      stage # "serving" /\ stage' = "serving" /\ mishaps \cap {"two CAs", "CA without leaf"} = {}
          => trusted'.key = presented'.signer
<1>1. IInv /\ [Next]_vars => Served
  <2> SUFFICES ASSUME IInv, [Next]_vars, stage # "serving", stage' = "serving",
                      "two CAs" \notin mishaps, "CA without leaf" \notin mishaps
               PROVE  trusted'.key = presented'.signer
    OBVIOUS
  <2>1. Serve
    BY StepKinds, EnsuringShape
    DEF Proceeds, ProgramDies, Run, BuildBody, DryRun, WakeUp, Push, Get, Sleep, Sync,
        vars, program
  <2>2. /\ stage = "synced" /\ presented' \in SslContext
        /\ trusted' = trusted
    BY <2>1 DEF Serve, outside
  <2>3. presented' = files["server.pem"] /\ CP!Intact("server.pem")
    BY <2>2, SameFiles DEF SslContext
  <2>4. trusted = body /\ CP!Answers(body)
    BY <2>2 DEF IInv, Trust
  <2>5. files["server.pem"].signer = body.key
    BY <2>3, <2>4 DEF CP!Answers, CP!SpeaksFor
  <2> QED
    BY <2>2, <2>3, <2>4, <2>5
<1>2. Spec => [][Served]_vars
  BY <1>1, Invariant, PTL DEF Spec
<1> QED
  BY <1>2 DEF ServedIsTrusted
=============================================================================
