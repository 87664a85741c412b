------------------------- MODULE CredentialsProofs -------------------------
(***************************************************************************)
(* Theorems about ServerCredentials, for every number of callers, and      *)
(* wherever they crash.                                                    *)
(***************************************************************************)
EXTENDS ServerCredentials, TLAPS

WritingCa(c) == call[c].at \in Writing /\ call[c].file \in CaFiles

\* What a call r needs to know for what it will write to be good, among ks keys.
CallInv(r, ks) ==
    /\ r.at = "sign" => r.arg.fqdn \in Fqdns
    /\ r.at \in Writing =>
          /\ r.key \in 1 .. ks
          /\ r.signer \in 1 .. ks
          /\ r.file \in CaFiles => r.signer = r.key /\ r.fresh
          /\ r.file \in LeafFiles => r.arg.fqdn \in Fqdns

TInv ==
    /\ TypeOK
    /\ files = [f \in Files |-> files[f]]
    /\ \A c \in Callers : CallInv(call[c], keys)

-----------------------------------------------------------------------------
(* Types *)

LEMMA GoodGrows ==
    ASSUME keys \in Nat, keys' \in Nat, keys <= keys'
    PROVE  \A f : Good(f) \subseteq Good(f)'
<1>1. 1 .. keys \subseteq 1 .. keys'
  OBVIOUS
<1> QED
  BY <1>1 DEF Good

LEMMA CallsGrow ==
    ASSUME keys \in Nat, keys' \in Nat, keys <= keys'
    PROVE  Calls \subseteq Calls'
BY DEF Calls

LEMMA IdleType ==
    ASSUME keys \in Nat
    PROVE  Idle \in Calls /\ CallInv(Idle, keys)
BY DEF Idle, Calls, CallInv, Resting, Files, CaFiles, LeafFiles, NoKey, Writing

LEMMA InitType == Init => TInv
<1> SUFFICES ASSUME Init PROVE TInv
  OBVIOUS
<1>1. keys \in 0 .. MaxKeys /\ keys \in Nat /\ mishaps \subseteq Mishaps
  BY CredentialsAssumption DEF Init
<1>2. call \in [Callers -> Calls] /\ \A c \in Callers : CallInv(call[c], keys)
  BY <1>1, IdleType DEF Init
<1>3. /\ files = [f \in Files |-> files[f]]
      /\ \A f \in Files : files[f] \in Good(f) \cup {Absent, Torn}
  BY DEF Init
<1> QED
  BY <1>1, <1>2, <1>3 DEF TInv, TypeOK

\* A step that changes the call of c only, and draws no key.
LEMMA CallChanges ==
    ASSUME TInv, NEW c \in Callers, NEW r \in Calls, CallInv(r, keys),
           call' = [call EXCEPT ![c] = r], UNCHANGED <<files, keys>>,
           mishaps' \subseteq Mishaps
    PROVE  TInv'
<1>1. Calls' = Calls /\ \A f : Good(f)' = Good(f)
  BY DEF Calls, Good
<1>3. call' \in [Callers -> Calls]
  BY DEF TInv, TypeOK
<1>4. \A d \in Callers : call'[d] = IF d = c THEN r ELSE call[d]
  BY DEF TInv, TypeOK
<1>5. \A d \in Callers : CallInv(call'[d], keys')
  BY <1>4 DEF TInv
<1> QED
  BY <1>1, <1>3, <1>5 DEF TInv, TypeOK

LEMMA GotoType ==
    ASSUME TInv, NEW c \in Callers, NEW at \in Looking \cup Resting, Goto(c, at),
           at = "sign" => call[c].arg.fqdn \in Fqdns
    PROVE  TInv'
<1>1. call[c] \in Calls
  BY DEF TInv, TypeOK
<1> DEFINE r == [call[c] EXCEPT !.at = at]
<1>2. r \in Calls /\ CallInv(r, keys)
  BY <1>1 DEF Calls, CallInv, Looking, Resting, Writing
<1>3. call' = [call EXCEPT ![c] = r] /\ UNCHANGED <<files, keys>> /\ mishaps' \subseteq Mishaps
  BY DEF Goto, TInv, TypeOK
<1> HIDE DEF r
<1> QED
  BY <1>2, <1>3, CallChanges

LEMMA RaiseType ==
    ASSUME TInv, NEW c \in Callers, Raise(c)
    PROVE  TInv'
<1>1. call[c] \in Calls
  BY DEF TInv, TypeOK
<1> DEFINE r == [call[c] EXCEPT !.at = "error"]
<1>2. r \in Calls /\ CallInv(r, keys)
  BY <1>1 DEF Calls, CallInv, Looking, Resting, Writing
<1>3. call' = [call EXCEPT ![c] = r] /\ UNCHANGED <<files, keys>> /\ mishaps' \subseteq Mishaps
  BY DEF Raise, TInv, TypeOK, Mishaps
<1> HIDE DEF r
<1> QED
  BY <1>2, <1>3, CallChanges

LEMMA GenerateType ==
    ASSUME TInv, NEW c \in Callers, NEW f \in Files, NEW s, Generate(c, f, s),
           f \in {"ca.key", "server.key"},
           f = "server.key" => s \in 1 .. keys /\ call[c].arg.fqdn \in Fqdns,
           mishaps' \subseteq Mishaps
    PROVE  TInv'
<1>1. /\ call[c] \in Calls /\ keys \in Nat
      /\ keys' = keys + 1 /\ keys' \in 0 .. MaxKeys /\ keys' \in Nat
  BY CredentialsAssumption DEF Generate, TInv, TypeOK
<1>2. Calls \subseteq Calls' /\ \A g : Good(g) \subseteq Good(g)'
  BY <1>1, GoodGrows, CallsGrow
<1> DEFINE r == [call[c] EXCEPT !.at = "open", !.file = f, !.key = keys + 1,
                                !.fresh = @ \/ f = "ca.key",
                                !.signer = IF f = "ca.key" THEN keys + 1 ELSE s]
<1>3. call' = [call EXCEPT ![c] = r] /\ UNCHANGED files
  BY DEF Generate
<1>4. /\ r.at = "open" /\ r.file = f /\ r.key = keys + 1
      /\ r.fresh = (call[c].fresh \/ f = "ca.key")
      /\ r.signer = IF f = "ca.key" THEN keys + 1 ELSE s
      /\ r.arg = call[c].arg /\ r.saw = call[c].saw /\ r.op = call[c].op
  BY <1>1 DEF Calls
<1>5. r \in Calls'
  <2>1. r.signer \in 0 .. keys'
    BY <1>1, <1>4
  <2>2. r.key \in 0 .. keys' /\ r.fresh \in BOOLEAN /\ r.at \in Writing /\ r.file \in Files
    BY <1>1, <1>4 DEF Writing
  <2> QED
    BY <1>1, <2>1, <2>2 DEF Calls
<1> HIDE DEF r
<1>6. CallInv(r, keys')
  <2>1. r.key \in 1 .. keys' /\ r.signer \in 1 .. keys'
    <3>1. keys + 1 \in 1 .. keys' /\ (f = "server.key" => s \in 1 .. keys')
      BY <1>1
    <3> QED
      BY <1>4, <3>1
  <2>2. r.at # "sign" /\ (r.file \in CaFiles <=> f = "ca.key")
    BY <1>4 DEF CaFiles
  <2>3. /\ r.key \in 1 .. keys' /\ r.signer \in 1 .. keys' /\ r.at # "sign"
        /\ r.file \in CaFiles <=> f = "ca.key"
    BY <2>1, <2>2
  <2>4. CASE f = "ca.key"
    <3>1. r.signer = r.key /\ r.fresh /\ r.file \notin LeafFiles
      BY <1>4, <2>4 DEF LeafFiles
    <3> QED
      BY <2>3, <3>1 DEF CallInv
  <2>5. CASE f = "server.key"
    <3>1. r.arg.fqdn \in Fqdns /\ r.file \notin CaFiles
      BY <1>4, <2>3, <2>5
    <3> QED
      BY <2>3, <3>1 DEF CallInv
  <2> QED
    BY <2>4, <2>5
<1>7. \A d \in Callers : call'[d] = IF d = c THEN r ELSE call[d]
  BY <1>3 DEF TInv, TypeOK
<1>8. call' \in [Callers -> Calls']
  BY <1>2, <1>3, <1>5 DEF TInv, TypeOK
<1>9. \A d \in Callers : CallInv(call[d], keys')
  <2> SUFFICES ASSUME NEW d \in Callers PROVE CallInv(call[d], keys')
    OBVIOUS
  <2>1. CallInv(call[d], keys) /\ 1 .. keys \subseteq 1 .. keys'
    BY <1>1 DEF TInv
  <2> QED
    BY <2>1 DEF CallInv
<1>10. \A d \in Callers : CallInv(call'[d], keys')
  BY <1>6, <1>7, <1>9
<1>11. \A g \in Files : files'[g] \in Good(g)' \cup {Absent, Torn}
  BY <1>2, <1>3 DEF TInv, TypeOK
<1>12. files' = [g \in Files |-> files'[g]]
  BY <1>3 DEF TInv
<1> QED
  BY <1>1, <1>8, <1>10, <1>11, <1>12 DEF TInv, TypeOK
\* OpenFile and WriteFile change the call of c and the file it is about.
LEMMA FileType ==
    ASSUME TInv, NEW c \in Callers, NEW r \in Calls, CallInv(r, keys),
           NEW f \in Files, NEW text \in Good(f) \cup {Absent, Torn},
           call' = [call EXCEPT ![c] = r], files' = [files EXCEPT ![f] = text],
           UNCHANGED keys, mishaps' \subseteq Mishaps
    PROVE  TInv'
<1>1. Calls' = Calls /\ \A g : Good(g)' = Good(g)
  BY DEF Calls, Good
<1>2. call' \in [Callers -> Calls]
  BY DEF TInv, TypeOK
<1>3. \A d \in Callers : call'[d] = IF d = c THEN r ELSE call[d]
  BY DEF TInv, TypeOK
<1>4. \A d \in Callers : CallInv(call'[d], keys')
  BY <1>3 DEF TInv
<1>5. files = [g \in Files |-> files[g]]
  BY DEF TInv
<1>6. /\ files' = [g \in Files |-> files'[g]]
      /\ \A g \in Files : files'[g] = IF g = f THEN text ELSE files[g]
  BY <1>5
<1>7. \A g \in Files : files'[g] \in Good(g)' \cup {Absent, Torn}
  BY <1>1, <1>6 DEF TInv, TypeOK
<1> QED
  BY <1>1, <1>2, <1>4, <1>6, <1>7 DEF TInv, TypeOK

LEMMA OpenFileType ==
    ASSUME TInv, NEW c \in Callers, OpenFile(c)
    PROVE  TInv'
<1>1. call[c] \in Calls /\ CallInv(call[c], keys) /\ call[c].at = "open"
  BY DEF TInv, TypeOK, OpenFile, At
<1> DEFINE r == [call[c] EXCEPT !.at = "write"]
<1>2. r \in Calls /\ CallInv(r, keys)
  BY <1>1 DEF Calls, CallInv, Writing
<1>3. /\ call' = [call EXCEPT ![c] = r]
      /\ files' = [files EXCEPT ![call[c].file] = Torn]
      /\ UNCHANGED keys /\ mishaps' \subseteq Mishaps
  BY DEF OpenFile, TInv, TypeOK
<1>4. call[c].file \in Files
  BY <1>1 DEF Calls
<1> HIDE DEF r
<1> QED
  BY <1>2, <1>3, <1>4, FileType

LEMMA WriteFileType ==
    ASSUME TInv, NEW c \in Callers, WriteFile(c)
    PROVE  TInv'
<1>1. call[c] \in Calls /\ CallInv(call[c], keys) /\ call[c].at = "write"
  BY DEF TInv, TypeOK, WriteFile, At
<1>2. call[c].file \in Files
  BY <1>1 DEF Calls
<1>3. /\ call[c].key \in 1 .. keys /\ call[c].signer \in 1 .. keys
      /\ call[c].file \in CaFiles => call[c].signer = call[c].key
      /\ call[c].file \in LeafFiles => call[c].arg.fqdn \in Fqdns
      /\ call[c].file \in CaFiles => call[c].fresh
  BY <1>1 DEF CallInv, Writing
<1>4. Text(call[c]) \in Good(call[c].file)
  <2>1. CASE call[c].file = "ca.pem"
    <3>1. call[c].signer = call[c].key
      BY <1>3, <2>1 DEF CaFiles
    <3> QED
      BY <1>3, <2>1, <3>1 DEF Text, Good
  <2>2. CASE call[c].file = "server.pem"
    <3>1. call[c].arg.fqdn \in Fqdns
      BY <1>3, <2>2 DEF LeafFiles
    <3> QED
      BY <1>3, <2>2, <3>1 DEF Text, Good
  <2>3. CASE call[c].file \in {"ca.key", "server.key"}
    BY <1>3, <2>3 DEF Text, Good
  <2> QED
    BY <1>2, <2>1, <2>2, <2>3 DEF Files, CaFiles, LeafFiles
<1>5. After(call[c]) \in Calls /\ CallInv(After(call[c]), keys)
  <2>1. CASE call[c].file = "ca.key"
    <3>1. After(call[c]) = [call[c] EXCEPT !.at = "open", !.file = "ca.pem"]
      BY <2>1 DEF After
    <3>2. call[c].signer = call[c].key /\ call[c].fresh
      BY <1>3, <2>1 DEF CaFiles
    <3> QED
      BY <1>1, <1>3, <3>1, <3>2 DEF Calls, CallInv, Writing, Files, CaFiles, LeafFiles
  <2>2. CASE call[c].file = "ca.pem"
    <3>1. After(call[c]) = [call[c] EXCEPT !.at = "issue"]
      BY <2>2 DEF After
    <3> QED
      BY <1>1, <3>1 DEF Calls, CallInv, Writing, Looking
  <2>3. CASE call[c].file = "server.key"
    <3>1. After(call[c]) = [call[c] EXCEPT !.at = "open", !.file = "server.pem"]
      BY <2>3 DEF After
    <3>2. call[c].arg.fqdn \in Fqdns
      BY <1>3, <2>3 DEF LeafFiles
    <3> QED
      BY <1>1, <1>3, <3>1, <3>2 DEF Calls, CallInv, Writing, Files, CaFiles, LeafFiles
  <2>4. CASE call[c].file = "server.pem"
    <3>1. After(call[c]) = [call[c] EXCEPT !.at = "ok"]
      BY <2>4 DEF After
    <3> QED
      BY <1>1, <3>1 DEF Calls, CallInv, Writing, Resting
  <2> QED
    BY <1>2, <2>1, <2>2, <2>3, <2>4 DEF Files, CaFiles, LeafFiles
<1>6. /\ call' = [call EXCEPT ![c] = After(call[c])]
      /\ files' = [files EXCEPT ![call[c].file] = Text(call[c])]
      /\ UNCHANGED keys /\ mishaps' \subseteq Mishaps
  BY DEF WriteFile, TInv, TypeOK
<1> QED
  BY <1>2, <1>4, <1>5, <1>6, FileType

\* Some calls end in the middle, none has returned, and nothing else happens.
CutShort ==
    /\ call' = [c \in Callers |-> call'[c]]
    /\ \A c \in Callers : call'[c] \in {call[c], Idle}
    /\ ~SomeOk'
    /\ UNCHANGED <<files, keys>>
    /\ mishaps \subseteq mishaps' /\ mishaps' \subseteq mishaps \cup Mishaps
    /\ "CA without leaf" \notin mishaps' => \A c \in Callers : call'[c] = Idle => ~Creating(c)
    /\ "half a leaf" \notin mishaps' => \A c \in Callers : call'[c] = Idle => ~WritingLeaf(c)

LEMMA CrashCutsShort ==
    ASSUME NEW dead \in SUBSET Callers, Crash(dead)
    PROVE  CutShort
<1>1. \A c \in Callers : call'[c] = IF c \in dead \/ call[c].at \in Resting
                                   THEN Idle ELSE call[c]
  BY DEF Crash
<1>2. \A c \in Callers : call[c].at \in Resting => ~Creating(c) /\ ~WritingLeaf(c)
  BY DEF Creating, WritingLeaf, Resting, Writing
<1>3. Idle.at = "idle" /\ "ok" \in Resting
  BY DEF Idle, Resting
<1>4. ~SomeOk'
  BY <1>1, <1>3 DEF SomeOk, At
<1>5. \A c \in Callers : (Creating(c) \/ WritingLeaf(c)) /\ call'[c] = Idle => c \in dead
  <2>1. \A c \in Callers : call[c] = Idle => call[c].at \in Resting
    BY <1>3 DEF Resting
  <2> QED
    BY <1>1, <1>2, <2>1
<1>6. /\ UNCHANGED <<files, keys>>
      /\ mishaps \subseteq mishaps' /\ mishaps' \subseteq mishaps \cup Mishaps
      /\ call' = [c \in Callers |-> call'[c]]
  BY DEF Crash, Mishaps
<1>7. /\ "CA without leaf" \notin mishaps' => \A c \in dead : ~Creating(c)
      /\ "half a leaf" \notin mishaps' => \A c \in dead : ~WritingLeaf(c)
  BY DEF Crash
<1> QED
  BY <1>1, <1>4, <1>5, <1>6, <1>7 DEF CutShort

LEMMA CutShortCalls ==
    ASSUME CutShort
    PROVE  \A c \in Callers : call'[c] = call[c] \/ call'[c].at = "idle"
<1>1. Idle.at = "idle"
  BY DEF Idle
<1>2. \A c \in Callers : call'[c] \in {call[c], Idle}
  BY DEF CutShort
<1> QED
  BY <1>1, <1>2

LEMMA CutShortType ==
    ASSUME TInv, CutShort
    PROVE  TInv'
<1>0. keys' = keys
  BY DEF CutShort
<1>1. Calls' = Calls /\ \A g : Good(g)' = Good(g)
  BY <1>0 DEF Calls, Good
<1>2. Idle \in Calls /\ CallInv(Idle, keys)
  <2>1. keys \in Nat
    BY CredentialsAssumption DEF TInv, TypeOK
  <2> QED
    BY <2>1, IdleType
<1>3. call' \in [Callers -> Calls] /\ \A d \in Callers : CallInv(call'[d], keys')
  <2>1. \A d \in Callers : call'[d] \in Calls /\ CallInv(call'[d], keys)
    BY <1>2 DEF CutShort, TInv, TypeOK
  <2> QED
    BY <2>1 DEF CutShort
<1> QED
  BY <1>1, <1>3 DEF TInv, TypeOK, CutShort

\* When the operator deletes files, no call is going on.
LEMMA AllIdle ==
    ASSUME TInv, call' = [c \in Callers |-> Idle], UNCHANGED keys,
           mishaps' \subseteq Mishaps,
           files' = [f \in Files |-> files'[f]],
           \A f \in Files : files'[f] \in {files[f], Absent}
    PROVE  TInv'
<1>1. Calls' = Calls /\ \A g : Good(g)' = Good(g)
  BY DEF Calls, Good
<1>2. Idle \in Calls /\ CallInv(Idle, keys) /\ keys \in 0 .. MaxKeys
  <2>1. keys \in Nat /\ keys \in 0 .. MaxKeys
    BY CredentialsAssumption DEF TInv, TypeOK
  <2> QED
    BY <2>1, IdleType
<1>3. call' \in [Callers -> Calls] /\ \A d \in Callers : CallInv(call'[d], keys')
  BY <1>2
<1>4. \A g \in Files : files'[g] \in Good(g)' \cup {Absent, Torn}
  BY <1>1 DEF TInv, TypeOK
<1> QED
  BY <1>1, <1>2, <1>3, <1>4 DEF TInv, TypeOK

LEMMA StepType ==
    ASSUME TInv, NEW c \in Callers, Step(c)
    PROVE  TInv'
<1>1. call[c] \in Calls /\ CallInv(call[c], keys) /\ mishaps \subseteq Mishaps
  BY DEF TInv, TypeOK
<1>2. CASE LookForCaCert(c)
  <2>1. CASE Raise(c)
    BY <2>1, RaiseType
  <2>2. CASE ~Raise(c)
    <3> DEFINE r == [call[c] EXCEPT !.at = "ca.key?", !.saw = Exists("ca.pem")]
    <3>1. r \in Calls /\ CallInv(r, keys)
      BY <1>1 DEF Calls, CallInv, Looking, Writing, Exists
    <3>2. call' = [call EXCEPT ![c] = r] /\ UNCHANGED <<files, keys>> /\ mishaps' \subseteq Mishaps
      BY <1>1, <1>2, <2>2 DEF LookForCaCert
    <3> HIDE DEF r
    <3> QED
      BY <3>1, <3>2, CallChanges
  <2> QED
    BY <2>1, <2>2
<1>3. CASE LookForCaKey(c)
  <2>1. CASE Generate(c, "ca.key", NoKey) /\ mishaps' \subseteq Mishaps
    BY <2>1, GenerateType DEF Files, CaFiles
  <2>2. CASE Goto(c, IF call[c].op = "ensure" THEN "server.pem?" ELSE "issue")
    BY <2>2, GotoType DEF Looking
  <2>3. CASE Raise(c)
    BY <2>3, RaiseType
  <2> QED
    BY <1>1, <1>3, <2>1, <2>2, <2>3 DEF LookForCaKey, Mishaps
<1>4. CASE LookForLeaf(c)
  BY <1>4, GotoType DEF LookForLeaf, Looking
<1>5. CASE LookAtLeaf(c)
  BY <1>5, GotoType, RaiseType DEF LookAtLeaf, Looking, Resting
<1>6. CASE LoadCaCert(c)
  <2>1. call[c].arg.fqdn \in Fqdns \cup {BadFqdn}
    BY <1>1, CredentialsAssumption DEF Calls, Idle
  <2> QED
    BY <1>6, <2>1, GotoType, RaiseType DEF LoadCaCert, Looking
<1>7. CASE Sign(c)
  <2>1. CASE Raise(c)
    BY <2>1, RaiseType
  <2>2. CASE ~Raise(c)
    <3>1. /\ At(c, "sign") /\ Intact("ca.key")
          /\ Generate(c, "server.key", files["ca.key"].key)
          /\ mishaps' \subseteq Mishaps
      BY <1>1, <1>7, <2>2 DEF Sign, Mishaps
    <3>2. files["ca.key"] \in {Key(k) : k \in 1 .. keys}
      <4>1. files["ca.key"] \in Good("ca.key") \cup {Absent, Torn}
        BY DEF TInv, TypeOK, Files, CaFiles
      <4>2. Good("ca.key") = {Key(k) : k \in 1 .. keys}
        BY DEF Good
      <4> QED
        BY <3>1, <4>1, <4>2 DEF Intact
    <3>3. files["ca.key"].key \in 1 .. keys
      BY <3>2 DEF Key, Content
    <3>4. call[c].arg.fqdn \in Fqdns
      BY <1>1, <3>1 DEF At, CallInv
    <3> QED
      BY <3>1, <3>3, <3>4, GenerateType DEF Files, LeafFiles
  <2> QED
    BY <2>1, <2>2
<1> QED
  BY <1>2, <1>3, <1>4, <1>5, <1>6, <1>7, OpenFileType, WriteFileType DEF Step

LEMMA NextType == TInv /\ [Next]_vars => TInv'
<1> SUFFICES ASSUME TInv, [Next]_vars PROVE TInv'
  OBVIOUS
<1>1. ASSUME NEW c \in Callers, NEW op \in {"ensure", "rotate"}, NEW arg \in Arguments,
             Begin(c, op, arg)
      PROVE  TInv'
  <2> DEFINE r == [Idle EXCEPT !.at = "ca.pem?", !.op = op, !.arg = arg]
  <2>1. Idle \in Calls
    <3>1. keys \in Nat
      BY CredentialsAssumption DEF TInv, TypeOK
    <3> QED
      BY <3>1, IdleType
  <2>2. r \in Calls /\ CallInv(r, keys)
    BY <2>1 DEF Calls, CallInv, Looking, Writing
  <2>3. call' = [call EXCEPT ![c] = r] /\ UNCHANGED <<files, keys>> /\ mishaps' \subseteq Mishaps
    BY <1>1 DEF Begin, TInv, TypeOK
  <2> HIDE DEF r
  <2> QED
    BY <2>2, <2>3, CallChanges
<1>2. ASSUME NEW dead \in SUBSET Callers, Crash(dead) PROVE TInv'
  BY <1>2, CrashCutsShort, CutShortType
<1>3. ASSUME NEW some, Delete(some) PROVE TInv'
  BY <1>3, AllIdle DEF Delete, TInv, TypeOK
<1>4. CASE UNCHANGED vars
  BY <1>4 DEF vars, TInv, TypeOK, Calls, Good
<1> QED
  BY <1>1, <1>2, <1>3, <1>4, StepType DEF Next

\* Every file is absent, torn, or of its own kind, and a leaf that is written is
\* for one of the valid names, signed by a key that exists.
THEOREM TypeCorrect == Spec => []TypeOK
<1>1. TInv => TypeOK
  BY DEF TInv
<1> QED
  BY <1>1, InitType, NextType, PTL DEF Spec
-----------------------------------------------------------------------------
(* The CA *)

\* What is on disk while call r writes the CA: it found nothing, and nobody
\* else writes these files.
Halfway(r) ==
    /\ r.file = "ca.key" => /\ files["ca.key"] = IF r.at = "open" THEN Absent ELSE Torn
                            /\ files["ca.pem"] = Absent
    /\ r.file = "ca.pem" => /\ files["ca.key"] = Key(r.key)
                            /\ files["ca.pem"] = IF r.at = "open" THEN Absent ELSE Torn

\* The inductive invariant behind CaIsPaired and CaIsNeverReplaced.  A call
\* that found no certificate finds the key of whoever has created one since;
\* so a call that finds neither is the first to write them.
CaInv ==
    /\ \A c, d \in Callers : Creating(c) /\ Creating(d) => c = d
    /\ \A c \in Callers :
          At(c, "ca.key?") /\ ~call[c].saw /\ Exists("ca.pem") => Exists("ca.key")
    /\ \A c \in Callers : WritingCa(c) => Halfway(call[c])
    /\ Paired("ca.key", "ca.pem")

IInv == TInv /\ ("two CAs" \notin mishaps => CaInv)

\* Whoever writes the CA creates it.
LEMMA WritersCreate ==
    ASSUME TInv, NEW c \in Callers, WritingCa(c)
    PROVE  Creating(c)
<1>1. call[c].fresh /\ call[c].at \notin Resting
  BY DEF TInv, CallInv, WritingCa, Writing, Resting
<1> QED
  BY <1>1 DEF Creating

\* A step of c that leaves the CA alone.
LEMMA CaUntouched ==
    ASSUME TInv, CaInv, NEW c \in Callers,
           \A d \in Callers \ {c} : call'[d] = call[d],
           files'["ca.key"] = files["ca.key"], files'["ca.pem"] = files["ca.pem"],
           Creating(c)' => Creating(c), ~WritingCa(c)',
           At(c, "ca.key?")' /\ ~call'[c].saw => ~Exists("ca.pem")
    PROVE  CaInv'
<1>1. \A a, b \in Callers : Creating(a)' /\ Creating(b)' => a = b
  BY DEF CaInv, Creating
<1>2. ASSUME NEW a \in Callers
      PROVE  At(a, "ca.key?")' /\ ~call'[a].saw /\ Exists("ca.pem")' => Exists("ca.key")'
  BY DEF CaInv, At, Exists
<1>3. ASSUME NEW a \in Callers PROVE WritingCa(a)' => Halfway(call[a])'
  <2>1. CASE a = c
    BY <2>1
  <2>2. CASE a # c
    <3>1. call'[a] = call[a]
      BY <2>2
    <3> QED
      BY <3>1 DEF CaInv, WritingCa, Halfway
  <2> QED
    BY <2>1, <2>2
<1>4. Paired("ca.key", "ca.pem")'
  BY DEF CaInv, Paired, Intact
<1> QED
  BY <1>1, <1>2, <1>3, <1>4 DEF CaInv

\* The steps that look, raise, sign or begin.
LEMMA LookKeepsCa ==
    ASSUME TInv, CaInv, NEW c \in Callers,
           \/ \E op, arg : Begin(c, op, arg)
           \/ LookForCaCert(c) \/ LookForLeaf(c) \/ LookAtLeaf(c)
           \/ LoadCaCert(c) \/ Sign(c)
           \/ At(c, "ca.key?") /\ \E at \in {"server.pem?", "issue"} : Goto(c, at)
           \/ Raise(c)
    PROVE  CaInv'
<1>1. call \in [Callers -> Calls] /\ call[c] \in Calls
  BY DEF TInv, TypeOK
<1>2. UNCHANGED files
  BY DEF Begin, LookForCaCert, LookForLeaf, LookAtLeaf, LoadCaCert, Sign, Goto, Raise,
         Generate
<1>3. \A d \in Callers \ {c} : call'[d] = call[d]
  BY <1>1 DEF Begin, LookForCaCert, LookForLeaf, LookAtLeaf, LoadCaCert, Sign, Goto,
              Raise, Generate
<1>4. CASE \E op, arg : Begin(c, op, arg)
  <2>1. call'[c].at = "ca.pem?" /\ call'[c].fresh = FALSE
    BY <1>1, <1>4 DEF Begin, Idle
  <2> QED
    BY <1>2, <1>3, <2>1, CaUntouched DEF Creating, WritingCa, Writing, At
<1>5. CASE Sign(c) /\ ~Raise(c)
  <2>1. Generate(c, "server.key", files["ca.key"].key) /\ At(c, "sign")
    BY <1>5 DEF Sign
  <2>2. /\ call'[c].at = "open" /\ call'[c].file = "server.key"
        /\ call'[c].fresh = (call[c].fresh \/ "server.key" = "ca.key")
    BY <1>1, <2>1 DEF Generate, Calls
  <2>3. Creating(c)' => Creating(c)
    BY <2>1, <2>2 DEF Creating, At, Resting
  <2> QED
    BY <1>2, <1>3, <2>2, <2>3, CaUntouched DEF WritingCa, CaFiles, At
<1>6. CASE LookForCaCert(c) /\ ~Raise(c)
  <2>1. /\ At(c, "ca.pem?") /\ call'[c].at = "ca.key?"
        /\ call'[c].saw = Exists("ca.pem") /\ call'[c].fresh = call[c].fresh
    BY <1>1, <1>6 DEF LookForCaCert, Calls
  <2>2. Creating(c)' => Creating(c)
    BY <2>1 DEF Creating, At, Resting
  <2> QED
    BY <1>2, <1>3, <2>1, <2>2, CaUntouched DEF WritingCa, Writing
<1>7. ASSUME NEW at \in (Looking \ {"ca.key?"}) \cup Resting, Goto(c, at),
             call[c].at \notin Resting
      PROVE  CaInv'
  <2>1. call'[c].at = at /\ call'[c].fresh = call[c].fresh
    BY <1>1, <1>7 DEF Goto, Calls
  <2>2. at \notin Writing /\ at # "ca.key?"
    BY DEF Looking, Resting, Writing
  <2> QED
    BY <1>2, <1>3, <1>7, <2>1, <2>2, CaUntouched DEF Creating, WritingCa, At
<1>8. CASE Raise(c)
  <2>1. call'[c].at = "error"
    BY <1>1, <1>8 DEF Raise, Calls
  <2> QED
    BY <1>2, <1>3, <2>1, CaUntouched DEF Creating, WritingCa, Writing, At, Resting
<1>9. CASE LookForLeaf(c) \/ LookAtLeaf(c) \/ LoadCaCert(c)
  BY <1>7, <1>8, <1>9 DEF LookForLeaf, LookAtLeaf, LoadCaCert, Looking, Resting, At
<1>10. CASE At(c, "ca.key?") /\ \E at \in {"server.pem?", "issue"} : Goto(c, at)
  <2>1. PICK at \in {"server.pem?", "issue"} : Goto(c, at)
    BY <1>10
  <2> QED
    BY <1>7, <1>10, <2>1 DEF Looking, Resting, At
<1> QED
  BY <1>4, <1>5, <1>6, <1>8, <1>9, <1>10
\* A call that finds neither file is, unless two create a CA, the only one that
\* has to do with these files.
LEMMA CreateKeepsCa ==
    ASSUME TInv, CaInv, NEW c \in Callers, At(c, "ca.key?"), ~call[c].saw,
           ~Exists("ca.key"), Generate(c, "ca.key", NoKey),
           \A d \in Callers \ {c} : ~Creating(d)
    PROVE  CaInv'
<1>1. call \in [Callers -> Calls] /\ call[c] \in Calls
  BY DEF TInv, TypeOK
<1>2. UNCHANGED files /\ \A d \in Callers \ {c} : call'[d] = call[d]
  BY <1>1 DEF Generate
<1>3. call'[c].at = "open" /\ call'[c].file = "ca.key"
  BY <1>1 DEF Generate, Calls
<1>4. ~Exists("ca.pem")
  BY DEF CaInv
<1>5. \A a \in Callers \ {c} : ~Creating(a)' /\ ~WritingCa(a)'
  <2> SUFFICES ASSUME NEW a \in Callers \ {c} PROVE ~Creating(a)' /\ ~WritingCa(a)'
    OBVIOUS
  <2>1. ~Creating(a) /\ ~WritingCa(a) /\ call'[a] = call[a]
    BY <1>2, WritersCreate
  <2> QED
    BY <2>1 DEF Creating, WritingCa
<1>6. \A a, b \in Callers : Creating(a)' /\ Creating(b)' => a = b
  BY <1>5
<1>7. ASSUME NEW a \in Callers PROVE WritingCa(a)' => Halfway(call[a])'
  <2>1. CASE a = c
    BY <1>2, <1>3, <1>4, <2>1 DEF Halfway, Exists
  <2>2. CASE a # c
    BY <1>5, <2>2
  <2> QED
    BY <2>1, <2>2
<1>8. ~Exists("ca.pem")' /\ Paired("ca.key", "ca.pem")'
  BY <1>2, <1>4 DEF Exists, Paired, Intact
<1> QED
  BY <1>6, <1>7, <1>8 DEF CaInv

\* Writing a file of the leaf leaves the CA alone.
LEMMA LeafFileKeepsCa ==
    ASSUME TInv, CaInv, NEW c \in Callers, OpenFile(c) \/ WriteFile(c),
           call[c].file \in LeafFiles
    PROVE  CaInv'
<1>1. call \in [Callers -> Calls] /\ call[c] \in Calls
  BY DEF TInv, TypeOK
<1>2. files = [f \in Files |-> files[f]]
  BY DEF TInv
<1>3. /\ files'["ca.key"] = files["ca.key"] /\ files'["ca.pem"] = files["ca.pem"]
      /\ \A d \in Callers \ {c} : call'[d] = call[d]
  BY <1>1, <1>2 DEF OpenFile, WriteFile, Files, CaFiles, LeafFiles
<1>4. call[c].at \notin Resting
  BY DEF OpenFile, WriteFile, At, Resting
<1>5. CASE OpenFile(c)
  <2>1. /\ call'[c].at = "write" /\ call'[c].file = call[c].file
        /\ call'[c].fresh = call[c].fresh
    BY <1>1, <1>5 DEF OpenFile, Calls
  <2> QED
    BY <1>3, <1>4, <2>1, CaUntouched DEF Creating, WritingCa, At, CaFiles, LeafFiles
<1>6. CASE WriteFile(c)
  <2>1. call'[c] = After(call[c])
    BY <1>1, <1>6 DEF WriteFile
  <2>2. CASE call[c].file = "server.key"
    <3>1. /\ call'[c].at = "open" /\ call'[c].file = "server.pem"
          /\ call'[c].fresh = call[c].fresh
      BY <1>1, <2>1, <2>2 DEF After, Calls
    <3> QED
      BY <1>3, <1>4, <3>1, CaUntouched DEF Creating, WritingCa, At, CaFiles
  <2>3. CASE call[c].file = "server.pem"
    <3>1. call'[c].at = "ok" /\ call'[c].fresh = call[c].fresh
      BY <1>1, <2>1, <2>3 DEF After, Calls
    <3> QED
      BY <1>3, <3>1, CaUntouched DEF Creating, WritingCa, Writing, At, Resting
  <2> QED
    BY <2>2, <2>3 DEF LeafFiles
<1> QED
  BY <1>5, <1>6

\* While c writes the CA, nobody else does, and every call that found no
\* certificate will find the key.
LEMMA CaFileKeepsCa ==
    ASSUME TInv, CaInv, NEW c \in Callers, OpenFile(c) \/ WriteFile(c),
           call[c].file \in CaFiles
    PROVE  CaInv'
<1>1. call \in [Callers -> Calls] /\ call[c] \in Calls
  BY DEF TInv, TypeOK
<1>2. files = [f \in Files |-> files[f]]
  BY DEF TInv
<1>3. \A d \in Callers \ {c} : call'[d] = call[d]
  BY <1>1 DEF OpenFile, WriteFile
<1>4. WritingCa(c) /\ Creating(c) /\ Halfway(call[c])
  <2>1. WritingCa(c)
    BY DEF OpenFile, WriteFile, At, WritingCa, Writing
  <2> QED
    BY <2>1, WritersCreate DEF CaInv
<1>5. \A a \in Callers \ {c} : ~Creating(a)' /\ ~WritingCa(a)'
  <2> SUFFICES ASSUME NEW a \in Callers \ {c} PROVE ~Creating(a)' /\ ~WritingCa(a)'
    OBVIOUS
  <2>1. ~Creating(a) /\ ~WritingCa(a) /\ call'[a] = call[a]
    BY <1>3, <1>4, WritersCreate DEF CaInv
  <2> QED
    BY <2>1 DEF Creating, WritingCa
<1>6. \A a, b \in Callers : Creating(a)' /\ Creating(b)' => a = b
  BY <1>5
<1>7. \A k : Key(k) # Absent /\ Key(k) # Torn /\ Torn # Absent
  BY DEF Key, Absent, Torn, Content
<1>8. /\ Exists("ca.key")'
      /\ Paired("ca.key", "ca.pem")'
      /\ ~At(c, "ca.key?")'
      /\ WritingCa(c)' => Halfway(call[c])'
  <2>1. CASE OpenFile(c)
    <3>1. /\ files' = [files EXCEPT ![call[c].file] = Torn]
          /\ call[c].at = "open" /\ call'[c] = [call[c] EXCEPT !.at = "write"]
      BY <1>1, <2>1 DEF OpenFile, At
    <3>2. /\ call'[c].at = "write" /\ call'[c].file = call[c].file
          /\ call'[c].key = call[c].key
      BY <1>1, <3>1 DEF Calls
    <3>3. CASE call[c].file = "ca.key"
      <4>1. files'["ca.key"] = Torn /\ files'["ca.pem"] = Absent
        BY <1>2, <1>4, <3>1, <3>3 DEF Halfway, Files, CaFiles
      <4> QED
        BY <1>7, <3>2, <3>3, <4>1 DEF Exists, Paired, Intact, At, Halfway
    <3>4. CASE call[c].file = "ca.pem"
      <4>1. files'["ca.pem"] = Torn /\ files'["ca.key"] = Key(call[c].key)
        BY <1>2, <1>4, <3>1, <3>4 DEF Halfway, Files, CaFiles
      <4> QED
        BY <1>7, <3>2, <3>4, <4>1 DEF Exists, Paired, Intact, At, Halfway
    <3> QED
      BY <3>3, <3>4 DEF CaFiles
  <2>2. CASE WriteFile(c)
    <3>1. /\ files' = [files EXCEPT ![call[c].file] = Text(call[c])]
          /\ call[c].at = "write" /\ call'[c] = After(call[c])
      BY <1>1, <2>2 DEF WriteFile, At
    <3>2. CASE call[c].file = "ca.key"
      <4>1. files'["ca.key"] = Key(call[c].key) /\ files'["ca.pem"] = Absent
        BY <1>2, <1>4, <3>1, <3>2 DEF Halfway, Files, CaFiles, Text
      <4>2. /\ call'[c].at = "open" /\ call'[c].file = "ca.pem"
            /\ call'[c].key = call[c].key
        BY <1>1, <3>1, <3>2 DEF After, Calls
      <4> QED
        BY <1>7, <4>1, <4>2 DEF Exists, Paired, Intact, At, Halfway
    <3>3. CASE call[c].file = "ca.pem"
      <4>1. /\ files'["ca.pem"] = Cert(call[c].key, call[c].signer, BadFqdn)
            /\ files'["ca.key"] = Key(call[c].key)
        BY <1>2, <1>4, <3>1, <3>3 DEF Halfway, Files, CaFiles, Text
      <4>2. call'[c].at = "issue"
        BY <1>1, <3>1, <3>3 DEF After, Calls
      <4>3. files'["ca.pem"].key = files'["ca.key"].key
        BY <4>1 DEF Cert, Key, Content
      <4> QED
        BY <1>7, <4>1, <4>2, <4>3 DEF Exists, Paired, At, WritingCa, Writing
    <3> QED
      BY <3>2, <3>3 DEF CaFiles
  <2> QED
    BY <2>1, <2>2
<1>9. \A a \in Callers : WritingCa(a)' => Halfway(call[a])'
  BY <1>5, <1>8
<1> QED
  BY <1>6, <1>8, <1>9 DEF CaInv

LEMMA IdleKeepsCa ==
    ASSUME CaInv, call' = [c \in Callers |-> Idle],
           \A f \in Files : files'[f] \in {files[f], Absent}
    PROVE  CaInv'
<1>1. \A c \in Callers : call'[c].at = "idle"
  BY DEF Idle
<1>2. \A c \in Callers : ~Creating(c)' /\ ~WritingCa(c)' /\ ~At(c, "ca.key?")'
  BY <1>1 DEF Creating, WritingCa, At, Resting, Writing
<1>3. Paired("ca.key", "ca.pem")'
  BY DEF CaInv, Paired, Intact, Files, CaFiles
<1> QED
  BY <1>2, <1>3 DEF CaInv

LEMMA CutShortKeepsCa ==
    ASSUME CaInv, CutShort
    PROVE  CaInv'
<1>1. \A c \in Callers : call'[c] = call[c] \/ call'[c].at = "idle"
  BY CutShortCalls
<1>2. \A c \in Callers : /\ Creating(c)' => Creating(c)
                         /\ WritingCa(c)' => WritingCa(c) /\ call'[c] = call[c]
                         /\ At(c, "ca.key?")' => At(c, "ca.key?") /\ call'[c] = call[c]
  BY <1>1 DEF Creating, WritingCa, At, Resting, Writing
<1>3. UNCHANGED files
  BY DEF CutShort
<1> QED
  BY <1>2, <1>3 DEF CaInv, Halfway, Exists, Paired, Intact

LEMMA InitInvariant == Init => IInv
<1> SUFFICES ASSUME Init PROVE CaInv
  BY InitType DEF IInv
<1>1. \A c \in Callers : call[c].at = "idle"
  BY DEF Init, Idle
<1> QED
  BY <1>1 DEF Init, CaInv, Creating, WritingCa, Writing, At, Resting, Paired, Intact,
              Files, CaFiles

LEMMA NextInvariant == IInv /\ [Next]_vars => IInv'
<1> SUFFICES ASSUME IInv, [Next]_vars, "two CAs" \notin mishaps' PROVE CaInv'
  BY NextType DEF IInv
<1> USE DEF IInv
<1>1. ASSUME NEW c \in Callers, NEW op, NEW arg, Begin(c, op, arg) PROVE CaInv'
  BY <1>1, LookKeepsCa DEF Begin
<1>2. ASSUME NEW c \in Callers, Step(c) PROVE CaInv'
  <2>1. CaInv
    BY <1>2 DEF Step, LookForCaCert, LookForCaKey, LookForLeaf, LookAtLeaf, LoadCaCert,
                Sign, OpenFile, WriteFile, Goto, Raise
  <2>2. CASE LookForCaKey(c)
    <3>1. CASE Raise(c)
      BY <2>1, <3>1, LookKeepsCa
    <3>2. CASE Goto(c, IF call[c].op = "ensure" THEN "server.pem?" ELSE "issue")
      <4>1. At(c, "ca.key?") /\ \E at \in {"server.pem?", "issue"} : Goto(c, at)
        BY <2>2, <3>2 DEF LookForCaKey
      <4> QED
        BY <2>1, <4>1, LookKeepsCa
    <3>3. CASE ~Raise(c) /\ ~Goto(c, IF call[c].op = "ensure" THEN "server.pem?" ELSE "issue")
      <4>1. /\ At(c, "ca.key?") /\ ~call[c].saw /\ ~Exists("ca.key")
            /\ Generate(c, "ca.key", NoKey)
            /\ ~\E d \in Callers \ {c} : Creating(d)
        BY <2>2, <3>3 DEF LookForCaKey
      <4> QED
        BY <2>1, <4>1, CreateKeepsCa
    <3> QED
      BY <3>1, <3>2, <3>3
  <2>3. CASE OpenFile(c) \/ WriteFile(c)
    <3>1. call[c].file \in CaFiles \cup LeafFiles
      BY DEF TInv, TypeOK, Calls, Files
    <3> QED
      BY <2>1, <2>3, <3>1, LeafFileKeepsCa, CaFileKeepsCa
  <2> QED
    BY <1>2, <2>1, <2>2, <2>3, LookKeepsCa DEF Step
<1>3. ASSUME NEW dead \in SUBSET Callers, Crash(dead) PROVE CaInv'
  <2>1. CutShort
    BY <1>3, CrashCutsShort
  <2>2. CaInv
    BY <2>1 DEF CutShort
  <2> QED
    BY <2>1, <2>2, CutShortKeepsCa
<1>4. ASSUME NEW some, Delete(some) PROVE CaInv'
  BY <1>4, IdleKeepsCa DEF Delete
<1>5. CASE UNCHANGED vars
  BY <1>5 DEF vars, CaInv, Creating, WritingCa, Halfway, At, Exists, Paired, Intact
<1> QED
  BY <1>1, <1>2, <1>3, <1>4, <1>5 DEF Next

LEMMA Invariant == Spec => []IInv
BY InitInvariant, NextInvariant, PTL DEF Spec

\* The certificate and the key of the CA belong together, whatever ensure() and
\* rotate_server_cert() overlap and wherever they are interrupted.
THEOREM CaPaired == Spec => []CaIsPaired
<1>1. IInv => CaIsPaired
  BY DEF IInv, CaInv, CaIsPaired
<1> QED
  BY <1>1, Invariant, PTL

\* An intact file of the CA is never written again: vehicles that were told to
\* trust it can go on doing so until the operator deletes it.
THEOREM CaNeverReplaced == Spec => CaIsNeverReplaced
<1> DEFINE Kept == \A f \in CaFiles : Intact(f) /\ files'[f] # files[f]
                      => files'[f] = Absent \/ "two CAs" \in mishaps
<1>1. IInv /\ [Next]_vars => Kept
  <2> SUFFICES ASSUME IInv, [Next]_vars, NEW f \in CaFiles, Intact(f),
                      files'[f] # files[f], "two CAs" \notin mishaps
               PROVE  files'[f] = Absent
    OBVIOUS
  <2>1. CaInv /\ TInv
    BY DEF IInv
  <2>2. ASSUME NEW c \in Callers, OpenFile(c) \/ WriteFile(c) PROVE FALSE
    <3>1. files = [g \in Files |-> files[g]]
      BY <2>1 DEF TInv
    <3>2. call[c].file = f /\ call[c].at \in Writing
      BY <2>2, <3>1 DEF OpenFile, WriteFile, At, Writing, Files
    <3>3. Halfway(call[c])
      BY <2>1, <3>2 DEF CaInv, WritingCa
    <3>4. files[f] \in {Absent, Torn}
      BY <3>2, <3>3 DEF Halfway, CaFiles
    <3> QED
      BY <3>4 DEF Intact
  <2>3. CASE \E some : Delete(some)
    BY <2>3 DEF Delete, Files
  <2>4. ASSUME UNCHANGED files PROVE FALSE
    BY <2>4
  <2> QED
    BY <2>2, <2>3, <2>4
    DEF Next, Step, Begin, LookForCaCert, LookForCaKey, LookForLeaf, LookAtLeaf,
        LoadCaCert, Sign, Crash, Goto, Raise, Generate, vars
<1>2. Spec => [][Kept]_vars
  BY <1>1, Invariant, PTL DEF Spec
<1> QED
  BY <1>2 DEF CaIsNeverReplaced
-----------------------------------------------------------------------------
(* What a step is *)

\* Where a call is that has found or written the CA.
PastCa == {"server.pem?", "server.key?", "san?", "issue", "sign", "ok"}

\* c begins, looks at the files, returns or raises.
Looks(c) ==
    /\ UNCHANGED <<files, keys>>
    /\ call[c].at \notin Writing /\ call'[c].at \notin Writing
    /\ mishaps \subseteq mishaps' /\ mishaps' \subseteq mishaps \cup {"CA without leaf"}
    /\ call'[c].at \in PastCa => call[c].at \in PastCa \/ Exists("ca.key")
    /\ call'[c].at = "sign" => Intact("ca.pem")
    /\ call'[c].at = "ok" => Intact("server.pem")
    /\ Creating(c)' => Creating(c)
    /\ Creating(c) /\ call[c].at \in {"issue", "sign"} =>
          \/ Creating(c)' /\ call'[c].at = "sign"
          \/ ~Creating(c)' /\ "CA without leaf" \in mishaps'

\* c has found no CA and generates one.
Creates(c) ==
    /\ UNCHANGED files
    /\ At(c, "ca.key?") /\ ~call[c].saw /\ ~Exists("ca.key")
    /\ call'[c].at = "open" /\ call'[c].file = "ca.key" /\ call'[c].fresh
    /\ mishaps' \in {mishaps, mishaps \cup {"two CAs"}}

\* c generates a leaf, signed by the CA's key.
Signs(c) ==
    /\ UNCHANGED files
    /\ At(c, "sign") /\ Intact("ca.key")
    /\ call'[c].at = "open" /\ call'[c].file = "server.key"
    /\ call'[c].signer = files["ca.key"].key /\ call'[c].fresh = call[c].fresh
    /\ mishaps' = IF \E d \in Callers \ {c} : WritingLeaf(d)
                  THEN mishaps \cup {"two leaves"} ELSE mishaps \ {"two leaves"}

\* c opens its file, ...
Opens(c) ==
    /\ At(c, "open")
    /\ \A f \in Files : files'[f] = IF f = call[c].file THEN Torn ELSE files[f]
    /\ call'[c].at = "write" /\ call'[c].file = call[c].file
    /\ call'[c].key = call[c].key /\ call'[c].signer = call[c].signer
    /\ call'[c].fresh = call[c].fresh
    /\ UNCHANGED mishaps

\* ... or writes it.
Writes(c) ==
    /\ At(c, "write")
    /\ \A f \in Files : files'[f] = IF f = call[c].file THEN Text(call[c]) ELSE files[f]
    /\ call'[c].key = call[c].key /\ call'[c].signer = call[c].signer
    /\ call'[c].fresh = call[c].fresh
    /\ call[c].file = "ca.key" => call'[c].at = "open" /\ call'[c].file = "ca.pem"
    /\ call[c].file = "ca.pem" => call'[c].at = "issue"
    /\ call[c].file = "server.key" => call'[c].at = "open" /\ call'[c].file = "server.pem"
    /\ call[c].file = "server.pem" => call'[c].at = "ok"
    /\ mishaps' = IF call[c].file = "server.pem"
                  THEN mishaps \ {"CA without leaf", "half a leaf"} ELSE mishaps

LEMMA GotoLooks ==
    ASSUME TInv, NEW c \in Callers, NEW at, Goto(c, at),
           call[c].at \in Looking, at \in (Looking \ {"ca.pem?", "ca.key?"}) \cup {"ok"},
           at \in PastCa => call[c].at \in PastCa \/ Exists("ca.key"),
           at = "sign" => Intact("ca.pem"), at = "ok" => Intact("server.pem"),
           call[c].at = "issue" => at = "sign", call[c].at # "sign"
    PROVE  Looks(c)
<1>1. call \in [Callers -> Calls] /\ call[c] \in Calls
  BY DEF TInv, TypeOK
<1>2. /\ call'[c].at = at /\ call'[c].fresh = call[c].fresh
      /\ UNCHANGED <<files, keys, mishaps>>
  BY <1>1 DEF Goto, Calls
<1>3. call[c].at \notin Writing /\ at \notin Writing /\ call[c].at \notin Resting
  BY DEF Writing, Looking, Resting
<1>4. at = "sign" => at \notin Resting
  BY DEF Resting
<1> QED
  BY <1>2, <1>3, <1>4 DEF Looks, Creating

LEMMA RaiseLooks ==
    ASSUME TInv, NEW c \in Callers, Raise(c), call[c].at \in Looking
    PROVE  Looks(c)
<1>1. call \in [Callers -> Calls] /\ call[c] \in Calls
  BY DEF TInv, TypeOK
<1>2. /\ call'[c].at = "error" /\ UNCHANGED <<files, keys>>
      /\ mishaps' = mishaps \cup (IF call[c].fresh THEN {"CA without leaf"} ELSE {})
  BY <1>1 DEF Raise, Calls
<1>3. call[c].at \notin Writing /\ "error" \notin Writing \cup PastCa /\ "error" \in Resting
  BY DEF Writing, Looking, Resting, PastCa
<1> QED
  BY <1>2, <1>3 DEF Looks, Creating

LEMMA BeginLooks ==
    ASSUME TInv, NEW c \in Callers, NEW op, NEW arg, Begin(c, op, arg)
    PROVE  Looks(c)
<1>1. call'[c] = [Idle EXCEPT !.at = "ca.pem?", !.op = op, !.arg = arg]
  BY DEF TInv, TypeOK, Begin
<1>2. call'[c].at = "ca.pem?" /\ call'[c].fresh = FALSE
  BY <1>1 DEF Idle
<1>3. UNCHANGED <<files, keys, mishaps>> /\ call[c].at \in Resting
  BY DEF Begin
<1> QED
  BY <1>2, <1>3 DEF Looks, Creating, Writing, Resting, PastCa

LEMMA LookForCaCertLooks ==
    ASSUME TInv, NEW c \in Callers, LookForCaCert(c)
    PROVE  Looks(c)
<1>1. CASE Raise(c)
  BY <1>1, RaiseLooks DEF LookForCaCert, At, Looking
<1>2. CASE ~Raise(c)
  <2>1. call \in [Callers -> Calls] /\ call[c] \in Calls
    BY DEF TInv, TypeOK
  <2>2. /\ call[c].at = "ca.pem?" /\ UNCHANGED <<files, keys, mishaps>>
        /\ call'[c].at = "ca.key?" /\ call'[c].fresh = call[c].fresh
    BY <1>2, <2>1 DEF LookForCaCert, Calls, At
  <2> QED
    BY <2>2 DEF Looks, Creating, Writing, Resting, PastCa
<1> QED
  BY <1>1, <1>2

LEMMA StepKinds ==
    ASSUME TInv, NEW c \in Callers,
           Step(c) \/ \E op \in {"ensure", "rotate"}, arg \in Arguments : Begin(c, op, arg)
    PROVE  /\ \A d \in Callers \ {c} : call'[d] = call[d]
           /\ Looks(c) \/ Creates(c) \/ Signs(c) \/ Opens(c) \/ Writes(c)
<1>1. call \in [Callers -> Calls] /\ call[c] \in Calls
  BY DEF TInv, TypeOK
<1>2. files = [f \in Files |-> files[f]]
  BY DEF TInv
<1>3. \A d \in Callers \ {c} : call'[d] = call[d]
  BY <1>1 DEF Step, Begin, LookForCaCert, LookForCaKey, LookForLeaf, LookAtLeaf, LoadCaCert,
              Sign, OpenFile, WriteFile, Goto, Raise, Generate
<1>4. CASE \E op \in {"ensure", "rotate"}, arg \in Arguments : Begin(c, op, arg)
  BY <1>3, <1>4, BeginLooks
<1>5. CASE LookForCaCert(c)
  BY <1>3, <1>5, LookForCaCertLooks
<1>6. CASE LookForCaKey(c)
  <2>1. call[c].at = "ca.key?"
    BY <1>6 DEF LookForCaKey, At
  <2>2. CASE Raise(c)
    BY <1>3, <2>1, <2>2, RaiseLooks DEF Looking
  <2>3. CASE Exists("ca.key") /\ Goto(c, IF call[c].op = "ensure" THEN "server.pem?" ELSE "issue")
    BY <1>3, <2>1, <2>3, GotoLooks DEF Looking
  <2>4. CASE ~call[c].saw /\ ~Exists("ca.key") /\ Generate(c, "ca.key", NoKey)
    <3>1. /\ call'[c].at = "open" /\ call'[c].file = "ca.key" /\ call'[c].fresh
          /\ UNCHANGED files
      BY <1>1, <2>4 DEF Generate, Calls
    <3>2. CASE ~\E d \in Callers \ {c} : Creating(d)
      <4>1. mishaps' = mishaps \cup {} \/ Raise(c)
        BY <1>6, <2>4, <3>2 DEF LookForCaKey
      <4> QED
        BY <1>3, <2>1, <2>2, <2>4, <3>1, <4>1 DEF Creates, At
    <3>3. CASE \E d \in Callers \ {c} : Creating(d)
      <4>1. mishaps' = mishaps \cup {"two CAs"} \/ Raise(c)
        BY <1>6, <2>4, <3>3 DEF LookForCaKey
      <4> QED
        BY <1>3, <2>1, <2>2, <2>4, <3>1, <4>1 DEF Creates, At
    <3> QED
      BY <3>2, <3>3
  <2> QED
    BY <1>6, <2>2, <2>3, <2>4 DEF LookForCaKey
<1>7. CASE LookForLeaf(c)
  BY <1>3, <1>7, GotoLooks DEF LookForLeaf, At, Looking, PastCa
<1>8. CASE LookAtLeaf(c)
  BY <1>3, <1>8, GotoLooks, RaiseLooks DEF LookAtLeaf, At, Looking, PastCa
<1>9. CASE LoadCaCert(c)
  BY <1>3, <1>9, GotoLooks, RaiseLooks DEF LoadCaCert, At, Looking, PastCa
<1>10. CASE Sign(c)
  <2>1. call[c].at = "sign"
    BY <1>10 DEF Sign, At
  <2>2. CASE Raise(c)
    BY <1>3, <2>1, <2>2, RaiseLooks DEF Looking
  <2>3. CASE ~Raise(c)
    <3>1. /\ Intact("ca.key") /\ Generate(c, "server.key", files["ca.key"].key)
          /\ mishaps' = IF \E d \in Callers \ {c} : WritingLeaf(d)
                        THEN mishaps \cup {"two leaves"} ELSE mishaps \ {"two leaves"}
      BY <1>10, <2>3 DEF Sign
    <3>2. /\ call'[c].at = "open" /\ call'[c].file = "server.key"
          /\ call'[c].signer = files["ca.key"].key
          /\ call'[c].fresh = (call[c].fresh \/ "server.key" = "ca.key")
          /\ UNCHANGED files
      BY <1>1, <3>1 DEF Generate, Calls
    <3>3. call'[c].fresh = call[c].fresh
      BY <1>1, <3>2 DEF Calls
    <3> QED
      BY <1>3, <2>1, <3>1, <3>2, <3>3 DEF Signs, At
  <2> QED
    BY <2>2, <2>3
<1>11. CASE OpenFile(c)
  BY <1>1, <1>2, <1>3, <1>11 DEF OpenFile, Opens, Calls
<1>12. CASE WriteFile(c)
  <2>1. /\ files' = [files EXCEPT ![call[c].file] = Text(call[c])]
        /\ call'[c] = After(call[c]) /\ At(c, "write")
        /\ mishaps' = IF call[c].file = "server.pem"
                      THEN mishaps \ {"CA without leaf", "half a leaf"} ELSE mishaps
    BY <1>1, <1>12 DEF WriteFile
  <2>2. \A f \in Files : files'[f] = IF f = call[c].file THEN Text(call[c]) ELSE files[f]
    BY <1>2, <2>1
  <2>3. call[c].file \in {"ca.key", "ca.pem", "server.key", "server.pem"}
    BY <1>1 DEF Calls, Files, CaFiles, LeafFiles
  <2>4. CASE call[c].file = "ca.key"
    BY <1>1, <1>3, <2>1, <2>2, <2>4 DEF Writes, After, Calls
  <2>5. CASE call[c].file = "ca.pem"
    BY <1>1, <1>3, <2>1, <2>2, <2>5 DEF Writes, After, Calls
  <2>6. CASE call[c].file = "server.key"
    BY <1>1, <1>3, <2>1, <2>2, <2>6 DEF Writes, After, Calls
  <2>7. CASE call[c].file = "server.pem"
    BY <1>1, <1>3, <2>1, <2>2, <2>7 DEF Writes, After, Calls
  <2> QED
    BY <2>3, <2>4, <2>5, <2>6, <2>7
<1> QED
  BY <1>4, <1>5, <1>6, <1>7, <1>8, <1>9, <1>10, <1>11, <1>12 DEF Step
-----------------------------------------------------------------------------
(* The leaf's certificate and key *)

\* The inductive invariant behind LeafIsPaired: one call at a time writes the
\* leaf, and its certificate goes beside the key it was written for.
OneLeaf ==
    /\ \A c, d \in Callers : WritingLeaf(c) /\ WritingLeaf(d) => c = d
    /\ \A c \in Callers : WritingLeaf(c) /\ call[c].file = "server.pem"
          => files["server.key"] = Key(call[c].key)
    /\ "half a leaf" \notin mishaps /\ (\A c \in Callers : ~WritingLeaf(c))
          => Paired("server.key", "server.pem")

\* A step of c that leaves the leaf alone.
LEMMA LeafUntouched ==
    ASSUME OneLeaf, NEW c \in Callers,
           \A d \in Callers \ {c} : call'[d] = call[d],
           files'["server.key"] = files["server.key"],
           files'["server.pem"] = files["server.pem"],
           ~WritingLeaf(c), ~WritingLeaf(c)',
           "half a leaf" \in mishaps => "half a leaf" \in mishaps'
    PROVE  OneLeaf'
<1>1. \A d \in Callers : WritingLeaf(d)' => WritingLeaf(d) /\ call'[d] = call[d]
  BY DEF WritingLeaf
<1>2. \A d \in Callers : WritingLeaf(d) => WritingLeaf(d)'
  BY DEF WritingLeaf
<1>3. Paired("server.key", "server.pem") => Paired("server.key", "server.pem")'
  BY DEF Paired, Intact
<1> QED
  BY <1>1, <1>2, <1>3 DEF OneLeaf

\* Whatever overlapped before, a leaf that c writes alone is one leaf.
LEMMA SignsKeepsOneLeaf ==
    ASSUME NEW c \in Callers, Signs(c), "two leaves" \notin mishaps',
           \A d \in Callers \ {c} : call'[d] = call[d]
    PROVE  OneLeaf'
<1>1. \A d \in Callers \ {c} : ~WritingLeaf(d)
  BY DEF Signs
<1>2. \A d \in Callers \ {c} : ~WritingLeaf(d)'
  BY <1>1 DEF WritingLeaf
<1>3. WritingLeaf(c)' /\ call'[c].file # "server.pem"
  BY DEF Signs, WritingLeaf, Writing, LeafFiles
<1> QED
  BY <1>2, <1>3 DEF OneLeaf

LEMMA LeafFileKeepsOneLeaf ==
    ASSUME TInv, OneLeaf, NEW c \in Callers, Opens(c) \/ Writes(c),
           call[c].file \in LeafFiles,
           \A d \in Callers \ {c} : call'[d] = call[d]
    PROVE  OneLeaf'
<1>1. WritingLeaf(c)
  BY DEF WritingLeaf, Opens, Writes, At, Writing
<1>2. \A d \in Callers \ {c} : ~WritingLeaf(d)'
  <2>1. \A d \in Callers \ {c} : ~WritingLeaf(d)
    BY <1>1 DEF OneLeaf
  <2> QED
    BY <2>1 DEF WritingLeaf
<1>3. \A d, e \in Callers : WritingLeaf(d)' /\ WritingLeaf(e)' => d = e
  BY <1>2
<1>4. "server.key" \in Files /\ "server.pem" \in Files
  BY DEF Files, LeafFiles
<1>5. CASE Opens(c)
  <2>1. WritingLeaf(c)'
    BY <1>5 DEF Opens, WritingLeaf, Writing
  <2>2. call'[c].file = "server.pem" => files'["server.key"] = Key(call'[c].key)
    BY <1>1, <1>4, <1>5 DEF Opens, OneLeaf
  <2> QED
    BY <1>2, <1>3, <2>1, <2>2 DEF OneLeaf
<1>6. CASE Writes(c) /\ call[c].file = "server.key"
  <2>1. WritingLeaf(c)'
    BY <1>6 DEF Writes, WritingLeaf, Writing, LeafFiles
  <2>2. files'["server.key"] = Key(call'[c].key)
    BY <1>4, <1>6 DEF Writes, Text
  <2> QED
    BY <1>2, <1>3, <2>1, <2>2 DEF OneLeaf
<1>7. CASE Writes(c) /\ call[c].file = "server.pem"
  <2>1. ~WritingLeaf(c)'
    BY <1>7 DEF Writes, WritingLeaf, Writing
  <2>2. files'["server.key"] = Key(call[c].key)
    BY <1>1, <1>4, <1>7 DEF Writes, OneLeaf
  <2>3. files'["server.pem"] = Cert(call[c].key, call[c].signer, call[c].arg.fqdn)
    BY <1>4, <1>7 DEF Writes, Text
  <2>4. Paired("server.key", "server.pem")'
    BY <2>2, <2>3 DEF Paired, Key, Cert, Content
  <2> QED
    BY <1>2, <1>3, <2>1, <2>4 DEF OneLeaf
<1> QED
  BY <1>5, <1>6, <1>7 DEF LeafFiles

LEMMA IdleKeepsOneLeaf ==
    ASSUME OneLeaf, call' = [c \in Callers |-> Idle],
           \A f \in Files : files'[f] \in {files[f], Absent},
           "half a leaf" \notin mishaps' =>
               "half a leaf" \notin mishaps /\ \A c \in Callers : ~WritingLeaf(c)
    PROVE  OneLeaf'
<1>1. \A c \in Callers : call'[c].at = "idle"
  BY DEF Idle
<1>2. \A c \in Callers : ~WritingLeaf(c)'
  BY <1>1 DEF WritingLeaf, Writing
<1>3. Paired("server.key", "server.pem") => Paired("server.key", "server.pem")'
  BY DEF Paired, Intact, Files, LeafFiles
<1> QED
  BY <1>2, <1>3 DEF OneLeaf

LEMMA CutShortKeepsOneLeaf ==
    ASSUME OneLeaf, CutShort
    PROVE  OneLeaf'
<1>1. \A c \in Callers : call'[c] = call[c] \/ call'[c].at = "idle"
  BY CutShortCalls
<1>2. \A c \in Callers : WritingLeaf(c)' => WritingLeaf(c) /\ call'[c] = call[c]
  BY <1>1 DEF WritingLeaf, Writing
<1>3. UNCHANGED files
  BY DEF CutShort
<1>4. "half a leaf" \notin mishaps' /\ (\A c \in Callers : ~WritingLeaf(c)')
         => "half a leaf" \notin mishaps /\ \A c \in Callers : ~WritingLeaf(c)
  BY DEF CutShort, WritingLeaf
<1> QED
  BY <1>2, <1>3, <1>4 DEF OneLeaf, Paired, Intact

LEMMA StepKeepsOneLeaf ==
    ASSUME TInv, "two leaves" \notin mishaps => OneLeaf, NEW c \in Callers,
           "two leaves" \notin mishaps',
           Step(c) \/ \E op \in {"ensure", "rotate"}, arg \in Arguments : Begin(c, op, arg)
    PROVE  OneLeaf'
<1>1. /\ \A d \in Callers \ {c} : call'[d] = call[d]
      /\ Looks(c) \/ Creates(c) \/ Signs(c) \/ Opens(c) \/ Writes(c)
  BY StepKinds
<1>2. CASE Looks(c)
  BY <1>1, <1>2, LeafUntouched DEF Looks, WritingLeaf
<1>3. CASE Creates(c)
  <2>1. ~WritingLeaf(c) /\ ~WritingLeaf(c)'
    BY <1>3 DEF Creates, WritingLeaf, Writing, LeafFiles, At
  <2> QED
    BY <1>1, <1>3, <2>1, LeafUntouched DEF Creates
<1>4. CASE Signs(c)
  BY <1>1, <1>4, SignsKeepsOneLeaf
<1>5. CASE (Opens(c) \/ Writes(c)) /\ call[c].file \in LeafFiles
  BY <1>1, <1>5, LeafFileKeepsOneLeaf DEF Opens, Writes
<1>6. CASE (Opens(c) \/ Writes(c)) /\ call[c].file \notin LeafFiles
  <2>1. call[c].file \in {"ca.key", "ca.pem"}
    BY <1>6 DEF TInv, TypeOK, Calls, Files, CaFiles
  <2>2. ~WritingLeaf(c) /\ ~WritingLeaf(c)'
    BY <1>6, <2>1 DEF Opens, Writes, WritingLeaf, Writing, LeafFiles
  <2>3. /\ files'["server.key"] = files["server.key"]
        /\ files'["server.pem"] = files["server.pem"]
        /\ "half a leaf" \in mishaps => "half a leaf" \in mishaps'
    BY <1>6, <2>1 DEF Opens, Writes, Files, LeafFiles
  <2> QED
    BY <1>1, <1>6, <2>2, <2>3, LeafUntouched DEF Opens, Writes
<1> QED
  BY <1>1, <1>2, <1>3, <1>4, <1>5, <1>6

LEMMA NextKeepsOneLeaf ==
    TInv /\ ("two leaves" \notin mishaps => OneLeaf) /\ [Next]_vars
        => ("two leaves" \notin mishaps => OneLeaf)'
<1> SUFFICES ASSUME TInv, "two leaves" \notin mishaps => OneLeaf, [Next]_vars,
                    "two leaves" \notin mishaps'
             PROVE  OneLeaf'
  OBVIOUS
<1>1. ASSUME NEW c \in Callers,
             Step(c) \/ \E op \in {"ensure", "rotate"}, arg \in Arguments : Begin(c, op, arg)
      PROVE  OneLeaf'
  BY <1>1, StepKeepsOneLeaf
<1>2. ASSUME NEW dead \in SUBSET Callers, Crash(dead) PROVE OneLeaf'
  <2>1. CutShort
    BY <1>2, CrashCutsShort
  <2> QED
    BY <2>1, CutShortKeepsOneLeaf DEF CutShort
<1>3. ASSUME NEW some, Delete(some) PROVE OneLeaf'
  <2>1. \A c \in Callers : ~WritingLeaf(c)
    BY <1>3 DEF Delete, Quiet, WritingLeaf, Resting, Writing
  <2> QED
    BY <1>3, <2>1, IdleKeepsOneLeaf DEF Delete
<1>4. CASE UNCHANGED vars
  BY <1>4 DEF vars, OneLeaf, WritingLeaf, Paired, Intact
<1> QED
  BY <1>1, <1>2, <1>3, <1>4 DEF Next

\* Whenever no call is running, the leaf's key and certificate are of one pair,
\* however many calls of _create_leaf there were, unless two overlapped in
\* writing it with none that wrote it alone after them, or one was cut short with
\* no complete one after it.
THEOREM LeafPaired == Spec => []LeafIsPaired
<1> DEFINE LInv == TInv /\ ("two leaves" \notin mishaps => OneLeaf)
<1>1. Init => LInv
  <2> SUFFICES ASSUME Init PROVE OneLeaf
    BY InitType
  <2>1. \A c \in Callers : call[c].at = "idle"
    BY DEF Init, Idle
  <2> QED
    BY <2>1 DEF Init, OneLeaf, WritingLeaf, Writing, Paired, Intact, Files, LeafFiles
<1>2. LInv /\ [Next]_vars => LInv'
  BY NextType, NextKeepsOneLeaf
<1>3. LInv => LeafIsPaired
  <2> SUFFICES ASSUME LInv, Quiet, mishaps \cap {"two leaves", "half a leaf"} = {}
               PROVE  Paired("server.key", "server.pem")
    BY DEF LeafIsPaired
  <2>1. \A c \in Callers : ~WritingLeaf(c)
    BY DEF Quiet, WritingLeaf, Resting, Writing
  <2> QED
    BY <2>1 DEF OneLeaf
<1> QED
  BY <1>1, <1>2, <1>3, PTL DEF Spec
-----------------------------------------------------------------------------
(* The leaf and the CA *)

\* A file of the CA is complete, and the leaf, if it is, is signed by its key.
Signed(f) ==
    Exists(f) => /\ Intact(f)
                 /\ Intact("server.pem") => files["server.pem"].signer = files[f].key

\* The inductive invariant behind LeafChainsToCa.  A call that creates the CA goes
\* straight on to the leaf; a leaf that is being written is signed by the key on
\* disk, which nobody replaces before it is there.
Chained ==
    /\ \A c \in Callers : Creating(c) => call[c].at \in {"issue", "sign"} \cup Writing
    /\ \A c \in Callers : call[c].at \in PastCa => Exists("ca.key")
    /\ \A c \in Callers : At(c, "sign") \/ WritingLeaf(c) => Intact("ca.pem")
    /\ \A c \in Callers : WritingLeaf(c) => files["ca.key"] = Key(call[c].signer)
    /\ "CA without leaf" \notin mishaps /\ (\A c \in Callers : ~Creating(c))
          => \A f \in CaFiles : Signed(f)
    /\ SomeOk => \/ Intact("server.pem")
                 \/ \E c \in Callers : At(c, "write") /\ call[c].file = "server.pem"

LEMMA FilesAreFour ==
    /\ Files = {"ca.key", "ca.pem", "server.key", "server.pem"}
    /\ CaFiles = {"ca.key", "ca.pem"} /\ LeafFiles = {"server.key", "server.pem"}
BY DEF Files, CaFiles, LeafFiles

LEMMA TextIntact ==
    ASSUME NEW r
    PROVE  Text(r) \notin {Absent, Torn}
BY DEF Text, Cert, Key, Content, Absent, Torn

LEMMA TornExists == Torn # Absent /\ \A k : Key(k) \notin {Absent, Torn}
BY DEF Key, Content, Absent, Torn

LEMMA LooksKeepsChained ==
    ASSUME Chained, NEW c \in Callers, Looks(c),
           \A d \in Callers \ {c} : call'[d] = call[d]
    PROVE  Chained'
<1>1. \A f : Exists(f)' = Exists(f) /\ Intact(f)' = Intact(f) /\ Signed(f)' = Signed(f)
  BY DEF Looks, Exists, Intact, Signed
<1>2. \A d \in Callers : Creating(d)' => Creating(d)
  BY DEF Looks, Creating
<1>3. \A d \in Callers : WritingLeaf(d)' => WritingLeaf(d) /\ d # c /\ call'[d] = call[d]
  BY DEF Looks, WritingLeaf
<1>4. \A d \in Callers : Creating(d)' => call'[d].at \in {"issue", "sign"} \cup Writing
  <2> SUFFICES ASSUME NEW d \in Callers, Creating(d)'
               PROVE  call'[d].at \in {"issue", "sign"} \cup Writing
    OBVIOUS
  <2>1. CASE d # c
    BY <1>2, <2>1 DEF Chained
  <2>2. CASE d = c
    <3>1. Creating(c) /\ call[c].at \in {"issue", "sign"}
      BY <1>2, <2>2 DEF Chained, Looks
    <3> QED
      BY <2>2, <3>1 DEF Looks, Creating, Chained
  <2> QED
    BY <2>1, <2>2
<1>5. \A d \in Callers : call'[d].at \in PastCa => Exists("ca.key")'
  <2>1. call'[c].at \in PastCa => Exists("ca.key")
    BY DEF Looks, Chained
  <2> QED
    BY <1>1, <2>1 DEF Chained
<1>6. \A d \in Callers : At(d, "sign")' \/ WritingLeaf(d)' => Intact("ca.pem")'
  <2>1. At(c, "sign")' => Intact("ca.pem")
    BY DEF Looks, At
  <2>2. \A d \in Callers \ {c} : At(d, "sign")' => At(d, "sign")
    BY DEF At
  <2> QED
    BY <1>1, <1>3, <2>1, <2>2 DEF Chained
<1>7. \A d \in Callers : WritingLeaf(d)' => files'["ca.key"] = Key(call'[d].signer)
  BY <1>3 DEF Looks, Chained
<1>8. "CA without leaf" \notin mishaps' /\ (\A d \in Callers : ~Creating(d)')
         => \A f \in CaFiles : Signed(f)'
  <2> SUFFICES ASSUME "CA without leaf" \notin mishaps', \A d \in Callers : ~Creating(d)'
               PROVE  \A f \in CaFiles : Signed(f)
    BY <1>1
  <2>1. ~Creating(c)
    BY DEF Looks, Chained
  <2>2. \A d \in Callers : ~Creating(d)
    BY <2>1 DEF Creating
  <2> QED
    BY <2>2 DEF Looks, Chained
<1>9. SomeOk' => \/ Intact("server.pem")'
                 \/ \E d \in Callers : At(d, "write")' /\ call'[d].file = "server.pem"
  <2> SUFFICES ASSUME SomeOk', ~Intact("server.pem")
               PROVE  \E d \in Callers : At(d, "write")' /\ call'[d].file = "server.pem"
    BY <1>1
  <2>1. SomeOk
    BY DEF SomeOk, At, Looks
  <2>2. PICK d \in Callers : At(d, "write") /\ call[d].file = "server.pem"
    BY <2>1 DEF Chained
  <2>3. d # c
    BY <2>2 DEF Looks, At, Writing
  <2> QED
    BY <2>2, <2>3 DEF At
<1> QED
  BY <1>4, <1>5, <1>6, <1>7, <1>8, <1>9 DEF Chained

LEMMA CreatesKeepsChained ==
    ASSUME CaInv, Chained, NEW c \in Callers, Creates(c),
           \A d \in Callers \ {c} : call'[d] = call[d]
    PROVE  Chained'
<1>1. \A f : Exists(f)' = Exists(f) /\ Intact(f)' = Intact(f)
  BY DEF Creates, Exists, Intact
<1>2. Creating(c)' /\ ~WritingLeaf(c)' /\ call'[c].at \in Writing
  BY DEF Creates, Creating, WritingLeaf, Writing, Resting, LeafFiles
<1>3. \A d \in Callers \ {c} : (Creating(d)' <=> Creating(d)) /\ (WritingLeaf(d)' <=> WritingLeaf(d))
  BY DEF Creating, WritingLeaf
<1>4. call'[c].at \notin PastCa /\ ~At(c, "sign")' /\ ~At(c, "ok")' /\ ~At(c, "write")
  BY DEF Creates, PastCa, At
<1>5. SomeOk' => SomeOk
  BY <1>4 DEF SomeOk, At
<1>6. ASSUME NEW d \in Callers, At(d, "write"), call[d].file = "server.pem"
      PROVE  At(d, "write")' /\ call'[d].file = "server.pem"
  <2>1. d # c
    BY <1>4, <1>6
  <2> QED
    BY <1>6, <2>1 DEF At
<1>7. SomeOk' => \/ Intact("server.pem")'
                 \/ \E d \in Callers : At(d, "write")' /\ call'[d].file = "server.pem"
  BY <1>1, <1>5, <1>6 DEF Chained
<1>8. \A d \in Callers : Creating(d)' => call'[d].at \in {"issue", "sign"} \cup Writing
  BY <1>2, <1>3 DEF Chained
<1>9. \A d \in Callers : call'[d].at \in PastCa => Exists("ca.key")'
  BY <1>1, <1>4 DEF Chained
<1>10. \A d \in Callers : At(d, "sign")' \/ WritingLeaf(d)' => Intact("ca.pem")'
  <2>1. \A d \in Callers \ {c} : At(d, "sign")' => At(d, "sign")
    BY DEF At
  <2> QED
    BY <1>1, <1>2, <1>3, <1>4, <2>1 DEF Chained
<1>11. \A d \in Callers : WritingLeaf(d)' => files'["ca.key"] = Key(call'[d].signer)
  BY <1>2, <1>3 DEF Chained, Creates
<1> QED
  BY <1>2, <1>7, <1>8, <1>9, <1>10, <1>11 DEF Chained

\* The key that a leaf is signed with is the one on disk.
LEMMA SignsKeepsChained ==
    ASSUME TInv, Chained, NEW c \in Callers, Signs(c),
           \A d \in Callers \ {c} : call'[d] = call[d]
    PROVE  Chained'
<1>1. \A f : Exists(f)' = Exists(f) /\ Intact(f)' = Intact(f) /\ Signed(f)' = Signed(f)
  BY DEF Signs, Exists, Intact, Signed
<1>2. /\ ~At(c, "sign")' /\ ~At(c, "ok")' /\ ~At(c, "write") /\ call'[c].at \notin PastCa
      /\ call'[c].at \in Writing
  BY DEF Signs, At, PastCa, Writing
<1>3. Creating(c)' <=> Creating(c)
  BY DEF Signs, Creating, At, Resting
<1>4. \A d \in Callers : Creating(d)' <=> Creating(d)
  BY <1>3 DEF Creating
<1>5. files["ca.key"] = Key(call'[c].signer)
  <2>1. files["ca.key"] \in Good("ca.key")
    BY FilesAreFour DEF TInv, TypeOK, Signs, Intact
  <2>2. PICK k \in 1 .. keys : files["ca.key"] = Key(k)
    BY <2>1 DEF Good
  <2>3. Key(k).key = k
    BY DEF Key, Content
  <2> QED
    BY <2>2, <2>3 DEF Signs
<1>6. SomeOk' => SomeOk
  BY <1>2 DEF SomeOk, At
<1>7. ASSUME NEW d \in Callers, At(d, "write"), call[d].file = "server.pem"
      PROVE  At(d, "write")' /\ call'[d].file = "server.pem"
  <2>1. d # c
    BY <1>2, <1>7
  <2> QED
    BY <1>7, <2>1 DEF At
<1>8. SomeOk' => \/ Intact("server.pem")'
                 \/ \E d \in Callers : At(d, "write")' /\ call'[d].file = "server.pem"
  BY <1>1, <1>6, <1>7 DEF Chained
<1>9. \A d \in Callers : Creating(d)' => call'[d].at \in {"issue", "sign"} \cup Writing
  BY <1>2, <1>4 DEF Chained
<1>10. \A d \in Callers : call'[d].at \in PastCa => Exists("ca.key")'
  BY <1>1, <1>2 DEF Chained
<1>11. \A d \in Callers : At(d, "sign")' \/ WritingLeaf(d)' => Intact("ca.pem")'
  <2>1. Intact("ca.pem")
    BY DEF Signs, Chained
  <2> QED
    BY <1>1, <2>1
<1>12. \A d \in Callers : WritingLeaf(d)' => files'["ca.key"] = Key(call'[d].signer)
  <2>1. \A d \in Callers \ {c} : WritingLeaf(d)' => WritingLeaf(d)
    BY DEF WritingLeaf
  <2> QED
    BY <1>5, <2>1 DEF Signs, Chained
<1>13. "CA without leaf" \notin mishaps' /\ (\A d \in Callers : ~Creating(d)')
          => \A f \in CaFiles : Signed(f)'
  BY <1>1, <1>4 DEF Signs, Chained
<1> QED
  BY <1>8, <1>9, <1>10, <1>11, <1>12, <1>13 DEF Chained

\* While the CA is written nobody holds a certificate of it to sign with.
LEMMA CaFileKeepsChained ==
    ASSUME TInv, CaInv, Chained, NEW c \in Callers, Opens(c) \/ Writes(c),
           call[c].file \in CaFiles,
           \A d \in Callers \ {c} : call'[d] = call[d]
    PROVE  Chained'
<1>1. WritingCa(c) /\ Creating(c) /\ Halfway(call[c])
  <2>1. WritingCa(c)
    BY DEF Opens, Writes, At, WritingCa, Writing
  <2> QED
    BY <2>1, WritersCreate DEF CaInv
<1>2. files'["server.pem"] = files["server.pem"]
  BY FilesAreFour DEF Opens, Writes
<1>3. ~Intact("ca.pem")
  BY <1>1, FilesAreFour, TornExists DEF Halfway, Intact
<1>4. Exists("ca.key")'
  <2>1. CASE call[c].file = "ca.key"
    BY <2>1, FilesAreFour, TornExists, TextIntact DEF Opens, Writes, Exists
  <2>2. CASE call[c].file = "ca.pem"
    <3>1. files'["ca.key"] = Key(call[c].key)
      BY <1>1, <2>2, FilesAreFour DEF Opens, Writes, Halfway
    <3> QED
      BY <3>1, TornExists DEF Exists
  <2> QED
    BY <2>1, <2>2, FilesAreFour
<1>5. /\ call'[c].at \in {"issue"} \cup Writing /\ ~WritingLeaf(c)'
      /\ call'[c].fresh = call[c].fresh
  BY FilesAreFour DEF Opens, Writes, WritingLeaf, Writing
<1>6. Creating(c)'
  BY <1>1, <1>5 DEF Creating, Writing, Resting
<1>7. \A d \in Callers : ~At(d, "sign")' /\ ~WritingLeaf(d)'
  <2>1. \A d \in Callers \ {c} : ~At(d, "sign")' /\ ~WritingLeaf(d)'
    BY <1>3 DEF Chained, At, WritingLeaf
  <2> QED
    BY <1>5, <2>1 DEF At, Writing
<1>8. \A d \in Callers : Creating(d)' => call'[d].at \in {"issue", "sign"} \cup Writing
  BY <1>5 DEF Chained, Creating
<1>9. SomeOk' => \/ Intact("server.pem")'
                 \/ \E d \in Callers : At(d, "write")' /\ call'[d].file = "server.pem"
  <2> SUFFICES ASSUME SomeOk', ~Intact("server.pem")'
               PROVE  \E d \in Callers : At(d, "write")' /\ call'[d].file = "server.pem"
    OBVIOUS
  <2>1. SomeOk /\ ~Intact("server.pem")
    BY <1>2, <1>5 DEF SomeOk, At, Intact, Writing
  <2>2. PICK d \in Callers : At(d, "write") /\ call[d].file = "server.pem"
    BY <2>1 DEF Chained
  <2>3. d # c
    BY <2>2, FilesAreFour
  <2> QED
    BY <2>2, <2>3 DEF At
<1> QED
  BY <1>4, <1>6, <1>7, <1>8, <1>9 DEF Chained

LEMMA LeafHalfKeepsChained ==
    ASSUME TInv, Chained, NEW c \in Callers,
           Opens(c) \/ (Writes(c) /\ call[c].file = "server.key"),
           call[c].file \in LeafFiles,
           \A d \in Callers \ {c} : call'[d] = call[d]
    PROVE  Chained'
<1>1. WritingLeaf(c) /\ WritingLeaf(c)' /\ call'[c].at \in Writing
  BY FilesAreFour DEF Opens, Writes, At, WritingLeaf, Writing
<1>2. files'["ca.key"] = files["ca.key"] /\ files'["ca.pem"] = files["ca.pem"]
  BY FilesAreFour DEF Opens, Writes
<1>3. \A f \in CaFiles : Exists(f)' = Exists(f) /\ Intact(f)' = Intact(f)
  BY <1>2, FilesAreFour DEF Exists, Intact
<1>4. files'["server.pem"] \in {files["server.pem"], Torn}
  BY FilesAreFour DEF Opens, Writes
<1>5. \A f \in CaFiles : Signed(f) => Signed(f)'
  BY <1>2, <1>3, <1>4, FilesAreFour DEF Signed, Intact
<1>6. call'[c].signer = call[c].signer /\ call'[c].fresh = call[c].fresh
  BY DEF Opens, Writes
<1>7. \A d \in Callers : Creating(d)' <=> Creating(d)
  <2>1. call[c].at \notin Resting /\ call'[c].at \notin Resting
    BY <1>1 DEF WritingLeaf, Writing, Resting
  <2> QED
    BY <1>6, <2>1 DEF Creating
<1>8. \A d \in Callers : WritingLeaf(d)' => WritingLeaf(d) /\ call'[d].signer = call[d].signer
  BY <1>1, <1>6 DEF WritingLeaf
<1>9. \A d \in Callers : Creating(d)' => call'[d].at \in {"issue", "sign"} \cup Writing
  BY <1>1, <1>7 DEF Chained
<1>10. \A d \in Callers : call'[d].at \in PastCa => Exists("ca.key")'
  BY <1>1, <1>3, FilesAreFour DEF Chained, Writing, PastCa
<1>11. \A d \in Callers : At(d, "sign")' \/ WritingLeaf(d)' => Intact("ca.pem")'
  <2>1. \A d \in Callers : At(d, "sign")' => At(d, "sign")
    BY <1>1 DEF At, Writing
  <2> QED
    BY <1>3, <1>8, <2>1, FilesAreFour DEF Chained
<1>12. \A d \in Callers : WritingLeaf(d)' => files'["ca.key"] = Key(call'[d].signer)
  BY <1>2, <1>8 DEF Chained
<1>13. "CA without leaf" \notin mishaps' /\ (\A d \in Callers : ~Creating(d)')
          => \A f \in CaFiles : Signed(f)'
  <2>1. mishaps' = mishaps
    BY DEF Opens, Writes
  <2> QED
    BY <1>5, <1>7, <2>1 DEF Chained
<1>14. SomeOk' => \/ Intact("server.pem")'
                  \/ \E d \in Callers : At(d, "write")' /\ call'[d].file = "server.pem"
  <2> SUFFICES ASSUME SomeOk', ~Intact("server.pem")'
               PROVE  \E d \in Callers : At(d, "write")' /\ call'[d].file = "server.pem"
    OBVIOUS
  <2>1. CASE call[c].file = "server.pem"
    BY <2>1, FilesAreFour DEF Opens, At
  <2>2. CASE call[c].file = "server.key"
    <3>1. SomeOk /\ ~Intact("server.pem")
      BY <1>1, <2>2, FilesAreFour DEF SomeOk, At, Intact, Writing, Opens, Writes
    <3>2. PICK d \in Callers : At(d, "write") /\ call[d].file = "server.pem"
      BY <3>1 DEF Chained
    <3> QED
      BY <2>2, <3>2 DEF At
  <2> QED
    BY <2>1, <2>2, FilesAreFour
<1> QED
  BY <1>9, <1>10, <1>11, <1>12, <1>13, <1>14 DEF Chained

\* A complete leaf is signed by the CA on disk, and settles everything.
LEMMA LeafKeepsChained ==
    ASSUME TInv, CaInv, Chained, NEW c \in Callers, Writes(c),
           call[c].file = "server.pem",
           \A d \in Callers \ {c} : call'[d] = call[d]
    PROVE  Chained'
<1>1. WritingLeaf(c) /\ call'[c].at = "ok"
  BY FilesAreFour DEF Writes, At, WritingLeaf, Writing
<1>2. files'["ca.key"] = files["ca.key"] /\ files'["ca.pem"] = files["ca.pem"]
  BY FilesAreFour DEF Writes
<1>3. \A f \in CaFiles : Exists(f)' = Exists(f) /\ Intact(f)' = Intact(f)
  BY <1>2, FilesAreFour DEF Exists, Intact
<1>4. Exists("ca.key") /\ Intact("ca.pem") /\ files["ca.key"] = Key(call[c].signer)
  BY <1>1, TornExists DEF Chained, Exists
<1>5. files'["server.pem"] = Cert(call[c].key, call[c].signer, call[c].arg.fqdn)
  BY FilesAreFour DEF Writes, Text
<1>6. Intact("server.pem")' /\ files'["server.pem"].signer = call[c].signer
  BY <1>5 DEF Intact, Cert, Content, Absent, Torn
<1>7. Intact("ca.key") /\ files["ca.key"].key = call[c].signer
  BY <1>4, TornExists DEF Intact, Key, Content
<1>8. files["ca.pem"].key = call[c].signer
  BY <1>4, <1>7 DEF CaInv, Paired
<1>9. \A f \in CaFiles : Signed(f)'
  BY <1>2, <1>3, <1>4, <1>6, <1>7, <1>8, FilesAreFour DEF Signed
<1>10. ~WritingLeaf(c)' /\ ~Creating(c)' /\ ~At(c, "sign")'
  BY <1>1 DEF WritingLeaf, Creating, At, Writing, Resting
<1>11. \A d \in Callers : Creating(d)' => call'[d].at \in {"issue", "sign"} \cup Writing
  BY <1>10 DEF Chained, Creating
<1>12. Exists("ca.key")' /\ Intact("ca.pem")'
  BY <1>3, <1>4, FilesAreFour
<1>13. \A d \in Callers : WritingLeaf(d)' => files'["ca.key"] = Key(call'[d].signer)
  BY <1>2, <1>10 DEF Chained, WritingLeaf
<1> QED
  BY <1>6, <1>9, <1>11, <1>12, <1>13 DEF Chained

\* All calls are over when the operator deletes files.
LEMMA IdleKeepsChained ==
    ASSUME Chained, call' = [c \in Callers |-> Idle],
           \A f \in Files : files'[f] \in {files[f], Absent},
           "CA without leaf" \notin mishaps' =>
               "CA without leaf" \notin mishaps /\ \A c \in Callers : ~Creating(c)
    PROVE  Chained'
<1>1. \A c \in Callers : call'[c].at = "idle"
  BY DEF Idle
<1>2. \A c \in Callers : /\ ~Creating(c)' /\ ~WritingLeaf(c)' /\ ~At(c, "sign")'
                         /\ ~At(c, "ok")' /\ call'[c].at \notin PastCa
  BY <1>1 DEF Creating, WritingLeaf, Writing, Resting, At, PastCa
<1>3. \A f \in CaFiles : Signed(f) => Signed(f)'
  BY FilesAreFour DEF Signed, Exists, Intact
<1> QED
  BY <1>2, <1>3 DEF Chained, SomeOk

LEMMA CutShortKeepsChained ==
    ASSUME Chained, CutShort
    PROVE  Chained'
<1>1. \A c \in Callers : call'[c] = call[c] \/ call'[c].at = "idle"
  BY CutShortCalls
<1>2. \A c \in Callers : /\ Creating(c)' => Creating(c) /\ call'[c] = call[c]
                         /\ WritingLeaf(c)' => WritingLeaf(c) /\ call'[c] = call[c]
                         /\ At(c, "sign")' => At(c, "sign")
                         /\ call'[c].at \in PastCa => call[c].at \in PastCa
  BY <1>1 DEF Creating, WritingLeaf, Writing, Resting, At, PastCa
<1>3. \A f : Exists(f)' = Exists(f) /\ Intact(f)' = Intact(f) /\ Signed(f)' = Signed(f)
  BY DEF CutShort, Exists, Intact, Signed
<1>4. "CA without leaf" \notin mishaps' /\ (\A c \in Callers : ~Creating(c)')
         => "CA without leaf" \notin mishaps /\ \A c \in Callers : ~Creating(c)
  BY DEF CutShort, Creating
<1>5. UNCHANGED files /\ ~SomeOk'
  BY DEF CutShort
<1> QED
  BY <1>2, <1>3, <1>4, <1>5 DEF Chained

LEMMA StepKeepsChained ==
    ASSUME TInv, CaInv, Chained, NEW c \in Callers,
           Step(c) \/ \E op \in {"ensure", "rotate"}, arg \in Arguments : Begin(c, op, arg)
    PROVE  Chained'
<1>1. /\ \A d \in Callers \ {c} : call'[d] = call[d]
      /\ Looks(c) \/ Creates(c) \/ Signs(c) \/ Opens(c) \/ Writes(c)
  BY StepKinds
<1>2. call[c].file \in CaFiles \cup {"server.key", "server.pem"}
  BY FilesAreFour DEF TInv, TypeOK, Calls, Files
<1>3. CASE (Opens(c) \/ Writes(c)) /\ call[c].file \in CaFiles
  BY <1>1, <1>3, CaFileKeepsChained
<1>4. CASE (Opens(c) \/ Writes(c)) /\ call[c].file \in LeafFiles
  BY <1>1, <1>4, LeafHalfKeepsChained, LeafKeepsChained, FilesAreFour
<1> QED
  BY <1>1, <1>2, <1>3, <1>4, LooksKeepsChained, CreatesKeepsChained, SignsKeepsChained,
     FilesAreFour

LEMMA NextKeepsChained ==
    IInv /\ ("two CAs" \notin mishaps => Chained) /\ [Next]_vars
        => ("two CAs" \notin mishaps => Chained)'
<1> SUFFICES ASSUME IInv, "two CAs" \notin mishaps => Chained, [Next]_vars,
                    "two CAs" \notin mishaps'
             PROVE  Chained'
  OBVIOUS
<1>1. TInv
  BY DEF IInv
<1>2. ASSUME NEW c \in Callers,
             Step(c) \/ \E op \in {"ensure", "rotate"}, arg \in Arguments : Begin(c, op, arg)
      PROVE  Chained'
  <2>1. "two CAs" \notin mishaps
    BY <1>1, <1>2, StepKinds DEF Looks, Creates, Signs, Opens, Writes
  <2> QED
    BY <1>1, <1>2, <2>1, StepKeepsChained DEF IInv
<1>3. ASSUME NEW dead \in SUBSET Callers, Crash(dead) PROVE Chained'
  <2>1. CutShort
    BY <1>3, CrashCutsShort
  <2> QED
    BY <2>1, CutShortKeepsChained DEF CutShort
<1>4. ASSUME NEW some, Delete(some) PROVE Chained'
  <2>1. \A c \in Callers : ~Creating(c)
    BY <1>4 DEF Delete, Quiet, Creating
  <2> QED
    BY <1>4, <2>1, IdleKeepsChained DEF Delete
<1>5. CASE UNCHANGED vars
  BY <1>5 DEF vars, Chained, WritingLeaf, Creating, Exists, Intact, Signed, SomeOk, At
<1> QED
  BY <1>2, <1>3, <1>4, <1>5 DEF Next

LEMMA InitChained == Init => Chained
<1> SUFFICES ASSUME Init PROVE Chained
  OBVIOUS
<1>1. \A c \in Callers : call[c].at = "idle"
  BY DEF Init, Idle
<1>2. \A f \in Files : files[f] = Absent
  BY DEF Init
<1> QED
  BY <1>1, <1>2, FilesAreFour
  DEF Chained, Creating, WritingLeaf, Writing, Resting, At, PastCa, SomeOk, Signed, Exists

\* Once a call has returned and none is running, the leaf is complete and signed
\* by the key of the CA, for any number of threads, wherever calls were cut short
\* and whatever was deleted, unless two calls created a CA or one created it and
\* did not get to its leaf.
THEOREM LeafChains == Spec => []LeafChainsToCa
<1>1. ("two CAs" \notin mishaps => Chained) => LeafChainsToCa
  <2> SUFFICES ASSUME Chained, Quiet, SomeOk, "CA without leaf" \notin mishaps
               PROVE  /\ Intact("ca.key") /\ Intact("server.pem")
                      /\ files["server.pem"].signer = files["ca.key"].key
    BY DEF LeafChainsToCa
  <2>1. \A c \in Callers : ~Creating(c) /\ ~At(c, "write")
    BY DEF Quiet, Creating, At, Resting
  <2>2. Exists("ca.key")
    BY DEF SomeOk, At, Chained, PastCa
  <2>3. Signed("ca.key") /\ Intact("server.pem")
    BY <2>1, FilesAreFour DEF Chained
  <2> QED
    BY <2>2, <2>3 DEF Signed
<1> QED
  BY <1>1, InitChained, NextKeepsChained, Invariant, PTL DEF Spec
-----------------------------------------------------------------------------
(* For a client that composes these files with more: what it can rely on *)

LEMMA KeysGrow == TInv /\ [Next]_vars => keys' \in Nat /\ keys <= keys'
<1> SUFFICES ASSUME TInv, [Next]_vars PROVE keys' \in Nat /\ keys <= keys'
  OBVIOUS
<1>1. keys \in Nat
  BY CredentialsAssumption DEF TInv, TypeOK
<1>2. keys' = keys \/ keys' = keys + 1
  BY DEF Next, Step, Begin, LookForCaCert, LookForCaKey, LookForLeaf, LookAtLeaf, LoadCaCert,
         Sign, OpenFile, WriteFile, Crash, Delete, Goto, Raise, Generate, vars
<1> QED
  BY <1>1, <1>2

\* Nothing makes up for two CAs.
LEMMA MishapsStay ==
    TInv /\ [Next]_vars /\ "two CAs" \in mishaps => "two CAs" \in mishaps'
<1> SUFFICES ASSUME TInv, [Next]_vars, "two CAs" \in mishaps PROVE "two CAs" \in mishaps'
  OBVIOUS
<1>1. ASSUME NEW c \in Callers,
             Step(c) \/ \E op \in {"ensure", "rotate"}, arg \in Arguments : Begin(c, op, arg)
      PROVE  "two CAs" \in mishaps'
  BY <1>1, StepKinds DEF Looks, Creates, Signs, Opens, Writes
<1> QED
  BY <1>1 DEF Next, Crash, Delete, vars

\* c creates no CA: the calls of rotate_server_cert() do not.
CreatesNoCa(c) ==
    /\ ~call[c].fresh
    /\ At(c, "ca.pem?") => call[c].op = "rotate"
    /\ At(c, "ca.key?") => call[c].saw

LEMMA RotateCreatesNoCa ==
    ASSUME TInv, NEW c \in Callers, CreatesNoCa(c),
           Step(c) \/ \E arg \in Arguments : Begin(c, "rotate", arg)
    PROVE  CreatesNoCa(c)'
<1>1. call \in [Callers -> Calls] /\ call[c] \in Calls
  BY DEF TInv, TypeOK
<1>2. ASSUME NEW arg, Begin(c, "rotate", arg) PROVE CreatesNoCa(c)'
  <2>1. call'[c] = [Idle EXCEPT !.at = "ca.pem?", !.op = "rotate", !.arg = arg]
    BY <1>1, <1>2 DEF Begin
  <2>2. call'[c].at = "ca.pem?" /\ call'[c].op = "rotate" /\ call'[c].fresh = FALSE
    BY <2>1 DEF Idle
  <2> QED
    BY <2>2 DEF CreatesNoCa, At
<1>3. ASSUME NEW at, Goto(c, at), at \notin {"ca.pem?", "ca.key?"} PROVE CreatesNoCa(c)'
  <2>1. call'[c].at = at /\ call'[c].fresh = call[c].fresh
    BY <1>1, <1>3 DEF Goto, Calls
  <2> QED
    BY <1>3, <2>1 DEF CreatesNoCa, At
<1>4. CASE Raise(c)
  <2>1. call'[c].at = "error" /\ call'[c].fresh = call[c].fresh
    BY <1>1, <1>4 DEF Raise, Calls
  <2> QED
    BY <2>1 DEF CreatesNoCa, At
<1>5. CASE LookForCaCert(c) /\ ~Raise(c)
  <2>1. At(c, "ca.pem?") /\ call[c].op = "rotate"
    BY <1>5 DEF LookForCaCert, CreatesNoCa
  <2>2. /\ call'[c].at = "ca.key?" /\ call'[c].fresh = call[c].fresh
        /\ call'[c].saw = Exists("ca.pem")
        /\ call[c].op = "ensure" \/ Exists("ca.pem")
    BY <1>1, <1>5 DEF LookForCaCert, Calls
  <2>3. call'[c].saw
    BY <2>1, <2>2
  <2> QED
    BY <2>2, <2>3 DEF CreatesNoCa, At
<1>6. CASE LookForCaKey(c)
  <2>1. \/ Raise(c)
        \/ Goto(c, IF call[c].op = "ensure" THEN "server.pem?" ELSE "issue")
    BY <1>6 DEF LookForCaKey, CreatesNoCa
  <2> QED
    BY <1>3, <1>4, <2>1
<1>7. CASE LookForLeaf(c) \/ LookAtLeaf(c) \/ LoadCaCert(c)
  BY <1>3, <1>4, <1>7 DEF LookForLeaf, LookAtLeaf, LoadCaCert
<1>8. CASE Sign(c) /\ ~Raise(c)
  <2>1. Generate(c, "server.key", files["ca.key"].key)
    BY <1>8 DEF Sign
  <2>2. call'[c].at = "open" /\ call'[c].fresh = (call[c].fresh \/ "server.key" = "ca.key")
    BY <1>1, <2>1 DEF Generate, Calls
  <2> QED
    BY <2>2 DEF CreatesNoCa, At
<1>9. CASE OpenFile(c) \/ WriteFile(c)
  <2>1. Opens(c) \/ Writes(c)
    <3>1. Looks(c) \/ Creates(c) \/ Signs(c) \/ Opens(c) \/ Writes(c)
      BY <1>9, StepKinds DEF Step
    <3>2. call[c].at \in Writing
      BY <1>9 DEF OpenFile, WriteFile, At, Writing
    <3> QED
      BY <3>1, <3>2 DEF Looks, Creates, Signs, At, Writing
  <2>2. call[c].file \in {"ca.key", "ca.pem", "server.key", "server.pem"}
    BY <1>1, FilesAreFour DEF Calls
  <2>3. call'[c].fresh = call[c].fresh /\ call'[c].at \notin {"ca.pem?", "ca.key?"}
    BY <2>1, <2>2 DEF Opens, Writes
  <2> QED
    BY <2>3 DEF CreatesNoCa, At
<1> QED
  BY <1>2, <1>4, <1>5, <1>6, <1>7, <1>8, <1>9 DEF Step

\* What is on disk answers to key k: no other CA is there, and the leaf is, or is
\* about to be, one that it signed.
SpeaksFor(k) ==
    /\ Intact("ca.key") => files["ca.key"] = Key(k)
    /\ \A c \in Callers : WritingLeaf(c) => call[c].signer = k
    /\ "CA without leaf" \notin mishaps /\ Intact("server.pem")
          => files["server.pem"].signer = k

\* What is on disk answers to certificate ca, which was read from ca.pem.  One
\* that was cut short is of no use, nor is the leaf beside it.
Answers(ca) ==
    \/ ca \notin {Absent, Torn} /\ SpeaksFor(ca.key)
    \/ ca = Torn /\ "CA without leaf" \in mishaps /\ ~Intact("ca.pem")

LEMMA CaAnswers ==
    ASSUME TInv, CaInv, Chained, Exists("ca.pem"), \A c \in Callers : ~Creating(c)
    PROVE  Answers(files["ca.pem"])
<1>1. "CA without leaf" \notin mishaps => Signed("ca.key") /\ Signed("ca.pem")
  BY FilesAreFour DEF Chained
<1>2. CASE files["ca.pem"] = Torn
  BY <1>1, <1>2 DEF Answers, Signed, Intact
<1>3. CASE files["ca.pem"] # Torn
  <2>1. Intact("ca.pem")
    BY <1>3 DEF Intact, Exists
  <2>2. Intact("ca.key") => files["ca.key"] = Key(files["ca.pem"].key)
    <3> SUFFICES ASSUME Intact("ca.key") PROVE files["ca.key"] = Key(files["ca.pem"].key)
      OBVIOUS
    <3>1. files["ca.key"] \in Good("ca.key")
      BY FilesAreFour DEF TInv, TypeOK, Intact
    <3>2. PICK k \in 1 .. keys : files["ca.key"] = Key(k)
      BY <3>1 DEF Good
    <3>3. Key(k).key = k
      BY DEF Key, Content
    <3> QED
      BY <2>1, <3>2, <3>3 DEF CaInv, Paired
  <2>3. \A c \in Callers : WritingLeaf(c) => call[c].signer = files["ca.pem"].key
    <3> SUFFICES ASSUME NEW c \in Callers, WritingLeaf(c)
                 PROVE  call[c].signer = files["ca.pem"].key
      OBVIOUS
    <3>1. files["ca.key"] = Key(call[c].signer)
      BY DEF Chained
    <3>2. Intact("ca.key") /\ files["ca.key"].key = call[c].signer
      BY <3>1, TornExists DEF Intact, Key, Content
    <3> QED
      BY <2>1, <3>2 DEF CaInv, Paired
  <2>4. "CA without leaf" \notin mishaps /\ Intact("server.pem")
           => files["server.pem"].signer = files["ca.pem"].key
    BY <1>1, <2>1 DEF Signed, Intact, Exists
  <2> QED
    BY <2>1, <2>2, <2>3, <2>4 DEF Answers, SpeaksFor, Intact
<1> QED
  BY <1>2, <1>3

\* What answers to a certificate goes on doing so while no CA is created.
LEMMA StepKeepsAnswers ==
    ASSUME TInv, Chained, NEW c \in Callers, CreatesNoCa(c), NEW ca, Answers(ca),
           Step(c) \/ \E op \in {"ensure", "rotate"}, arg \in Arguments : Begin(c, op, arg)
    PROVE  Answers(ca)'
<1>1. /\ \A d \in Callers \ {c} : call'[d] = call[d]
      /\ Looks(c) \/ Creates(c) \/ Signs(c) \/ Opens(c) \/ Writes(c)
  BY StepKinds
<1>2. ~Creates(c)
  BY DEF Creates, CreatesNoCa
<1>3. Opens(c) \/ Writes(c) => WritingLeaf(c)
  <2> SUFFICES ASSUME Opens(c) \/ Writes(c) PROVE WritingLeaf(c)
    OBVIOUS
  <2>1. call[c].at \in Writing /\ ~WritingCa(c)
    BY WritersCreate DEF Opens, Writes, At, Writing, CreatesNoCa, Creating
  <2> QED
    BY <2>1 DEF WritingCa, WritingLeaf, TInv, TypeOK, Calls, Files
<1>4. /\ files'["ca.key"] = files["ca.key"] /\ files'["ca.pem"] = files["ca.pem"]
      /\ "CA without leaf" \in mishaps /\ "CA without leaf" \notin mishaps'
            => Intact("ca.pem")
  <2>1. CASE Looks(c) \/ Signs(c)
    BY <2>1 DEF Looks, Signs
  <2>2. CASE Opens(c) \/ Writes(c)
    BY <1>3, <2>2, FilesAreFour DEF Opens, Writes, WritingLeaf, Chained
  <2> QED
    BY <1>1, <1>2, <2>1, <2>2
<1>5. CASE ca = Torn /\ "CA without leaf" \in mishaps /\ ~Intact("ca.pem")
  BY <1>4, <1>5 DEF Answers, Intact
<1>6. CASE ca \notin {Absent, Torn} /\ SpeaksFor(ca.key)
  <2>1. (Intact("ca.key") => files["ca.key"] = Key(ca.key))'
    BY <1>4, <1>6 DEF SpeaksFor, Intact
  <2>2. ASSUME NEW d \in Callers, WritingLeaf(d)' PROVE call'[d].signer = ca.key
    <3>1. CASE d # c
      BY <1>1, <1>6, <2>2, <3>1 DEF SpeaksFor, WritingLeaf
    <3>2. CASE d = c /\ Signs(c)
      <4>1. files["ca.key"] = Key(ca.key)
        BY <1>6, <3>2 DEF SpeaksFor, Signs
      <4>2. Key(ca.key).key = ca.key
        BY DEF Key, Content
      <4>3. call'[c].signer = files["ca.key"].key
        BY <3>2 DEF Signs
      <4> QED
        BY <3>2, <4>1, <4>2, <4>3
    <3>3. CASE d = c /\ (Opens(c) \/ Writes(c))
      BY <1>3, <1>6, <3>3 DEF SpeaksFor, Opens, Writes
    <3>4. ~Looks(c) \/ d # c
      BY <2>2 DEF Looks, WritingLeaf
    <3> QED
      BY <1>1, <1>2, <3>1, <3>2, <3>3, <3>4
  <2>3. ASSUME "CA without leaf" \notin mishaps', Intact("server.pem")'
        PROVE  files'["server.pem"].signer = ca.key
    <3>1. CASE Looks(c) \/ Signs(c)
      BY <1>6, <2>3, <3>1 DEF SpeaksFor, Looks, Signs, Intact
    <3>2. CASE Opens(c) \/ (Writes(c) /\ call[c].file = "server.key")
      <4>1. files'["server.pem"] \in {files["server.pem"], Torn} /\ mishaps' = mishaps
        BY <3>2, FilesAreFour DEF Opens, Writes
      <4> QED
        BY <1>6, <2>3, <4>1 DEF SpeaksFor, Intact
    <3>3. CASE Writes(c) /\ call[c].file = "server.pem"
      <4>1. files'["server.pem"] = Cert(call[c].key, call[c].signer, call[c].arg.fqdn)
        BY <3>3, FilesAreFour DEF Writes, Text
      <4>2. call[c].signer = ca.key
        BY <1>3, <1>6, <3>3 DEF SpeaksFor
      <4> QED
        BY <4>1, <4>2 DEF Cert, Content
    <3> QED
      BY <1>1, <1>2, <1>3, <3>1, <3>2, <3>3, FilesAreFour DEF WritingLeaf
  <2> QED
    BY <1>6, <2>1, <2>2, <2>3 DEF Answers, SpeaksFor
<1> QED
  BY <1>5, <1>6 DEF Answers

LEMMA IdleKeepsAnswers ==
    ASSUME NEW ca, Answers(ca), call' = [c \in Callers |-> Idle],
           \A f \in Files : files'[f] \in {files[f], Absent}, mishaps \subseteq mishaps'
    PROVE  Answers(ca)'
<1>1. \A c \in Callers : call'[c].at = "idle"
  BY DEF Idle
<1>2. \A c \in Callers : ~WritingLeaf(c)'
  BY <1>1 DEF WritingLeaf, Writing
<1> QED
  BY <1>2, FilesAreFour DEF Answers, SpeaksFor, Intact

LEMMA CutShortKeepsAnswers ==
    ASSUME NEW ca, Answers(ca), CutShort
    PROVE  Answers(ca)'
<1>1. \A c \in Callers : call'[c] = call[c] \/ call'[c].at = "idle"
  BY CutShortCalls
<1>2. \A c \in Callers : WritingLeaf(c)' => WritingLeaf(c) /\ call'[c] = call[c]
  BY <1>1 DEF WritingLeaf, Writing
<1>3. UNCHANGED files /\ mishaps \subseteq mishaps'
  BY DEF CutShort
<1> QED
  BY <1>2, <1>3 DEF Answers, SpeaksFor, Intact
=============================================================================
