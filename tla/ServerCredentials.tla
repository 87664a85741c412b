------------------------- MODULE ServerCredentials -------------------------
(***************************************************************************)
(* fleet_telemetry/certs.py: the certificate files of ServerCredentials.   *)
(*                                                                         *)
(* A call of ensure() or rotate_server_cert() runs in a thread, and calls  *)
(* in several threads may overlap, so every look at a file and every file  *)
(* operation is a step of its own.  A key is a number, drawn afresh for    *)
(* every key pair.  A key file holds its number; a certificate holds the   *)
(* key it certifies, the key that signed it and the name in its            *)
(* SubjectAltName.  A file is opened, which creates or empties it, and     *)
(* then written: in between it is torn, and stays so if the process        *)
(* crashes.  Path.exists() is true of a torn file.                         *)
(*                                                                         *)
(* Between calls the operator may delete the CA files, the leaf files or   *)
(* the directory.  An I/O error ends one call, a crash of a process all    *)
(* calls of its threads; either leaves the same files.                     *)
(***************************************************************************)
EXTENDS Naturals

CONSTANTS
    Callers,    \* threads that call ensure or rotate_server_cert
    Fqdns,      \* names that a leaf may be issued for
    BadFqdn,    \* a name that no leaf can be issued for, such as ""
    Arguments,  \* what calls are made with: [fqdn, ips], where ips says
                \* whether ip_addresses are valid
    MayCrash,   \* whether calls may end in the middle, by a crash or an I/O error
    MaxKeys     \* bound: key pairs ever generated

ASSUME CredentialsAssumption ==
    /\ BadFqdn \notin Fqdns
    /\ Arguments \subseteq [fqdn : Fqdns \cup {BadFqdn}, ips : BOOLEAN]
    /\ MayCrash \in BOOLEAN
    /\ MaxKeys \in Nat

VARIABLES
    files,   \* what is on disk
    call,    \* where the call of every caller is
    keys,    \* key pairs generated so far
    mishaps  \* history: what has gone wrong and was not made up for since

vars == <<files, call, keys, mishaps>>

CaFiles == {"ca.key", "ca.pem"}
LeafFiles == {"server.key", "server.pem"}
Files == CaFiles \cup LeafFiles

\* No key: what the fields hold that do not apply.
NoKey == 0
Content(kind, k, signer, name) ==
    [kind |-> kind, key |-> k, signer |-> signer, name |-> name]
Absent == Content("absent", NoKey, NoKey, BadFqdn)
Torn == Content("torn", NoKey, NoKey, BadFqdn)
Key(k) == Content("key", k, NoKey, BadFqdn)
Cert(k, signer, name) == Content("cert", k, signer, name)

Exists(f) == files[f] # Absent
Intact(f) == files[f] \notin {Absent, Torn}

\* What f holds when it is intact.  The CA is self-signed and has no
\* SubjectAltName, a leaf always has one.
Good(f) ==
    LET Keys == 1 .. keys
    IN  CASE f = "ca.pem" -> {Cert(k, k, BadFqdn) : k \in Keys}
          [] f = "server.pem" -> {Cert(k, s, n) : k \in Keys, s \in Keys, n \in Fqdns}
          [] OTHER -> {Key(k) : k \in Keys}

\* "ok" and "error": the last call returned or raised; "idle": there was none
\* since the process started or the operator deleted files.
Resting == {"idle", "ok", "error"}
Looking == {"ca.pem?", "ca.key?", "server.pem?", "server.key?", "san?",
            "issue", "sign"}
Writing == {"open", "write"}

\* saw: whether ca.pem existed; fresh: the result of _ensure_ca; file: the file
\* to write next; key and signer: of the pair being written.
Idle == [at |-> "idle", op |-> "ensure", arg |-> [fqdn |-> BadFqdn, ips |-> FALSE],
         saw |-> FALSE, fresh |-> FALSE, file |-> "ca.key", key |-> NoKey, signer |-> NoKey]

Calls == [at : Resting \cup Looking \cup Writing, op : {"ensure", "rotate"},
          arg : Arguments \cup {Idle.arg}, saw : BOOLEAN, fresh : BOOLEAN,
          file : Files, key : 0 .. keys, signer : 0 .. keys]

Mishaps == {"two CAs", "two leaves", "CA without leaf", "half a leaf"}

TypeOK ==
    /\ keys \in 0 .. MaxKeys
    /\ \A f \in Files : files[f] \in Good(f) \cup {Absent, Torn}
    /\ call \in [Callers -> Calls]
    /\ mishaps \subseteq Mishaps

Init ==
    /\ files = [f \in Files |-> Absent]
    /\ call = [c \in Callers |-> Idle]
    /\ keys = 0
    /\ mishaps = {}

At(c, at) == call[c].at = at
Quiet == \A c \in Callers : call[c].at \in Resting
Creating(c) == call[c].at \notin Resting /\ call[c].fresh
WritingLeaf(c) == call[c].at \in Writing /\ call[c].file \in LeafFiles
---------------------------------------------------------------------------
\* ensure() and rotate_server_cert() make their directory and start to look.
Begin(c, op, arg) ==
    /\ call[c].at \in Resting
    /\ call' = [call EXCEPT ![c] = [Idle EXCEPT !.at = "ca.pem?", !.op = op, !.arg = arg]]
    /\ UNCHANGED <<files, keys, mishaps>>

Goto(c, at) == call' = [call EXCEPT ![c].at = at] /\ UNCHANGED <<files, keys, mishaps>>

\* The call raises.  If it had created the CA, the leaf for it is not written.
Raise(c) ==
    /\ call' = [call EXCEPT ![c].at = "error"]
    /\ mishaps' = mishaps \cup (IF call[c].fresh THEN {"CA without leaf"} ELSE {})
    /\ UNCHANGED <<files, keys>>

\* ensure() looks at both files whatever it finds, rotate_server_cert() stops
\* at the first that is missing.
LookForCaCert(c) ==
    /\ At(c, "ca.pem?")
    /\ \/ /\ call[c].op = "ensure" \/ Exists("ca.pem")
          /\ call' = [call EXCEPT ![c].at = "ca.key?", ![c].saw = Exists("ca.pem")]
          /\ UNCHANGED <<files, keys, mishaps>>
       \/ call[c].op = "rotate" /\ ~Exists("ca.pem") /\ Raise(c)

\* A new pair is generated, to be signed by key s, or by itself for a CA, and
\* written from file f on.
Generate(c, f, s) ==
    /\ keys < MaxKeys
    /\ keys' = keys + 1
    /\ call' = [call EXCEPT ![c].at = "open", ![c].file = f, ![c].key = keys + 1,
                            ![c].fresh = @ \/ f = "ca.key",
                            ![c].signer = IF f = "ca.key" THEN keys + 1 ELSE s]
    /\ UNCHANGED files

\* Fault: the key is looked for alone.
LookForCaKeyAlone(c) ==
    /\ At(c, "ca.key?")
    /\ IF Exists("ca.key")
       THEN Goto(c, IF call[c].op = "ensure" THEN "server.pem?" ELSE "issue")
       ELSE Generate(c, "ca.key", NoKey) /\ UNCHANGED mishaps

\* Fault: a CA of which one half is missing is completed.
LookForCaKeyCompleting(c) ==
    /\ At(c, "ca.key?")
    /\ \/ /\ call[c].saw /\ Exists("ca.key")
          /\ Goto(c, IF call[c].op = "ensure" THEN "server.pem?" ELSE "issue")
       \/ /\ ~call[c].saw
          /\ Generate(c, IF Exists("ca.key") THEN "ca.pem" ELSE "ca.key", keys + 1)
          /\ UNCHANGED mishaps

\* _ensure_ca creates a CA when both files are missing, and refuses to when one is.
LookForCaKey(c) ==
    /\ At(c, "ca.key?")
    /\ \/ /\ call[c].saw /\ Exists("ca.key")
          /\ Goto(c, IF call[c].op = "ensure" THEN "server.pem?" ELSE "issue")
       \/ call[c].saw # Exists("ca.key") /\ Raise(c)
       \/ /\ ~call[c].saw /\ ~Exists("ca.key")
          /\ Generate(c, "ca.key", NoKey)
          /\ mishaps' = mishaps \cup
                 (IF \E d \in Callers \ {c} : Creating(d) THEN {"two CAs"} ELSE {})

LookForLeaf(c) ==
    \/ At(c, "server.pem?") /\ Goto(c, IF Exists("server.pem") THEN "server.key?" ELSE "issue")
    \/ At(c, "server.key?") /\ Goto(c, IF Exists("server.key") THEN "san?" ELSE "issue")

\* _load_cert raises on what is not a certificate; _san_covers compares names.
LookAtLeaf(c) ==
    /\ At(c, "san?")
    /\ IF Intact("server.pem")
       THEN Goto(c, IF files["server.pem"].name = call[c].arg.fqdn THEN "ok" ELSE "issue")
       ELSE Raise(c)

\* Fault: the name is not checked.
LoadCaCertOnly(c) ==
    /\ At(c, "issue")
    /\ IF Intact("ca.pem") THEN Goto(c, "sign") ELSE Raise(c)

\* _create_leaf refuses an empty name and loads the CA's certificate, ...
LoadCaCert(c) ==
    /\ At(c, "issue")
    /\ IF call[c].arg.fqdn # BadFqdn /\ Intact("ca.pem") THEN Goto(c, "sign") ELSE Raise(c)

\* ... then its key, and signs the new leaf; an address that is none raises.  A
\* leaf that nobody else writes at the same time makes up for two that were.
Sign(c) ==
    /\ At(c, "sign")
    /\ IF Intact("ca.key") /\ call[c].arg.ips
       THEN /\ Generate(c, "server.key", files["ca.key"].key)
            /\ mishaps' = IF \E d \in Callers \ {c} : WritingLeaf(d)
                          THEN mishaps \cup {"two leaves"} ELSE mishaps \ {"two leaves"}
       ELSE Raise(c)

\* _write_key and _write_cert open the file, ...
OpenFile(c) ==
    /\ At(c, "open")
    /\ files' = [files EXCEPT ![call[c].file] = Torn]
    /\ call' = [call EXCEPT ![c].at = "write"]
    /\ UNCHANGED <<keys, mishaps>>

\* What a call writes to its file, and how it goes on.
Text(r) ==
    CASE r.file = "ca.pem" -> Cert(r.key, r.signer, BadFqdn)
      [] r.file = "server.pem" -> Cert(r.key, r.signer, r.arg.fqdn)
      [] OTHER -> Key(r.key)
\* Fault: a new CA does not force a new leaf.
AfterCaLooking(r) ==
    CASE r.file = "ca.key" -> [r EXCEPT !.at = "open", !.file = "ca.pem"]
      [] r.file = "ca.pem" -> [r EXCEPT !.at = "server.pem?"]
      [] r.file = "server.key" -> [r EXCEPT !.at = "open", !.file = "server.pem"]
      [] r.file = "server.pem" -> [r EXCEPT !.at = "ok"]
\* Fault: a certificate that exists is kept for the new key.
AfterLeafKey(r) ==
    CASE r.file = "ca.key" -> [r EXCEPT !.at = "open", !.file = "ca.pem"]
      [] r.file = "ca.pem" -> [r EXCEPT !.at = "issue"]
      [] r.file = "server.key" ->
            [r EXCEPT !.at = IF Exists("server.pem") THEN "ok" ELSE "open", !.file = "server.pem"]
      [] r.file = "server.pem" -> [r EXCEPT !.at = "ok"]
After(r) ==
    CASE r.file = "ca.key" -> [r EXCEPT !.at = "open", !.file = "ca.pem"]
      [] r.file = "ca.pem" -> [r EXCEPT !.at = "issue"]
      [] r.file = "server.key" -> [r EXCEPT !.at = "open", !.file = "server.pem"]
      [] r.file = "server.pem" -> [r EXCEPT !.at = "ok"]

\* ... then write it, the key before the certificate.  A complete leaf makes up
\* for one that was missing or written by halves.
WriteFile(c) ==
    /\ At(c, "write")
    /\ files' = [files EXCEPT ![call[c].file] = Text(call[c])]
    /\ call' = [call EXCEPT ![c] = After(call[c])]
    /\ mishaps' = IF call[c].file = "server.pem"
                  THEN mishaps \ {"CA without leaf", "half a leaf"} ELSE mishaps
    /\ UNCHANGED keys

\* The calls of the callers in dead end in the middle, with their process or
\* by an I/O error.  What earlier calls returned counts no more.
Crash(dead) ==
    /\ MayCrash
    /\ dead # {} /\ \A c \in dead : call[c].at \notin Resting
    /\ call' = [c \in Callers |->
                   IF c \in dead \/ call[c].at \in Resting THEN Idle ELSE call[c]]
    /\ mishaps' = mishaps
           \cup (IF \E c \in dead : Creating(c) THEN {"CA without leaf"} ELSE {})
           \cup (IF \E c \in dead : WritingLeaf(c) THEN {"half a leaf"} ELSE {})
    /\ UNCHANGED <<files, keys>>

\* The operator deletes some of the files: not code of the repository.
Delete(some) ==
    /\ Quiet
    /\ \E f \in some : Exists(f)
    /\ files' = [f \in Files |-> IF f \in some THEN Absent ELSE files[f]]
    /\ call' = [c \in Callers |-> Idle]
    /\ UNCHANGED <<keys, mishaps>>

Step(c) ==
    \/ LookForCaCert(c) \/ LookForCaKey(c) \/ LookForLeaf(c) \/ LookAtLeaf(c)
    \/ LoadCaCert(c) \/ Sign(c) \/ OpenFile(c) \/ WriteFile(c)

Next ==
    \/ \E c \in Callers :
          Step(c) \/ \E op \in {"ensure", "rotate"}, arg \in Arguments : Begin(c, op, arg)
    \/ \E dead \in SUBSET Callers : Crash(dead)
    \/ \E some \in SUBSET Files : Delete(some)

Spec == Init /\ [][Next]_vars
---------------------------------------------------------------------------
Paired(k, c) == Intact(k) /\ Intact(c) => files[k].key = files[c].key
SomeOk == \E c \in Callers : At(c, "ok")

\* The CA's certificate and key belong together, whatever crashes in between,
\* unless two calls found no CA at the same time (_ensure_ca, certs.py:224).
CaIsPaired == "two CAs" \notin mishaps => Paired("ca.key", "ca.pem")

\* The CA that vehicles trust is never overwritten, by any overlap of ensure()
\* and rotate_server_cert(), unless two calls found no CA at the same time
\* (certs.py:200: "never a silent recovery from partial state").
CaIsNeverReplaced ==
    [][\A f \in CaFiles : Intact(f) /\ files'[f] # files[f]
          => files'[f] = Absent \/ "two CAs" \in mishaps]_vars

\* Once a call has returned and no other is running, the leaf is signed by the
\* CA's key, unless two calls created a CA or the call that created it did not
\* get to its leaf; a later leaf, of whichever call, makes up for the latter
\* (ensure, certs.py:208).
LeafChainsToCa ==
    Quiet /\ SomeOk /\ mishaps \cap {"two CAs", "CA without leaf"} = {}
        => Intact("ca.key") /\ Intact("server.pem")
           /\ files["server.pem"].signer = files["ca.key"].key

\* Whenever no call is running, the leaf's certificate and key belong together,
\* unless two calls wrote a leaf at the same time and none was written alone
\* since, or a crash interrupted one and none was completed since
\* (_create_leaf, certs.py:400).
LeafIsPaired ==
    Quiet /\ mishaps \cap {"two leaves", "half a leaf"} = {}
        => Paired("server.key", "server.pem")

\* "A freshly (re)created CA must always be paired with a freshly issued leaf:
\* the previous leaf [...] would no longer chain" (certs.py:208): when no call is
\* running and one has returned, the leaf is signed by the CA's key.
LeafAlwaysChains == Quiet /\ SomeOk => files["server.pem"].signer = files["ca.key"].key
=============================================================================
