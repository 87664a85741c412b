------------------------------ MODULE EndToEnd ------------------------------
(***************************************************************************)
(* examples/end_to_end.py, composed with the certificate files of          *)
(* ServerCredentials: the program ensures its certificates, pushes a       *)
(* config that registers the CA, polls until the vehicle has synced it,    *)
(* and serves with the leaf.  It may crash or be interrupted anywhere and  *)
(* be run again; meanwhile another process may rotate the leaf, and the    *)
(* operator may delete certificate files.                                  *)
(*                                                                         *)
(* The Fleet API and the vehicle are external: the API keeps the last      *)
(* config pushed, and the vehicle takes it over, or does not, whenever it  *)
(* is online.  Time passes in sleep(5), which is one unit, and in a        *)
(* request, which aiohttp gives up after its total timeout.                *)
(***************************************************************************)
EXTENDS Naturals

CONSTANTS
    Fqdns, BadFqdn, MaxKeys,
    Fqdn,         \* TELEMETRY_FQDN
    SyncTimeout,  \* TELEMETRY_SYNC_TIMEOUT, in units
    MaxRequest,   \* the longest a request takes, in units
    MaxElapsed    \* bound: the clock counts no further

ASSUME EndToEndAssumption ==
    /\ Fqdn \in Fqdns /\ BadFqdn \notin Fqdns
    /\ {MaxKeys, SyncTimeout, MaxRequest, MaxElapsed} \subseteq Nat
    /\ SyncTimeout + 1 + MaxRequest <= MaxElapsed

VARIABLES
    files, call, keys, mishaps,  \* of ServerCredentials
    stage,       \* what the program is doing
    body,        \* the CA certificate in its config body
    registered,  \* the CA certificate in the config at the Fleet API
    trusted,     \* the CA certificate in the config the vehicle has taken over
    presented,   \* the leaf in the SSL context of its server
    elapsed      \* the time since _poll_until_synced began

credentials == <<files, call, keys, mishaps>>
program == <<stage, body, presented, elapsed>>
outside == <<registered, trusted>>
vars == <<credentials, program, outside>>

Program == "program"
Rotator == "rotator"
Callers == {Program, Rotator}
Arguments == {[fqdn |-> Fqdn, ips |-> TRUE]}
MayCrash == TRUE

Creds == INSTANCE ServerCredentials

Stages == {"off", "ensuring", "ensured", "ready", "pushing", "polling", "sleeping",
           "synced", "serving"}

TypeOK ==
    /\ Creds!TypeOK
    /\ stage \in Stages
    /\ {body, registered, trusted} \subseteq Creds!Good("ca.pem") \cup {Creds!Absent, Creds!Torn}
    /\ presented \in Creds!Good("server.pem") \cup {Creds!Absent}
    /\ elapsed \in 0 .. MaxElapsed
    \* The program is inside ensure() exactly while it waits for the executor.
    /\ stage # "ensuring" => call[Program].at \in Creds!Resting

Init ==
    /\ Creds!Init
    /\ stage = "off"
    /\ body = Creds!Absent
    /\ registered = Creds!Absent
    /\ trusted = Creds!Absent
    /\ presented = Creds!Absent
    /\ elapsed = 0

\* main(): the process starts and runs ensure() in the executor.
Run ==
    /\ stage = "off"
    /\ stage' = "ensuring"
    /\ Creds!Begin(Program, "ensure", [fqdn |-> Fqdn, ips |-> TRUE])
    /\ presented' = Creds!Absent
    /\ elapsed' = 0
    /\ UNCHANGED <<body, outside>>

\* A step of ensure(), whose exception ends the program.
Ensuring ==
    /\ stage = "ensuring"
    /\ Creds!Step(Program)
    /\ stage' = CASE call'[Program].at = "ok" -> "ensured"
                  [] call'[Program].at = "error" -> "off"
                  [] OTHER -> stage
    /\ UNCHANGED <<body, presented, elapsed, outside>>

\* Fault: the body is built with the certificate that the server presents.
BuildLeafBody ==
    /\ stage = "ensured" /\ Creds!Exists("server.pem")
    /\ body' = [files["server.pem"] EXCEPT !.name = BadFqdn]
    /\ stage' = "ready"
    /\ UNCHANGED <<credentials, presented, elapsed, outside>>

\* ca_certificate_pem, which raises when ca.pem is gone.
CaCertificatePem == {files["ca.pem"]} \ {Creds!Absent}

\* build_config_body.
BuildBody ==
    /\ stage = "ensured"
    /\ \/ CaCertificatePem = {} /\ stage' = "off" /\ UNCHANGED body
       \/ body' \in CaCertificatePem /\ stage' = "ready"
    /\ UNCHANGED <<credentials, presented, elapsed, outside>>

\* --dry-run ends here, ...
DryRun ==
    /\ stage = "ready"
    /\ stage' = "off"
    /\ UNCHANGED <<credentials, body, presented, elapsed, outside>>

\* ... anything else wakes the vehicle first, whether it wakes or not.
WakeUp ==
    /\ stage = "ready"
    /\ stage' = "pushing"
    /\ UNCHANGED <<credentials, body, presented, elapsed, outside>>

\* fleet_telemetry_config_create; when it raises, the program exits, whether
\* or not the config has arrived.
Push ==
    /\ stage = "pushing"
    /\ \/ stage' = "polling" /\ registered' = body
       \/ stage' = "off" /\ registered' \in {registered, body}
    /\ UNCHANGED <<credentials, body, presented, elapsed, trusted>>

\* Waiting d units; the clock stops counting at MaxElapsed.
Pass(d) == elapsed' = IF elapsed + d < MaxElapsed THEN elapsed + d ELSE MaxElapsed

\* Fault: a failed request skips the deadline.
GetRetrying ==
    /\ stage = "polling"
    /\ \E d \in 0 .. MaxRequest : Pass(d)
    /\ \/ stage' = "synced" /\ trusted = registered
       \/ stage' = "sleeping"
       \/ stage' = "off" /\ elapsed' >= SyncTimeout /\ trusted # registered
    /\ UNCHANGED <<credentials, body, presented, outside>>

\* fleet_telemetry_config_get returns synced, returns otherwise or raises: in
\* the latter cases the deadline decides.
Get ==
    /\ stage = "polling"
    /\ \E d \in 0 .. MaxRequest : Pass(d)
    /\ \/ stage' = "synced" /\ trusted = registered
       \/ stage' = IF elapsed' >= SyncTimeout THEN "off" ELSE "sleeping"
    /\ UNCHANGED <<credentials, body, presented, outside>>

Sleep ==
    /\ stage = "sleeping"
    /\ stage' = "polling"
    /\ Pass(1)
    /\ UNCHANGED <<credentials, body, presented, outside>>

\* build_ssl_context, which raises unless key and certificate are there and match.
SslContext ==
    {leaf \in {files["server.pem"]} :
        /\ Creds!Intact("server.pem") /\ Creds!Intact("server.key")
        /\ leaf.key = files["server.key"].key}

Serve ==
    /\ stage = "synced"
    /\ \/ SslContext = {} /\ stage' = "off" /\ UNCHANGED presented
       \/ presented' \in SslContext /\ stage' = "serving"
    /\ UNCHANGED <<credentials, body, elapsed, outside>>

\* Fault: the process exits and ensure() goes on in its thread.
InterruptedDetached ==
    /\ stage # "off"
    /\ stage' = "off"
    /\ UNCHANGED <<credentials, body, presented, elapsed, outside>>

\* Ctrl-C, for which asyncio.run waits until ensure() has returned, or a crash
\* in the middle of it.
Interrupted ==
    /\ stage # "off"
    /\ stage' = "off"
    /\ Creds!Crash({Program}) \/ (call[Program].at \in Creds!Resting /\ UNCHANGED credentials)
    /\ UNCHANGED <<body, presented, elapsed, outside>>

-----------------------------------------------------------------------------
(* The other process, the operator and the vehicle *)

Rotate ==
    /\ \/ Creds!Begin(Rotator, "rotate", [fqdn |-> Fqdn, ips |-> TRUE])
       \/ Creds!Step(Rotator)
       \/ Creds!Crash({Rotator})
    /\ UNCHANGED <<program, outside>>

Delete ==
    /\ stage # "ensuring"
    /\ \E some \in SUBSET Creds!Files : Creds!Delete(some)
    /\ UNCHANGED <<program, outside>>

\* The vehicle is online and takes over the config.
Sync ==
    /\ trusted # registered
    /\ trusted' = registered
    /\ UNCHANGED <<credentials, program, registered>>

Next ==
    \/ Run \/ Ensuring \/ BuildBody \/ DryRun \/ WakeUp \/ Push \/ Get \/ Sleep \/ Serve
    \/ Interrupted \/ Rotate \/ Delete \/ Sync

\* The event loop runs the program, and a request ends at its total timeout.
Fairness == WF_vars(Get) /\ WF_vars(Sleep)

Spec == Init /\ [][Next]_vars /\ Fairness
-----------------------------------------------------------------------------
\* When the program starts to serve, the vehicle trusts the CA that signed the
\* leaf it will be presented with, though the leaf may be rotated at any time
\* and the program crash and be run again (README.md: "rotate the leaf WITHOUT
\* re-pushing"), unless a CA was created without a leaf, and none made up for it.
ServedIsTrusted ==
    [][stage # "serving" /\ stage' = "serving" /\ mishaps \cap {"two CAs", "CA without leaf"} = {}
          => trusted'.key = presented'.signer]_vars

\* _poll_until_synced outlasts its timeout by less than one sleep and one
\* request, however requests fail (the deadline is checked after each).
OverrunBounded == elapsed < SyncTimeout + 1 + MaxRequest

\* It always ends, with a vehicle that never syncs and an API that always fails.
PollingEnds == (stage = "polling") ~> (stage \notin {"polling", "sleeping"})
=============================================================================
