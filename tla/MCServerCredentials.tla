------------------------ MODULE MCServerCredentials ------------------------
(***************************************************************************)
(* Values for the constants of ServerCredentials.                          *)
(***************************************************************************)
EXTENDS ServerCredentials, TLC

CONSTANTS c1, c2
Two == {c1, c2}
Symmetry == Permutations(Two)

MCFqdns == {"a.example", "b.example"}
Valid == {[fqdn |-> f, ips |-> TRUE] : f \in MCFqdns}
\* An empty name, or an address that is none: no leaf can be issued.
Invalid == {[fqdn |-> "", ips |-> TRUE], [fqdn |-> "a.example", ips |-> FALSE]}
AnyArguments == Valid \cup Invalid
=============================================================================
