----------------------------- MODULE MCEndToEnd -----------------------------
(***************************************************************************)
(* Values for the constants of EndToEnd.                                   *)
(***************************************************************************)
EXTENDS EndToEnd

MCFqdns == {"a.example"}
=============================================================================
