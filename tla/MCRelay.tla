------------------------------- MODULE MCRelay -------------------------------
(* Small instances of Relay for TLC: one session. *)
EXTENDS Relay
=============================================================================
