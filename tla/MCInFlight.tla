----------------------------- MODULE MCInFlight -----------------------------
(* A small instance of InFlight for TLC. *)
EXTENDS InFlight

=============================================================================
