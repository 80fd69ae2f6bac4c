--------------------------- MODULE AccountSweepMC ---------------------------
(***************************************************************************)
(* An instance of AccountSweep for TLC, with the clients of AccountLedgerMC. *)
(***************************************************************************)
EXTENDS AccountSweep, AccountLedgerMC

=============================================================================
