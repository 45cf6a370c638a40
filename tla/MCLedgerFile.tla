----------------------------- MODULE MCLedgerFile ----------------------------
(* Ledger objects and processes for the TLC run of LedgerFile. *)
EXTENDS LedgerFile, TLC

CONSTANTS old, other, app, server

\* A core of the desktop process and one of another.
OldAndServer == (old :> app) @@ (other :> server)
=============================================================================
