--------------------------- MODULE MCDesktopStart ---------------------------
(* The files of DesktopStart on a small instance: one audit log and the     *)
(* ledger, in the order of LEGACY_FILES, beside the profiles.               *)
EXTENDS DesktopStart, TLC

CONSTANTS audit, ledger

AuditThenLedger == <<audit, ledger>>

\* There was no older installation, or one with all the files.
NoneOrAll == {{}, Files}
=============================================================================
