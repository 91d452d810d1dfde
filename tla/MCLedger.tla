------------------------------ MODULE MCLedger ------------------------------
(* FixedClob with its caller's ledger on small instances.                  *)
EXTENDS MCFixedClob, Ledger

LedgerView == <<MCView, ledger>>
==============================================================================
