------------------------------ MODULE MCKVLedger ------------------------------
(* A ledger with one private key, for TLC *)
EXTENDS KVLedger
===============================================================================
