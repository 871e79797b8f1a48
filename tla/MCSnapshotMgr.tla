----------------------------- MODULE MCSnapshotMgr -----------------------------
(* A ledger of a few blocks, for TLC *)
EXTENDS SnapshotMgr
================================================================================
