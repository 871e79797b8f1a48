----------------------------- MODULE DurableLog -----------------------------
(***************************************************************************)
(* What a block store promises its callers (common/ledger/blkstorage):     *)
(* AddBlock is atomic.  The store holds a log of blocks of which a prefix  *)
(* is acknowledged; only what is not acknowledged yet may be lost, and     *)
(* only a rollback takes an acknowledgement back.                          *)
(***************************************************************************)
EXTENDS Naturals, Sequences

CONSTANT Block

VARIABLES log, acked   \* the blocks of the store, and how many are promised

Init == log = <<>> /\ acked = 0

Write(b) ==
  /\ log' = Append(log, b)
  /\ UNCHANGED acked

Acknowledge ==
  /\ acked' = Len(log)
  /\ UNCHANGED log

Discard ==
  /\ \E n \in acked .. Len(log) : log' = SubSeq(log, 1, n)
  /\ UNCHANGED acked

Rollback(n) ==
  /\ acked' = n
  /\ UNCHANGED log

Next ==
  \/ \E b \in Block : Write(b)
  \/ Acknowledge
  \/ Discard
  \/ \E n \in 0 .. acked : Rollback(n)

Spec == Init /\ [][Next]_<<log, acked>>
=============================================================================
