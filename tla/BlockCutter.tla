------------------------------ MODULE BlockCutter ------------------------------
(***************************************************************************)
(* The block cutter of orderer/common/blockcutter: it collects ordered     *)
(* messages into batches, each of which becomes a block.  The receiver is  *)
(* sequential, so its operations are operators from a receiver to a result.*)
(*                                                                         *)
(* pendingBatchSizeBytes is a uint32 in the code, with UintMod = 2^32.     *)
(***************************************************************************)
EXTENDS Envelopes

CONSTANT UintMod

ASSUME UintModAssumption == UintMod \in Nat \ {0}

Receiver == [pendingBatch : Seq(Message), pendingBatchSizeBytes : Nat]

\* NewReceiverImpl, and what Cut leaves behind.
EmptyReceiver == [pendingBatch |-> <<>>, pendingBatchSizeBytes |-> 0]

\* Variant of Cut that keeps what it has cut.
CutKeeping(r) == [batch |-> r.pendingBatch, receiver |-> r]

\* Cut returns the pending batch and starts a new one.
Cut(r) == [batch |-> r.pendingBatch, receiver |-> EmptyReceiver]

AddUint(a, b) == (a + b) % UintMod

MessageWillOverflow(r, m, batchSize) ==
  AddUint(r.pendingBatchSizeBytes, m.size) > batchSize.preferredMaxBytes

Enqueue(r, m) ==
  [pendingBatch |-> Append(r.pendingBatch, m),
   pendingBatchSizeBytes |-> AddUint(r.pendingBatchSizeBytes, m.size)]

NonEmpty(batch) == IF batch = <<>> THEN <<>> ELSE <<batch>>

\* Variant of OrderedIsolated that puts the message before the pending batch.
OrderedIsolatedFirst(r, m) ==
  [batches  |-> <<<<m>>>> \o NonEmpty(r.pendingBatch),
   pending  |-> FALSE,
   receiver |-> EmptyReceiver]

\* A message larger than PreferredMaxBytes gets a batch of its own, after the pending one.
OrderedIsolated(r, m) ==
  [batches  |-> Append(NonEmpty(r.pendingBatch), <<m>>),
   pending  |-> FALSE,
   receiver |-> IF r.pendingBatch = <<>> THEN r ELSE Cut(r).receiver]

\* Any other message joins the pending batch, which is cut before it if the message would
\* overflow it, and after it if the batch then holds MaxMessageCount messages.
OrderedEnqueued(r, m, batchSize) ==
  LET overflows == MessageWillOverflow(r, m, batchSize)
      next      == Enqueue(IF overflows THEN Cut(r).receiver ELSE r, m)
      full      == Len(next.pendingBatch) >= batchSize.maxMessageCount
      cutBefore == IF overflows THEN <<Cut(r).batch>> ELSE <<>>
      cutAfter  == IF full THEN <<Cut(next).batch>> ELSE <<>>
  IN  [batches  |-> cutBefore \o cutAfter,
       pending  |-> ~full,
       receiver |-> IF full THEN Cut(next).receiver ELSE next]

Ordered(r, m, batchSize) ==
  IF m.size > batchSize.preferredMaxBytes
  THEN OrderedIsolated(r, m)
  ELSE OrderedEnqueued(r, m, batchSize)
================================================================================
