---------------------------- MODULE NoPaxosChainInv ----------------------------
(***************************************************************************)
(* The inductive invariant of NoPaxosChain: what each goroutine may rely   *)
(* on at each of its steps.  The safety properties follow from it.         *)
(***************************************************************************)
EXTENDS NoPaxosChain

\* The chain: blocks are numbered from 0, and the LAST_CONFIG of the last block is right.
ChainInv ==
  /\ \A i \in DOMAIN ledger : ledger[i].number = i - 1
  /\ IsLastConfig(ledger, LastOf(ledger).lastConfig)
  /\ validateBatchSize(ConfigOf(ledger))

\* The block writer: lastBlock is the last block of the chain or the next one, and the
\* LAST_CONFIG bookkeeping is that of the chain.
WriterInv ==
  /\ lastConfigBlockNum = LastOf(ledger).lastConfig
  /\ lastConfigSeq = ConfigOf(ledger).sequence
  /\ committing = "free" => lastBlock = LastOf(ledger)
  /\ committing # "free" =>
       /\ lastBlock.number = Len(ledger)
       /\ lastBlock.previousHash = HeaderHash(LastOf(ledger))
       /\ lastBlock.env = NoEnv
  /\ committing = "append" => lastBlock.lastConfig = LastOf(ledger).lastConfig

\* The configuration in force is the one of the chain, except between Update and the append
\* of the config block, when it is the one about to be appended.
BundleInv ==
  /\ mainPC # "commitConfig" => bundle = ConfigOf(ledger)
  /\ mainPC = "commitConfig" => committing = "free" /\ bundle = configMsg.config
  /\ mainPC = "select" => seq = bundle.sequence

\* What main has still to write in an iteration.
MainInv ==
  /\ mainPC = "writeBatches" <=> batches # <<>>
  /\ mainPC \in {"writeConfig", "commitConfig"} => configMsg # NoEnv
  /\ configMsg # NoEnv =>
       /\ mainPC \in {"writeBatches", "writeConfig", "commitConfig"}
       /\ receiver.pendingBatch = <<>>
       /\ configMsg.lastUpdate \in Update
       /\ Validate(ConfigOf(ledger), configMsg)
       /\ ProcessConfigUpdateMsg(ConfigOf(ledger), configMsg.lastUpdate)
  /\ timer <=> receiver.pendingBatch # <<>>

\* What a handler holds at each step.
HandlerShape(h) ==
  /\ hpc[h] = "idle" => hmsg[h] = NoEnv
  /\ hpc[h] # "idle" => hmsg[h] \in Submission
  /\ henv[h] # NoEnv => hmsg[h] \in Update /\ henv[h].lastUpdate = hmsg[h]
  /\ hpc[h] = "checkState" => hmsg[h] \in Message
  /\ hpc[h] \in {"idle", "checkState", "readSeq", "propose"} => henv[h] = NoEnv
  /\ hpc[h] = "propose" => hmsg[h] \in Update
  /\ hpc[h] = "maintenance" => henv[h] # NoEnv
  /\ hpc[h] = "enqueue" /\ hmsg[h] \in Update => henv[h] # NoEnv

\* What a handler knows of its envelope: as long as the sequence it read is the current one,
\* all that it has checked holds of the configuration in force.
Validating(h) == hpc[h] \notin {"idle", "checkState", "readSeq"}

Knows(h) ==
  /\ hpc[h] \in {"sig", "policy"} => SizeFilter(bundle, Filtered(h))
  /\ hpc[h] = "policy" => hpolicy[h] = PolicyName(bundle)
  /\ hpc[h] = "propose" => Filters(bundle, hmsg[h])
  /\ henv[h] # NoEnv =>
       /\ Filters(bundle, hmsg[h])
       /\ CanPropose(bundle, hmsg[h])
       /\ henv[h] = ProposeConfigUpdate(bundle, hmsg[h])
  /\ hpc[h] = "maintenance" => Filters(bundle, SignedEnvelope(henv[h]))
  /\ hpc[h] = "enqueue" =>
       IF hmsg[h] \in Update
       THEN ProcessConfigUpdateMsg(bundle, hmsg[h])
       ELSE Filters(bundle, hmsg[h])

HandlerOK(h) ==
  /\ HandlerShape(h)
  /\ Validating(h) => hseq[h] <= bundle.sequence
  /\ Validating(h) /\ hseq[h] = bundle.sequence => Knows(h)

HandlerInv == \A h \in Handler : HandlerOK(h)

\* Messages that may go into the next block under configuration c.
Admitted(c, batch) == \A i \in DOMAIN batch : Filters(c, batch[i])
GoodBatch(c, batch) ==
  /\ Admitted(c, batch)
  /\ Len(batch) \in 1 .. c.batchSize.maxMessageCount

BatchInv ==
  LET c == ConfigOf(ledger)
  IN  /\ Admitted(c, receiver.pendingBatch)
      /\ Len(receiver.pendingBatch) < c.batchSize.maxMessageCount
      /\ receiver.pendingBatch = <<>> => receiver.pendingBatchSizeBytes = 0
      /\ \A i \in DOMAIN batches : GoodBatch(c, batches[i])
      /\ committing # "free" => GoodBatch(c, lastBlock.txs)

\* The order of the messages main has enqueued, by their tickets t of 1 .. n: first the
\* chain, then the block being committed, the batches still to be written and the pending
\* batch.
Run(t, n, b) ==
  /\ \A i \in DOMAIN b : t[b[i]] \in 1 .. n
  /\ \A i, j \in DOMAIN b : i < j => t[b[i]] < t[b[j]]
Before(t, a, b) == \A i \in DOMAIN a, j \in DOMAIN b : t[a[i]] < t[b[j]]
AfterChain(t, chain, b) == \A n \in DOMAIN chain : Before(t, chain[n].txs, b)

ChainOrderInv ==
  /\ \A n \in DOMAIN ledger : Run(ticket, tickets, ledger[n].txs)
  /\ \A n, k \in DOMAIN ledger : n < k => Before(ticket, ledger[n].txs, ledger[k].txs)

HeldOrderInv ==
  LET pending == receiver.pendingBatch
  IN  /\ Run(ticket, tickets, pending)
      /\ AfterChain(ticket, ledger, pending)
      /\ \A i \in DOMAIN batches :
           /\ Run(ticket, tickets, batches[i])
           /\ AfterChain(ticket, ledger, batches[i])
           /\ Before(ticket, batches[i], pending)
           /\ \A j \in DOMAIN batches : i < j => Before(ticket, batches[i], batches[j])
      /\ committing # "free" =>
           /\ Run(ticket, tickets, lastBlock.txs)
           /\ AfterChain(ticket, ledger, lastBlock.txs)
           /\ Before(ticket, lastBlock.txs, pending)
           /\ \A i \in DOMAIN batches : Before(ticket, lastBlock.txs, batches[i])

\* A message with a client or a handler has not been enqueued, and is nowhere else; one that
\* has been enqueued is held or in the chain.
PlaceInv ==
  /\ \A m \in Message : m \in unsent => ticket[m] = 0
  /\ \A h \in Handler : hmsg[h] \in Message => ticket[hmsg[h]] = 0
  /\ \A h \in Handler : hmsg[h] \notin unsent
  /\ \A g, h \in Handler : hmsg[g] = hmsg[h] /\ hmsg[g] # NoEnv => g = h
  /\ \A m \in Message : ticket[m] > 0 => Held(m) \/ InChain(ledger, m)

\* Once the process is down, only the ledger counts.
IInv ==
  /\ TypeOK
  /\ ChainOrderInv
  /\ ConfigNeverPanics
  /\ ~MayRemove => ledgerOpen /\ ~exitChan /\ AppendNeverPanics
  /\ status = "up" =>
       /\ ChainInv /\ WriterInv /\ BundleInv /\ MainInv
       /\ HandlerInv /\ BatchInv /\ HeldOrderInv /\ PlaceInv
================================================================================
