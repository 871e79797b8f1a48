------------------------------ MODULE NoPaxosChain ------------------------------
(***************************************************************************)
(* One channel of an ordering node: the nopaxos consenter                  *)
(* (orderer/consensus/nopaxos/chain.go) with the goroutines around it.     *)
(*                                                                         *)
(*   handlers    the broadcast streams (Handler.ProcessMessage) and the    *)
(*               UDP server loop (UdpServer.Start); each validates an      *)
(*               envelope against the current configuration and hands it   *)
(*               to the chain over the unbuffered sendChan                 *)
(*   main        the chain's goroutine: block cutter, batch timer, writer  *)
(*   committer   the goroutine WriteBlock spawns, which holds the          *)
(*               committingBlock lock until the block is on disk           *)
(*                                                                         *)
(* The configuration (bundle) is read by all of them without a lock, so    *)
(* every read a handler makes is a step of its own.  Steps of main between *)
(* two reads of shared state are merged: its locals (seq, timer, the       *)
(* batches still to be written) are seen by nobody else.                   *)
(***************************************************************************)
EXTENDS Blocks, BlockCutter

CONSTANTS Handler,      \* the concurrent ingress paths
          UdpHandler,   \* those of them that are UDP loops, which never reply
          Consenters,   \* the consenter types registered in main.go
          Workloads,    \* the sets of envelopes that clients may submit in one behaviour
          MayRemove,    \* whether the channel may be removed from this node
          MaxCrashes    \* bound on the crashes explored

ASSUME ChainConstants ==
  /\ UdpHandler \subseteq Handler
  /\ Workloads \subseteq SUBSET (Message \cup Update)
  /\ MayRemove \in BOOLEAN
  /\ MaxCrashes \in Nat
  /\ Message \cap Update = {}
  /\ NoEnv \notin Message \cup Update

VARIABLES
  status,               \* of the orderer process
  crashes,
  bundle,               \* BundleSource.bundle, the configuration in force
  unsent,               \* what clients have not submitted yet
  reply,                \* the status each client was sent
  hpc, hmsg, hseq, hpolicy, henv,   \* per handler: next step, envelope, configSeq, policy
                        \* to evaluate, CONFIG envelope made
  mainPC, seq, timer,   \* main's next step, the local seq, whether the timer is running
  batches, configMsg,   \* what main has still to write in this iteration
  exitChan,             \* closed?
  receiver,             \* the block cutter
  lastBlock, lastConfigBlockNum, lastConfigSeq,   \* BlockWriter
  committing,           \* committingBlock: free, or what its holder does next
  ledger, ledgerOpen,
  ticket, tickets       \* history: when main enqueued each message, and how many it did

process  == <<status, crashes>>
clients  == <<unsent, reply>>
handlers == <<hpc, hmsg, hseq, hpolicy, henv>>
main     == <<mainPC, seq, timer, batches, configMsg>>
writer   == <<lastBlock, lastConfigBlockNum, lastConfigSeq, committing>>
store    == <<ledger, ledgerOpen>>
history  == <<ticket, tickets>>
vars == <<process, bundle, clients, handlers, main, exitChan, receiver, writer, store, history>>

CL == INSTANCE ChannelLedger

Submission == Message \cup Update
HandlerPC  == {"idle", "checkState", "readSeq", "size", "sig", "policy", "propose",
               "maintenance", "enqueue"}
Statuses   == {"none", "SUCCESS", "BAD_REQUEST", "FORBIDDEN", "SERVICE_UNAVAILABLE"}

--------------------------------------------------------------------------------
(* Start-up, from what the ledger holds: ConfigBlockOrPanic, newChainSupport,
   newBlockWriter and HandleChain. *)

\* ConfigBlock: the block that the LAST_CONFIG of the last block names.
ConfigBlockOf(chain) == chain[LastOf(chain).lastConfig + 1]

Init ==
  /\ status = "up" /\ crashes = 0
  /\ ledger = <<Genesis>> /\ ledgerOpen = TRUE
  /\ bundle = GenesisConfig
  /\ unsent \in Workloads
  /\ reply = [s \in Submission |-> "none"]
  /\ hpc = [h \in Handler |-> "idle"]
  /\ hmsg = [h \in Handler |-> NoEnv]
  /\ hseq = [h \in Handler |-> 0]
  /\ hpolicy = [h \in Handler |-> "none"]
  /\ henv = [h \in Handler |-> NoEnv]
  /\ mainPC = "loop" /\ seq = 0 /\ timer = FALSE
  /\ batches = <<>> /\ configMsg = NoEnv
  /\ exitChan = FALSE
  /\ receiver = EmptyReceiver
  /\ lastBlock = Genesis /\ lastConfigBlockNum = 0
  /\ lastConfigSeq = GenesisConfig.sequence
  /\ committing = "free"
  /\ ticket = [m \in Message |-> 0] /\ tickets = 0

\* The process dies at any moment and comes back: only the ledger survives.  Without a
\* consenter for the configured type, initAppChannels panics and the node stays down.
CrashAndRestart ==
  /\ status = "up" /\ ledgerOpen
  /\ crashes < MaxCrashes
  /\ crashes' = crashes + 1
  /\ bundle' = ConfigBlockOf(ledger).env.config
  /\ status' = IF bundle'.consensusType.type \in Consenters THEN "up" ELSE "noConsenter"
  /\ lastBlock' = LastOf(ledger)
  /\ lastConfigBlockNum' = IF lastBlock'.number # 0 THEN lastBlock'.lastConfig ELSE 0
  /\ lastConfigSeq' = bundle'.sequence
  /\ committing' = "free"
  /\ receiver' = EmptyReceiver
  /\ mainPC' = "loop" /\ seq' = 0 /\ timer' = FALSE
  /\ batches' = <<>> /\ configMsg' = NoEnv
  /\ exitChan' = FALSE
  /\ hpc' = [h \in Handler |-> "idle"]
  /\ hmsg' = [h \in Handler |-> NoEnv]
  /\ hseq' = [h \in Handler |-> 0]
  /\ hpolicy' = [h \in Handler |-> "none"]
  /\ henv' = [h \in Handler |-> NoEnv]
  /\ ticket' = [m \in Message |-> IF InChain(ledger, m) THEN ticket[m] ELSE 0]
  /\ UNCHANGED <<clients, store, tickets>>

--------------------------------------------------------------------------------
(* The handlers: ProcessMessage and the body of the UDP loop. *)

At(h, pc) == status = "up" /\ hpc[h] = pc

Goto(h, pc) == hpc' = [hpc EXCEPT ![h] = pc]

\* The handler is done with its envelope; a UDP loop drops the outcome.
Return(h, st) ==
  /\ Goto(h, "idle")
  /\ hmsg' = [hmsg EXCEPT ![h] = NoEnv]
  /\ hseq' = [hseq EXCEPT ![h] = 0]
  /\ hpolicy' = [hpolicy EXCEPT ![h] = "none"]
  /\ henv' = [henv EXCEPT ![h] = NoEnv]
  /\ reply' = IF h \in UdpHandler THEN reply ELSE [reply EXCEPT ![hmsg[h]] = st]

\* A handler step that reads the bundle: go on if the check passes, else answer with st.
Check(h, ok, pc, st) ==
  /\ IF ok
     THEN Goto(h, pc) /\ UNCHANGED <<reply, hmsg, hseq, hpolicy, henv>>
     ELSE Return(h, st)
  /\ UNCHANGED <<process, bundle, unsent, main, exitChan, receiver, writer, store, history>>

\* An envelope arrives and BroadcastChannelSupport classifies it.
Receive(h) ==
  /\ At(h, "idle") /\ ~exitChan
  /\ \E s \in unsent :
       /\ unsent' = unsent \ {s}
       /\ hmsg' = [hmsg EXCEPT ![h] = s]
       /\ Goto(h, IF s \in Update THEN "readSeq" ELSE "checkState")
  /\ UNCHANGED <<process, bundle, reply, hseq, hpolicy, henv, main, exitChan, receiver, writer, store,
                 history>>

\* RemoveChannel deletes the chain under the lock under which it halts it, so
\* BroadcastChannelSupport then finds no such channel.
ReceiveRemoved(h) ==
  /\ At(h, "idle") /\ exitChan
  /\ \E s \in unsent :
       /\ unsent' = unsent \ {s}
       /\ reply' = IF h \in UdpHandler THEN reply ELSE [reply EXCEPT ![s] = "BAD_REQUEST"]
  /\ UNCHANGED <<process, bundle, handlers, main, exitChan, receiver, writer, store, history>>

\* ProcessNormalMsg: the maintenance-mode check comes before Sequence is read.
CheckState(h) ==
  /\ At(h, "checkState")
  /\ Check(h, ~RejectsNormal(bundle), "readSeq", "SERVICE_UNAVAILABLE")

\* Both processors call Sequence before they apply the filters.
ReadSequence(h) ==
  /\ At(h, "readSeq")
  /\ hseq' = [hseq EXCEPT ![h] = bundle.sequence]
  /\ Goto(h, "size")
  /\ UNCHANGED <<process, bundle, clients, hmsg, hpolicy, henv, main, exitChan, receiver, writer,
                 store, history>>

\* The rules are applied to the envelope received and, for a config update, once more to the
\* CONFIG envelope made of it.
Filtered(h) == IF henv[h] = NoEnv THEN hmsg[h] ELSE SignedEnvelope(henv[h])

AfterFilters(h) ==
  CASE hmsg[h] \in Message -> "enqueue"
    [] henv[h] # NoEnv -> "maintenance"
    [] OTHER -> "propose"

ApplySizeFilter(h) ==
  /\ At(h, "size")
  /\ Check(h, SizeFilter(bundle, Filtered(h)), "sig", "BAD_REQUEST")

\* SigFilter.Apply reads the configuration twice: for the policy's name and for the policy.
SelectPolicy(h) ==
  /\ At(h, "sig")
  /\ hpolicy' = [hpolicy EXCEPT ![h] = PolicyName(bundle)]
  /\ Goto(h, "policy")
  /\ UNCHANGED <<process, bundle, clients, hmsg, hseq, henv, main, exitChan, receiver, writer,
                 store, history>>

EvaluatePolicy(h) ==
  /\ At(h, "policy")
  /\ Check(h, Filtered(h).creator \in Policy(bundle, hpolicy[h]), AfterFilters(h), "FORBIDDEN")

\* ProcessConfigUpdateMsg, from ProposeConfigUpdate on.
Propose(h) ==
  /\ At(h, "propose")
  /\ IF CanPropose(bundle, hmsg[h])
     THEN /\ henv' = [henv EXCEPT ![h] = ProposeConfigUpdate(bundle, hmsg[h])]
          /\ Goto(h, "size")
          /\ UNCHANGED <<reply, hmsg, hseq, hpolicy>>
     ELSE Return(h, "BAD_REQUEST")
  /\ UNCHANGED <<process, bundle, unsent, main, exitChan, receiver, writer, store, history>>

ApplyMaintenanceFilter(h) ==
  /\ At(h, "maintenance")
  /\ Check(h, MaintenanceFilter(bundle, henv[h]), "enqueue", "BAD_REQUEST")

\* Variant of OrderExiting without the exitChan case of the select.
OrderExitingNever(h) == At(h, "enqueue") /\ UNCHANGED vars

\* Order and Configure give up once exitChan is closed.
OrderExiting(h) ==
  /\ At(h, "enqueue") /\ exitChan
  /\ Return(h, "SERVICE_UNAVAILABLE")
  /\ UNCHANGED <<process, bundle, unsent, main, exitChan, receiver, writer, store, history>>

HandlerStep(h) ==
  \/ CheckState(h)
  \/ ReadSequence(h)
  \/ ApplySizeFilter(h)
  \/ SelectPolicy(h)
  \/ EvaluatePolicy(h)
  \/ Propose(h)
  \/ ApplyMaintenanceFilter(h)
  \/ OrderExiting(h)

--------------------------------------------------------------------------------
(* main *)

MainAt(pc) == status = "up" /\ mainPC = pc

\* Where an iteration of main goes on when it has bs and then env still to write.
Resume(bs, env) ==
  IF bs # <<>> THEN "writeBatches" ELSE IF env # NoEnv THEN "writeConfig" ELSE "loop"

\* Variant of MainLoop that reads the sequence once and for all.
MainLoopStale ==
  /\ MainAt("loop")
  /\ mainPC' = "select"
  /\ UNCHANGED <<process, bundle, clients, handlers, seq, timer, batches, configMsg, exitChan,
                 receiver, writer, store, history>>

\* The head of the loop reads the configuration sequence, before the select.
MainLoop ==
  /\ MainAt("loop")
  /\ seq' = bundle.sequence
  /\ mainPC' = "select"
  /\ UNCHANGED <<process, bundle, clients, handlers, timer, batches, configMsg, exitChan,
                 receiver, writer, store, history>>

\* The rendezvous on sendChan: the handler's Order or Configure returns nil.
Rendezvous(h) ==
  /\ MainAt("select") /\ hpc[h] = "enqueue"
  /\ Return(h, "SUCCESS")

\* Variant of Outdated: no revalidation.
OutdatedNever(h) == FALSE

\* The message was validated against an older configuration.
Outdated(h) == hseq[h] < seq

\* Variant of NextTimer: the timer is not stopped.
NextTimerRunsOn(running, pending) == running \/ pending

\* The timer switch at the end of the normal-message case.
NextTimer(running, pending) ==
  CASE running /\ ~pending -> FALSE
    [] ~running /\ pending -> TRUE
    [] OTHER -> running

MainOrder(h) ==
  LET m == hmsg[h]
      o == Ordered(receiver, m, bundle.batchSize)
  IN  /\ Rendezvous(h)
      /\ m \in Message
      /\ Outdated(h) => ProcessNormalMsg(bundle, m)
      /\ receiver' = o.receiver
      /\ batches' = o.batches
      /\ timer' = NextTimer(timer, o.pending)
      /\ mainPC' = Resume(o.batches, NoEnv)
      /\ tickets' = tickets + 1
      /\ ticket' = [ticket EXCEPT ![m] = tickets + 1]
      /\ UNCHANGED <<process, bundle, unsent, seq, configMsg, exitChan, writer, store>>

\* A config message cuts the pending batch, and comes after it.
MainConfigure(h) ==
  LET u   == hmsg[h]
      env == IF Outdated(h) THEN ProposeConfigUpdate(bundle, u) ELSE henv[h]
      cut == Cut(receiver)
  IN  /\ Rendezvous(h)
      /\ u \in Update
      /\ Outdated(h) => ProcessConfigUpdateMsg(bundle, u)
      /\ receiver' = cut.receiver
      /\ batches' = NonEmpty(cut.batch)
      /\ configMsg' = env
      /\ timer' = FALSE
      /\ mainPC' = Resume(batches', env)
      /\ UNCHANGED <<process, bundle, unsent, seq, exitChan, writer, store, history>>

\* Revalidation fails: the message is dropped, although its sender was told SUCCESS.
MainDiscard(h) ==
  /\ Rendezvous(h)
  /\ Outdated(h)
  /\ ~ IF hmsg[h] \in Update
       THEN ProcessConfigUpdateMsg(bundle, hmsg[h])
       ELSE ProcessNormalMsg(bundle, hmsg[h])
  /\ mainPC' = "loop"
  /\ UNCHANGED <<process, bundle, unsent, seq, timer, batches, configMsg, exitChan, receiver,
                 writer, store, history>>

\* Variant of MainTimer: a single message is left for the next batch.
MainTimerFull ==
  LET cut == Cut(receiver)
  IN  /\ MainAt("select") /\ timer /\ Len(receiver.pendingBatch) > 1
      /\ timer' = FALSE
      /\ receiver' = cut.receiver
      /\ batches' = NonEmpty(cut.batch)
      /\ mainPC' = Resume(batches', NoEnv)
      /\ UNCHANGED <<process, bundle, clients, handlers, seq, configMsg, exitChan, writer, store,
                     history>>

MainTimer ==
  LET cut == Cut(receiver)
  IN  /\ MainAt("select") /\ timer
      /\ timer' = FALSE
      /\ receiver' = cut.receiver
      /\ batches' = NonEmpty(cut.batch)
      /\ mainPC' = Resume(batches', NoEnv)
      /\ UNCHANGED <<process, bundle, clients, handlers, seq, configMsg, exitChan, writer, store,
                     history>>

\* What is pending in the cutter is never written.
MainExit ==
  /\ MainAt("select") /\ exitChan
  /\ mainPC' = "exited"
  /\ UNCHANGED <<process, bundle, clients, handlers, seq, timer, batches, configMsg, exitChan,
                 receiver, writer, store, history>>

--------------------------------------------------------------------------------
(* BlockWriter, called by main, and the goroutine it spawns *)

CreateNextBlock(txs, env) ==
  [number |-> lastBlock.number + 1, previousHash |-> HeaderHash(lastBlock),
   txs |-> txs, env |-> env, lastConfig |-> 0]

\* addLastConfig: the block is the last config block if the sequence has moved since.
NewConfigSeen == bundle.sequence > lastConfigSeq
addLastConfig(b) ==
  [b EXCEPT !.lastConfig = IF NewConfigSeen THEN b.number ELSE lastConfigBlockNum]
TrackLastConfig(b) ==
  /\ lastConfigBlockNum' = addLastConfig(b).lastConfig
  /\ lastConfigSeq' = IF NewConfigSeen THEN bundle.sequence ELSE lastConfigSeq

\* addBlock of the block store refuses a block that does not extend the chain, on which
\* commitBlock panics; once the store is shut down addBlock panics itself, as it can
\* neither write to the file nor truncate it.
CanAppend(b) ==
  /\ ledgerOpen
  /\ b.number = Len(ledger)
  /\ b.previousHash = HeaderHash(LastOf(ledger))

AppendOrPanic(b) ==
  /\ ledger' = IF CanAppend(b) THEN Append(ledger, b) ELSE ledger
  /\ status' = IF CanAppend(b) THEN status ELSE "appendPanic"

\* Variant of WriteBlock that does not take the lock.
WriteBlockUnlocked ==
  /\ MainAt("writeBatches")
  /\ committing' = "stamp"
  /\ lastBlock' = CreateNextBlock(Head(batches), NoEnv)
  /\ batches' = Tail(batches)
  /\ mainPC' = Resume(batches', configMsg)
  /\ UNCHANGED <<process, bundle, clients, handlers, seq, timer, configMsg, exitChan, receiver,
                 lastConfigBlockNum, lastConfigSeq, store, history>>

\* WriteBlock: takes the lock, replaces lastBlock and leaves the rest to the goroutine.
WriteBlock ==
  /\ MainAt("writeBatches") /\ committing = "free"
  /\ committing' = "stamp"
  /\ lastBlock' = CreateNextBlock(Head(batches), NoEnv)
  /\ batches' = Tail(batches)
  /\ mainPC' = Resume(batches', configMsg)
  /\ UNCHANGED <<process, bundle, clients, handlers, seq, timer, configMsg, exitChan, receiver,
                 lastConfigBlockNum, lastConfigSeq, store, history>>

CommitStamp ==
  /\ status = "up" /\ committing = "stamp"
  /\ TrackLastConfig(lastBlock)
  /\ lastBlock' = addLastConfig(lastBlock)
  /\ committing' = "append"
  /\ UNCHANGED <<process, bundle, clients, handlers, main, exitChan, receiver, store, history>>

CommitAppend ==
  /\ status = "up" /\ committing = "append"
  /\ AppendOrPanic(lastBlock)
  /\ committing' = "free"
  /\ UNCHANGED <<crashes, bundle, clients, handlers, main, exitChan, receiver, lastBlock,
                 lastConfigBlockNum, lastConfigSeq, ledgerOpen, history>>

\* Variant of UpdateBundle that does not wait for the committer.
UpdateBundleAtOnce ==
  LET ok == Validate(bundle, configMsg)
  IN  /\ MainAt("writeConfig")
      /\ status' = IF ok THEN status ELSE "configPanic"
      /\ bundle' = IF ok THEN configMsg.config ELSE bundle
      /\ mainPC' = "commitConfig"
      /\ UNCHANGED <<crashes, clients, handlers, seq, timer, batches, configMsg, exitChan,
                     receiver, writer, store, history>>

\* WriteConfigBlock up to Update: it panics on an envelope that does not validate, and
\* waits for the committer before it replaces the bundle.
UpdateBundle ==
  LET ok == Validate(bundle, configMsg)
  IN  /\ MainAt("writeConfig")
      /\ ok => committing = "free"
      /\ status' = IF ok THEN status ELSE "configPanic"
      /\ bundle' = IF ok THEN configMsg.config ELSE bundle
      /\ mainPC' = "commitConfig"
      /\ UNCHANGED <<crashes, clients, handlers, seq, timer, batches, configMsg, exitChan,
                     receiver, writer, store, history>>

\* WriteBlockSync: main commits the config block itself.
CommitConfigBlock ==
  LET b == addLastConfig(CreateNextBlock(<<>>, configMsg))
  IN  /\ MainAt("commitConfig") /\ committing = "free"
      /\ TrackLastConfig(b)
      /\ lastBlock' = b
      /\ AppendOrPanic(b)
      /\ configMsg' = NoEnv
      /\ mainPC' = "loop"
      /\ UNCHANGED <<crashes, bundle, clients, handlers, seq, timer, batches, exitChan, receiver,
                     committing, ledgerOpen, history>>

--------------------------------------------------------------------------------
(* The registrar: RemoveChannel halts the chain, which closes exitChan and waits for nobody,
   and then removes the ledger in a goroutine of its own. *)

Halt ==
  /\ MayRemove
  /\ status = "up" /\ ~exitChan
  /\ exitChan' = TRUE
  /\ UNCHANGED <<process, bundle, clients, handlers, main, receiver, writer, store, history>>

RemoveLedger ==
  /\ status = "up" /\ exitChan /\ ledgerOpen
  /\ ledgerOpen' = FALSE
  /\ UNCHANGED <<process, bundle, clients, handlers, main, exitChan, receiver, writer, ledger,
                 history>>

--------------------------------------------------------------------------------
MainReceive(h) == MainOrder(h) \/ MainConfigure(h) \/ MainDiscard(h)

Next ==
  \/ \E h \in Handler : Receive(h) \/ ReceiveRemoved(h) \/ HandlerStep(h) \/ MainReceive(h)
  \/ MainLoop \/ MainTimer \/ MainExit
  \/ WriteBlock \/ CommitStamp \/ CommitAppend \/ UpdateBundle \/ CommitConfigBlock
  \/ Halt \/ RemoveLedger \/ CrashAndRestart

Spec == Init /\ [][Next]_vars

\* Goroutines that can run do run: a handler goes on, a sender that waits on sendChan is
\* served, a running timer fires, the committer finishes.  Nobody owes the node a client, a
\* Halt or a restart.
Fairness ==
  /\ \A h \in Handler : WF_vars(HandlerStep(h)) /\ WF_vars(MainReceive(h))
  /\ WF_vars(MainLoop) /\ WF_vars(MainTimer) /\ WF_vars(MainExit)
  /\ WF_vars(WriteBlock) /\ WF_vars(UpdateBundle) /\ WF_vars(CommitConfigBlock)
  /\ WF_vars(CommitStamp) /\ WF_vars(CommitAppend)

FairSpec == Spec /\ Fairness

--------------------------------------------------------------------------------
(* Properties *)

\* Types of the variables.
TypeOK ==
  /\ status \in {"up", "noConsenter", "appendPanic", "configPanic"}
  /\ crashes \in 0 .. MaxCrashes
  /\ bundle \in Config /\ validateBatchSize(bundle)
  /\ unsent \subseteq Submission
  /\ reply \in [Submission -> Statuses]
  /\ hpc \in [Handler -> HandlerPC]
  /\ hseq \in [Handler -> Nat]
  /\ hmsg \in [Handler -> Submission \cup {NoEnv}]
  /\ hpolicy \in [Handler -> {"none", "Writers", "OrdererWriters"}]
  /\ henv \in [Handler -> Env \cup {NoEnv}]
  /\ mainPC \in {"loop", "select", "writeBatches", "writeConfig", "commitConfig", "exited"}
  /\ seq \in Nat /\ timer \in BOOLEAN
  /\ batches \in Seq(Seq(Message))
  /\ configMsg \in Env \cup {NoEnv}
  /\ exitChan \in BOOLEAN
  /\ receiver \in Receiver
  /\ lastBlock \in Block
  /\ lastConfigBlockNum \in Nat /\ lastConfigSeq \in Nat
  /\ committing \in {"free", "stamp", "append"}
  /\ ledger \in Seq(Block) /\ ledger # <<>>
  /\ ledgerOpen \in BOOLEAN
  /\ ticket \in [Message -> Nat] /\ tickets \in Nat

\* The node keeps the promises of ChannelLedger: handlers that validate against a
\* configuration about to change, the asynchronous committer, config blocks and crashes
\* never show in the chain of blocks.
KeepsLedgerPromises == CL!Spec

\* Whenever main waits in its select, the batch timer runs exactly when the cutter holds
\* messages.  So no pending message waits for ever for a next one, and the branch of main
\* that warns "this might indicate a bug" is dead.
TimerRunsIffPending ==
  MainAt("loop") \/ MainAt("select") => (timer <=> receiver.pendingBatch # <<>>)

\* A CONFIG envelope that main writes is always one the configuration in force validates, so
\* WriteConfigBlock never panics, although several handlers propose updates concurrently.
ConfigNeverPanics == status # "configPanic"

\* A block is only ever offered to the ledger as its next one, and while the block store is
\* open, so neither the panic of commitBlock nor that of addBlock is reached.
AppendNeverPanics == status # "appendPanic"

\* A message that main has enqueued and this incarnation of the node still answers for.
Held(m) ==
  \/ Occurs(m, receiver.pendingBatch)
  \/ \E i \in DOMAIN batches : Occurs(m, batches[i])
  \/ committing # "free" /\ Occurs(m, lastBlock.txs)

\* Whatever the cutter and the writer do, a message that main has enqueued is in exactly one
\* place: held in memory or in the chain.
EnqueuedIsHeldOrCommitted ==
  status = "up" => \A m \in Message :
    /\ ticket[m] > 0 <=> (Held(m) \/ InChain(ledger, m))
    /\ ~(Held(m) /\ InChain(ledger, m))

\* Messages appear in the chain in the order in which main enqueued them, across batches
\* that are cut by count, by size, by the timer, by a config message, and across restarts.
ChainIsInOrder ==
  \A b1, b2 \in DOMAIN ledger :
    \A i \in DOMAIN ledger[b1].txs, j \in DOMAIN ledger[b2].txs :
      (b1 < b2 \/ (b1 = b2 /\ i < j)) =>
        ticket[ledger[b1].txs[i]] < ticket[ledger[b2].txs[j]]

\* In maintenance mode no normal message enters the chain.
MaintenanceBlocksNormal ==
  \A n \in DOMAIN ledger :
    ledger[n].txs # <<>> => ~RejectsNormal(ConfigOf(SubSeq(ledger, 1, n)))

\* The consenter type only changes inside maintenance mode, and entering or leaving that
\* mode changes no other value, although the maintenance filter ran in a handler against a
\* configuration that may since have been replaced.
MigrationIsStaged ==
  \A n \in 2 .. Len(ledger) : IsConfigBlock(ledger[n]) =>
    LET old == ConfigOf(SubSeq(ledger, 1, n - 1))
        new == ledger[n].env.config
    IN  IF new.consensusType.state = old.consensusType.state
        THEN \/ new.consensusType.type = old.consensusType.type
             \/ old.consensusType.state = "MAINTENANCE"
        ELSE /\ new.consensusType.type = old.consensusType.type
             /\ new.consensusType.metadata = old.consensusType.metadata
             /\ new.batchSize = old.batchSize

\* Entering or leaving maintenance mode is not accompanied by any other change: not of a
\* value, and not of a policy.
ModeChangeStandsAlone ==
  \A n \in 2 .. Len(ledger) : IsConfigBlock(ledger[n]) =>
    LET old == ConfigOf(SubSeq(ledger, 1, n - 1))
        new == ledger[n].env.config
    IN  new.consensusType.state # old.consensusType.state =>
          /\ new.batchSize = old.batchSize
          /\ new.writers = old.writers /\ new.ordererWriters = old.ordererWriters

\* A node that stops can start again.
RestartFindsConsenter == status # "noConsenter"

\* A message main has enqueued is eventually in the chain, unless the channel is halted or
\* the process dies.
EnqueuedIsCommitted ==
  \A m \in Message :
    ticket[m] > 0 ~> (InChain(ledger, m) \/ ticket[m] = 0 \/ exitChan \/ status # "up")

\* No handler hangs in Order or Configure, not even when the chain is halted under it.
HandlersReturn ==
  \A h \in Handler : hpc[h] # "idle" ~> (hpc[h] = "idle" \/ status # "up")
================================================================================
