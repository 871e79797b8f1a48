-------------------------- MODULE NoPaxosChainProofs ---------------------------
(***************************************************************************)
(* The inductive invariant of NoPaxosChain, and what follows from it.  The *)
(* lemmas begin with facts about chains of blocks and configurations (what *)
(* the last config block of a chain is, and how appending a block moves    *)
(* it) and about what Ordered of the block cutter does with a message, in  *)
(* each case.  Then come the steps of the handlers, of the block writer,   *)
(* of the clients, of main, and restart and removal of the channel; last,  *)
(* that every step of the node appends a block that ChannelLedger allows,  *)
(* or leaves the ledger alone.                                             *)
(***************************************************************************)
EXTENDS NoPaxosChainInv, TLAPS

--------------------------------------------------------------------------------
(* Chains of blocks, and the block cutter *)

\* A chain has at most one last config block, so LastConfigNum is it.
LEMMA LastConfigIs ==
  ASSUME NEW chain \in Seq(Block), NEW n, IsLastConfig(chain, n)
  PROVE  LastConfigNum(chain) = n
<1>1. ASSUME NEW k, IsLastConfig(chain, k) PROVE k = n
  <2>1. n \in Nat /\ k \in Nat /\ Len(chain) \in Nat /\ n < Len(chain) /\ k < Len(chain)
    BY <1>1 DEF IsLastConfig
  <2>2. ~(n < k) BY <1>1, <2>1 DEF IsLastConfig
  <2>3. ~(k < n) BY <1>1, <2>1 DEF IsLastConfig
  <2> QED BY <2>1, <2>2, <2>3
<1>2. n \in 0 .. Len(chain) - 1 BY Zenon DEF IsLastConfig
<1> QED BY <1>1, <1>2, Zenon DEF LastConfigNum

\* The configuration of a chain is the one in its last config block.
LEMMA ConfigOfIs ==
  ASSUME NEW chain \in Seq(Block), NEW n, IsLastConfig(chain, n)
  PROVE  /\ ConfigOf(chain) = chain[n + 1].env.config
         /\ ConfigOf(chain) \in Config
         /\ n \in Nat /\ n + 1 \in DOMAIN chain
<1>1. LastConfigNum(chain) = n BY LastConfigIs, Zenon
<1>2. n \in 0 .. Len(chain) - 1 /\ chain[n + 1].env # NoEnv
  BY Zenon DEF IsLastConfig, IsConfigBlock
<1>3. n + 1 \in 1 .. Len(chain) BY <1>2
<1>4. chain[n + 1] \in Block BY <1>3
<1>5. chain[n + 1].env \in Env BY <1>2, <1>4, Zenon DEF Block
<1> QED BY <1>1, <1>2, <1>3, <1>5 DEF ConfigOf, Env

\* Appending a block of messages leaves the last config block where it was.
LEMMA AppendNormal ==
  ASSUME NEW chain \in Seq(Block), NEW n, IsLastConfig(chain, n),
         NEW b \in Block, b.env = NoEnv
  PROVE  /\ IsLastConfig(Append(chain, b), n)
         /\ ConfigOf(Append(chain, b)) = ConfigOf(chain)
<1> DEFINE next == Append(chain, b)
<1>1. /\ next \in Seq(Block) /\ Len(next) = Len(chain) + 1
      /\ next[Len(chain) + 1] = b
      /\ \A i \in 1 .. Len(chain) : next[i] = chain[i]
  OBVIOUS
<1>2. n \in 0 .. Len(chain) - 1 BY Zenon DEF IsLastConfig
<1>3. IsLastConfig(next, n)
  <2>1. n \in 0 .. Len(next) - 1 /\ IsConfigBlock(next[n + 1])
    BY <1>1, <1>2 DEF IsLastConfig
  <2>2. ASSUME NEW k \in n + 2 .. Len(next) PROVE ~IsConfigBlock(next[k])
    <3>1. CASE k = Len(next) BY <3>1, <1>1, Zenon DEF IsConfigBlock
    <3>2. CASE k # Len(next) BY <3>2, <1>1, <1>2 DEF IsLastConfig
    <3> QED BY Zenon, <3>1, <3>2
  <2> QED BY <2>1, <2>2, Zenon DEF IsLastConfig
<1>4. ConfigOf(next) = next[n + 1].env.config BY Zenon, <1>1, <1>3, ConfigOfIs
<1>5. ConfigOf(chain) = chain[n + 1].env.config BY ConfigOfIs, Zenon
<1> QED BY <1>1, <1>2, <1>3, <1>4, <1>5

\* Appending a config block makes it the last one.
LEMMA AppendConfig ==
  ASSUME NEW chain \in Seq(Block), NEW b \in Block, b.env # NoEnv
  PROVE  /\ IsLastConfig(Append(chain, b), Len(chain))
         /\ ConfigOf(Append(chain, b)) = b.env.config
<1> DEFINE next == Append(chain, b)
<1>1. /\ next \in Seq(Block) /\ Len(next) = Len(chain) + 1
      /\ next[Len(chain) + 1] = b /\ Len(chain) \in Nat
  OBVIOUS
<1>2. IsLastConfig(next, Len(chain)) BY <1>1 DEF IsLastConfig, IsConfigBlock
<1> QED BY Zenon, <1>1, <1>2, ConfigOfIs

\* The chain of the genesis block.
LEMMA GenesisChain ==
  /\ Genesis \in Block
  /\ IsLastConfig(<<Genesis>>, 0)
  /\ ConfigOf(<<Genesis>>) = GenesisConfig
<1>1. Genesis.env \in Env BY GenesisAssumption, Zenon DEF Genesis, Env
<1>2. Genesis \in Block BY <1>1 DEF Genesis, Block
<1>3. Genesis.env # NoEnv BY <1>1, NoEnvAssumption, Zenon
<1>4. <<>> \in Seq(Block) /\ Append(<<>>, Genesis) = <<Genesis>> /\ Len(<<>>) = 0 BY <1>2
<1>5. Genesis.env.config = GenesisConfig BY Zenon DEF Genesis
<1> HIDE DEF Genesis
<1>6. IsLastConfig(Append(<<>>, Genesis), Len(<<>>)) /\ ConfigOf(Append(<<>>, Genesis)) = Genesis.env.config
  BY Zenon, <1>2, <1>3, <1>4, AppendConfig
<1> QED BY <1>2, <1>4, <1>5, <1>6, Zenon

\* An update yields a configuration, one sequence number on.
LEMMA UpdateResult ==
  ASSUME NEW c \in Config, NEW u \in Update
  PROVE  /\ computeUpdateResult(c, u) \in Config
         /\ computeUpdateResult(c, u).sequence = c.sequence + 1
<1> DEFINE delta == computeDeltaSet(u)
<1>1. delta \subseteq DOMAIN u.writeSet BY Zenon DEF computeDeltaSet
<1>2. [k \in ConfigKey |-> IF k \in delta THEN u.writeSet[k] ELSE c.version[k]] \in [ConfigKey -> Nat]
  BY <1>1, UpdateAssumption, Zenon DEF Config
<1>3. u.consensusType \in ConsensusTypes /\ u.batchSize \in BatchSizes
      /\ u.writers \in SUBSET Creator /\ u.ordererWriters \in SUBSET Creator
  BY UpdateAssumption, Zenon
<1> QED BY <1>2, <1>3 DEF computeUpdateResult, Config

--------------------------------------------------------------------------------
(* The block cutter *)

\* A receiver whose size is 0 when it holds nothing, as every operation leaves it.
Settled(r) == r.pendingBatch = <<>> => r.pendingBatchSizeBytes = 0

\* The six outcomes of Ordered.  In each of them the cut batches and then the pending one
\* are the old pending batch and the message, in that order.
Outcome(r, m, n, o) ==
  LET p == r.pendingBatch
  IN  \/ /\ o.batches = <<>>
         /\ o.receiver.pendingBatch = Append(p, m) /\ Len(p) + 1 < n
      \/ /\ o.batches = <<Append(p, m)>>
         /\ o.receiver.pendingBatch = <<>>
      \/ /\ o.batches = << <<m>> >> /\ p = <<>>
         /\ o.receiver.pendingBatch = <<>>
      \/ /\ o.batches = <<p>> /\ p # <<>>
         /\ o.receiver.pendingBatch = <<m>> /\ 1 < n
      \/ /\ o.batches = <<p, <<m>> >> /\ p # <<>>
         /\ o.receiver.pendingBatch = <<>>

\* Ordered has one of these outcomes, and answers pending exactly when the receiver still
\* holds messages, which is what main sets the batch timer by.
LEMMA OrderedOutcome ==
  ASSUME NEW r \in Receiver, Settled(r), NEW m \in Message, NEW bs,
         bs.preferredMaxBytes \in Nat, bs.maxMessageCount \in Nat \ {0}
  PROVE  LET o == Ordered(r, m, bs)
         IN  /\ Outcome(r, m, bs.maxMessageCount, o)
             /\ o.receiver \in Receiver /\ Settled(o.receiver)
             /\ o.pending \in BOOLEAN
             /\ o.pending <=> o.receiver.pendingBatch # <<>>
\* The uint32 sum of an empty batch's size and a message's is at most the message's size.
<1>AddToEmpty.
  ASSUME NEW x \in Nat
  PROVE  AddUint(0, x) \in Nat /\ AddUint(0, x) <= x
  <2> USE <1>AddToEmpty
  <2>1. UintMod \in Nat /\ UintMod > 0 BY UintModAssumption
  <2>2. (0 + x) = x OBVIOUS
  <2>3. x % UintMod \in Nat /\ x % UintMod < UintMod BY <2>1
  <2>4. CASE x < UintMod 
    <3>1. x % UintMod = x BY <2>1, <2>4
    <3> QED BY <3>1, <2>2 DEF AddUint
  <2>5. CASE UintMod <= x BY <2>1, <2>2, <2>3, <2>5 DEF AddUint
  <2> QED BY <2>1, <2>4, <2>5
\* Two one-element sequences make a pair.
<1>PairUp.
  ASSUME NEW S, NEW x \in S, NEW y \in S
  PROVE  Append(<<x>>, y) = <<x, y>> /\ <<x>> \o <<y>> = <<x, y>>
  <2> USE <1>PairUp
  <2>1. <<x>> \in Seq(S) /\ <<y>> \in Seq(S) /\ <<x, y>> \in Seq(S) OBVIOUS
  <2>2. Append(<<x>>, y) \in Seq(S) /\ Len(Append(<<x>>, y)) = 2
        /\ Append(<<x>>, y)[1] = x /\ Append(<<x>>, y)[2] = y
    BY <2>1
  <2>3. <<x>> \o <<y>> \in Seq(S) /\ Len(<<x>> \o <<y>>) = 2
        /\ (<<x>> \o <<y>>)[1] = x /\ (<<x>> \o <<y>>)[2] = y
    BY <2>1
  <2>4. ASSUME NEW s \in Seq(S), Len(s) = 2, s[1] = x, s[2] = y PROVE s = <<x, y>>
    <3>1. Len(<<x, y>>) = 2 /\ <<x, y>>[1] = x /\ <<x, y>>[2] = y OBVIOUS
    <3>2. \A i \in 1 .. 2 : s[i] = <<x, y>>[i] BY <2>4, <3>1
    <3>3. DOMAIN s = 1 .. 2 /\ DOMAIN <<x, y>> = 1 .. 2 BY <2>4
    <3>4. s = [i \in 1 .. 2 |-> s[i]] /\ <<x, y>> = [i \in 1 .. 2 |-> <<x, y>>[i]] BY <3>3
    <3> QED BY <3>2, <3>4, Zenon
  <2> QED BY Zenon, <2>2, <2>3, <2>4
<1> DEFINE p == r.pendingBatch
           o == Ordered(r, m, bs)
<1>1. p \in Seq(Message) /\ r.pendingBatchSizeBytes \in Nat BY Zenon DEF Receiver
<1>6. <<m>> \in Seq(Message) OBVIOUS
<1>7. Append(<<p>>, <<m>>) = <<p, <<m>> >> /\ <<p>> \o << <<m>> >> = <<p, <<m>> >>
  <2> HIDE DEF p
  <2> QED BY <1>1, <1>6, <1>PairUp, Zenon
<1>2. m.size \in Nat BY MessagesAreEnvelopes, Zenon
<1>3. EmptyReceiver \in Receiver /\ Settled(EmptyReceiver) /\ EmptyReceiver.pendingBatch = <<>>
  BY DEF EmptyReceiver, Receiver, Settled
<1>4. CASE m.size > bs.preferredMaxBytes
  <2>1. o = OrderedIsolated(r, m) BY <1>4, Zenon DEF Ordered
  <2>2. CASE p = <<>>
    <3>1. o.batches = << <<m>> >> /\ o.pending = FALSE /\ o.receiver = r
      BY <2>1, <2>2 DEF OrderedIsolated, NonEmpty
    <3> QED BY Zenon, <2>2, <3>1 DEF Outcome
  <2>3. CASE p # <<>>
    <3>1. o.batches = <<p, <<m>> >> /\ o.pending = FALSE /\ o.receiver = EmptyReceiver
      BY <1>7, <2>1, <2>3 DEF OrderedIsolated, NonEmpty, Cut
    <3> QED BY Zenon, <1>3, <2>3, <3>1 DEF Outcome
  <2> QED BY <2>2, <2>3, Zenon
<1>5. CASE ~(m.size > bs.preferredMaxBytes)
  <2> DEFINE over == MessageWillOverflow(r, m, bs)
             next == Enqueue(IF over THEN EmptyReceiver ELSE r, m)
             full == Len(next.pendingBatch) >= bs.maxMessageCount
  <2>1. /\ o.batches = (IF over THEN <<p>> ELSE <<>>)
                         \o (IF full THEN <<next.pendingBatch>> ELSE <<>>)
        /\ o.pending = ~full
        /\ o.receiver = IF full THEN EmptyReceiver ELSE next
    BY <1>5, Zenon DEF Ordered, OrderedEnqueued, Cut
  <2>2. over => p # <<>>
    <3>1. AddUint(0, m.size) \in Nat /\ AddUint(0, m.size) <= m.size BY <1>2, <1>AddToEmpty, Zenon
    <3> QED BY <1>2, <1>5, <3>1 DEF Settled, MessageWillOverflow
  <2>3. /\ next.pendingBatch = Append(IF over THEN <<>> ELSE p, m)
        /\ next.pendingBatchSizeBytes \in Nat
    BY <1>1, <1>2, <1>3, UintModAssumption DEF Enqueue, AddUint, EmptyReceiver
  <2>4. next \in Receiver /\ next.pendingBatch # <<>>
    <3>1. (IF over THEN <<>> ELSE p) \in Seq(Message) BY <1>1
    <3>2. next.pendingBatch \in Seq(Message) /\ next.pendingBatch # <<>> 
      <4> HIDE DEF next
      <4> QED BY <2>3, <3>1
    <3>3. next = [pendingBatch |-> next.pendingBatch,
                  pendingBatchSizeBytes |-> next.pendingBatchSizeBytes]
      BY Zenon DEF Enqueue
    <3> QED BY <2>3, <3>2, <3>3, Zenon DEF Receiver
  <2>5. o.receiver \in Receiver /\ Settled(o.receiver)
    BY <1>3, <2>1, <2>4, Zenon DEF Settled
  <2>6. o.pending \in BOOLEAN /\ (o.pending <=> o.receiver.pendingBatch # <<>>)
    BY Zenon, <1>3, <2>1, <2>4
  <2>7. Outcome(r, m, bs.maxMessageCount, o)
    <3> HIDE DEF o, next, over
    <3>1. Len(Append(p, m)) = Len(p) + 1 /\ Len(Append(<<>>, m)) = 1
          /\ Append(<<>>, m) = <<m>> /\ Len(p) \in Nat
      BY <1>1
    <3>2. CASE over /\ full BY <1>3, <1>7, <2>1, <2>2, <2>3, <3>1, <3>2, Zenon DEF Outcome
    <3>3. CASE over /\ ~full BY <1>3, <2>1, <2>2, <2>3, <3>1, <3>3 DEF Outcome
    <3>4. CASE ~over /\ full BY <1>3, <2>1, <2>2, <2>3, <3>1, <3>4 DEF Outcome
    <3>5. CASE ~over /\ ~full BY <1>3, <2>1, <2>2, <2>3, <3>1, <3>5 DEF Outcome
    <3> QED BY <3>2, <3>3, <3>4, <3>5, Zenon
  <2> QED BY <2>5, <2>6, <2>7, Zenon
<1> QED BY <1>4, <1>5, Zenon

--------------------------------------------------------------------------------
(* The handlers *)

\* What the handlers leave alone.
Core == <<status, crashes, bundle, mainPC, seq, timer, batches, configMsg, exitChan, receiver,
          lastBlock, lastConfigBlockNum, lastConfigSeq, committing, ledger, ledgerOpen,
          ticket, tickets>>

HandlerTypes ==
  /\ unsent \subseteq Submission
  /\ reply \in [Submission -> Statuses]
  /\ hpc \in [Handler -> HandlerPC]
  /\ hseq \in [Handler -> Nat]
  /\ hmsg \in [Handler -> Submission \cup {NoEnv}]
  /\ hpolicy \in [Handler -> {"none", "Writers", "OrdererWriters"}]
  /\ henv \in [Handler -> Env \cup {NoEnv}]

\* A handler's step preserves the invariant if it preserves what is about handlers.
LEMMA HandlerFrame ==
  ASSUME IInv, status = "up", UNCHANGED Core, HandlerTypes', HandlerInv', PlaceInv'
  PROVE  IInv'
<1>1. TypeOK' BY DEF IInv, TypeOK, Core, HandlerTypes
<1>2. ChainOrderInv' BY Zenon DEF IInv, ChainOrderInv, Core
<1>3. ConfigNeverPanics' /\ (~MayRemove => ledgerOpen /\ ~exitChan /\ AppendNeverPanics)'
  BY Zenon DEF IInv, Core, ConfigNeverPanics, AppendNeverPanics
<1>4. ChainInv' BY Zenon DEF IInv, Core, ChainInv
<1>5. WriterInv' BY Zenon DEF IInv, Core, WriterInv
<1>6. BundleInv' BY Zenon DEF IInv, Core, BundleInv
<1>7. MainInv' BY Zenon DEF IInv, Core, MainInv
<1>8. BatchInv' BY Zenon DEF IInv, Core, BatchInv
<1>9. HeldOrderInv' BY Zenon DEF IInv, Core, HeldOrderInv
<1> QED BY <1>1, <1>2, <1>3, <1>4, <1>5, <1>6, <1>7, <1>8, <1>9, Zenon DEF IInv

\* A handler that does not move keeps what it knows.
LEMMA HandlerStill ==
  ASSUME NEW g \in Handler, HandlerOK(g), bundle' = bundle,
         hpc'[g] = hpc[g], hmsg'[g] = hmsg[g], hseq'[g] = hseq[g],
         hpolicy'[g] = hpolicy[g], henv'[g] = henv[g]
  PROVE  HandlerOK(g)'
BY Zenon DEF HandlerOK, HandlerShape, Validating, Knows, Filtered

\* Handlers that all stand still keep what is about them.
LEMMA HandlersStill ==
  ASSUME IInv, status = "up", UNCHANGED <<bundle, unsent, reply, hpc, hmsg, hseq, hpolicy, henv>>
  PROVE  HandlerTypes' /\ HandlerInv'
<1>1. HandlerTypes' BY Zenon DEF IInv, TypeOK, HandlerTypes
<1>2. ASSUME NEW g \in Handler PROVE HandlerOK(g)' BY HandlerStill, Zenon DEF IInv, HandlerInv
<1> QED BY <1>1, <1>2, Zenon DEF HandlerInv

\* Returning leaves an idle handler, which holds nothing.
LEMMA ReturnHandlers ==
  ASSUME TypeOK, HandlerInv, NEW h \in Handler, hpc[h] # "idle", NEW st \in Statuses,
         Return(h, st), UNCHANGED <<bundle, unsent>>
  PROVE  /\ HandlerTypes' /\ HandlerInv'
         /\ hmsg' = [hmsg EXCEPT ![h] = NoEnv]
<1>1. HandlerTypes BY Zenon DEF TypeOK, HandlerTypes
<1>2. hmsg[h] \in Submission BY Zenon DEF HandlerInv, HandlerOK, HandlerShape
<1>3. HandlerTypes' BY <1>1, <1>2, Zenon DEF HandlerTypes, Return, Goto, HandlerPC
<1>4. ASSUME NEW g \in Handler, g # h PROVE HandlerOK(g)'
  BY <1>1, <1>4, HandlerStill, Zenon DEF HandlerInv, HandlerTypes, Return, Goto
<1>5. HandlerOK(h)'
  BY <1>1, Zenon DEF HandlerTypes, Return, Goto, HandlerOK, HandlerShape, Validating
<1> QED BY <1>3, <1>4, <1>5, Zenon DEF HandlerInv, Return

\* The steps of a handler.
LEMMA HandlerSteps ==
  \A h \in Handler : IInv /\ HandlerStep(h) => IInv'
\* A handler step that returns preserves the invariant.
<1>ReturnStep.
  ASSUME IInv, status = "up", NEW h \in Handler, hpc[h] # "idle", NEW st \in Statuses,
         Return(h, st), UNCHANGED unsent, UNCHANGED Core
  PROVE  IInv'
  <2> USE <1>ReturnStep
  <2>1. TypeOK /\ HandlerInv /\ PlaceInv BY Zenon DEF IInv
  <2>2. HandlerTypes' /\ HandlerInv' /\ hmsg' = [hmsg EXCEPT ![h] = NoEnv]
    BY <2>1, ReturnHandlers, Zenon DEF Core
  <2>3. PlaceInv'
    <3>1. UNCHANGED <<unsent, ticket, ledger>> /\ \A m \in Message : Held(m)' = Held(m)
      BY Zenon DEF Core, Held
    <3>2. NoEnv \notin Message /\ NoEnv \notin unsent
      BY <2>1, ChainConstants, Zenon DEF TypeOK, Submission
    <3> QED BY <2>1, <2>2, <3>1, <3>2 DEF TypeOK, PlaceInv
  <2> QED BY <2>2, <2>3, HandlerFrame, Zenon
\* A step of one handler that keeps its envelope.
<1>MoveStep.
  ASSUME IInv, status = "up", NEW h \in Handler, UNCHANGED Core, UNCHANGED <<unsent, hmsg>>,
         HandlerTypes', HandlerOK(h)',
         \A g \in Handler \ {h} : /\ hpc'[g] = hpc[g] /\ hseq'[g] = hseq[g]
                                  /\ hpolicy'[g] = hpolicy[g] /\ henv'[g] = henv[g]
  PROVE  IInv'
  <2> USE <1>MoveStep
  <2>1. HandlerInv /\ PlaceInv BY Zenon DEF IInv
  <2>2. HandlerInv'
    <3>1. ASSUME NEW g \in Handler, g # h PROVE HandlerOK(g)'
      BY <2>1, <3>1, HandlerStill, Zenon DEF HandlerInv, Core
    <3> QED BY <3>1, Zenon DEF HandlerInv
  <2>3. PlaceInv' BY <2>1, Zenon DEF PlaceInv, Core, Held
  <2> QED BY <2>2, <2>3, HandlerFrame, Zenon
\* Check either moves the handler on or returns.
<1>CheckStep.
  ASSUME IInv, status = "up", NEW h \in Handler, hpc[h] # "idle", NEW ok,
         NEW pc \in HandlerPC, NEW st \in Statuses, Check(h, ok, pc, st),
         ok /\ hpc' = [hpc EXCEPT ![h] = pc]
            /\ UNCHANGED <<bundle, hmsg, hseq, hpolicy, henv>> => HandlerOK(h)'
  PROVE  IInv'
  <2> USE <1>CheckStep
  <2>1. UNCHANGED Core /\ UNCHANGED unsent
    BY Zenon DEF Check, Core, process, main, writer, store, history
  <2>2. CASE ok
    <3>1. hpc' = [hpc EXCEPT ![h] = pc] /\ UNCHANGED <<reply, hmsg, hseq, hpolicy, henv>>
      BY <2>2, Zenon DEF Check, Goto
    <3>2. HandlerTypes' BY <2>1, <3>1, Zenon DEF IInv, TypeOK, HandlerTypes
    <3>3. HandlerOK(h)' BY <2>1, <2>2, <3>1, Zenon DEF Core
    <3>4. \A g \in Handler \ {h} : hpc'[g] = hpc[g] BY <3>1, Zenon DEF IInv, TypeOK
    <3> QED BY <2>1, <3>1, <3>2, <3>3, <3>4, <1>MoveStep, Zenon
  <2>3. CASE ~ok
    <3>1. Return(h, st) BY <2>3, Zenon DEF Check
    <3> QED BY <2>1, <3>1, <1>ReturnStep, Zenon
  <2> QED BY <2>2, <2>3, Zenon
\* The maintenance-mode check of ProcessNormalMsg only moves or ends the handler.
<1>CheckStateInv. ASSUME IInv, NEW h \in Handler, CheckState(h) PROVE IInv'
  <2> USE <1>CheckStateInv
  <2>1. status = "up" /\ hpc[h] = "checkState" BY Zenon DEF CheckState, At
  <2>2. HandlerOK(h) /\ hpc \in [Handler -> HandlerPC] BY <2>1, Zenon DEF IInv, HandlerInv, TypeOK
  <2>3. ASSUME hpc' = [hpc EXCEPT ![h] = "readSeq"],
               UNCHANGED <<bundle, hmsg, hseq, hpolicy, henv>>
        PROVE  HandlerOK(h)'
    BY <2>1, <2>2, <2>3, Zenon DEF HandlerOK, HandlerShape, Validating
  <2> QED BY <2>1, <2>3, <1>CheckStep, Zenon DEF CheckState, HandlerPC, Statuses, RejectsNormal
\* With the sequence just read, the handler knows nothing yet, which is right.
<1>ReadSequenceInv. ASSUME IInv, NEW h \in Handler, ReadSequence(h) PROVE IInv'
  <2> USE <1>ReadSequenceInv
  <2>1. status = "up" /\ hpc[h] = "readSeq" BY Zenon DEF ReadSequence, At
  <2>2. HandlerOK(h) /\ TypeOK BY <2>1, Zenon DEF IInv, HandlerInv
  <2>3. UNCHANGED Core /\ UNCHANGED <<unsent, reply, hmsg, hpolicy, henv>>
    BY Zenon DEF ReadSequence, Core, process, main, writer, store, history, clients
  <2>4. hpc' = [hpc EXCEPT ![h] = "size"] /\ hseq' = [hseq EXCEPT ![h] = bundle.sequence]
    BY Zenon DEF ReadSequence, Goto
  <2>5. bundle.sequence \in Nat BY <2>2, Zenon DEF TypeOK, Config
  <2>6. HandlerTypes' BY <2>2, <2>3, <2>4, <2>5, Zenon DEF TypeOK, HandlerTypes, HandlerPC
  <2>7. HandlerOK(h)'
    <3>1. /\ hpc'[h] = "size" /\ hseq'[h] = bundle.sequence /\ bundle' = bundle
          /\ hmsg'[h] = hmsg[h] /\ henv'[h] = henv[h]
      BY <2>2, <2>3, <2>4, Zenon DEF TypeOK, Core
    <3>2. henv[h] = NoEnv /\ hmsg[h] \in Submission BY <2>1, <2>2, Zenon DEF HandlerOK, HandlerShape
    <3>3. HandlerShape(h)' BY <3>1, <3>2, Zenon DEF HandlerShape
    <3>4. Knows(h)' BY <3>1, <3>2, Zenon DEF Knows
    <3> QED BY <2>5, <3>1, <3>3, <3>4 DEF HandlerOK
  <2>8. \A g \in Handler \ {h} : hpc'[g] = hpc[g] /\ hseq'[g] = hseq[g] BY <2>2, <2>4, Zenon DEF TypeOK
  <2> QED BY <2>1, <2>3, <2>6, <2>7, <2>8, <1>MoveStep, Zenon
\* The size filter adds what it has checked to what the handler knows.
<1>ApplySizeFilterInv. ASSUME IInv, NEW h \in Handler, ApplySizeFilter(h) PROVE IInv'
  <2> USE <1>ApplySizeFilterInv
  <2>1. status = "up" /\ hpc[h] = "size" BY Zenon DEF ApplySizeFilter, At
  <2>2. HandlerOK(h) /\ hpc \in [Handler -> HandlerPC] BY <2>1, Zenon DEF IInv, HandlerInv, TypeOK
  <2>3. ASSUME SizeFilter(bundle, Filtered(h)), hpc' = [hpc EXCEPT ![h] = "sig"],
               UNCHANGED <<bundle, hmsg, hseq, hpolicy, henv>>
        PROVE  HandlerOK(h)'
    BY Zenon, <2>1, <2>2, <2>3 DEF HandlerOK, HandlerShape, Validating, Knows, Filtered
  <2> QED BY Zenon, <2>1, <2>3, <1>CheckStep DEF ApplySizeFilter, HandlerPC, Statuses, SizeFilter
\* The signature filter picks the policy of the configuration in force.
<1>SelectPolicyInv. ASSUME IInv, NEW h \in Handler, SelectPolicy(h) PROVE IInv'
  <2> USE <1>SelectPolicyInv
  <2>1. status = "up" /\ hpc[h] = "sig" BY Zenon DEF SelectPolicy, At
  <2>2. HandlerOK(h) /\ TypeOK BY <2>1, Zenon DEF IInv, HandlerInv
  <2>3. UNCHANGED Core /\ UNCHANGED <<unsent, reply, hmsg, hseq, henv>>
    BY Zenon DEF SelectPolicy, Core, process, main, writer, store, history, clients
  <2>4. hpc' = [hpc EXCEPT ![h] = "policy"] /\ hpolicy' = [hpolicy EXCEPT ![h] = PolicyName(bundle)]
    BY Zenon DEF SelectPolicy, Goto
  <2>5. PolicyName(bundle) \in {"Writers", "OrdererWriters"} BY Zenon DEF PolicyName
  <2>6. HandlerTypes' BY <2>2, <2>3, <2>4, <2>5, Zenon DEF TypeOK, HandlerTypes, HandlerPC
  <2>7. HandlerOK(h)'
    BY <2>1, <2>2, <2>3, <2>4, <2>5, Zenon
    DEF Core, TypeOK, HandlerOK, HandlerShape, Validating, Knows, Filtered
  <2>8. \A g \in Handler \ {h} : hpc'[g] = hpc[g] /\ hpolicy'[g] = hpolicy[g]
    BY <2>2, <2>4, Zenon DEF TypeOK
  <2> QED BY <2>1, <2>3, <2>6, <2>7, <2>8, <1>MoveStep, Zenon
\* The policy is that of the same configuration, unless the sequence is outdated.
<1>EvaluatePolicyInv. ASSUME IInv, NEW h \in Handler, EvaluatePolicy(h) PROVE IInv'
  <2> USE <1>EvaluatePolicyInv
  <2> DEFINE ok == Filtered(h).creator \in Policy(bundle, hpolicy[h])
  <2>1. status = "up" /\ hpc[h] = "policy" BY Zenon DEF EvaluatePolicy, At
  <2>2. HandlerOK(h) /\ hpc \in [Handler -> HandlerPC] BY <2>1, Zenon DEF IInv, HandlerInv, TypeOK
  <2>3. /\ hmsg[h] \in Submission
        /\ henv[h] # NoEnv => hmsg[h] \in Update /\ henv[h].lastUpdate = hmsg[h]
        /\ hseq[h] <= bundle.sequence
        /\ hseq[h] = bundle.sequence =>
             /\ SizeFilter(bundle, Filtered(h)) /\ hpolicy[h] = PolicyName(bundle)
             /\ henv[h] # NoEnv =>
                  /\ Filters(bundle, hmsg[h]) /\ CanPropose(bundle, hmsg[h])
                  /\ henv[h] = ProposeConfigUpdate(bundle, hmsg[h])
    BY Zenon, <2>1, <2>2 DEF HandlerOK, HandlerShape, Validating, Knows
  <2>4. hmsg[h] \in Message <=> hmsg[h] \notin Update BY Zenon, <2>3, ChainConstants DEF Submission
  <2>5. ok /\ hseq[h] = bundle.sequence => Filters(bundle, Filtered(h))
    BY Zenon, <2>3 DEF Filters, SigFilter
  <2>6. ASSUME ok, hpc' = [hpc EXCEPT ![h] = AfterFilters(h)],
               UNCHANGED <<bundle, hmsg, hseq, hpolicy, henv>>
        PROVE  HandlerOK(h)'
    <3> HIDE DEF ok
    <3>1. CASE hmsg[h] \in Message
      <4>1. hpc'[h] = "enqueue" /\ henv[h] = NoEnv /\ Filtered(h) = hmsg[h]
        BY <2>2, <2>3, <2>4, <2>6, <3>1, Zenon DEF AfterFilters, Filtered
      <4> QED BY Zenon, <2>3, <2>4, <2>5, <2>6, <3>1, <4>1
              DEF HandlerOK, HandlerShape, Validating, Knows
    <3>2. CASE hmsg[h] \notin Message /\ henv[h] # NoEnv
      <4>1. hpc'[h] = "maintenance" /\ Filtered(h) = SignedEnvelope(henv[h])
        BY <2>2, <2>6, <3>2, Zenon DEF AfterFilters, Filtered
      <4> QED BY Zenon, <2>3, <2>4, <2>5, <2>6, <3>2, <4>1
              DEF HandlerOK, HandlerShape, Validating, Knows
    <3>3. CASE hmsg[h] \notin Message /\ henv[h] = NoEnv
      <4>1. hpc'[h] = "propose" /\ Filtered(h) = hmsg[h]
        BY <2>2, <2>6, <3>3, Zenon DEF AfterFilters, Filtered
      <4> QED BY Zenon, <2>3, <2>4, <2>5, <2>6, <3>3, <4>1
              DEF HandlerOK, HandlerShape, Validating, Knows
    <3> QED BY <3>1, <3>2, <3>3, Zenon
  <2>7. AfterFilters(h) \in HandlerPC BY Zenon DEF AfterFilters, HandlerPC
  <2>8. Check(h, ok, AfterFilters(h), "FORBIDDEN") BY Zenon DEF EvaluatePolicy
  <2> HIDE DEF ok
  <2> QED BY Zenon, <2>1, <2>6, <2>7, <2>8, <1>CheckStep DEF Statuses
\* The CONFIG envelope is made from the configuration in force.
<1>ProposeInv. ASSUME IInv, NEW h \in Handler, Propose(h) PROVE IInv'
  <2> USE <1>ProposeInv
  <2>1. status = "up" /\ hpc[h] = "propose" BY Zenon DEF Propose, At
  <2>2. HandlerOK(h) /\ TypeOK BY <2>1, Zenon DEF IInv, HandlerInv
  <2>3. UNCHANGED Core /\ UNCHANGED unsent
    BY Zenon DEF Propose, Core, process, main, writer, store, history
  <2>4. /\ hmsg[h] \in Update /\ henv[h] = NoEnv
        /\ hseq[h] <= bundle.sequence
        /\ hseq[h] = bundle.sequence => Filters(bundle, hmsg[h])
    BY <2>1, <2>2, Zenon DEF HandlerOK, HandlerShape, Validating, Knows
  <2>5. CASE CanPropose(bundle, hmsg[h])
    <3> DEFINE env == ProposeConfigUpdate(bundle, hmsg[h])
    <3>1. /\ hpc' = [hpc EXCEPT ![h] = "size"] /\ henv' = [henv EXCEPT ![h] = env]
          /\ UNCHANGED <<reply, hmsg, hseq, hpolicy>>
      BY <2>5, Zenon DEF Propose, Goto
    <3>2. env \in Env /\ env.lastUpdate = hmsg[h]
      BY <2>2, <2>4, UpdateResult, Zenon DEF TypeOK, ProposeConfigUpdate, Env
    <3>3. env # NoEnv BY <3>2, NoEnvAssumption, Zenon
    <3> HIDE DEF env
    <3>4. HandlerTypes' BY <2>2, <2>3, <3>1, <3>2, Zenon DEF TypeOK, HandlerTypes, HandlerPC
    <3>5. HandlerOK(h)'
      <4>1. hpc'[h] = "size" /\ henv'[h] = env /\ hmsg'[h] = hmsg[h] /\ hseq'[h] = hseq[h]
            /\ bundle' = bundle
        BY <2>2, <2>3, <3>1, Zenon DEF TypeOK, Core
      <4>2. HandlerShape(h)' BY Zenon, <2>4, <3>2, <3>3, <4>1, ChainConstants DEF HandlerShape, Submission
      <4>3. (hseq[h] = bundle.sequence => Knows(h))'
        BY Zenon, <2>4, <2>5, <4>1 DEF Knows, env
      <4> QED BY <2>4, <4>1, <4>2, <4>3, Zenon DEF HandlerOK
    <3>6. \A g \in Handler \ {h} : hpc'[g] = hpc[g] /\ henv'[g] = henv[g]
      BY <2>2, <3>1, Zenon DEF TypeOK
    <3> QED BY <2>1, <2>3, <3>1, <3>4, <3>5, <3>6, <1>MoveStep, Zenon
  <2>6. CASE ~CanPropose(bundle, hmsg[h])
    <3>1. Return(h, "BAD_REQUEST") BY <2>6, Zenon DEF Propose
    <3> QED BY <2>1, <2>3, <3>1, <1>ReturnStep, Zenon DEF Statuses
  <2> QED BY <2>5, <2>6, Zenon
\* With the maintenance filter, all of ProcessConfigUpdateMsg has been checked.
<1>ApplyMaintenanceFilterInv.
  ASSUME IInv, NEW h \in Handler, ApplyMaintenanceFilter(h)
  PROVE  IInv'
  <2> USE <1>ApplyMaintenanceFilterInv
  <2>1. status = "up" /\ hpc[h] = "maintenance" BY Zenon DEF ApplyMaintenanceFilter, At
  <2>2. HandlerOK(h) /\ hpc \in [Handler -> HandlerPC] BY <2>1, Zenon DEF IInv, HandlerInv, TypeOK
  <2>3. ASSUME MaintenanceFilter(bundle, henv[h]), hpc' = [hpc EXCEPT ![h] = "enqueue"],
               UNCHANGED <<bundle, hmsg, hseq, hpolicy, henv>>
        PROVE  HandlerOK(h)'
    BY Zenon, <2>1, <2>2, <2>3, ChainConstants
    DEF HandlerOK, HandlerShape, Validating, Knows, ProcessConfigUpdateMsg, Submission
  <2>4. Check(h, MaintenanceFilter(bundle, henv[h]), "enqueue", "BAD_REQUEST")
    BY Zenon DEF ApplyMaintenanceFilter
  <2> QED BY <2>1, <2>3, <2>4, <1>CheckStep, Zenon DEF HandlerPC, Statuses
\* Order gives up once exitChan is closed; the message goes nowhere.
<1>OrderExitingInv. ASSUME IInv, NEW h \in Handler, OrderExiting(h) PROVE IInv'
  <2> USE <1>OrderExitingInv
  <2>1. status = "up" /\ hpc[h] = "enqueue" /\ Return(h, "SERVICE_UNAVAILABLE")
    BY Zenon DEF OrderExiting, At
  <2>2. UNCHANGED Core /\ UNCHANGED unsent
    BY Zenon DEF OrderExiting, Core, process, main, writer, store, history
  <2> QED BY <2>1, <2>2, <1>ReturnStep, Zenon DEF Statuses
<1> QED BY <1>CheckStateInv, <1>ReadSequenceInv, <1>ApplySizeFilterInv, <1>SelectPolicyInv, <1>EvaluatePolicyInv, <1>ProposeInv, <1>ApplyMaintenanceFilterInv, <1>OrderExitingInv, Zenon DEF HandlerStep

--------------------------------------------------------------------------------
(* The order of messages *)

\* An empty batch is in order with everything.
LEMMA EmptyRun ==
  ASSUME NEW t, NEW n, NEW a
  PROVE  Run(t, n, <<>>) /\ Before(t, a, <<>>) /\ Before(t, <<>>, a)
BY DEF Run, Before

--------------------------------------------------------------------------------
(* The block writer *)

\* The last block of the chain.
LEMMA LastBlock ==
  ASSUME TypeOK, ChainInv
  PROVE  /\ Len(ledger) \in Nat \ {0} /\ LastOf(ledger) \in Block
         /\ LastOf(ledger).number = Len(ledger) - 1
         /\ HeaderHash(LastOf(ledger)) \in Hash
<1>1. ledger \in Seq(Block) /\ Len(ledger) \in Nat \ {0} BY DEF TypeOK
<1>2. Len(ledger) \in DOMAIN ledger BY <1>1
<1>3. LastOf(ledger) \in Block BY <1>1, <1>2 DEF LastOf
<1>4. LastOf(ledger).number = Len(ledger) - 1 BY <1>2, Zenon DEF ChainInv, LastOf
<1>5. HeaderHash(LastOf(ledger)) \in Hash BY <1>3, Zenon DEF HeaderHash, Hash, Block
<1> QED BY <1>1, <1>3, <1>4, <1>5, Zenon

\* A block the writer offers to an open ledger is the next one, so it is appended.
LEMMA CommitAppends ==
  ASSUME IInv, CommitAppend
  PROVE  IF ledgerOpen THEN ledger' = Append(ledger, lastBlock) /\ status' = status
                       ELSE ledger' = ledger /\ status' = "appendPanic"
<1>1. status = "up" /\ committing = "append" /\ AppendOrPanic(lastBlock) BY Zenon DEF CommitAppend
<1>2. CanAppend(lastBlock) <=> ledgerOpen BY <1>1, Zenon DEF IInv, WriterInv, CanAppend
<1> QED BY <1>1, <1>2, Zenon DEF AppendOrPanic

\* The configuration that UpdateBundle installs.
LEMMA NextConfig ==
  ASSUME IInv, status = "up", configMsg # NoEnv
  PROVE  /\ configMsg \in Env /\ configMsg.config \in Config
         /\ validateBatchSize(configMsg.config)
         /\ configMsg.config.sequence = ConfigOf(ledger).sequence + 1
         /\ ConfigOf(ledger) \in Config
<1>1. TypeOK /\ MainInv /\ ChainInv BY Zenon DEF IInv
<1>2. configMsg \in Env /\ configMsg.config \in Config BY <1>1, Zenon DEF TypeOK, Env
<1>3. ledger \in Seq(Block) /\ IsLastConfig(ledger, LastOf(ledger).lastConfig)
  BY <1>1, Zenon DEF TypeOK, ChainInv
<1>4. ConfigOf(ledger) \in Config BY <1>3, ConfigOfIs, Zenon
<1>5. /\ Validate(ConfigOf(ledger), configMsg)
      /\ ProcessConfigUpdateMsg(ConfigOf(ledger), configMsg.lastUpdate)
  BY <1>1, Zenon DEF MainInv
<1>6. configMsg.config = computeUpdateResult(ConfigOf(ledger), configMsg.lastUpdate)
      /\ configMsg.config.sequence = ConfigOf(ledger).sequence + 1
  BY <1>5, Zenon DEF Validate
<1>7. validateBatchSize(configMsg.config)
  BY <1>5, <1>6, Zenon DEF ProcessConfigUpdateMsg, CanPropose
<1> QED BY <1>2, <1>4, <1>6, <1>7, Zenon

\* The config block that CommitConfigBlock offers to the ledger.
LEMMA CommitsConfig ==
  ASSUME IInv, CommitConfigBlock
  PROVE  LET b == [number |-> Len(ledger), previousHash |-> HeaderHash(LastOf(ledger)),
                   txs |-> <<>>, env |-> configMsg, lastConfig |-> Len(ledger)]
         IN  /\ b \in Block /\ lastBlock' = b
             /\ lastConfigBlockNum' = Len(ledger) /\ lastConfigSeq' = bundle.sequence
             /\ IF ledgerOpen THEN ledger' = Append(ledger, b) /\ status' = status
                              ELSE ledger' = ledger /\ status' = "appendPanic"
<1> DEFINE b == [number |-> Len(ledger), previousHash |-> HeaderHash(LastOf(ledger)),
                 txs |-> <<>>, env |-> configMsg, lastConfig |-> Len(ledger)]
           c == CreateNextBlock(<<>>, configMsg)
<1>1. /\ status = "up" /\ mainPC = "commitConfig" /\ committing = "free"
      /\ TrackLastConfig(addLastConfig(c)) /\ lastBlock' = addLastConfig(c)
      /\ AppendOrPanic(addLastConfig(c))
  BY Zenon DEF CommitConfigBlock, MainAt
<1>2. TypeOK /\ ChainInv /\ WriterInv /\ BundleInv /\ MainInv BY <1>1, Zenon DEF IInv
<1>3. configMsg # NoEnv /\ bundle = configMsg.config BY <1>1, <1>2, Zenon DEF BundleInv, MainInv
<1>4. configMsg \in Env /\ bundle.sequence = ConfigOf(ledger).sequence + 1
      /\ ConfigOf(ledger).sequence \in Nat
  BY <1>1, <1>3, NextConfig, Zenon DEF Config
<1>5. NewConfigSeen BY <1>2, <1>4 DEF NewConfigSeen, WriterInv
<1>6. /\ Len(ledger) \in Nat \ {0} /\ LastOf(ledger).number + 1 = Len(ledger)
      /\ HeaderHash(LastOf(ledger)) \in Hash
  BY <1>2, LastBlock
<1>7. c = [number |-> Len(ledger), previousHash |-> HeaderHash(LastOf(ledger)),
           txs |-> <<>>, env |-> configMsg, lastConfig |-> 0]
  BY Zenon, <1>1, <1>2, <1>6 DEF CreateNextBlock, WriterInv
<1> HIDE DEF c
<1>8. addLastConfig(c) = b /\ addLastConfig(b).lastConfig = Len(ledger)
  BY <1>5, <1>7 DEF addLastConfig
<1>9. b \in Block
  <2>1. <<>> \in Seq(Message) OBVIOUS
  <2>2. Len(ledger) \in Nat /\ HeaderHash(LastOf(ledger)) \in Hash BY <1>6, Zenon
  <2>3. configMsg \in Env BY <1>4, Zenon
  <2> QED BY Zenon, <2>1, <2>2, <2>3 DEF Block
<1>10. b.number = Len(ledger) /\ b.previousHash = HeaderHash(LastOf(ledger)) OBVIOUS
<1> HIDE DEF b
<1>11. lastConfigBlockNum' = Len(ledger) /\ lastConfigSeq' = bundle.sequence
  BY <1>1, <1>5, <1>8, Zenon DEF TrackLastConfig
<1>12. CanAppend(b) <=> ledgerOpen BY <1>10, Zenon DEF CanAppend
<1>13. IF ledgerOpen THEN ledger' = Append(ledger, b) /\ status' = status
                     ELSE ledger' = ledger /\ status' = "appendPanic"
  BY <1>1, <1>8, <1>12, Zenon DEF AppendOrPanic
<1> QED BY Zenon, <1>1, <1>8, <1>9, <1>11, <1>13 DEF b

\* The steps of the block writer.
LEMMA WriterSteps ==
  IInv /\ (WriteBlock \/ CommitStamp \/ CommitAppend \/ UpdateBundle \/ CommitConfigBlock) => IInv'
\* WriteBlock makes lastBlock the next block, of the first batch that main has still to write.
<1>WriteBlockInv. ASSUME IInv, WriteBlock PROVE IInv'
  <2> USE <1>WriteBlockInv
  <2> DEFINE b == Head(batches)
  <2>1. /\ status = "up" /\ mainPC = "writeBatches" /\ committing = "free" /\ committing' = "stamp"
        /\ lastBlock' = CreateNextBlock(b, NoEnv) /\ batches' = Tail(batches)
        /\ mainPC' = Resume(batches', configMsg)
    BY Zenon DEF WriteBlock, MainAt
  <2>2. /\ UNCHANGED <<status, crashes, bundle, unsent, reply, hpc, hmsg, hseq, hpolicy, henv>>
        /\ UNCHANGED <<seq, timer, configMsg, exitChan, receiver, ticket, tickets>>
        /\ UNCHANGED <<lastConfigBlockNum, lastConfigSeq, ledger, ledgerOpen>>
    BY Zenon DEF WriteBlock, process, clients, handlers, store, history
  <2>3. TypeOK /\ ChainInv /\ WriterInv /\ BundleInv /\ MainInv /\ BatchInv /\ HeldOrderInv /\ PlaceInv
    BY <2>1, Zenon DEF IInv
  <2>4. batches \in Seq(Seq(Message)) /\ batches # <<>> BY <2>1, <2>3, Zenon DEF TypeOK, MainInv
  <2>5. /\ b \in Seq(Message) /\ b = batches[1] /\ 1 \in DOMAIN batches
        /\ batches' \in Seq(Seq(Message))
        /\ \A i \in DOMAIN batches' : i + 1 \in DOMAIN batches /\ batches'[i] = batches[i + 1]
        /\ \A i \in DOMAIN batches : i # 1 => i - 1 \in DOMAIN batches' /\ batches[i] = batches'[i - 1]
        /\ DOMAIN batches' \subseteq Nat \ {0}
    BY <2>1, <2>4
  <2> HIDE DEF b
  <2>6. /\ lastBlock' = [number |-> Len(ledger), previousHash |-> HeaderHash(LastOf(ledger)),
                         txs |-> b, env |-> NoEnv, lastConfig |-> 0]
        /\ Len(ledger) \in Nat /\ HeaderHash(LastOf(ledger)) \in Hash
    <3>1. lastBlock = LastOf(ledger) BY <2>1, <2>3, Zenon DEF WriterInv
    <3>2. Len(ledger) \in Nat \ {0} /\ LastOf(ledger).number = Len(ledger) - 1
          /\ HeaderHash(LastOf(ledger)) \in Hash
      BY <2>3, LastBlock, Zenon
    <3>3. LastOf(ledger).number + 1 = Len(ledger) BY <3>2
    <3> QED BY <2>1, <3>1, <3>2, <3>3, Zenon DEF CreateNextBlock
  <2>7. lastBlock' \in Block BY <2>5, <2>6, Zenon DEF Block
  <2>8. /\ mainPC' \in {"writeBatches", "writeConfig", "loop"}
        /\ mainPC' = "writeBatches" <=> batches' # <<>>
        /\ mainPC' = "writeConfig" => configMsg # NoEnv
        /\ configMsg # NoEnv => mainPC' \in {"writeBatches", "writeConfig"}
    BY <2>1, Zenon DEF Resume
  <2>9. TypeOK' BY <2>1, <2>2, <2>3, <2>5, <2>7, <2>8, Zenon DEF TypeOK
  <2>10. ChainInv' /\ ChainOrderInv' BY <2>1, <2>2, Zenon DEF IInv, ChainInv, ChainOrderInv
  <2>11. WriterInv' BY <2>1, <2>2, <2>3, <2>6 DEF WriterInv
  <2>12. BundleInv' BY <2>1, <2>2, <2>3, <2>8, Zenon DEF BundleInv
  <2>13. MainInv' BY <2>1, <2>2, <2>3, <2>8, Zenon DEF MainInv
  <2>14. BatchInv' BY <2>2, <2>3, <2>5, <2>6, Zenon DEF BatchInv
  <2>15. HeldOrderInv'
    <3> DEFINE Fits(i) == /\ Run(ticket, tickets, batches[i]) /\ AfterChain(ticket, ledger, batches[i])
                          /\ Before(ticket, batches[i], receiver.pendingBatch)
    <3>0. /\ \A i \in DOMAIN batches : Fits(i)
          /\ \A i, j \in DOMAIN batches : i < j => Before(ticket, batches[i], batches[j])
      BY <2>3, Zenon DEF HeldOrderInv
    <3>1. /\ Run(ticket, tickets, b) /\ AfterChain(ticket, ledger, b)
          /\ Before(ticket, b, receiver.pendingBatch)
          /\ \A i \in DOMAIN batches' : Before(ticket, b, batches'[i])
      <4>1. Fits(1) BY <2>5, <3>0, Zenon
      <4>2. ASSUME NEW i \in DOMAIN batches' PROVE Before(ticket, b, batches'[i])
        <5>1. i + 1 \in DOMAIN batches /\ 1 < i + 1 /\ batches'[i] = batches[i + 1] BY <2>5
        <5> QED BY <2>5, <3>0, <5>1, Zenon
      <4> QED BY <2>5, <4>1, <4>2, Zenon
    <3>2. ASSUME NEW i \in DOMAIN batches'
          PROVE  /\ Run(ticket, tickets, batches'[i]) /\ AfterChain(ticket, ledger, batches'[i])
                 /\ Before(ticket, batches'[i], receiver.pendingBatch)
                 /\ \A j \in DOMAIN batches' : i < j => Before(ticket, batches'[i], batches'[j])
      <4>1. i + 1 \in DOMAIN batches /\ i \in Nat /\ batches'[i] = batches[i + 1] BY <2>5, Zenon
      <4>2. Fits(i + 1) BY <3>0, <4>1, Zenon
      <4>3. ASSUME NEW j \in DOMAIN batches', i < j PROVE Before(ticket, batches'[i], batches'[j])
        <5>1. j + 1 \in DOMAIN batches /\ i + 1 < j + 1 /\ batches'[j] = batches[j + 1]
          BY <2>5, <4>1, <4>3
        <5> QED BY <3>0, <4>1, <5>1, Zenon
      <4> QED BY <4>1, <4>2, <4>3, Zenon
    <3>3. Run(ticket, tickets, receiver.pendingBatch) /\ AfterChain(ticket, ledger, receiver.pendingBatch)
      BY <2>3, Zenon DEF HeldOrderInv
    <3>4. lastBlock'.txs = b BY <2>6, Zenon
    <3> QED BY <2>2, <3>1, <3>2, <3>3, <3>4, Zenon DEF HeldOrderInv
  <2>16. ASSUME NEW m \in Message, Held(m) PROVE Held(m)'
    <3>1. CASE \E i \in DOMAIN batches : Occurs(m, batches[i])
      <4>1. PICK i \in DOMAIN batches : Occurs(m, batches[i]) BY <3>1, Zenon
      <4>2. CASE i = 1
        <5>1. batches[i] = b BY <2>5, <4>2, Zenon
        <5>2. committing' # "free" /\ lastBlock'.txs = b BY <2>1, <2>6
        <5>3. Occurs(m, lastBlock'.txs) BY <4>1, <5>1, <5>2, Zenon
        <5> QED BY <5>2, <5>3, Zenon DEF Held
      <4>3. CASE i # 1
        <5>1. i - 1 \in DOMAIN batches' /\ batches'[i - 1] = batches[i] BY <2>5, <4>3, Zenon
        <5>2. Occurs(m, batches'[i - 1]) BY <4>1, <5>1, Zenon
        <5> QED BY <5>1, <5>2, Zenon DEF Held
      <4> QED BY <4>2, <4>3, Zenon
    <3>2. CASE Occurs(m, receiver.pendingBatch) BY <2>2, <3>2, Zenon DEF Held
    <3> QED BY <2>1, <2>16, <3>1, <3>2, Zenon DEF Held
  <2>17. PlaceInv' BY <2>2, <2>3, <2>16, Zenon DEF PlaceInv
  <2>18. HandlerInv' BY <2>1, <2>2, HandlersStill, Zenon
  <2> QED BY <2>1, <2>2, <2>9, <2>10, <2>11, <2>12, <2>13, <2>14, <2>15, <2>17, <2>18, Zenon
          DEF IInv, ConfigNeverPanics, AppendNeverPanics
\* addLastConfig of the committer finds the sequence unchanged, so it repeats the chain's LAST_CONFIG.
<1>CommitStampInv. ASSUME IInv, CommitStamp PROVE IInv'
  <2> USE <1>CommitStampInv
  <2>1. /\ status = "up" /\ committing = "stamp" /\ committing' = "append"
        /\ TrackLastConfig(lastBlock) /\ lastBlock' = addLastConfig(lastBlock)
    BY Zenon DEF CommitStamp
  <2>2. /\ UNCHANGED <<status, crashes, bundle, unsent, reply, hpc, hmsg, hseq, hpolicy, henv>>
        /\ UNCHANGED <<mainPC, seq, timer, batches, configMsg, exitChan, receiver, ticket, tickets>>
        /\ UNCHANGED <<ledger, ledgerOpen>>
    BY Zenon DEF CommitStamp, process, clients, handlers, main, store, history
  <2>3. TypeOK /\ ChainInv /\ WriterInv /\ BundleInv BY <2>1, Zenon DEF IInv
  <2>4. bundle.sequence = lastConfigSeq /\ bundle.sequence \in Nat
    BY <2>1, <2>3, Zenon DEF BundleInv, WriterInv, TypeOK, Config
  <2>5. ~NewConfigSeen BY <2>4 DEF NewConfigSeen
  <2>6. /\ lastBlock' = [lastBlock EXCEPT !.lastConfig = lastConfigBlockNum]
        /\ lastConfigBlockNum' = lastBlock'.lastConfig
        /\ lastConfigSeq' = lastConfigSeq
    BY <2>1, <2>5, Zenon DEF TrackLastConfig, addLastConfig
  <2>7. lastBlock \in Block /\ lastConfigBlockNum \in Nat BY <2>3, Zenon DEF TypeOK
  <2>8. /\ lastBlock' \in Block /\ lastBlock'.lastConfig = lastConfigBlockNum
        /\ lastBlock'.number = lastBlock.number /\ lastBlock'.txs = lastBlock.txs
        /\ lastBlock'.env = lastBlock.env /\ lastBlock'.previousHash = lastBlock.previousHash
        /\ lastConfigBlockNum' = lastConfigBlockNum
    BY <2>6, <2>7, Zenon DEF Block
  <2>9. TypeOK' BY <2>1, <2>2, <2>3, <2>6, <2>8, Zenon DEF TypeOK
  <2>10. ChainInv' /\ ChainOrderInv' /\ BundleInv' /\ MainInv'
    BY <2>1, <2>2, Zenon DEF IInv, ChainInv, ChainOrderInv, BundleInv, MainInv
  <2>11. WriterInv' BY <2>1, <2>2, <2>3, <2>6, <2>8, Zenon DEF WriterInv
  <2>12. BatchInv' /\ HeldOrderInv' BY <2>1, <2>2, <2>8, Zenon DEF IInv, BatchInv, HeldOrderInv
  <2>13. PlaceInv'
    <3>1. \A m \in Message : Held(m)' = Held(m) BY <2>1, <2>2, <2>8, Zenon DEF Held
    <3> QED BY <2>1, <2>2, <3>1, Zenon DEF IInv, PlaceInv
  <2>14. HandlerInv' BY <2>1, <2>2, HandlersStill, Zenon
  <2> QED BY <2>1, <2>2, <2>9, <2>10, <2>11, <2>12, <2>13, <2>14, Zenon
          DEF IInv, ConfigNeverPanics, AppendNeverPanics
\* A step that ends in the panic of commitBlock leaves the chain as it was.
<1>PanicFrame.
  ASSUME IInv, status' = "appendPanic", ~ledgerOpen, TypeOK',
         UNCHANGED <<ledger, ticket, tickets>>
  PROVE  IInv'
  <2> USE <1>PanicFrame
  <2>1. ChainOrderInv' BY Zenon DEF IInv, ChainOrderInv
  <2> QED BY <2>1, Zenon DEF IInv, ConfigNeverPanics
\* The committer appends the block it holds and frees the lock.
<1>CommitAppendInv. ASSUME IInv, CommitAppend PROVE IInv'
  <2> USE <1>CommitAppendInv
  <2>1. status = "up" /\ committing = "append" /\ committing' = "free" BY Zenon DEF CommitAppend
  <2>2. /\ UNCHANGED <<crashes, bundle, unsent, reply, hpc, hmsg, hseq, hpolicy, henv>>
        /\ UNCHANGED <<mainPC, seq, timer, batches, configMsg, exitChan, receiver, ticket, tickets>>
        /\ UNCHANGED <<lastBlock, lastConfigBlockNum, lastConfigSeq, ledgerOpen>>
    BY Zenon DEF CommitAppend, clients, handlers, main, history
  <2>3. /\ TypeOK /\ ChainInv /\ WriterInv /\ BundleInv /\ MainInv /\ BatchInv /\ HeldOrderInv
        /\ PlaceInv /\ ChainOrderInv
    BY <2>1, Zenon DEF IInv
  <2>4. CASE ~ledgerOpen
    <3>1. ledger' = ledger /\ status' = "appendPanic" BY <2>4, CommitAppends, Zenon
    <3>2. TypeOK' BY <2>1, <2>2, <2>3, <3>1, Zenon DEF TypeOK
    <3> QED BY <2>2, <2>4, <3>1, <3>2, <1>PanicFrame, Zenon
  <2>5. CASE ledgerOpen
    <3>1. ledger' = Append(ledger, lastBlock) /\ status' = status BY <2>5, CommitAppends, Zenon
    <3>2. /\ ledger \in Seq(Block) /\ lastBlock \in Block /\ lastBlock.env = NoEnv
          /\ lastBlock.number = Len(ledger)
          /\ lastBlock.lastConfig = LastOf(ledger).lastConfig
          /\ lastConfigBlockNum = LastOf(ledger).lastConfig
          /\ IsLastConfig(ledger, LastOf(ledger).lastConfig)
      BY <2>1, <2>3, Zenon DEF TypeOK, WriterInv, ChainInv
    <3>3. /\ ledger' \in Seq(Block) /\ Len(ledger') = Len(ledger) + 1 /\ Len(ledger) \in Nat
          /\ DOMAIN ledger' = 1 .. Len(ledger) + 1 /\ DOMAIN ledger = 1 .. Len(ledger)
          /\ ledger'[Len(ledger) + 1] = lastBlock
          /\ \A i \in DOMAIN ledger : i \in DOMAIN ledger' /\ ledger'[i] = ledger[i]
          /\ ledger' # <<>>
      BY <3>1, <3>2
    <3>4. LastOf(ledger') = lastBlock BY <3>3, Zenon DEF LastOf
    <3>5. IsLastConfig(ledger', LastOf(ledger').lastConfig) /\ ConfigOf(ledger') = ConfigOf(ledger)
      BY <3>1, <3>2, <3>4, AppendNormal, Zenon
    <3>6. TypeOK' BY <2>1, <2>2, <2>3, <3>1, <3>3, Zenon DEF TypeOK
    <3>7. ChainInv'
      <4>1. \A i \in DOMAIN ledger' : ledger'[i].number = i - 1
        BY <2>3, <3>2, <3>3 DEF ChainInv
      <4> QED BY <2>3, <3>5, <4>1, Zenon DEF ChainInv
    <3>8. WriterInv' BY <2>1, <2>2, <2>3, <3>2, <3>4, <3>5, Zenon DEF WriterInv
    <3>9. BundleInv' /\ MainInv' BY <2>1, <2>2, <2>3, <3>5, Zenon DEF BundleInv, MainInv
    <3>10. BatchInv' BY <2>1, <2>2, <2>3, <3>5, Zenon DEF BatchInv
    <3>11. \A n \in DOMAIN ledger' : n \in DOMAIN ledger \/ ledger'[n] = lastBlock
      BY <3>3
    <3>12. ASSUME NEW x, AfterChain(ticket, ledger, x), Before(ticket, lastBlock.txs, x)
           PROVE  AfterChain(ticket, ledger', x)
      BY <3>3, <3>11, <3>12, Zenon DEF AfterChain
    <3>13. HeldOrderInv' BY <2>1, <2>2, <2>3, <3>12, Zenon DEF HeldOrderInv
    <3>14. ChainOrderInv'
      <4>1. \A n \in DOMAIN ledger' : Run(ticket, tickets, ledger'[n].txs)
        BY <2>1, <2>3, <3>3, <3>11, Zenon DEF ChainOrderInv, HeldOrderInv
      <4>2. ASSUME NEW n \in DOMAIN ledger', NEW k \in DOMAIN ledger', n < k
            PROVE  Before(ticket, ledger'[n].txs, ledger'[k].txs)
        <5>1. n \in DOMAIN ledger /\ ledger'[n] = ledger[n] BY <3>3, <4>2
        <5>2. CASE k \in DOMAIN ledger BY <2>3, <3>3, <4>2, <5>1, <5>2, Zenon DEF ChainOrderInv
        <5>3. CASE k \notin DOMAIN ledger
          BY <2>1, <2>3, <3>11, <5>1, <5>3, Zenon DEF HeldOrderInv, AfterChain
        <5> QED BY <5>2, <5>3, Zenon
      <4> QED BY <2>2, <4>1, <4>2, Zenon DEF ChainOrderInv
    <3>15. PlaceInv'
      <4>1. ASSUME NEW m \in Message, Held(m) \/ InChain(ledger, m)
            PROVE  Held(m)' \/ InChain(ledger', m)
        <5>1. CASE InChain(ledger, m) BY <3>3, <5>1, Zenon DEF InChain
        <5>2. CASE committing # "free" /\ Occurs(m, lastBlock.txs)
          <6>1. Len(ledger) + 1 \in DOMAIN ledger' BY <3>3
          <6> QED BY <3>3, <5>2, <6>1, Zenon DEF InChain
        <5>3. CASE Occurs(m, receiver.pendingBatch) \/ \E i \in DOMAIN batches : Occurs(m, batches[i])
          BY <2>2, <5>3, Zenon DEF Held
        <5> QED BY <4>1, <5>1, <5>2, <5>3, Zenon DEF Held
      <4> QED BY <2>2, <2>3, <4>1, Zenon DEF PlaceInv
    <3>16. HandlerInv' BY <2>1, <2>2, HandlersStill, Zenon
    <3> QED BY <2>1, <2>2, <3>1, <3>6, <3>7, <3>8, <3>9, <3>10, <3>13, <3>14, <3>15, <3>16, Zenon
            DEF IInv, ConfigNeverPanics, AppendNeverPanics
  <2> QED BY <2>4, <2>5, Zenon
\* Update installs the configuration that follows the chain's; all handlers are now outdated.
<1>UpdateBundleInv. ASSUME IInv, UpdateBundle PROVE IInv'
  <2> USE <1>UpdateBundleInv
  <2>1. status = "up" /\ mainPC = "writeConfig" /\ mainPC' = "commitConfig" BY Zenon DEF UpdateBundle, MainAt
  <2>2. /\ UNCHANGED <<crashes, unsent, reply, hpc, hmsg, hseq, hpolicy, henv>>
        /\ UNCHANGED <<seq, timer, batches, configMsg, exitChan, receiver, ticket, tickets>>
        /\ UNCHANGED <<lastBlock, lastConfigBlockNum, lastConfigSeq, committing, ledger, ledgerOpen>>
    BY Zenon DEF UpdateBundle, clients, handlers, writer, store, history
  <2>3. TypeOK /\ BundleInv /\ MainInv /\ HandlerInv /\ PlaceInv BY <2>1, Zenon DEF IInv
  <2>4. configMsg # NoEnv /\ bundle = ConfigOf(ledger) /\ Validate(bundle, configMsg)
    BY <2>1, <2>3, Zenon DEF BundleInv, MainInv
  <2>5. committing = "free" /\ status' = status /\ bundle' = configMsg.config
    BY <2>4, Zenon DEF UpdateBundle
  <2>6. /\ configMsg.config \in Config /\ validateBatchSize(configMsg.config)
        /\ bundle'.sequence = bundle.sequence + 1 /\ bundle.sequence \in Nat
    BY <2>1, <2>4, <2>5, NextConfig, Zenon DEF Config
  <2>7. TypeOK' BY <2>1, <2>2, <2>3, <2>5, <2>6, Zenon DEF TypeOK
  <2>8. HandlerInv'
    <3>1. ASSUME NEW h \in Handler PROVE HandlerOK(h)'
      <4>1. HandlerOK(h) /\ hseq[h] \in Nat BY <2>3, Zenon DEF HandlerInv, TypeOK
      <4>2. HandlerShape(h)' BY Zenon, <2>2, <4>1 DEF HandlerOK, HandlerShape
      <4>3. Validating(h)' = Validating(h) BY <2>2, Zenon DEF Validating
      <4>4. Validating(h) => hseq[h] < bundle'.sequence BY <2>6, <4>1 DEF HandlerOK
      <4>5. hseq'[h] = hseq[h] /\ bundle'.sequence \in Nat BY <2>2, <2>6
      <4>6. (Validating(h) => hseq[h] <= bundle.sequence)' BY <4>1, <4>3, <4>4, <4>5
      <4>7. ~(Validating(h) /\ hseq[h] = bundle.sequence)' BY <4>1, <4>3, <4>4, <4>5
      <4> QED BY <4>2, <4>6, <4>7, Zenon DEF HandlerOK
    <3> QED BY <3>1, Zenon DEF HandlerInv
  <2>9. BundleInv' BY <2>1, <2>2, <2>5, Zenon DEF BundleInv
  <2>10. MainInv' BY <2>1, <2>2, <2>3, <2>4, Zenon DEF MainInv
  <2>11. ChainInv' /\ WriterInv' /\ BatchInv' /\ ChainOrderInv' /\ HeldOrderInv'
    BY Zenon, <2>1, <2>2 DEF IInv, ChainInv, WriterInv, BatchInv, ChainOrderInv, HeldOrderInv
  <2>12. PlaceInv'
    <3>1. \A m \in Message : Held(m)' = Held(m) BY Zenon, <2>2 DEF Held
    <3> QED BY Zenon, <2>2, <2>3, <3>1 DEF PlaceInv
  <2> QED BY <2>1, <2>2, <2>5, <2>7, <2>8, <2>9, <2>10, <2>11, <2>12, Zenon
          DEF IInv, ConfigNeverPanics, AppendNeverPanics
\* WriteBlockSync appends the config block, which makes the chain's configuration the bundle's.
<1>CommitConfigBlockInv. ASSUME IInv, CommitConfigBlock PROVE IInv'
  <2> USE <1>CommitConfigBlockInv
  <2> DEFINE b == [number |-> Len(ledger), previousHash |-> HeaderHash(LastOf(ledger)),
                   txs |-> <<>>, env |-> configMsg, lastConfig |-> Len(ledger)]
  <2>1. /\ status = "up" /\ mainPC = "commitConfig" /\ committing = "free"
        /\ mainPC' = "loop" /\ configMsg' = NoEnv
    BY Zenon DEF CommitConfigBlock, MainAt
  <2>2. /\ UNCHANGED <<crashes, bundle, unsent, reply, hpc, hmsg, hseq, hpolicy, henv>>
        /\ UNCHANGED <<seq, timer, batches, exitChan, receiver, ticket, tickets>>
        /\ UNCHANGED <<committing, ledgerOpen>>
    BY Zenon DEF CommitConfigBlock, clients, handlers, history
  <2>3. /\ TypeOK /\ ChainInv /\ WriterInv /\ BundleInv /\ MainInv /\ BatchInv /\ HeldOrderInv
        /\ PlaceInv /\ ChainOrderInv
    BY <2>1, Zenon DEF IInv
  <2>4. configMsg # NoEnv /\ bundle = configMsg.config /\ batches = <<>>
        /\ receiver.pendingBatch = <<>>
    BY <2>1, <2>3, Zenon DEF BundleInv, MainInv
  <2>5. /\ b \in Block /\ lastBlock' = b
        /\ lastConfigBlockNum' = Len(ledger) /\ lastConfigSeq' = bundle.sequence
        /\ IF ledgerOpen THEN ledger' = Append(ledger, b) /\ status' = status
                         ELSE ledger' = ledger /\ status' = "appendPanic"
    BY CommitsConfig, Zenon
  <2>6. b.number = Len(ledger) /\ b.txs = <<>> /\ b.env = configMsg /\ b.lastConfig = Len(ledger)
    OBVIOUS
  <2> HIDE DEF b
  <2>7. ledger \in Seq(Block) /\ Len(ledger) \in Nat /\ bundle \in Config /\ bundle.sequence \in Nat
        /\ validateBatchSize(bundle)
    BY <2>3 DEF TypeOK, Config
  <2>8. CASE ~ledgerOpen
    <3>1. ledger' = ledger /\ status' = "appendPanic" BY <2>5, <2>8, Zenon
    <3>2. TypeOK' BY <2>1, <2>2, <2>3, <2>5, <2>7, <3>1, Zenon DEF TypeOK
    <3> QED BY <2>2, <2>8, <3>1, <3>2, <1>PanicFrame, Zenon
  <2>9. CASE ledgerOpen
    <3>1. ledger' = Append(ledger, b) /\ status' = status BY <2>5, <2>9, Zenon
    <3>2. /\ ledger' \in Seq(Block) /\ Len(ledger') = Len(ledger) + 1
          /\ DOMAIN ledger' = 1 .. Len(ledger) + 1 /\ DOMAIN ledger = 1 .. Len(ledger)
          /\ ledger'[Len(ledger) + 1] = b
          /\ \A i \in DOMAIN ledger : i \in DOMAIN ledger' /\ ledger'[i] = ledger[i]
          /\ ledger' # <<>>
      BY <2>5, <2>7, <3>1
    <3>3. LastOf(ledger') = b BY <3>2, Zenon DEF LastOf
    <3>4. IsLastConfig(ledger', LastOf(ledger').lastConfig) /\ ConfigOf(ledger') = bundle
      BY <2>4, <2>5, <2>6, <2>7, <3>1, <3>3, AppendConfig, Zenon
    <3>5. TypeOK' BY <2>1, <2>2, <2>3, <2>5, <2>7, <3>1, <3>2, Zenon DEF TypeOK
    <3>6. ChainInv'
      <4>1. \A i \in DOMAIN ledger' : ledger'[i].number = i - 1
        <5>1. \A i \in DOMAIN ledger : ledger[i].number = i - 1 BY <2>3, Zenon DEF ChainInv
        <5>2. Len(ledger) \in Nat BY <2>7, Zenon
        <5> QED BY <2>6, <3>2, <5>1, <5>2
      <4> QED BY <2>7, <3>4, <4>1, Zenon DEF ChainInv
    <3>7. WriterInv' BY Zenon, <2>1, <2>2, <2>5, <2>6, <3>3, <3>4 DEF WriterInv
    <3>8. BundleInv' BY Zenon, <2>1, <2>2, <3>4 DEF BundleInv
    <3>9. MainInv' BY Zenon, <2>1, <2>2, <2>3, <2>4 DEF MainInv
    <3>10. BatchInv'
      <4>1. Len(<<>>) = 0 /\ Admitted(bundle, <<>>) BY DEF Admitted
      <4>2. 0 < bundle.batchSize.maxMessageCount
        BY <2>7 DEF Config, BatchSizes, validateBatchSize
      <4>3. /\ receiver'.pendingBatch = <<>> /\ receiver'.pendingBatchSizeBytes = 0
            /\ DOMAIN batches' = {} /\ committing' = "free"
        <5>1. /\ UNCHANGED <<receiver, batches, committing>>
              /\ committing = "free" /\ batches = <<>> /\ receiver.pendingBatch = <<>>
          BY Zenon, <2>1, <2>2, <2>4
        <5>2. receiver.pendingBatchSizeBytes = 0 BY <2>3, <2>4, Zenon DEF BatchInv
        <5>3. DOMAIN <<>> = {} OBVIOUS
        <5> QED BY <5>1, <5>2, <5>3, Zenon
      <4> QED BY Zenon, <3>4, <4>1, <4>2, <4>3 DEF BatchInv
    <3>11. \A n \in DOMAIN ledger' :
              ledger'[n].txs = <<>> \/ (n \in DOMAIN ledger /\ ledger'[n] = ledger[n])
      <4>1. \A n \in DOMAIN ledger' : n \in DOMAIN ledger \/ n = Len(ledger) + 1 BY <2>7, <3>2
      <4> QED BY <2>6, <3>2, <4>1, Zenon
    <3>12. \A x : AfterChain(ticket, ledger, x) => AfterChain(ticket, ledger', x)
      BY <3>11, EmptyRun, Zenon DEF AfterChain
    <3>13. HeldOrderInv' BY Zenon, <2>1, <2>2, <2>3, <2>4, <3>12 DEF HeldOrderInv
    <3>14. ChainOrderInv'
      <4>1. \A n \in DOMAIN ledger' : Run(ticket, tickets, ledger'[n].txs)
        BY <2>3, <3>11, EmptyRun, Zenon DEF ChainOrderInv
      <4>2. \A n, k \in DOMAIN ledger' : n < k => Before(ticket, ledger'[n].txs, ledger'[k].txs)
        BY <2>3, <3>11, EmptyRun, Zenon DEF ChainOrderInv
      <4> QED BY <2>2, <4>1, <4>2, Zenon DEF ChainOrderInv
    <3>15. PlaceInv'
      <4>1. \A m \in Message : InChain(ledger, m) => InChain(ledger', m) BY <3>2, Zenon DEF InChain
      <4>2. \A m \in Message : Held(m) => Held(m)' BY <2>1, <2>2, Zenon DEF Held
      <4> QED BY <2>2, <2>3, <4>1, <4>2, Zenon DEF PlaceInv
    <3>16. HandlerInv' BY <2>1, <2>2, HandlersStill, Zenon
    <3> QED BY <2>1, <2>2, <3>1, <3>5, <3>6, <3>7, <3>8, <3>9, <3>10, <3>13, <3>14, <3>15, <3>16, Zenon
            DEF IInv, ConfigNeverPanics, AppendNeverPanics
  <2> QED BY <2>8, <2>9, Zenon
<1> QED BY <1>WriteBlockInv, <1>CommitStampInv, <1>CommitAppendInv, <1>UpdateBundleInv, <1>CommitConfigBlockInv, Zenon

--------------------------------------------------------------------------------
(* The clients *)

\* The steps of the clients.
LEMMA ClientSteps ==
  \A h \in Handler : IInv /\ (Receive(h) \/ ReceiveRemoved(h)) => IInv'
\* An envelope goes from a client to a handler, and is with no one else.
<1>ReceiveInv. ASSUME IInv, NEW h \in Handler, Receive(h) PROVE IInv'
  <2> USE <1>ReceiveInv
  <2>1. status = "up" /\ hpc[h] = "idle" BY Zenon DEF Receive, At
  <2>2. HandlerInv /\ PlaceInv /\ TypeOK BY <2>1, Zenon DEF IInv
  <2>3. UNCHANGED Core /\ UNCHANGED <<reply, hseq, hpolicy, henv>>
    BY Zenon DEF Receive, Core, process, main, writer, store, history
  <2>4. PICK s \in unsent :
          /\ unsent' = unsent \ {s} /\ hmsg' = [hmsg EXCEPT ![h] = s]
          /\ hpc' = [hpc EXCEPT ![h] = IF s \in Update THEN "readSeq" ELSE "checkState"]
    BY Zenon DEF Receive, Goto
  <2>5. s \in Submission /\ s # NoEnv BY <2>2, ChainConstants, Zenon DEF TypeOK, Submission
  <2>6. HandlerTypes' BY <2>2, <2>3, <2>4, <2>5, Zenon DEF TypeOK, HandlerTypes, HandlerPC
  <2>7. HandlerInv'
    <3>1. ASSUME NEW g \in Handler, g # h PROVE HandlerOK(g)'
      BY <2>2, <2>3, <2>4, <3>1, HandlerStill, Zenon DEF HandlerInv, TypeOK, Core
    <3>2. henv[h] = NoEnv BY <2>1, <2>2, Zenon DEF HandlerInv, HandlerOK, HandlerShape
    <3>3. hpc'[h] \in {"readSeq", "checkState"} /\ hmsg'[h] = s /\ henv'[h] = NoEnv
          /\ (hpc'[h] = "checkState" => s \in Message)
      BY <2>2, <2>3, <2>4, <2>5, <3>2, Zenon DEF TypeOK, Submission
    <3>4. HandlerOK(h)' BY <2>5, <3>3, Zenon DEF HandlerOK, HandlerShape, Validating
    <3> QED BY <3>1, <3>4, Zenon DEF HandlerInv
  <2>8. PlaceInv'
    <3>1. UNCHANGED <<ticket, ledger>> /\ \A m \in Message : Held(m)' = Held(m)
      BY <2>3, Zenon DEF Core, Held
    <3> QED BY <2>2, <2>4, <2>5, <3>1 DEF PlaceInv, TypeOK
  <2> QED BY <2>1, <2>3, <2>6, <2>7, <2>8, HandlerFrame, Zenon
\* An envelope for a channel that is gone leaves the handler idle.
<1>ReceiveRemovedInv. ASSUME IInv, NEW h \in Handler, ReceiveRemoved(h) PROVE IInv'
  <2> USE <1>ReceiveRemovedInv
  <2>1. status = "up" BY Zenon DEF ReceiveRemoved, At
  <2>2. HandlerInv /\ PlaceInv /\ TypeOK BY <2>1, Zenon DEF IInv
  <2>3. UNCHANGED Core /\ UNCHANGED <<hpc, hmsg, hseq, hpolicy, henv>>
    BY Zenon DEF ReceiveRemoved, Core, process, handlers, main, writer, store, history
  <2>4. PICK s \in unsent :
          /\ unsent' = unsent \ {s}
          /\ reply' = IF h \in UdpHandler THEN reply ELSE [reply EXCEPT ![s] = "BAD_REQUEST"]
    BY Zenon DEF ReceiveRemoved
  <2>5. reply' \in [Submission -> Statuses] BY <2>2, <2>4, Zenon DEF TypeOK, Statuses
  <2>6. HandlerTypes' BY <2>2, <2>3, <2>4, <2>5, Zenon DEF TypeOK, HandlerTypes
  <2>7. HandlerInv' BY <2>2, <2>3, HandlerStill, Zenon DEF HandlerInv, Core
  <2>8. PlaceInv'
    <3>1. UNCHANGED <<ticket, ledger>> /\ \A m \in Message : Held(m)' = Held(m)
      BY <2>3, Zenon DEF Core, Held
    <3> QED BY <2>2, <2>3, <2>4, <3>1, Zenon DEF PlaceInv
  <2> QED BY <2>1, <2>3, <2>6, <2>7, <2>8, HandlerFrame, Zenon
<1> QED BY <1>ReceiveInv, <1>ReceiveRemovedInv, Zenon

--------------------------------------------------------------------------------
(* Main *)

\* The steps of main.
LEMMA MainSteps ==
  IInv /\ (MainLoop \/ MainTimer \/ MainExit \/ \E h \in Handler : MainReceive(h)) => IInv'
\* In its select, main has nothing to write, and seq is the sequence in force.
<1>AtSelect.
  ASSUME IInv, status = "up", mainPC \in {"loop", "select"}
  PROVE  /\ TypeOK /\ batches = <<>> /\ configMsg = NoEnv
         /\ bundle = ConfigOf(ledger) /\ bundle \in Config
         /\ bundle.batchSize.maxMessageCount \in Nat \ {0}
         /\ bundle.batchSize.preferredMaxBytes \in Nat
         /\ bundle.sequence \in Nat
         /\ mainPC = "select" => seq = bundle.sequence
  <2> USE <1>AtSelect
  <2>1. TypeOK /\ MainInv /\ BundleInv BY Zenon DEF IInv
  <2>2. bundle \in Config /\ validateBatchSize(bundle) BY <2>1, Zenon DEF TypeOK
  <2>3. bundle.batchSize \in BatchSizes /\ bundle.sequence \in Nat BY <2>2, Zenon DEF Config
  <2>4. /\ bundle.batchSize.maxMessageCount \in Nat \ {0}
        /\ bundle.batchSize.preferredMaxBytes \in Nat
    BY <2>2, <2>3, Zenon DEF BatchSizes, validateBatchSize
  <2> QED BY <2>1, <2>2, <2>3, <2>4, Zenon DEF MainInv, BundleInv
\* A step of main that only moves its program counter, while handlers may return.
<1>MainFrame.
  ASSUME IInv, status = "up", mainPC \in {"loop", "select"},
         mainPC' \in {"loop", "select", "exited"}, seq' \in Nat,
         mainPC' = "select" => seq' = bundle.sequence,
         HandlerTypes', HandlerInv', PlaceInv',
         UNCHANGED <<status, crashes, bundle, timer, batches, configMsg, exitChan, receiver,
                     lastBlock, lastConfigBlockNum, lastConfigSeq, committing, ledger,
                     ledgerOpen, ticket, tickets>>
  PROVE  IInv'
  <2> USE <1>MainFrame
  <2>1. TypeOK /\ batches = <<>> /\ configMsg = NoEnv /\ bundle = ConfigOf(ledger)
    BY <1>AtSelect, Zenon
  <2>2. TypeOK' BY <2>1, Zenon DEF TypeOK, HandlerTypes
  <2>3. BundleInv' BY <2>1, Zenon DEF BundleInv
  <2>4. MainInv' BY <2>1, Zenon DEF IInv, MainInv
  <2>5. ChainInv' /\ WriterInv' /\ BatchInv' /\ ChainOrderInv' /\ HeldOrderInv'
    BY Zenon DEF IInv, ChainInv, WriterInv, BatchInv, ChainOrderInv, HeldOrderInv
  <2> QED BY <2>2, <2>3, <2>4, <2>5, Zenon DEF IInv, ConfigNeverPanics, AppendNeverPanics
\* At the head of its loop main reads the sequence, which only main itself can change.
<1>MainLoopInv. ASSUME IInv, MainLoop PROVE IInv'
  <2> USE <1>MainLoopInv
  <2>1. status = "up" /\ mainPC = "loop" /\ mainPC' = "select" /\ seq' = bundle.sequence
    BY Zenon DEF MainLoop, MainAt
  <2>2. /\ UNCHANGED <<status, crashes, bundle, unsent, reply, hpc, hmsg, hseq, hpolicy, henv>>
        /\ UNCHANGED <<timer, batches, configMsg, exitChan, receiver, ticket, tickets>>
        /\ UNCHANGED <<lastBlock, lastConfigBlockNum, lastConfigSeq, committing, ledger, ledgerOpen>>
    BY Zenon DEF MainLoop, process, clients, handlers, writer, store, history
  <2>3. bundle.sequence \in Nat BY <2>1, <1>AtSelect, Zenon
  <2>4. HandlerTypes' /\ HandlerInv' BY <2>1, <2>2, HandlersStill, Zenon
  <2>5. PlaceInv' BY <2>1, <2>2, Zenon DEF IInv, PlaceInv, Held
  <2> QED BY <2>1, <2>2, <2>3, <2>4, <2>5, <1>MainFrame, Zenon
\* main returns once exitChan is closed.
<1>MainExitInv. ASSUME IInv, MainExit PROVE IInv'
  <2> USE <1>MainExitInv
  <2>1. status = "up" /\ mainPC = "select" /\ mainPC' = "exited" BY Zenon DEF MainExit, MainAt
  <2>2. /\ UNCHANGED <<status, crashes, bundle, unsent, reply, hpc, hmsg, hseq, hpolicy, henv>>
        /\ UNCHANGED <<seq, timer, batches, configMsg, exitChan, receiver, ticket, tickets>>
        /\ UNCHANGED <<lastBlock, lastConfigBlockNum, lastConfigSeq, committing, ledger, ledgerOpen>>
    BY Zenon DEF MainExit, process, clients, handlers, writer, store, history
  <2>3. seq' \in Nat BY <2>2, Zenon DEF IInv, TypeOK
  <2>4. HandlerTypes' /\ HandlerInv' BY <2>1, <2>2, HandlersStill, Zenon
  <2>5. PlaceInv' BY <2>1, <2>2, Zenon DEF IInv, PlaceInv, Held
  <2> QED BY <2>1, <2>2, <2>3, <2>4, <2>5, <1>MainFrame, Zenon
\* main drops a message that no longer validates; only the handler changes.
<1>MainDiscardInv. ASSUME IInv, NEW h \in Handler, MainDiscard(h) PROVE IInv'
  <2> USE <1>MainDiscardInv
  <2>1. /\ status = "up" /\ mainPC = "select" /\ mainPC' = "loop"
        /\ hpc[h] = "enqueue" /\ Return(h, "SUCCESS")
    BY Zenon DEF MainDiscard, Rendezvous, MainAt
  <2>2. /\ UNCHANGED <<status, crashes, bundle, unsent>>
        /\ UNCHANGED <<seq, timer, batches, configMsg, exitChan, receiver, ticket, tickets>>
        /\ UNCHANGED <<lastBlock, lastConfigBlockNum, lastConfigSeq, committing, ledger, ledgerOpen>>
    BY Zenon DEF MainDiscard, process, writer, store, history
  <2>3. TypeOK /\ HandlerInv /\ PlaceInv BY <2>1, Zenon DEF IInv
  <2>4. seq' \in Nat BY <2>2, <2>3, Zenon DEF TypeOK
  <2>5. HandlerTypes' /\ HandlerInv' /\ hmsg' = [hmsg EXCEPT ![h] = NoEnv]
    BY <2>1, <2>2, <2>3, ReturnHandlers, Zenon DEF Statuses
  <2>6. PlaceInv'
    <3>1. \A m \in Message : Held(m)' = Held(m) BY Zenon, <2>2 DEF Held
    <3>2. NoEnv \notin Message /\ NoEnv \notin unsent
      BY <2>3, ChainConstants, Zenon DEF TypeOK, Submission
    <3> QED BY <2>2, <2>3, <2>5, <3>1, <3>2, Zenon DEF TypeOK, PlaceInv
  <2> QED BY <2>1, <2>2, <2>4, <2>5, <2>6, <1>MainFrame, Zenon
\* Cutting the pending batch moves it, unchanged, to the batches to be written.
<1>CutPending.
  ASSUME TypeOK, BatchInv, HeldOrderInv, batches = <<>>,
         receiver' = Cut(receiver).receiver, batches' = NonEmpty(Cut(receiver).batch),
         UNCHANGED <<ledger, ticket, tickets, committing, lastBlock>>,
         ConfigOf(ledger).batchSize.maxMessageCount \in Nat \ {0}
  PROVE  /\ receiver' \in Receiver /\ receiver'.pendingBatch = <<>>
         /\ batches' \in Seq(Seq(Message))
         /\ batches' = <<>> <=> receiver.pendingBatch = <<>>
         /\ BatchInv' /\ HeldOrderInv'
         /\ \A m \in Message : Held(m) => Held(m)'
  <2> USE <1>CutPending
  <2> DEFINE p == receiver.pendingBatch
  <2>1. p \in Seq(Message) BY Zenon DEF TypeOK, Receiver
  <2>2. /\ receiver' = EmptyReceiver /\ EmptyReceiver \in Receiver
        /\ receiver'.pendingBatch = <<>> /\ receiver'.pendingBatchSizeBytes = 0
    BY DEF Cut, EmptyReceiver, Receiver
  <2>3. batches' = IF p = <<>> THEN <<>> ELSE <<p>> BY Zenon DEF Cut, NonEmpty
  <2>4. batches' \in Seq(Seq(Message)) /\ (batches' = <<>> <=> p = <<>>) BY <2>1, <2>3
  <2>5. \A i \in DOMAIN batches' : i = 1 /\ batches'[i] = p /\ p # <<>> BY <2>3
  <2>6. BatchInv'
    <3>1. p # <<>> => GoodBatch(ConfigOf(ledger), p)
      <4>1. Admitted(ConfigOf(ledger), p) /\ Len(p) < ConfigOf(ledger).batchSize.maxMessageCount
        BY Zenon DEF BatchInv
      <4> HIDE DEF p
      <4>2. p # <<>> => Len(p) \in Nat \ {0} BY <2>1
      <4> QED BY <4>1, <4>2 DEF GoodBatch
    <3>2. Admitted(ConfigOf(ledger), <<>>) /\ Len(<<>>) = 0 BY DEF Admitted
    <3> HIDE DEF p
    <3> QED BY <2>2, <2>5, <3>1, <3>2 DEF BatchInv
  <2>7. HeldOrderInv'
    <3>1. Run(ticket, tickets, <<>>) /\ AfterChain(ticket, ledger, <<>>)
          /\ \A a : Before(ticket, a, <<>>)
      BY EmptyRun, Zenon DEF AfterChain
    <3>2. /\ Run(ticket, tickets, p) /\ AfterChain(ticket, ledger, p)
          /\ committing # "free" =>
               /\ Run(ticket, tickets, lastBlock.txs)
               /\ AfterChain(ticket, ledger, lastBlock.txs)
               /\ Before(ticket, lastBlock.txs, p)
      BY Zenon DEF HeldOrderInv
    <3> HIDE DEF p
    <3>3. \A i \in DOMAIN batches' :
            /\ Run(ticket, tickets, batches'[i]) /\ AfterChain(ticket, ledger, batches'[i])
            /\ Before(ticket, batches'[i], <<>>)
            /\ committing # "free" => Before(ticket, lastBlock.txs, batches'[i])
      BY <2>5, <3>1, <3>2, Zenon
    <3>4. \A i, j \in DOMAIN batches' : ~(i < j) BY <2>5
    <3>5. committing # "free" => Before(ticket, lastBlock.txs, <<>>) BY <3>1, Zenon
    <3>6. Run(ticket, tickets, receiver'.pendingBatch)
          /\ AfterChain(ticket, ledger, receiver'.pendingBatch)
      BY <2>2, <3>1, Zenon
    <3>7. \A i \in DOMAIN batches' :
            /\ Run(ticket, tickets, batches'[i]) /\ AfterChain(ticket, ledger, batches'[i])
            /\ Before(ticket, batches'[i], receiver'.pendingBatch)
            /\ \A j \in DOMAIN batches' : i < j => Before(ticket, batches'[i], batches'[j])
      BY <2>2, <3>3, <3>4, Zenon
    <3>8. committing # "free" =>
            /\ Run(ticket, tickets, lastBlock.txs) /\ AfterChain(ticket, ledger, lastBlock.txs)
            /\ Before(ticket, lastBlock.txs, receiver'.pendingBatch)
            /\ \A i \in DOMAIN batches' : Before(ticket, lastBlock.txs, batches'[i])
      BY <2>2, <3>2, <3>3, <3>5, Zenon
    <3>9. ticket' = ticket /\ tickets' = tickets /\ ledger' = ledger /\ committing' = committing /\ lastBlock' = lastBlock
      OBVIOUS
    <3> QED BY <3>6, <3>7, <3>8, <3>9, Zenon DEF HeldOrderInv
  <2>8. ASSUME NEW m \in Message, Held(m) PROVE Held(m)'
    <3>1. CASE Occurs(m, p)
      <4>1. p # <<>> BY <3>1 DEF Occurs
      <4>2. 1 \in DOMAIN batches' /\ batches'[1] = p BY <2>3, <4>1
      <4> QED BY <3>1, <4>2, Zenon DEF Held
    <3>2. CASE ~Occurs(m, p) BY <2>8, <3>2 DEF Held
    <3> QED BY <3>1, <3>2, Zenon
  <2> QED BY <2>2, <2>4, <2>6, <2>7, <2>8, Zenon
\* The timer cuts the pending batch, which becomes the only batch to write.
<1>MainTimerInv. ASSUME IInv, MainTimer PROVE IInv'
  <2> USE <1>MainTimerInv
  <2>1. /\ status = "up" /\ mainPC = "select" /\ timer /\ timer' = FALSE
        /\ receiver' = Cut(receiver).receiver /\ batches' = NonEmpty(Cut(receiver).batch)
        /\ mainPC' = Resume(batches', NoEnv)
    BY Zenon DEF MainTimer, MainAt
  <2>2. /\ UNCHANGED <<status, crashes, bundle, unsent, reply, hpc, hmsg, hseq, hpolicy, henv>>
        /\ UNCHANGED <<seq, configMsg, exitChan, ticket, tickets>>
        /\ UNCHANGED <<lastBlock, lastConfigBlockNum, lastConfigSeq, committing, ledger, ledgerOpen>>
    BY Zenon DEF MainTimer, process, clients, handlers, writer, store, history
  <2>3. /\ TypeOK /\ batches = <<>> /\ configMsg = NoEnv /\ bundle = ConfigOf(ledger)
        /\ ConfigOf(ledger).batchSize.maxMessageCount \in Nat \ {0}
    BY <2>1, <1>AtSelect, Zenon
  <2>4. BatchInv /\ HeldOrderInv /\ PlaceInv /\ MainInv BY <2>1, Zenon DEF IInv
  <2>5. /\ receiver' \in Receiver /\ receiver'.pendingBatch = <<>>
        /\ batches' \in Seq(Seq(Message)) /\ BatchInv' /\ HeldOrderInv'
        /\ \A m \in Message : Held(m) => Held(m)'
    BY <2>1, <2>2, <2>3, <2>4, <1>CutPending, Zenon
  <2>6. mainPC' \in {"writeBatches", "loop"} /\ (mainPC' = "writeBatches" <=> batches' # <<>>)
    BY <2>1, Zenon DEF Resume
  <2>7. TypeOK' BY Zenon, <2>1, <2>2, <2>3, <2>5, <2>6 DEF TypeOK
  <2>8. HandlerInv' BY <2>1, <2>2, HandlersStill, Zenon
  <2>9. BundleInv' /\ MainInv' BY <2>1, <2>2, <2>3, <2>5, <2>6, Zenon DEF BundleInv, MainInv
  <2>10. ChainInv' /\ WriterInv' /\ ChainOrderInv'
    BY Zenon, <2>1, <2>2 DEF IInv, ChainInv, WriterInv, ChainOrderInv
  <2>11. PlaceInv' BY Zenon, <2>2, <2>4, <2>5 DEF PlaceInv
  <2> QED BY <2>1, <2>2, <2>5, <2>7, <2>8, <2>9, <2>10, <2>11, Zenon
          DEF IInv, ConfigNeverPanics, AppendNeverPanics
\* main takes a CONFIG envelope that the configuration in force validates, after the pending
\* batch: proposed under that configuration, or reprocessed.
<1>MainConfigureInv. ASSUME IInv, NEW h \in Handler, MainConfigure(h) PROVE IInv'
  <2> USE <1>MainConfigureInv
  <2> DEFINE u == hmsg[h]
             env == IF Outdated(h) THEN ProposeConfigUpdate(bundle, u) ELSE henv[h]
  <2>1. /\ status = "up" /\ mainPC = "select" /\ hpc[h] = "enqueue" /\ Return(h, "SUCCESS")
        /\ u \in Update /\ (Outdated(h) => ProcessConfigUpdateMsg(bundle, u))
        /\ receiver' = Cut(receiver).receiver /\ batches' = NonEmpty(Cut(receiver).batch)
        /\ configMsg' = env /\ timer' = FALSE /\ mainPC' = Resume(batches', env)
    BY Zenon DEF MainConfigure, Rendezvous, MainAt
  <2>2. /\ UNCHANGED <<status, crashes, bundle, unsent, seq, exitChan, ticket, tickets>>
        /\ UNCHANGED <<lastBlock, lastConfigBlockNum, lastConfigSeq, committing, ledger, ledgerOpen>>
    BY Zenon DEF MainConfigure, process, writer, store, history
  <2>3. /\ TypeOK /\ batches = <<>> /\ configMsg = NoEnv /\ bundle = ConfigOf(ledger)
        /\ ConfigOf(ledger).batchSize.maxMessageCount \in Nat \ {0}
        /\ bundle \in Config /\ bundle.sequence \in Nat /\ seq = bundle.sequence
    BY <2>1, <1>AtSelect, Zenon
  <2>4. BatchInv /\ HeldOrderInv /\ PlaceInv /\ HandlerInv BY <2>1, Zenon DEF IInv
  <2>5. /\ receiver' \in Receiver /\ receiver'.pendingBatch = <<>>
        /\ batches' \in Seq(Seq(Message)) /\ BatchInv' /\ HeldOrderInv'
        /\ \A m \in Message : Held(m) => Held(m)'
    BY Zenon, <2>1, <2>2, <2>3, <2>4, <1>CutPending
  <2>6. ProcessConfigUpdateMsg(bundle, u) /\ env = ProposeConfigUpdate(bundle, u)
    <3>1. CASE Outdated(h) BY <2>1, <3>1, Zenon
    <3>2. CASE ~Outdated(h)
      <4>1. hseq[h] \in Nat BY <2>3, Zenon DEF TypeOK
      <4>2. hseq[h] = bundle.sequence
        <5>1. HandlerOK(h) BY <2>4, Zenon DEF HandlerInv
        <5>2. Validating(h) BY <2>1, Zenon DEF Validating
        <5>3. hseq[h] <= bundle.sequence BY <5>1, <5>2, Zenon DEF HandlerOK
        <5>4. ~(hseq[h] < bundle.sequence) BY <2>3, <3>2, Zenon DEF Outdated
        <5> QED BY <2>3, <4>1, <5>3, <5>4
      <4>3. HandlerShape(h) /\ Knows(h)
        BY <2>1, <2>4, <4>2, Zenon DEF HandlerInv, HandlerOK, Validating
      <4> QED BY Zenon, <2>1, <3>2, <4>3 DEF HandlerShape, Knows
    <3> QED BY <3>1, <3>2, Zenon
  <2>7. /\ env \in Env /\ env # NoEnv /\ env.lastUpdate = u /\ Validate(bundle, env)
    <3>1. computeUpdateResult(bundle, u) \in Config
          /\ computeUpdateResult(bundle, u).sequence = bundle.sequence + 1
      BY Zenon, <2>1, <2>3, UpdateResult
    <3>2. env = [config |-> computeUpdateResult(bundle, u), lastUpdate |-> u]
      BY <2>6, Zenon DEF ProposeConfigUpdate
    <3>3. authorizeUpdate(bundle, u) BY <2>6, Zenon DEF ProcessConfigUpdateMsg, CanPropose
    <3> HIDE DEF env, u
    <3>4. env \in Env BY <2>1, <3>1, <3>2, Zenon DEF Env
    <3> QED BY <3>1, <3>2, <3>3, <3>4, NoEnvAssumption, Zenon DEF Validate
  <2> HIDE DEF env, u
  <2>8. /\ mainPC' \in {"writeBatches", "writeConfig"}
        /\ mainPC' = "writeBatches" <=> batches' # <<>>
    BY <2>1, <2>7, Zenon DEF Resume
  <2>9. HandlerTypes' /\ HandlerInv' /\ hmsg' = [hmsg EXCEPT ![h] = NoEnv]
    BY <2>1, <2>2, <2>3, <2>4, ReturnHandlers, Zenon DEF Statuses
  <2>10. TypeOK' BY Zenon, <2>1, <2>2, <2>3, <2>5, <2>7, <2>8, <2>9 DEF TypeOK, HandlerTypes
  <2>11. BundleInv' BY <2>2, <2>3, <2>8, Zenon DEF BundleInv
  <2>12. MainInv' BY Zenon, <2>1, <2>2, <2>3, <2>5, <2>6, <2>7, <2>8 DEF MainInv
  <2>13. ChainInv' /\ WriterInv' /\ ChainOrderInv'
    BY Zenon, <2>1, <2>2 DEF IInv, ChainInv, WriterInv, ChainOrderInv
  <2>14. PlaceInv'
    <3>1. NoEnv \notin Message /\ NoEnv \notin unsent
      BY Zenon, <2>3, ChainConstants DEF TypeOK, Submission
    <3> QED BY Zenon, <2>2, <2>3, <2>4, <2>5, <2>9, <3>1 DEF TypeOK, PlaceInv
  <2> QED BY <2>1, <2>2, <2>5, <2>9, <2>10, <2>11, <2>12, <2>13, <2>14, Zenon
          DEF IInv, ConfigNeverPanics, AppendNeverPanics
\* A message that takes the next ticket comes after all that have one.
<1>NewTicket.
  ASSUME NEW t \in [Message -> Nat], NEW n \in Nat, NEW m \in Message, t[m] = 0,
         NEW a \in Seq(Message), Run(t, n, a)
  PROVE  LET u == [t EXCEPT ![m] = n + 1]
         IN  /\ Run(u, n + 1, a)
             /\ Run(u, n + 1, Append(a, m)) /\ Run(u, n + 1, <<m>>)
             /\ Before(u, a, <<m>>)
             /\ \A b \in Seq(Message) : Run(t, n, b) /\ Before(t, a, b) =>
                  Before(u, a, b) /\ Before(u, a, Append(b, m))
  <2> USE <1>NewTicket
  <2> DEFINE u == [t EXCEPT ![m] = n + 1]
  <2>1. ASSUME NEW b \in Seq(Message), Run(t, n, b), NEW i \in DOMAIN b
        PROVE  b[i] # m /\ u[b[i]] = t[b[i]] /\ u[b[i]] \in 1 .. n
    <3>1. b[i] \in Message OBVIOUS
    <3>2. t[b[i]] \in 1 .. n BY <2>1, Zenon DEF Run
    <3>3. b[i] # m BY <3>2
    <3> QED BY <3>1, <3>2, <3>3, Zenon
  <2>2. u[m] = n + 1 OBVIOUS
  <2> HIDE DEF u
  <2>3. Run(u, n + 1, a) BY <2>1 DEF Run
  <2>4. /\ DOMAIN Append(a, m) = 1 .. Len(a) + 1 /\ DOMAIN a = 1 .. Len(a) /\ Len(a) \in Nat
        /\ \A i \in DOMAIN a : Append(a, m)[i] = a[i]
        /\ Append(a, m)[Len(a) + 1] = m
    OBVIOUS
  <2>5. Run(u, n + 1, Append(a, m))
    <3>1. ASSUME NEW i \in DOMAIN Append(a, m) PROVE u[Append(a, m)[i]] \in 1 .. n + 1
      BY <2>1, <2>2, <2>4
    <3>2. ASSUME NEW i \in DOMAIN Append(a, m), NEW j \in DOMAIN Append(a, m), i < j
          PROVE  u[Append(a, m)[i]] < u[Append(a, m)[j]]
      <4>1. i \in DOMAIN a /\ Append(a, m)[i] = a[i] BY <2>4, <3>2
      <4>2. CASE j \in DOMAIN a
        <5>1. u[a[i]] = t[a[i]] /\ u[a[j]] = t[a[j]] BY <2>1, <4>1, <4>2, Zenon
        <5>2. t[a[i]] < t[a[j]] BY <3>2, <4>1, <4>2, Zenon DEF Run
        <5>3. Append(a, m)[j] = a[j] BY <2>4, <4>2, Zenon
        <5> QED BY <4>1, <5>1, <5>2, <5>3, Zenon
      <4>3. CASE j = Len(a) + 1
        <5>1. u[a[i]] \in 1 .. n BY <2>1, <4>1, Zenon
        <5>2. Append(a, m)[j] = m BY <2>4, <4>3, Zenon
        <5> QED BY <2>2, <4>1, <5>1, <5>2
      <4> QED BY <2>4, <4>2, <4>3
    <3> QED BY Zenon, <3>1, <3>2 DEF Run
  <2>6. Run(u, n + 1, <<m>>)
    <3>1. DOMAIN <<m>> = {1} /\ <<m>>[1] = m OBVIOUS
    <3> QED BY <2>2, <3>1 DEF Run
  <2>7. Before(u, a, <<m>>)
    <3>1. DOMAIN <<m>> = {1} /\ <<m>>[1] = m OBVIOUS
    <3>2. \A i \in DOMAIN a : u[a[i]] < n + 1 BY <2>1
    <3> QED BY <2>2, <3>1, <3>2, Zenon DEF Before
  <2>8. ASSUME NEW b \in Seq(Message), Run(t, n, b), Before(t, a, b)
        PROVE  Before(u, a, b) /\ Before(u, a, Append(b, m))
    <3>1. Before(u, a, b) BY <2>1, <2>8, Zenon DEF Before
    <3>2. /\ DOMAIN Append(b, m) = 1 .. Len(b) + 1 /\ DOMAIN b = 1 .. Len(b) /\ Len(b) \in Nat
          /\ \A i \in DOMAIN b : Append(b, m)[i] = b[i]
          /\ Append(b, m)[Len(b) + 1] = m
      OBVIOUS
    <3>3. ASSUME NEW i \in DOMAIN a, NEW j \in DOMAIN Append(b, m)
          PROVE  u[a[i]] < u[Append(b, m)[j]]
      <4>1. CASE j \in DOMAIN b BY <3>1, <3>2, <4>1, Zenon DEF Before
      <4>2. CASE j = Len(b) + 1
        <5>1. u[a[i]] \in 1 .. n BY <2>1, Zenon
        <5>2. u[Append(b, m)[j]] = n + 1 BY <2>2, <3>2, <4>2, Zenon
        <5> QED BY <5>1, <5>2
      <4>3. j \in DOMAIN b \/ j = Len(b) + 1
        <5>1. \A k \in Nat : \A x \in 1 .. k + 1 : x \in 1 .. k \/ x = k + 1 OBVIOUS
        <5>2. j \in 1 .. Len(b) + 1 BY <3>2, Zenon
        <5> QED BY Zenon, <3>2, <5>1, <5>2
      <4> QED BY <4>1, <4>2, <4>3, Zenon
    <3> QED BY <3>1, <3>3, Zenon DEF Before
  <2> QED BY Zenon, <2>3, <2>5, <2>6, <2>7, <2>8 DEF u
\* Appending to a batch keeps its elements and adds one.
<1>AppendElements.
  ASSUME NEW s \in Seq(Message), NEW x \in Message
  PROVE  /\ Append(s, x) \in Seq(Message) /\ Len(Append(s, x)) = Len(s) + 1 /\ Len(s) \in Nat
         /\ <<x>> \in Seq(Message) /\ Len(<<x>>) = 1
         /\ Len(s) + 1 \in DOMAIN Append(s, x) /\ Append(s, x)[Len(s) + 1] = x
         /\ \A i \in DOMAIN s : i \in DOMAIN Append(s, x) /\ Append(s, x)[i] = s[i]
         /\ \A i \in DOMAIN Append(s, x) : i = Len(s) + 1 \/ i \in DOMAIN s
  BY <1>AppendElements
\* Where the message of MainOrder comes from and what is known of it.
<1>OrderedMessage.
  ASSUME IInv, NEW h \in Handler, MainOrder(h)
  PROVE  /\ hmsg[h] \in Message /\ Filters(bundle, hmsg[h]) /\ ticket[hmsg[h]] = 0
         /\ Outcome(receiver, hmsg[h], bundle.batchSize.maxMessageCount,
                    [batches |-> batches', receiver |-> receiver'])
         /\ receiver' \in Receiver /\ Settled(receiver')
         /\ timer' \in BOOLEAN /\ (timer' <=> receiver'.pendingBatch # <<>>)
  <2> USE <1>OrderedMessage
  <2> DEFINE m == hmsg[h]
             o == Ordered(receiver, m, bundle.batchSize)
  <2>1. /\ status = "up" /\ mainPC = "select" /\ hpc[h] = "enqueue" /\ m \in Message
        /\ Outdated(h) => ProcessNormalMsg(bundle, m)
        /\ receiver' = o.receiver /\ batches' = o.batches /\ timer' = NextTimer(timer, o.pending)
    BY Zenon DEF MainOrder, Rendezvous, MainAt
  <2>2. /\ TypeOK /\ bundle.batchSize.maxMessageCount \in Nat \ {0}
        /\ bundle.batchSize.preferredMaxBytes \in Nat
        /\ bundle.sequence \in Nat /\ seq = bundle.sequence
    BY <2>1, <1>AtSelect, Zenon
  <2>3. HandlerInv /\ PlaceInv /\ BatchInv /\ MainInv BY <2>1, Zenon DEF IInv
  <2>4. Filters(bundle, m)
    <3>1. CASE Outdated(h) BY <2>1, <3>1, Zenon DEF ProcessNormalMsg
    <3>2. CASE ~Outdated(h)
      <4>1. hseq[h] \in Nat BY <2>2, Zenon DEF TypeOK
      <4>2. hseq[h] = bundle.sequence
        <5>1. HandlerOK(h) BY <2>3, Zenon DEF HandlerInv
        <5>2. Validating(h) BY <2>1, Zenon DEF Validating
        <5>3. hseq[h] <= bundle.sequence BY <5>1, <5>2, Zenon DEF HandlerOK
        <5>4. ~(hseq[h] < bundle.sequence) BY <2>2, <3>2, Zenon DEF Outdated
        <5> QED BY <2>2, <4>1, <5>3, <5>4
      <4>3. Knows(h) BY <2>1, <2>3, <4>2, Zenon DEF HandlerInv, HandlerOK, Validating
      <4>4. m \notin Update BY <2>1, ChainConstants, Zenon
      <4> QED BY <2>1, <4>3, <4>4, Zenon DEF Knows
    <3> QED BY <3>1, <3>2, Zenon
  <2>5. ticket[m] = 0 BY <2>1, <2>3, Zenon DEF PlaceInv
  <2>6. receiver \in Receiver /\ Settled(receiver) /\ timer \in BOOLEAN
        /\ (timer <=> receiver.pendingBatch # <<>>)
    BY <2>2, <2>3, Zenon DEF TypeOK, BatchInv, MainInv, Settled
  <2> HIDE DEF m
  <2>7. /\ Outcome(receiver, m, bundle.batchSize.maxMessageCount, o)
        /\ o.receiver \in Receiver /\ Settled(o.receiver)
        /\ o.pending \in BOOLEAN /\ (o.pending <=> o.receiver.pendingBatch # <<>>)
    BY <2>1, <2>2, <2>6, OrderedOutcome, Zenon
  <2> HIDE DEF o
  <2>8. Outcome(receiver, m, bundle.batchSize.maxMessageCount,
                [batches |-> batches', receiver |-> receiver'])
    BY <2>1, <2>7, Zenon DEF Outcome
  <2>9. NextTimer(timer, o.pending) = o.pending BY Zenon, <2>6, <2>7 DEF NextTimer
  <2> QED BY <2>1, <2>4, <2>5, <2>7, <2>8, <2>9, Zenon DEF m
\* main gives a message to the cutter: it takes the next ticket and is pending or in the last
\* of the batches to write.
<1>MainOrderInv. ASSUME IInv, NEW h \in Handler, MainOrder(h) PROVE IInv'
  <2> USE <1>MainOrderInv
  <2> DEFINE m == hmsg[h]
             p == receiver.pendingBatch
             c == ConfigOf(ledger)
             t == ticket'
             n == tickets'
  <2>1. /\ status = "up" /\ mainPC = "select" /\ hpc[h] = "enqueue" /\ Return(h, "SUCCESS")
        /\ mainPC' = Resume(batches', NoEnv) /\ n = tickets + 1
        /\ t = [ticket EXCEPT ![m] = tickets + 1]
    BY Zenon DEF MainOrder, Rendezvous, MainAt
  <2>2. /\ UNCHANGED <<status, crashes, bundle, unsent, seq, configMsg, exitChan>>
        /\ UNCHANGED <<lastBlock, lastConfigBlockNum, lastConfigSeq, committing, ledger, ledgerOpen>>
    BY Zenon DEF MainOrder, process, writer, store
  <2>3. /\ TypeOK /\ batches = <<>> /\ configMsg = NoEnv /\ bundle = c
        /\ c.batchSize.maxMessageCount \in Nat \ {0}
        /\ ticket \in [Message -> Nat] /\ tickets \in Nat /\ ledger \in Seq(Block)
        /\ p \in Seq(Message) /\ lastBlock.txs \in Seq(Message)
        /\ \A i \in DOMAIN ledger : ledger[i].txs \in Seq(Message)
    <3>1. TypeOK BY Zenon DEF IInv
    <3>2. receiver \in Receiver /\ lastBlock \in Block /\ ledger \in Seq(Block)
          /\ ticket \in [Message -> Nat] /\ tickets \in Nat
      BY <3>1, Zenon DEF TypeOK
    <3>3. \A i \in DOMAIN ledger : ledger[i] \in Block BY <3>2
    <3> QED BY <2>1, <3>2, <3>3, <1>AtSelect, Zenon DEF Receiver, Block
  <2>4. HandlerInv /\ PlaceInv /\ BatchInv /\ HeldOrderInv /\ ChainOrderInv BY <2>1, Zenon DEF IInv
  <2>5. /\ m \in Message /\ Filters(c, m) /\ ticket[m] = 0
        /\ Outcome(receiver, m, c.batchSize.maxMessageCount,
                   [batches |-> batches', receiver |-> receiver'])
        /\ receiver' \in Receiver /\ Settled(receiver')
        /\ timer' \in BOOLEAN /\ (timer' <=> receiver'.pendingBatch # <<>>)
    BY <2>3, <1>OrderedMessage, Zenon
  <2>6. mainPC' \in {"writeBatches", "loop"} /\ (mainPC' = "writeBatches" <=> batches' # <<>>)
    BY <2>1, Zenon DEF Resume
  <2>7. HandlerTypes' /\ HandlerInv' /\ hmsg' = [hmsg EXCEPT ![h] = NoEnv]
    BY <2>1, <2>2, <2>3, <2>4, ReturnHandlers, Zenon DEF Statuses
  <2> DEFINE full == Append(p, m)
             q == receiver'.pendingBatch
             bs == batches'
  <2>8. /\ full \in Seq(Message) /\ <<m>> \in Seq(Message) /\ Len(full) = Len(p) + 1
        /\ Len(<<m>>) = 1 /\ Len(p) \in Nat
        /\ Len(p) + 1 \in DOMAIN full /\ full[Len(p) + 1] = m
        /\ \A i \in DOMAIN p : i \in DOMAIN full /\ full[i] = p[i]
        /\ \A i \in DOMAIN full : full[i] = m \/ (i \in DOMAIN p /\ full[i] = p[i])
    <3>1. p \in Seq(Message) /\ m \in Message BY <2>3, <2>5, Zenon
    <3> HIDE DEF m, p
    <3>2. /\ Append(p, m) \in Seq(Message) /\ Len(Append(p, m)) = Len(p) + 1 /\ Len(p) \in Nat
          /\ <<m>> \in Seq(Message) /\ Len(<<m>>) = 1
          /\ Len(p) + 1 \in DOMAIN Append(p, m) /\ Append(p, m)[Len(p) + 1] = m
          /\ \A i \in DOMAIN p : i \in DOMAIN Append(p, m) /\ Append(p, m)[i] = p[i]
          /\ \A i \in DOMAIN Append(p, m) : i = Len(p) + 1 \/ i \in DOMAIN p
      BY Zenon, <3>1, <1>AppendElements
    <3>3. \A i \in DOMAIN full : full[i] = m \/ (i \in DOMAIN p /\ full[i] = p[i])
      BY Zenon, <3>2
    <3> QED BY Zenon, <3>2, <3>3
  <2>9. \/ bs = <<>> /\ q = full /\ Len(p) + 1 < c.batchSize.maxMessageCount
        \/ bs = <<full>> /\ q = <<>>
        \/ bs = << <<m>> >> /\ p = <<>> /\ q = <<>>
        \/ bs = <<p>> /\ p # <<>> /\ q = <<m>> /\ 1 < c.batchSize.maxMessageCount
        \/ bs = <<p, <<m>> >> /\ p # <<>> /\ q = <<>>
    BY <2>5, Zenon DEF Outcome
  <2> DEFINE InPlace(x) == /\ Run(t, n, x) /\ AfterChain(t, ledger, x)
                           /\ committing # "free" => Before(t, lastBlock.txs, x)
  <2>10. ASSUME NEW a \in Seq(Message), Run(ticket, tickets, a)
         PROVE  /\ Run(t, n, a) /\ Run(t, n, Append(a, m)) /\ Run(t, n, <<m>>)
                /\ Before(t, a, <<m>>)
                /\ \A b \in Seq(Message) : Run(ticket, tickets, b) /\ Before(ticket, a, b) =>
                     Before(t, a, b) /\ Before(t, a, Append(b, m))
    <3> HIDE DEF m
    <3> QED BY Zenon, <2>1, <2>3, <2>5, <2>10, <1>NewTicket
  <2>11. /\ Run(ticket, tickets, p) /\ AfterChain(ticket, ledger, p)
         /\ \A i \in DOMAIN ledger : Run(ticket, tickets, ledger[i].txs)
         /\ committing # "free" =>
              /\ Run(ticket, tickets, lastBlock.txs) /\ AfterChain(ticket, ledger, lastBlock.txs)
              /\ Before(ticket, lastBlock.txs, p)
    BY <2>4, Zenon DEF HeldOrderInv, ChainOrderInv
  <2>12. InPlace(p) /\ InPlace(full) /\ InPlace(<<m>>) /\ Before(t, p, <<m>>)
    <3> HIDE DEF m, p, t, n
    <3>1. Run(t, n, p) /\ Run(t, n, full) /\ Run(t, n, <<m>>) /\ Before(t, p, <<m>>)
      BY Zenon, <2>3, <2>10, <2>11
    <3>2. AfterChain(t, ledger, p) /\ AfterChain(t, ledger, full) /\ AfterChain(t, ledger, <<m>>)
      BY Zenon, <2>3, <2>10, <2>11 DEF AfterChain
    <3>3. committing # "free" => /\ Before(t, lastBlock.txs, p) /\ Before(t, lastBlock.txs, full)
                                 /\ Before(t, lastBlock.txs, <<m>>)
      BY Zenon, <2>3, <2>10, <2>11
    <3> QED BY <3>1, <3>2, <3>3, Zenon
  <2>13. InPlace(<<>>) /\ \A x : Before(t, x, <<>>) BY EmptyRun, Zenon DEF AfterChain
  <2>14. ChainOrderInv'
    <3> HIDE DEF m, t, n
    <3> QED BY <2>2, <2>3, <2>4, <2>10, <2>11, Zenon DEF ChainOrderInv, t, n
  <2>15. committing # "free" => Run(t, n, lastBlock.txs) /\ AfterChain(t, ledger, lastBlock.txs)
    <3> HIDE DEF m, t, n
    <3> QED BY <2>3, <2>10, <2>11, Zenon DEF AfterChain
  <2>16. \/ DOMAIN bs = {} /\ q = full
         \/ DOMAIN bs = {1} /\ bs[1] = full /\ q = <<>>
         \/ DOMAIN bs = {1} /\ bs[1] = <<m>> /\ q = <<>>
         \/ DOMAIN bs = {1} /\ bs[1] = p /\ p # <<>> /\ q = <<m>>
         \/ DOMAIN bs = {1, 2} /\ bs[1] = p /\ p # <<>> /\ bs[2] = <<m>> /\ q = <<>>
    <3>1. /\ DOMAIN <<>> = {}
          /\ \A x : DOMAIN <<x>> = {1} /\ <<x>>[1] = x
          /\ \A x, y : DOMAIN <<x, y>> = {1, 2} /\ <<x, y>>[1] = x /\ <<x, y>>[2] = y
      OBVIOUS
    <3> HIDE DEF m, p, q, bs, full
    <3>2. bs = <<>> => DOMAIN bs = {} BY Zenon, <3>1
    <3>3. \A x : bs = <<x>> => DOMAIN bs = {1} /\ bs[1] = x BY Zenon, <3>1
    <3>4. \A x, y : bs = <<x, y>> => DOMAIN bs = {1, 2} /\ bs[1] = x /\ bs[2] = y BY <3>1
    <3> QED BY Zenon, <2>9, <3>2, <3>3, <3>4
  <2>17. q \in {full, <<m>>, <<>>} BY <2>9, Zenon
  <2>18. HeldOrderInv'
    <3>1. \A i \in DOMAIN bs : InPlace(bs[i]) /\ Before(t, bs[i], q)
      <4> HIDE DEF InPlace, m, p, t, n, q, bs, full
      <4> QED BY <2>12, <2>13, <2>16, Zenon
    <3>2. InPlace(q)
      <4> HIDE DEF InPlace, m, p, t, n, q, bs, full
      <4> QED BY <2>12, <2>13, <2>17, Zenon
    <3>3. \A i, j \in DOMAIN bs : i < j => Before(t, bs[i], bs[j])
      <4> HIDE DEF m, p, t, n, q, bs, full
      <4>1. CASE DOMAIN bs = {} BY <4>1, Zenon
      <4>2. CASE DOMAIN bs = {1} BY <4>2
      <4>3. CASE DOMAIN bs = {1, 2} /\ bs[1] = p /\ bs[2] = <<m>>
        <5>1. Before(t, bs[1], bs[2]) BY Zenon, <2>12, <4>3
        <5>2. \A i, j \in {1, 2} : i < j => i = 1 /\ j = 2 OBVIOUS
        <5> QED BY Zenon, <4>3, <5>1, <5>2
      <4> QED BY <2>16, <4>1, <4>2, <4>3, Zenon
    <3> QED BY <2>2, <2>15, <3>1, <3>2, <3>3, Zenon DEF HeldOrderInv
  <2>19. BatchInv'
    <3>1. Admitted(c, p) /\ Len(p) < c.batchSize.maxMessageCount /\ (p # <<>> => Len(p) > 0)
          /\ (committing # "free" => GoodBatch(c, lastBlock.txs))
      <4>1. /\ Admitted(c, p) /\ Len(p) < c.batchSize.maxMessageCount
            /\ committing # "free" => GoodBatch(c, lastBlock.txs)
        BY <2>4, Zenon DEF BatchInv
      <4>2. p \in Seq(Message) BY <2>3, Zenon
      <4> HIDE DEF p
      <4>3. p # <<>> => Len(p) > 0 BY <4>2
      <4> QED BY <4>1, <4>3, Zenon
    <3>2. Admitted(c, <<m>>)
      <4>1. Filters(c, m) BY <2>5, Zenon
      <4>2. DOMAIN <<m>> = {1} /\ <<m>>[1] = m OBVIOUS
      <4> HIDE DEF m, c
      <4> QED BY <4>1, <4>2, Zenon DEF Admitted
    <3>3. Admitted(c, full)
      <4> HIDE DEF full
      <4> QED BY <2>5, <2>8, <3>1, Zenon DEF Admitted
    <3>4. GoodBatch(c, full) /\ GoodBatch(c, <<m>>) /\ (p # <<>> => GoodBatch(c, p))
      <4>1. c.batchSize.maxMessageCount \in Nat \ {0} BY <2>3, Zenon
      <4>2. Len(full) = Len(p) + 1 /\ Len(<<m>>) = 1 /\ Len(p) \in Nat BY <2>8, Zenon
      <4> HIDE DEF m, p, c, full
      <4>3. /\ Len(full) \in 1 .. c.batchSize.maxMessageCount
            /\ Len(<<m>>) \in 1 .. c.batchSize.maxMessageCount
            /\ p # <<>> => Len(p) \in 1 .. c.batchSize.maxMessageCount
        BY <3>1, <4>1, <4>2
      <4> QED BY <3>1, <3>2, <3>3, <4>3, Zenon DEF GoodBatch
    <3>5. \A i \in DOMAIN bs : GoodBatch(c, bs[i])
      <4> HIDE DEF m, p, c, bs, full
      <4> QED BY <2>16, <3>4, Zenon
    <3>6. Admitted(c, <<>>) /\ Len(<<>>) = 0 BY DEF Admitted
    <3>7. Admitted(c, q) /\ Len(q) < c.batchSize.maxMessageCount
      <4>1. CASE q = full /\ Len(p) + 1 < c.batchSize.maxMessageCount BY <2>8, <3>3, <4>1, Zenon
      <4>2. CASE q = <<m>> /\ 1 < c.batchSize.maxMessageCount
        <5> HIDE DEF q
        <5> QED BY <2>8, <3>2, <4>2, Zenon
      <4>3. CASE q = <<>>
        <5> HIDE DEF q
        <5>1. 0 < c.batchSize.maxMessageCount BY <2>3
        <5> QED BY <3>6, <4>3, <5>1, Zenon
      <4> HIDE DEF m, p, c, q, full, bs
      <4> QED BY <2>9, <4>1, <4>2, <4>3, Zenon
    <3>8. q = <<>> => receiver'.pendingBatchSizeBytes = 0 BY <2>5, Zenon DEF Settled
    <3> QED BY <2>2, <3>1, <3>5, <3>7, <3>8, Zenon DEF BatchInv
  <2>20. PlaceInv'
    <3>1. NoEnv \notin Message /\ NoEnv \notin unsent
      BY <2>3, ChainConstants, Zenon DEF TypeOK, Submission
    <3>2. hmsg \in [Handler -> Submission \cup {NoEnv}] BY <2>3, Zenon DEF TypeOK
    <3>3. \A x \in Message : x \in unsent' => t[x] = 0 BY Zenon, <2>1, <2>2, <2>3, <2>4 DEF PlaceInv
    <3>4. \A g \in Handler : hmsg'[g] \in Message => t[hmsg'[g]] = 0
      BY Zenon, <2>1, <2>3, <2>4, <2>5, <2>7, <3>1, <3>2 DEF PlaceInv
    <3>5. \A g \in Handler : hmsg'[g] \notin unsent'
      BY <2>2, <2>4, <2>7, <3>1, <3>2, Zenon DEF PlaceInv
    <3>6. \A g, k \in Handler : hmsg'[g] = hmsg'[k] /\ hmsg'[g] # NoEnv => g = k
      BY <2>4, <2>7, <3>2, Zenon DEF PlaceInv
    <3>7. Occurs(m, full) /\ Occurs(m, <<m>>)
      <4>1. 1 \in DOMAIN <<m>> /\ <<m>>[1] = m OBVIOUS
      <4> HIDE DEF full
      <4> QED BY <2>8, <4>1, Zenon DEF Occurs
    <3>8. \A x : Occurs(x, p) => Occurs(x, full)
      <4> HIDE DEF full
      <4> QED BY <2>8, Zenon DEF Occurs
    <3>9. \A x : Occurs(x, p) \/ x = m => Occurs(x, q) \/ \E i \in DOMAIN bs : Occurs(x, bs[i])
      <4>1. \A x : ~Occurs(x, <<>>) BY DEF Occurs
      <4> HIDE DEF m, p, q, full, bs
      <4>2. CASE bs = <<>> /\ q = full BY <3>7, <3>8, <4>2, Zenon
      <4>3. CASE bs = <<full>> BY <3>7, <3>8, <4>3
      <4>4. CASE bs = << <<m>> >> /\ p = <<>> BY <3>7, <4>1, <4>4
      <4>5. CASE bs = <<p>> /\ q = <<m>>
        <5>1. 1 \in DOMAIN bs /\ bs[1] = p BY <4>5
        <5> QED BY Zenon, <3>7, <4>5, <5>1
      <4>6. CASE bs = <<p, <<m>> >>
        <5>1. 1 \in DOMAIN bs /\ bs[1] = p /\ 2 \in DOMAIN bs /\ bs[2] = <<m>> BY <4>6
        <5> QED BY <3>7, <5>1, Zenon
      <4> QED BY <2>9, <4>2, <4>3, <4>4, <4>5, <4>6, Zenon
    <3>10. ASSUME NEW x \in Message, t[x] > 0 PROVE Held(x)' \/ InChain(ledger', x)
      <4>1. CASE x = m BY <3>9, <4>1, Zenon DEF Held
      <4>2. CASE x # m
        <5>1. Held(x) \/ InChain(ledger, x) BY Zenon, <2>1, <2>3, <2>4, <3>10, <4>2 DEF PlaceInv
        <5>2. Held(x) => Occurs(x, p) \/ (committing # "free" /\ Occurs(x, lastBlock.txs))
          <6>1. batches = <<>> BY <2>3, Zenon
          <6>2. DOMAIN <<>> = {} OBVIOUS
          <6>3. DOMAIN batches = {} BY <6>1, <6>2, Zenon
          <6> QED BY <6>3, Zenon DEF Held
        <5> QED BY <2>2, <3>9, <5>1, <5>2, Zenon DEF Held
      <4> QED BY <4>1, <4>2, Zenon
    <3> QED BY <3>3, <3>4, <3>5, <3>6, <3>10, Zenon DEF PlaceInv
  <2>21. bs \in Seq(Seq(Message))
    <3>1. \A x, y \in Seq(Message) : <<x>> \in Seq(Seq(Message)) /\ <<x, y>> \in Seq(Seq(Message))
      OBVIOUS
    <3>2. <<>> \in Seq(Seq(Message)) OBVIOUS
    <3>3. p \in Seq(Message) /\ full \in Seq(Message) /\ <<m>> \in Seq(Message) BY <2>3, <2>8, Zenon
    <3> HIDE DEF m, p, q, full, bs
    <3> QED BY Zenon, <2>9, <3>1, <3>2, <3>3
  <2>22. n \in Nat /\ t \in [Message -> Nat]
    <3>1. n = tickets + 1 /\ t = [ticket EXCEPT ![m] = tickets + 1] BY <2>1, Zenon
    <3>2. ticket \in [Message -> Nat] /\ tickets \in Nat /\ m \in Message BY Zenon, <2>3, <2>5
    <3> HIDE DEF m, n, t
    <3> QED BY <3>1, <3>2
  <2>23. TypeOK' BY Zenon, <2>1, <2>2, <2>3, <2>5, <2>6, <2>7, <2>21, <2>22 DEF TypeOK, HandlerTypes
  <2>24. BundleInv' BY <2>2, <2>3, <2>6, Zenon DEF BundleInv
  <2>25. MainInv' BY <2>2, <2>3, <2>5, <2>6, Zenon DEF MainInv
  <2>26. ChainInv' /\ WriterInv' BY Zenon, <2>1, <2>2 DEF IInv, ChainInv, WriterInv
  <2> QED BY <2>1, <2>2, <2>7, <2>14, <2>18, <2>19, <2>20, <2>23, <2>24, <2>25, <2>26
          DEF IInv, ConfigNeverPanics, AppendNeverPanics
<1> QED BY <1>MainLoopInv, <1>MainExitInv, <1>MainDiscardInv, <1>MainTimerInv, <1>MainConfigureInv, <1>MainOrderInv, Zenon DEF MainReceive

--------------------------------------------------------------------------------
(* Start and restart *)

\* The first state: a chain of the genesis block, and nothing under way.
LEMMA InitInv == ASSUME Init PROVE IInv
<1>1. /\ status = "up" /\ crashes = 0 /\ ledger = <<Genesis>> /\ ledgerOpen = TRUE
      /\ bundle = GenesisConfig /\ unsent \in Workloads /\ reply = [s \in Submission |-> "none"]
      /\ mainPC = "loop" /\ seq = 0 /\ timer = FALSE /\ batches = <<>> /\ configMsg = NoEnv
      /\ exitChan = FALSE /\ receiver = EmptyReceiver /\ lastBlock = Genesis
      /\ lastConfigBlockNum = 0 /\ lastConfigSeq = GenesisConfig.sequence /\ committing = "free"
      /\ ticket = [m \in Message |-> 0] /\ tickets = 0
  BY Zenon DEF Init
<1>2. /\ hpc = [h \in Handler |-> "idle"] /\ hmsg = [h \in Handler |-> NoEnv]
      /\ hseq = [h \in Handler |-> 0] /\ hpolicy = [h \in Handler |-> "none"]
      /\ henv = [h \in Handler |-> NoEnv]
  BY Zenon DEF Init
<1>3. /\ Genesis \in Block /\ IsLastConfig(<<Genesis>>, 0)
      /\ ConfigOf(<<Genesis>>) = GenesisConfig
  BY GenesisChain, Zenon
<1>4. /\ Genesis.number = 0 /\ Genesis.lastConfig = 0 /\ Genesis.txs = <<>>
      /\ LastOf(<<Genesis>>) = Genesis
  BY Zenon DEF Genesis, LastOf
<1>5. /\ GenesisConfig \in Config /\ validateBatchSize(GenesisConfig)
      /\ GenesisConfig.sequence \in Nat
  BY GenesisAssumption, Zenon DEF Config
<1>6. /\ EmptyReceiver \in Receiver /\ EmptyReceiver.pendingBatch = <<>>
      /\ EmptyReceiver.pendingBatchSizeBytes = 0
  BY DEF EmptyReceiver, Receiver
<1>7. TypeOK
  <2>1. /\ hpc \in [Handler -> HandlerPC] /\ hseq \in [Handler -> Nat]
        /\ hmsg \in [Handler -> Submission \cup {NoEnv}]
        /\ hpolicy \in [Handler -> {"none", "Writers", "OrdererWriters"}]
        /\ henv \in [Handler -> Env \cup {NoEnv}]
    BY <1>2, Zenon DEF HandlerPC
  <2>2. reply \in [Submission -> Statuses] /\ unsent \subseteq Submission
    BY <1>1, ChainConstants, Zenon DEF Statuses, Submission
  <2>3. ledger \in Seq(Block) /\ ledger # <<>> BY <1>1, <1>3
  <2>4. crashes \in 0 .. MaxCrashes BY <1>1, ChainConstants
  <2>5. batches \in Seq(Seq(Message)) /\ ticket \in [Message -> Nat] BY <1>1
  <2> QED BY Zenon, <1>1, <1>3, <1>5, <1>6, <2>1, <2>2, <2>3, <2>4, <2>5 DEF TypeOK
<1>8. \A n \in DOMAIN ledger : n = 1 /\ ledger[n] = Genesis BY <1>1
<1>9. ChainInv /\ WriterInv
  <2>1. ChainInv
    <3>1. \A i \in DOMAIN ledger : ledger[i].number = i - 1 BY <1>4, <1>8
    <3>2. IsLastConfig(ledger, LastOf(ledger).lastConfig) BY <1>1, <1>3, <1>4, Zenon
    <3>3. validateBatchSize(ConfigOf(ledger)) BY <1>1, <1>3, <1>5, Zenon
    <3> QED BY <3>1, <3>2, <3>3, Zenon DEF ChainInv
  <2>2. WriterInv BY <1>1, <1>3, <1>4, Zenon DEF WriterInv
  <2> QED BY <2>1, <2>2, Zenon
<1>10. BundleInv /\ MainInv BY <1>1, <1>3, <1>6, Zenon DEF BundleInv, MainInv
<1>11. HandlerInv BY <1>2, Zenon DEF HandlerInv, HandlerOK, HandlerShape, Validating
<1>12. BatchInv
  <2>1. 0 < GenesisConfig.batchSize.maxMessageCount
    BY <1>5 DEF Config, BatchSizes, validateBatchSize
  <2>2. Len(<<>>) = 0 /\ Admitted(GenesisConfig, <<>>) BY DEF Admitted
  <2>3. DOMAIN batches = {} /\ committing = "free" BY <1>1
  <2>4. ConfigOf(ledger) = GenesisConfig BY <1>1, <1>3, Zenon
  <2>5. receiver.pendingBatch = <<>> /\ receiver.pendingBatchSizeBytes = 0 BY <1>1, <1>6, Zenon
  <2> QED BY <2>1, <2>2, <2>3, <2>4, <2>5, Zenon DEF BatchInv
<1>13. ChainOrderInv BY <1>4, <1>8, EmptyRun, Zenon DEF ChainOrderInv
<1>14. HeldOrderInv
  <2>1. DOMAIN batches = {} /\ committing = "free" /\ receiver.pendingBatch = <<>> BY <1>1, <1>6
  <2> QED BY <2>1, EmptyRun, Zenon DEF HeldOrderInv, AfterChain
<1>15. PlaceInv
  <2>1. \A m \in Message : ticket[m] = 0 BY <1>1, Zenon
  <2>2. \A h \in Handler : hmsg[h] = NoEnv BY <1>2, Zenon
  <2> QED BY <1>1, <2>1, <2>2, ChainConstants DEF PlaceInv, Submission
<1> QED BY <1>1, <1>7, <1>9, <1>10, <1>11, <1>12, <1>13, <1>14, <1>15, Zenon
        DEF IInv, ConfigNeverPanics, AppendNeverPanics

--------------------------------------------------------------------------------
(* Removal of the channel *)


\* A restart, and the removal of the channel.
LEMMA ProcessSteps ==
  IInv /\ (Halt \/ RemoveLedger \/ CrashAndRestart) => IInv'
\* A restart finds in the ledger all that the invariant asks of a node with nothing under way.
<1>CrashAndRestartInv. ASSUME IInv, CrashAndRestart PROVE IInv'
  <2> USE <1>CrashAndRestartInv
  <2>1. /\ status = "up" /\ ledgerOpen /\ crashes < MaxCrashes /\ crashes' = crashes + 1
        /\ bundle' = ConfigBlockOf(ledger).env.config
        /\ status' \in {"up", "noConsenter"}
        /\ lastBlock' = LastOf(ledger)
        /\ lastConfigBlockNum' = IF lastBlock'.number # 0 THEN lastBlock'.lastConfig ELSE 0
        /\ lastConfigSeq' = bundle'.sequence
        /\ committing' = "free" /\ receiver' = EmptyReceiver /\ mainPC' = "loop" /\ seq' = 0
        /\ timer' = FALSE /\ batches' = <<>> /\ configMsg' = NoEnv /\ exitChan' = FALSE
        /\ ticket' = [m \in Message |-> IF InChain(ledger, m) THEN ticket[m] ELSE 0]
    BY Zenon DEF CrashAndRestart
  <2>2. /\ hpc' = [h \in Handler |-> "idle"] /\ hmsg' = [h \in Handler |-> NoEnv]
        /\ hseq' = [h \in Handler |-> 0] /\ hpolicy' = [h \in Handler |-> "none"]
        /\ henv' = [h \in Handler |-> NoEnv]
    BY Zenon DEF CrashAndRestart
  <2>3. UNCHANGED <<unsent, reply, ledger, ledgerOpen, tickets>>
    BY Zenon DEF CrashAndRestart, clients, store
  <2>4. TypeOK /\ ChainInv /\ PlaceInv /\ ChainOrderInv BY <2>1, Zenon DEF IInv
  <2>5. ledger \in Seq(Block) /\ IsLastConfig(ledger, LastOf(ledger).lastConfig)
    BY <2>4, Zenon DEF TypeOK, ChainInv
  <2>6. bundle' = ConfigOf(ledger) /\ bundle' \in Config /\ validateBatchSize(bundle')
    BY <2>1, <2>4, <2>5, ConfigOfIs, Zenon DEF ConfigBlockOf, ChainInv
  <2>7. /\ LastOf(ledger) \in Block /\ Len(ledger) \in Nat \ {0}
        /\ LastOf(ledger).number = Len(ledger) - 1 /\ LastOf(ledger).lastConfig \in Nat
    BY <2>4, LastBlock, Zenon DEF Block
  <2>8. lastConfigBlockNum' = LastOf(ledger).lastConfig
    <3>1. LastOf(ledger).number = 0 => LastOf(ledger).lastConfig = 0
      BY <2>5, <2>7 DEF IsLastConfig
    <3> QED BY <2>1, <3>1, Zenon
  <2>9. /\ EmptyReceiver \in Receiver /\ EmptyReceiver.pendingBatch = <<>>
        /\ EmptyReceiver.pendingBatchSizeBytes = 0
    BY DEF EmptyReceiver, Receiver
  <2>10. ticket' \in [Message -> Nat] BY <2>1, <2>4, Zenon DEF TypeOK
  <2>11. TypeOK'
    <3>1. /\ hpc' \in [Handler -> HandlerPC] /\ hseq' \in [Handler -> Nat]
          /\ hmsg' \in [Handler -> Submission \cup {NoEnv}]
          /\ hpolicy' \in [Handler -> {"none", "Writers", "OrdererWriters"}]
          /\ henv' \in [Handler -> Env \cup {NoEnv}]
      BY <2>2, Zenon DEF HandlerPC
    <3>2. crashes' \in 0 .. MaxCrashes
      <4>1. crashes \in 0 .. MaxCrashes /\ MaxCrashes \in Nat BY <2>4, ChainConstants, Zenon DEF TypeOK
      <4>2. crashes < MaxCrashes /\ crashes' = crashes + 1 BY <2>1, Zenon
      <4> QED BY <4>1, <4>2
    <3>3. batches' \in Seq(Seq(Message)) BY <2>1
    <3>4. bundle'.sequence \in Nat BY <2>6, Zenon DEF Config
    <3> QED BY Zenon, <2>1, <2>3, <2>4, <2>6, <2>7, <2>8, <2>9, <2>10, <3>1, <3>2, <3>3, <3>4 DEF TypeOK
  <2>12. ASSUME NEW n \in DOMAIN ledger, NEW i \in DOMAIN ledger[n].txs
         PROVE  ticket'[ledger[n].txs[i]] = ticket[ledger[n].txs[i]]
    <3>0. ledger[n] \in Block BY <2>5
    <3>1. ledger[n].txs \in Seq(Message) BY <3>0, Zenon DEF Block
    <3>2. ledger[n].txs[i] \in Message BY <3>1
    <3>3. InChain(ledger, ledger[n].txs[i]) BY Zenon DEF InChain, Occurs
    <3> QED BY <2>1, <3>2, <3>3, Zenon
  <2>13. ChainOrderInv'
    <3>1. \A n \in DOMAIN ledger : Run(ticket', tickets, ledger[n].txs)
      BY <2>4, <2>12, Zenon DEF ChainOrderInv, Run
    <3>2. \A n, k \in DOMAIN ledger : n < k => Before(ticket', ledger[n].txs, ledger[k].txs)
      BY <2>4, <2>12, Zenon DEF ChainOrderInv, Before
    <3> QED BY <2>3, <3>1, <3>2, Zenon DEF ChainOrderInv
  <2>14. ChainInv' /\ WriterInv' BY <2>1, <2>3, <2>4, <2>6, <2>8, Zenon DEF ChainInv, WriterInv
  <2>15. BundleInv' /\ MainInv' BY <2>1, <2>3, <2>6, <2>9, Zenon DEF BundleInv, MainInv
  <2>16. HandlerInv' BY <2>2, Zenon DEF HandlerInv, HandlerOK, HandlerShape, Validating
  <2>17. BatchInv'
    <3>1. 0 < bundle'.batchSize.maxMessageCount
      BY <2>6 DEF Config, BatchSizes, validateBatchSize
    <3>2. Len(<<>>) = 0 /\ Admitted(bundle', <<>>) BY DEF Admitted
    <3>3. DOMAIN batches' = {} /\ committing' = "free"
      <4>1. batches' = <<>> /\ committing' = "free" BY <2>1, Zenon
      <4>2. DOMAIN <<>> = {} OBVIOUS
      <4> QED BY <4>1, <4>2, Zenon
    <3>4. ConfigOf(ledger') = bundle' BY <2>3, <2>6, Zenon
    <3>5. receiver'.pendingBatch = <<>> /\ receiver'.pendingBatchSizeBytes = 0 BY <2>1, <2>9, Zenon
    <3> QED BY <3>1, <3>2, <3>3, <3>4, <3>5, Zenon DEF BatchInv
  <2>18. HeldOrderInv'
    <3>1. DOMAIN batches' = {} /\ committing' = "free" /\ receiver'.pendingBatch = <<>>
      <4>1. batches' = <<>> /\ committing' = "free" BY <2>1, Zenon
      <4>2. DOMAIN <<>> = {} OBVIOUS
      <4>3. receiver'.pendingBatch = <<>> BY <2>1, <2>9, Zenon
      <4> QED BY <4>1, <4>2, <4>3, Zenon
    <3> QED BY <3>1, EmptyRun, Zenon DEF HeldOrderInv, AfterChain
  <2>19. PlaceInv'
    <3>1. \A m \in Message : ticket'[m] > 0 => InChain(ledger, m) BY <2>1
    <3>2. \A m \in Message : ticket[m] = 0 => ticket'[m] = 0 BY <2>1, Zenon
    <3>3. \A h \in Handler : hmsg'[h] = NoEnv BY <2>2, Zenon
    <3>4. NoEnv \notin unsent BY <2>4, ChainConstants, Zenon DEF TypeOK, Submission
    <3> QED BY <2>3, <2>4, <3>1, <3>2, <3>3, <3>4, ChainConstants, Zenon DEF PlaceInv
  <2>20. ~MayRemove => (ledgerOpen /\ ~exitChan /\ AppendNeverPanics)'
    BY <2>1, <2>3, Zenon DEF AppendNeverPanics
  <2> QED BY <2>1, <2>11, <2>13, <2>14, <2>15, <2>16, <2>17, <2>18, <2>19, <2>20, Zenon
          DEF IInv, ConfigNeverPanics
\* Halt closes exitChan and touches nothing else.
<1>HaltInv. ASSUME IInv, Halt PROVE IInv'
  <2> USE <1>HaltInv
  <2>1. MayRemove /\ status = "up" /\ exitChan' = TRUE BY Zenon DEF Halt
  <2>2. /\ UNCHANGED <<status, crashes, bundle, unsent, reply, hpc, hmsg, hseq, hpolicy, henv>>
        /\ UNCHANGED <<mainPC, seq, timer, batches, configMsg, receiver, ticket, tickets>>
        /\ UNCHANGED <<lastBlock, lastConfigBlockNum, lastConfigSeq, committing, ledger, ledgerOpen>>
    BY Zenon DEF Halt, process, clients, handlers, main, writer, store, history
  <2>3. TypeOK' BY <2>1, <2>2, Zenon DEF IInv, TypeOK
  <2>4. HandlerInv' BY <2>1, <2>2, HandlersStill, Zenon
  <2>5. ChainInv' /\ WriterInv' /\ BatchInv' /\ ChainOrderInv' /\ HeldOrderInv' /\ BundleInv' /\ MainInv'
    BY Zenon, <2>1, <2>2
    DEF IInv, ChainInv, WriterInv, BatchInv, ChainOrderInv, HeldOrderInv, BundleInv, MainInv
  <2>6. PlaceInv' BY <2>1, <2>2, Zenon DEF IInv, PlaceInv, Held
  <2> QED BY <2>1, <2>2, <2>3, <2>4, <2>5, <2>6, Zenon DEF IInv, ConfigNeverPanics, AppendNeverPanics
\* A ledger is only removed after a Halt, and so not when the channel stays.
<1>RemoveLedgerInv. ASSUME IInv, RemoveLedger PROVE IInv'
  <2> USE <1>RemoveLedgerInv
  <2>1. status = "up" /\ ledgerOpen' = FALSE /\ exitChan BY Zenon DEF RemoveLedger
  <2>2. /\ UNCHANGED <<status, crashes, bundle, unsent, reply, hpc, hmsg, hseq, hpolicy, henv>>
        /\ UNCHANGED <<mainPC, seq, timer, batches, configMsg, exitChan, receiver, ticket, tickets>>
        /\ UNCHANGED <<lastBlock, lastConfigBlockNum, lastConfigSeq, committing, ledger>>
    BY Zenon DEF RemoveLedger, process, clients, handlers, main, writer, history
  <2>3. TypeOK' BY Zenon, <2>1, <2>2 DEF IInv, TypeOK
  <2>4. HandlerInv' BY <2>1, <2>2, HandlersStill, Zenon
  <2>5. ChainInv' /\ WriterInv' /\ BatchInv' /\ ChainOrderInv' /\ HeldOrderInv' /\ BundleInv' /\ MainInv'
    BY Zenon, <2>1, <2>2
    DEF IInv, ChainInv, WriterInv, BatchInv, ChainOrderInv, HeldOrderInv, BundleInv, MainInv
  <2>6. PlaceInv' BY <2>1, <2>2, Zenon DEF IInv, PlaceInv, Held
  <2>7. MayRemove BY <2>1, Zenon DEF IInv
  <2> QED BY <2>1, <2>2, <2>3, <2>4, <2>5, <2>6, <2>7, Zenon DEF IInv, ConfigNeverPanics, AppendNeverPanics
<1> QED BY <1>CrashAndRestartInv, <1>HaltInv, <1>RemoveLedgerInv, Zenon

--------------------------------------------------------------------------------
(* The invariant, and what follows from it *)

\* Every step of every goroutine, and a crash, preserves the inductive invariant.
LEMMA NextInv == ASSUME IInv, [Next]_vars PROVE IInv'
<1>1. ASSUME NEW h \in Handler, HandlerStep(h) PROVE IInv' BY <1>1, HandlerSteps, Zenon
<1>2. ASSUME NEW h \in Handler, Receive(h) \/ ReceiveRemoved(h) PROVE IInv' BY <1>2, ClientSteps, Zenon
<1>3. ASSUME NEW h \in Handler, MainReceive(h) PROVE IInv' BY <1>3, MainSteps, Zenon
<1>4. CASE MainLoop \/ MainTimer \/ MainExit BY <1>4, MainSteps, Zenon
<1>5. CASE WriteBlock \/ CommitStamp \/ CommitAppend \/ UpdateBundle \/ CommitConfigBlock BY <1>5, WriterSteps, Zenon
<1>6. CASE Halt \/ RemoveLedger \/ CrashAndRestart BY <1>6, ProcessSteps, Zenon
<1>7. CASE UNCHANGED vars
  <2>1. /\ UNCHANGED <<status, crashes, bundle, unsent, reply, hpc, hmsg, hseq, hpolicy, henv>>
        /\ UNCHANGED <<mainPC, seq, timer, batches, configMsg, exitChan, receiver>>
        /\ UNCHANGED <<lastBlock, lastConfigBlockNum, lastConfigSeq, committing>>
        /\ UNCHANGED <<ledger, ledgerOpen, ticket, tickets>>
    BY <1>7, Zenon DEF vars, process, clients, handlers, main, writer, store, history
  <2>2. TypeOK' /\ ChainOrderInv' /\ (ChainInv' <=> ChainInv) /\ (WriterInv' <=> WriterInv)
    <3>0. TypeOK /\ ChainOrderInv BY Zenon DEF IInv
    <3>1. TypeOK' BY <2>1, <3>0 DEF TypeOK
    <3>2. ChainOrderInv' BY <2>1, <3>0, Zenon DEF ChainOrderInv
    <3>3. ChainInv' <=> ChainInv BY Zenon, <2>1 DEF ChainInv
    <3>4. WriterInv' <=> WriterInv BY Zenon, <2>1 DEF WriterInv
    <3> QED BY <3>1, <3>2, <3>3, <3>4, Zenon
  <2>3. /\ BundleInv' <=> BundleInv
        /\ MainInv' <=> MainInv
        /\ BatchInv' <=> BatchInv
        /\ HeldOrderInv' <=> HeldOrderInv
    BY Zenon, <2>1 DEF BundleInv, MainInv, BatchInv, HeldOrderInv
  <2>4. PlaceInv' <=> PlaceInv BY Zenon, <2>1 DEF PlaceInv, Held
  <2>5. status = "up" => HandlerInv' BY <2>1, HandlersStill, Zenon
  <2> QED BY <2>1, <2>2, <2>3, <2>4, <2>5, Zenon DEF IInv, ConfigNeverPanics, AppendNeverPanics
<1> QED BY <1>1, <1>2, <1>3, <1>4, <1>5, <1>6, <1>7, Zenon DEF Next

\* In every state a node can reach, whatever the handlers, sizes and configurations, IInv
\* holds: what each goroutine relies on at each of its steps is really so.
THEOREM Invariance == Spec => []IInv
<1>1. Init => IInv BY InitInv, Zenon
<1>2. IInv /\ [Next]_vars => IInv' BY NextInv, Zenon
<1> QED BY <1>1, <1>2, PTL DEF Spec

\* The variables keep their types; in particular the configuration in force always has a
\* valid BatchSize.
THEOREM TypeCorrect == Spec => []TypeOK
<1>1. IInv => TypeOK BY Zenon DEF IInv
<1> QED BY <1>1, Invariance, PTL

\* WriteConfigBlock never panics on an envelope that the current configuration refuses:
\* main revalidates whatever was proposed against an older one.
THEOREM NoConfigPanic == Spec => []ConfigNeverPanics
<1>1. IInv => ConfigNeverPanics BY Zenon DEF IInv
<1> QED BY <1>1, Invariance, PTL

\* On a node that keeps its channel, commitBlock never panics: the asynchronous committer and
\* main together offer the ledger exactly the next block, with the hash of its last one.
THEOREM NoAppendPanic == ASSUME ~MayRemove PROVE Spec => []AppendNeverPanics
<1>1. IInv => AppendNeverPanics BY Zenon DEF IInv
<1> QED BY <1>1, Invariance, PTL

\* The batch timer runs exactly when there is something to cut.
THEOREM TimerTracksPending == Spec => []TimerRunsIffPending
<1>1. IInv => TimerRunsIffPending BY Zenon DEF IInv, MainInv, MainAt, TimerRunsIffPending
<1> QED BY <1>1, Invariance, PTL

\* Messages are in the chain in the order in which main took them from sendChan.
THEOREM ChainOrdered == Spec => []ChainIsInOrder
<1>1. ASSUME IInv PROVE ChainIsInOrder
  <2>1. ChainOrderInv BY <1>1, Zenon DEF IInv
  <2> QED BY <2>1, Zenon DEF ChainOrderInv, Run, Before, ChainIsInOrder
<1>2. IInv => ChainIsInOrder BY <1>1, Zenon
<1> QED BY <1>2, Invariance, PTL

\* What main has enqueued is neither lost nor duplicated by cutting, writing and committing.
THEOREM NothingLostOrDoubled == Spec => []EnqueuedIsHeldOrCommitted
<1>1. ASSUME IInv, status = "up", NEW m \in Message
      PROVE  /\ ticket[m] > 0 <=> (Held(m) \/ InChain(ledger, m))
             /\ ~(Held(m) /\ InChain(ledger, m))
  <2>1. HeldOrderInv /\ PlaceInv /\ ChainOrderInv /\ TypeOK BY <1>1, Zenon DEF IInv
  <2>2. ticket[m] \in Nat /\ tickets \in Nat BY <2>1, Zenon DEF TypeOK
  <2>3. InChain(ledger, m) => ticket[m] > 0
    <3> SUFFICES ASSUME InChain(ledger, m) PROVE ticket[m] > 0 OBVIOUS
    <3>1. PICK n \in DOMAIN ledger : Occurs(m, ledger[n].txs) BY Zenon DEF InChain
    <3>2. Run(ticket, tickets, ledger[n].txs) BY <2>1, Zenon DEF ChainOrderInv
    <3>3. ticket[m] \in 1 .. tickets BY <3>1, <3>2, Zenon DEF Occurs, Run
    <3> QED BY <2>2, <3>3
  <2>4. ASSUME NEW b, Occurs(m, b), Run(ticket, tickets, b), AfterChain(ticket, ledger, b)
        PROVE  ticket[m] > 0 /\ ~InChain(ledger, m)
    <3>1. ticket[m] > 0
      <4>1. ticket[m] \in 1 .. tickets BY <2>4, Zenon DEF Occurs, Run
      <4> QED BY <2>2, <4>1
    <3>2. InChain(ledger, m) => ticket[m] < ticket[m]
      BY <2>4, Zenon DEF Occurs, InChain, AfterChain, Before
    <3> QED BY <2>2, <3>1, <3>2
  <2>5. Held(m) => ticket[m] > 0 /\ ~InChain(ledger, m)
    BY <2>1, <2>4, Zenon DEF Held, HeldOrderInv
  <2> QED BY <2>1, <2>3, <2>5, Zenon DEF PlaceInv
<1>2. IInv => EnqueuedIsHeldOrCommitted BY <1>1, Zenon DEF EnqueuedIsHeldOrCommitted
<1> QED BY <1>2, Invariance, PTL

--------------------------------------------------------------------------------
(* The node keeps the promises of ChannelLedger *)

\* A normal block that the committer appends is one ChannelLedger allows.
LEMMA AppendsNormalBlock == ASSUME IInv, CommitAppend, ledger' # ledger PROVE CL!AppendBlock
<1>1. status = "up" /\ committing = "append" BY Zenon DEF CommitAppend
<1>2. ledger' = Append(ledger, lastBlock) BY CommitAppends, Zenon
<1>3. TypeOK /\ ChainInv /\ WriterInv /\ BatchInv /\ HeldOrderInv BY <1>1, Zenon DEF IInv
<1>4. ledger \in Seq(Block) /\ lastBlock \in Block BY <1>3, Zenon DEF TypeOK
<1>5. LastOf(ledger') = lastBlock BY <1>2, <1>4 DEF LastOf
<1>6. CL!Linked(lastBlock) BY <1>1, <1>3, Zenon DEF WriterInv, CL!Linked
<1>7. lastBlock.lastConfig = LastConfigNum(ledger) /\ ~IsConfigBlock(lastBlock)
  BY <1>1, <1>3, <1>4, LastConfigIs, Zenon DEF WriterInv, ChainInv, IsConfigBlock
<1>8. GoodBatch(ConfigOf(ledger), lastBlock.txs) BY <1>1, <1>3, Zenon DEF BatchInv
<1>9. Run(ticket, tickets, lastBlock.txs) /\ AfterChain(ticket, ledger, lastBlock.txs)
  BY <1>1, <1>3, Zenon DEF HeldOrderInv
<1>10. lastBlock.txs \in Seq(Message) /\ ticket \in [Message -> Nat]
  BY <1>3, <1>4, Zenon DEF Block, TypeOK
<1>11. ASSUME NEW i \in DOMAIN lastBlock.txs
       PROVE  /\ lastBlock.txs[i] \in Message /\ Filters(ConfigOf(ledger), lastBlock.txs[i])
              /\ ~InChain(ledger, lastBlock.txs[i])
              /\ \A j \in DOMAIN lastBlock.txs : lastBlock.txs[i] = lastBlock.txs[j] => i = j
  <2>1. lastBlock.txs[i] \in Message /\ Filters(ConfigOf(ledger), lastBlock.txs[i])
    BY <1>8, <1>10 DEF GoodBatch, Admitted
  <2>2. ticket[lastBlock.txs[i]] \in Nat BY <1>10, <2>1, Zenon
  <2>3. ~InChain(ledger, lastBlock.txs[i])
    <3> SUFFICES ASSUME InChain(ledger, lastBlock.txs[i]) PROVE FALSE OBVIOUS
    <3>1. PICK n \in DOMAIN ledger : Occurs(lastBlock.txs[i], ledger[n].txs) BY Zenon DEF InChain
    <3>2. PICK k \in DOMAIN ledger[n].txs : ledger[n].txs[k] = lastBlock.txs[i]
      BY <3>1, Zenon DEF Occurs
    <3>3. Before(ticket, ledger[n].txs, lastBlock.txs) BY <1>9, Zenon DEF AfterChain
    <3>4. ticket[ledger[n].txs[k]] < ticket[lastBlock.txs[i]] BY <3>3, Zenon DEF Before
    <3>5. ticket[ledger[n].txs[k]] = ticket[lastBlock.txs[i]] BY <3>2, Zenon
    <3> QED BY <2>2, <3>4, <3>5
  <2>4. ASSUME NEW j \in DOMAIN lastBlock.txs, lastBlock.txs[i] = lastBlock.txs[j] PROVE i = j
    <3>1. i \in Nat /\ j \in Nat BY <1>10
    <3>2. /\ i < j => ticket[lastBlock.txs[i]] < ticket[lastBlock.txs[j]]
          /\ j < i => ticket[lastBlock.txs[j]] < ticket[lastBlock.txs[i]]
      BY <1>9, Zenon DEF Run
    <3>3. ticket[lastBlock.txs[i]] = ticket[lastBlock.txs[j]] BY <2>4, Zenon
    <3>4. ~(i < j) /\ ~(j < i) BY <2>2, <3>2, <3>3
    <3> QED BY <3>1, <3>4
  <2> QED BY <2>1, <2>3, <2>4, Zenon
<1>12. CL!NormalBlock(lastBlock)
  BY <1>7, <1>8, <1>11, Zenon DEF GoodBatch, CL!NormalBlock
<1> QED BY <1>2, <1>5, <1>6, <1>12, Zenon DEF CL!AppendBlock

\* The config block that main appends is one ChannelLedger allows.
LEMMA AppendsConfigBlock ==
  ASSUME IInv, CommitConfigBlock, ledger' # ledger
  PROVE  CL!AppendBlock
<1> DEFINE b == [number |-> Len(ledger), previousHash |-> HeaderHash(LastOf(ledger)),
                 txs |-> <<>>, env |-> configMsg, lastConfig |-> Len(ledger)]
<1>1. status = "up" /\ mainPC = "commitConfig" BY Zenon DEF CommitConfigBlock, MainAt
<1>2. b \in Block /\ ledger' = Append(ledger, b) BY CommitsConfig, Zenon
<1>3. ledger \in Seq(Block) /\ MainInv BY <1>1, Zenon DEF IInv, TypeOK
<1>4. LastOf(ledger') = b
  <2> HIDE DEF b
  <2> QED BY <1>2, <1>3 DEF LastOf
<1>5. /\ configMsg # NoEnv /\ configMsg.lastUpdate \in Update
      /\ Validate(ConfigOf(ledger), configMsg)
      /\ ProcessConfigUpdateMsg(ConfigOf(ledger), configMsg.lastUpdate)
  BY <1>1, <1>3, Zenon DEF MainInv
<1>6. /\ b.number = Len(ledger) /\ b.previousHash = HeaderHash(LastOf(ledger))
      /\ b.txs = <<>> /\ b.env = configMsg /\ b.lastConfig = Len(ledger)
  OBVIOUS
<1> HIDE DEF b
<1>7. CL!Linked(b) BY Zenon, <1>6 DEF CL!Linked
<1>8. Validate(ConfigOf(ledger), b.env)
  BY <1>5, <1>6, Zenon
<1>9. ProcessConfigUpdateMsg(ConfigOf(ledger), b.env.lastUpdate)
  BY <1>5, <1>6, Zenon
<1>10. IsConfigBlock(b) BY Zenon, <1>5, <1>6 DEF IsConfigBlock
<1>11. CL!ConfigBlock(b) BY <1>5, <1>6, <1>8, <1>9, <1>10, Zenon DEF CL!ConfigBlock
<1> QED BY <1>2, <1>4, <1>7, <1>11, Zenon DEF CL!AppendBlock

\* Every step of the node, while it is up, is one that ChannelLedger allows, or leaves the
\* ledger alone.
LEMMA StepAppends ==
  ASSUME IInv, [Next]_vars, ledger' # ledger
  PROVE  CL!AppendBlock /\ status = "up"
<1>1. CASE CommitAppend
  <2>1. status = "up" BY <1>1, Zenon DEF CommitAppend
  <2> QED BY <1>1, <2>1, AppendsNormalBlock, Zenon
<1>2. CASE CommitConfigBlock
  <2>1. status = "up" BY <1>2, Zenon DEF CommitConfigBlock, MainAt
  <2> QED BY <1>2, <2>1, AppendsConfigBlock, Zenon
<1>3. CASE \E h \in Handler : Receive(h) \/ ReceiveRemoved(h) \/ HandlerStep(h) \/ MainReceive(h)
  <2>1. PICK h \in Handler : Receive(h) \/ ReceiveRemoved(h) \/ HandlerStep(h) \/ MainReceive(h) BY <1>3, Zenon
  <2>2. CASE Receive(h) \/ ReceiveRemoved(h) BY <2>2, Zenon DEF Receive, ReceiveRemoved, store
  <2>3. CASE HandlerStep(h)
    BY <2>3, Zenon DEF HandlerStep, CheckState, ReadSequence, ApplySizeFilter, SelectPolicy,
                EvaluatePolicy, Propose, ApplyMaintenanceFilter, OrderExiting, Check, store
  <2>4. CASE MainReceive(h)
    BY Zenon, <2>4 DEF MainReceive, MainOrder, MainConfigure, MainDiscard, store
  <2> QED BY <2>1, <2>2, <2>3, <2>4, Zenon
<1>4. CASE MainLoop \/ MainTimer \/ MainExit
  BY <1>4, Zenon DEF MainLoop, MainTimer, MainExit, store
<1>5. CASE WriteBlock \/ CommitStamp \/ UpdateBundle
  BY <1>5, Zenon DEF WriteBlock, CommitStamp, UpdateBundle, store
<1>6. CASE Halt \/ RemoveLedger \/ CrashAndRestart
  BY <1>6, Zenon DEF Halt, RemoveLedger, CrashAndRestart, store
<1>7. CASE UNCHANGED vars BY <1>7, Zenon DEF vars, store
<1> QED BY <1>1, <1>2, <1>3, <1>4, <1>5, <1>6, <1>7, Zenon DEF Next

\* The node implements ChannelLedger: handlers, main, the asynchronous committer, removal of
\* the channel and crashes together only ever extend the chain by a block that abstract
\* specification allows.
THEOREM Implements == Spec => KeepsLedgerPromises
<1>1. Init => CL!Init BY Zenon DEF Init, CL!Init
<1>2. IInv /\ [Next]_vars => [CL!AppendBlock]_ledger BY StepAppends, Zenon
<1> QED BY <1>1, <1>2, Invariance, PTL DEF Spec, KeepsLedgerPromises, CL!Spec

\* A config block that its predecessors authorize obeys the rules of the maintenance filter.
LEMMA StagedUpdate ==
  ASSUME NEW c \in Config, NEW env, env.lastUpdate \in Update,
         Validate(c, env), ProcessConfigUpdateMsg(c, env.lastUpdate)
  PROVE  IF env.config.consensusType.state = c.consensusType.state
         THEN \/ env.config.consensusType.type = c.consensusType.type
              \/ c.consensusType.state = "MAINTENANCE"
         ELSE /\ env.config.consensusType.type = c.consensusType.type
              /\ env.config.consensusType.metadata = c.consensusType.metadata
              /\ env.config.batchSize = c.batchSize
<1> DEFINE u == env.lastUpdate
           next == computeUpdateResult(c, u)
<1>1. env.config = next BY Zenon DEF Validate
<1>2. MaintenanceFilter(c, [config |-> next, lastUpdate |-> u])
  BY Zenon DEF ProcessConfigUpdateMsg, ProposeConfigUpdate
<1>3. /\ next.consensusType.state # c.consensusType.state =>
           /\ ensureConsensusTypeChangeOnly(u)
           /\ next.consensusType.type = c.consensusType.type
           /\ next.consensusType.metadata = c.consensusType.metadata
      /\ next.consensusType.type # c.consensusType.type => c.consensusType.state # "NORMAL"
  BY <1>2, Zenon DEF MaintenanceFilter
<1>4. ensureConsensusTypeChangeOnly(u) => next.batchSize = c.batchSize
  BY Zenon DEF ensureConsensusTypeChangeOnly, computeUpdateResult, computeDeltaSet
<1>5. c.consensusType.state \in {"NORMAL", "MAINTENANCE"} BY Zenon DEF Config, ConsensusTypes
<1> HIDE DEF next
<1> QED BY <1>1, <1>3, <1>4, <1>5, Zenon

\* The chain before block n is the same after a block has been appended.
LEMMA PrefixOfAppend ==
  ASSUME NEW chain \in Seq(Block), NEW b \in Block, NEW n \in 2 .. Len(chain) + 1
  PROVE  SubSeq(Append(chain, b), 1, n - 1) = SubSeq(chain, 1, n - 1)
         /\ SubSeq(chain, 1, Len(chain)) = chain
<1>1. SubSeq(Append(chain, b), 1, n - 1) = SubSeq(chain, 1, n - 1)
  <2>1. \A i \in 1 .. n - 1 : Append(chain, b)[i] = chain[i] OBVIOUS
  <2> QED BY <2>1
<1>2. SubSeq(chain, 1, Len(chain)) = chain OBVIOUS
<1> QED BY <1>1, <1>2, Zenon

\* The consenter type changes in maintenance mode only, and the mode changes on its own: the
\* maintenance filter ran in a handler, and main appends its result only under the
\* configuration it was checked against.
THEOREM StagedMigration == Spec => []MigrationIsStaged
<1>1. Init => MigrationIsStaged
  <2>1. Init => Len(ledger) = 1 BY DEF Init
  <2>2. Len(ledger) = 1 => \A n : n \notin 2 .. Len(ledger) OBVIOUS
  <2> QED BY Zenon, <2>1, <2>2 DEF MigrationIsStaged
<1>2. ASSUME IInv, IInv', MigrationIsStaged, [Next]_vars PROVE MigrationIsStaged'
  <2>1. CASE ledger' = ledger BY <1>2, <2>1, Zenon DEF MigrationIsStaged
  <2>2. CASE ledger' # ledger
    <3> DEFINE b == LastOf(ledger')
               Staged(old, new) ==
                 IF new.consensusType.state = old.consensusType.state
                 THEN \/ new.consensusType.type = old.consensusType.type
                      \/ old.consensusType.state = "MAINTENANCE"
                 ELSE /\ new.consensusType.type = old.consensusType.type
                      /\ new.consensusType.metadata = old.consensusType.metadata
                      /\ new.batchSize = old.batchSize
    <3>1. CL!AppendBlock /\ status = "up" BY <1>2, <2>2, StepAppends, Zenon
    <3>2. ledger' = Append(ledger, b) /\ (CL!NormalBlock(b) \/ CL!ConfigBlock(b))
      BY <3>1, Zenon DEF CL!AppendBlock
    <3>3. ledger \in Seq(Block) /\ ledger' \in Seq(Block) /\ ledger' # <<>> BY <1>2, Zenon DEF IInv, TypeOK
    <3>4. b \in Block BY <3>3 DEF LastOf
    <3>5. ConfigOf(ledger) \in Config BY <1>2, <3>1, <3>3, ConfigOfIs, Zenon DEF IInv, ChainInv
    <3> HIDE DEF b
    <3>6. Len(ledger') = Len(ledger) + 1 /\ ledger'[Len(ledger) + 1] = b /\ Len(ledger) \in Nat
          /\ \A n \in 1 .. Len(ledger) : ledger'[n] = ledger[n]
      BY <3>2, <3>3, <3>4
    <3>7. ASSUME NEW n \in 2 .. Len(ledger'), IsConfigBlock(ledger'[n])
          PROVE  Staged(ConfigOf(SubSeq(ledger', 1, n - 1)), ledger'[n].env.config)
      <4>1. SubSeq(ledger', 1, n - 1) = SubSeq(ledger, 1, n - 1) /\ SubSeq(ledger, 1, Len(ledger)) = ledger
        BY <3>2, <3>3, <3>4, <3>6, PrefixOfAppend
      <4>2. CASE n \in 2 .. Len(ledger)
        <5>1. ledger'[n] = ledger[n] BY <3>6, <4>2
        <5>2. IsConfigBlock(ledger[n]) BY <3>7, <5>1, Zenon
        <5>3. Staged(ConfigOf(SubSeq(ledger, 1, n - 1)), ledger[n].env.config)
          BY Zenon, <1>2, <4>2, <5>2 DEF MigrationIsStaged
        <5> QED BY Zenon, <4>1, <5>1, <5>3
      <4>3. CASE n = Len(ledger) + 1
        <5>1. CL!ConfigBlock(b) BY <3>2, <3>6, <3>7, <4>3, Zenon DEF CL!NormalBlock
        <5>2. /\ b.env.lastUpdate \in Update /\ Validate(ConfigOf(ledger), b.env)
              /\ ProcessConfigUpdateMsg(ConfigOf(ledger), b.env.lastUpdate)
          BY <5>1, Zenon DEF CL!ConfigBlock
        <5>3. Staged(ConfigOf(ledger), b.env.config) BY <3>5, <5>2, StagedUpdate, Zenon
        <5>4. SubSeq(ledger', 1, n - 1) = ledger /\ ledger'[n] = b BY <3>6, <4>1, <4>3
        <5> QED BY <5>3, <5>4, Zenon
      <4>4. n \in 2 .. Len(ledger) \/ n = Len(ledger) + 1 BY <3>6
      <4> QED BY Zenon, <4>2, <4>3, <4>4
    <3> QED BY <3>7, Zenon DEF MigrationIsStaged
  <2> QED BY <2>1, <2>2, Zenon
<1>3. IInv /\ IInv' /\ MigrationIsStaged /\ [Next]_vars => MigrationIsStaged' BY <1>2, Zenon
<1> QED BY <1>1, <1>3, Invariance, PTL DEF Spec
================================================================================
