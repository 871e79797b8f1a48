# A TLA+ model of the ordering path and the peer's ledger

This directory specifies the ordering service of this repository, a Hyperledger Fabric whose
orderer runs the `nopaxos` consenter behind a UDP sequencer, and the storage under it and under
the peer. The modules follow a transaction from its simulation and the gateway's `Submit` to a
block on the orderer's disk and, on a peer, to the state database. TLC checks them on small
instances, and TLAPS proves the central safety properties for all instances.

## The system and its parts

```
gateway Submit --UDP :7072--> sequencer --UDP :7073--> orderer UDP server --+
                                                                            |  handlers
clients ---------------- gRPC Broadcast ------------------------------------+
                                                                            v
   filters, config proposals (msgprocessor, configtx)  --sendChan-->  nopaxos chain.main
                                                                            |
             block cutter + batch timer --> BlockWriter --> goroutine --> file ledger
                                                                            |
   registrar: join, follower, role switches, removal                        v  Deliver
                                                          block store, iterators
                                                                            |
   peer: validation --> private data store --> block store --> state DB --> history DB
         snapshots, rollback and reset, reconciliation of private data
```

| part | source | module |
|---|---|---|
| nopaxos consenter | `orderer/consensus/nopaxos/chain.go` | `NoPaxosChain` |
| block cutter | `orderer/common/blockcutter` | `BlockCutter` |
| block writer | `orderer/common/multichannel/blockwriter.go` | `NoPaxosChain` |
| processors and filters | `orderer/common/msgprocessor` | `MsgProcessor`, steps in `NoPaxosChain` |
| config transactions, bundle | `common/configtx`, `common/channelconfig` | `ChannelConfig` |
| Broadcast and UDP handlers | `orderer/common/broadcast`, `orderer/common/server/udpServer.go` | `NoPaxosChain` |
| gateway, sequencer, UDP server | `internal/pkg/gateway/submit.go`, `sequencer/sequencer.go`, `udpServer.go` | `UdpPath` |
| what a channel's ledger promises | `orderer/consensus/consensus.go` | `ChannelLedger` |
| registrar, follower, ledger factory, join blocks | `orderer/common/multichannel`, `orderer/common/follower`, `fileledger/factory.go`, `orderer/common/filerepo` | `Registrar` |
| block store | `common/ledger/blkstorage` | `BlockFiles`, `BlockStore`, `BlockStoreRollback`; promise in `DurableLog` |
| block iterators | `blkstorage/blocks_itr.go`, `fileledger/impl.go` | `BlocksItr` |
| commit and recovery of a peer's ledger, private data | `core/ledger/kvledger`, `core/ledger/pvtdatastorage`, `gossip/privdata/reconcile.go` | `KVLedger` |
| simulation and validation of transactions | `core/ledger/kvledger/txmgmt` | `MVCC`, `RangeQuery` |
| snapshots of a ledger | `core/ledger/kvledger/snapshot*.go` | `SnapshotMgr` |

`PROJECT.json` has the full list of parts, the source lines behind each definition, the hazards
of the code and the properties aimed at them.

## Modules

The orderer:

- `Envelopes`: messages, by size and signer. An element of `Message` is one submission; the same
  bytes sent again are another element, as the chain does not deduplicate.
- `BlockCutter`: `Ordered` and `Cut` as operators on a receiver. Sums wrap at `UintMod` (2^32 in
  the code).
- `ChannelConfig`: the configuration as four versioned elements and the checks of a config
  update. `policiesSatisfied` is the outcome of the signature checks.
- `MsgProcessor`: each filter, evaluated against one configuration.
- `Blocks`: blocks and chains. `HeaderHash` keeps what a hash tells apart: number and data.
- `ChannelLedger`: the abstract specification. The chain grows by one block at a time; each block
  is linked, has the right LAST_CONFIG, and holds messages that the configuration in force at
  that point admits (none of them twice), or one config update that it authorizes. What a
  configuration admits and authorizes is a parameter of it; the node instantiates it with the
  filters and checks above.
- `NoPaxosChain`: the node. Handlers, `main` and the goroutine of `WriteBlock` interleave. Every
  read of the shared configuration by a handler is a step: the maintenance check, `Sequence`, the
  size filter, the two reads of the signature filter, the proposal, the same filters on the
  signed CONFIG envelope, the maintenance filter. `main` reads `seq`, then receives, revalidates
  what is outdated, cuts, and writes. `WriteBlock` takes the `committingBlock` lock and leaves
  the LAST_CONFIG stamp and the append to the committer. `WriteConfigBlock` is two steps, with
  the new bundle visible in between. A panic is a value of `status`. The process may crash in any
  state; only the ledger survives. `RemoveChannel` closes `exitChan`, and the ledger is removed
  by a later step. `Workloads` is what clients may submit; one of them is chosen at the start.
- `NoPaxosChainInv`: the inductive invariant.
- `UdpPath`: gateway, sequencer and UDP server, with bounded loss and duplication, free reordering
  and bounded sockets. The two stamp bytes are written as zero and acted on by nobody, so they
  only add to the size; `m.size` stands for the marshalled bytes. A datagram longer than the
  receive buffer is cut off and does not parse (in the boundary case, a cut between its two
  fields, it is an envelope without a signature, which the orderer rejects).
- `Registrar`: one channel in the registrar. The calls of the participation API, the goroutine of
  the follower (onboarding up to the join block, following, detecting membership, switching) and
  the one that removes the ledger share the registrar's lock and the disk: ledger, join block and
  removal mark. Steps of the calls, of the removal and of the follower may fail: a pull is
  retried, any other error ends the follower's goroutine (`gor = "failed"`); where the code panics
  on an error, that is a crash. A crash leaves the disk only.

Block storage:

- `BlockFiles`: the files of a channel, and what can be read off them: where blocks begin and end,
  the last complete block, the `blockfilesInfo` they amount to.
- `BlockStore`: files, `blockfilesInfo` and index, which `addBlock` writes one after the other,
  and what `newBlockfileMgr` does with what it finds. A crash takes what was not synced;
  any write may fail, and the caller panics or tries again (`CallerRetries`).
- `BlockStoreRollback`: adds the offline commands, with a crash or a start of the peer between
  any two of their steps.
- `DurableLog`: what the store promises. Only what was not acknowledged may be lost.
- `BlocksItr`: adds one reader that waits, takes blocks from the cache or from files, and may be
  closed at any time.

The peer:

- `KVLedger`: a block goes to private data store, block store, state database and history
  database, in steps of its own; opening a ledger recommits what was lost; the reconciler is a
  second actor that brings old private data in. The databases may be dropped while the peer is
  down, and the ledger rolled back, which may be cut off between dropping one database and the next.
- `MVCC`: simulation at any height, then validation of one transaction after the other against
  database and update batch, and the commit of the batch. `view`, which is not in the code, is
  the state after executing the valid transactions one by one; it is what the properties compare
  with. A simulation is one step, as it holds `commitRWLock`.
- `RangeQuery`: the recording of a range query, raw or in a Merkle tree built on the fly, and its
  validation result by result. A hash is the sequence that was hashed.
- `SnapshotMgr`: the event loop that makes the committer wait, the generation of a snapshot in
  steps, requests and their database, failures and restarts.

`MC*` modules are the instances for TLC, `*Proofs` have theorems and their lemmas. Operators
marked "Variant" or "Mutant" are faulty forms of the definition that follows them; replacing the
definition by its variant must break the property listed for it in `PROJECT.json`.

## Runs

| run | checks |
|---|---|
| `ordering` | two handlers, all kinds of messages and updates, a crash: the node implements `ChannelLedger`; no panic; timer, order, loss and duplication of messages; the consenter type changes only in maintenance mode |
| `progress` | with removal of the channel: the inductive invariant, and under fairness commitment of every message and return of every handler |
| `udp_path` | conservation of datagrams and progress of the path |
| `registrar` | one role at a time, no consenter before onboarding, a join survives crashes, removal returns, a member gets its consenter |
| `block_store` | after crashes, failures and commands that are cut off the store opens, finds what was acknowledged, keeps on record how high it was, and implements `DurableLog` |
| `iterator` | a reader sees each block once and in order, keeps up, and wakes on `Close` |
| `kv_ledger` | flags and commit hashes are those of every other peer; no store loses or contradicts what the blocks say; all stores catch up |
| `snapshots` | a snapshot shows one height; a waiting commit is resumed; a request is served |
| `mvcc` | the outcome of validation is that of a serial execution, and no scan is refused for keys it did not reach |
| `range_query` | the verdict on a range query is that of comparing all results |
| `maintenance_race`, `remove_race` | violated: see Differences |

### Bounds

- `ordering`, `progress`: two handlers, one of them a UDP loop, suffice for one to hold something
  validated under a configuration that the other one is replacing. Messages of sizes 1, 2 and 4
  against `PreferredMaxBytes = 3` and `MaxMessageCount = 2` give every way to cut a batch.
  `UintMod = 16` exceeds any sum of these sizes, so that wrap-around does not happen in the runs
  (the proofs allow it).
- `block_store`, `iterator`: four blocks of two sizes in files of 6 units give files with one and
  with several blocks, and a roll-over in both. Two crashes let recovery itself be cut off, and
  one failure meets every write. Two commands let one meet the height that another has recorded.
  `BatchLimit = 2` makes a rollback of the index take several
  batches; the cache holds less than the chain, so that readers meet evicted blocks.
- `registrar`: a network of three blocks with and without this orderer in the configuration, two
  joins, one removal, two crashes and two failing steps: a second join or start meets all that the
  first one left behind. `JoinSurvives` and `JoinBecomesMember` allow one failure (see Differences).
- `kv_ledger`: two blocks on one private key, where a reconciled write can be older than the current
  one; one crash and one rollback.
- `snapshots`: three blocks, two crashes, two failing snapshots or deletions of a request.
- `mvcc`: three transactions out of nine programs, in two blocks of up to two, on three keys of
  which any may exist. Two blocks distinguish conflicts with the database from those with the
  batch; three keys leave one on each side of where a scan stops.
- `range_query`: up to 30 results and a degree of 2 (50 in the peer) give a tree of three levels,
  with every size of the last nodes.

Deadlock checking is off: once the bounded inputs are used up the systems are idle.

### Fairness

- `progress`: weak fairness of each goroutine: a handler that can go on does, a sender waiting on
  `sendChan` is eventually received, a running timer fires, the committer finishes. Go's scheduler,
  its FIFO queue of senders and its random choice in `select` justify this. No fairness is assumed
  of clients, `Halt`, crashes or restarts.
- `udp_path`: datagrams that are not lost arrive, and both loops read on; that the orderer's
  handlers return is what `HandlersReturn` checks.
- `registrar`: weak fairness of each goroutine, and of the process to start again. Strong fairness
  where a step competes for a lock or an endpoint again and again: the follower's switch (`TryLock`
  in a retry loop), the removal goroutine (Go's mutex does not starve a waiter), and a pull from
  an orderer that is reachable now and then.
- `iterator`: the reader runs; nothing is assumed of the writer. `kv_ledger`, `snapshots`: the
  committer and a started reconciliation, snapshot or recovery go on, and for `snapshots` the peer
  is started again.

## Differences

Where the code does something other than its comments, tests or documentation say. The first two
are runs that TLC reports as violated:

- `maintenance_race`: `ProcessNormalMsg` checks the maintenance state (standardchannel.go:105)
  before it reads `Sequence` (:111). A switch to maintenance mode in between goes unnoticed, and
  the message is committed in maintenance mode, which docs/source/raft_bft_migration.md:95 rules
  out.
- `remove_race`: `RemoveChannel` closes the block store while a block may be on its way to it. The
  write fails, the truncation that is to take it back fails as well, and `addBlock`
  (blockfile_mgr.go:326) panics, before its error could reach the `Panicf` of `commitBlock`
  (blockwriter.go:201). The whole process ends.

The others have a property in their module that no run lists. To see the counterexample, check
that property alone with the cfg named, changed as said.

| cfg | property and change | what happens |
|---|---|---|
| `ordering` | `RestartFindsConsenter` | after a migration to BFT no registered consenter has that type, and the orderer panics when it starts; docs/source/raft_bft_migration.md:128 expects it to restart |
| `ordering` | `ModeChangeStandsAlone`, with an update that enters maintenance mode and also changes `Writers` | `ensureConsensusTypeChangeOnly` looks at no policies, against maintenancefilter.go:105 and :166 |
| `udp_path` | `SubmittedIsReceived` as PROPERTY, `MaxLost = 0` | `Submit` reports success after a UDP write; an envelope larger than the 10240 byte buffers never arrives, against submit.go:31-33 |
| `registrar` | `RemovedIsGone` | `RemoveChannel` returns before the ledger is marked for removal; after a crash the channel is back, though restapi.go:107-108 says "Successfully removed channel." |
| `registrar` | `FailedJoinIsCleanedUp` | cleaning up after a failed join can fail itself, and is only logged; registrar_test.go:803: "After join failure, check that everything has been cleaned up" |
| `registrar` | `FailedRemovalCanBeRetried` | a removal that failed can leave a channel that cannot be removed again; registrar_test.go:1211: "app channel removal previously failed" |
| `registrar` | `JoinSurvives` without `count.failures <= 1` | with two failures a removal mark outlives the removal, and the next start deletes the ledger of a channel joined since |
| `kv_ledger` | `ReconciledDataIsReadable` | data that is reconciled between the commits to block store and state database is in neither the update batch nor the state; missing_pvtdata_tracker.go:26-29 means to rule that out |
| `iterator` | `NextBlocksUntilAvailable` | an iterator opened on an empty store fails instead; fileledger/impl.go:46: "Next blocks until there is a new block available, or until Close is called." |
| `iterator` | `ReadsTheChain`, `Failing = {"saveInfo"}` | the deferred `cache.put` (blockfile_mgr.go:331) also runs when `saveBlkfilesInfo` fails, so that a later reader gets a block that is not in the chain |
| `block_store` | `RetrievesWhatWasAdded`, `CallerRetries = TRUE` | when indexing fails the file keeps the block, and the retry of follower_chain.go:481 appends it once more |
| `block_store` | `OpenSucceeds`, `FirstBlock = 2` | a store made from a snapshot does not open after a crash in its first block; blockfile_mgr.go:84 promises to sync |
| `block_store` | `RollbackSucceeds`, `MaxFileSize = 4`, `CacheBytes = 4` | a rollback fails when the newest file is empty |
| `block_store` | `NeverFails` | a crash right after a new file is created leaves it empty while the file before is appended to, and a crash in that append leaves a torn block there; a rollback then fails on the empty file after it has deleted `blockfilesInfo`, so the next start takes the empty file for the one to truncate, and `syncIndex` fails on the torn block; blockfile_mgr.go:86 means to "remove any excess past last block" |
| `snapshots` | `RequestIsServed` without `peerCrashes > 0` | a crash can take a request that was accepted; snapshot_mgmt.go:62-63 |
| `snapshots` | `RequestIsServed` without `deleteFailures > 0` | when a request that was served cannot be deleted, or the next one cannot be read, the cached smallest request stays at a block that has passed, or becomes 0, and later requests are not served; snapshot_mgmt.go:62-63, although the log of :150 says so |
| `mvcc` | `MergeNeverPanics` | a metadata write to a key deleted earlier in the block finds the delete marker, and `PutValAndMetadata` panics on the nil value; tx_ops.go:40 expects a no-op |
| `range_query` | `ValidateNeverPanics` | if the summary has exactly `maxDegree` hashes and the re-execution fills one more leaf, its level rises and `MaxLevelHashes[lastMatchedIndex]` is out of range; rangequery_validator.go:97 promises `false` |

Seen in passing: blockwriter.go:87-89 says config blocks are written asynchronously, but
`WriteBlockSync` is used. `pullAfterJoin` wraps `err`, which is nil, where `IsChannelMember` has
returned `errMem` (follower_chain.go:434), so that a follower that cannot tell whether it is a member
becomes a consenter; `IsChannelMember` of nopaxos is always true and never fails. The comment at
follower_chain.go:90-91 has a follower "active" when it pulls blocks "equal or above the join-block
number"; the code, and create_channel_participation.md:335, keep it "onboarding" until the join block
is in the ledger, which is what `OnboardedBeforeActive` says.

## Proofs

All of these are for every value of the constants (handlers, messages, updates, sizes, crashes;
keys, programs, blocks; chains, calls, failures; sizes of blocks and files, batches), from the
assumptions named in the modules (types of the constants, a valid genesis configuration).

| module | theorem | states |
|---|---|---|
| `NoPaxosChainProofs` | `Invariance` | `Spec => []IInv` |
| | `TypeCorrect` | `Spec => []TypeOK` |
| | `NoConfigPanic` | `Spec => []ConfigNeverPanics` |
| | `NoAppendPanic` | `Spec => []AppendNeverPanics`, if the channel is not removed |
| | `TimerTracksPending` | `Spec => []TimerRunsIffPending` |
| | `ChainOrdered` | `Spec => []ChainIsInOrder` |
| | `NothingLostOrDoubled` | `Spec => []EnqueuedIsHeldOrCommitted` |
| | `Implements` | `Spec => KeepsLedgerPromises`, the refinement of `ChannelLedger` |
| | `StagedMigration` | `Spec => []MigrationIsStaged` |
| `TransactionProofs` | `SerialState` | `Spec => []StateIsSerial`, of `MVCC` |
| | `SerialReads` | `Spec => ReadsAreSerial` |
| | `RealPhantoms` | `Spec => PhantomsAreReal` |
| | `ConservedCopies` | `USpec => []CopiesAreConserved`, of `UdpPath` |
| `RegistrarProofs` | `SingleRole` | `Spec => []OneRole` |
| | `OnboardingFirst` | `Spec => []OnboardedBeforeActive` |
| | `SurvivingJoin` | `Spec => []JoinSurvives` |
| `KVLedgerProofs` | `DeterministicChain` | `Spec => []ChainIsDeterministic` |
| | `MatchingDatabases` | `Spec => []DatabasesMatchChain` |
| | `CoveredBlocks` | `Spec => []PvtStoreCoversBlocks` |
| | `MatchingPvtData` | `Spec => []PvtMatchesHash` |
| | `ReadablePvtData` | `Spec => []CommittedDataIsReadable` |
| | `ConsistentSnapshots` | `SSpec => []SnapshotIsConsistent`, of `SnapshotMgr` |
| `BlockStoreRollbackProofs` | `OpeningStore` | `Scope /\ Spec => []NeverFails`, of `BlockStore` |
| | `RollbackInvariance` | `Scope /\ RSpec => []RInv` |
| | `OpenedStore` | `Scope /\ RSpec => []OpenSucceeds` |
| | `RetrievedBlocks` | `Scope /\ RSpec => []RetrievesWhatWasAdded` |
| | `IdleStore` | `Scope /\ RSpec => []IdleIsInSync` |
| | `KeptBlocks` | `Scope /\ RSpec => []KeepsUpToTarget` |
| | `RecordedHeight` | `Scope /\ RSpec => HeightStaysRecorded` |
| | `DurableStore` | `Scope /\ RSpec => IsDurableLog`, the refinement of `DurableLog` |
| `BlocksItrProofs` | `ReadChain` | `ReadScope /\ ISpec => []ReadsTheChain`, of `BlocksItr` |
| | `FailingReader` | `ReadScope /\ ISpec => []FailsOnlyWhenEmpty` |

`Spec` of `BlockStore` is the store alone, `RSpec` of `BlockStoreRollback` adds the offline
commands, `ISpec` of `BlocksItr` adds a reader to the store. `Scope` says that the store starts at
block 0 and that a caller who retries meets no failing index, `ReadScope` also that
`blockfilesInfo` can be saved; for the other values of these constants properties are false (see
Differences).

`BlockFilesProofs` and `BlockStoreProofs` have only lemmas: on files as one sequence of blocks, and
on the actions of the store. Two conventions of the proofs: a lemma that needs induction over the
natural numbers, or facts about cardinalities, has them as a hypothesis (`Induction`, `Counting`), which is proved from
the library before the theorems, so that the library's own definitions are not in the way of the
lemmas; and a leaf that Zenon can prove says so, as the SMT translation of such leaves costs far
more than their proof.

### The ordering node

The safety properties are not inductive: that a block fits depends on what was checked several
steps before, by another goroutine. `IInv` records what each goroutine may rely on:

- `HandlerInv`: as long as the sequence a handler read is still the current one, all it has
  checked since holds of the configuration in force (`Knows`). A new configuration has a higher
  sequence, so stale knowledge is recognised by `main`.
- `BundleInv`: the configuration in force is that of the chain, except between `Update` and the
  append of the config block; then the committer is idle.
- `WriterInv`: `lastBlock` is the last block of the chain, or the next one while the lock is held,
  and the LAST_CONFIG bookkeeping is that of the chain.
- `BatchInv`: whatever waits to be written is admitted by the configuration of the chain, because
  a config message first flushes the pending batch.
- `ChainOrderInv`, `HeldOrderInv`, `PlaceInv`: order and place of messages, by the ticket each is
  given when `main` takes it.

`NoPaxosChainProofs` has lemmas on appending to a chain and on what `Ordered` and `Cut` return, and
for each action, of handlers, block writer, clients and `main`, of restart and of removal, one that
it preserves `IInv`.

The refinement follows from `IInv`: a step that changes the ledger appends a block that
`ChannelLedger` allows (`StepAppends`). `StagedMigration` rests on the same lemma: a config block
was admitted by the filters under the configuration of the chain before it, so what the
maintenance filter demands (`StagedUpdate`) holds between neighbouring configurations.

### Validation

That a valid transaction reads what a serial execution gives it compares what was seen in a
simulation, some blocks ago, with the state now, while the code compares versions only. The
invariant of `TransactionProofs` therefore says that a version names what it was given to:

- `DbInv`: versions in the database are of blocks up to the height;
- `UpdatesInv`: those in the update batch are of the block being validated;
- `TxInv`: what a simulation saw is of blocks up to the height, and if the key still has the
  version seen, it still has the entry seen.

With these an unchanged version means an unchanged entry (`SameVersion`), a write of the block is
told from anything seen (`BatchIsNew`), and merging the writes of a valid transaction into the
batch is its execution on `view` (`MergeIsExecution`), which gives `StateIsSerial`; reads and scans
then follow (`ValidSeesTheSame`). For `RealPhantoms` the keys that the validation looks at are
those up to where the scan stopped (`SameRange`), as an iterator stands at a key of its range.

### Registrar

Three invariants, each using those before it:

- `IInv`: whoever is between two changes of the maps holds the lock, and the step it is at
  determines what the maps hold (`LockInv`, `CallInv`, `GoroutineInv`, `RolesInv`). `OneRole`
  follows.
- `OInv`: the join block stays in its file, or in the fields of the follower, until the ledger
  has it (`JoiningInv`, `OnboardingInv`), and a late commit of a halted chain only meets a channel
  that is being removed (`RemovalInv`).
- `SInv`: the disk has what a start needs to take the channel up again (`DiskInv`); a closed ledger,
  a join block without a role, or a chain that was not started is left only by a failure
  (`LeftBehind`), and a mark for removal only by a removal or by two failures, of a join and of
  its clean-up (`MarkInv`). The bound of one failure in `JoinSurvives` comes from there.

### Snapshots

A snapshot is begun between two commits only, at the height of the block store, and a commit that
comes meanwhile waits for its end (`StatusInv`, `GenInv`). So all the exports see one height.

### The UDP path

The sum of `CopiesAreConserved` is inductive with the types of the counters and queues. What takes
lemmas is the multiplicity of a message in a socket's queue, the cardinality of a set of positions:
one more after an append, and one less after the head is read, by a bijection of the positions
that are left.

### A peer's ledger

Flags, commit hash and databases are all compared with `Meaning`, what the ordered chain alone
determines. The first n entries of `Meaning` depend on the first n blocks only, by induction, so
that ordering another block disturbs nothing. `IInv` of `KVLedgerProofs` then says:

- `HeightInv`, `StepInv`: which block each store is at in each step of a commit, of opening and of
  a rollback, and that the flags and the commit hash in memory are those of the block being
  committed;
- `AheadInv`: what `isPvtstoreAheadOfBlkstore` tells when it is read;
- `ReadableInv`, `HaveInv`: private data that came with its block is in the state, or in memory
  until it is;
- `BatchInv`: what the reconciler is about to write is what the hashed state has, as the lock keeps
  that state from changing in between.

### The block store

The files are compared with one thing, the sequence `Stored` of the complete blocks in them. The
invariant says of everything else where in this sequence it points:

- `FilesInv`, `AckedInv`: the blocks are numbered without a gap, only the newest file may be empty,
  and the acknowledged blocks come first;
- `IsSound`, of the database that is read and of the one that a crash leaves: the index holds the
  first blocks, each at its place, and `blockfilesInfo` ends behind one of the blocks, in the file
  that is appended to (`Covers`). No file behind that one is torn;
- `OpeningInv`, `ServingInv`, `AddInv`: what each step of `newBlockfileMgr` and of `addBlock` has
  established. Here the attempt to prove showed two facts that the order of the writes rests on: a
  file is left only when it holds a block, and until `blockfilesInfo` is saved no database covers
  the new block, so that a failing write can be taken back;
- `RollbackInv`: a command deletes from the index, and then `blockfilesInfo`, before it touches a
  file, and it keeps what it is to keep. While it removes blocks, the recorded height is no less
  than that of the files. `HeightStaysRecorded` is about two commands, one of which may have been cut
  off: the second one records its own height only if that is greater.

Under these, each action appends a block, acknowledges, cuts off blocks that are not acknowledged,
or takes acknowledgements back (`LogStep`), which are the steps of `DurableLog`.

Places and offsets are recursive functions over blocks and files (`Ends`, `UpTo`). That they exist,
grow, and agree where files agree is proved by induction, with a set of numbers in the place of
the predicate (`Induction`). The binary search of a rollback is a recursive function on intervals;
it exists by induction over their length (`SearchExists`), and what it finds holds the target
(`SearchIs`). `SyncIndexFailsIs` shows that `syncIndex` fails on a torn block in an inner file only,
and `OpeningStore` that without a rollback there never is one (`TornInv`): a torn block is in the
file that both databases name, and opening truncates that.

The reader is proved with `JInv`, which adds to that what lies between the two goroutines:

- `CacheInv`: the cache holds blocks of the chain under their numbers. A block is put there when
  its bytes are in the files, also when indexing it then fails (`PutMirrors`).
- `PublishedInv`: the number that readers are told is that of an indexed block.
- `ReaderInv`: what the reader got is the chain from where it started, and a stream that it keeps
  is just behind that (`StreamAt`). While it is in `Next`, its block is one it was told of.

`Grows` is what a reader needs of the writer: no step of `addBlock`, a failed one that truncates the
file included, changes a block that is stored or the place of a stream (`RunningGrows`).
`StreamIs` and `StreamHas` show that a stream goes on to the next block, over the end of a file
too; `InitStreamIs` that one opened through the index begins at the right block.

### Only model-checked

Liveness, which is out of the prover's reach: `EnqueuedIsCommitted`, `HandlersReturn`,
`PathIsDrained`, `ReaderCatchesUp`, `CloseWakesReader`, `RemoveReturns`, `JoinBecomesMember`,
`CatchesUp`, `CommitResumes`, `RequestIsServed`. `VerdictIsExact`, which needs an
induction over the levels of the Merkle tree, has no proof.

## Limits

One channel and one node. Signatures, MSPs and capabilities are abstracted to outcomes; the
expiration and empty-message rules, metrics and logging are left out. `NoPaxosChain` appends a
block in one step; the steps of an append, with crashes between them, are those of `BlockStore`,
and the two are not composed. `WriteConfigBlock` also panics if no bundle can be made of the new
configuration (blockwriter.go:125-128); the proposal has made the same bundle, so this is left out. The
path through `UdpPath` ends where a handler of `NoPaxosChain` begins. A crash loses what clients were told SUCCESS for but is not in a block: the code promises
no more, and no property says otherwise. `MVCC` has one namespace and no private data: hashed
collections are validated by the same version checks. In `KVLedger` the validity of a
transaction is decided by one read.

## Not modelled

- Other consenters (`etcdraft`, `smartbft`) and the cluster communication they use: this orderer's
  chain is the nopaxos one, and the protocols themselves are in libraries outside the tree.
- The eBPF program that may take the place of the sequencer: only a binary is in the tree.
- Several orderers behind one sequencer: nothing in the code compares or acts on the stamps, so
  there is no protocol between orderers to model.
- Deliver, to clients and between organizations: streaming and access control on top of the
  iterators, which are modelled.
- The gateway's BFT submission, endorsement and evaluation: fan-out to other nodes and comparison
  of their answers, with network errors mapped to statuses.
- Gossip other than the reconciler: membership and dissemination over many peers, whose
  interesting instances are out of TLC's reach.
- Chaincode execution and lifecycle, and the endorsement policies evaluated in validation: their
  outcomes are inputs here.
- MSPs, cryptography, policies: outcomes here. CouchDB and LevelDB: a batch is atomic and durable
  when the code asks for it.
- Command line tools, configuration files, metrics, operations endpoints, integration helpers.
