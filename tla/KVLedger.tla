------------------------------- MODULE KVLedger -------------------------------
(***************************************************************************)
(* The ledger of a channel on a peer: a block is committed to the private  *)
(* data store, the block store, the state database and the history         *)
(* database, in that order and not atomically.  A crash leaves the stores  *)
(* at different heights, and opening the ledger recommits lost blocks.     *)
(* Meanwhile the reconciler brings private data that was missing when its  *)
(* block was committed into the state and the private data store.          *)
(*                                                                         *)
(* Block n carries one transaction, ordered[n], which writes one private   *)
(* key and may have read a version of it.  A version is a block number.    *)
(* The genesis block, which has no private data, is left out.              *)
(***************************************************************************)
EXTENDS Naturals, Sequences, FiniteSetsExt

CONSTANTS
  Keys, Values,
  Deleted, Absent, NoRead, None,
  MaxBlocks, MaxCrashes, MaxRollbacks

ASSUME KVLedgerAssumption ==
  /\ Deleted \notin Values /\ NoRead \notin Nat
  /\ MaxBlocks \in Nat /\ MaxCrashes \in Nat /\ MaxRollbacks \in Nat
  /\ Absent # None
  /\ {Absent, None} \cap [ver : 1 .. MaxBlocks, val : Values] = {}

VARIABLES
  ordered,       \* transactions of the channel, as the ordering service fixed them
  pvtStore,      \* private data store: block number -> "have", "missing", "reconciled"
  blocks,        \* block store: block number -> validation flag and commit hash
  hashState,     \* state database: hashes of private keys
  pvtState,      \* state database: private keys
  stateHeight,   \* blocks in the state database
  history,       \* history database: blocks whose writes it has
  historyHeight,
  ahead,         \* isPvtstoreAheadOfBlkstore
  commitHash,    \* hash of the last commit, in memory: the flags it covers
  pc,            \* step of the commit in progress, "recovering", "refused" or "down"
  cur,           \* block being committed, with the batch prepared for it
  recon,         \* step of the reconciler, with its data and update batch
  crashes, rollbacks

stores == <<pvtStore, blocks>>
state == <<hashState, pvtState, stateHeight>>
hist == <<history, historyHeight>>
memory == <<ahead, commitHash, pc, cur>>
count == <<crashes, rollbacks>>
vars == <<ordered, stores, state, hist, memory, recon, count>>

Height == Len(blocks)
Tx(n) == [key : Keys, val : Values \cup {Deleted}, read : {NoRead} \cup 0 .. n - 1]
Missing == {n \in DOMAIN pvtStore : pvtStore[n] = "missing"}
Running == pc \notin {"down", "recovering", "refused"}
Idle == [step |-> "idle", asked |-> {}, data |-> {}, batch |-> <<>>]
NoBatch == [flag |-> FALSE, have |-> FALSE, pvtHeight |-> 0]

----------------------------------------------------------------------------
(* The rules of validation and update, for states that map keys to entries *)

VersionOf(entry) == IF entry = Absent THEN 0 ELSE entry.ver

\* MVCC: a transaction is valid if the version it read is the committed one.
Validate(tx, hashes) == tx.read = NoRead \/ tx.read = VersionOf(hashes[tx.key])

Written(tx, n) == IF tx.val = Deleted THEN Absent ELSE [ver |-> n, val |-> tx.val]

Write(entries, tx, n) == [entries EXCEPT ![tx.key] = Written(tx, n)]

\* What a chain means: flags and hashed state, before its first block and after
\* each of its blocks.
AtGenesis == [flags |-> <<>>, hashes |-> [k \in Keys |-> Absent]]

After(old, tx, n) ==
  LET valid == Validate(tx, old.hashes)
  IN [flags |-> Append(old.flags, valid),
      hashes |-> IF valid THEN Write(old.hashes, tx, n) ELSE old.hashes]

MeaningOf(chain) ==
  LET after[n \in 0 .. MaxBlocks] == IF n = 0 THEN AtGenesis ELSE After(after[n - 1], chain[n], n)
  IN after

\* The chain ordered so far.
Meaning == MeaningOf(ordered)

----------------------------------------------------------------------------
Init ==
  /\ ordered = <<>>
  /\ pvtStore = <<>>
  /\ blocks = <<>>
  /\ hashState = [k \in Keys |-> Absent]
  /\ pvtState = [k \in Keys |-> Absent]
  /\ stateHeight = 0
  /\ history = {}
  /\ historyHeight = 0
  /\ ahead = FALSE
  /\ commitHash = <<>>
  /\ pc = "idle"
  /\ cur = NoBatch
  /\ recon = Idle
  /\ crashes = 0
  /\ rollbacks = 0

\* The ordering service orders one more transaction.
Order ==
  /\ Len(ordered) < MaxBlocks
  /\ \E tx \in Tx(Len(ordered) + 1) : ordered' = Append(ordered, tx)
  /\ UNCHANGED <<stores, state, hist, memory, recon, count>>

----------------------------------------------------------------------------
(* Committing the next block *)

\* Mutant: the lock is not taken.
OldBlockCommitIgnored == TRUE

\* The lock oldBlockCommit is free, as far as the reconciler is concerned.
OldBlockCommitFree == recon.step # "found"

\* Whether private data of block n is at hand: it comes from the private data
\* store if that has the block already, else from the transient store or peers.
PvtDataOf(n) == IF n <= Len(pvtStore) THEN {pvtStore[n] # "missing"} ELSE BOOLEAN

\* The commit hash covers all flags from block 1 on.
AddBlockCommitHash(n, flag) ==
  IF n = 1 \/ commitHash # <<>> THEN Append(commitHash, flag) ELSE commitHash

\* The commit hash in memory moves on before anything is stored.
ValidateAndPrepare ==
  LET n == Height + 1 IN
  /\ pc = "idle"
  /\ n <= Len(ordered)
  /\ OldBlockCommitFree
  /\ \E have \in PvtDataOf(n) :
       cur' = [flag |-> Validate(ordered[n], hashState), have |-> have, pvtHeight |-> Len(pvtStore)]
  /\ commitHash' = AddBlockCommitHash(n, cur'.flag)
  /\ pc' = "prepared"
  /\ UNCHANGED <<ordered, stores, state, hist, ahead, recon, count>>

\* The store takes the next block only.
CommitPvtData ==
  /\ pc = "prepared"
  /\ ahead \/ Len(pvtStore) = Height
  /\ pvtStore' = IF ahead THEN pvtStore
                 ELSE Append(pvtStore, IF cur.have THEN "have" ELSE "missing")
  /\ pc' = "pvtdata"
  /\ UNCHANGED <<ordered, blocks, state, hist, ahead, commitHash, cur, recon, count>>

\* Mutant: the flag is not reset when the block store has caught up.
AddBlockStayingAhead ==
  /\ pc = "pvtdata"
  /\ blocks' = Append(blocks, [flag |-> cur.flag, hash |-> commitHash])
  /\ pc' = "stored"
  /\ UNCHANGED <<ordered, pvtStore, state, hist, ahead, commitHash, cur, recon, count>>

AddBlock ==
  /\ pc = "pvtdata"
  /\ blocks' = Append(blocks, [flag |-> cur.flag, hash |-> commitHash])
  /\ ahead' = (ahead /\ cur.pvtHeight # Height + 1)
  /\ pc' = "stored"
  /\ UNCHANGED <<ordered, pvtStore, state, hist, commitHash, cur, recon, count>>

\* The update batch of block n, applied to the state database at once.
ApplyUpdates(n, flag, have) ==
  /\ hashState' = IF flag THEN Write(hashState, ordered[n], n) ELSE hashState
  /\ pvtState' = IF flag /\ have THEN Write(pvtState, ordered[n], n) ELSE pvtState
  /\ stateHeight' = n

CommitState ==
  /\ pc = "stored"
  /\ OldBlockCommitFree
  /\ ApplyUpdates(Height, cur.flag, cur.have)
  /\ pc' = "stated"
  /\ UNCHANGED <<ordered, stores, hist, ahead, commitHash, cur, recon, count>>

HistoryCommit(n) ==
  /\ history' = IF blocks[n].flag THEN history \cup {n} ELSE history
  /\ historyHeight' = n

CommitHistory ==
  /\ pc = "stated"
  /\ HistoryCommit(Height)
  /\ pc' = "idle"
  /\ cur' = NoBatch
  /\ UNCHANGED <<ordered, stores, state, ahead, commitHash, recon, count>>

----------------------------------------------------------------------------
(* The reconciler, with data of old blocks that other peers send *)

GetMissingPvtData ==
  /\ Running
  /\ recon.step = "idle"
  /\ ~ahead
  /\ \E ask \in SUBSET Missing \ {{}} : recon' = [Idle EXCEPT !.step = "asked", !.asked = ask]
  /\ UNCHANGED <<ordered, stores, state, hist, memory, count>>

\* Blocks whose transaction is valid.
OfValidTx(fetched) == {n \in fetched : blocks[n].flag}

\* Of the fetched blocks, the newest with a valid write to k.
Newest(fetched, k) ==
  LET writes == {n \in OfValidTx(fetched) : ordered[n].key = k}
  IN IF writes = {} THEN 0 ELSE Max(writes)

\* Mutant: a write takes the committed version whatever its value.
CurrentLoose(k, n) ==
  IF n = 0 THEN None
  ELSE IF hashState[k] = Absent THEN IF ordered[n].val = Deleted THEN Absent ELSE None
  ELSE Written(ordered[n], hashState[k].ver)

\* The entry a private write of block n becomes, or Absent for a delete; None if
\* the write is stale.  A write of the committed value takes its version.
Current(k, n) ==
  LET committed == hashState[k]
      val == ordered[n].val
  IN IF n = 0 THEN None
     ELSE IF committed = Absent THEN IF val = Deleted THEN Absent ELSE None
     ELSE IF committed.ver = n \/ committed.val = val THEN Written(ordered[n], committed.ver)
     ELSE None

\* The answer is matched with the blocks, and under the lock oldBlockCommit with
\* the hashes in the state.  Without the block in the block store this fails.
FindStalePvtData ==
  /\ recon.step = "asked"
  /\ \E fetched \in SUBSET recon.asked :
       IF fetched = {} \/ Max(fetched) > Height
         THEN recon' = Idle
         ELSE recon' = [recon EXCEPT !.step = "found", !.data = fetched,
                                     !.batch = [k \in Keys |-> Current(k, Newest(fetched, k))]]
  /\ UNCHANGED <<ordered, stores, state, hist, memory, count>>

ApplyOldPvtData ==
  /\ recon.step = "found"
  /\ pvtState' = [k \in Keys |-> IF recon.batch[k] = None THEN pvtState[k] ELSE recon.batch[k]]
  /\ recon' = [recon EXCEPT !.step = "applied"]
  /\ UNCHANGED <<ordered, stores, hashState, stateHeight, hist, memory, count>>

CommitPvtDataOfOldBlocks ==
  /\ recon.step = "applied"
  /\ pvtStore' = [n \in DOMAIN pvtStore |-> IF n \in recon.data THEN "reconciled" ELSE pvtStore[n]]
  /\ recon' = Idle
  /\ UNCHANGED <<ordered, blocks, state, hist, memory, count>>

----------------------------------------------------------------------------
(* Crashes, rollbacks by the administrator, and opening the ledger *)

\* A commit that fails panics as well.
Crash ==
  /\ pc # "down"
  /\ crashes < MaxCrashes
  /\ crashes' = crashes + 1
  /\ pc' = "down"
  /\ cur' = NoBatch
  /\ recon' = Idle
  /\ UNCHANGED <<ordered, stores, state, hist, ahead, commitHash, rollbacks>>

DropState ==
  /\ hashState' = [k \in Keys |-> Absent]
  /\ pvtState' = [k \in Keys |-> Absent]
  /\ stateHeight' = 0

DropHistory == history' = {} /\ historyHeight' = 0

\* RollbackKVLedger and ResetAllKVLedgers drop the state database, unless it is in
\* CouchDB, then the history database, and cut the block store; an interrupted
\* one, like RebuildDBs, does not get to cut it, and it may not get beyond the
\* state database.  The private data store is kept.
RollbackKVLedger ==
  /\ pc = "down"
  /\ rollbacks < MaxRollbacks
  /\ rollbacks' = rollbacks + 1
  /\ \/ /\ DropState \/ UNCHANGED state
        /\ DropHistory
        /\ \E n \in 0 .. Height : blocks' = SubSeq(blocks, 1, n)
     \/ /\ DropState
        /\ UNCHANGED <<hist, blocks>>
  /\ UNCHANGED <<ordered, pvtStore, memory, recon, crashes>>

\* Mutant: the commit hash starts anew.
NoPersistedCommitHash == <<>>

LastPersistedCommitHash == IF blocks = <<>> THEN <<>> ELSE blocks[Height].hash

\* Mutant: one block ahead does not count.
IsPvtDataStoreWellAhead == Len(pvtStore) > Height + 1

IsPvtDataStoreAheadOfBlockStore == Len(pvtStore) > Height

\* Mutant: a state database ahead of the block store is accepted.
HistoryAhead == historyHeight > Height

\* The blocks a database was rolled back from are in it still.
DatabaseAhead == Max({stateHeight, historyHeight}) > Height

\* newKVLedger, up to the recovery of the databases.
Open ==
  /\ pc = "down"
  /\ commitHash' = LastPersistedCommitHash
  /\ ahead' = IsPvtDataStoreAheadOfBlockStore
  /\ pc' = IF DatabaseAhead THEN "refused" ELSE "recovering"
  /\ UNCHANGED <<ordered, stores, state, hist, cur, recon, count>>

\* The administrator drops the database that is ahead, as the error says.
DropDatabase ==
  /\ pc = "refused"
  /\ DropState
  /\ pc' = "down"
  /\ UNCHANGED <<ordered, stores, hist, ahead, commitHash, cur, recon, count>>

\* Lost blocks are recommitted to the database that lags behind first, then to
\* both; their flags are those in the block store.
RecommitState ==
  LET n == stateHeight + 1 IN
  /\ pc = "recovering"
  /\ n <= Height
  /\ stateHeight <= historyHeight
  /\ ApplyUpdates(n, blocks[n].flag, pvtStore[n] # "missing")
  /\ UNCHANGED <<ordered, stores, hist, memory, recon, count>>

RecommitHistory ==
  /\ pc = "recovering"
  /\ historyHeight < Height
  /\ historyHeight <= stateHeight
  /\ HistoryCommit(historyHeight + 1)
  /\ UNCHANGED <<ordered, stores, state, memory, recon, count>>

Recovered ==
  /\ pc = "recovering"
  /\ stateHeight >= Height
  /\ historyHeight >= Height
  /\ pc' = "idle"
  /\ UNCHANGED <<ordered, stores, state, hist, ahead, commitHash, cur, recon, count>>

----------------------------------------------------------------------------
Commit == ValidateAndPrepare \/ CommitPvtData \/ AddBlock \/ CommitState \/ CommitHistory
Reconcile == GetMissingPvtData \/ FindStalePvtData \/ ApplyOldPvtData \/ CommitPvtDataOfOldBlocks
Recover == Open \/ DropDatabase \/ RecommitState \/ RecommitHistory \/ Recovered

Next == Order \/ Commit \/ Reconcile \/ Recover \/ Crash \/ RollbackKVLedger

Spec == Init /\ [][Next]_vars

\* The committer and the opening of the ledger keep going, and so does a
\* reconciliation once it holds the lock.
FairSpec ==
  /\ Spec
  /\ WF_vars(Commit) /\ WF_vars(Recover)
  /\ WF_vars(ApplyOldPvtData) /\ WF_vars(CommitPvtDataOfOldBlocks)

----------------------------------------------------------------------------
\* Whatever crashes, rollbacks and reconciliations a peer goes through, block n
\* gets the validation flags and the commit hash that every other peer gives it.
ChainIsDeterministic ==
  \A n \in DOMAIN blocks : blocks[n] = [flag |-> Meaning[n].flags[n], hash |-> Meaning[n].flags]

\* The state database holds the writes of the valid transactions of its first
\* stateHeight blocks, and the history database those of its own.  While the
\* ledger serves blocks neither is ahead of the block store, nor more than the
\* block being committed behind it.
DatabasesMatchChain ==
  /\ hashState = Meaning[stateHeight].hashes
  /\ history = {n \in 1 .. historyHeight : Meaning[n].flags[n]}
  /\ Running => /\ historyHeight <= stateHeight /\ stateHeight <= Height
                /\ pc = "idle" => historyHeight = Height

\* The private data store has every block of the block store; it is more than
\* the block being committed ahead only while the flag says so, after a rollback.
PvtStoreCoversBlocks ==
  /\ Len(pvtStore) >= Height
  /\ Running /\ ~ahead => Len(pvtStore) <= Height + (IF pc = "pvtdata" THEN 1 ELSE 0)

\* A private value never contradicts the hash of the same version, whatever the
\* order in which blocks and data of old blocks are written.
PvtMatchesHash ==
  \A k \in Keys :
    /\ pvtState[k] # Absent => pvtState[k].ver <= stateHeight
    /\ (pvtState[k] # Absent /\ hashState[k] # Absent /\ pvtState[k].ver = hashState[k].ver)
         => pvtState[k] = hashState[k]

\* The state has the private data of block n, with its current version.
Readable(status) ==
  pc = "idle" =>
    \A k \in Keys : (hashState[k] # Absent /\ hashState[k].ver <= Len(pvtStore)
                      /\ pvtStore[hashState[k].ver] = status) => pvtState[k] = hashState[k]

\* Private data that came with its block can be read while it is current: not
\* lost in a recovery, nor overwritten by older data from the reconciler.
CommittedDataIsReadable == Readable("have")

\* missing_pvtdata_tracker.go withholds missing data of blocks the state database
\* does not have, as "we would end up in an inconsistent state database": data
\* that has been reconciled is in the state database as well.
ReconciledDataIsReadable == Readable("reconciled")

\* The peer catches up with the ordering service in all its stores, however its
\* commits, crashes, rollbacks and reconciliations interleave.
CatchesUp == []<>(pc = "idle" /\ historyHeight = Len(ordered))
===============================================================================
