--------------------------------- MODULE MVCC ---------------------------------
(***************************************************************************)
(* Validation of the transactions of a block against the state database.   *)
(* A transaction is simulated at some height, which records the versions   *)
(* of what it reads, and validated when its block is committed, against    *)
(* the database and the writes of the valid transactions before it in the  *)
(* block.  A simulation holds commitRWLock, so that it is one step.        *)
(*                                                                         *)
(* Keys are those of one namespace: numbers, in the order of a range scan, *)
(* where 0 is the empty string.  What a transaction writes is its number.  *)
(***************************************************************************)
EXTENDS Integers, Sequences, FiniteSets

CONSTANTS
  Keys,        \* keys of the state database
  Programs,    \* what the simulated chaincodes read, scan and write
  MaxTx, MaxBlocks, BlockSize,
  MaxScans     \* bound on the iterators that a simulation opens

Nil == -1
NoVersion == <<-1, -1>>

Versions == Int \X Int
Entry == [val : Int, meta : Int, ver : Versions]

\* No key: a nil *VersionedValue.
Absent == [val |-> Nil, meta |-> Nil, ver |-> NoVersion]

\* A change of a key in a write set, of its value and of its metadata.
Op == [val : {"none", "put", "delete"}, meta : {"none", "put", "delete"}]

ASSUME MVCCAssumption ==
  /\ Keys \subseteq Nat \ {0}
  /\ \A p \in Programs : /\ p.reads \subseteq Keys
                         /\ p.ranges \subseteq (Nat \ {0}) \X Nat
                         /\ p.writes \in UNION {[D -> Op] : D \in SUBSET Keys}
  /\ MaxTx \in Nat /\ MaxBlocks \in Nat /\ BlockSize \in Nat /\ MaxScans \in Nat

VARIABLES
  db,       \* the state database
  height,   \* number of the last block in it
  made,     \* number of transactions simulated so far
  pool,     \* transactions on their way to the orderer and back
  block,    \* transactions of the block being validated
  flags,    \* verdicts on the first of them
  updates,  \* the update batch
  panicked,
  view      \* value and metadata of each key after the valid transactions so far,
            \* one after the other

vars == <<db, height, made, pool, block, flags, updates, panicked, view>>

NoUpdates == [k \in Keys |-> Absent]

Init ==
  /\ \E S \in SUBSET Keys : db = [k \in Keys |-> IF k \in S THEN [val |-> 0, meta |-> Nil, ver |-> <<0, 0>>]
                                                         ELSE Absent]
  /\ height = 0 /\ made = 0 /\ pool = {} /\ block = <<>> /\ flags = <<>>
  /\ updates = NoUpdates /\ panicked = FALSE
  /\ view = [k \in Keys |-> [val |-> db[k].val, meta |-> db[k].meta]]

-----------------------------------------------------------------------------
(* Simulation *)

Present == {k \in Keys : db[k].val # Nil}

Entries(S) == [k \in S |-> db[k]]

Between(start, end) == {k \in Keys : start <= k /\ (end = 0 \/ k < end)}

\* What can become of an iterator over a range: it is never advanced, left at a
\* key it has returned, or used up.  Next sets the end key as it goes.
Scans(start, end) ==
  LET found == Present \cap Between(start, end)
  IN  {[start |-> start, endKey |-> 0, exhausted |-> FALSE, results |-> Entries({})],
       [start |-> start, endKey |-> end, exhausted |-> TRUE, results |-> Entries(found)]}
      \cup {[start |-> start, endKey |-> last, exhausted |-> FALSE,
             results |-> Entries({k \in found : k <= last})] : last \in found}

\* NewTxSimulator to GetTxSimulationResults; the values read are what the
\* chaincode has seen, and only the versions are in the read set.
Simulate(p) ==
  /\ made < MaxTx
  /\ made' = made + 1
  /\ \E Q \in SUBSET UNION {Scans(r[1], r[2]) : r \in p.ranges} :
       /\ Cardinality(Q) <= MaxScans
       /\ pool' = pool \cup {[id |-> made', reads |-> Entries(p.reads), scans |-> Q, writes |-> p.writes]}
  /\ UNCHANGED <<db, height, block, flags, updates, panicked, view>>

-----------------------------------------------------------------------------
(* Validation *)

Idle == block = <<>>

StartBlock ==
  /\ Idle /\ height < MaxBlocks /\ ~panicked
  /\ \E n \in 1 .. BlockSize : \E txs \in [1 .. n -> pool] :
       /\ \A i, j \in 1 .. n : txs[i] = txs[j] => i = j
       /\ block' = txs
       /\ pool' = pool \ {txs[i] : i \in 1 .. n}
  /\ UNCHANGED <<db, height, made, flags, updates, panicked, view>>

\* The batch has the key, be it deleted.
Exists(k) == updates[k].ver # NoVersion

Latest(k) == IF Exists(k) THEN updates[k] ELSE db[k]

\* Mutant: earlier transactions of the block are not looked at.
validateKVReadCommitted(k, read) == db[k].ver = read.ver

validateKVRead(k, read) == ~Exists(k) /\ db[k].ver = read.ver

\* Mutant: the end key is always served.
KeyRangeWithEnd(q) == Between(q.start, q.endKey) \cup {k \in Keys : k = q.endKey}

KeyRange(q) == Between(q.start, q.endKey) \cup {k \in Keys : ~q.exhausted /\ k = q.endKey}

\* The iterators over database and batch, merged; deleted keys are skipped.
combinedIterator(q) == [k \in {j \in KeyRange(q) : Latest(j).val # Nil} |-> Latest(k).ver]

validateRangeQuery(q) == combinedIterator(q) = [k \in DOMAIN q.results |-> q.results[k].ver]

validateTx(tx) ==
  IF \E k \in DOMAIN tx.reads : ~validateKVRead(k, tx.reads[k]) THEN "MVCC_READ_CONFLICT"
  ELSE IF \E q \in tx.scans : ~validateRangeQuery(q) THEN "PHANTOM_READ_CONFLICT"
  ELSE "VALID"

Metadata(op, id, old) == IF op.meta = "none" THEN old ELSE IF op.meta = "put" THEN id ELSE Nil

\* Mutant: metadata set before in the same block is forgotten.
mergeWriteCommitted(k, op, id, ver) ==
  IF op.val = "delete" THEN [val |-> Nil, meta |-> Nil, ver |-> ver]
  ELSE IF op.val = "put" THEN [val |-> id, meta |-> Metadata(op, id, db[k].meta), ver |-> ver]
  ELSE IF op.meta # "none" /\ (Exists(k) \/ db[k].val # Nil)
  THEN [val |-> Latest(k).val, meta |-> Metadata(op, id, Nil), ver |-> ver]
  ELSE updates[k]

\* prepareTxOps and applyWriteSet for one key.  A write of the value keeps the
\* metadata, and one of the metadata the value; the latter does nothing if there is
\* no entry for the key, where a deletion earlier in the block is one.
mergeWrite(k, op, id, ver) ==
  IF op.val = "delete" THEN [val |-> Nil, meta |-> Nil, ver |-> ver]
  ELSE IF op.val = "put" THEN [val |-> id, meta |-> Metadata(op, id, Latest(k).meta), ver |-> ver]
  ELSE IF op.meta # "none" /\ (Exists(k) \/ db[k].val # Nil)
  THEN [val |-> Latest(k).val, meta |-> Metadata(op, id, Nil), ver |-> ver]
  ELSE updates[k]

\* PutValAndMetadata: "Nil value not allowed."
PutPanics(tx) ==
  \E k \in DOMAIN tx.writes :
    tx.writes[k].val = "none" /\ tx.writes[k].meta # "none" /\ Exists(k) /\ updates[k].val = Nil

\* The same on values alone: what a transaction means.
Execute(v, tx) ==
  [k \in Keys |->
    IF k \notin DOMAIN tx.writes THEN v[k]
    ELSE LET op == tx.writes[k]
         IN  IF op.val = "delete" THEN [val |-> Nil, meta |-> Nil]
             ELSE IF op.val = "put" THEN [val |-> tx.id, meta |-> Metadata(op, tx.id, v[k].meta)]
             ELSE IF v[k].val # Nil THEN [val |-> v[k].val, meta |-> Metadata(op, tx.id, v[k].meta)]
             ELSE v[k]]

ValidateTx ==
  /\ Len(flags) < Len(block) /\ ~panicked
  /\ LET tx == block[Len(flags) + 1]
         verdict == validateTx(tx)
         ver == <<height + 1, Len(flags)>>
     IN  IF verdict = "VALID" /\ PutPanics(tx)
         THEN panicked' = TRUE /\ UNCHANGED <<flags, updates, view>>
         ELSE /\ flags' = Append(flags, verdict)
              /\ updates' = IF verdict = "VALID"
                            THEN [k \in Keys |-> IF k \in DOMAIN tx.writes
                                                 THEN mergeWrite(k, tx.writes[k], tx.id, ver) ELSE updates[k]]
                            ELSE updates
              /\ view' = IF verdict = "VALID" THEN Execute(view, tx) ELSE view
              /\ UNCHANGED panicked
  /\ UNCHANGED <<db, height, made, pool, block>>

\* Commit of the batch: ApplyUpdates.
Commit ==
  /\ ~Idle /\ Len(flags) = Len(block) /\ ~panicked
  /\ db' = [k \in Keys |-> IF ~Exists(k) THEN db[k] ELSE IF updates[k].val = Nil THEN Absent ELSE updates[k]]
  /\ height' = height + 1
  /\ block' = <<>> /\ flags' = <<>> /\ updates' = NoUpdates
  /\ UNCHANGED <<made, pool, panicked, view>>

Next == (\E p \in Programs : Simulate(p)) \/ StartBlock \/ ValidateTx \/ Commit

Spec == Init /\ [][Next]_vars

-----------------------------------------------------------------------------
(* Properties *)

\* What a transaction has seen: the value and metadata of each key it read, and,
\* of each range it scanned, the keys up to where it stopped.
SeenBy(tx, v) ==
  /\ \A k \in DOMAIN tx.reads : v[k].val = tx.reads[k].val /\ v[k].meta = tx.reads[k].meta
  /\ \A q \in tx.scans :
       \A k \in KeyRange(q) :
         /\ v[k].val # Nil <=> k \in DOMAIN q.results
         /\ k \in DOMAIN q.results => v[k].val = q.results[k].val

\* Serializability: whenever validateAndPrepareBatch finds a transaction valid, it
\* would see the same if it were executed now, after the valid transactions before
\* it, in this block and in all earlier ones; phantoms in its ranges included.
ReadsAreSerial ==
  [][\A i \in DOMAIN flags' \ DOMAIN flags : flags'[i] = "VALID" => SeenBy(block[i], view)]_vars

\* The database with the update batch is what the valid transactions lead to, one
\* executed after the other: applyWriteSet merges value and metadata writes of one
\* block as if they had come one by one, and Commit leaves nothing else.
StateIsSerial == \A k \in Keys : view[k] = [val |-> Latest(k).val, meta |-> Latest(k).meta]

\* What an iterator over the whole range of a query would now return up to the last
\* key that was looked at.
Rescan(q) == [k \in {j \in Between(q.start, IF q.exhausted THEN q.endKey ELSE 0) :
                       /\ Latest(j).val # Nil
                       /\ q.exhausted \/ j <= q.endKey} |-> Latest(k).ver]

\* A transaction is turned down for a phantom only if one of its scans would now
\* return other keys or versions, or has left an iterator unused: cutting a range at
\* the last key seen invalidates nothing that lies behind it.
PhantomsAreReal ==
  [][\A i \in DOMAIN flags' \ DOMAIN flags : flags'[i] = "PHANTOM_READ_CONFLICT" =>
       \E q \in block[i].scans :
         \/ Rescan(q) # [k \in DOMAIN q.results |-> q.results[k].ver]
         \/ ~q.exhausted /\ q.endKey = 0]_vars

\* tx_ops.go: "If the key does not exist in the last state, make this key as noop in
\* current transaction"
MergeNeverPanics == ~panicked
===============================================================================
