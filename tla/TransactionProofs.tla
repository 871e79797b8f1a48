-------------------------- MODULE TransactionProofs ---------------------------
(***************************************************************************)
(* What a transaction can rely on, from submission to commit, for any      *)
(* keys, programs, messages and bounds.                                    *)
(*                                                                         *)
(* Validation: a version names a block, so that an entry with the version  *)
(* a simulation has seen is the entry it has seen, and none of the writes  *)
(* in the update batch, which carry the number of the block being          *)
(* validated.  So what is found valid is serializable.                     *)
(*                                                                         *)
(* The UDP path: every copy of an envelope is in one place, or dropped;    *)
(* each step moves a copy from one summand to another.                     *)
(***************************************************************************)
EXTENDS MVCC, UdpPath, TLAPS

Partial(S) == UNION {[D -> S] : D \in SUBSET Keys}

\* An iterator that was left stands at a key of its range.
Scan == {q \in [start : Nat, endKey : Nat, exhausted : BOOLEAN, results : Partial(Entry)] :
           q.exhausted \/ q.endKey = 0 \/ q.start <= q.endKey}

Tx == [id : Nat, reads : Partial(Entry), scans : SUBSET Scan, writes : Partial(Op)]

Verdicts == {"VALID", "MVCC_READ_CONFLICT", "PHANTOM_READ_CONFLICT"}

TypeOK ==
  /\ db \in [Keys -> Entry] /\ updates \in [Keys -> Entry]
  /\ view \in [Keys -> [val : Int, meta : Int]]
  /\ height \in Nat /\ made \in Nat /\ panicked \in BOOLEAN
  /\ pool \in SUBSET Tx /\ block \in Seq(Tx) /\ flags \in Seq(Verdicts)

\* An entry of this height or an earlier one.
Old(e) == e = Absent \/ (e.val # Nil /\ 0 <= e.ver[1] /\ e.ver[1] <= height)

\* An entry that a simulation has seen under a key.
Seen(k, e) == Old(e) /\ (e.ver = db[k].ver => e = db[k])

SeenTx(tx) ==
  /\ \A k \in DOMAIN tx.reads : Seen(k, tx.reads[k])
  /\ \A q \in tx.scans : \A k \in DOMAIN q.results : Seen(k, q.results[k])

DbInv == \A k \in Keys : Old(db[k])

UpdatesInv ==
  \A k \in Keys : \/ updates[k] = Absent
                  \/ updates[k].ver[1] = height + 1 /\ (updates[k].val = Nil => updates[k].meta = Nil)

TxInv == (\A tx \in pool : SeenTx(tx)) /\ (\A i \in 1 .. Len(block) : SeenTx(block[i]))

IInv == TypeOK /\ DbInv /\ UpdatesInv /\ TxInv /\ StateIsSerial

-----------------------------------------------------------------------------

LEMMA AbsentType == Absent \in Entry /\ Absent.val = Nil /\ Absent.meta = Nil /\ Absent.ver = NoVersion
                    /\ NoVersion[1] = -1
BY DEF Absent, Entry, Versions, Nil, NoVersion

\* What is in the batch carries the number of the block.
LEMMA BatchIsNew ==
  ASSUME IInv, NEW k \in Keys
  PROVE  /\ Exists(k) => updates[k].ver[1] = height + 1
         /\ ~Exists(k) => updates[k] = Absent
<1>1. height \in Nat /\ UpdatesInv BY Zenon DEF IInv, TypeOK
<1>2. updates[k] = Absent => ~Exists(k) BY AbsentType, Zenon DEF Exists
<1>3. updates[k].ver[1] = height + 1 => Exists(k) BY <1>1, AbsentType DEF Exists
<1> QED BY <1>1, <1>2, <1>3, Zenon DEF UpdatesInv

\* An entry seen in simulation whose version is still the latest is the latest.
LEMMA SameVersion ==
  ASSUME IInv, NEW k \in Keys, NEW e \in Entry, Seen(k, e), e.ver = Latest(k).ver
  PROVE  ~Exists(k) /\ e = Latest(k)
<1>1. height \in Nat BY Zenon DEF IInv, TypeOK
<1>2. e.ver[1] <= height BY <1>1, AbsentType DEF Seen, Old
<1>3. ~Exists(k)
  <2> SUFFICES ASSUME Exists(k) PROVE FALSE OBVIOUS
  <2>1. updates[k].ver[1] = height + 1 BY BatchIsNew, Zenon
  <2> QED BY <1>1, <1>2, <2>1 DEF Latest
<1> QED BY <1>3, Zenon DEF Latest, Seen

LEMMA InitInv == Init => IInv
<1> SUFFICES ASSUME Init PROVE IInv OBVIOUS
<1>1. PICK S \in SUBSET Keys : db = [k \in Keys |-> IF k \in S THEN [val |-> 0, meta |-> Nil, ver |-> <<0, 0>>]
                                                                ELSE Absent]
  BY Zenon DEF Init
<1>2. [val |-> 0, meta |-> Nil, ver |-> <<0, 0>>] \in Entry BY DEF Entry, Versions, Nil
<1>3. db \in [Keys -> Entry] BY <1>1, <1>2, AbsentType, Zenon
<1>4. TypeOK
  <2>1. view \in [Keys -> [val : Int, meta : Int]] BY <1>3, Zenon DEF Init, Entry
  <2>2. updates \in [Keys -> Entry] BY AbsentType, Zenon DEF Init, NoUpdates
  <2>3. block \in Seq(Tx) /\ flags \in Seq(Verdicts) /\ pool \in SUBSET Tx BY DEF Init
  <2>4. panicked \in BOOLEAN BY Zenon DEF Init
  <2>5. height \in Nat /\ made \in Nat BY Zenon DEF Init
  <2> QED BY <1>3, <2>1, <2>2, <2>3, <2>4, <2>5, Zenon DEF TypeOK
<1>5. DbInv
  <2> SUFFICES ASSUME NEW k \in Keys PROVE Old(db[k]) BY Zenon DEF DbInv
  <2>1. CASE k \notin S BY <1>1, <2>1, Zenon DEF Old
  <2>2. CASE k \in S
    <3>1. db[k].val = 0 /\ db[k].ver = <<0, 0>> /\ height = 0 BY <1>1, <2>2, Zenon DEF Init
    <3> QED BY <3>1 DEF Old, Nil
  <2> QED BY <2>1, <2>2, Zenon
<1>6. UpdatesInv BY Zenon DEF UpdatesInv, Init, NoUpdates
<1>7. TxInv BY DEF TxInv, Init
<1>8. StateIsSerial BY AbsentType, Zenon DEF StateIsSerial, Latest, Exists, Init, NoUpdates
<1> QED BY <1>4, <1>5, <1>6, <1>7, <1>8, Zenon DEF IInv

\* What Execute makes of the entry of a key that is written.
Executed(k, op, id) ==
  IF op.val = "delete" THEN [val |-> Nil, meta |-> Nil]
  ELSE IF op.val = "put" THEN [val |-> id, meta |-> Metadata(op, id, view[k].meta)]
  ELSE IF view[k].val # Nil THEN [val |-> view[k].val, meta |-> Metadata(op, id, view[k].meta)]
  ELSE view[k]

\* The batch has u for a key, which makes w of its entry.
MergedInto(k, u, w) ==
  /\ u \in Entry /\ w \in [val : Int, meta : Int]
  /\ u = Absent \/ (u.ver[1] = height + 1 /\ (u.val = Nil => u.meta = Nil))
  /\ w = IF u.ver # NoVersion THEN [val |-> u.val, meta |-> u.meta]
                              ELSE [val |-> db[k].val, meta |-> db[k].meta]

\* The invariant is inductive.
LEMMA NextInv ==
  IInv /\ [Next]_vars => IInv'
\* What has been seen stays so while the database does not change.
<1>SeenSame.
  ASSUME UNCHANGED <<db, height>>, NEW tx, SeenTx(tx)
  PROVE  SeenTx(tx)'
  <2> USE <1>SeenSame
  <2>1. \A k, e : Seen(k, e) => Seen(k, e)' BY Zenon DEF Seen, Old
  <2> QED BY <2>1, Zenon DEF SeenTx
<1>TxSame.
  ASSUME TxInv, UNCHANGED <<db, height, block>>
  PROVE  /\ \A tx \in pool : SeenTx(tx)'
         /\ \A i \in 1 .. Len(block') : SeenTx(block[i])'
  <2> USE <1>TxSame
  <2>1. \A tx : SeenTx(tx) => SeenTx(tx)' BY <1>SeenSame, Zenon
  <2>2. ASSUME NEW i \in 1 .. Len(block') PROVE SeenTx(block[i])'
    <3>1. PICK tx : tx = block[i] OBVIOUS
    <3>2. SeenTx(tx)' BY <2>1, <3>1, Zenon DEF TxInv
    <3>3. tx = block'[i] BY <3>1, Zenon
    <3> QED BY <3>2, <3>3, Zenon
  <2> QED BY <2>1, <2>2, Zenon DEF TxInv
\* What a simulation reads is in the database when it reads it.
<1>EntriesSeen.
  ASSUME IInv, NEW D \in SUBSET Keys
  PROVE  /\ Entries(D) \in Partial(Entry) /\ DOMAIN Entries(D) = D
         /\ \A k \in D : Seen(k, Entries(D)[k])
  <2> USE <1>EntriesSeen
  <2>1. db \in [Keys -> Entry] /\ DbInv BY Zenon DEF IInv, TypeOK
  <2>2. Entries(D) \in [D -> Entry] BY <2>1, Zenon DEF Entries
  <2> QED BY <2>1, <2>2, Zenon DEF Entries, Partial, DbInv, Seen
<1>ScansSeen.
  ASSUME IInv, NEW start \in Nat, NEW end \in Nat, NEW q \in Scans(start, end)
  PROVE  /\ q \in Scan
         /\ \A k \in DOMAIN q.results : Seen(k, q.results[k])
  <2> USE <1>ScansSeen
  <2> DEFINE found == Present \cap Between(start, end)
  <2>1. found \subseteq Keys BY Zenon DEF Present, Between
  <2>2. PICK last \in Nat, x \in BOOLEAN, D \in SUBSET Keys :
          q = [start |-> start, endKey |-> last, exhausted |-> x, results |-> Entries(D)]
    <3>1. Keys \subseteq Nat BY MVCCAssumption, Zenon
    <3>2. CASE q = [start |-> start, endKey |-> 0, exhausted |-> FALSE, results |-> Entries({})]
      BY <3>2, Zenon
    <3>3. CASE q = [start |-> start, endKey |-> end, exhausted |-> TRUE, results |-> Entries(found)]
      BY <3>3, <2>1, Zenon
    <3>4. CASE \E last \in found : q = [start |-> start, endKey |-> last, exhausted |-> FALSE,
                                        results |-> Entries({k \in found : k <= last})]
      <4>1. PICK last \in found : q = [start |-> start, endKey |-> last, exhausted |-> FALSE,
                                       results |-> Entries({k \in found : k <= last})]
        BY <3>4, Zenon
      <4>2. last \in Nat /\ {k \in found : k <= last} \in SUBSET Keys BY <2>1, <3>1, Zenon
      <4> QED BY <4>1, <4>2, Zenon
    <3> QED BY <3>2, <3>3, <3>4, Zenon DEF Scans
  <2>3. q.results = Entries(D) BY <2>2, Zenon
  <2>4. Entries(D) \in Partial(Entry) /\ DOMAIN Entries(D) = D /\ \A k \in D : Seen(k, Entries(D)[k])
    BY <1>EntriesSeen, Zenon
  <2>5. q.exhausted \/ q.endKey = 0 \/ q.start <= q.endKey
    <3>1. CASE q = [start |-> start, endKey |-> 0, exhausted |-> FALSE, results |-> Entries({})]
      BY <3>1, Zenon
    <3>2. CASE q = [start |-> start, endKey |-> end, exhausted |-> TRUE, results |-> Entries(found)]
      BY <3>2, Zenon
    <3>3. CASE \E at \in found : q = [start |-> start, endKey |-> at, exhausted |-> FALSE,
                                        results |-> Entries({k \in found : k <= at})]
      <4>1. PICK at \in found : q.start = start /\ q.endKey = at BY <3>3
      <4> QED BY <4>1, Zenon DEF Between
    <3> QED BY <3>1, <3>2, <3>3, Zenon DEF Scans
  <2>6. q \in [start : Nat, endKey : Nat, exhausted : BOOLEAN, results : Partial(Entry)]
    BY <2>2, <2>3, <2>4, Zenon
  <2> QED BY <2>3, <2>4, <2>5, <2>6, Zenon DEF Scan
<1>SimulateInv.
  ASSUME IInv, NEW p \in Programs, Simulate(p)
  PROVE  IInv'
  <2> USE <1>SimulateInv
  <2>0. TypeOK /\ TxInv BY Zenon DEF IInv
  <2>1. PICK Q \in SUBSET UNION {Scans(r[1], r[2]) : r \in p.ranges} :
          pool' = pool \cup {[id |-> made', reads |-> Entries(p.reads), scans |-> Q, writes |-> p.writes]}
    BY Zenon DEF Simulate
  <2> DEFINE tx == [id |-> made', reads |-> Entries(p.reads), scans |-> Q, writes |-> p.writes]
  <2>2. Entries(p.reads) \in Partial(Entry) /\ \A k \in DOMAIN Entries(p.reads) : Seen(k, Entries(p.reads)[k])
    BY <1>EntriesSeen, MVCCAssumption, Zenon
  <2>3. \A q \in Q : /\ q \in Scan
                     /\ \A k \in DOMAIN q.results : Seen(k, q.results[k])
    <3> SUFFICES ASSUME NEW q \in Q
                 PROVE  /\ q \in Scan
                        /\ \A k \in DOMAIN q.results : Seen(k, q.results[k])
      OBVIOUS
    <3>1. PICK r \in p.ranges : q \in Scans(r[1], r[2]) OBVIOUS
    <3>2. r[1] \in Nat /\ r[2] \in Nat BY <3>1, MVCCAssumption, Zenon
    <3> QED BY <3>1, <3>2, <1>ScansSeen, Zenon
  <2>4. made' \in Nat BY <2>0 DEF Simulate, TypeOK
  <2>5. tx \in Tx BY <2>2, <2>3, <2>4, MVCCAssumption, Zenon DEF Tx, Partial
  <2>6. SeenTx(tx) BY <2>2, <2>3, Zenon DEF SeenTx
  <2>7. UNCHANGED <<db, height, block, flags, updates, panicked, view>> BY Zenon DEF Simulate
  <2>8. TypeOK' BY <2>0, <2>1, <2>4, <2>5, <2>7, Zenon DEF TypeOK
  <2>9. TxInv'
    <3>1. /\ \A t \in pool : SeenTx(t)'
          /\ \A i \in 1 .. Len(block') : SeenTx(block[i])'
      BY <2>0, <2>7, <1>TxSame, Zenon
    <3>2. PICK t : t = tx BY Zenon
    <3>3. SeenTx(t)' BY <2>6, <2>7, <3>2, <1>SeenSame, Zenon
    <3>4. pool' = pool \cup {t} BY <2>1, <3>2, Zenon
    <3> QED BY <3>1, <3>3, <3>4, Zenon DEF TxInv
  <2> QED BY <2>7, <2>8, <2>9, Zenon DEF IInv, DbInv, UpdatesInv, StateIsSerial, Latest, Exists, Old
<1>StartBlockInv.
  ASSUME IInv, StartBlock
  PROVE  IInv'
  <2> USE <1>StartBlockInv
  <2>0. TypeOK /\ TxInv BY Zenon DEF IInv
  <2>1. PICK n \in 1 .. BlockSize : \E txs \in [1 .. n -> pool] :
          block' = txs /\ pool' = pool \ {txs[i] : i \in 1 .. n}
    BY Zenon DEF StartBlock
  <2>2. PICK txs \in [1 .. n -> pool] : block' = txs /\ pool' = pool \ {txs[i] : i \in 1 .. n} BY <2>1, Zenon
  <2>3. UNCHANGED <<db, height, made, flags, updates, panicked, view>> BY Zenon DEF StartBlock
  <2>4. block' \in Seq(pool) /\ Len(block') = n BY <2>1, <2>2, MVCCAssumption
  <2>5. pool' \subseteq pool BY <2>2, Zenon
  <2>6. block' \in Seq(Tx) BY <2>0, <2>4, <2>5 DEF TypeOK
  <2>7. TypeOK' BY <2>0, <2>3, <2>5, <2>6, Zenon DEF TypeOK
  <2>8. \A i \in 1 .. Len(block') : block'[i] \in pool BY <2>2, <2>4, Zenon
  <2>9. TxInv'
    <3>1. \A t \in pool : SeenTx(t)' BY <2>0, <2>3, <1>SeenSame, Zenon DEF TxInv
    <3>2. ASSUME NEW i \in 1 .. Len(block') PROVE SeenTx(block[i])'
      <4>1. PICK t \in pool : t = block'[i] BY <2>8, Zenon
      <4> QED BY <3>1, <4>1, Zenon
    <3> QED BY <2>5, <3>1, <3>2, Zenon DEF TxInv
  <2> QED BY <2>3, <2>7, <2>9, Zenon DEF IInv, DbInv, UpdatesInv, StateIsSerial, Latest, Exists, Old
\* The update batch becomes part of the database.  What a simulation has seen either
\* stays, or gets a version that it cannot have seen.
<1>CommitInv.
  ASSUME IInv, Commit
  PROVE  IInv'
  <2> USE <1>CommitInv
  <2>0. TypeOK /\ DbInv /\ UpdatesInv /\ TxInv /\ StateIsSerial BY Zenon DEF IInv
  <2>1. /\ db' = [k \in Keys |-> IF ~Exists(k) THEN db[k] ELSE IF updates[k].val = Nil THEN Absent ELSE updates[k]]
        /\ height' = height + 1 /\ height \in Nat
        /\ block' = <<>> /\ flags' = <<>> /\ updates' = NoUpdates
        /\ UNCHANGED <<made, pool, panicked, view>>
    BY <2>0, Zenon DEF Commit, TypeOK
  <2>2. db' \in [Keys -> Entry] BY <2>0, <2>1, AbsentType, Zenon DEF TypeOK
  <2>3. TypeOK' BY <2>0, <2>1, <2>2, AbsentType DEF TypeOK, NoUpdates
  <2>4. DbInv'
    <3> SUFFICES ASSUME NEW k \in Keys PROVE Old(db[k])' BY Zenon DEF DbInv
    <3>1. CASE ~Exists(k)
      <4>1. db'[k] = db[k] /\ db[k].ver[1] \in Int BY <2>0, <2>1, <3>1, Zenon DEF TypeOK, Entry, Versions
      <4> QED BY <2>0, <2>1, <4>1 DEF DbInv, Old
    <3>2. CASE Exists(k)
      <4>1. updates[k].ver[1] = height + 1 BY <3>2, BatchIsNew, Zenon
      <4> QED BY <2>1, <3>2, <4>1 DEF Old
    <3> QED BY <3>1, <3>2, Zenon
  <2>5. UpdatesInv' BY <2>1, Zenon DEF UpdatesInv, NoUpdates
  <2>6. ASSUME NEW k \in Keys, NEW e \in Entry, Seen(k, e)
        PROVE  Seen(k, e)'
    <3>0. e.ver[1] \in Int BY Zenon DEF Entry, Versions
    <3>1. Old(e)' BY <2>1, <2>6, <3>0 DEF Seen, Old
    <3>2. e.ver[1] <= height BY <2>1, <2>6, AbsentType DEF Seen, Old
    <3>3. CASE ~Exists(k) BY <2>1, <2>6, <3>1, <3>3, Zenon DEF Seen
    <3>4. CASE Exists(k) /\ updates[k].val # Nil
      <4>1. updates[k].ver[1] = height + 1 BY <3>4, BatchIsNew, Zenon
      <4>2. db'[k] = updates[k] BY <2>1, <3>4, Zenon
      <4>3. e.ver # db'[k].ver BY <2>1, <3>2, <4>1, <4>2
      <4> QED BY <3>1, <4>3, Zenon DEF Seen
    <3>5. CASE Exists(k) /\ updates[k].val = Nil
      <4>1. db'[k] = Absent BY <2>1, <3>5, Zenon
      <4>2. e.ver = NoVersion => e = Absent BY <2>1, <2>6, AbsentType DEF Seen, Old
      <4> QED BY <3>1, <4>1, <4>2, AbsentType, Zenon DEF Seen
    <3> QED BY <3>3, <3>4, <3>5, Zenon
  <2>7. TxInv'
    <3> SUFFICES ASSUME NEW tx \in pool PROVE SeenTx(tx)' BY <2>1 DEF TxInv
    <3>1. tx \in Tx /\ SeenTx(tx) BY <2>0, Zenon DEF TypeOK, TxInv
    <3>2. \A k \in DOMAIN tx.reads : k \in Keys /\ tx.reads[k] \in Entry BY <3>1, Zenon DEF Tx, Partial
    <3>3. \A q \in tx.scans : \A k \in DOMAIN q.results : k \in Keys /\ q.results[k] \in Entry
      BY <3>1 DEF Tx, Scan, Partial
    <3> QED BY <2>6, <3>1, <3>2, <3>3, Zenon DEF SeenTx
  <2>8. StateIsSerial'
    <3> SUFFICES ASSUME NEW k \in Keys
                 PROVE  view[k] = [val |-> db'[k].val, meta |-> db'[k].meta]
      BY <2>1, AbsentType, Zenon DEF StateIsSerial, Latest, Exists, NoUpdates
    <3>1. view[k] = [val |-> Latest(k).val, meta |-> Latest(k).meta] BY <2>0, Zenon DEF StateIsSerial
    <3>2. Exists(k) /\ updates[k].val = Nil => updates[k].meta = Nil BY <2>0, AbsentType, Zenon DEF UpdatesInv
    <3> QED BY <2>1, <3>1, <3>2, AbsentType, Zenon DEF Latest
  <2> QED BY <2>3, <2>4, <2>5, <2>7, <2>8, Zenon DEF IInv
\* mergeWrite for one key does to the latest entry what Execute does to its value.
<1>MergeIsExecution.
  ASSUME IInv, NEW k \in Keys, NEW op \in Op, NEW id \in Nat, NEW n \in Nat,
         ~(op.val = "none" /\ op.meta # "none" /\ Exists(k) /\ updates[k].val = Nil),
         NEW u, u = mergeWrite(k, op, id, <<height + 1, n>>),
         NEW w, w = Executed(k, op, id)
  PROVE  MergedInto(k, u, w)
  <2> USE <1>MergeIsExecution DEF Executed, MergedInto
  <2> DEFINE ver == <<height + 1, n>>
  <2>0. /\ db[k] \in Entry /\ updates[k] \in Entry /\ Latest(k) \in Entry /\ height \in Nat
        /\ view[k] = [val |-> Latest(k).val, meta |-> Latest(k).meta]
        /\ updates[k] = Absent \/ (updates[k].ver[1] = height + 1 /\ (updates[k].val = Nil => updates[k].meta = Nil))
    BY Zenon DEF IInv, TypeOK, StateIsSerial, UpdatesInv, Latest
  <2>1. ver \in Versions /\ ver[1] = height + 1 /\ ver # NoVersion BY <2>0 DEF Versions, NoVersion
  <2>2. /\ Latest(k).val \in Int /\ Latest(k).meta \in Int /\ Nil \in Int
        /\ \A old \in Int : Metadata(op, id, old) \in Int
    BY <2>0 DEF Entry, Nil, Metadata
  <2>3. CASE op.val = "delete"
    <3>1. u = [val |-> Nil, meta |-> Nil, ver |-> ver] BY <2>3, Zenon DEF mergeWrite
    <3>2. w = [val |-> Nil, meta |-> Nil] BY <2>3, Zenon
    <3> QED BY <2>1, <2>2, <3>1, <3>2 DEF Entry
  <2>4. CASE op.val = "put"
    <3>0. PICK m \in Int : m = Metadata(op, id, Latest(k).meta) BY <2>2, Zenon
    <3>1. u = [val |-> id, meta |-> m, ver |-> ver] BY <2>4, <3>0, Zenon DEF mergeWrite
    <3>2. view[k].meta = Latest(k).meta BY <2>0
    <3>3. w = [val |-> id, meta |-> m] BY <2>4, <3>0, <3>2, Zenon
    <3>4. id # Nil BY DEF Nil
    <3>5. u.val = id /\ u.meta = m /\ u.ver = ver BY <3>1
    <3>6. u \in Entry BY <2>1, <3>1 DEF Entry
    <3>7. w \in [val : Int, meta : Int] BY <3>3
    <3> HIDE DEF ver
    <3> QED BY <2>1, <3>3, <3>4, <3>5, <3>6, <3>7, Zenon
  <2>5. CASE op.val = "none" /\ op.meta # "none" /\ Latest(k).val # Nil
    <3>1. u = [val |-> Latest(k).val, meta |-> Metadata(op, id, Nil), ver |-> ver]
      BY <2>5, Zenon DEF mergeWrite, Latest
    <3>2. w = [val |-> Latest(k).val, meta |-> Metadata(op, id, Nil)] BY <2>0, <2>5 DEF Metadata
    <3> QED BY <2>1, <2>2, <2>5, <3>1, <3>2 DEF Entry
  <2>6. CASE op.val = "none" /\ (op.meta = "none" \/ Latest(k).val = Nil)
    <3>1. u = updates[k] BY <2>6, Zenon DEF mergeWrite, Latest
    <3>2. w = view[k] BY <2>0, <2>6 DEF Metadata
    <3>3. view[k] = IF updates[k].ver # NoVersion THEN [val |-> updates[k].val, meta |-> updates[k].meta]
                                                 ELSE [val |-> db[k].val, meta |-> db[k].meta]
      BY <2>0, Zenon DEF Latest, Exists
    <3> QED BY <2>0, <2>2, <3>1, <3>2, <3>3
  <2> QED BY <2>3, <2>4, <2>5, <2>6, Zenon DEF Op
<1>ValidateTxInv.
  ASSUME IInv, ValidateTx
  PROVE  IInv'
  <2> USE <1>ValidateTxInv
  <2>0. TypeOK /\ DbInv /\ UpdatesInv /\ TxInv /\ StateIsSerial BY Zenon DEF IInv
  <2> DEFINE tx == block[Len(flags) + 1]
             ver == <<height + 1, Len(flags)>>
  <2>1. /\ Len(flags) \in Nat /\ Len(flags) < Len(block) /\ UNCHANGED <<db, height, made, pool, block>>
        /\ tx \in Tx
    BY <2>0 DEF ValidateTx, TypeOK
  <2>2. DbInv' /\ TxInv'
    <3>1. DbInv' BY <2>0, <2>1, Zenon DEF DbInv, Old
    <3>2. /\ \A t \in pool : SeenTx(t)'
          /\ \A i \in 1 .. Len(block') : SeenTx(block[i])'
      BY <2>0, <2>1, <1>TxSame, Zenon
    <3>3. TxInv' BY <2>1, <3>2, Zenon DEF TxInv
    <3> QED BY <3>1, <3>3, Zenon
  <2>3. CASE UNCHANGED <<updates, view>> /\ flags' \in Seq(Verdicts) /\ panicked' \in BOOLEAN
    <3>1. TypeOK' BY <2>0, <2>1, <2>3, Zenon DEF TypeOK
    <3>2. UpdatesInv' /\ StateIsSerial' BY <2>0, <2>1, <2>3, Zenon DEF UpdatesInv, StateIsSerial, Latest, Exists
    <3> QED BY <2>2, <3>1, <3>2, Zenon DEF IInv
  <2>4. CASE ~(validateTx(tx) = "VALID")
    <3>1. flags' = Append(flags, validateTx(tx)) /\ UNCHANGED <<updates, view, panicked>>
      BY <2>4, Zenon DEF ValidateTx
    <3>2. validateTx(tx) \in Verdicts BY Zenon DEF validateTx, Verdicts
    <3> QED BY <2>0, <2>3, <3>1, <3>2 DEF TypeOK
  <2>5. CASE validateTx(tx) = "VALID" /\ PutPanics(tx)
    <3>1. panicked' = TRUE /\ UNCHANGED <<flags, updates, view>> BY <2>5, Zenon DEF ValidateTx
    <3>2. panicked' \in BOOLEAN BY <3>1, Zenon
    <3> QED BY <2>0, <2>3, <3>1, <3>2, Zenon DEF TypeOK
  <2>6. CASE validateTx(tx) = "VALID" /\ ~PutPanics(tx)
    <3>1. /\ flags' = Append(flags, "VALID") /\ UNCHANGED panicked
          /\ updates' = [k \in Keys |-> IF k \in DOMAIN tx.writes
                                         THEN mergeWrite(k, tx.writes[k], tx.id, ver) ELSE updates[k]]
          /\ view' = Execute(view, tx)
      BY <2>6, Zenon DEF ValidateTx
    <3>2. ASSUME NEW k \in Keys
          PROVE  /\ updates'[k] \in Entry /\ view'[k] \in [val : Int, meta : Int]
                 /\ updates'[k] = Absent \/ (updates'[k].ver[1] = height + 1 /\ (updates'[k].val = Nil => updates'[k].meta = Nil))
                 /\ view'[k] = IF updates'[k].ver # NoVersion THEN [val |-> updates'[k].val, meta |-> updates'[k].meta]
                                                              ELSE [val |-> db[k].val, meta |-> db[k].meta]
      <4>1. CASE k \notin DOMAIN tx.writes
        <5>1. updates'[k] = updates[k] /\ view'[k] = view[k] BY <3>1, <4>1, Zenon DEF Execute
        <5> QED BY <2>0, <5>1, Zenon DEF TypeOK, UpdatesInv, StateIsSerial, Latest, Exists
      <4>2. CASE k \in DOMAIN tx.writes
        <5>1. tx.writes[k] \in Op /\ tx.id \in Nat BY <2>1, <4>2 DEF Tx, Partial
        <5>2. ~(tx.writes[k].val = "none" /\ tx.writes[k].meta # "none" /\ Exists(k) /\ updates[k].val = Nil)
          BY <2>6, <4>2, Zenon DEF PutPanics
        <5>3. updates'[k] = mergeWrite(k, tx.writes[k], tx.id, ver) BY <3>1, <4>2, Zenon
        <5> DEFINE op == tx.writes[k]
                   id == tx.id
                   n == Len(flags)
                   u == updates'[k]
                   w == view'[k]
        <5>4. w = Executed(k, op, id) BY <3>1, <4>2, Zenon DEF Execute, Executed
        <5>5. op \in Op /\ id \in Nat /\ n \in Nat /\ u = mergeWrite(k, op, id, <<height + 1, n>>)
              /\ ~(op.val = "none" /\ op.meta # "none" /\ Exists(k) /\ updates[k].val = Nil)
          BY <2>1, <5>1, <5>2, <5>3, Zenon
        <5>6. MergedInto(k, u, w)
          <6> HIDE DEF op, id, n, u, w
          <6> QED BY <5>4, <5>5, <1>MergeIsExecution, Zenon
        <5> QED BY <5>6, Zenon DEF MergedInto
      <4> QED BY <4>1, <4>2, Zenon
    <3>3. updates' \in [Keys -> Entry] BY <3>1, <3>2, Zenon
    <3>4. view' \in [Keys -> [val : Int, meta : Int]] BY <3>1, <3>2, Zenon DEF Execute
    <3>5. flags' \in Seq(Verdicts) BY <2>0, <3>1 DEF TypeOK, Verdicts
    <3>6. TypeOK' BY <2>0, <2>1, <3>1, <3>3, <3>4, <3>5, Zenon DEF TypeOK
    <3>7. UpdatesInv' BY <2>1, <3>2, Zenon DEF UpdatesInv
    <3>8. StateIsSerial' BY <2>1, <3>2, Zenon DEF StateIsSerial, Latest, Exists
    <3> QED BY <2>2, <3>6, <3>7, <3>8, Zenon DEF IInv
  <2> QED BY <2>4, <2>5, <2>6, Zenon
<1> SUFFICES ASSUME IInv, [Next]_vars PROVE IInv' OBVIOUS
<1>1. CASE Next BY <1>1, <1>SimulateInv, <1>StartBlockInv, <1>ValidateTxInv, <1>CommitInv, Zenon DEF Next
<1>2. CASE UNCHANGED vars
  <2>1. UNCHANGED <<db, updates, view, height, made, panicked, pool, block, flags>> BY <1>2, Zenon DEF vars
  <2>2. TypeOK' BY <2>1, Zenon DEF IInv, TypeOK
  <2>3. DbInv' /\ UpdatesInv' BY <2>1, Zenon DEF IInv, DbInv, UpdatesInv, Old
  <2>4. TxInv'
    <3>1. /\ \A t \in pool : SeenTx(t)'
          /\ \A i \in 1 .. Len(block') : SeenTx(block[i])'
      BY <2>1, <1>TxSame, Zenon DEF IInv
    <3> QED BY <2>1, <3>1, Zenon DEF TxInv
  <2>5. StateIsSerial' BY <2>1, Zenon DEF IInv, StateIsSerial, Latest, Exists
  <2> QED BY <2>2, <2>3, <2>4, <2>5, Zenon DEF IInv
<1> QED BY <1>1, <1>2, Zenon

\* validateAndPrepareBatch and the commit of its batch keep the state database what
\* the valid transactions lead to, executed one after the other.
THEOREM SerialState == Spec => []StateIsSerial
<1>1. IInv => StateIsSerial BY Zenon DEF IInv
<1> QED BY <1>1, InitInv, NextInv, PTL DEF Spec

\* A valid transaction would see at its place in the chain what it saw in simulation:
\* a version that is still the latest belongs to the entry that was read, and nothing
\* of the batch has a version of the database.
LEMMA ValidSeesTheSame ==
  ASSUME IInv, NEW tx \in Tx, SeenTx(tx), validateTx(tx) = "VALID"
  PROVE  SeenBy(tx, view)
<1>1. /\ \A k \in DOMAIN tx.reads : validateKVRead(k, tx.reads[k])
      /\ \A q \in tx.scans : validateRangeQuery(q)
  BY Zenon DEF validateTx
<1>2. \A k \in Keys : view[k].val = Latest(k).val /\ view[k].meta = Latest(k).meta
  <2> SUFFICES ASSUME NEW k \in Keys PROVE view[k].val = Latest(k).val /\ view[k].meta = Latest(k).meta
    OBVIOUS
  <2>1. view[k] = [val |-> Latest(k).val, meta |-> Latest(k).meta] BY Zenon DEF IInv, StateIsSerial
  <2> QED BY <2>1
<1>3. ASSUME NEW k \in DOMAIN tx.reads
      PROVE  view[k].val = tx.reads[k].val /\ view[k].meta = tx.reads[k].meta
  <2>1. k \in Keys /\ tx.reads[k] \in Entry BY DEF Tx, Partial
  <2>2. Seen(k, tx.reads[k]) BY Zenon DEF SeenTx
  <2>3. tx.reads[k].ver = Latest(k).ver BY <1>1, Zenon DEF validateKVRead, Latest
  <2> QED BY <1>2, <2>1, <2>2, <2>3, SameVersion, Zenon
<1>4. ASSUME NEW q \in tx.scans, NEW k \in KeyRange(q)
      PROVE  /\ view[k].val # Nil <=> k \in DOMAIN q.results
             /\ k \in DOMAIN q.results => view[k].val = q.results[k].val
  <2>0. k \in Keys BY Zenon DEF KeyRange, Between
  <2>1. [j \in {j \in KeyRange(q) : Latest(j).val # Nil} |-> Latest(j).ver]
          = [j \in DOMAIN q.results |-> q.results[j].ver]
    BY <1>1, Zenon DEF validateRangeQuery, combinedIterator
  <2>2. {j \in KeyRange(q) : Latest(j).val # Nil} = DOMAIN q.results BY <2>1, Zenon
  <2>3. view[k].val # Nil <=> k \in DOMAIN q.results BY <1>2, <2>0, <2>2, Zenon
  <2>4. ASSUME k \in DOMAIN q.results PROVE view[k].val = q.results[k].val
    <3>1. q.results[k] \in Entry BY <2>4 DEF Tx, Scan, Partial
    <3>2. Seen(k, q.results[k]) BY <2>4, Zenon DEF SeenTx
    <3>3. q.results[k].ver = Latest(k).ver BY <2>1, <2>2, <2>4, Zenon
    <3> QED BY <1>2, <2>0, <3>1, <3>2, <3>3, SameVersion, Zenon
  <2> QED BY <2>3, <2>4, Zenon
<1> QED BY <1>3, <1>4, Zenon DEF SeenBy

\* Serializability of validateTx, phantoms included.
THEOREM SerialReads == Spec => ReadsAreSerial
<1> DEFINE A == \A i \in DOMAIN flags' \ DOMAIN flags : flags'[i] = "VALID" => SeenBy(block[i], view)
<1>1. ASSUME IInv, Next PROVE A
  <2> SUFFICES ASSUME NEW i \in DOMAIN flags' \ DOMAIN flags, flags'[i] = "VALID" PROVE SeenBy(block[i], view)
    OBVIOUS
  <2>0. TypeOK /\ TxInv BY <1>1, Zenon DEF IInv
  <2>1. CASE ValidateTx
    <3> DEFINE tx == block[Len(flags) + 1]
    <3>1. Len(flags) \in Nat /\ Len(flags) < Len(block) /\ tx \in Tx /\ SeenTx(tx)
      BY <2>0, <2>1 DEF ValidateTx, TypeOK, TxInv
    <3>2. flags' = Append(flags, validateTx(tx)) BY <2>1, Zenon DEF ValidateTx
    <3>3. validateTx(tx) \in Verdicts BY Zenon DEF validateTx, Verdicts
    <3>4. i = Len(flags) + 1 /\ validateTx(tx) = "VALID" BY <2>0, <3>2, <3>3 DEF TypeOK
    <3> QED BY <1>1, <3>1, <3>4, ValidSeesTheSame, Zenon
  <2>2. CASE ~ValidateTx
    <3>1. flags' = flags \/ flags' = <<>> BY <1>1, <2>2, Zenon DEF Next, Simulate, StartBlock, Commit
    <3> QED BY <3>1
  <2> QED BY <2>1, <2>2, Zenon
<1>2. IInv /\ [Next]_vars => [A]_vars BY <1>1, Zenon
<1>3. Spec => []IInv BY InitInv, NextInv, PTL DEF Spec
<1> QED BY <1>2, <1>3, PTL DEF Spec, ReadsAreSerial

\* The keys that the validation of a scan looks at are those up to where it stopped.
LEMMA SameRange ==
  ASSUME NEW q \in Scan, q.exhausted \/ q.endKey # 0
  PROVE  combinedIterator(q) = Rescan(q)
<1>0. Keys \subseteq Nat \ {0} /\ q.start \in Nat /\ q.endKey \in Nat BY MVCCAssumption, Zenon DEF Scan
<1>1. CASE q.exhausted
  <2>1. KeyRange(q) = Between(q.start, q.endKey) BY <1>1, Zenon DEF KeyRange
  <2>2. {j \in KeyRange(q) : Latest(j).val # Nil}
          = {j \in Between(q.start, IF q.exhausted THEN q.endKey ELSE 0) :
               Latest(j).val # Nil /\ (q.exhausted \/ j <= q.endKey)}
    BY <1>1, <2>1, Zenon
  <2> QED BY <2>2, Zenon DEF combinedIterator, Rescan
<1>2. CASE ~q.exhausted
  <2>1. q.endKey # 0 /\ q.start <= q.endKey BY <1>2, Zenon DEF Scan
  <2>2. KeyRange(q) = {k \in Keys : q.start <= k /\ k <= q.endKey}
    <3>1. Between(q.start, q.endKey) = {k \in Keys : q.start <= k /\ k < q.endKey} BY <2>1, Zenon DEF Between
    <3>2. KeyRange(q) = Between(q.start, q.endKey) \cup {k \in Keys : k = q.endKey} BY <1>2, Zenon DEF KeyRange
    <3>3. ASSUME NEW k \in Keys
          PROVE  (q.start <= k /\ k < q.endKey) \/ k = q.endKey <=> q.start <= k /\ k <= q.endKey
      BY <1>0, <2>1
    <3> QED BY <3>1, <3>2, <3>3, Zenon
  <2>3. Between(q.start, 0) = {k \in Keys : q.start <= k} BY Zenon DEF Between
  <2>4. {j \in KeyRange(q) : Latest(j).val # Nil}
          = {j \in Between(q.start, IF q.exhausted THEN q.endKey ELSE 0) :
               Latest(j).val # Nil /\ (q.exhausted \/ j <= q.endKey)}
    BY <1>2, <2>2, <2>3, Zenon
  <2> QED BY <2>4, Zenon DEF combinedIterator, Rescan
<1> QED BY <1>1, <1>2, Zenon

\* No transaction is refused for keys behind the point where its scan stopped.
THEOREM RealPhantoms == Spec => PhantomsAreReal
<1> DEFINE Real(tx) ==
             \E q \in tx.scans :
               \/ Rescan(q) # [k \in DOMAIN q.results |-> q.results[k].ver]
               \/ ~q.exhausted /\ q.endKey = 0
           A == \A i \in DOMAIN flags' \ DOMAIN flags : flags'[i] = "PHANTOM_READ_CONFLICT" => Real(block[i])
<1>1. ASSUME IInv, Next PROVE A
  <2> SUFFICES ASSUME NEW i \in DOMAIN flags' \ DOMAIN flags, flags'[i] = "PHANTOM_READ_CONFLICT"
               PROVE  Real(block[i])
    OBVIOUS
  <2>0. TypeOK BY <1>1, Zenon DEF IInv
  <2>1. CASE ValidateTx
    <3> DEFINE tx == block[Len(flags) + 1]
    <3>1. Len(flags) \in Nat /\ Len(flags) < Len(block) /\ tx \in Tx BY <2>0, <2>1 DEF ValidateTx, TypeOK
    <3>2. flags' = Append(flags, validateTx(tx)) BY <2>1, Zenon DEF ValidateTx
    <3>3. validateTx(tx) \in Verdicts BY Zenon DEF validateTx, Verdicts
    <3>4. i = Len(flags) + 1 /\ validateTx(tx) = "PHANTOM_READ_CONFLICT" BY <2>0, <3>2, <3>3 DEF TypeOK
    <3>5. PICK q \in tx.scans : ~validateRangeQuery(q) BY <3>4, Zenon DEF validateTx
    <3>6. q \in Scan BY <3>1, Zenon DEF Tx
    <3>7. combinedIterator(q) # [k \in DOMAIN q.results |-> q.results[k].ver] BY <3>5, Zenon DEF validateRangeQuery
    <3> QED BY <3>4, <3>6, <3>7, SameRange, Zenon
  <2>2. CASE ~ValidateTx
    <3>1. flags' = flags \/ flags' = <<>> BY <1>1, <2>2, Zenon DEF Next, Simulate, StartBlock, Commit
    <3> QED BY <3>1
  <2> QED BY <2>1, <2>2, Zenon
<1>2. IInv /\ [Next]_vars => [A]_vars BY <1>1, Zenon
<1>3. Spec => []IInv BY InitInv, NextInv, PTL DEF Spec
<1> QED BY <1>2, <1>3, PTL DEF Spec, PhantomsAreReal

--------------------------------------------------------------------------------
(* The path of the envelopes *)

\* For each message, a number of copies.
Counters == [Message -> Nat]

\* At most one datagram is processed at a time, as one goroutine reads the socket.
TypeInv ==
  /\ response \in [Message -> {"none", "OK", "error"}]
  /\ wire \in [Hop -> Counters]
  /\ queue \in [Hop -> Seq(Message)]
  /\ processing \in SUBSET Message /\ \A x, y \in processing : x = y
  /\ offered \in Counters /\ dropped \in Counters /\ copied \in Counters

\* The inductive invariant.
PathInv == TypeInv /\ CopiesAreConserved

--------------------------------------------------------------------------------
(* How often a datagram is in a queue *)

Places(q, m) == {i \in DOMAIN q : q[i] = m}
Count(q, m) == Cardinality(Places(q, m))
One(x, m) == IF x = m THEN 1 ELSE 0

\* What the steps need of the counting: a queue holds a natural number of copies of a message, none
\* if it is empty, one more when a copy joins it and one less when its first is taken; and between
\* two reads of the socket the orderer holds one datagram or none.
Counting ==
  /\ \A q \in Seq(Message) : \A m : Count(q, m) \in Nat
  /\ \A m : Count(<<>>, m) = 0
  /\ \A q \in Seq(Message), x \in Message : \A m : Count(Append(q, x), m) = Count(q, m) + One(x, m)
  /\ \A q \in Seq(Message) : \A m : q # <<>> => Count(q, m) = Count(Tail(q), m) + One(Head(q), m)
  /\ \A m : Cardinality({} \cap {m}) = 0
  /\ \A x, m : Cardinality({x} \cap {m}) = One(x, m)

--------------------------------------------------------------------------------
(* Each step moves one copy, or makes one *)

Held(m) == Cardinality(processing \cap {m})

\* The four sums of CopiesAreConserved: the copies of an envelope that were made, those on the way
\* to a hop, and those whose way has ended; and what it says of one envelope.
Made(m) == One(response[m], "OK") + copied[m]
Way(h, m) == wire[h][m] + Count(queue[h], m)
Ended(m) == Held(m) + offered[m] + dropped[m]
Conserved(m) == Made(m) = Way("sequencer", m) + Way("orderer", m) + Ended(m)

\* The property, message by message.
LEMMA ConservedIs == CopiesAreConserved <=> \A m \in Message : Conserved(m)
<1>1. \A m : /\ InQueue("sequencer", m) = Count(queue["sequencer"], m)
             /\ InQueue("orderer", m) = Count(queue["orderer"], m)
  BY Zenon DEF InQueue, Count, Places
<1>2. \A m : One(response[m], "OK") = IF response[m] = "OK" THEN 1 ELSE 0 BY Zenon DEF One
<1> QED BY <1>1, <1>2, Zenon DEF CopiesAreConserved, OnTheWay, Conserved, Made, Way, Ended, Held

\* A counter of a wire gets a new value.
OnWire(h, m, n) == wire' = [wire EXCEPT ![h][m] = n]

\* Every step conserves the copies.
LEMMA PathNextInv ==
  ASSUME Counting PROVE PathInv /\ [UNext]_uvars => PathInv'
<1>CountIsNat. ASSUME NEW q \in Seq(Message), NEW m PROVE Count(q, m) \in Nat
  BY <1>CountIsNat, Zenon DEF Counting
<1>CountOfAppend. ASSUME NEW q \in Seq(Message), NEW x \in Message, NEW m
                  PROVE  Count(Append(q, x), m) = Count(q, m) + One(x, m)
  BY <1>CountOfAppend, Zenon DEF Counting
<1>CountOfTail. ASSUME NEW q \in Seq(Message), NEW m, q # <<>>
                PROVE  Count(q, m) = Count(Tail(q), m) + One(Head(q), m)
  BY <1>CountOfTail, Zenon DEF Counting
<1>HeldIs. /\ \A m : ({} \cap {m}) = {} /\ Cardinality({} \cap {m}) = 0
           /\ \A x, m : Cardinality({x} \cap {m}) = One(x, m)
  BY Zenon DEF Counting
\* The server holds none or one envelope.
<1>HeldIsNat. TypeInv => \A m : Held(m) \in Nat
  <2> SUFFICES ASSUME TypeInv, NEW m PROVE Held(m) \in Nat OBVIOUS
  <2>1. CASE processing = {} BY <2>1, <1>HeldIs DEF Held
  <2>2. CASE processing # {}
    <3>1. PICK x \in processing : TRUE BY <2>2, Zenon
    <3>2. processing = {x} BY <3>1, Zenon DEF TypeInv
    <3> QED BY <3>2, <1>HeldIs DEF Held, One
  <2> QED BY <2>1, <2>2, Zenon
\* All that is counted of a message is a natural number.
<1>CountsAreNat.
  ASSUME TypeInv, NEW m \in Message
  PROVE  /\ Count(queue["sequencer"], m) \in Nat /\ Count(queue["orderer"], m) \in Nat
         /\ wire["sequencer"][m] \in Nat /\ wire["orderer"][m] \in Nat
         /\ Held(m) \in Nat /\ offered[m] \in Nat /\ dropped[m] \in Nat /\ copied[m] \in Nat
         /\ One(response[m], "OK") \in Nat
  <2> USE <1>CountsAreNat
  <2>1. "sequencer" \in Hop /\ "orderer" \in Hop BY Zenon DEF Hop
  <2>2. queue["sequencer"] \in Seq(Message) /\ queue["orderer"] \in Seq(Message) BY <2>1, Zenon DEF TypeInv
  <2>3. wire["sequencer"] \in [Message -> Nat] /\ wire["orderer"] \in [Message -> Nat] BY <2>1, Zenon DEF TypeInv, Counters
  <2>4. One(response[m], "OK") \in Nat BY Zenon DEF One
  <2> QED BY <2>2, <2>3, <2>4, <1>CountIsNat, <1>HeldIsNat, Zenon DEF TypeInv, Counters
\* So are the sums.
<1>SumsAreNat.
  ASSUME TypeInv, NEW m \in Message
  PROVE  /\ Made(m) \in Nat /\ Way("sequencer", m) \in Nat /\ Way("orderer", m) \in Nat
         /\ Ended(m) \in Nat /\ Held(m) + offered[m] \in Nat
  <2> USE <1>SumsAreNat
  <2>1. Made(m) \in Nat BY <1>CountsAreNat DEF Made
  <2>2. Way("sequencer", m) \in Nat /\ Way("orderer", m) \in Nat BY <1>CountsAreNat DEF Way
  <2>3. Held(m) + offered[m] \in Nat /\ Ended(m) \in Nat BY <1>CountsAreNat DEF Ended
  <2> QED BY <2>1, <2>2, <2>3, Zenon
\* Adding a copy to a hop, or taking one away.
<1>WireIs.
  ASSUME TypeInv, NEW h \in Hop, NEW m \in Message, NEW n \in Nat, OnWire(h, m, n)
  PROVE  /\ wire' \in [Hop -> Counters] /\ wire'[h][m] = n
         /\ \A k \in Hop, x \in Message : (k # h \/ x # m) => wire'[k][x] = wire[k][x]
  <2> USE <1>WireIs
  <2>1. wire' = [wire EXCEPT ![h] = [wire[h] EXCEPT ![m] = n]] BY Zenon DEF OnWire
  <2>2. wire \in [Hop -> Counters] /\ wire[h] \in [Message -> Nat] BY Zenon DEF TypeInv, Counters
  <2> DEFINE u == [wire[h] EXCEPT ![m] = n]
  <2>3. u \in Counters /\ u[m] = n /\ \A x \in Message : x # m => u[x] = wire[h][x] BY <2>2, Zenon DEF Counters
  <2>4. wire' = [wire EXCEPT ![h] = u] BY <2>1, Zenon
  <2> HIDE DEF u
  <2> QED BY <2>2, <2>3, <2>4, Zenon
\* A sum of counters before and after a step: it is enough to look at the envelope of the step.
<1>Balance.
  ASSUME PathInv, TypeInv', NEW m \in Message, Conserved(m)',
         \A x \in Message \ {m} :
           /\ response'[x] = response[x] /\ copied'[x] = copied[x]
           /\ offered'[x] = offered[x] /\ dropped'[x] = dropped[x] /\ Held(x)' = Held(x)
           /\ \A h \in Hop : wire'[h][x] = wire[h][x] /\ Count(queue'[h], x) = Count(queue[h], x)
  PROVE  PathInv'
  <2> USE <1>Balance
  <2>1. \A x \in Message : Conserved(x) BY ConservedIs, Zenon DEF PathInv
  <2>2. ASSUME NEW x \in Message, x # m PROVE Conserved(x)'
    <3>1. "sequencer" \in Hop /\ "orderer" \in Hop BY Zenon DEF Hop
    <3>2. Conserved(x) /\ x \in Message \ {m} BY <2>1, <2>2, Zenon
    <3>3. Made(x)' = Made(x) /\ Ended(x)' = Ended(x) BY <3>2, Zenon DEF Made, Ended
    <3>4. Way("sequencer", x)' = Way("sequencer", x) /\ Way("orderer", x)' = Way("orderer", x)
      BY <3>1, <3>2, Zenon DEF Way
    <3> QED BY <3>2, <3>3, <3>4, Zenon DEF Conserved
  <2>3. \A x \in Message : Conserved(x)' BY <2>2, Zenon
  <2>4. CopiesAreConserved'
    <3>1. \A x : /\ InQueue("sequencer", x)' = Count(queue["sequencer"], x)'
                 /\ InQueue("orderer", x)' = Count(queue["orderer"], x)'
      BY Zenon DEF InQueue, Count, Places
    <3>2. \A x : One(response[x], "OK")' = IF response'[x] = "OK" THEN 1 ELSE 0 BY Zenon DEF One
    <3>3. \A x : /\ OnTheWay("sequencer", x)' = Way("sequencer", x)'
                 /\ OnTheWay("orderer", x)' = Way("orderer", x)'
      BY <3>1, Zenon DEF OnTheWay, Way
    <3>4. \A x : Ended(x)' = Cardinality(processing' \cap {x}) + offered'[x] + dropped'[x] BY Zenon DEF Ended, Held
    <3>5. \A x : Made(x)' = (IF response'[x] = "OK" THEN 1 ELSE 0) + copied'[x] BY <3>2, Zenon DEF Made
    <3>6. \A x \in Message : Made(x)' = Way("sequencer", x)' + Way("orderer", x)' + Ended(x)' BY <2>3, Zenon DEF Conserved
    <3>7. ASSUME NEW x \in Message
          PROVE  (IF response'[x] = "OK" THEN 1 ELSE 0) + copied'[x]
                   = OnTheWay("sequencer", x)' + OnTheWay("orderer", x)'
                     + (Cardinality(processing' \cap {x}) + offered'[x] + dropped'[x])
      BY <3>3, <3>4, <3>5, <3>6, Zenon
    <3> QED BY <3>7, Zenon DEF CopiesAreConserved
  <2> QED BY <2>4, Zenon DEF PathInv
\* Submit sends one copy to the sequencer, or none.
<1>SubmitStep. ASSUME PathInv, NEW m \in Message, submitNonBFT(m) PROVE PathInv'
  <2> USE <1>SubmitStep
  <2>0. TypeInv /\ Conserved(m) BY ConservedIs, Zenon DEF PathInv
  <2>1. PICK sent \in BOOLEAN :
          /\ response[m] = "none"
          /\ response' = [response EXCEPT ![m] = IF sent THEN "OK" ELSE "error"]
          /\ wire' = IF sent THEN [wire EXCEPT !["sequencer"][m] = @ + 1] ELSE wire
          /\ UNCHANGED <<queue, processing, offered, dropped, copied>>
    BY Zenon DEF submitNonBFT
  <2>2. /\ response' \in [Message -> {"none", "OK", "error"}]
        /\ response'[m] = IF sent THEN "OK" ELSE "error"
        /\ \A x \in Message \ {m} : response'[x] = response[x]
    BY <2>0, <2>1, Zenon DEF TypeInv
  <2>3. /\ wire' \in [Hop -> Counters]
        /\ wire'["sequencer"][m] = wire["sequencer"][m] + (IF sent THEN 1 ELSE 0)
        /\ \A k \in Hop, x \in Message : (k # "sequencer" \/ x # m) => wire'[k][x] = wire[k][x]
    <3>1. wire \in [Hop -> Counters] /\ "sequencer" \in Hop /\ wire["sequencer"][m] \in Nat
      BY <2>0, <1>CountsAreNat, Zenon DEF TypeInv, Hop
    <3>2. CASE ~sent BY <2>1, <3>1, <3>2
    <3>3. CASE sent
      <4> DEFINE n == wire["sequencer"][m] + 1
      <4>1. n \in Nat /\ n = wire["sequencer"][m] + 1 BY <3>1
      <4>2. OnWire("sequencer", m, n) BY <2>1, <3>3, Zenon DEF OnWire
      <4> HIDE DEF n
      <4>3. /\ wire' \in [Hop -> Counters] /\ wire'["sequencer"][m] = n
            /\ \A k \in Hop, x \in Message : (k # "sequencer" \/ x # m) => wire'[k][x] = wire[k][x]
        BY <2>0, <3>1, <4>1, <4>2, <1>WireIs
      <4> QED BY <3>3, <4>1, <4>3, Zenon
    <3> QED BY <3>2, <3>3, Zenon
  <2>4. TypeInv' BY <2>0, <2>1, <2>2, <2>3, Zenon DEF TypeInv
  <2>5. Held(m)' = Held(m) /\ \A x \in Message : Held(x)' = Held(x) BY <2>1, Zenon DEF Held
  <2>6. wire'["orderer"][m] = wire["orderer"][m] BY <2>3, Zenon DEF Hop
  <2>7. Conserved(m)'
    <3>1. PICK k \in Nat : k = IF sent THEN 1 ELSE 0 OBVIOUS
    <3>2. /\ One(response'[m], "OK") = k /\ One(response[m], "OK") = 0
          /\ wire'["sequencer"][m] = wire["sequencer"][m] + k
      BY <2>1, <2>2, <2>3, <3>1, Zenon DEF One
    <3>3. /\ wire["sequencer"][m] \in Nat /\ Count(queue["sequencer"], m) \in Nat /\ copied[m] \in Nat
      BY <2>0, <1>CountsAreNat, Zenon
    <3>4. Made(m)' = Made(m) + k BY <2>1, <3>1, <3>2, <3>3 DEF Made
    <3>5. Way("sequencer", m)' = Way("sequencer", m) + k BY <2>1, <3>1, <3>2, <3>3 DEF Way
    <3>6. Way("orderer", m)' = Way("orderer", m) /\ Ended(m)' = Ended(m) BY <2>1, <2>5, <2>6, Zenon DEF Way, Ended
    <3>7. /\ Made(m) \in Nat /\ Way("sequencer", m) \in Nat /\ Way("orderer", m) \in Nat /\ Ended(m) \in Nat
      BY <2>0, <1>SumsAreNat, Zenon
    <3>8. Made(m) = Way("sequencer", m) + Way("orderer", m) + Ended(m) BY <2>0, Zenon DEF Conserved
    <3>9. Made(m) + k = (Way("sequencer", m) + k) + Way("orderer", m) + Ended(m) BY <3>1, <3>7, <3>8
    <3> QED BY <3>4, <3>5, <3>6, <3>9, Zenon DEF Conserved
  <2> QED BY <2>1, <2>2, <2>3, <2>4, <2>5, <2>7, <1>Balance, Zenon
\* The network loses a copy.
<1>LoseStep. ASSUME PathInv, NEW h \in Hop, NEW m \in Message, Lose(h, m) PROVE PathInv'
  <2> USE <1>LoseStep
  <2>0. TypeInv /\ Conserved(m) BY ConservedIs, Zenon DEF PathInv
  <2>1. /\ wire[h][m] > 0 /\ wire' = [wire EXCEPT ![h][m] = wire[h][m] - 1]
        /\ dropped' = [dropped EXCEPT ![m] = @ + 1]
        /\ UNCHANGED <<response, queue, processing, offered, copied>>
    BY Zenon DEF Lose, Drop
  <2>2. dropped' \in Counters /\ dropped'[m] = dropped[m] + 1 /\ \A x \in Message \ {m} : dropped'[x] = dropped[x]
    BY <2>0, <2>1 DEF TypeInv, Counters
  <2>3. wire \in [Hop -> Counters] /\ wire[h][m] \in Nat BY <2>0, Zenon DEF TypeInv, Counters
  <2>4. /\ wire' \in [Hop -> Counters] /\ wire'[h][m] = wire[h][m] - 1
        /\ \A k \in Hop, x \in Message : (k # h \/ x # m) => wire'[k][x] = wire[k][x]
    <3> DEFINE n == wire[h][m] - 1
    <3>1. n \in Nat /\ n = wire[h][m] - 1 /\ OnWire(h, m, n) BY <2>1, <2>3 DEF OnWire
    <3> HIDE DEF n
    <3>2. /\ wire' \in [Hop -> Counters] /\ wire'[h][m] = n
          /\ \A k \in Hop, x \in Message : (k # h \/ x # m) => wire'[k][x] = wire[k][x]
      BY <2>0, <3>1, <1>WireIs
    <3> QED BY <3>1, <3>2, Zenon
  <2>5. TypeInv' BY <2>0, <2>1, <2>2, <2>4, Zenon DEF TypeInv
  <2>6. \A x \in Message : Held(x)' = Held(x) BY <2>1, Zenon DEF Held
  <2>7. Conserved(m)'
    <3>1. Count(queue[h], m) \in Nat /\ dropped[m] \in Nat /\ Held(m) + offered[m] \in Nat
      BY <2>0, <1>CountsAreNat, <1>SumsAreNat, Zenon DEF Hop
    <3>2. Way(h, m) = Way(h, m)' + 1 /\ Way(h, m)' \in Nat BY <2>1, <2>3, <2>4, <3>1 DEF Way
    <3>3. Ended(m)' = Ended(m) + 1
      <4>1. Ended(m)' = Held(m) + offered[m] + (dropped[m] + 1) BY <2>1, <2>2, <2>6, Zenon DEF Ended
      <4> QED BY <3>1, <4>1 DEF Ended
    <3>w. Way(h, m) = Way(h, m)' + 1 /\ Way(h, m)' \in Nat /\ Ended(m)' = Ended(m) + 1 BY <3>2, <3>3, Zenon
    <3>o. \A k \in Hop : k # h => Way(k, m)' = Way(k, m) BY <2>1, <2>4, Zenon DEF Way
    <3>e. Made(m)' = Made(m) BY <2>1, Zenon DEF Made
    <3>n. /\ Made(m) \in Nat /\ Way("sequencer", m) \in Nat /\ Way("orderer", m) \in Nat /\ Ended(m) \in Nat
      BY <2>0, <1>SumsAreNat, Zenon
    <3>c. Made(m) = Way("sequencer", m) + Way("orderer", m) + Ended(m) BY <2>0, Zenon DEF Conserved
    <3>h. h = "sequencer" \/ h = "orderer" BY Zenon DEF Hop
    <3>s. CASE h = "sequencer"
      <4>1. Way("orderer", m)' = Way("orderer", m) BY <3>o, <3>s, Zenon DEF Hop
      <4>2. Made(m) = Way("sequencer", m)' + Way("orderer", m) + Ended(m)' BY <3>w, <3>n, <3>c, <3>s
      <4> QED BY <3>e, <4>1, <4>2, Zenon DEF Conserved
    <3>r. CASE h = "orderer"
      <4>1. Way("sequencer", m)' = Way("sequencer", m) BY <3>o, <3>r, Zenon DEF Hop
      <4>2. Made(m) = Way("sequencer", m) + Way("orderer", m)' + Ended(m)' BY <3>w, <3>n, <3>c, <3>r
      <4> QED BY <3>e, <4>1, <4>2, Zenon DEF Conserved
    <3> QED BY <3>h, <3>s, <3>r, Zenon
  <2> QED BY <2>1, <2>2, <2>4, <2>5, <2>6, <2>7, <1>Balance, Zenon
\* The network makes a copy.
<1>DuplicateStep. ASSUME PathInv, NEW h \in Hop, NEW m \in Message, Duplicate(h, m) PROVE PathInv'
  <2> USE <1>DuplicateStep
  <2>0. TypeInv /\ Conserved(m) BY ConservedIs, Zenon DEF PathInv
  <2>1. /\ wire' = [wire EXCEPT ![h][m] = wire[h][m] + 1]
        /\ copied' = [copied EXCEPT ![m] = @ + 1]
        /\ UNCHANGED <<response, queue, processing, offered, dropped>>
    BY Zenon DEF Duplicate
  <2>2. copied' \in Counters /\ copied'[m] = copied[m] + 1 /\ \A x \in Message \ {m} : copied'[x] = copied[x]
    BY <2>0, <2>1 DEF TypeInv, Counters
  <2>3. wire \in [Hop -> Counters] /\ wire[h][m] \in Nat BY <2>0, Zenon DEF TypeInv, Counters
  <2>4. /\ wire' \in [Hop -> Counters] /\ wire'[h][m] = wire[h][m] + 1
        /\ \A k \in Hop, x \in Message : (k # h \/ x # m) => wire'[k][x] = wire[k][x]
    <3> DEFINE n == wire[h][m] + 1
    <3>1. n \in Nat /\ n = wire[h][m] + 1 /\ OnWire(h, m, n) BY <2>1, <2>3 DEF OnWire
    <3> HIDE DEF n
    <3>2. /\ wire' \in [Hop -> Counters] /\ wire'[h][m] = n
          /\ \A k \in Hop, x \in Message : (k # h \/ x # m) => wire'[k][x] = wire[k][x]
      BY <2>0, <3>1, <1>WireIs
    <3> QED BY <3>1, <3>2, Zenon
  <2>5. TypeInv' BY <2>0, <2>1, <2>2, <2>4, Zenon DEF TypeInv
  <2>6. \A x \in Message : Held(x)' = Held(x) BY <2>1, Zenon DEF Held
  <2>7. Conserved(m)'
    <3>1. Count(queue[h], m) \in Nat /\ copied[m] \in Nat /\ One(response[m], "OK") \in Nat
      BY <2>0, <1>CountsAreNat, Zenon DEF Hop
    <3>2. Way(h, m)' = Way(h, m) + 1 BY <2>1, <2>3, <2>4, <3>1 DEF Way
    <3>3. Made(m)' = Made(m) + 1 BY <2>1, <2>2, <3>1 DEF Made
    <3>w. Way(h, m)' = Way(h, m) + 1 /\ Made(m)' = Made(m) + 1 BY <3>2, <3>3, Zenon
    <3>o. \A k \in Hop : k # h => Way(k, m)' = Way(k, m) BY <2>1, <2>4, Zenon DEF Way
    <3>e. Ended(m)' = Ended(m) BY <2>1, <2>6, Zenon DEF Ended
    <3>n. /\ Made(m) \in Nat /\ Way("sequencer", m) \in Nat /\ Way("orderer", m) \in Nat /\ Ended(m) \in Nat
      BY <2>0, <1>SumsAreNat, Zenon
    <3>c. Made(m) = Way("sequencer", m) + Way("orderer", m) + Ended(m) BY <2>0, Zenon DEF Conserved
    <3>h. h = "sequencer" \/ h = "orderer" BY Zenon DEF Hop
    <3>s. CASE h = "sequencer"
      <4>1. Way("orderer", m)' = Way("orderer", m) BY <3>o, <3>s, Zenon DEF Hop
      <4>2. Made(m)' = Way("sequencer", m)' + Way("orderer", m) + Ended(m) BY <3>w, <3>n, <3>c, <3>s
      <4> QED BY <3>e, <4>1, <4>2, Zenon DEF Conserved
    <3>r. CASE h = "orderer"
      <4>1. Way("sequencer", m)' = Way("sequencer", m) BY <3>o, <3>r, Zenon DEF Hop
      <4>2. Made(m)' = Way("sequencer", m) + Way("orderer", m)' + Ended(m) BY <3>w, <3>n, <3>c, <3>r
      <4> QED BY <3>e, <4>1, <4>2, Zenon DEF Conserved
    <3> QED BY <3>h, <3>s, <3>r, Zenon
  <2> QED BY <2>1, <2>2, <2>4, <2>5, <2>6, <2>7, <1>Balance, Zenon
\* A queue that gets one more, or gives its head away.
<1>QueueGrows.
  ASSUME TypeInv, NEW h \in Hop, NEW m \in Message, queue' = [queue EXCEPT ![h] = Append(@, m)]
  PROVE  /\ queue' \in [Hop -> Seq(Message)]
         /\ Count(queue'[h], m) = Count(queue[h], m) + 1
         /\ \A k \in Hop : k # h => queue'[k] = queue[k]
         /\ \A x \in Message \ {m}, k \in Hop : Count(queue'[k], x) = Count(queue[k], x)
  <2> USE <1>QueueGrows
  <2>1. queue \in [Hop -> Seq(Message)] /\ queue[h] \in Seq(Message) BY Zenon DEF TypeInv
  <2>2. /\ queue' \in [Hop -> Seq(Message)] /\ queue'[h] = Append(queue[h], m)
        /\ \A k \in Hop : k # h => queue'[k] = queue[k]
    BY <2>1
  <2>3. \A x : Count(Append(queue[h], m), x) = Count(queue[h], x) + One(m, x) BY <2>1, <1>CountOfAppend, Zenon
  <2>4. ASSUME NEW x \in Message \ {m} PROVE Count(queue'[h], x) = Count(queue[h], x)
    <3>1. Count(queue[h], x) \in Nat /\ One(m, x) = 0 BY <2>1, <1>CountIsNat, Zenon DEF One
    <3> QED BY <2>2, <2>3, <3>1
  <2>5. One(m, m) = 1 BY Zenon DEF One
  <2> QED BY <2>2, <2>3, <2>4, <2>5, Zenon
\* Taking the first datagram of a socket.
<1>QueueShrinks.
  ASSUME TypeInv, NEW h \in Hop, queue[h] # <<>>, NEW m, m = Head(queue[h]),
         queue' = [queue EXCEPT ![h] = Tail(@)]
  PROVE  /\ m \in Message
         /\ queue' \in [Hop -> Seq(Message)]
         /\ Count(queue[h], m) = Count(queue'[h], m) + 1 /\ Count(queue'[h], m) \in Nat
         /\ \A k \in Hop : k # h => queue'[k] = queue[k]
         /\ \A x \in Message \ {m}, k \in Hop : Count(queue'[k], x) = Count(queue[k], x)
  <2> USE <1>QueueShrinks
  <2>1. queue \in [Hop -> Seq(Message)] /\ queue[h] \in Seq(Message) BY Zenon DEF TypeInv
  <2>2. /\ m \in Message /\ Tail(queue[h]) \in Seq(Message)
        /\ queue' \in [Hop -> Seq(Message)] /\ queue'[h] = Tail(queue[h])
        /\ \A k \in Hop : k # h => queue'[k] = queue[k]
    BY <2>1
  <2>3. \A x : Count(queue[h], x) = Count(Tail(queue[h]), x) + One(m, x) BY <2>1, <1>CountOfTail, Zenon
  <2>4. \A x : Count(Tail(queue[h]), x) \in Nat BY <2>2, <1>CountIsNat, Zenon
  <2>5. ASSUME NEW x \in Message \ {m} PROVE Count(queue'[h], x) = Count(queue[h], x)
    <3>1. One(m, x) = 0 BY Zenon DEF One
    <3> QED BY <2>2, <2>3, <2>4, <3>1
  <2>6. One(m, m) = 1 BY Zenon DEF One
  <2> QED BY <2>2, <2>3, <2>4, <2>5, <2>6, Zenon
\* A copy arrives at the sequencer, which sends it on, or at a socket, which may be full.
<1>ArriveStep. ASSUME PathInv, NEW h \in Hop, NEW m \in Message, Arrive(h, m) PROVE PathInv'
  <2> USE <1>ArriveStep
  <2>0. TypeInv /\ Conserved(m) BY ConservedIs, Zenon DEF PathInv
  <2>1. /\ wire[h][m] > 0 /\ wire' = [wire EXCEPT ![h][m] = wire[h][m] - 1]
        /\ UNCHANGED <<response, processing, offered, copied>>
        /\ \/ queue' = [queue EXCEPT ![h] = Append(@, m)] /\ dropped' = dropped
           \/ queue' = queue /\ dropped' = [dropped EXCEPT ![m] = @ + 1]
    BY Zenon DEF Arrive, Drop
  <2>2. wire \in [Hop -> Counters] /\ wire[h][m] \in Nat BY <2>0, Zenon DEF TypeInv, Counters
  <2>3. /\ wire' \in [Hop -> Counters] /\ wire'[h][m] = wire[h][m] - 1
        /\ \A k \in Hop, x \in Message : (k # h \/ x # m) => wire'[k][x] = wire[k][x]
    <3> DEFINE n == wire[h][m] - 1
    <3>1. n \in Nat /\ n = wire[h][m] - 1 /\ OnWire(h, m, n) BY <2>1, <2>2 DEF OnWire
    <3> HIDE DEF n
    <3>2. /\ wire' \in [Hop -> Counters] /\ wire'[h][m] = n
          /\ \A k \in Hop, x \in Message : (k # h \/ x # m) => wire'[k][x] = wire[k][x]
      BY <2>0, <3>1, <1>WireIs
    <3> QED BY <3>1, <3>2, Zenon
  <2>w. wire[h][m] = wire'[h][m] + 1 /\ wire'[h][m] \in Nat BY <2>1, <2>2, <2>3
  <2>4. /\ queue' \in [Hop -> Seq(Message)] /\ dropped' \in Counters
        /\ Count(queue'[h], m) + dropped'[m] = Count(queue[h], m) + dropped[m] + 1
        /\ Count(queue'[h], m) \in Nat /\ dropped'[m] \in Nat
        /\ \A k \in Hop : k # h => queue'[k] = queue[k]
        /\ \A x \in Message \ {m} : dropped'[x] = dropped[x]
                                    /\ \A k \in Hop : Count(queue'[k], x) = Count(queue[k], x)
    <3>1. Count(queue[h], m) \in Nat /\ dropped \in Counters /\ dropped[m] \in Nat /\ queue \in [Hop -> Seq(Message)]
      BY <2>0, <1>CountIsNat, Zenon DEF TypeInv, Counters
    <3>2. CASE queue' = [queue EXCEPT ![h] = Append(@, m)] /\ dropped' = dropped
      <4>1. /\ queue' \in [Hop -> Seq(Message)]
            /\ Count(queue'[h], m) = Count(queue[h], m) + 1
            /\ \A k \in Hop : k # h => queue'[k] = queue[k]
            /\ \A x \in Message \ {m}, k \in Hop : Count(queue'[k], x) = Count(queue[k], x)
        BY <2>0, <3>2, <1>QueueGrows, Zenon
      <4>2. Count(queue'[h], m) \in Nat /\ dropped'[m] = dropped[m] BY <3>1, <3>2, <4>1
      <4>3. Count(queue'[h], m) + dropped'[m] = Count(queue[h], m) + dropped[m] + 1
        BY <3>1, <4>1, <4>2
      <4> QED BY <3>1, <3>2, <4>1, <4>2, <4>3, Zenon
    <3>3. CASE queue' = queue /\ dropped' = [dropped EXCEPT ![m] = @ + 1]
      <4>1. /\ dropped' \in Counters /\ dropped'[m] = dropped[m] + 1
            /\ \A x \in Message \ {m} : dropped'[x] = dropped[x]
        BY <3>1, <3>3 DEF Counters
      <4>2. Count(queue'[h], m) = Count(queue[h], m) /\ dropped'[m] \in Nat BY <3>1, <3>3, <4>1
      <4>3. Count(queue'[h], m) + dropped'[m] = Count(queue[h], m) + dropped[m] + 1
        BY <3>1, <4>1, <4>2
      <4>4. /\ \A k \in Hop : queue'[k] = queue[k]
            /\ \A x \in Message \ {m}, k \in Hop : Count(queue'[k], x) = Count(queue[k], x)
        BY <3>3, Zenon
      <4> QED BY <3>1, <3>3, <4>1, <4>2, <4>3, <4>4, Zenon
    <3> QED BY <2>1, <3>2, <3>3, Zenon
  <2>5. TypeInv' BY <2>0, <2>1, <2>3, <2>4, Zenon DEF TypeInv
  <2>6. \A x \in Message : Held(x)' = Held(x) BY <2>1, Zenon DEF Held
  <2>7. Conserved(m)'
    <3>1. Count(queue[h], m) \in Nat /\ dropped[m] \in Nat BY <2>0, <1>CountsAreNat, Zenon DEF Hop
    <3>2. PICK e \in Nat : e = Held(m) + offered[m] BY <2>0, <1>SumsAreNat, Zenon
    <3>3. Ended(m) = e + dropped[m] /\ Ended(m)' = e + dropped'[m] BY <2>1, <2>6, <3>2, Zenon DEF Ended
    <3>p. /\ wire[h][m] = wire'[h][m] + 1 /\ wire'[h][m] \in Nat
          /\ Count(queue'[h], m) \in Nat /\ dropped'[m] \in Nat
          /\ Count(queue'[h], m) + dropped'[m] = Count(queue[h], m) + dropped[m] + 1
      BY <2>w, <2>4, Zenon
    <3>4. Way(h, m)' \in Nat /\ Ended(m)' \in Nat
      <4>1. Way(h, m)' \in Nat BY <3>p DEF Way
      <4>2. Ended(m)' \in Nat BY <3>p, <3>2, <3>3
      <4> QED BY <4>1, <4>2, Zenon
    <3>5. (wire'[h][m] + Count(queue'[h], m)) + (e + dropped'[m]) = (wire[h][m] + Count(queue[h], m)) + (e + dropped[m])
      <4>1. PICK c \in Nat, d \in Nat : c = Count(queue[h], m) /\ d = dropped[m] BY <3>1, Zenon
      <4>2. PICK u \in Nat, b \in Nat, f \in Nat : u = wire'[h][m] /\ b = Count(queue'[h], m) /\ f = dropped'[m] BY <3>p, Zenon
      <4>3. b + f = c + d + 1 BY <3>p, <4>1, <4>2, Zenon
      <4>4. (u + b) + (e + f) = ((u + 1) + c) + (e + d) BY <4>3
      <4> QED BY <3>p, <4>1, <4>2, <4>4, Zenon
    <3>w. Way(h, m)' \in Nat /\ Ended(m)' \in Nat /\ Way(h, m)' + Ended(m)' = Way(h, m) + Ended(m)
      BY <3>3, <3>4, <3>5, Zenon DEF Way
    <3>o. \A k \in Hop : k # h => Way(k, m)' = Way(k, m) BY <2>3, <2>4, Zenon DEF Way
    <3>e. Made(m)' = Made(m) BY <2>1, Zenon DEF Made
    <3>n. /\ Made(m) \in Nat /\ Way("sequencer", m) \in Nat /\ Way("orderer", m) \in Nat /\ Ended(m) \in Nat
      BY <2>0, <1>SumsAreNat, Zenon
    <3>c. Made(m) = Way("sequencer", m) + Way("orderer", m) + Ended(m) BY <2>0, Zenon DEF Conserved
    <3>h. h = "sequencer" \/ h = "orderer" BY Zenon DEF Hop
    <3>s. CASE h = "sequencer"
      <4>1. Way("orderer", m)' = Way("orderer", m) BY <3>o, <3>s, Zenon DEF Hop
      <4>2. Made(m) = Way("sequencer", m)' + Way("orderer", m) + Ended(m)' BY <3>w, <3>n, <3>c, <3>s
      <4> QED BY <3>e, <4>1, <4>2, Zenon DEF Conserved
    <3>r. CASE h = "orderer"
      <4>1. Way("sequencer", m)' = Way("sequencer", m) BY <3>o, <3>r, Zenon DEF Hop
      <4>2. Made(m) = Way("sequencer", m) + Way("orderer", m)' + Ended(m)' BY <3>w, <3>n, <3>c, <3>r
      <4> QED BY <3>e, <4>1, <4>2, Zenon DEF Conserved
    <3> QED BY <3>h, <3>s, <3>r, Zenon
  <2> QED BY <2>1, <2>3, <2>4, <2>5, <2>6, <2>7, <1>Balance, Zenon
\* The sequencer passes the datagram on, or drops it.
<1>ForwardStep. ASSUME PathInv, Forward \/ ForwardFails PROVE PathInv'
  <2> USE <1>ForwardStep
  <2>0. TypeInv /\ \A x \in Message : Conserved(x) BY ConservedIs, Zenon DEF PathInv
  <2>h. queue["sequencer"] # <<>> BY Zenon DEF Forward, ForwardFails
  <2>2. "sequencer" \in Hop /\ "orderer" \in Hop BY Zenon DEF Hop
  <2>m. PICK m \in Message : m = Head(queue["sequencer"]) BY <2>0, <2>h, <2>2 DEF TypeInv
  <2>1. /\ queue["sequencer"] # <<>> /\ queue' = [queue EXCEPT !["sequencer"] = Tail(@)]
        /\ UNCHANGED <<response, processing, offered, copied>>
        /\ \/ wire' = [wire EXCEPT !["orderer"][m] = wire["orderer"][m] + 1] /\ dropped' = dropped
           \/ wire' = wire /\ dropped' = [dropped EXCEPT ![m] = @ + 1]
    BY <2>m, Zenon DEF Forward, ForwardFails, Drop
  <2>3. /\ m \in Message
        /\ queue' \in [Hop -> Seq(Message)]
        /\ Count(queue["sequencer"], m) = Count(queue'["sequencer"], m) + 1 /\ Count(queue'["sequencer"], m) \in Nat
        /\ \A k \in Hop : k # "sequencer" => queue'[k] = queue[k]
        /\ \A x \in Message \ {m}, k \in Hop : Count(queue'[k], x) = Count(queue[k], x)
    BY <2>0, <2>1, <2>2, <2>m, <1>QueueShrinks, Zenon
  <2>4. queue'["orderer"] = queue["orderer"] BY <2>2, <2>3, Zenon
  <2>5. /\ wire' \in [Hop -> Counters] /\ dropped' \in Counters
        /\ wire'["orderer"][m] + dropped'[m] = wire["orderer"][m] + dropped[m] + 1
        /\ wire'["orderer"][m] \in Nat /\ dropped'[m] \in Nat /\ wire'["sequencer"][m] = wire["sequencer"][m]
        /\ \A x \in Message \ {m} : dropped'[x] = dropped[x] /\ \A k \in Hop : wire'[k][x] = wire[k][x]
    <3>1. /\ wire \in [Hop -> Counters] /\ wire["orderer"][m] \in Nat
          /\ dropped \in Counters /\ dropped[m] \in Nat
      BY <2>0, <2>2, <2>3, Zenon DEF TypeInv, Counters
    <3>2. CASE wire' = [wire EXCEPT !["orderer"][m] = wire["orderer"][m] + 1] /\ dropped' = dropped
      <4> DEFINE n == wire["orderer"][m] + 1
      <4>1. n \in Nat /\ n = wire["orderer"][m] + 1 /\ OnWire("orderer", m, n)
        BY <3>1, <3>2 DEF OnWire
      <4> HIDE DEF n
      <4>2. /\ wire' \in [Hop -> Counters] /\ wire'["orderer"][m] = n
            /\ \A k \in Hop, x \in Message : (k # "orderer" \/ x # m) => wire'[k][x] = wire[k][x]
        BY <2>0, <2>2, <2>3, <4>1, <1>WireIs
      <4>3. wire'["sequencer"][m] = wire["sequencer"][m] BY <2>2, <2>3, <4>2, Zenon
      <4>4. wire'["orderer"][m] \in Nat /\ dropped'[m] = dropped[m] BY <3>2, <4>1, <4>2, Zenon
      <4>5. wire'["orderer"][m] + dropped'[m] = wire["orderer"][m] + dropped[m] + 1
        BY <3>1, <4>1, <4>2, <4>4
      <4>6. \A x \in Message \ {m} : dropped'[x] = dropped[x] /\ \A k \in Hop : wire'[k][x] = wire[k][x]
        BY <3>2, <4>2, Zenon
      <4> QED BY <3>1, <3>2, <4>2, <4>3, <4>4, <4>5, <4>6, Zenon
    <3>3. CASE wire' = wire /\ dropped' = [dropped EXCEPT ![m] = @ + 1]
      <4>1. /\ dropped' \in Counters /\ dropped'[m] = dropped[m] + 1
            /\ \A x \in Message \ {m} : dropped'[x] = dropped[x]
        BY <2>3, <3>1, <3>3 DEF Counters
      <4> QED BY <3>1, <3>3, <4>1
    <3> QED BY <2>1, <3>2, <3>3, Zenon
  <2>6. TypeInv' BY <2>0, <2>1, <2>3, <2>5, Zenon DEF TypeInv
  <2>7. \A x \in Message : Held(x)' = Held(x) BY <2>1, Zenon DEF Held
  <2>8. Conserved(m)'
    <3>1. Count(queue["orderer"], m) \in Nat /\ wire["sequencer"][m] \in Nat /\ wire["orderer"][m] \in Nat /\ dropped[m] \in Nat
      BY <2>0, <1>CountsAreNat, Zenon
    <3>2. PICK e \in Nat : e = Held(m) + offered[m] BY <2>0, <1>SumsAreNat, Zenon
    <3>3. Ended(m) = e + dropped[m] /\ Ended(m)' = e + dropped'[m] BY <2>1, <2>7, <3>2, Zenon DEF Ended
    <3>p. /\ Count(queue["sequencer"], m) = Count(queue'["sequencer"], m) + 1 /\ Count(queue'["sequencer"], m) \in Nat
          /\ wire'["orderer"][m] + dropped'[m] = wire["orderer"][m] + dropped[m] + 1
          /\ wire'["orderer"][m] \in Nat /\ dropped'[m] \in Nat /\ wire'["sequencer"][m] = wire["sequencer"][m]
      BY <2>3, <2>5, Zenon
    <3>4. Way("sequencer", m) = Way("sequencer", m)' + 1 /\ Way("sequencer", m)' \in Nat
      BY <3>p, <3>1 DEF Way
    <3>5. Way("orderer", m)' \in Nat /\ Ended(m)' \in Nat
      <4>1. Way("orderer", m)' \in Nat BY <2>4, <3>1, <3>p DEF Way
      <4>2. Ended(m)' \in Nat BY <3>p, <3>2, <3>3
      <4> QED BY <4>1, <4>2, Zenon
    <3>6. (wire'["orderer"][m] + Count(queue["orderer"], m)) + (e + dropped'[m])
            = ((wire["orderer"][m] + Count(queue["orderer"], m)) + (e + dropped[m])) + 1
      <4>1. PICK w \in Nat, c \in Nat, d \in Nat :
              w = wire["orderer"][m] /\ c = Count(queue["orderer"], m) /\ d = dropped[m]
        BY <3>1, Zenon
      <4>2. PICK u \in Nat, f \in Nat : u = wire'["orderer"][m] /\ f = dropped'[m] BY <3>p, Zenon
      <4>3. u + f = w + d + 1 BY <3>p, <4>1, <4>2, Zenon
      <4>4. (u + c) + (e + f) = ((w + c) + (e + d)) + 1 BY <4>3
      <4> QED BY <4>1, <4>2, <4>4, Zenon
    <3>7. Way("orderer", m)' + Ended(m)' = (Way("orderer", m) + Ended(m)) + 1 BY <2>4, <3>3, <3>6, Zenon DEF Way
    <3>8. Made(m)' = Made(m) BY <2>1, Zenon DEF Made
    <3>9. Made(m) = Way("sequencer", m) + Way("orderer", m) + Ended(m) BY <2>0, Zenon DEF Conserved
    <3>10. Way("orderer", m) \in Nat /\ Ended(m) \in Nat BY <2>0, <1>SumsAreNat, Zenon
    <3>11. Made(m) = Way("sequencer", m)' + Way("orderer", m)' + Ended(m)' BY <3>4, <3>5, <3>7, <3>9, <3>10
    <3> QED BY <3>8, <3>11, Zenon DEF Conserved
  <2> QED BY <2>1, <2>3, <2>5, <2>6, <2>7, <2>8, <1>Balance, Zenon
\* ReadFromUDP takes a datagram from the socket.
<1>ReadStep. ASSUME PathInv, ReadFromUDP PROVE PathInv'
  <2> USE <1>ReadStep
  <2>0. TypeInv /\ \A x \in Message : Conserved(x) BY ConservedIs, Zenon DEF PathInv
  <2>h. queue["orderer"] # <<>> BY Zenon DEF ReadFromUDP
  <2>2. "sequencer" \in Hop /\ "orderer" \in Hop BY Zenon DEF Hop
  <2>m. PICK m \in Message : m = Head(queue["orderer"]) BY <2>0, <2>h, <2>2 DEF TypeInv
  <2>1. /\ queue["orderer"] # <<>> /\ queue' = [queue EXCEPT !["orderer"] = Tail(@)]
        /\ processing = {} /\ UNCHANGED <<response, wire, offered, copied>>
        /\ \/ processing' = {m} /\ dropped' = dropped
           \/ processing' = {} /\ dropped' = [dropped EXCEPT ![m] = @ + 1]
    BY <2>m, Zenon DEF ReadFromUDP, Drop
  <2>3. /\ m \in Message
        /\ queue' \in [Hop -> Seq(Message)]
        /\ Count(queue["orderer"], m) = Count(queue'["orderer"], m) + 1 /\ Count(queue'["orderer"], m) \in Nat
        /\ \A k \in Hop : k # "orderer" => queue'[k] = queue[k]
        /\ \A x \in Message \ {m}, k \in Hop : Count(queue'[k], x) = Count(queue[k], x)
    BY <2>0, <2>1, <2>2, <2>m, <1>QueueShrinks, Zenon
  <2>4. queue'["sequencer"] = queue["sequencer"] BY <2>2, <2>3, Zenon
  <2>5. /\ processing' \in SUBSET Message /\ (\A x, y \in processing' : x = y) /\ dropped' \in Counters
        /\ Held(m)' + dropped'[m] = Held(m) + dropped[m] + 1
        /\ Held(m)' \in Nat /\ dropped'[m] \in Nat
        /\ \A x \in Message \ {m} : dropped'[x] = dropped[x] /\ Held(x)' = Held(x)
    <3>1. dropped \in Counters /\ dropped[m] \in Nat BY <2>0, <2>3, Zenon DEF TypeInv, Counters
    <3>2. \A x : Held(x) = 0 BY <2>1, <1>HeldIs, Zenon DEF Held
    <3>3. CASE processing' = {m} /\ dropped' = dropped
      <4>1. \A x : Held(x)' = One(m, x) BY <3>3, <1>HeldIs, Zenon DEF Held
      <4>2. Held(m)' = 1 /\ \A x \in Message \ {m} : Held(x)' = 0 BY <4>1, Zenon DEF One
      <4>3. processing' \in SUBSET Message /\ \A x, y \in processing' : x = y BY <2>3, <3>3, Zenon
      <4>4. dropped'[m] = dropped[m] BY <3>3, Zenon
      <4>5. Held(m)' + dropped'[m] = Held(m) + dropped[m] + 1 BY <3>1, <3>2, <4>2, <4>4
      <4> QED BY <3>1, <3>2, <3>3, <4>2, <4>3, <4>5
    <3>4. CASE processing' = {} /\ dropped' = [dropped EXCEPT ![m] = @ + 1]
      <4>1. \A x : Held(x)' = 0 BY <3>4, <1>HeldIs, Zenon DEF Held
      <4> QED BY <2>3, <3>1, <3>2, <3>4, <4>1 DEF Counters
    <3> QED BY <2>1, <3>3, <3>4, Zenon
  <2>6. TypeInv' BY <2>0, <2>1, <2>3, <2>5, Zenon DEF TypeInv
  <2>7. Conserved(m)'
    <3>1. offered[m] \in Nat /\ wire["orderer"][m] \in Nat /\ Held(m) \in Nat /\ dropped[m] \in Nat
      BY <2>0, <1>CountsAreNat, Zenon
    <3>p. /\ Count(queue["orderer"], m) = Count(queue'["orderer"], m) + 1 /\ Count(queue'["orderer"], m) \in Nat
          /\ Held(m)' + dropped'[m] = Held(m) + dropped[m] + 1 /\ Held(m)' \in Nat /\ dropped'[m] \in Nat
      BY <2>3, <2>5, Zenon
    <3>2. Ended(m)' = Ended(m) + 1
      <4>1. Ended(m)' = Held(m)' + offered[m] + dropped'[m] BY <2>1, Zenon DEF Ended
      <4>2. Held(m)' + offered[m] + dropped'[m] = (Held(m) + offered[m] + dropped[m]) + 1 BY <3>p, <3>1
      <4> QED BY <4>1, <4>2, Zenon DEF Ended
    <3>w. wire'["orderer"][m] = wire["orderer"][m] BY <2>1, Zenon
    <3>3. Way("orderer", m) = Way("orderer", m)' + 1 /\ Way("orderer", m)' \in Nat BY <3>w, <3>p, <3>1 DEF Way
    <3>4. Made(m)' = Made(m) /\ Way("sequencer", m)' = Way("sequencer", m) BY <2>1, <2>4, Zenon DEF Made, Way
    <3>5. Made(m) = Way("sequencer", m) + Way("orderer", m) + Ended(m) BY <2>0, Zenon DEF Conserved
    <3>6. Way("sequencer", m) \in Nat /\ Ended(m) \in Nat BY <2>0, <1>SumsAreNat, Zenon
    <3>7. Made(m) = Way("sequencer", m) + Way("orderer", m)' + Ended(m)' BY <3>2, <3>3, <3>5, <3>6
    <3> QED BY <3>4, <3>7, Zenon DEF Conserved
  <2> QED BY <2>1, <2>3, <2>5, <2>6, <2>7, <1>Balance, Zenon
\* The server is done with its datagram.
<1>ProcessStep. ASSUME PathInv, NEW m \in Message, Process(m) PROVE PathInv'
  <2> USE <1>ProcessStep
  <2>0. TypeInv /\ Conserved(m) BY ConservedIs, Zenon DEF PathInv
  <2>1. /\ processing = {m} /\ processing' = {} /\ offered' = [offered EXCEPT ![m] = @ + 1]
        /\ UNCHANGED <<response, wire, queue, dropped, copied>>
    BY <2>0, Zenon DEF Process, TypeInv
  <2>2. offered' \in Counters /\ offered'[m] = offered[m] + 1 /\ \A x \in Message \ {m} : offered'[x] = offered[x]
    BY <2>0, <2>1 DEF TypeInv, Counters
  <2>3. (\A x : Held(x) = One(m, x)) /\ \A x : Held(x)' = 0 BY <2>1, <1>HeldIs, Zenon DEF Held
  <2>4. TypeInv' BY <2>0, <2>1, <2>2, Zenon DEF TypeInv
  <2>5. Held(m) = 1 /\ Held(m)' = 0 /\ \A x \in Message \ {m} : Held(x)' = Held(x) BY <2>3, Zenon DEF One
  <2>6. Conserved(m)'
    <3>1. offered[m] \in Nat /\ dropped[m] \in Nat BY <2>0, <1>CountsAreNat, Zenon
    <3>2. Ended(m)' = 0 + (offered[m] + 1) + dropped[m] /\ Ended(m) = 1 + offered[m] + dropped[m]
      BY <2>1, <2>2, <2>5, Zenon DEF Ended
    <3>3. Ended(m)' = Ended(m) BY <3>1, <3>2
    <3>4. /\ Made(m)' = Made(m)
          /\ Way("sequencer", m)' = Way("sequencer", m) /\ Way("orderer", m)' = Way("orderer", m)
      BY <2>1, Zenon DEF Made, Way
    <3> QED BY <2>0, <3>3, <3>4, Zenon DEF Conserved
  <2> QED BY <2>1, <2>2, <2>4, <2>5, <2>6, <1>Balance, Zenon
<1> SUFFICES ASSUME PathInv, [UNext]_uvars PROVE PathInv' OBVIOUS
<1>1. CASE UNext
  BY <1>1, <1>SubmitStep, <1>LoseStep, <1>DuplicateStep, <1>ArriveStep, <1>ForwardStep, <1>ReadStep, <1>ProcessStep, Zenon
  DEF UNext, Network
<1>2. CASE UNCHANGED uvars
  BY <1>2, Zenon DEF uvars, PathInv, TypeInv, CopiesAreConserved, OnTheWay, InQueue
<1> QED BY <1>1, <1>2, Zenon

--------------------------------------------------------------------------------
(* The counting, and the theorem *)

INSTANCE FiniteSetTheorems

\* A queue holds a natural number of copies of a message ...
LEMMA CountIsNat ==
  ASSUME NEW q \in Seq(Message), NEW m
  PROVE  IsFiniteSet(Places(q, m)) /\ Count(q, m) \in Nat
<1>1. Places(q, m) \in SUBSET (1 .. Len(q)) /\ Len(q) \in Nat BY DEF Places
<1>2. IsFiniteSet(1 .. Len(q)) BY <1>1, FS_Interval
<1>3. IsFiniteSet(Places(q, m)) BY <1>1, <1>2, FS_Subset, Zenon
<1> QED BY <1>3, FS_CardinalityType, Zenon DEF Count

\* ... none if it is empty ...
LEMMA CountOfEmpty == \A m : Count(<<>>, m) = 0
<1>1. \A m : Places(<<>>, m) = {} BY DEF Places
<1> QED BY <1>1, FS_EmptySet, Zenon DEF Count

\* ... one more when a copy joins it ...
LEMMA CountOfAppend ==
  ASSUME NEW q \in Seq(Message), NEW x \in Message, NEW m
  PROVE  Count(Append(q, x), m) = Count(q, m) + One(x, m)
<1> DEFINE n == Len(q)
           r == Append(q, x)
<1>1. /\ n \in Nat /\ DOMAIN q = 1 .. n /\ DOMAIN r = 1 .. n + 1 /\ r[n + 1] = x
      /\ \A i \in 1 .. n : r[i] = q[i]
  OBVIOUS
<1> HIDE DEF n, r
<1>2. IsFiniteSet(Places(q, m)) /\ Count(q, m) \in Nat BY CountIsNat, Zenon
<1>3. n + 1 \notin Places(q, m) BY <1>1 DEF Places
<1>4. CASE x = m
  <2>1. Places(r, m) = Places(q, m) \cup {n + 1} BY <1>1, <1>4 DEF Places
  <2>2. Cardinality(Places(r, m)) = Cardinality(Places(q, m)) + 1 BY <1>2, <1>3, <2>1, FS_AddElement, Zenon
  <2> QED BY <1>4, <2>2, Zenon DEF Count, One, r
<1>5. CASE x # m
  <2>1. Places(r, m) = Places(q, m) BY <1>1, <1>5 DEF Places
  <2> QED BY <1>2, <1>5, <2>1 DEF Count, One, r
<1> QED BY <1>4, <1>5, Zenon

\* ... and one less when its first is taken.
LEMMA CountOfTail ==
  ASSUME NEW q \in Seq(Message), NEW m, q # <<>>
  PROVE  Count(q, m) = Count(Tail(q), m) + One(Head(q), m)
<1> DEFINE n == Len(q)
           t == Tail(q)
           S == Places(t, m)
           T == Places(q, m) \ {1}
           shift == [i \in S |-> i + 1]
<1>1. /\ n \in Nat \ {0} /\ DOMAIN q = 1 .. n /\ DOMAIN t = 1 .. n - 1 /\ Head(q) = q[1]
      /\ \A i \in 1 .. n - 1 : t[i] = q[i + 1]
      /\ t \in Seq(Message)
  OBVIOUS
<1> HIDE DEF n, t
<1>2. S \in SUBSET (1 .. n - 1) /\ T \in SUBSET (2 .. n) BY <1>1 DEF Places
<1>3. \A i \in 1 .. n - 1 : i \in S <=> i + 1 \in T BY <1>1 DEF Places
<1>4. shift \in Bijection(S, T)
  <2> HIDE DEF S, T
  <2>1. shift \in [S -> T] BY <1>2, <1>3, Zenon
  <2>2. \A i, j \in S : shift[i] = shift[j] => i = j BY <1>2
  <2>3. ASSUME NEW j \in T PROVE \E i \in S : shift[i] = j
    <3>1. j - 1 \in 1 .. n - 1 /\ (j - 1) + 1 = j BY <1>1, <1>2
    <3>2. j - 1 \in S BY <1>3, <3>1, Zenon
    <3> QED BY <3>1, <3>2, Zenon
  <2> HIDE DEF shift
  <2> QED BY <2>1, <2>2, <2>3, Zenon DEF Bijection, Injection, Surjection, IsInjective
<1>5. IsFiniteSet(S) /\ Cardinality(S) \in Nat BY <1>1, CountIsNat, Zenon DEF Count
<1>6. Cardinality(T) = Cardinality(S) /\ IsFiniteSet(T)
  <2> HIDE DEF S, T, shift
  <2>1. ExistsBijection(S, T) BY <1>4, Zenon DEF ExistsBijection
  <2> QED BY <1>5, <2>1, FS_Bijection, Zenon
<1>7. IsFiniteSet(Places(q, m)) /\ Cardinality(Places(q, m)) \in Nat BY CountIsNat, Zenon DEF Count
<1>8. Cardinality(T) = IF 1 \in Places(q, m) THEN Cardinality(Places(q, m)) - 1 ELSE Cardinality(Places(q, m))
  BY <1>7, FS_RemoveElement, Zenon
<1>9. 1 \in Places(q, m) <=> Head(q) = m BY <1>1 DEF Places
<1> HIDE DEF S, T, shift
<1>10. Count(t, m) = Cardinality(S) BY Zenon DEF Count, S
<1> QED BY <1>5, <1>6, <1>7, <1>8, <1>9, <1>10 DEF Count, One, t

\* Between two reads of the socket the orderer holds one datagram or none.
LEMMA HeldIs ==
  /\ \A m : ({} \cap {m}) = {} /\ Cardinality({} \cap {m}) = 0
  /\ \A x, m : Cardinality({x} \cap {m}) = One(x, m)
<1>1. ASSUME NEW m PROVE ({} \cap {m}) = {} /\ Cardinality({} \cap {m}) = 0
  <2>1. ({} \cap {m}) = {} OBVIOUS
  <2> QED BY <2>1, FS_EmptySet, Zenon
<1>2. ASSUME NEW x, NEW m PROVE Cardinality({x} \cap {m}) = One(x, m)
  <2>1. CASE x = m
    <3>1. ({x} \cap {m}) = {x} BY <2>1, Zenon
    <3>2. Cardinality({x}) = 1 BY FS_Singleton, Zenon
    <3> QED BY <2>1, <3>1, <3>2, Zenon DEF One
  <2>2. CASE x # m
    <3>1. ({x} \cap {m}) = {} BY <2>2, Zenon
    <3> QED BY <2>2, <3>1, FS_EmptySet, Zenon DEF One
  <2> QED BY <2>1, <2>2, Zenon
<1> QED BY <1>1, <1>2, Zenon

\* So the steps have what they need.
LEMMA CountingHolds == Counting
BY CountIsNat, CountOfEmpty, CountOfAppend, CountOfTail, HeldIs, Zenon DEF Counting

\* At first there are no copies.
LEMMA PathInitInv == UInit => PathInv
<1> SUFFICES ASSUME UInit PROVE PathInv OBVIOUS
<1>1. TypeInv BY DEF UInit, TypeInv, Counters
<1>2. ASSUME NEW m \in Message PROVE Conserved(m)
  <2>1. "sequencer" \in Hop /\ "orderer" \in Hop BY Zenon DEF Hop
  <2>2. /\ wire["sequencer"][m] = 0 /\ wire["orderer"][m] = 0
        /\ Count(queue["sequencer"], m) = 0 /\ Count(queue["orderer"], m) = 0
    BY <2>1, CountOfEmpty, Zenon DEF UInit
  <2>3. Held(m) = 0 BY HeldIs, Zenon DEF UInit, Held
  <2> QED BY <2>2, <2>3 DEF UInit, Conserved, Made, Way, Ended, One
<1> QED BY <1>1, <1>2, ConservedIs, Zenon DEF PathInv

\* The inductive invariant holds in all states.
LEMMA PathInvariance == USpec => []PathInv
<1>1. PathInv /\ [UNext]_uvars => PathInv' BY PathNextInv, CountingHolds, Zenon
<1> QED BY <1>1, PathInitInv, PTL DEF USpec

\* Submit, the sequencer and the UDP server of the orderer make no copies of an envelope and
\* lose none without a trace: every copy that was sent or that the network made is somewhere.
THEOREM ConservedCopies == USpec => []CopiesAreConserved
<1>1. PathInv => CopiesAreConserved BY Zenon DEF PathInv
<1> QED BY <1>1, PathInvariance, PTL
================================================================================
