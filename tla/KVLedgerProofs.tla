---------------------------- MODULE KVLedgerProofs ----------------------------
(***************************************************************************)
(* What a peer's ledger keeps through crashes, rollbacks, recoveries and   *)
(* reconciliations, for any keys, values and number of blocks.  The flags, *)
(* the commit hash in memory and the databases are all compared with one   *)
(* thing, the meaning of the chain so far; which block each store is at is *)
(* known from the step of the commit.  The reconciler may only write what  *)
(* the hashed state has, as the lock keeps that state from changing under  *)
(* it.                                                                     *)
(*                                                                         *)
(* A snapshot of the ledger shows the state at one height: it is only      *)
(* begun between two commits, at the height of the block store, and a      *)
(* commit that comes meanwhile waits for its end.                          *)
(***************************************************************************)
EXTENDS KVLedger, SnapshotMgr, WellFoundedInduction, TLAPS

\* What the state databases hold, how the private data of a block is stored, and
\* where the ledger may be.
Entries == [ver : 1 .. MaxBlocks, val : Values]
Status == {"have", "missing", "reconciled"}
Steps == {"idle", "prepared", "pvtdata", "stored", "stated", "down", "recovering", "refused"}

\* Entries are no newer than the blocks they come from.
TypeInv ==
  /\ ordered \in Seq(Tx(MaxBlocks)) /\ Len(ordered) <= MaxBlocks
  /\ pvtStore \in Seq(Status)
  /\ blocks \in Seq([flag : BOOLEAN, hash : Seq(BOOLEAN)])
  /\ hashState \in [Keys -> Entries \cup {Absent}]
  /\ pvtState \in [Keys -> Entries \cup {Absent}]
  /\ stateHeight \in Nat /\ historyHeight \in Nat
  /\ ahead \in BOOLEAN
  /\ commitHash \in Seq(BOOLEAN)
  /\ pc \in Steps
  /\ cur \in [flag : BOOLEAN, have : BOOLEAN, pvtHeight : Nat]
  /\ recon.step \in {"idle", "asked", "found", "applied"}
  /\ DOMAIN recon = {"step", "asked", "data", "batch"}

\* No store is ahead of the private data store, and that not of the chain.
HeightInv ==
  /\ Height <= Len(pvtStore) /\ Len(pvtStore) <= Len(ordered)
  /\ stateHeight <= Len(pvtStore) /\ historyHeight <= Len(pvtStore)

\* The next block is being committed, in the stores up to the block store.
Ahead == pc \in {"prepared", "pvtdata"}
\* The number of the block being committed.
Committing == IF Ahead THEN Height + 1 ELSE Height

\* Which block each database is at, in each step of the commit, and that the flags
\* and the commit hash in memory are those of the block being committed.
StepInv ==
  /\ pc \in {"idle", "prepared", "pvtdata"} => stateHeight = Height /\ historyHeight = Height
  /\ Ahead => Height < Len(ordered)
  /\ pc = "stored" => stateHeight + 1 = Height /\ historyHeight + 1 = Height
  /\ pc = "stated" => stateHeight = Height /\ historyHeight + 1 = Height
  /\ pc = "recovering" => stateHeight <= Height /\ historyHeight <= Height
  /\ pc \notin {"down", "refused"} => commitHash = Meaning[Committing].flags
  /\ pc \in {"prepared", "pvtdata", "stored"} => cur.flag = Meaning[Committing].flags[Committing]
  /\ ~Running => recon.step = "idle"

\* isPvtstoreAheadOfBlkstore is right whenever it is read, and while a commit is in
\* between it still holds what the height of the private data store was.
AheadInv ==
  /\ pc \in {"idle", "prepared", "stored", "stated", "recovering"} =>
       (ahead <=> Len(pvtStore) > Height)
  /\ pc = "prepared" => cur.pvtHeight = Len(pvtStore)
  /\ pc = "pvtdata" => /\ Len(pvtStore) > Height
                       /\ ahead => cur.pvtHeight = Len(pvtStore)
                       /\ ~ahead => Len(pvtStore) = Height + 1

\* CommittedDataIsReadable, for all keys of the hashed state, and versions that are
\* never ahead of it.
ReadableInv ==
  /\ \A k \in Keys : hashState[k] # Absent => hashState[k].ver <= stateHeight
  /\ \A k \in Keys : (hashState[k] # Absent /\ pvtStore[hashState[k].ver] = "have")
                        => pvtState[k] = hashState[k]

\* Private data that the store has is in memory while its block is being committed.
HaveInv ==
  (pc \in {"prepared", "pvtdata", "stored"} /\ Committing <= Len(pvtStore)
    /\ pvtStore[Committing] = "have") => cur.have

\* The reconciler asks for data of blocks in the store, and will write only entries
\* that the hashed state has.
BatchInv ==
  /\ recon.step = "asked" => recon.asked \subseteq DOMAIN pvtStore
  /\ recon.step = "found" =>
       \A k \in Keys : recon.batch[k] \in {None, hashState[k]}

\* The databases are those of the chain up to where they are.
DatabaseInv ==
  /\ hashState = Meaning[stateHeight].hashes
  /\ history = {n \in 1 .. historyHeight : Meaning[n].flags[n]}

\* The inductive invariant.
IInv ==
  /\ TypeInv /\ HeightInv /\ StepInv /\ AheadInv /\ ReadableInv /\ HaveInv /\ BatchInv
  /\ DatabaseInv /\ ChainIsDeterministic /\ PvtMatchesHash

-------------------------------------------------------------------------------
(* Induction, and what the meaning of a chain is *)

\* Sequences: their elements, and what is left when the end is cut off.
LEMMA SeqIs ==
  ASSUME NEW S, NEW s \in Seq(S)
  PROVE  /\ Len(s) \in Nat /\ DOMAIN s = 1 .. Len(s) /\ \A k \in 1 .. Len(s) : s[k] \in S
         /\ \A n \in 0 .. Len(s) : /\ SubSeq(s, 1, n) \in Seq(S) /\ Len(SubSeq(s, 1, n)) = n
                                  /\ \A i \in 1 .. n : SubSeq(s, 1, n)[i] = s[i]
OBVIOUS

\* A set of naturals with 0 and all successors has them all.
LEMMA Induction ==
  ASSUME NEW S, 0 \in S, \A n \in Nat : n \in S => n + 1 \in S
  PROVE  Nat \subseteq S
<1> SUFFICES ASSUME Nat \ S # {} PROVE FALSE OBVIOUS
<1> DEFINE R == OpToRel(<, Nat)
           T == Nat \ S
<1>1. \A x, y \in Nat : <<x, y>> \in R <=> x < y BY Zenon DEF OpToRel
<1>2. IsWellFoundedOn(R, Nat) BY NatLessThanWellFounded, Zenon
<1>3. T \subseteq Nat /\ T # {} OBVIOUS
<1>4. \E x \in T : \A y \in T : ~(<<y, x>> \in R)
  <2> HIDE DEF R, T
  <2> QED BY <1>2, <1>3, WFMin, Zenon
<1>5. PICK x \in T : \A y \in T : ~(y < x) BY <1>1, <1>4, Zenon
<1>6. x \in Nat /\ x # 0 /\ x \notin S OBVIOUS
<1>7. x - 1 \in Nat /\ x - 1 < x /\ (x - 1) + 1 = x BY <1>6
<1>8. x - 1 \in S BY <1>5, <1>7, Zenon
<1> QED BY <1>6, <1>7, <1>8, Zenon

\* A set of block numbers has a greatest one.
LEMMA MaxOfBlocks ==
  ASSUME NEW N \in Nat, NEW S, S \subseteq 1 .. N, S # {}
  PROVE  Max(S) \in S /\ \A n \in S : n <= Max(S)
<1> DEFINE Has(m) == \A Q \in SUBSET (1 .. m) : Q # {} => \E x \in Q : \A y \in Q : x >= y
           I == {m \in Nat : Has(m)}
<1>1. 0 \in I
  <2>1. \A Q \in SUBSET (1 .. 0) : Q = {} OBVIOUS
  <2>2. Has(0) BY <2>1, Zenon
  <2> QED BY <2>2, Zenon
<1>2. ASSUME NEW m \in Nat, m \in I PROVE m + 1 \in I
  <2>1. ASSUME NEW Q \in SUBSET (1 .. m + 1), Q # {}
        PROVE  \E x \in Q : \A y \in Q : x >= y
    <3>1. CASE m + 1 \in Q BY <3>1
    <3>2. CASE m + 1 \notin Q
      <4>1. Q \in SUBSET (1 .. m) BY <3>2
      <4> QED BY <4>1, <1>2, <2>1, Zenon
    <3> QED BY <3>1, <3>2, Zenon
  <2>2. Has(m + 1) BY <2>1, Zenon
  <2> QED BY <2>2
<1>3. N \in I BY <1>1, <1>2, Induction, Zenon
<1>4. \E x \in S : \A y \in S : x >= y BY <1>3, Zenon
<1>5. Max(S) \in S /\ \A n \in S : Max(S) >= n BY <1>4, Zenon DEF Max
<1> QED BY <1>5, Zenon

\* The greater of two heights.
LEMMA MaxOfTwo ==
  ASSUME NEW a \in Nat, NEW b \in Nat
  PROVE  Max({a, b}) \in Nat /\ Max({a, b}) >= a /\ Max({a, b}) >= b
<1>1. \E x \in {a, b} : \A y \in {a, b} : x >= y BY SMT
<1>2. Max({a, b}) \in {a, b} /\ \A y \in {a, b} : Max({a, b}) >= y BY <1>1, Zenon DEF Max
<1> QED BY <1>2, Zenon

\* The definition by recursion over the blocks is one.
LEMMA MeaningIs ==
  ASSUME NEW chain
  PROVE  MeaningOf(chain) = [n \in 0 .. MaxBlocks |->
                              IF n = 0 THEN AtGenesis ELSE After(MeaningOf(chain)[n - 1], chain[n], n)]
<1> DEFINE Def(f, N) == f = [n \in 0 .. N |-> IF n = 0 THEN AtGenesis ELSE After(f[n - 1], chain[n], n)]
           S == {N \in Nat : \E f : Def(f, N)}
<1>1. 0 \in S
  <2>1. Def([n \in 0 .. 0 |-> AtGenesis], 0) OBVIOUS
  <2> QED BY <2>1, Zenon
<1>2. ASSUME NEW N \in Nat, N \in S PROVE N + 1 \in S
  <2>1. PICK f : Def(f, N) BY <1>2, Zenon
  <2> DEFINE g == [n \in 0 .. N + 1 |-> IF n = N + 1 THEN After(f[N], chain[N + 1], N + 1) ELSE f[n]]
  <2>2. ASSUME NEW n \in 0 .. N + 1
        PROVE  g[n] = IF n = 0 THEN AtGenesis ELSE After(g[n - 1], chain[n], n)
    <3>1. CASE n = 0 BY <2>1, <3>1
    <3>2. CASE n \in 1 .. N
      <4>1. g[n] = f[n] /\ g[n - 1] = f[n - 1] BY <3>2
      <4>2. f[n] = After(f[n - 1], chain[n], n) BY <2>1, <3>2
      <4> QED BY <4>1, <4>2, <3>2
    <3>3. CASE n = N + 1
      <4>1. g[n] = After(f[N], chain[N + 1], N + 1) /\ g[n - 1] = f[N] BY <3>3
      <4> QED BY <4>1, <3>3
    <3> QED BY <3>1, <3>2, <3>3
  <2>3. Def(g, N + 1) BY <2>2, Zenon
  <2>4. \E h : Def(h, N + 1)
    <3> HIDE DEF g, Def
    <3> QED BY <2>3, Zenon
  <2> QED BY <2>4
<1>3. MaxBlocks \in S BY <1>1, <1>2, Induction, KVLedgerAssumption, Zenon
<1>4. \E f : Def(f, MaxBlocks) BY <1>3, Zenon
<1>5. Def(MeaningOf(chain), MaxBlocks) BY <1>4, Zenon DEF MeaningOf
<1> QED BY <1>5, Zenon

\* The meaning of a chain, block by block.
LEMMA MeaningStep ==
  ASSUME NEW chain
  PROVE  /\ MeaningOf(chain)[0] = AtGenesis
         /\ \A n \in 1 .. MaxBlocks :
              MeaningOf(chain)[n] = After(MeaningOf(chain)[n - 1], chain[n], n)
<1> DEFINE M == MeaningOf(chain)
<1>1. M = [n \in 0 .. MaxBlocks |-> IF n = 0 THEN AtGenesis ELSE After(M[n - 1], chain[n], n)]
  BY MeaningIs, Zenon
<1> HIDE DEF M
<1>2. M[0] = AtGenesis BY <1>1, KVLedgerAssumption
<1>3. ASSUME NEW n \in 1 .. MaxBlocks PROVE M[n] = After(M[n - 1], chain[n], n)
  BY <1>1, KVLedgerAssumption
<1> QED BY <1>2, <1>3, Zenon DEF M

Chains == {chain \in Seq(Tx(MaxBlocks)) : Len(chain) <= MaxBlocks}

\* Transactions that the ordering service may still append mean nothing yet.
LEMMA MeaningOfPrefix ==
  ASSUME NEW chain \in Chains, NEW tx
  PROVE  \A n \in 0 .. Len(chain) : MeaningOf(Append(chain, tx))[n] = MeaningOf(chain)[n]
<1> DEFINE M == MeaningOf(chain)
           L == MeaningOf(Append(chain, tx))
           S == {n \in Nat : n <= Len(chain) => L[n] = M[n]}
<1>1. /\ Len(chain) \in Nat /\ Len(chain) <= MaxBlocks
      /\ \A n \in 1 .. Len(chain) : Append(chain, tx)[n] = chain[n]
  BY DEF Chains
<1>2. /\ M[0] = AtGenesis
      /\ \A n \in 1 .. MaxBlocks : M[n] = After(M[n - 1], chain[n], n)
  BY MeaningStep, Zenon
<1>3. /\ L[0] = AtGenesis
      /\ \A n \in 1 .. MaxBlocks : L[n] = After(L[n - 1], Append(chain, tx)[n], n)
  BY MeaningStep, Zenon
<1> HIDE DEF M, L
<1>4. 0 \in S BY <1>2, <1>3, Zenon
<1>5. ASSUME NEW n \in Nat, n \in S PROVE n + 1 \in S
  <2> SUFFICES ASSUME n + 1 <= Len(chain) PROVE L[n + 1] = M[n + 1] OBVIOUS
  <2>1. n + 1 \in 1 .. Len(chain) /\ n + 1 \in 1 .. MaxBlocks /\ (n + 1) - 1 = n BY <1>1, KVLedgerAssumption
  <2>2. L[n] = M[n] BY <1>1, <1>5
  <2>3. Append(chain, tx)[n + 1] = chain[n + 1] BY <1>1, <2>1, Zenon
  <2> QED BY <1>2, <1>3, <2>1, <2>2, <2>3, Zenon
<1>6. Nat \subseteq S
  <2> HIDE DEF S
  <2> QED BY <1>4, <1>5, Induction, Zenon
<1>7. ASSUME NEW n \in 0 .. Len(chain) PROVE L[n] = M[n] BY <1>1, <1>6
<1> QED BY <1>7, Zenon DEF M, L

\* There is a flag for each block, and an entry of version v is what block v wrote.
Sound(chain, n, m) ==
  /\ m.flags \in Seq(BOOLEAN) /\ Len(m.flags) = n
  /\ m.hashes \in [Keys -> Entries \cup {Absent}]
  /\ \A k \in Keys : m.hashes[k] # Absent =>
       /\ m.hashes[k].ver <= n
       /\ chain[m.hashes[k].ver].key = k
       /\ m.hashes[k].val = chain[m.hashes[k].ver].val

\* No entry of a database is one of the two special values.
LEMMA AbsentIs == Absent \notin Entries /\ None \notin Entries /\ Absent # None
BY KVLedgerAssumption, Zenon DEF Entries

\* The state database that DropState leaves is an empty one.
LEMMA NoEntries == [k \in Keys |-> Absent] \in [Keys -> Entries \cup {Absent}]
OBVIOUS

\* What a block writes is an entry with the block's number as its version.
LEMMA WrittenIs ==
  ASSUME NEW tx \in Tx(MaxBlocks), NEW n \in 1 .. MaxBlocks
  PROVE  /\ Written(tx, n) \in Entries \cup {Absent}
         /\ tx.val = Deleted => Written(tx, n) = Absent
         /\ tx.val # Deleted => Written(tx, n) = [ver |-> n, val |-> tx.val] /\ Written(tx, n) \in Entries
         /\ Written(tx, n) # Absent => Written(tx, n).ver = n /\ Written(tx, n).val = tx.val
BY AbsentIs, Zenon DEF Written, Tx, Entries

\* The validation of a transaction has a verdict.
LEMMA ValidateIs == \A tx, h : Validate(tx, h) \in BOOLEAN
BY Zenon DEF Validate

\* Writing entries of a block to a state.
LEMMA WriteIs ==
  ASSUME NEW h \in [Keys -> Entries \cup {Absent}], NEW tx \in Tx(MaxBlocks), NEW n \in 1 .. MaxBlocks
  PROVE  /\ Write(h, tx, n) \in [Keys -> Entries \cup {Absent}]
         /\ tx.key \in Keys /\ Write(h, tx, n)[tx.key] = Written(tx, n)
         /\ \A k \in Keys : k # tx.key => Write(h, tx, n)[k] = h[k]
<1>1. tx.key \in Keys BY Zenon DEF Tx
<1> QED BY <1>1, WrittenIs, Zenon DEF Write

\* The meaning of a chain is made of verdicts and entries that are no newer than the block.
LEMMA MeaningIsSound ==
  ASSUME NEW chain \in Chains
  PROVE  \A n \in 0 .. Len(chain) : Sound(chain, n, MeaningOf(chain)[n])
<1> DEFINE M == MeaningOf(chain)
           S == {n \in Nat : n <= Len(chain) => Sound(chain, n, M[n])}
<1>1. /\ Len(chain) \in Nat /\ Len(chain) <= MaxBlocks
      /\ \A n \in 1 .. Len(chain) : chain[n] \in Tx(MaxBlocks)
  BY DEF Chains
<1>2. /\ M[0] = AtGenesis
      /\ \A n \in 1 .. MaxBlocks : M[n] = After(M[n - 1], chain[n], n)
  BY MeaningStep, Zenon
<1> HIDE DEF M
<1>3. 0 \in S
  <2>1. Sound(chain, 0, AtGenesis) BY DEF Sound, AtGenesis
  <2> QED BY <1>2, <2>1, Zenon
<1>4. ASSUME NEW n \in Nat, n \in S PROVE n + 1 \in S
  <2> SUFFICES ASSUME n + 1 <= Len(chain) PROVE Sound(chain, n + 1, M[n + 1]) OBVIOUS
  <2> DEFINE m == M[n]
             tx == chain[n + 1]
             v == Validate(tx, m.hashes)
  <2>1. n + 1 \in 1 .. Len(chain) /\ n + 1 \in 1 .. MaxBlocks /\ (n + 1) - 1 = n BY <1>1, KVLedgerAssumption
  <2>2. Sound(chain, n, m) BY <1>1, <1>4
  <2>3. tx \in Tx(MaxBlocks) BY <1>1, <2>1, Zenon
  <2>4. M[n + 1] = After(m, tx, n + 1) BY <1>2, <2>1, Zenon
  <2>5. v \in BOOLEAN BY ValidateIs, Zenon
  <2> HIDE DEF m, tx, v
  <2>6. /\ M[n + 1].flags = Append(m.flags, v)
        /\ M[n + 1].hashes = IF v THEN Write(m.hashes, tx, n + 1) ELSE m.hashes
    BY <2>4 DEF After, v
  <2>7. M[n + 1].flags \in Seq(BOOLEAN) /\ Len(M[n + 1].flags) = n + 1
    BY <2>2, <2>5, <2>6 DEF Sound
  <2>8. CASE ~v
    <3>1. M[n + 1].hashes = m.hashes /\ m.hashes \in [Keys -> Entries \cup {Absent}]
      BY <2>2, <2>6, <2>8, Zenon DEF Sound
    <3>2. ASSUME NEW k \in Keys, m.hashes[k] # Absent PROVE m.hashes[k].ver <= n + 1
      BY <3>1, <3>2, <2>2 DEF Sound, Entries
    <3> QED BY <3>1, <3>2, <2>2, <2>7, Zenon DEF Sound
  <2>9. CASE v
    <3>0. m.hashes \in [Keys -> Entries \cup {Absent}] BY <2>2, Zenon DEF Sound
    <3>1. M[n + 1].hashes \in [Keys -> Entries \cup {Absent}] BY <3>0, <2>1, <2>3, <2>6, <2>9, WriteIs
    <3>2. ASSUME NEW k \in Keys, M[n + 1].hashes[k] # Absent
          PROVE  /\ M[n + 1].hashes[k].ver <= n + 1
                 /\ chain[M[n + 1].hashes[k].ver].key = k
                 /\ M[n + 1].hashes[k].val = chain[M[n + 1].hashes[k].ver].val
      <4>1. CASE k = tx.key
        <5>1. M[n + 1].hashes[k] = Written(tx, n + 1) BY <4>1, <3>0, <2>1, <2>3, <2>6, <2>9, WriteIs
        <5>2. M[n + 1].hashes[k].ver = n + 1 /\ M[n + 1].hashes[k].val = tx.val
          BY <5>1, <3>2, <2>1, <2>3, WrittenIs
        <5> QED BY <5>2, <4>1 DEF tx
      <4>2. CASE k # tx.key
        <5>1. M[n + 1].hashes[k] = m.hashes[k] BY <4>2, <3>0, <2>1, <2>3, <2>6, <2>9, WriteIs
        <5>2. m.hashes[k] \in Entries BY <5>1, <3>0, <3>2, Zenon
        <5>3. m.hashes[k].ver \in Nat BY <5>2 DEF Entries
        <5> QED BY <5>1, <5>3, <3>2, <2>2 DEF Sound
      <4> QED BY <4>1, <4>2, Zenon
    <3> QED BY <3>1, <3>2, <2>7, Zenon DEF Sound
  <2> QED BY <2>8, <2>9, Zenon
<1>5. Nat \subseteq S
  <2> HIDE DEF S
  <2> QED BY <1>3, <1>4, Induction, Zenon
<1>6. ASSUME NEW n \in 0 .. Len(chain) PROVE Sound(chain, n, M[n]) BY <1>1, <1>5
<1> QED BY <1>6, Zenon DEF M

\* What the invariant needs to know of the chain ordered so far.
LEMMA MeaningFacts ==
  ASSUME TypeInv
  PROVE  /\ \A n \in 1 .. Len(ordered) : ordered[n] \in Tx(MaxBlocks) /\ n \in 1 .. MaxBlocks
         /\ Len(ordered) \in Nat
         /\ Meaning[0] = AtGenesis
         /\ \A n \in 0 .. Len(ordered) : Sound(ordered, n, Meaning[n])
         /\ \A n \in 1 .. Len(ordered) :
              LET valid == Validate(ordered[n], Meaning[n - 1].hashes) IN
              /\ valid \in BOOLEAN
              /\ Meaning[n].flags = Append(Meaning[n - 1].flags, valid)
              /\ Meaning[n].flags[n] = valid
              /\ Meaning[n].hashes = IF valid THEN Write(Meaning[n - 1].hashes, ordered[n], n)
                                     ELSE Meaning[n - 1].hashes
<1>1. ordered \in Chains /\ Len(ordered) \in Nat /\ Len(ordered) <= MaxBlocks BY DEF TypeInv, Chains
<1>2. \A n \in 1 .. Len(ordered) : ordered[n] \in Tx(MaxBlocks) /\ n \in 1 .. MaxBlocks
  BY <1>1, KVLedgerAssumption DEF TypeInv
<1>3. Meaning[0] = AtGenesis BY MeaningStep, Zenon DEF Meaning
<1>4. \A n \in 0 .. Len(ordered) : Sound(ordered, n, Meaning[n]) BY <1>1, MeaningIsSound, Zenon DEF Meaning
<1>5. ASSUME NEW n \in 1 .. Len(ordered)
      PROVE  LET valid == Validate(ordered[n], Meaning[n - 1].hashes) IN
              /\ valid \in BOOLEAN
              /\ Meaning[n].flags = Append(Meaning[n - 1].flags, valid)
              /\ Meaning[n].flags[n] = valid
              /\ Meaning[n].hashes = IF valid THEN Write(Meaning[n - 1].hashes, ordered[n], n)
                                     ELSE Meaning[n - 1].hashes
  <2> DEFINE valid == Validate(ordered[n], Meaning[n - 1].hashes)
  <2>1. valid \in BOOLEAN BY ValidateIs, Zenon
  <2>2. Meaning[n] = After(Meaning[n - 1], ordered[n], n) BY <1>2, MeaningStep, Zenon DEF Meaning
  <2>3. /\ Meaning[n].flags = Append(Meaning[n - 1].flags, valid)
        /\ Meaning[n].hashes = IF valid THEN Write(Meaning[n - 1].hashes, ordered[n], n)
                               ELSE Meaning[n - 1].hashes
    BY <2>2 DEF After
  <2>4. n - 1 \in 0 .. Len(ordered) BY <1>1
  <2>5. Meaning[n - 1].flags \in Seq(BOOLEAN) /\ Len(Meaning[n - 1].flags) = n - 1
    BY <1>4, <2>4, Zenon DEF Sound
  <2> HIDE DEF valid
  <2>6. Meaning[n].flags[n] = valid BY <1>1, <2>1, <2>3, <2>5
  <2> QED BY <2>1, <2>3, <2>6, Zenon DEF valid
<1> QED BY <1>1, <1>2, <1>3, <1>4, <1>5, Zenon

\* Before the first block no state is there, and no flag.
LEMMA GenesisIs ==
  ASSUME TypeInv PROVE Meaning[0].hashes = [k \in Keys |-> Absent] /\ Meaning[0].flags = <<>>
<1>1. Meaning[0] = AtGenesis BY MeaningFacts, Zenon
<1> QED BY <1>1 DEF AtGenesis

\* The update batch of the next block, with the private data if the store has it.
LEMMA Updates ==
  ASSUME IInv, NEW n \in Nat, n = stateHeight + 1, n <= Len(pvtStore),
         NEW flag \in BOOLEAN, flag = Meaning[n].flags[n],
         NEW have \in BOOLEAN, pvtStore[n] = "have" => have,
         ApplyUpdates(n, flag, have), UNCHANGED <<ordered, pvtStore, hist>>
  PROVE  /\ hashState' \in [Keys -> Entries \cup {Absent}]
         /\ pvtState' \in [Keys -> Entries \cup {Absent}]
         /\ stateHeight' = n
         /\ DatabaseInv' /\ PvtMatchesHash' /\ ReadableInv'
<1> DEFINE tx == ordered[n]
           Typed(h) == h \in [Keys -> Entries \cup {Absent}]
<1>0. Meaning' = Meaning BY Zenon DEF Meaning
<1>1. /\ TypeInv /\ n \in 1 .. Len(ordered) /\ n - 1 = stateHeight /\ stateHeight \in Nat
      /\ Len(pvtStore) \in Nat /\ Len(pvtStore) <= Len(ordered) /\ Len(ordered) <= MaxBlocks
  BY DEF IInv, TypeInv, HeightInv
<1>2. tx \in Tx(MaxBlocks) /\ n \in 1 .. MaxBlocks BY <1>1, MeaningFacts, Zenon
<1>3. Typed(hashState) /\ Typed(pvtState) BY <1>1, Zenon DEF TypeInv
<1>4. /\ hashState' = IF flag THEN Write(hashState, tx, n) ELSE hashState
      /\ pvtState' = IF flag /\ have THEN Write(pvtState, tx, n) ELSE pvtState
      /\ stateHeight' = n
  BY Zenon DEF ApplyUpdates
<1> HIDE DEF tx
<1>5. Typed(hashState') /\ Typed(pvtState') BY <1>2, <1>3, <1>4, WriteIs, Zenon
<1>6. DatabaseInv'
  <2>1. Meaning[n].hashes = IF flag THEN Write(Meaning[n - 1].hashes, tx, n) ELSE Meaning[n - 1].hashes
    BY <1>1, MeaningFacts, Zenon DEF tx
  <2>2. hashState' = Meaning[n].hashes BY <1>1, <1>4, <2>1, Zenon DEF IInv, DatabaseInv
  <2> QED BY <1>0, <1>4, <2>2, Zenon DEF IInv, DatabaseInv, hist
<1>7. ASSUME NEW k \in Keys
      PROVE  \/ flag /\ k = tx.key /\ hashState'[k] = Written(tx, n)
             \/ hashState'[k] = hashState[k] /\ pvtState'[k] = pvtState[k]
  <2>1. CASE flag /\ k = tx.key BY <1>2, <1>3, <1>4, <2>1, WriteIs
  <2>2. CASE flag /\ k # tx.key BY <1>2, <1>3, <1>4, <2>2, WriteIs
  <2>3. CASE ~flag BY <1>4, <2>3, Zenon
  <2> QED BY <2>1, <2>2, <2>3, Zenon
<1>8. ASSUME NEW k \in Keys, flag, k = tx.key
      PROVE  /\ hashState'[k] = Written(tx, n)
             /\ pvtState'[k] = IF have THEN Written(tx, n) ELSE pvtState[k]
  BY <1>2, <1>3, <1>4, <1>8, WriteIs
<1>9. Written(tx, n) # Absent => Written(tx, n).ver = n BY <1>2, WrittenIs, Zenon
<1>10. ASSUME NEW k \in Keys
       PROVE  /\ hashState[k] # Absent => hashState[k].ver \in 1 .. stateHeight
              /\ pvtState[k] # Absent => pvtState[k].ver \in 1 .. stateHeight
              /\ (pvtState[k] # Absent /\ hashState[k] # Absent /\ pvtState[k].ver = hashState[k].ver)
                    => pvtState[k] = hashState[k]
              /\ (hashState[k] # Absent /\ pvtStore[hashState[k].ver] = "have") => pvtState[k] = hashState[k]
  <2>1. /\ hashState[k] # Absent => hashState[k] \in Entries /\ hashState[k].ver \in 1 .. MaxBlocks
        /\ pvtState[k] # Absent => pvtState[k] \in Entries /\ pvtState[k].ver \in 1 .. MaxBlocks
    BY <1>3, Zenon DEF Entries
  <2> QED BY <1>1, <2>1, KVLedgerAssumption DEF IInv, PvtMatchesHash, ReadableInv
<1>11. PvtMatchesHash'
  <2> SUFFICES ASSUME NEW k \in Keys
      PROVE  /\ pvtState'[k] # Absent => pvtState'[k].ver <= n
             /\ (pvtState'[k] # Absent /\ hashState'[k] # Absent /\ pvtState'[k].ver = hashState'[k].ver)
                    => pvtState'[k] = hashState'[k]
    BY <1>4, Zenon DEF PvtMatchesHash
  <2>1. CASE flag /\ k = tx.key BY <1>1, <1>8, <1>9, <1>10, <2>1
  <2>2. CASE hashState'[k] = hashState[k] /\ pvtState'[k] = pvtState[k] BY <1>1, <1>10, <2>2
  <2> QED BY <1>7, <2>1, <2>2, Zenon
<1>12. ReadableInv'
  <2> SUFFICES ASSUME NEW k \in Keys
      PROVE  /\ hashState'[k] # Absent => hashState'[k].ver <= n
             /\ (hashState'[k] # Absent /\ pvtStore[hashState'[k].ver] = "have") => pvtState'[k] = hashState'[k]
    BY <1>4, Zenon DEF ReadableInv
  <2>1. CASE flag /\ k = tx.key BY <1>1, <1>8, <1>9, <1>10, <2>1
  <2>2. CASE hashState'[k] = hashState[k] /\ pvtState'[k] = pvtState[k] BY <1>1, <1>10, <2>2
  <2> QED BY <1>7, <2>1, <2>2, Zenon
<1> QED BY <1>4, <1>5, <1>6, <1>11, <1>12, Zenon

\* The history after one more block.
LEMMA HistoryUpdates ==
  ASSUME IInv, NEW n \in Nat, n = historyHeight + 1, n <= Height,
         HistoryCommit(n), UNCHANGED <<ordered, hashState, stateHeight>>
  PROVE  historyHeight' = n /\ DatabaseInv'
<1>0. Meaning' = Meaning BY Zenon DEF Meaning
<1>1. n \in DOMAIN blocks /\ historyHeight \in Nat BY DEF IInv, TypeInv, Height
<1>2. blocks[n].flag = Meaning[n].flags[n] BY <1>1 DEF IInv, ChainIsDeterministic
<1>3. /\ history = {m \in 1 .. historyHeight : Meaning[m].flags[m]}
      /\ history' = IF Meaning[n].flags[n] THEN history \cup {n} ELSE history
  BY <1>2, Zenon DEF IInv, DatabaseInv, HistoryCommit
<1>4. history' = {m \in 1 .. n : Meaning[m].flags[m]}
  <2>1. 1 .. n = (1 .. historyHeight) \cup {n} /\ n \notin 1 .. historyHeight BY <1>1
  <2> QED BY <1>3, <2>1, Zenon
<1> QED BY <1>0, <1>4, Zenon DEF HistoryCommit, IInv, DatabaseInv

-------------------------------------------------------------------------------
(* Each step preserves the invariant *)

\* The flags and the commit hash of the block are those of the chain.
LEMMA ValidateAndPrepareInv == ASSUME IInv, ValidateAndPrepare PROVE IInv'
<1> USE DEF IInv, ValidateAndPrepare, PvtDataOf, OldBlockCommitFree, stores, state, hist, memory, count,
        Height, Running, Ahead, Committing
<1>0. Meaning' = Meaning BY Zenon DEF Meaning
<1> DEFINE n == Height + 1
           valid == Validate(ordered[n], hashState)
<1>a. /\ n \in 1 .. Len(ordered) /\ n - 1 = Height /\ Height \in Nat /\ Height \in 0 .. Len(ordered)
      /\ commitHash = Meaning[Height].flags /\ hashState = Meaning[Height].hashes
  BY DEF TypeInv, HeightInv, StepInv, DatabaseInv
<1>b. valid \in BOOLEAN /\ Meaning[n].flags = Append(commitHash, valid) /\ Meaning[n].flags[n] = valid
  BY <1>a, MeaningFacts, Zenon
<1>c. commitHash \in Seq(BOOLEAN) /\ Len(commitHash) = Height BY <1>a, MeaningFacts, Zenon DEF Sound
<1>d. PICK have \in PvtDataOf(n) : cur' = [flag |-> valid, have |-> have, pvtHeight |-> Len(pvtStore)]
  BY Zenon
<1>e. have \in BOOLEAN /\ (n <= Len(pvtStore) /\ pvtStore[n] = "have" => have) BY Zenon
<1>f. /\ cur'.flag = valid /\ cur'.have = have /\ cur'.pvtHeight = Len(pvtStore)
      /\ cur' \in [flag : BOOLEAN, have : BOOLEAN, pvtHeight : Nat]
  <2>1. Len(pvtStore) \in Nat BY DEF TypeInv
  <2> HIDE DEF n, valid
  <2> QED BY <1>b, <1>d, <1>e, <2>1, Zenon
<1>g. commitHash' = Append(commitHash, valid)
  <2>1. n = 1 \/ commitHash # <<>> BY <1>a, <1>c
  <2> QED BY <2>1, <1>f, Zenon DEF AddBlockCommitHash
<1>h. commitHash' = Meaning[n].flags /\ commitHash' \in Seq(BOOLEAN)
  <2> HIDE DEF n, valid, ValidateAndPrepare, IInv
  <2> QED BY <1>b, <1>c, <1>g
<1>i. /\ pc = "idle" /\ pc' = "prepared"
      /\ UNCHANGED <<ordered, stores, state, hist, ahead, recon, count>>
  OBVIOUS
<1>j. n = Height + 1 OBVIOUS
<1> HIDE DEF n, valid, ValidateAndPrepare
<1>1. TypeInv' BY <1>f, <1>h, <1>i, Zenon DEF TypeInv, Steps
<1>2. StepInv'
  <2>1. pc = "idle" => stateHeight = Height /\ historyHeight = Height /\ recon.step \in {"idle", "asked", "found", "applied"}
    BY Zenon DEF StepInv, TypeInv
  <2>2. Height' = Height /\ Committing' = n BY <1>i, <1>j, Zenon
  <2>3. cur'.flag = Meaning'[n].flags[n] /\ commitHash' = Meaning'[n].flags BY <1>0, <1>b, <1>f, <1>h, Zenon
  <2> QED BY <2>1, <2>2, <2>3, <1>a, <1>i, <1>j DEF StepInv
<1>3. AheadInv' BY <1>f, <1>i, Zenon DEF AheadInv
<1>4. HaveInv' BY <1>e, <1>f, <1>i, <1>j, Zenon DEF HaveInv
<1>5. HeightInv' /\ ReadableInv' /\ BatchInv' /\ DatabaseInv' /\ ChainIsDeterministic' /\ PvtMatchesHash'
  BY <1>0, <1>i, Zenon DEF HeightInv, ReadableInv, BatchInv, DatabaseInv, ChainIsDeterministic, PvtMatchesHash
<1> QED BY <1>1, <1>2, <1>3, <1>4, <1>5, Zenon

\* The private data store grows by the block, or has it already.
LEMMA CommitPvtDataInv == ASSUME IInv, CommitPvtData PROVE IInv'
<1> USE DEF IInv, CommitPvtData, stores, state, hist, memory, count, Height, Running, Ahead, Committing
<1>0. Meaning' = Meaning BY Zenon DEF Meaning
<1>a. /\ cur.have \in BOOLEAN /\ pvtStore \in Seq(Status) /\ Len(pvtStore) \in Nat
      /\ Height \in Nat /\ Height < Len(ordered) /\ Len(ordered) \in Nat
  BY DEF TypeInv, StepInv
<1>b. /\ ahead => pvtStore' = pvtStore
      /\ ~ahead => /\ pvtStore' = Append(pvtStore, IF cur.have THEN "have" ELSE "missing")
                   /\ Len(pvtStore) = Height
  OBVIOUS
<1>c. /\ pvtStore' \in Seq(Status) /\ Len(pvtStore') \in Nat
      /\ \A i \in 1 .. Len(pvtStore) : i \in 1 .. Len(pvtStore') /\ pvtStore'[i] = pvtStore[i]
      /\ ~ahead => Len(pvtStore') = Height + 1 /\ (pvtStore'[Height + 1] = "have" <=> cur.have)
      /\ ahead => Len(pvtStore') = Len(pvtStore)
  BY <1>a, <1>b DEF Status
<1>d. /\ pc = "prepared" /\ pc' = "pvtdata" /\ ahead \in BOOLEAN
      /\ UNCHANGED <<ordered, blocks, state, hist, ahead, commitHash, cur, recon, count>>
  BY Zenon DEF TypeInv
<1> HIDE DEF CommitPvtData
<1>1. TypeInv' BY <1>c, <1>d, Zenon DEF TypeInv, Steps
<1>2. HeightInv' BY <1>a, <1>c, <1>d DEF HeightInv, TypeInv, StepInv
<1>3. AheadInv' BY <1>a, <1>c, <1>d DEF AheadInv, HeightInv, StepInv
<1>4. ReadableInv'
  <2>1. ASSUME NEW k \in Keys, hashState[k] # Absent
        PROVE  hashState[k].ver \in 1 .. Len(pvtStore)
    <3>1. hashState[k] \in Entries BY <2>1, Zenon DEF TypeInv
    <3> QED BY <2>1, <3>1, <1>a DEF Entries, ReadableInv, HeightInv, TypeInv
  <2> QED BY <2>1, <1>c, <1>d, Zenon DEF ReadableInv
<1>5. HaveInv' BY <1>a, <1>c, <1>d DEF HaveInv, AheadInv
<1>6. BatchInv'
  <2>1. DOMAIN pvtStore = 1 .. Len(pvtStore) /\ DOMAIN pvtStore' = 1 .. Len(pvtStore') BY <1>a, <1>c
  <2>2. DOMAIN pvtStore \subseteq DOMAIN pvtStore' BY <2>1, <1>c, Zenon
  <2> QED BY <2>2, <1>d, Zenon DEF BatchInv
<1>7. StepInv' /\ DatabaseInv' /\ ChainIsDeterministic' /\ PvtMatchesHash'
  BY <1>0, <1>d, Zenon DEF StepInv, DatabaseInv, ChainIsDeterministic, PvtMatchesHash
<1> QED BY <1>1, <1>2, <1>3, <1>4, <1>5, <1>6, <1>7, Zenon

\* The block is stored with the flags and the commit hash of the chain.
LEMMA AddBlockInv == ASSUME IInv, AddBlock PROVE IInv'
<1> USE DEF IInv, AddBlock, stores, state, hist, memory, count, Height, Running, Ahead, Committing
<1>0. Meaning' = Meaning BY Zenon DEF Meaning
<1>a. /\ cur.flag \in BOOLEAN /\ commitHash \in Seq(BOOLEAN) /\ Height \in Nat
      /\ Len(pvtStore) \in Nat /\ cur.pvtHeight \in Nat /\ ahead \in BOOLEAN
      /\ Len(pvtStore) > Height /\ stateHeight = Height /\ historyHeight = Height
      /\ ahead => cur.pvtHeight = Len(pvtStore)
      /\ ~ahead => Len(pvtStore) = Height + 1
  BY DEF TypeInv, StepInv, AheadInv
<1>b. /\ cur.flag = Meaning[Height + 1].flags[Height + 1] /\ commitHash = Meaning[Height + 1].flags
  BY Zenon DEF StepInv
<1>c. /\ blocks' \in Seq([flag : BOOLEAN, hash : Seq(BOOLEAN)])
      /\ Len(blocks') = Height + 1
      /\ blocks'[Height + 1] = [flag |-> cur.flag, hash |-> commitHash]
      /\ \A i \in 1 .. Height : blocks'[i] = blocks[i]
  BY <1>a DEF TypeInv
<1>d. /\ pc = "pvtdata" /\ pc' = "stored"
      /\ ahead' = (ahead /\ cur.pvtHeight # Height + 1)
      /\ UNCHANGED <<ordered, pvtStore, state, hist, commitHash, cur, recon, count>>
  OBVIOUS
<1>e. ahead' \in BOOLEAN /\ (ahead' <=> Len(pvtStore) > Height + 1)
  <2>1. ahead' \in BOOLEAN /\ (ahead' <=> ahead /\ cur.pvtHeight # Height + 1) BY <1>a, <1>d, Zenon
  <2> QED BY <1>a, <2>1
<1> HIDE DEF AddBlock
<1>1. TypeInv' BY <1>c, <1>d, <1>e, Zenon DEF TypeInv, Steps
<1>2. HeightInv'
  <2>1. HeightInv OBVIOUS
  <2> HIDE DEF IInv
  <2> QED BY <1>a, <1>c, <1>d, <2>1 DEF HeightInv
<1>3. StepInv' BY <1>0, <1>a, <1>b, <1>c, <1>d, Zenon DEF StepInv
<1>4. AheadInv' BY <1>c, <1>d, <1>e, Zenon DEF AheadInv
<1>5. HaveInv' BY <1>c, <1>d, Zenon DEF HaveInv
<1>6. ChainIsDeterministic'
  <2>1. DOMAIN blocks = 1 .. Height /\ DOMAIN blocks' = 1 .. Height + 1 BY <1>c DEF TypeInv
  <2>2. \A i \in 1 .. Height + 1 : i = Height + 1 \/ i \in 1 .. Height BY <1>a
  <2> QED BY <1>0, <1>b, <1>c, <2>1, <2>2, Zenon DEF ChainIsDeterministic
<1>7. ReadableInv' /\ BatchInv' /\ DatabaseInv' /\ PvtMatchesHash'
  BY <1>0, <1>d, Zenon DEF ReadableInv, BatchInv, DatabaseInv, PvtMatchesHash
<1> QED BY <1>1, <1>2, <1>3, <1>4, <1>5, <1>6, <1>7, Zenon

\* The state database takes the block, with the private data that is in memory.
LEMMA CommitStateInv == ASSUME IInv, CommitState PROVE IInv'
<1> USE DEF IInv, CommitState, OldBlockCommitFree, stores, state, hist, memory, count, Height, Running,
        Ahead, Committing
<1>0. Meaning' = Meaning BY Zenon DEF Meaning
<1>a. /\ Height = stateHeight + 1 /\ Height \in Nat /\ Height <= Len(pvtStore)
      /\ cur.flag \in BOOLEAN /\ cur.flag = Meaning[Height].flags[Height]
      /\ cur.have \in BOOLEAN /\ (pvtStore[Height] = "have" => cur.have)
  BY DEF TypeInv, StepInv, HeightInv, HaveInv
<1>b. /\ pc = "stored" /\ pc' = "stated" /\ ApplyUpdates(Height, cur.flag, cur.have) /\ recon.step # "found"
      /\ UNCHANGED <<ordered, stores, hist, ahead, commitHash, cur, recon, count>>
  OBVIOUS
<1> HIDE DEF CommitState
<1>c. /\ hashState' \in [Keys -> Entries \cup {Absent}]
      /\ pvtState' \in [Keys -> Entries \cup {Absent}]
      /\ stateHeight' = Height
      /\ DatabaseInv' /\ PvtMatchesHash' /\ ReadableInv'
  <2> HIDE DEF IInv, Height
  <2> QED BY <1>a, <1>b, Updates, Zenon DEF stores
<1>1. TypeInv' BY <1>a, <1>b, <1>c, Zenon DEF TypeInv, Steps
<1>2. HeightInv' BY <1>a, <1>b, <1>c, Zenon DEF HeightInv
<1>3. StepInv' BY <1>0, <1>b, <1>c, Zenon DEF StepInv
<1>4. ReadableInv' BY <1>c, Zenon
<1>5. DatabaseInv' BY <1>c, Zenon
<1>6. PvtMatchesHash' BY <1>c, Zenon
<1>7. AheadInv' /\ HaveInv' /\ BatchInv' /\ ChainIsDeterministic'
  BY <1>0, <1>b, Zenon DEF AheadInv, HaveInv, BatchInv, ChainIsDeterministic
<1> QED BY <1>1, <1>2, <1>3, <1>4, <1>5, <1>6, <1>7, Zenon

\* The history database takes the block, and the commit is over.
LEMMA CommitHistoryInv == ASSUME IInv, CommitHistory PROVE IInv'
<1> USE DEF IInv, CommitHistory, stores, state, hist, memory, count, Height, Running, Ahead, Committing
<1>0. Meaning' = Meaning BY Zenon DEF Meaning
<1>a. /\ pc = "stated" /\ pc' = "idle" /\ HistoryCommit(Height) /\ cur' = NoBatch
      /\ UNCHANGED <<ordered, stores, state, ahead, commitHash, recon, count>>
  OBVIOUS
<1> HIDE DEF CommitHistory
<1>b. Height = historyHeight + 1 /\ Height \in Nat /\ Height <= Height BY <1>a DEF TypeInv, StepInv
<1>c. historyHeight' = Height /\ DatabaseInv'
  <2> HIDE DEF IInv, Height
  <2> QED BY <1>a, <1>b, HistoryUpdates, Zenon
<1>d. NoBatch \in [flag : BOOLEAN, have : BOOLEAN, pvtHeight : Nat] BY Zenon DEF NoBatch
<1>1. TypeInv' BY <1>a, <1>b, <1>c, <1>d, Zenon DEF TypeInv, Steps
<1>2. HeightInv' BY <1>a, <1>c, Zenon DEF HeightInv
<1>3. StepInv' BY <1>0, <1>a, <1>c, Zenon DEF StepInv
<1>4. DatabaseInv' BY <1>c, Zenon
<1>5. AheadInv' /\ ReadableInv' /\ HaveInv' /\ BatchInv' /\ ChainIsDeterministic' /\ PvtMatchesHash'
  BY <1>0, <1>a, Zenon DEF AheadInv, ReadableInv, HaveInv, BatchInv, ChainIsDeterministic, PvtMatchesHash
<1> QED BY <1>1, <1>2, <1>3, <1>4, <1>5, Zenon

\* The reconciler reads which private data is missing.
LEMMA GetMissingPvtDataInv == ASSUME IInv, GetMissingPvtData PROVE IInv'
<1> USE DEF IInv, GetMissingPvtData, stores, state, hist, memory, count, Height, Running, Ahead, Committing
<1>0. Meaning' = Meaning BY Zenon DEF Meaning
<1>a. Running /\ UNCHANGED <<ordered, stores, state, hist, memory, count>> OBVIOUS
<1>b. PICK ask \in SUBSET Missing : recon' = [Idle EXCEPT !.step = "asked", !.asked = ask] BY Zenon
<1> HIDE DEF GetMissingPvtData
<1>c. recon'.step = "asked" /\ recon'.asked = ask /\ DOMAIN recon' = {"step", "asked", "data", "batch"}
  BY <1>b, Zenon DEF Idle
<1>1. TypeInv' BY <1>a, <1>c, Zenon DEF TypeInv
<1>2. BatchInv' BY <1>a, <1>c, Zenon DEF BatchInv, Missing
<1>3. HeightInv' /\ StepInv' /\ AheadInv' /\ ReadableInv' /\ HaveInv' /\ DatabaseInv' /\ ChainIsDeterministic' /\ PvtMatchesHash'
  BY <1>0, <1>a, Zenon DEF HeightInv, StepInv, AheadInv, ReadableInv, HaveInv, DatabaseInv, ChainIsDeterministic,
     PvtMatchesHash
<1> QED BY <1>1, <1>2, <1>3, Zenon

\* What the reconciler is about to write is what the hashed state has.
LEMMA FindStalePvtDataInv == ASSUME IInv, FindStalePvtData PROVE IInv'
<1> USE DEF IInv, FindStalePvtData, stores, state, hist, memory, count, Height, Running, Ahead, Committing
<1>0. Meaning' = Meaning BY Zenon DEF Meaning
<1>a. /\ recon.step = "asked" /\ DOMAIN recon = {"step", "asked", "data", "batch"}
      /\ recon.asked \subseteq 1 .. Len(pvtStore) /\ Len(pvtStore) \in Nat /\ Height \in Nat
  BY DEF TypeInv, BatchInv
<1>b. PICK fetched \in SUBSET recon.asked :
        IF fetched = {} \/ Max(fetched) > Height
         THEN recon' = Idle
         ELSE recon' = [recon EXCEPT !.step = "found", !.data = fetched,
                                     !.batch = [k \in Keys |-> Current(k, Newest(fetched, k))]]
  BY Zenon
<1>c. UNCHANGED <<ordered, stores, state, hist, memory, count>> OBVIOUS
<1> HIDE DEF FindStalePvtData
<1>d. ASSUME NEW k \in Keys, ~(fetched = {} \/ Max(fetched) > Height)
      PROVE  Current(k, Newest(fetched, k)) \in {None, hashState[k]}
  <2> DEFINE writes == {n \in OfValidTx(fetched) : ordered[n].key = k}
             n == Newest(fetched, k)
  <2>1. fetched \subseteq 1 .. Len(pvtStore) /\ fetched # {} BY <1>a, <1>d, Zenon
  <2>2. fetched \subseteq 1 .. Height
    <3>1. Max(fetched) \in fetched /\ \A m \in fetched : m <= Max(fetched) BY <2>1, <1>a, MaxOfBlocks, Zenon
    <3>2. Max(fetched) \in Nat /\ Max(fetched) <= Height
      <4> DEFINE m == Max(fetched)
      <4>1. m \in 1 .. Len(pvtStore) /\ ~(m > Height) BY <3>1, <2>1, <1>d, Zenon
      <4> HIDE DEF m
      <4>2. m \in Nat /\ m <= Height BY <4>1, <1>a
      <4> QED BY <4>2, Zenon DEF m
    <3> QED BY <3>1, <3>2, <2>1, <1>a
  <2>3. n = 0 \/ n \in writes
    <3>1. writes \subseteq 1 .. Height BY <2>2, Zenon DEF OfValidTx
    <3>2. CASE writes = {} BY <3>2, Zenon DEF Newest
    <3>3. CASE writes # {}
      <4>1. Max(writes) \in writes
        <5> HIDE DEF writes
        <5> QED BY <3>1, <3>3, <1>a, MaxOfBlocks, Zenon
      <4> QED BY <4>1, <3>3, Zenon DEF Newest
    <3> QED BY <3>2, <3>3, Zenon
  <2> HIDE DEF n
  <2>4. CASE n = 0 BY <2>4, Zenon DEF Current, n
  <2>5. CASE n \in writes
    <3> DEFINE committed == hashState[k]
               tx == ordered[n]
    <3>1. n \in 1 .. Height /\ tx.key = k BY <2>2, <2>5, Zenon DEF OfValidTx
    <3>2. n \in 1 .. Len(ordered) /\ tx \in Tx(MaxBlocks) /\ n \in 1 .. MaxBlocks
      BY <3>1, <1>a, MeaningFacts DEF HeightInv
    <3>3. committed \in Entries \cup {Absent} BY Zenon DEF TypeInv
    <3>4. Sound(ordered, stateHeight, Meaning[stateHeight]) /\ hashState = Meaning[stateHeight].hashes
      <4>1. stateHeight \in 0 .. Len(ordered) BY <1>a DEF TypeInv, HeightInv
      <4> QED BY <4>1, MeaningFacts, Zenon DEF DatabaseInv
    <3>5. CASE committed = Absent BY <3>5, Zenon DEF Current, n
    <3>6. CASE committed # Absent
      <4>0. committed \in Entries BY <3>3, <3>6, Zenon
      <4>1. committed.val = ordered[committed.ver].val BY <3>4, <3>6, Zenon DEF Sound
      <4>2. committed.ver \in 1 .. MaxBlocks /\ committed.val \in Values BY <4>0, Zenon DEF Entries
      <4>3. committed = [ver |-> committed.ver, val |-> committed.val] BY <4>0, Zenon DEF Entries
      <4>4. CASE committed.ver = n \/ committed.val = tx.val
        <5>1. committed.val = tx.val BY <4>1, <4>4, Zenon
        <5>2. tx.val # Deleted BY <5>1, <4>2, KVLedgerAssumption, Zenon
        <5>3. Written(tx, committed.ver) = committed
          BY <3>2, <4>2, <4>3, <5>1, <5>2, WrittenIs
        <5>4. Current(k, n) \in {None, Written(tx, committed.ver)} BY <3>6, Zenon DEF Current
        <5> QED BY <5>3, <5>4, Zenon DEF n
      <4>5. CASE ~(committed.ver = n \/ committed.val = tx.val)
        <5>1. Current(k, n) = None BY <3>6, <4>5, Zenon DEF Current
        <5> QED BY <5>1, Zenon DEF n
      <4> QED BY <4>4, <4>5, Zenon
    <3> QED BY <3>5, <3>6, Zenon
  <2> QED BY <2>3, <2>4, <2>5, Zenon
<1>e. \/ recon' = Idle
      \/ /\ recon'.step = "found" /\ DOMAIN recon' = {"step", "asked", "data", "batch"}
         /\ \A k \in Keys : recon'.batch[k] \in {None, hashState[k]}
  <2>1. CASE fetched = {} \/ Max(fetched) > Height BY <1>b, <2>1, Zenon
  <2>2. CASE ~(fetched = {} \/ Max(fetched) > Height)
    <3> DEFINE batch == [k \in Keys |-> Current(k, Newest(fetched, k))]
    <3>1. \A k \in Keys : batch[k] \in {None, hashState[k]} BY <1>d, <2>2, Zenon
    <3>2. recon' = [recon EXCEPT !.step = "found", !.data = fetched, !.batch = batch] BY <1>b, <2>2, Zenon
    <3> HIDE DEF batch
    <3>3. recon'.step = "found" /\ DOMAIN recon' = {"step", "asked", "data", "batch"} /\ recon'.batch = batch
      BY <1>a, <3>2, Zenon
    <3> QED BY <3>1, <3>3, Zenon
  <2> QED BY <2>1, <2>2, Zenon
<1>f. Idle.step = "idle" /\ DOMAIN Idle = {"step", "asked", "data", "batch"} BY Zenon DEF Idle
<1>1. TypeInv' BY <1>c, <1>e, <1>f, Zenon DEF TypeInv
<1>2. StepInv' BY <1>0, <1>a, <1>c, <1>e, <1>f, Zenon DEF StepInv
<1>3. BatchInv' BY <1>c, <1>e, <1>f, Zenon DEF BatchInv
<1>4. HeightInv' /\ AheadInv' /\ ReadableInv' /\ HaveInv' /\ DatabaseInv' /\ ChainIsDeterministic' /\ PvtMatchesHash'
  BY <1>0, <1>c, Zenon DEF HeightInv, AheadInv, ReadableInv, HaveInv, DatabaseInv, ChainIsDeterministic,
     PvtMatchesHash
<1> QED BY <1>1, <1>2, <1>3, <1>4, Zenon

\* The reconciler's batch goes to the state database.
LEMMA ApplyOldPvtDataInv == ASSUME IInv, ApplyOldPvtData PROVE IInv'
<1> USE DEF IInv, ApplyOldPvtData, stores, state, hist, memory, count, Height, Running, Ahead, Committing
<1>0. Meaning' = Meaning BY Zenon DEF Meaning
<1>a. /\ recon.step = "found" /\ recon' = [recon EXCEPT !.step = "applied"]
      /\ pvtState' = [k \in Keys |-> IF recon.batch[k] = None THEN pvtState[k] ELSE recon.batch[k]]
      /\ UNCHANGED <<ordered, stores, hashState, stateHeight, hist, memory, count>>
  OBVIOUS
<1> HIDE DEF ApplyOldPvtData
<1>b. DOMAIN recon' = DOMAIN recon /\ recon'.step = "applied" BY <1>a, Zenon DEF TypeInv
<1>c. \A k \in Keys : pvtState'[k] \in {pvtState[k], hashState[k]} BY <1>a, Zenon DEF BatchInv
<1>d. pvtState' \in [Keys -> Entries \cup {Absent}] BY <1>a, <1>c, Zenon DEF TypeInv
<1>1. TypeInv' BY <1>a, <1>b, <1>d, Zenon DEF TypeInv
<1>2. StepInv' BY <1>0, <1>a, <1>b, Zenon DEF StepInv
<1>3. ReadableInv' BY <1>a, <1>c, Zenon DEF ReadableInv
<1>4. BatchInv' BY <1>b, Zenon DEF BatchInv
<1>5. PvtMatchesHash' BY <1>a, <1>c, Zenon DEF PvtMatchesHash, ReadableInv
<1>6. HeightInv' /\ AheadInv' /\ HaveInv' /\ DatabaseInv' /\ ChainIsDeterministic'
  BY <1>0, <1>a, Zenon DEF HeightInv, AheadInv, HaveInv, DatabaseInv, ChainIsDeterministic
<1> QED BY <1>1, <1>2, <1>3, <1>4, <1>5, <1>6, Zenon

\* Blocks that came with their data keep that mark or lose it, none gets it.
LEMMA CommitPvtDataOfOldBlocksInv == ASSUME IInv, CommitPvtDataOfOldBlocks PROVE IInv'
<1> USE DEF IInv, CommitPvtDataOfOldBlocks, stores, state, hist, memory, count, Height, Running, Ahead,
        Committing
<1>0. Meaning' = Meaning BY Zenon DEF Meaning
<1>a. /\ recon' = Idle /\ recon.step = "applied"
      /\ pvtStore' = [n \in DOMAIN pvtStore |-> IF n \in recon.data THEN "reconciled" ELSE pvtStore[n]]
      /\ UNCHANGED <<ordered, blocks, state, hist, memory, count>>
  OBVIOUS
<1> HIDE DEF CommitPvtDataOfOldBlocks
<1>b. Idle.step = "idle" /\ DOMAIN Idle = {"step", "asked", "data", "batch"} BY Zenon DEF Idle
<1>c. /\ pvtStore' \in Seq(Status) /\ Len(pvtStore') = Len(pvtStore)
      /\ \A n \in 1 .. Len(pvtStore) : pvtStore'[n] = "have" => pvtStore[n] = "have"
  <2>1. pvtStore \in Seq(Status) /\ Len(pvtStore) \in Nat /\ DOMAIN pvtStore = 1 .. Len(pvtStore)
    BY DEF TypeInv
  <2>2. pvtStore' \in [1 .. Len(pvtStore) -> Status] BY <2>1, <1>a DEF Status
  <2>3. pvtStore' \in Seq(Status) /\ Len(pvtStore') = Len(pvtStore) BY <2>1, <2>2
  <2> QED BY <2>1, <2>3, <1>a, Zenon
<1>d. ASSUME NEW k \in Keys, hashState[k] # Absent
      PROVE  hashState[k].ver \in 1 .. Len(pvtStore)
  <2>1. hashState[k] \in Entries BY <1>d, Zenon DEF TypeInv
  <2> QED BY <1>d, <2>1 DEF Entries, ReadableInv, HeightInv, TypeInv
<1>e. pc \in {"prepared", "pvtdata", "stored"} => Committing \in Nat /\ Committing >= 1
  BY DEF TypeInv, StepInv
<1>1. TypeInv' BY <1>a, <1>b, <1>c, Zenon DEF TypeInv
<1>2. HeightInv' BY <1>a, <1>c, Zenon DEF HeightInv
<1>3. StepInv' BY <1>0, <1>a, <1>b, Zenon DEF StepInv
<1>4. AheadInv' BY <1>a, <1>c, Zenon DEF AheadInv
<1>5. ReadableInv' BY <1>a, <1>c, <1>d, Zenon DEF ReadableInv
<1>6. HaveInv'
  <2> SUFFICES ASSUME pc \in {"prepared", "pvtdata", "stored"}, Committing <= Len(pvtStore),
                      pvtStore'[Committing] = "have"
               PROVE  cur.have
    BY <1>a, <1>c, Zenon DEF HaveInv
  <2>1. Committing \in 1 .. Len(pvtStore) BY <1>e DEF TypeInv
  <2> QED BY <2>1, <1>c, Zenon DEF HaveInv
<1>7. BatchInv' BY <1>a, <1>b, Zenon DEF BatchInv
<1>8. DatabaseInv' /\ ChainIsDeterministic' /\ PvtMatchesHash'
  BY <1>0, <1>a, Zenon DEF DatabaseInv, ChainIsDeterministic, PvtMatchesHash
<1> QED BY <1>1, <1>2, <1>3, <1>4, <1>5, <1>6, <1>7, <1>8, Zenon

\* A crash leaves the stores as they are.
LEMMA CrashInv == ASSUME IInv, Crash PROVE IInv'
<1> USE DEF IInv, Crash, stores, state, hist, memory, count, Height, Running, Ahead, Committing
<1>0. Meaning' = Meaning BY Zenon DEF Meaning
<1>a. /\ pc' = "down" /\ cur' = NoBatch /\ recon' = Idle
      /\ UNCHANGED <<ordered, stores, state, hist, ahead, commitHash, rollbacks>>
  OBVIOUS
<1> HIDE DEF Crash
<1>b. /\ Idle.step = "idle" /\ DOMAIN Idle = {"step", "asked", "data", "batch"}
      /\ NoBatch \in [flag : BOOLEAN, have : BOOLEAN, pvtHeight : Nat]
  BY Zenon DEF Idle, NoBatch
<1>1. TypeInv' BY <1>a, <1>b, Zenon DEF TypeInv, Steps
<1>2. StepInv' BY <1>a, <1>b, Zenon DEF StepInv
<1>3. BatchInv' BY <1>a, <1>b, Zenon DEF BatchInv
<1>4. HeightInv' /\ AheadInv' /\ ReadableInv' /\ HaveInv' /\ DatabaseInv' /\ ChainIsDeterministic' /\ PvtMatchesHash'
  BY <1>0, <1>a, Zenon DEF HeightInv, AheadInv, ReadableInv, HaveInv, DatabaseInv, ChainIsDeterministic,
     PvtMatchesHash
<1> QED BY <1>1, <1>2, <1>3, <1>4, Zenon

\* A shorter chain of blocks, with databases that are empty or ahead of it.
LEMMA RollbackKVLedgerInv == ASSUME IInv, RollbackKVLedger PROVE IInv'
<1> USE DEF IInv, RollbackKVLedger, stores, state, hist, memory, count, Height, Running, Ahead, Committing
<1>0. Meaning' = Meaning BY Zenon DEF Meaning
<1>a. /\ pc = "down"
      /\ DropState \/ UNCHANGED state
      /\ (history' = {} /\ historyHeight' = 0) \/ UNCHANGED hist
      /\ UNCHANGED <<ordered, pvtStore, memory, recon, crashes>>
  BY Zenon DEF DropHistory
<1>b. blocks' = blocks \/ \E n \in 0 .. Height : blocks' = SubSeq(blocks, 1, n) BY Zenon
<1> HIDE DEF RollbackKVLedger
<1>c. PICK n : /\ Height \in Nat /\ n \in Nat /\ n <= Height
               /\ blocks' \in Seq([flag : BOOLEAN, hash : Seq(BOOLEAN)]) /\ Len(blocks') = n
               /\ \A i \in 1 .. n : blocks'[i] = blocks[i]
  <2>1. blocks \in Seq([flag : BOOLEAN, hash : Seq(BOOLEAN)]) BY Zenon DEF TypeInv
  <2> HIDE DEF IInv
  <2>2. CASE blocks' = blocks BY <2>1, <2>2
  <2>3. CASE \E n \in 0 .. Height : blocks' = SubSeq(blocks, 1, n)
    <3>1. PICK n \in 0 .. Height : blocks' = SubSeq(blocks, 1, n) BY <2>3, Zenon
    <3>2. Height \in Nat /\ n \in Nat /\ n <= Height BY <2>1, <3>1
    <3>3. n \in 0 .. Len(blocks) BY <2>1, <3>2, Zenon
    <3>4. /\ SubSeq(blocks, 1, n) \in Seq([flag : BOOLEAN, hash : Seq(BOOLEAN)])
          /\ Len(SubSeq(blocks, 1, n)) = n
          /\ \A i \in 1 .. n : SubSeq(blocks, 1, n)[i] = blocks[i]
      BY <2>1, <3>3, SeqIs, Zenon
    <3> QED BY <3>1, <3>2, <3>4, Zenon
  <2> QED BY <1>b, <2>2, <2>3, Zenon
<1>d. \/ UNCHANGED state
      \/ hashState' = [k \in Keys |-> Absent] /\ pvtState' = [k \in Keys |-> Absent] /\ stateHeight' = 0
  BY <1>a, Zenon DEF DropState
<1>e. Meaning[0].hashes = [k \in Keys |-> Absent] BY GenesisIs, Zenon
<1>1. TypeInv'
  <2>1. TypeInv OBVIOUS
  <2> HIDE DEF IInv
  <2>2. hashState' \in [Keys -> Entries \cup {Absent}] /\ pvtState' \in [Keys -> Entries \cup {Absent}] /\ stateHeight' \in Nat
    BY <1>d, <2>1, NoEntries DEF TypeInv
  <2>3. historyHeight' \in Nat BY <1>a, <2>1 DEF TypeInv
  <2> QED BY <1>a, <1>c, <2>1, <2>2, <2>3, Zenon DEF TypeInv
<1>2. HeightInv' BY <1>a, <1>c, <1>d DEF HeightInv, TypeInv
<1>3. ReadableInv' BY <1>a, <1>d, Zenon DEF ReadableInv
<1>4. BatchInv' BY <1>a, Zenon DEF BatchInv, StepInv
<1>5. DatabaseInv'
  <2>1. DatabaseInv OBVIOUS
  <2> HIDE DEF IInv
  <2> QED BY <1>0, <1>a, <1>d, <1>e, <2>1 DEF DatabaseInv
<1>6. ChainIsDeterministic'
  <2>1. DOMAIN blocks = 1 .. Height /\ DOMAIN blocks' = 1 .. n
    <3>1. blocks \in Seq([flag : BOOLEAN, hash : Seq(BOOLEAN)]) BY Zenon DEF TypeInv
    <3> HIDE DEF IInv
    <3> QED BY <1>c, <3>1
  <2>2. 1 .. n \subseteq 1 .. Height BY <1>c
  <2> QED BY <1>0, <1>c, <2>1, <2>2, Zenon DEF ChainIsDeterministic
<1>7. PvtMatchesHash' BY <1>a, <1>d, Zenon DEF PvtMatchesHash
<1>8. StepInv' /\ AheadInv' /\ HaveInv'
  BY <1>0, <1>a, Zenon DEF StepInv, AheadInv, HaveInv
<1> QED BY <1>1, <1>2, <1>3, <1>4, <1>5, <1>6, <1>7, <1>8, Zenon

\* The ledger is opened with the commit hash of its last block.
LEMMA OpenInv == ASSUME IInv, Open PROVE IInv'
<1> USE DEF IInv, Open, stores, state, hist, memory, count, Height, Running, Ahead, Committing
<1>0. Meaning' = Meaning BY Zenon DEF Meaning
<1>a. /\ pc = "down" /\ commitHash' = LastPersistedCommitHash
      /\ ahead' = IsPvtDataStoreAheadOfBlockStore
      /\ pc' = IF DatabaseAhead THEN "refused" ELSE "recovering"
      /\ UNCHANGED <<ordered, stores, state, hist, cur, recon, count>>
  OBVIOUS
<1> HIDE DEF Open
<1>b. commitHash' = Meaning[Height].flags /\ commitHash' \in Seq(BOOLEAN)
  <2>1. CASE blocks = <<>>
    <3>1. Height = 0 /\ LastPersistedCommitHash = <<>> BY <2>1, Zenon DEF LastPersistedCommitHash
    <3>2. Meaning[0].flags = <<>> BY GenesisIs, Zenon
    <3> QED BY <1>a, <3>1, <3>2
  <2>2. CASE blocks # <<>>
    <3>1. Height \in DOMAIN blocks /\ blocks[Height] \in [flag : BOOLEAN, hash : Seq(BOOLEAN)]
      <4>1. blocks \in Seq([flag : BOOLEAN, hash : Seq(BOOLEAN)]) BY Zenon DEF TypeInv
      <4> HIDE DEF IInv
      <4>2. Height \in 1 .. Len(blocks) BY <2>2, <4>1
      <4> QED BY <4>1, <4>2, SeqIs, Zenon
    <3>2. blocks[Height].hash = Meaning[Height].flags BY <3>1 DEF ChainIsDeterministic
    <3> QED BY <1>a, <2>2, <3>1, <3>2, Zenon DEF LastPersistedCommitHash
  <2> QED BY <2>1, <2>2, Zenon
<1>c. ahead' \in BOOLEAN /\ (ahead' <=> Len(pvtStore) > Height)
  <2>1. ahead' = (Len(pvtStore) > Height) BY <1>a, Zenon DEF IsPvtDataStoreAheadOfBlockStore
  <2> HIDE DEF IInv, Height
  <2>2. (Len(pvtStore) > Height) \in BOOLEAN OBVIOUS
  <2> QED BY <2>1, <2>2, Zenon
<1>d. pc' \in {"refused", "recovering"} /\ (pc' = "recovering" => stateHeight <= Height /\ historyHeight <= Height)
  <2>1. stateHeight \in Nat /\ historyHeight \in Nat /\ Height \in Nat BY DEF TypeInv
  <2> DEFINE m == Max({stateHeight, historyHeight})
  <2>2. m \in Nat /\ m >= stateHeight /\ m >= historyHeight BY <2>1, MaxOfTwo, Zenon
  <2>3. pc' = IF m > Height THEN "refused" ELSE "recovering" BY <1>a, Zenon DEF DatabaseAhead
  <2> HIDE DEF m
  <2> QED BY <2>1, <2>2, <2>3
<1>e. recon.step = "idle" BY <1>a, Zenon DEF StepInv
<1>1. TypeInv' BY <1>a, <1>b, <1>c, <1>d, Zenon DEF TypeInv, Steps
<1>2. StepInv' BY <1>0, <1>a, <1>b, <1>d, <1>e, Zenon DEF StepInv
<1>3. AheadInv' BY <1>a, <1>c, <1>d, Zenon DEF AheadInv
<1>4. HaveInv' BY <1>a, <1>d, Zenon DEF HaveInv
<1>5. HeightInv' /\ ReadableInv' /\ BatchInv' /\ DatabaseInv' /\ ChainIsDeterministic' /\ PvtMatchesHash'
  BY <1>0, <1>a, Zenon DEF HeightInv, ReadableInv, BatchInv, DatabaseInv, ChainIsDeterministic, PvtMatchesHash
<1> QED BY <1>1, <1>2, <1>3, <1>4, <1>5, Zenon

\* Dropped databases start again at the genesis block.
LEMMA DropDatabaseInv == ASSUME IInv, DropDatabase PROVE IInv'
<1> USE DEF IInv, DropDatabase, stores, state, hist, memory, count, Height, Running, Ahead, Committing
<1>0. Meaning' = Meaning BY Zenon DEF Meaning
<1>a. /\ hashState' = [k \in Keys |-> Absent] /\ pvtState' = [k \in Keys |-> Absent] /\ stateHeight' = 0
      /\ pc = "refused" /\ pc' = "down"
      /\ UNCHANGED <<ordered, stores, hist, ahead, commitHash, cur, recon, count>>
  BY Zenon DEF DropState
<1> HIDE DEF DropDatabase
<1>b. Meaning[0].hashes = [k \in Keys |-> Absent] BY GenesisIs, Zenon
<1>1. TypeInv'
  <2>1. TypeInv OBVIOUS
  <2> HIDE DEF IInv
  <2> QED BY <1>a, <2>1, NoEntries, Zenon DEF TypeInv, Steps
<1>2. HeightInv' BY <1>a DEF HeightInv, TypeInv
<1>3. BatchInv' BY <1>a, Zenon DEF BatchInv, StepInv
<1>4. DatabaseInv' BY <1>0, <1>a, <1>b, Zenon DEF DatabaseInv
<1>5. StepInv' /\ AheadInv' /\ ReadableInv' /\ HaveInv' /\ ChainIsDeterministic' /\ PvtMatchesHash'
  BY <1>0, <1>a, Zenon DEF StepInv, AheadInv, ReadableInv, HaveInv, ChainIsDeterministic, PvtMatchesHash
<1> QED BY <1>1, <1>2, <1>3, <1>4, <1>5, Zenon

\* The recovery commits a block that the state database lacks.
LEMMA RecommitStateInv == ASSUME IInv, RecommitState PROVE IInv'
<1> USE DEF IInv, RecommitState, stores, state, hist, memory, count, Height, Running, Ahead, Committing
<1>0. Meaning' = Meaning BY Zenon DEF Meaning
<1> DEFINE n == stateHeight + 1
<1>a. /\ pc = "recovering" /\ n <= Height
      /\ ApplyUpdates(n, blocks[n].flag, pvtStore[n] # "missing")
      /\ UNCHANGED <<ordered, stores, hist, memory, recon, count>>
  OBVIOUS
<1> HIDE DEF RecommitState
<1>b. /\ n \in Nat /\ n \in DOMAIN blocks /\ n <= Len(pvtStore) BY <1>a DEF TypeInv, HeightInv
<1>c. blocks[n].flag = Meaning[n].flags[n] /\ blocks[n].flag \in BOOLEAN
  <2>1. blocks \in Seq([flag : BOOLEAN, hash : Seq(BOOLEAN)]) /\ ChainIsDeterministic BY Zenon DEF TypeInv
  <2> HIDE DEF IInv
  <2>2. /\ DOMAIN blocks = 1 .. Len(blocks)
        /\ \A k \in 1 .. Len(blocks) : blocks[k] \in [flag : BOOLEAN, hash : Seq(BOOLEAN)]
    BY <2>1, SeqIs, Zenon
  <2>3. blocks[n] \in [flag : BOOLEAN, hash : Seq(BOOLEAN)] BY <1>b, <2>2, Zenon
  <2> QED BY <1>b, <2>1, <2>3 DEF ChainIsDeterministic
<1>d. /\ hashState' \in [Keys -> Entries \cup {Absent}]
      /\ pvtState' \in [Keys -> Entries \cup {Absent}]
      /\ stateHeight' = n
      /\ DatabaseInv' /\ PvtMatchesHash' /\ ReadableInv'
  <2>1. n = stateHeight + 1 /\ (pvtStore[n] # "missing") \in BOOLEAN
        /\ (pvtStore[n] = "have" => pvtStore[n] # "missing")
    OBVIOUS
  <2>2. UNCHANGED <<ordered, pvtStore, hist>> BY <1>a, Zenon
  <2> HIDE DEF IInv, Height, n
  <2> QED BY <1>a, <1>b, <1>c, <2>1, <2>2, Updates, Zenon
<1>e. recon.step = "idle" BY <1>a, Zenon DEF StepInv
<1>1. TypeInv' BY <1>a, <1>b, <1>d, Zenon DEF TypeInv
<1>2. HeightInv' BY <1>a, <1>b, <1>d, Zenon DEF HeightInv
<1>3. StepInv' BY <1>0, <1>a, <1>d, Zenon DEF StepInv
<1>4. ReadableInv' BY <1>d, Zenon
<1>5. BatchInv' BY <1>a, <1>e, Zenon DEF BatchInv
<1>6. DatabaseInv' BY <1>d, Zenon
<1>7. PvtMatchesHash' BY <1>d, Zenon
<1>8. AheadInv' /\ HaveInv' /\ ChainIsDeterministic'
  BY <1>0, <1>a, Zenon DEF AheadInv, HaveInv, ChainIsDeterministic
<1> QED BY <1>1, <1>2, <1>3, <1>4, <1>5, <1>6, <1>7, <1>8, Zenon

\* The recovery commits a block that the history database lacks.
LEMMA RecommitHistoryInv == ASSUME IInv, RecommitHistory PROVE IInv'
<1> USE DEF IInv, RecommitHistory, stores, state, hist, memory, count, Height, Running, Ahead, Committing
<1>0. Meaning' = Meaning BY Zenon DEF Meaning
<1>a. /\ pc = "recovering" /\ historyHeight < Height /\ HistoryCommit(historyHeight + 1)
      /\ UNCHANGED <<ordered, stores, state, memory, recon, count>>
  OBVIOUS
<1> HIDE DEF RecommitHistory
<1>b. historyHeight + 1 \in Nat /\ historyHeight + 1 <= Height BY <1>a DEF TypeInv
<1>c. historyHeight' = historyHeight + 1 /\ DatabaseInv'
  <2> DEFINE n == historyHeight + 1
  <2>1. n \in Nat /\ n = historyHeight + 1 /\ n <= Height /\ HistoryCommit(n) BY <1>a, <1>b, Zenon
  <2>2. UNCHANGED <<ordered, hashState, stateHeight>> BY <1>a, Zenon
  <2> HIDE DEF n, IInv, Height
  <2>3. historyHeight' = n /\ DatabaseInv' BY <2>1, <2>2, HistoryUpdates, Zenon
  <2> QED BY <2>1, <2>3, Zenon
<1>1. TypeInv' BY <1>a, <1>b, <1>c, Zenon DEF TypeInv
<1>2. HeightInv' BY <1>a, <1>b, <1>c DEF HeightInv, TypeInv
<1>3. StepInv' BY <1>0, <1>a, <1>b, <1>c, Zenon DEF StepInv
<1>4. DatabaseInv' BY <1>c, Zenon
<1>5. AheadInv' /\ ReadableInv' /\ HaveInv' /\ BatchInv' /\ ChainIsDeterministic' /\ PvtMatchesHash'
  BY <1>0, <1>a, Zenon DEF AheadInv, ReadableInv, HaveInv, BatchInv, ChainIsDeterministic, PvtMatchesHash
<1> QED BY <1>1, <1>2, <1>3, <1>4, <1>5, Zenon

\* The recovered ledger has the commit hash of its last block.
LEMMA RecoveredInv == ASSUME IInv, Recovered PROVE IInv'
<1> USE DEF IInv, Recovered, stores, state, hist, memory, count, Height, Running, Ahead, Committing
<1>0. Meaning' = Meaning BY Zenon DEF Meaning
<1>a. /\ pc = "recovering" /\ stateHeight >= Height /\ historyHeight >= Height /\ pc' = "idle"
      /\ UNCHANGED <<ordered, stores, state, hist, ahead, commitHash, cur, recon, count>>
  OBVIOUS
<1> HIDE DEF Recovered
<1>b. stateHeight \in Nat /\ historyHeight \in Nat /\ Height \in Nat BY DEF TypeInv
<1>c. stateHeight = Height /\ historyHeight = Height
  <2>1. stateHeight <= Height /\ historyHeight <= Height BY <1>a, Zenon DEF StepInv
  <2> HIDE DEF IInv
  <2> QED BY <1>a, <1>b, <2>1
<1>1. TypeInv' BY <1>a, Zenon DEF TypeInv, Steps
<1>2. StepInv' BY <1>0, <1>a, <1>c, Zenon DEF StepInv
<1>3. HeightInv' /\ AheadInv' /\ ReadableInv' /\ HaveInv' /\ BatchInv' /\ DatabaseInv' /\ ChainIsDeterministic' /\ PvtMatchesHash'
  BY <1>0, <1>a, Zenon DEF HeightInv, AheadInv, ReadableInv, HaveInv, BatchInv, DatabaseInv, ChainIsDeterministic,
     PvtMatchesHash
<1> QED BY <1>1, <1>2, <1>3, Zenon

\* The ordering service appends a transaction: what earlier blocks mean stays.
LEMMA OrderInv == ASSUME IInv, Order PROVE IInv'
<1> USE DEF stores, state, hist, memory, count, Height, Running, Ahead, Committing
<1>1. PICK tx \in Tx(Len(ordered) + 1) : ordered' = Append(ordered, tx) BY Zenon DEF Order
<1>2. Len(ordered) < MaxBlocks /\ UNCHANGED <<stores, state, hist, memory, recon, count>> BY Zenon DEF Order
<1>3. /\ ordered \in Chains /\ ordered \in Seq(Tx(MaxBlocks)) /\ Len(ordered) \in Nat
  BY DEF IInv, TypeInv, Chains
<1>4. tx \in Tx(MaxBlocks)
  <2>1. 0 .. (Len(ordered) + 1) - 1 \subseteq 0 .. MaxBlocks - 1 BY <1>2, <1>3, KVLedgerAssumption
  <2> QED BY <2>1, Zenon DEF Tx
<1>5. ordered' \in Seq(Tx(MaxBlocks)) /\ Len(ordered') = Len(ordered) + 1 BY <1>1, <1>3, <1>4
<1>6. \A n \in 0 .. Len(ordered) : Meaning'[n] = Meaning[n] BY <1>1, <1>3, MeaningOfPrefix, Zenon DEF Meaning
<1>7. TypeInv' BY <1>2, <1>3, <1>5, KVLedgerAssumption DEF IInv, TypeInv
<1>8. /\ Height \in 0 .. Len(ordered) /\ stateHeight \in 0 .. Len(ordered) /\ historyHeight \in 0 .. Len(ordered)
      /\ Len(pvtStore) \in 0 .. Len(ordered)
  BY <1>3 DEF IInv, TypeInv, HeightInv
<1>9. HeightInv' BY <1>2, <1>3, <1>5, <1>8 DEF IInv, HeightInv
<1>10. StepInv'
  <2>1. pc \in Steps /\ (Ahead => Height < Len(ordered)) BY Zenon DEF IInv, TypeInv, StepInv
  <2>2. Committing \in 0 .. Len(ordered) BY <1>3, <1>8, <2>1
  <2>3. Meaning'[Committing] = Meaning[Committing] /\ Committing' = Committing BY <1>2, <1>6, <2>2, Zenon
  <2>4. Height < Len(ordered) => Height < Len(ordered') BY <1>3, <1>5, <1>8
  <2> HIDE DEF Committing
  <2> QED BY <1>2, <2>3, <2>4, Zenon DEF IInv, StepInv
<1>11. ChainIsDeterministic'
  <2>1. DOMAIN blocks = 1 .. Height BY DEF IInv, TypeInv
  <2>2. \A n \in DOMAIN blocks : n \in 0 .. Len(ordered) BY <1>3, <1>8, <2>1
  <2> QED BY <1>2, <1>6, <2>2, Zenon DEF IInv, ChainIsDeterministic
<1>12. DatabaseInv'
  <2>1. \A n \in 1 .. historyHeight : Meaning'[n] = Meaning[n] BY <1>3, <1>6, <1>8
  <2>2. Meaning'[stateHeight] = Meaning[stateHeight] BY <1>6, <1>8, Zenon
  <2>3. {n \in 1 .. historyHeight : Meaning[n].flags[n]} = {n \in 1 .. historyHeight : Meaning'[n].flags[n]}
    BY <2>1, Zenon
  <2> QED BY <1>2, <2>2, <2>3, Zenon DEF IInv, DatabaseInv
<1>13. AheadInv' /\ ReadableInv' /\ HaveInv' /\ BatchInv' /\ PvtMatchesHash'
  BY <1>2, Zenon DEF IInv, AheadInv, ReadableInv, HaveInv, BatchInv, PvtMatchesHash
<1> QED BY <1>7, <1>9, <1>10, <1>11, <1>12, <1>13, Zenon DEF IInv

\* Nothing happens.
LEMMA StutterInv == ASSUME IInv, UNCHANGED vars PROVE IInv'
<1>1. Meaning' = Meaning BY Zenon DEF Meaning, vars
<1> USE DEF vars, stores, state, hist, memory, count, IInv, Height, Running, Ahead, Committing
<1>2. TypeInv' /\ HeightInv' BY Zenon DEF TypeInv, HeightInv
<1>3. StepInv' BY <1>1, Zenon DEF StepInv
<1>4. AheadInv' /\ ReadableInv' /\ HaveInv' BY Zenon DEF AheadInv, ReadableInv, HaveInv
<1>5. BatchInv' /\ PvtMatchesHash' BY Zenon DEF BatchInv, PvtMatchesHash
<1>6. DatabaseInv' /\ ChainIsDeterministic' BY <1>1, Zenon DEF DatabaseInv, ChainIsDeterministic
<1> QED BY <1>2, <1>3, <1>4, <1>5, <1>6, Zenon

\* An empty ledger.
LEMMA InitInv == Init => IInv
<1> SUFFICES ASSUME Init PROVE IInv OBVIOUS
<1> USE DEF Init, Height, Running, Ahead, Committing
<1>1. TypeInv
  <2>1. NoBatch \in [flag : BOOLEAN, have : BOOLEAN, pvtHeight : Nat] BY Zenon DEF NoBatch
  <2>2. Idle.step = "idle" /\ DOMAIN Idle = {"step", "asked", "data", "batch"} BY Zenon DEF Idle
  <2>3. \A S : <<>> \in Seq(S) OBVIOUS
  <2>4. ordered \in Seq(Tx(MaxBlocks)) /\ Len(ordered) <= MaxBlocks BY <2>3, KVLedgerAssumption
  <2> QED BY <2>1, <2>2, <2>3, <2>4, Zenon DEF TypeInv, Steps
<1>2. Meaning[0] = AtGenesis BY <1>1, MeaningFacts, Zenon
<1>3. HeightInv /\ AheadInv /\ HaveInv /\ ChainIsDeterministic
  BY DEF HeightInv, AheadInv, HaveInv, ChainIsDeterministic
<1>6. ReadableInv /\ BatchInv /\ PvtMatchesHash
  BY Zenon DEF ReadableInv, BatchInv, PvtMatchesHash, Idle
<1>4. StepInv BY <1>2 DEF StepInv, AtGenesis
<1>5. DatabaseInv BY <1>2 DEF DatabaseInv, AtGenesis
<1> QED BY <1>1, <1>3, <1>4, <1>5, <1>6, Zenon DEF IInv

\* The inductive invariant holds in all states of the ledger.
LEMMA Invariance == Spec => []IInv
<1>1. IInv /\ [Next]_vars => IInv'
  BY OrderInv, ValidateAndPrepareInv, CommitPvtDataInv, AddBlockInv, CommitStateInv, CommitHistoryInv,
     GetMissingPvtDataInv, FindStalePvtDataInv, ApplyOldPvtDataInv, CommitPvtDataOfOldBlocksInv,
     CrashInv, RollbackKVLedgerInv, OpenInv, DropDatabaseInv, RecommitStateInv, RecommitHistoryInv,
     RecoveredInv, StutterInv, Zenon
  DEF Next, Commit, Reconcile, Recover
<1> QED BY <1>1, InitInv, PTL DEF Spec

-------------------------------------------------------------------------------
\* Every peer gives a block of the channel the same validation flag and the same
\* commit hash, whatever crashes, rollbacks and reconciliations it goes through.
THEOREM DeterministicChain == Spec => []ChainIsDeterministic
<1>1. IInv => ChainIsDeterministic BY Zenon DEF IInv
<1> QED BY <1>1, Invariance, PTL

\* The state and the history database hold what their blocks wrote, and serve no
\* reader while they are ahead of the block store or left behind by a crash.
THEOREM MatchingDatabases == Spec => []DatabasesMatchChain
<1>1. IInv => DatabasesMatchChain
  <2> SUFFICES ASSUME IInv PROVE DatabasesMatchChain OBVIOUS
  <2>1. DatabaseInv /\ StepInv /\ pc \in Steps /\ stateHeight \in Nat /\ historyHeight \in Nat /\ Height \in Nat
    BY DEF IInv, TypeInv, Height
  <2>2. ASSUME Running
        PROVE  /\ historyHeight <= stateHeight /\ stateHeight <= Height
               /\ pc = "idle" => historyHeight = Height
    BY <2>1, <2>2 DEF StepInv, Steps, Running
  <2> QED BY <2>1, <2>2, Zenon DEF DatabasesMatchChain, DatabaseInv
<1> QED BY <1>1, Invariance, PTL

\* No block is stored before its private data, and the flag that skips writing
\* private data that the store already has is right.
THEOREM CoveredBlocks == Spec => []PvtStoreCoversBlocks
<1>1. IInv => PvtStoreCoversBlocks
  BY DEF IInv, PvtStoreCoversBlocks, HeightInv, AheadInv, TypeInv, Steps, Running, Height
<1> QED BY <1>1, Invariance, PTL

\* Private data and its hash are not of two different writes with one version,
\* whatever the reconciler writes between the steps of a commit.
THEOREM MatchingPvtData == Spec => []PvtMatchesHash
<1>1. IInv => PvtMatchesHash BY Zenon DEF IInv
<1> QED BY <1>1, Invariance, PTL

\* Private data that came with its block can be read as long as it is current.
THEOREM ReadablePvtData == Spec => []CommittedDataIsReadable
<1>1. IInv => CommittedDataIsReadable BY Zenon DEF IInv, CommittedDataIsReadable, Readable, ReadableInv
<1> QED BY <1>1, Invariance, PTL

-----------------------------------------------------------------------------
(* Snapshots *)

\* A snapshot that is generated.
GenRecord == [step : {"none", "start", "txids", "state", "done"}, block : Nat, txids : Nat, state : Nat]

\* Types of what a snapshot is made from.
SnapshotTypeInv ==
  /\ height \in Nat /\ last \in Nat
  /\ committer \in {"idle", "waiting", "committing", "done"}
  /\ gen \in GenRecord

\* What the manager knows of the committer.
StatusInv ==
  /\ status = CASE committer = "idle" -> "idle"
                [] committer = "waiting" -> "blocked"
                [] OTHER -> "inProcess"
  /\ up /\ committer = "idle" => last = height

\* No block is committed while a snapshot is generated, which is of the last block.
GenInv ==
  /\ gen.step # "none" <=> inProgress
  /\ gen.step # "none" => committer \in {"idle", "waiting"} /\ gen.block = height
  /\ gen.step \in {"txids", "state"} => gen.txids = height
  /\ gen.step = "state" => gen.state = height

\* The inductive invariant of the snapshots.
SnapshotInv ==
  /\ SnapshotTypeInv /\ StatusInv /\ GenInv /\ SnapshotIsConsistent
  /\ ~up => committer = "idle" /\ gen.step = "none"

LEMMA NewGen ==
  /\ NotGenerating \in GenRecord /\ NotGenerating.step = "none"
  /\ \A n \in Nat : Generating(n) \in GenRecord /\ Generating(n).step = "start" /\ Generating(n).block = n
BY DEF NotGenerating, Generating, GenRecord

LEMMA SnapshotInitInv == SInit => SnapshotInv
BY NewGen DEF SInit, SnapshotInv, SnapshotTypeInv, StatusInv, GenInv, SnapshotIsConsistent

\* A commit that begins during a snapshot is made to wait; any other finds none in progress
\* until it is done.
LEMMA CommitStepInv == ASSUME SnapshotInv, CommitStep PROVE SnapshotInv'
<1>1. CASE CommitStart
  BY <1>1 DEF CommitStart, disk, SnapshotInv, SnapshotTypeInv, StatusInv, GenInv, SnapshotIsConsistent
<1>2. CASE StoreBlock
  BY <1>2 DEF StoreBlock, manager, SnapshotInv, SnapshotTypeInv, StatusInv, GenInv, SnapshotIsConsistent
<1>3. CASE CommitDone
  BY <1>3, NewGen DEF CommitDone, Done, disk, SnapshotInv, SnapshotTypeInv, StatusInv, GenInv, SnapshotIsConsistent
<1> QED BY <1>1, <1>2, <1>3 DEF CommitStep

\* The exports see the height that the snapshot began with.
LEMMA GenerateInv == ASSUME SnapshotInv, Generate PROVE SnapshotInv'
<1>1. CASE ExportTxIds
  <2>1. gen' = [gen EXCEPT !.step = "txids", !.txids = height] /\ gen.step = "start" BY <1>1 DEF ExportTxIds
  <2>2. gen' \in GenRecord /\ gen'.step = "txids" /\ gen'.txids = height /\ gen'.block = gen.block
    BY <2>1 DEF SnapshotInv, SnapshotTypeInv, GenRecord
  <2> QED
    BY <1>1, <2>1, <2>2 DEF ExportTxIds, disk, manager, SnapshotInv, SnapshotTypeInv, StatusInv, GenInv, SnapshotIsConsistent
<1>2. CASE ExportState
  <2>1. gen' = [gen EXCEPT !.step = "state", !.state = height] /\ gen.step = "txids" BY <1>2 DEF ExportState
  <2>2. /\ gen' \in GenRecord /\ gen'.step = "state" /\ gen'.state = height
        /\ gen'.txids = gen.txids /\ gen'.block = gen.block
    BY <2>1 DEF SnapshotInv, SnapshotTypeInv, GenRecord
  <2> QED
    BY <1>2, <2>1, <2>2 DEF ExportState, disk, manager, SnapshotInv, SnapshotTypeInv, StatusInv, GenInv, SnapshotIsConsistent
<1>3. CASE RenameSnapshot \/ GenerateFails
  <2>1. gen' = [gen EXCEPT !.step = "done"] /\ gen.step # "none" BY <1>3 DEF RenameSnapshot, GenerateFails
  <2>2. gen' \in GenRecord /\ gen'.step = "done" /\ gen'.block = gen.block
    BY <2>1 DEF SnapshotInv, SnapshotTypeInv, GenRecord
  <2>3. UNCHANGED <<height, manager, committer, up>> BY <1>3 DEF RenameSnapshot, GenerateFails, disk
  <2>4. SnapshotIsConsistent'
    <3>1. CASE RenameSnapshot
      <4>1. gen.txids = gen.block /\ gen.state = gen.block BY <3>1 DEF RenameSnapshot, SnapshotInv, GenInv
      <4> QED BY <3>1, <4>1 DEF RenameSnapshot, SnapshotInv, SnapshotIsConsistent
    <3>2. CASE GenerateFails BY <3>2 DEF GenerateFails, disk, SnapshotInv, SnapshotIsConsistent
    <3> QED BY <1>3, <3>1, <3>2
  <2> QED BY <2>1, <2>2, <2>3, <2>4 DEF manager, SnapshotInv, SnapshotTypeInv, StatusInv, GenInv
<1>4. CASE SnapshotDone
  BY <1>4, NewGen DEF SnapshotDone, SnapshotInv, SnapshotTypeInv, StatusInv, GenInv, SnapshotIsConsistent
<1> QED BY <1>1, <1>2, <1>3, <1>4 DEF Generate

\* A request for the last block begins its snapshot only when no commit is under way.
LEMMA RequestInv == ASSUME SnapshotInv, SubmitSnapshotRequest \/ CancelSnapshotRequest PROVE SnapshotInv'
<1>1. CASE SubmitSnapshotRequest
  <2>1. /\ UNCHANGED <<height, snapshots, last, status, committer, up>>
        /\ \/ gen' = gen /\ (inProgress' <=> inProgress)
           \/ gen' = Generating(last) /\ inProgress' /\ status = "idle"
    <3>1. PICK block \in 0 .. MaxBlock :
            LET n == IF block = 0 THEN LeastAcceptable ELSE block
                now == status = "idle" /\ n = last
            IN  inProgress' = (inProgress \/ now) /\ gen' = IF now THEN Generating(n) ELSE gen
      BY <1>1 DEF SubmitSnapshotRequest
    <3>2. UNCHANGED <<height, snapshots, last, status, committer, up>> BY <1>1 DEF SubmitSnapshotRequest
    <3> QED BY <3>1, <3>2
  <2> QED BY <1>1, <2>1, NewGen
          DEF SubmitSnapshotRequest, SnapshotInv, SnapshotTypeInv, StatusInv, GenInv, SnapshotIsConsistent
<1>2. CASE CancelSnapshotRequest
  BY <1>2 DEF CancelSnapshotRequest, SnapshotInv, SnapshotTypeInv, StatusInv, GenInv, SnapshotIsConsistent
<1> QED BY <1>1, <1>2

LEMMA SnapshotCrashInv == ASSUME SnapshotInv, PeerCrash \/ Restart PROVE SnapshotInv'
<1>1. CASE PeerCrash
  BY <1>1, NewGen DEF PeerCrash, disk, SnapshotInv, SnapshotTypeInv, StatusInv, GenInv, SnapshotIsConsistent
<1>2. CASE Restart
  <2>1. /\ ~up /\ up' = TRUE /\ last' = height /\ UNCHANGED <<height, snapshots, status, committer>>
        /\ \/ gen' = Generating(height) /\ inProgress' = TRUE
           \/ gen' = NotGenerating /\ inProgress' = FALSE
    BY <1>2 DEF Restart, disk
  <2> QED BY <2>1, NewGen DEF SnapshotInv, SnapshotTypeInv, StatusInv, GenInv, SnapshotIsConsistent
<1> QED BY <1>1, <1>2

LEMMA SnapshotNextInv == SnapshotInv /\ [SNext]_svars => SnapshotInv'
<1> SUFFICES ASSUME SnapshotInv, [SNext]_svars PROVE SnapshotInv' OBVIOUS
<1>1. CASE UNCHANGED svars
  BY <1>1 DEF svars, disk, manager, SnapshotInv, SnapshotTypeInv, StatusInv, GenInv, SnapshotIsConsistent
<1> QED BY <1>1, CommitStepInv, GenerateInv, RequestInv, SnapshotCrashInv DEF SNext

\* generateSnapshot exports the parts of a snapshot one by one, and all of them show the block
\* that was asked for.
THEOREM ConsistentSnapshots == SSpec => []SnapshotIsConsistent
<1>1. SnapshotInv => SnapshotIsConsistent BY DEF SnapshotInv
<1> QED BY <1>1, SnapshotInitInv, SnapshotNextInv, PTL DEF SSpec
=============================================================================
