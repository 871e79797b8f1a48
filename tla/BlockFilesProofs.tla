--------------------------- MODULE BlockFilesProofs ----------------------------
(***************************************************************************)
(* Block files as a sequence of blocks: where each block of it starts and  *)
(* ends, what opening, appending to, truncating and removing a file makes  *)
(* of it, and what newBlockfileMgr reads off the files, for any blocks and *)
(* sizes of blocks and files.                                              *)
(***************************************************************************)
EXTENDS BlockFiles, TLAPS

\* What a block file, and blockfilesInfo, can be.
FileSet == [blocks : Seq(Block), torn : BOOLEAN]
InfoSet == [latestFileNumber : Nat, latestFileSize : Nat, noBlockFiles : BOOLEAN, lastPersistedBlock : Nat]

\* How many blocks there are in the files before the n-th.
Before(fs, n) == Len(UpTo(fs)[n - 1])

\* The k-th block of the files starts at loc.
IsPlace(fs, loc, k) ==
  /\ loc.file \in Nat /\ loc.file + 1 \in DOMAIN fs
  /\ \E i \in DOMAIN fs[loc.file + 1].blocks :
       /\ k = Before(fs, loc.file + 1) + i
       /\ loc.offset = Ends(fs[loc.file + 1].blocks)[i - 1]

\* Appending goes on in the n-th file: it is the newest, or the newest has been created only.
IsOpen(fs, n) == n = Len(fs) \/ (n = Len(fs) - 1 /\ fs[Len(fs)].blocks = <<>>)

\* The end of the k-th block is in the n-th file, at an offset.
EndsAt(fs, n, offset, k) ==
  \E j \in 0 .. Len(fs[n].blocks) : k = Before(fs, n) + j /\ offset = Ends(fs[n].blocks)[j]

\* blockfilesInfo i is that of the first k blocks.
Covers(fs, i, k) ==
  /\ i \in InfoSet /\ k \in 0 .. Len(Stored(fs))
  /\ i.noBlockFiles = (k = 0)
  /\ k > 0 => i.lastPersistedBlock = k - 1
  /\ IF fs = <<>> THEN i.latestFileNumber = 0 /\ i.latestFileSize = 0
     ELSE /\ i.latestFileNumber + 1 \in DOMAIN fs /\ IsOpen(fs, i.latestFileNumber + 1)
          /\ EndsAt(fs, i.latestFileNumber + 1, i.latestFileSize, k)

\* Only the newest file may be empty, and the blocks in the files are numbered from 0 without a gap.
FilesInv ==
  /\ files \in Seq(FileSet)
  /\ \A n \in DOMAIN files : n < Len(files) => files[n].blocks # <<>>
  /\ \A k \in DOMAIN Stored(files) : Stored(files)[k].number = k - 1

\* A database is fit for newBlockfileMgr.
IsSound(fs, d) ==
  /\ d = [info |-> d.info, index |-> d.index, savePoint |-> d.savePoint]
  /\ d.savePoint \in -1 .. Len(Stored(fs)) - 1
  /\ DOMAIN d.index = 0 .. d.savePoint
  /\ \A j \in 0 .. d.savePoint : IsPlace(fs, d.index[j], j + 1)
  /\ d.info # <<>> => /\ d.info = <<d.info[1]>>
                      /\ \E k \in Nat : Covers(fs, d.info[1], k)
                      /\ \A n \in DOMAIN fs : fs[n].torn => n <= d.info[1].latestFileNumber + 1

\* Induction over the natural numbers, with a set for the predicate.  It is a hypothesis of the
\* lemmas; the modules with the theorems prove it, from what the library knows of well-founded
\* relations.
Induction ==
  \A S : 0 \in S /\ (\A n \in Nat : n \in S => n + 1 \in S) => Nat \subseteq S

--------------------------------------------------------------------------------
(* Sequences, and where blocks end *)

\* A sequence with elements has a length.
LEMMA EmptySeq ==
  ASSUME NEW S
  PROVE  <<>> \in Seq(S) /\ \A s \in Seq(S) : s # <<>> => Len(s) \in Nat \ {0}
OBVIOUS

\* A block is not empty, and fits a file.
LEMMA SizeIs ==
  \A b \in Block : /\ DataSize[b.data] \in Nat /\ DataSize[b.data] > 0
                   /\ DataSize[b.data] <= MaxFileSize
BY FilesAssumption DEF Block

\* Ends is the function that its definition describes.
LEMMA EndsIs ==
  ASSUME Induction, NEW s, Len(s) \in Nat
  PROVE  Ends(s) = [k \in 0 .. Len(s) |-> IF k = 0 THEN 0 ELSE Ends(s)[k - 1] + DataSize[s[k].data]]
<1> DEFINE Def(f, N) == f = [k \in 0 .. N |-> IF k = 0 THEN 0 ELSE f[k - 1] + DataSize[s[k].data]]
           S == {N \in Nat : \E f : Def(f, N)}
<1>1. 0 \in S
  <2>1. Def([k \in 0 .. 0 |-> 0], 0) OBVIOUS
  <2> QED BY <2>1, Zenon
<1>2. ASSUME NEW N \in Nat, N \in S PROVE N + 1 \in S
  <2>1. PICK f : Def(f, N) BY <1>2, Zenon
  <2> DEFINE g == [k \in 0 .. N + 1 |-> IF k = N + 1 THEN f[N] + DataSize[s[N + 1].data] ELSE f[k]]
  <2>2. ASSUME NEW k \in 0 .. N + 1
        PROVE  g[k] = IF k = 0 THEN 0 ELSE g[k - 1] + DataSize[s[k].data]
    <3>1. CASE k = 0 BY <2>1, <3>1
    <3>2. CASE k \in 1 .. N
      <4>1. g[k] = f[k] /\ g[k - 1] = f[k - 1] BY <3>2
      <4>2. f[k] = f[k - 1] + DataSize[s[k].data] BY <2>1, <3>2
      <4> QED BY <4>1, <4>2, <3>2
    <3>3. CASE k = N + 1
      <4>1. g[k] = f[N] + DataSize[s[N + 1].data] /\ g[k - 1] = f[N] BY <3>3
      <4> QED BY <4>1, <3>3
    <3> QED BY <3>1, <3>2, <3>3
  <2>3. Def(g, N + 1) BY <2>2, Zenon
  <2>4. \E h : Def(h, N + 1)
    <3> HIDE DEF g, Def
    <3> QED BY <2>3, Zenon
  <2> QED BY <2>4
<1>3. Len(s) \in S
  <2> HIDE DEF S
  <2> QED BY <1>1, <1>2, Zenon DEF Induction
<1>4. \E f : Def(f, Len(s)) BY <1>3, Zenon
<1>5. Def(Ends(s), Len(s)) BY <1>4, Zenon DEF Ends
<1> QED BY <1>5, Zenon

\* Where a block ends, from where the one before it does.
LEMMA EndsStep ==
  ASSUME Induction, NEW s, Len(s) \in Nat
  PROVE  /\ Ends(s)[0] = 0
         /\ \A k \in 1 .. Len(s) : Ends(s)[k] = Ends(s)[k - 1] + DataSize[s[k].data]
<1> DEFINE E == Ends(s)
<1>1. E = [k \in 0 .. Len(s) |-> IF k = 0 THEN 0 ELSE E[k - 1] + DataSize[s[k].data]] BY EndsIs, Zenon
<1> HIDE DEF E
<1>2. E[0] = 0 BY <1>1
<1>3. ASSUME NEW k \in 1 .. Len(s) PROVE E[k] = E[k - 1] + DataSize[s[k].data]
  <2>1. k \in 0 .. Len(s) /\ k # 0 OBVIOUS
  <2> QED BY <1>1, <2>1, Zenon
<1> QED BY <1>2, <1>3, Zenon DEF E

\* Blocks have a size, so that each ends behind those before it.
LEMMA EndsGrow ==
  ASSUME Induction, NEW s \in Seq(Block)
  PROVE  /\ \A k \in 0 .. Len(s) : Ends(s)[k] \in Nat
         /\ \A i, j \in 0 .. Len(s) : i < j => Ends(s)[i] < Ends(s)[j]
<1> DEFINE E == Ends(s)
           S == {k \in Nat : k <= Len(s) => \A i \in 0 .. k : E[i] \in Nat /\ (i < k => E[i] < E[k])}
<1>1. Len(s) \in Nat /\ \A k \in 1 .. Len(s) : s[k] \in Block OBVIOUS
<1>2. E[0] = 0 /\ \A k \in 1 .. Len(s) : E[k] = E[k - 1] + DataSize[s[k].data] BY <1>1, EndsStep, Zenon
<1> HIDE DEF E
<1>3. 0 \in S BY <1>2
<1>4. ASSUME NEW k \in Nat, k \in S PROVE k + 1 \in S
  <2> SUFFICES ASSUME k + 1 <= Len(s), NEW i \in 0 .. k + 1
               PROVE  E[i] \in Nat /\ (i < k + 1 => E[i] < E[k + 1])
    OBVIOUS
  <2>1. k + 1 \in 1 .. Len(s) /\ (k + 1) - 1 = k /\ k \in 0 .. k BY <1>1
  <2>2. \A j \in 0 .. k : E[j] \in Nat /\ (j < k => E[j] < E[k]) BY <1>1, <1>4
  <2>3. s[k + 1] \in Block BY <1>1, <2>1, Zenon
  <2>4. DataSize[s[k + 1].data] \in Nat /\ DataSize[s[k + 1].data] > 0 BY <2>3, SizeIs, Zenon
  <2>5. E[k + 1] = E[k] + DataSize[s[k + 1].data] /\ E[k] \in Nat BY <1>2, <2>1, <2>2, Zenon
  <2>6. E[k + 1] \in Nat /\ E[k] < E[k + 1] BY <2>4, <2>5
  <2>7. CASE i = k + 1 BY <2>6, <2>7
  <2>8. CASE i = k BY <2>5, <2>6, <2>8, Zenon
  <2>9. CASE i < k
    <3>1. i \in 0 .. k /\ i # k + 1 BY <2>9
    <3>2. E[i] \in Nat /\ E[i] < E[k] BY <2>2, <2>9, <3>1, Zenon
    <3> QED BY <2>5, <2>6, <3>2
  <2> QED BY <2>7, <2>8, <2>9
<1>5. Nat \subseteq S
  <2> HIDE DEF S
  <2> QED BY <1>3, <1>4, Zenon DEF Induction
<1>6. \A k \in 0 .. Len(s) : E[k] \in Nat BY <1>1, <1>5
<1>7. \A i, j \in 0 .. Len(s) : i < j => E[i] < E[j] BY <1>1, <1>5
<1> QED BY <1>6, <1>7, Zenon DEF E

\* Files that begin alike have the same ends there.
LEMMA EndsAgree ==
  ASSUME Induction, NEW s, NEW t, NEW m \in Nat, Len(s) \in Nat, Len(t) \in Nat, m <= Len(s), m <= Len(t),
         \A k \in 1 .. m : s[k] = t[k]
  PROVE  \A k \in 0 .. m : Ends(s)[k] = Ends(t)[k]
<1> DEFINE E == Ends(s)
           F == Ends(t)
           S == {k \in Nat : k <= m => E[k] = F[k]}
<1>1. E[0] = 0 /\ \A k \in 1 .. Len(s) : E[k] = E[k - 1] + DataSize[s[k].data] BY EndsStep, Zenon
<1>2. F[0] = 0 /\ \A k \in 1 .. Len(t) : F[k] = F[k - 1] + DataSize[t[k].data] BY EndsStep, Zenon
<1> HIDE DEF E, F
<1>3. 0 \in S BY <1>1, <1>2, Zenon
<1>4. ASSUME NEW k \in Nat, k \in S PROVE k + 1 \in S
  <2> SUFFICES ASSUME k + 1 <= m PROVE E[k + 1] = F[k + 1] OBVIOUS
  <2>1. k + 1 \in 1 .. m /\ k + 1 \in 1 .. Len(s) /\ k + 1 \in 1 .. Len(t) /\ (k + 1) - 1 = k OBVIOUS
  <2>2. E[k] = F[k] /\ s[k + 1] = t[k + 1] BY <1>4, <2>1
  <2> QED BY <1>1, <1>2, <2>1, <2>2, Zenon
<1>5. Nat \subseteq S
  <2> HIDE DEF S
  <2> QED BY <1>3, <1>4, Zenon DEF Induction
<1>6. ASSUME NEW k \in 0 .. m PROVE E[k] = F[k] BY <1>5
<1> QED BY <1>6, Zenon DEF E, F

\* An offset where a block ends tells how many blocks are before it.
LEMMA BlocksUpToIs ==
  ASSUME Induction, NEW f, f.blocks \in Seq(Block), NEW n \in 0 .. Len(f.blocks)
  PROVE  BlocksUpTo(f, Ends(f.blocks)[n]) = n
<1> DEFINE E == Ends(f.blocks)
           L == Len(f.blocks)
           P(m) == E[m] <= E[n] /\ (m < L => E[m + 1] > E[n])
<1>1. /\ L \in Nat
      /\ \A k \in 0 .. L : E[k] \in Nat
      /\ \A i, j \in 0 .. L : i < j => E[i] < E[j]
  BY EndsGrow
<1>2. n \in 0 .. L OBVIOUS
<1>3. BlocksUpTo(f, E[n]) = CHOOSE m \in 0 .. L : P(m) BY Zenon DEF BlocksUpTo
<1> HIDE DEF E, L
<1>4. P(n)
  <2>1. CASE n < L
    <3>1. n + 1 \in 0 .. L /\ n < n + 1 BY <1>1, <1>2, <2>1
    <3> QED BY <1>1, <1>2, <3>1
  <2>2. CASE ~(n < L) BY <1>1, <1>2, <2>2
  <2> QED BY <2>1, <2>2, Zenon
<1>5. ASSUME NEW m \in 0 .. L, P(m) PROVE m = n
  <2>1. ~(n < m) BY <1>1, <1>2, <1>5
  <2>2. ASSUME m < n PROVE FALSE
    <3>1. m < L /\ m + 1 \in 0 .. L /\ m + 1 <= n BY <1>1, <1>2, <2>2
    <3>2. E[m + 1] > E[n] BY <1>5, <3>1, Zenon
    <3>3. E[m + 1] <= E[n] BY <1>1, <1>2, <3>1
    <3> QED BY <1>1, <1>2, <3>1, <3>2, <3>3
  <2> QED BY <1>1, <1>2, <2>1, <2>2
<1>6. (CHOOSE m \in 0 .. L : P(m)) = n
  <2> HIDE DEF P
  <2> QED BY <1>2, <1>4, <1>5, Zenon
<1> QED BY <1>3, <1>6, Zenon DEF E

--------------------------------------------------------------------------------
(* The blocks of several files *)

\* A sequence of block files.
Files == Seq(FileSet)

\* The types of their parts.
LEMMA FileIs ==
  ASSUME NEW fs \in Files
  PROVE  /\ Len(fs) \in Nat /\ DOMAIN fs = 1 .. Len(fs)
         /\ \A n \in 1 .. Len(fs) : /\ fs[n] \in FileSet /\ fs[n].blocks \in Seq(Block)
                                    /\ Len(fs[n].blocks) \in Nat
                                    /\ DOMAIN fs[n].blocks = 1 .. Len(fs[n].blocks)
<1>1. Len(fs) \in Nat /\ DOMAIN fs = 1 .. Len(fs) /\ \A n \in 1 .. Len(fs) : fs[n] \in FileSet BY DEF Files
<1>2. \A f \in FileSet : f.blocks \in Seq(Block) BY Zenon DEF FileSet
<1>3. \A s \in Seq(Block) : Len(s) \in Nat /\ DOMAIN s = 1 .. Len(s) OBVIOUS
<1> QED BY <1>1, <1>2, <1>3, Zenon

\* Concatenation, element by element.
LEMMA JoinIs ==
  ASSUME NEW s \in Seq(Block), NEW t \in Seq(Block)
  PROVE  /\ s \o t \in Seq(Block) /\ Len(s \o t) = Len(s) + Len(t)
         /\ \A k \in 1 .. Len(s) : (s \o t)[k] = s[k]
         /\ \A k \in 1 .. Len(t) : (s \o t)[Len(s) + k] = t[k]
<1>1. /\ s \o t \in Seq(Block) /\ Len(s \o t) = Len(s) + Len(t)
      /\ \A i \in 1 .. Len(s) + Len(t) : (s \o t)[i] = IF i <= Len(s) THEN s[i] ELSE t[i - Len(s)]
  OBVIOUS
<1> DEFINE u == s \o t
<1>2. Len(s) \in Nat /\ Len(t) \in Nat OBVIOUS
<1> HIDE DEF u
<1>3. ASSUME NEW k \in 1 .. Len(s) PROVE u[k] = s[k]
  <2>1. k \in 1 .. Len(s) + Len(t) /\ k <= Len(s) BY <1>2
  <2> QED BY <1>1, <2>1, Zenon DEF u
<1>4. ASSUME NEW k \in 1 .. Len(t) PROVE u[Len(s) + k] = t[k]
  <2>1. Len(s) + k \in 1 .. Len(s) + Len(t) /\ ~(Len(s) + k <= Len(s)) /\ (Len(s) + k) - Len(s) = k BY <1>2
  <2> QED BY <1>1, <2>1, Zenon DEF u
<1> QED BY <1>1, <1>3, <1>4, Zenon DEF u

\* UpTo is the function that its definition describes.
LEMMA UpToIs ==
  ASSUME Induction, NEW fs \in Files
  PROVE  UpTo(fs) = [n \in 0 .. Len(fs) |-> IF n = 0 THEN <<>> ELSE UpTo(fs)[n - 1] \o fs[n].blocks]
<1> DEFINE Join(x, n) == x \o fs[n].blocks
           Def(f, N) == f = [n \in 0 .. N |-> IF n = 0 THEN <<>> ELSE Join(f[n - 1], n)]
           S == {N \in Nat : \E f : Def(f, N)}
<1> HIDE DEF Join
<1>1. 0 \in S
  <2>1. Def([n \in 0 .. 0 |-> <<>>], 0) OBVIOUS
  <2> QED BY <2>1, Zenon
<1>2. ASSUME NEW N \in Nat, N \in S PROVE N + 1 \in S
  <2>1. PICK f : Def(f, N) BY <1>2, Zenon
  <2> DEFINE g == [n \in 0 .. N + 1 |-> IF n = N + 1 THEN Join(f[N], N + 1) ELSE f[n]]
  <2>2. ASSUME NEW n \in 0 .. N + 1
        PROVE  g[n] = IF n = 0 THEN <<>> ELSE Join(g[n - 1], n)
    <3>1. CASE n = 0 BY <2>1, <3>1
    <3>2. CASE n \in 1 .. N
      <4>1. g[n] = f[n] /\ g[n - 1] = f[n - 1] BY <3>2
      <4>2. f[n] = Join(f[n - 1], n) BY <2>1, <3>2
      <4> QED BY <4>1, <4>2, <3>2
    <3>3. CASE n = N + 1
      <4>1. g[n] = Join(f[N], N + 1) /\ g[n - 1] = f[N] BY <3>3
      <4> QED BY <4>1, <3>3
    <3> QED BY <3>1, <3>2, <3>3
  <2>3. Def(g, N + 1) BY <2>2, Zenon
  <2>4. \E h : Def(h, N + 1)
    <3> HIDE DEF g, Def
    <3> QED BY <2>3, Zenon
  <2> QED BY <2>4
<1>3. Len(fs) \in S
  <2> HIDE DEF S
  <2>1. Len(fs) \in Nat BY FileIs, Zenon
  <2> QED BY <1>1, <1>2, <2>1, Zenon DEF Induction
<1>4. \E f : Def(f, Len(fs)) BY <1>3, Zenon
<1>5. Def(UpTo(fs), Len(fs)) BY <1>4, Zenon DEF UpTo, Join
<1> QED BY <1>5, Zenon DEF Join

\* The blocks of the first n files, from those of the first n - 1.
LEMMA UpToStep ==
  ASSUME Induction, NEW fs \in Files
  PROVE  /\ UpTo(fs)[0] = <<>>
         /\ \A n \in 1 .. Len(fs) : UpTo(fs)[n] = UpTo(fs)[n - 1] \o fs[n].blocks
         /\ \A n \in 0 .. Len(fs) : UpTo(fs)[n] \in Seq(Block)
<1> DEFINE U == UpTo(fs)
           S == {n \in Nat : n <= Len(fs) => U[n] \in Seq(Block)}
<1>0. Len(fs) \in Nat /\ \A n \in 1 .. Len(fs) : fs[n].blocks \in Seq(Block) BY FileIs, Zenon
<1>1. U = [n \in 0 .. Len(fs) |-> IF n = 0 THEN <<>> ELSE U[n - 1] \o fs[n].blocks] BY UpToIs, Zenon
<1> HIDE DEF U
<1>2. U[0] = <<>> BY <1>0, <1>1
<1>3. ASSUME NEW n \in 1 .. Len(fs) PROVE U[n] = U[n - 1] \o fs[n].blocks
  <2>1. n \in 0 .. Len(fs) /\ n # 0 BY <1>0
  <2> QED BY <1>1, <2>1, Zenon
<1>4. 0 \in S
  <2>1. <<>> \in Seq(Block) BY EmptySeq, Zenon
  <2> QED BY <1>2, <2>1, Zenon
<1>5. ASSUME NEW n \in Nat, n \in S PROVE n + 1 \in S
  <2> SUFFICES ASSUME n + 1 <= Len(fs) PROVE U[n + 1] \in Seq(Block) OBVIOUS
  <2>1. n + 1 \in 1 .. Len(fs) /\ (n + 1) - 1 = n BY <1>0
  <2>2. U[n] \in Seq(Block) /\ fs[n + 1].blocks \in Seq(Block) BY <1>0, <1>5, <2>1
  <2>3. U[n + 1] = U[n] \o fs[n + 1].blocks BY <1>3, <2>1, Zenon
  <2> QED BY <2>2, <2>3
<1>6. Nat \subseteq S
  <2> HIDE DEF S
  <2> QED BY <1>4, <1>5, Zenon DEF Induction
<1>7. ASSUME NEW n \in 0 .. Len(fs) PROVE U[n] \in Seq(Block) BY <1>0, <1>6
<1> QED BY <1>2, <1>3, <1>7, Zenon DEF U

\* The same with Before, which counts.
LEMMA BeforeStep ==
  ASSUME Induction, NEW fs \in Files
  PROVE  /\ Before(fs, 1) = 0
         /\ \A n \in 1 .. Len(fs) + 1 : Before(fs, n) \in Nat
         /\ \A n \in 1 .. Len(fs) : Before(fs, n + 1) = Before(fs, n) + Len(fs[n].blocks)
         /\ Len(Stored(fs)) = Before(fs, Len(fs) + 1) /\ Stored(fs) \in Seq(Block)
<1> DEFINE U == UpTo(fs)
<1>1. /\ U[0] = <<>>
      /\ \A n \in 1 .. Len(fs) : U[n] = U[n - 1] \o fs[n].blocks
      /\ \A n \in 0 .. Len(fs) : U[n] \in Seq(Block)
  BY UpToStep, Zenon
<1>2. Len(fs) \in Nat /\ \A n \in 1 .. Len(fs) : fs[n].blocks \in Seq(Block) BY FileIs, Zenon
<1>3. \A n : Before(fs, n) = Len(U[n - 1]) BY Zenon DEF Before
<1>4. Stored(fs) = U[Len(fs)] BY Zenon DEF Stored
<1> HIDE DEF U
<1>5. Before(fs, 1) = 0 BY <1>1, <1>3
<1>6. ASSUME NEW n \in 1 .. Len(fs) + 1 PROVE Before(fs, n) \in Nat
  <2>1. n - 1 \in 0 .. Len(fs) BY <1>2
  <2> QED BY <1>1, <1>3, <2>1
<1>7. ASSUME NEW n \in 1 .. Len(fs) PROVE Before(fs, n + 1) = Before(fs, n) + Len(fs[n].blocks)
  <2>1. n - 1 \in 0 .. Len(fs) /\ (n + 1) - 1 = n BY <1>2
  <2>2. U[n - 1] \in Seq(Block) /\ fs[n].blocks \in Seq(Block) BY <1>1, <1>2, <2>1, Zenon
  <2>3. U[n] = U[n - 1] \o fs[n].blocks BY <1>1, Zenon
  <2>4. Len(U[n - 1] \o fs[n].blocks) = Len(U[n - 1]) + Len(fs[n].blocks) BY <2>2, JoinIs, Zenon
  <2> QED BY <1>3, <2>1, <2>3, <2>4, Zenon
<1>8. (Len(fs) + 1) - 1 = Len(fs) /\ Len(fs) \in 0 .. Len(fs) BY <1>2
<1> QED BY <1>1, <1>3, <1>4, <1>5, <1>6, <1>7, <1>8, Zenon

\* What is in the first files comes first.
LEMMA UpToGrows ==
  ASSUME Induction, NEW fs \in Files, NEW m \in 0 .. Len(fs)
  PROVE  \A n \in m .. Len(fs) :
           /\ Len(UpTo(fs)[m]) <= Len(UpTo(fs)[n])
           /\ \A k \in 1 .. Len(UpTo(fs)[m]) : UpTo(fs)[n][k] = UpTo(fs)[m][k]
<1> DEFINE U == UpTo(fs)
           P(n) == Len(U[m]) <= Len(U[n]) /\ \A k \in 1 .. Len(U[m]) : U[n][k] = U[m][k]
           S == {n \in Nat : n \in m .. Len(fs) => P(n)}
<1>1. /\ \A n \in 1 .. Len(fs) : U[n] = U[n - 1] \o fs[n].blocks
      /\ \A n \in 0 .. Len(fs) : U[n] \in Seq(Block)
  BY UpToStep, Zenon
<1>2. Len(fs) \in Nat /\ \A n \in 1 .. Len(fs) : fs[n].blocks \in Seq(Block) BY FileIs, Zenon
<1> HIDE DEF U
<1>3. U[m] \in Seq(Block) /\ P(m) BY <1>1, <1>2
<1>4. 0 \in S BY <1>3
<1>5. ASSUME NEW n \in Nat, n \in S PROVE n + 1 \in S
  <2> SUFFICES ASSUME n + 1 \in m .. Len(fs) PROVE P(n + 1) OBVIOUS
  <2>0. n \in m .. Len(fs) => P(n) BY <1>5, Zenon
  <2> HIDE DEF S
  <2>1. CASE n + 1 = m BY <1>3, <2>1, Zenon
  <2>2. CASE n + 1 # m
    <3>1. n \in m .. Len(fs) /\ n \in 0 .. Len(fs) /\ n + 1 \in 1 .. Len(fs) /\ (n + 1) - 1 = n BY <1>2, <2>2
    <3>2. P(n) BY <2>0, <3>1, Zenon
    <3>3. U[n] \in Seq(Block) /\ fs[n + 1].blocks \in Seq(Block) BY <1>1, <1>2, <3>1, Zenon
    <3>4. U[n + 1] = U[n] \o fs[n + 1].blocks BY <1>1, <3>1, Zenon
    <3>5. Len(U[n]) \in Nat /\ Len(U[m]) \in Nat /\ Len(U[n + 1]) = Len(U[n]) + Len(fs[n + 1].blocks)
      BY <1>3, <3>3, <3>4, JoinIs
    <3>6. \A k \in 1 .. Len(U[n]) : U[n + 1][k] = U[n][k]
      <4>1. \A k \in 1 .. Len(U[n]) : (U[n] \o fs[n + 1].blocks)[k] = U[n][k] BY <3>3, JoinIs, Zenon
      <4> QED BY <3>4, <4>1, Zenon
    <3>7. \A k \in 1 .. Len(U[m]) : k \in 1 .. Len(U[n]) BY <3>2, <3>5
    <3>8. Len(U[m]) <= Len(U[n + 1])
      <4>1. Len(fs[n + 1].blocks) \in Nat BY <3>3
      <4>2. Len(U[m]) <= Len(U[n]) BY <3>2, Zenon
      <4> DEFINE a == Len(U[m])
                 b == Len(U[n])
                 c == Len(fs[n + 1].blocks)
                 d == Len(U[n + 1])
      <4>3. a \in Nat /\ b \in Nat /\ c \in Nat /\ a <= b /\ d = b + c BY <3>5, <4>1, <4>2, Zenon
      <4> HIDE DEF a, b, c, d
      <4>4. a <= d BY <4>3
      <4> QED BY <4>4, Zenon DEF a, d
    <3> QED BY <3>2, <3>6, <3>7, <3>8, Zenon
  <2> QED BY <2>1, <2>2, Zenon
<1>6. Nat \subseteq S
  <2> HIDE DEF S
  <2> QED BY <1>4, <1>5, Zenon DEF Induction
<1>7. ASSUME NEW n \in m .. Len(fs) PROVE P(n) BY <1>2, <1>6
<1> QED BY <1>7, Zenon DEF U

\* Files come one after the other.
LEMMA BeforeGrows ==
  ASSUME Induction, NEW fs \in Files, NEW m \in 1 .. Len(fs), NEW n \in 1 .. Len(fs) + 1, m < n
  PROVE  Before(fs, m) + Len(fs[m].blocks) <= Before(fs, n)
<1>1. Len(fs) \in Nat BY FileIs, Zenon
<1>2. Before(fs, m + 1) = Before(fs, m) + Len(fs[m].blocks) BY BeforeStep, Zenon
<1>3. m \in 0 .. Len(fs) /\ n - 1 \in m .. Len(fs) /\ (m + 1) - 1 = m BY <1>1
<1>4. Len(UpTo(fs)[m]) <= Len(UpTo(fs)[n - 1]) BY <1>3, UpToGrows, Zenon
<1>5. Before(fs, m + 1) = Len(UpTo(fs)[m]) /\ Before(fs, n) = Len(UpTo(fs)[n - 1]) BY <1>3, Zenon DEF Before
<1> QED BY <1>2, <1>4, <1>5, Zenon

\* The place of a block in a file gives its place among all blocks.
LEMMA StoredAt ==
  ASSUME Induction, NEW fs \in Files, NEW n \in 1 .. Len(fs), NEW i \in 1 .. Len(fs[n].blocks)
  PROVE  /\ Before(fs, n) + i \in 1 .. Len(Stored(fs))
         /\ Stored(fs)[Before(fs, n) + i] = fs[n].blocks[i]
<1> DEFINE U == UpTo(fs)
           a == Before(fs, n)
           c == Len(fs[n].blocks)
           T == Stored(fs)
<1>1. Len(fs) \in Nat /\ c \in Nat /\ fs[n].blocks \in Seq(Block) BY FileIs, Zenon
<1>2. a \in Nat /\ Len(T) \in Nat BY <1>1, BeforeStep
<1>3. n \in 0 .. Len(fs) /\ n - 1 \in 0 .. Len(fs) /\ Len(fs) \in n .. Len(fs) BY <1>1
<1>4. U[n] = U[n - 1] \o fs[n].blocks /\ U[n - 1] \in Seq(Block) BY <1>3, UpToStep, Zenon
<1>5. a = Len(U[n - 1]) /\ T = U[Len(fs)] BY Zenon DEF Before, Stored
<1>6. /\ Len(U[n - 1] \o fs[n].blocks) = Len(U[n - 1]) + c
      /\ (U[n - 1] \o fs[n].blocks)[Len(U[n - 1]) + i] = fs[n].blocks[i]
  BY <1>1, <1>4, JoinIs, Zenon
<1>7. Len(U[n]) <= Len(U[Len(fs)]) /\ \A k \in 1 .. Len(U[n]) : U[Len(fs)][k] = U[n][k] BY <1>3, UpToGrows, Zenon
<1>8. Len(U[n]) = a + c /\ U[n][a + i] = fs[n].blocks[i] BY <1>4, <1>5, <1>6, Zenon
<1>9. a + c <= Len(T) /\ \A k \in 1 .. a + c : T[k] = U[n][k] BY <1>5, <1>7, <1>8, Zenon
<1>10. i \in 1 .. c OBVIOUS
<1> HIDE DEF U, a, c, T
<1>11. a + i \in 1 .. a + c /\ a + i \in 1 .. Len(T) BY <1>1, <1>2, <1>9, <1>10
<1>12. T[a + i] = fs[n].blocks[i] BY <1>8, <1>9, <1>11, Zenon
<1> QED BY <1>11, <1>12, Zenon DEF a, T

\* Each block is in one place.
LEMMA PlaceUnique ==
  ASSUME Induction, NEW fs \in Files, NEW m \in 1 .. Len(fs), NEW n \in 1 .. Len(fs),
         NEW i \in 1 .. Len(fs[m].blocks), NEW j \in 1 .. Len(fs[n].blocks),
         Before(fs, m) + i = Before(fs, n) + j
  PROVE  m = n /\ i = j
<1>1. Len(fs) \in Nat /\ Len(fs[m].blocks) \in Nat /\ Len(fs[n].blocks) \in Nat BY FileIs, Zenon
<1>2. Before(fs, m) \in Nat /\ Before(fs, n) \in Nat
  <2>1. m \in 1 .. Len(fs) + 1 /\ n \in 1 .. Len(fs) + 1 BY <1>1
  <2> QED BY <2>1, BeforeStep, Zenon
<1>3. ASSUME m < n PROVE FALSE
  <2>1. n \in 1 .. Len(fs) + 1 BY <1>1
  <2>2. Before(fs, m) + Len(fs[m].blocks) <= Before(fs, n) BY <1>3, <2>1, BeforeGrows, Zenon
  <2> QED BY <1>1, <1>2, <2>2
<1>4. ASSUME n < m PROVE FALSE
  <2>1. m \in 1 .. Len(fs) + 1 BY <1>1
  <2>2. Before(fs, n) + Len(fs[n].blocks) <= Before(fs, m) BY <1>4, <2>1, BeforeGrows, Zenon
  <2> QED BY <1>1, <1>2, <2>2
<1>5. m = n BY <1>1, <1>3, <1>4
<1>6. i = j BY <1>1, <1>2, <1>5
<1> QED BY <1>5, <1>6, Zenon

\* Each stored block is in some place.
LEMMA StoredFrom ==
  ASSUME Induction, NEW fs \in Files, NEW k \in 1 .. Len(Stored(fs))
  PROVE  \E n \in 1 .. Len(fs) : \E i \in 1 .. Len(fs[n].blocks) : k = Before(fs, n) + i
<1> DEFINE Found == \E n \in 1 .. Len(fs) : \E i \in 1 .. Len(fs[n].blocks) : k = Before(fs, n) + i
           S == {n \in Nat : (n <= Len(fs) /\ k <= Before(fs, n + 1)) => Found}
<1>1. Len(fs) \in Nat /\ \A n \in 1 .. Len(fs) : Len(fs[n].blocks) \in Nat BY FileIs, Zenon
<1>2. /\ Before(fs, 1) = 0
      /\ \A n \in 1 .. Len(fs) + 1 : Before(fs, n) \in Nat
      /\ \A n \in 1 .. Len(fs) : Before(fs, n + 1) = Before(fs, n) + Len(fs[n].blocks)
      /\ Len(Stored(fs)) = Before(fs, Len(fs) + 1) /\ Len(Stored(fs)) \in Nat
  BY BeforeStep
<1>3. k \in Nat /\ k >= 1 /\ k <= Before(fs, Len(fs) + 1) BY <1>2
<1>4. 0 \in S BY <1>2, <1>3
<1>5. ASSUME NEW n \in Nat, n \in S PROVE n + 1 \in S
  <2> SUFFICES ASSUME n + 1 <= Len(fs), k <= Before(fs, (n + 1) + 1) PROVE Found OBVIOUS
  <2>1. (n <= Len(fs) /\ k <= Before(fs, n + 1)) => Found BY <1>5, Zenon
  <2> HIDE DEF S, Found
  <2>2. n + 1 \in 1 .. Len(fs) /\ n + 1 \in 1 .. Len(fs) + 1 /\ n <= Len(fs) BY <1>1
  <2>3. /\ Before(fs, n + 1) \in Nat /\ Len(fs[n + 1].blocks) \in Nat
        /\ Before(fs, (n + 1) + 1) = Before(fs, n + 1) + Len(fs[n + 1].blocks)
    BY <1>1, <1>2, <2>2, Zenon
  <2>4. CASE k <= Before(fs, n + 1) BY <2>1, <2>2, <2>4, Zenon
  <2>5. CASE ~(k <= Before(fs, n + 1))
    <3> DEFINE i == k - Before(fs, n + 1)
    <3>1. i \in 1 .. Len(fs[n + 1].blocks) /\ k = Before(fs, n + 1) + i BY <1>3, <2>3, <2>5
    <3> HIDE DEF i
    <3> QED BY <2>2, <3>1, Zenon DEF Found
  <2> QED BY <2>4, <2>5, Zenon
<1>6. Nat \subseteq S
  <2> HIDE DEF S
  <2> QED BY <1>4, <1>5, Zenon DEF Induction
<1>7. Len(fs) \in S BY <1>1, <1>6, Zenon
<1> QED BY <1>1, <1>3, <1>7

\* A place determines its block.
LEMMA PlaceIs ==
  ASSUME Induction, NEW fs \in Files, NEW loc, NEW k, IsPlace(fs, loc, k)
  PROVE  /\ loc.file \in Nat /\ loc.file + 1 \in 1 .. Len(fs)
         /\ BlocksUpTo(fs[loc.file + 1], loc.offset) + 1 \in 1 .. Len(fs[loc.file + 1].blocks)
         /\ k = Before(fs, loc.file + 1) + BlocksUpTo(fs[loc.file + 1], loc.offset) + 1
         /\ k \in 1 .. Len(Stored(fs))
         /\ fs[loc.file + 1].blocks[BlocksUpTo(fs[loc.file + 1], loc.offset) + 1] = Stored(fs)[k]
<1> DEFINE n == loc.file + 1
<1>1. n \in 1 .. Len(fs) /\ loc.file \in Nat BY FileIs, Zenon DEF IsPlace
<1>2. PICK i \in 1 .. Len(fs[n].blocks) : k = Before(fs, n) + i /\ loc.offset = Ends(fs[n].blocks)[i - 1]
  BY <1>1, FileIs, Zenon DEF IsPlace
<1> HIDE DEF n
<1>3. fs[n].blocks \in Seq(Block) /\ Len(fs[n].blocks) \in Nat BY <1>1, FileIs, Zenon
<1>4. i - 1 \in 0 .. Len(fs[n].blocks) /\ (i - 1) + 1 = i BY <1>3
<1>5. BlocksUpTo(fs[n], loc.offset) = i - 1 BY <1>2, <1>3, <1>4, BlocksUpToIs, Zenon
<1>6. Before(fs, n) + i \in 1 .. Len(Stored(fs)) /\ Stored(fs)[Before(fs, n) + i] = fs[n].blocks[i]
  BY <1>1, <1>2, StoredAt, Zenon
<1>7. Before(fs, n) \in Nat /\ Len(fs) \in Nat BY <1>1, FileIs, BeforeStep
<1>8. Before(fs, n) + BlocksUpTo(fs[n], loc.offset) + 1 = Before(fs, n) + i BY <1>4, <1>5, <1>7
<1> QED BY <1>1, <1>2, <1>4, <1>5, <1>6, <1>8, Zenon DEF n

\* Reading at a block's place yields that block.
LEMMA BlockAtIs ==
  ASSUME Induction, files \in Files, NEW loc, NEW k, IsPlace(files, loc, k)
  PROVE  BlockAt(loc) = <<Stored(files)[k]>> /\ k \in 1 .. Len(Stored(files))
<1> DEFINE n == loc.file + 1
           j == BlocksUpTo(files[n], loc.offset) + 1
<1>1. /\ n \in 1 .. Len(files) /\ j \in 1 .. Len(files[n].blocks)
      /\ k \in 1 .. Len(Stored(files)) /\ files[n].blocks[j] = Stored(files)[k]
  BY PlaceIs, Zenon
<1>2. BlockAt(loc) = IF j <= Len(files[n].blocks) THEN <<files[n].blocks[j]>> ELSE <<>> BY Zenon DEF BlockAt
<1>3. Len(files[n].blocks) \in Nat BY <1>1, FileIs, Zenon
<1> HIDE DEF n, j
<1> QED BY <1>1, <1>2, <1>3

\* Files with the same blocks hold the same.
LEMMA UpToAgree ==
  ASSUME Induction, NEW fs \in Files, NEW gs \in Files, NEW m \in Nat, m <= Len(fs), m <= Len(gs),
         \A n \in 1 .. m : gs[n].blocks = fs[n].blocks
  PROVE  /\ \A n \in 0 .. m : UpTo(gs)[n] = UpTo(fs)[n]
         /\ \A n \in 1 .. m + 1 : Before(gs, n) = Before(fs, n)
<1> DEFINE U == UpTo(fs)
           V == UpTo(gs)
           S == {n \in Nat : n <= m => V[n] = U[n]}
<1>0. Len(fs) \in Nat /\ Len(gs) \in Nat BY FileIs, Zenon
<1>1. U[0] = <<>> /\ \A n \in 1 .. Len(fs) : U[n] = U[n - 1] \o fs[n].blocks BY UpToStep, Zenon
<1>2. V[0] = <<>> /\ \A n \in 1 .. Len(gs) : V[n] = V[n - 1] \o gs[n].blocks BY UpToStep, Zenon
<1> HIDE DEF U, V
<1>3. 0 \in S BY <1>1, <1>2, Zenon
<1>4. ASSUME NEW n \in Nat, n \in S PROVE n + 1 \in S
  <2> SUFFICES ASSUME n + 1 <= m PROVE V[n + 1] = U[n + 1] OBVIOUS
  <2>1. V[n] = U[n] BY <1>4
  <2>2. n + 1 \in 1 .. m /\ n + 1 \in 1 .. Len(fs) /\ n + 1 \in 1 .. Len(gs) /\ (n + 1) - 1 = n BY <1>0
  <2>3. V[n + 1] = V[n] \o gs[n + 1].blocks /\ U[n + 1] = U[n] \o fs[n + 1].blocks BY <1>1, <1>2, <2>2, Zenon
  <2>4. gs[n + 1].blocks = fs[n + 1].blocks BY <2>2, Zenon
  <2> QED BY <2>1, <2>3, <2>4, Zenon
<1>5. Nat \subseteq S
  <2> HIDE DEF S
  <2> QED BY <1>3, <1>4, Zenon DEF Induction
<1>6. \A n \in 0 .. m : V[n] = U[n] BY <1>5
<1>7. ASSUME NEW n \in 1 .. m + 1 PROVE Before(gs, n) = Before(fs, n)
  <2>1. n - 1 \in 0 .. m OBVIOUS
  <2> QED BY <1>6, <2>1, Zenon DEF Before, U, V
<1> QED BY <1>6, <1>7, Zenon DEF U, V

\* fs and gs agree on the blocks of the files before the n-th, and on the first j of the n-th.
Agree(fs, gs, n, j) ==
  /\ n \in 1 .. Len(fs) /\ n <= Len(gs)
  /\ j \in 0 .. Len(fs[n].blocks) /\ j <= Len(gs[n].blocks)
  /\ \A m \in 1 .. n - 1 : gs[m].blocks = fs[m].blocks
  /\ \A k \in 1 .. j : gs[n].blocks[k] = fs[n].blocks[k]

\* There their blocks have the same places ...
LEMMA AgreeIs ==
  ASSUME Induction, NEW fs \in Files, NEW gs \in Files, NEW n, NEW j, Agree(fs, gs, n, j)
  PROVE  /\ n \in 1 .. Len(fs) /\ n \in 1 .. Len(gs) /\ j \in Nat
         /\ Before(gs, n) = Before(fs, n) /\ Before(fs, n) \in Nat
         /\ \A m \in 1 .. n : Before(gs, m) = Before(fs, m)
         /\ \A k \in 0 .. j : Ends(gs[n].blocks)[k] = Ends(fs[n].blocks)[k]
<1>1. Len(fs) \in Nat /\ Len(gs) \in Nat BY FileIs, Zenon
<1>2. n \in 1 .. Len(fs) /\ n \in 1 .. Len(gs) /\ n - 1 \in Nat /\ n - 1 <= Len(fs) /\ n - 1 <= Len(gs)
  BY <1>1 DEF Agree
<1>3. Len(fs[n].blocks) \in Nat /\ Len(gs[n].blocks) \in Nat BY <1>2, FileIs, Zenon
<1>4. j \in Nat /\ j <= Len(fs[n].blocks) /\ j <= Len(gs[n].blocks) BY <1>3 DEF Agree
<1>5. \A k \in 0 .. j : Ends(gs[n].blocks)[k] = Ends(fs[n].blocks)[k]
  <2> DEFINE s == gs[n].blocks
             t == fs[n].blocks
  <2>1. \A k \in 1 .. j : s[k] = t[k] BY Zenon DEF Agree
  <2>2. Len(s) \in Nat /\ Len(t) \in Nat /\ j \in Nat /\ j <= Len(s) /\ j <= Len(t) BY <1>3, <1>4, Zenon
  <2> HIDE DEF s, t
  <2>3. \A k \in 0 .. j : Ends(s)[k] = Ends(t)[k] BY <2>1, <2>2, EndsAgree, Zenon
  <2> QED BY <2>3, Zenon DEF s, t
<1>6. \A m \in 1 .. n - 1 : gs[m].blocks = fs[m].blocks BY Zenon DEF Agree
<1>7. \A m \in 1 .. (n - 1) + 1 : Before(gs, m) = Before(fs, m) BY <1>2, <1>6, UpToAgree, Zenon
<1>8. \A m \in 1 .. n : Before(gs, m) = Before(fs, m) BY <1>2, <1>7
<1>9. n \in 1 .. n /\ n \in 1 .. Len(fs) + 1 BY <1>1, <1>2
<1>10. Before(fs, n) \in Nat BY <1>9, BeforeStep, Zenon
<1> QED BY <1>2, <1>4, <1>5, <1>8, <1>9, <1>10, Zenon

\* A block on which they agree is in the same file of both.
LEMMA AgreeAt ==
  ASSUME Induction, NEW fs \in Files, NEW gs \in Files, NEW n, NEW j, Agree(fs, gs, n, j),
         NEW m \in 1 .. Len(fs), NEW i \in 1 .. Len(fs[m].blocks), Before(fs, m) + i <= Before(fs, n) + j
  PROVE  /\ m \in 1 .. Len(gs) /\ i \in 1 .. Len(gs[m].blocks)
         /\ gs[m].blocks[i] = fs[m].blocks[i]
         /\ Before(gs, m) = Before(fs, m)
         /\ Ends(gs[m].blocks)[i - 1] = Ends(fs[m].blocks)[i - 1]
<1>1. /\ n \in 1 .. Len(fs) /\ n \in 1 .. Len(gs) /\ j \in Nat /\ Before(fs, n) \in Nat
      /\ \A k \in 1 .. n : Before(gs, k) = Before(fs, k)
      /\ \A k \in 0 .. j : Ends(gs[n].blocks)[k] = Ends(fs[n].blocks)[k]
  BY AgreeIs
<1>2. Len(fs) \in Nat /\ Len(gs) \in Nat /\ Len(fs[m].blocks) \in Nat /\ Len(fs[n].blocks) \in Nat
  BY <1>1, FileIs, Zenon
<1>3. m <= n
  <2> SUFFICES ASSUME n < m PROVE FALSE BY <1>1, <1>2
  <2>1. m \in 1 .. Len(fs) + 1 BY <1>2
  <2>2. Before(fs, n) + Len(fs[n].blocks) <= Before(fs, m) BY <1>1, <2>1, BeforeGrows, Zenon
  <2>3. Before(fs, m) \in Nat BY <2>1, BeforeStep, Zenon
  <2>4. j <= Len(fs[n].blocks) BY <1>2 DEF Agree
  <2> QED BY <1>1, <1>2, <2>2, <2>3, <2>4
<1>4. m \in 1 .. n /\ m \in 1 .. Len(gs) BY <1>1, <1>2, <1>3
<1>5. Before(gs, m) = Before(fs, m) BY <1>1, <1>4, Zenon
<1>6. CASE m < n
  <2>1. m \in 1 .. n - 1 BY <1>1, <1>2, <1>4, <1>6
  <2>2. gs[m].blocks = fs[m].blocks BY <2>1, Zenon DEF Agree
  <2> QED BY <1>4, <1>5, <2>2, Zenon
<1>7. CASE m = n
  <2>1. i \in 1 .. j /\ i - 1 \in 0 .. j BY <1>1, <1>2, <1>7
  <2>2. j <= Len(gs[n].blocks) /\ gs[n].blocks[i] = fs[n].blocks[i] BY <2>1, Zenon DEF Agree
  <2>3. Len(gs[n].blocks) \in Nat BY <1>1, FileIs, Zenon
  <2>4. i \in 1 .. Len(gs[n].blocks) BY <1>1, <2>1, <2>2, <2>3
  <2> QED BY <1>1, <1>4, <1>5, <1>7, <2>1, <2>2, <2>4, Zenon
<1> QED BY <1>1, <1>2, <1>3, <1>4, <1>6, <1>7

\* ... and so all that is stored up to there is the same, and at the same places.
LEMMA AgreeStored ==
  ASSUME Induction, NEW fs \in Files, NEW gs \in Files, NEW n, NEW j, Agree(fs, gs, n, j)
  PROVE  /\ Before(fs, n) + j \in Nat
         /\ Before(fs, n) + j <= Len(Stored(fs)) /\ Before(fs, n) + j <= Len(Stored(gs))
         /\ \A k \in 1 .. Before(fs, n) + j : Stored(gs)[k] = Stored(fs)[k]
         /\ \A loc, k : IsPlace(fs, loc, k) /\ k <= Before(fs, n) + j => IsPlace(gs, loc, k)
<1>1. /\ n \in 1 .. Len(fs) /\ n \in 1 .. Len(gs) /\ j \in Nat /\ Before(fs, n) \in Nat
      /\ Before(gs, n) = Before(fs, n)
  BY AgreeIs
<1>2. Len(fs[n].blocks) \in Nat /\ Len(gs[n].blocks) \in Nat /\ Len(fs) \in Nat /\ Len(gs) \in Nat
  BY <1>1, FileIs, Zenon
<1>3. j <= Len(fs[n].blocks) /\ j <= Len(gs[n].blocks) BY <1>2 DEF Agree
<1>4. Before(fs, n) + j <= Len(Stored(fs))
  <2>1. Len(fs) + 1 \in 1 .. Len(fs) + 1 /\ n < Len(fs) + 1 BY <1>1, <1>2
  <2>2. Before(fs, n) + Len(fs[n].blocks) <= Before(fs, Len(fs) + 1) BY <1>1, <2>1, BeforeGrows, Zenon
  <2>3. Len(Stored(fs)) = Before(fs, Len(fs) + 1) /\ Before(fs, Len(fs) + 1) \in Nat BY <2>1, BeforeStep, Zenon
  <2> QED BY <1>1, <1>2, <1>3, <2>2, <2>3
<1>5. Before(fs, n) + j <= Len(Stored(gs))
  <2>1. Len(gs) + 1 \in 1 .. Len(gs) + 1 /\ n < Len(gs) + 1 BY <1>1, <1>2
  <2>2. Before(gs, n) + Len(gs[n].blocks) <= Before(gs, Len(gs) + 1) BY <1>1, <2>1, BeforeGrows, Zenon
  <2>3. Len(Stored(gs)) = Before(gs, Len(gs) + 1) /\ Before(gs, Len(gs) + 1) \in Nat BY <2>1, BeforeStep, Zenon
  <2> QED BY <1>1, <1>2, <1>3, <2>2, <2>3
<1>6. ASSUME NEW k \in 1 .. Before(fs, n) + j PROVE Stored(gs)[k] = Stored(fs)[k]
  <2>1. k \in 1 .. Len(Stored(fs))
    <3>1. Len(Stored(fs)) \in Nat BY BeforeStep
    <3> QED BY <1>1, <1>4, <3>1
  <2>2. PICK m \in 1 .. Len(fs) : \E i \in 1 .. Len(fs[m].blocks) : k = Before(fs, m) + i BY <2>1, StoredFrom, Zenon
  <2>3. PICK i \in 1 .. Len(fs[m].blocks) : k = Before(fs, m) + i BY <2>2, Zenon
  <2>4. Before(fs, m) + i <= Before(fs, n) + j BY <1>1, <2>3
  <2>5. /\ m \in 1 .. Len(gs) /\ i \in 1 .. Len(gs[m].blocks)
        /\ gs[m].blocks[i] = fs[m].blocks[i] /\ Before(gs, m) = Before(fs, m)
    BY <2>4, AgreeAt, Zenon
  <2>6. Stored(fs)[Before(fs, m) + i] = fs[m].blocks[i] BY StoredAt, Zenon
  <2>7. Stored(gs)[Before(gs, m) + i] = gs[m].blocks[i] BY <2>5, StoredAt, Zenon
  <2> QED BY <2>3, <2>5, <2>6, <2>7, Zenon
<1>7. ASSUME NEW loc, NEW k, IsPlace(fs, loc, k), k <= Before(fs, n) + j PROVE IsPlace(gs, loc, k)
  <2> DEFINE m == loc.file + 1
  <2>1. loc.file \in Nat /\ m \in 1 .. Len(fs) BY <1>7, FileIs, Zenon DEF IsPlace
  <2>2. PICK i \in 1 .. Len(fs[m].blocks) : k = Before(fs, m) + i /\ loc.offset = Ends(fs[m].blocks)[i - 1]
    BY <1>7, <2>1, FileIs, Zenon DEF IsPlace
  <2>3. Before(fs, m) + i <= Before(fs, n) + j BY <1>7, <2>2, Zenon
  <2> HIDE DEF m
  <2>4. /\ m \in 1 .. Len(gs) /\ i \in 1 .. Len(gs[m].blocks) /\ Before(gs, m) = Before(fs, m)
        /\ Ends(gs[m].blocks)[i - 1] = Ends(fs[m].blocks)[i - 1]
    BY <2>1, <2>3, AgreeAt, Zenon
  <2>5. DOMAIN gs = 1 .. Len(gs) /\ DOMAIN gs[m].blocks = 1 .. Len(gs[m].blocks) BY <2>4, FileIs, Zenon
  <2> QED BY <2>1, <2>2, <2>4, <2>5, Zenon DEF IsPlace, m
<1>8. Before(fs, n) + j \in Nat BY <1>1
<1> QED BY <1>4, <1>5, <1>6, <1>7, <1>8, Zenon

\* Sequences of blocks: elements, equality, Append and SubSeq.
LEMMA SeqIs ==
  /\ \A s \in Seq(Block) : Len(s) \in Nat /\ DOMAIN s = 1 .. Len(s) /\ \A k \in 1 .. Len(s) : s[k] \in Block
  /\ \A s, t \in Seq(Block) : Len(s) = Len(t) /\ (\A k \in 1 .. Len(s) : s[k] = t[k]) => s = t
  /\ \A s \in Seq(Block), b \in Block : /\ Append(s, b) \in Seq(Block) /\ Len(Append(s, b)) = Len(s) + 1
                                        /\ \A k \in 1 .. Len(s) : Append(s, b)[k] = s[k]
                                        /\ Append(s, b)[Len(s) + 1] = b
  /\ \A s \in Seq(Block) : \A m \in 0 .. Len(s) : /\ SubSeq(s, 1, m) \in Seq(Block) /\ Len(SubSeq(s, 1, m)) = m
                                                  /\ \A k \in 1 .. m : SubSeq(s, 1, m)[k] = s[k]
<1>1. ASSUME NEW s \in Seq(Block), NEW t \in Seq(Block), Len(s) = Len(t), \A k \in 1 .. Len(s) : s[k] = t[k] PROVE s = t
  BY <1>1
<1>2. ASSUME NEW s \in Seq(Block), NEW b \in Block
      PROVE  /\ Append(s, b) \in Seq(Block) /\ Len(Append(s, b)) = Len(s) + 1
             /\ \A k \in 1 .. Len(s) : Append(s, b)[k] = s[k]
             /\ Append(s, b)[Len(s) + 1] = b
  OBVIOUS
<1>3. ASSUME NEW s \in Seq(Block), NEW m \in 0 .. Len(s)
      PROVE  /\ SubSeq(s, 1, m) \in Seq(Block) /\ Len(SubSeq(s, 1, m)) = m
             /\ \A k \in 1 .. m : SubSeq(s, 1, m)[k] = s[k]
  OBVIOUS
<1>4. \A s \in Seq(Block) : Len(s) \in Nat /\ DOMAIN s = 1 .. Len(s) /\ \A k \in 1 .. Len(s) : s[k] \in Block OBVIOUS
<1> QED BY <1>1, <1>2, <1>3, <1>4, Zenon

\* What is appended to is the last file that holds a block.
LEMMA OpenIs ==
  ASSUME Induction, NEW fs \in Files, NEW n \in 1 .. Len(fs), IsOpen(fs, n)
  PROVE  Len(Stored(fs)) = Before(fs, n) + Len(fs[n].blocks)
<1>1. Len(fs) \in Nat /\ Len(fs[n].blocks) \in Nat BY FileIs, Zenon
<1>2. /\ \A m \in 1 .. Len(fs) + 1 : Before(fs, m) \in Nat
      /\ \A m \in 1 .. Len(fs) : Before(fs, m + 1) = Before(fs, m) + Len(fs[m].blocks)
      /\ Len(Stored(fs)) = Before(fs, Len(fs) + 1)
  BY BeforeStep, Zenon
<1>3. CASE n = Len(fs) BY <1>2, <1>3, Zenon
<1>4. CASE n = Len(fs) - 1 /\ fs[Len(fs)].blocks = <<>>
  <2>1. n + 1 = Len(fs) /\ Len(fs) \in 1 .. Len(fs) /\ n + 1 \in 1 .. Len(fs) + 1 BY <1>1, <1>4
  <2>2. Before(fs, Len(fs) + 1) = Before(fs, Len(fs)) + Len(fs[Len(fs)].blocks) BY <1>2, <2>1, Zenon
  <2>3. Len(fs[Len(fs)].blocks) = 0 BY <1>4
  <2>4. Before(fs, Len(fs)) = Before(fs, n) + Len(fs[n].blocks) BY <1>2, <2>1, Zenon
  <2>5. Before(fs, Len(fs)) \in Nat BY <1>2, <2>1, Zenon
  <2> QED BY <1>2, <2>2, <2>3, <2>4, <2>5
<1> QED BY <1>3, <1>4, Zenon DEF IsOpen

\* blockfilesInfo says how many blocks there are.
LEMMA CoversIs ==
  ASSUME Induction, NEW fs \in Files, NEW i, NEW k, Covers(fs, i, k)
  PROVE  /\ i \in InfoSet /\ k \in Nat /\ k <= Len(Stored(fs))
         /\ k = IF i.noBlockFiles THEN 0 ELSE i.lastPersistedBlock + 1
         /\ fs # <<>> => /\ i.latestFileNumber + 1 \in 1 .. Len(fs) /\ IsOpen(fs, i.latestFileNumber + 1)
                         /\ EndsAt(fs, i.latestFileNumber + 1, i.latestFileSize, k)
<1>1. Len(Stored(fs)) \in Nat BY BeforeStep, SeqIs, Zenon
<1>2. i \in InfoSet /\ k \in 0 .. Len(Stored(fs)) /\ i.noBlockFiles = (k = 0) /\ (k > 0 => i.lastPersistedBlock = k - 1)
  BY Zenon DEF Covers
<1>3. k \in Nat /\ k <= Len(Stored(fs)) BY <1>1, <1>2
<1>4. k = IF i.noBlockFiles THEN 0 ELSE i.lastPersistedBlock + 1
  <2>1. CASE k = 0 BY <1>2, <2>1, Zenon
  <2>2. CASE k # 0
    <3>1. k > 0 BY <1>3, <2>2
    <3>2. ~i.noBlockFiles BY <1>2, <2>2, Zenon
    <3>3. k = i.lastPersistedBlock + 1 BY <1>2, <1>3, <3>1
    <3> QED BY <3>2, <3>3, Zenon
  <2> QED BY <2>1, <2>2, Zenon
<1>5. fs # <<>> => /\ i.latestFileNumber + 1 \in 1 .. Len(fs) /\ IsOpen(fs, i.latestFileNumber + 1)
                   /\ EndsAt(fs, i.latestFileNumber + 1, i.latestFileSize, k)
  BY FileIs, Zenon DEF Covers
<1> QED BY <1>2, <1>3, <1>4, <1>5, Zenon

\* blockfilesInfo still covers its blocks when the files agree on them.
LEMMA CoversKept ==
  ASSUME Induction, NEW fs \in Files, NEW gs \in Files, NEW n, NEW j, Agree(fs, gs, n, j),
         NEW i, NEW k, Covers(fs, i, k), i.latestFileNumber + 1 = n, k <= Before(fs, n) + j, IsOpen(gs, n)
  PROVE  Covers(gs, i, k)
<1>1. /\ n \in 1 .. Len(fs) /\ n \in 1 .. Len(gs) /\ j \in Nat /\ Before(fs, n) \in Nat
      /\ Before(gs, n) = Before(fs, n)
      /\ \A l \in 0 .. j : Ends(gs[n].blocks)[l] = Ends(fs[n].blocks)[l]
  BY AgreeIs
<1>2. Before(fs, n) + j <= Len(Stored(gs)) BY AgreeStored, Zenon
<1>3. k \in Nat /\ Len(Stored(gs)) \in Nat /\ Len(fs) \in Nat BY CoversIs, BeforeStep, SeqIs, FileIs, Zenon
<1>4. k \in 0 .. Len(Stored(gs)) BY <1>1, <1>2, <1>3
<1>5. fs # <<>> /\ gs # <<>>
  <2>1. Len(fs) # 0 /\ Len(gs) # 0 BY <1>1
  <2> QED BY <2>1
<1>6. EndsAt(gs, n, i.latestFileSize, k)
  <2>1. EndsAt(fs, n, i.latestFileSize, k) BY <1>5, CoversIs, Zenon
  <2>2. PICK l \in 0 .. Len(fs[n].blocks) : k = Before(fs, n) + l /\ i.latestFileSize = Ends(fs[n].blocks)[l]
    BY <2>1, Zenon DEF EndsAt
  <2>3. Len(gs[n].blocks) \in Nat /\ j <= Len(gs[n].blocks) /\ Len(fs[n].blocks) \in Nat
    BY <1>1, FileIs, Zenon DEF Agree
  <2>4. l \in 0 .. j /\ l \in 0 .. Len(gs[n].blocks) BY <1>1, <2>2, <2>3
  <2>5. k = Before(gs, n) + l /\ i.latestFileSize = Ends(gs[n].blocks)[l] BY <1>1, <2>2, <2>4, Zenon
  <2> QED BY <2>4, <2>5, Zenon DEF EndsAt
<1>7. n \in DOMAIN gs BY <1>1, FileIs, Zenon
<1>8. i \in InfoSet /\ i.noBlockFiles = (k = 0) /\ (k > 0 => i.lastPersistedBlock = k - 1) BY Zenon DEF Covers
<1> QED BY <1>4, <1>5, <1>6, <1>7, <1>8, Zenon DEF Covers

\* Files with the same blocks; whether bytes of an incomplete block follow may differ.
SameBlocks(fs, gs) == Len(gs) = Len(fs) /\ \A n \in 1 .. Len(fs) : gs[n].blocks = fs[n].blocks

\* Bytes of a block that is not complete do not matter.
LEMMA SameIs ==
  ASSUME Induction, NEW fs \in Files, NEW gs \in Files, SameBlocks(fs, gs)
  PROVE  /\ Stored(gs) = Stored(fs)
         /\ \A loc, k : IsPlace(fs, loc, k) => IsPlace(gs, loc, k)
         /\ \A i, k : Covers(fs, i, k) => Covers(gs, i, k)
<1>1. Len(fs) \in Nat /\ Len(gs) = Len(fs) /\ DOMAIN fs = 1 .. Len(fs) /\ DOMAIN gs = 1 .. Len(fs)
  BY FileIs, Zenon DEF SameBlocks
<1>2. \A n \in 1 .. Len(fs) : gs[n].blocks = fs[n].blocks BY Zenon DEF SameBlocks
<1>3. /\ \A n \in 0 .. Len(fs) : UpTo(gs)[n] = UpTo(fs)[n]
      /\ \A n \in 1 .. Len(fs) + 1 : Before(gs, n) = Before(fs, n)
  BY <1>1, <1>2, UpToAgree
<1>4. Stored(gs) = Stored(fs)
  <2>1. Len(fs) \in 0 .. Len(fs) BY <1>1
  <2> QED BY <1>1, <1>3, <2>1, Zenon DEF Stored
<1>5. ASSUME NEW loc, NEW k, IsPlace(fs, loc, k) PROVE IsPlace(gs, loc, k)
  <2> DEFINE n == loc.file + 1
  <2>1. loc.file \in Nat /\ n \in 1 .. Len(fs) BY <1>1, <1>5, Zenon DEF IsPlace
  <2>2. n \in 1 .. Len(fs) + 1 BY <1>1, <2>1
  <2>3. gs[n].blocks = fs[n].blocks /\ Before(gs, n) = Before(fs, n) BY <1>2, <1>3, <2>1, <2>2, Zenon
  <2> QED BY <1>1, <1>5, <2>1, <2>3, Zenon DEF IsPlace
<1>6. ASSUME NEW i, NEW k, Covers(fs, i, k) PROVE Covers(gs, i, k)
  <2> DEFINE n == i.latestFileNumber + 1
  <2>1. CASE fs = <<>>
    <3>1. Len(fs) = 0 BY <2>1, Zenon
    <3>2. Len(gs) = 0 BY <1>1, <3>1, Zenon
    <3>3. gs = <<>> BY <3>2 DEF Files
    <3> QED BY <1>6, <2>1, <3>3, Zenon DEF Covers
  <2>2. CASE fs # <<>>
    <3>1. n \in 1 .. Len(fs) /\ IsOpen(fs, n) /\ EndsAt(fs, n, i.latestFileSize, k) BY <1>6, <2>2, CoversIs, Zenon
    <3>2. n \in 1 .. Len(fs) + 1 /\ Len(fs) \in 1 .. Len(fs) BY <1>1, <3>1
    <3>3. gs[n].blocks = fs[n].blocks /\ Before(gs, n) = Before(fs, n) /\ gs[Len(fs)].blocks = fs[Len(fs)].blocks
      BY <1>2, <1>3, <3>1, <3>2, Zenon
    <3>4. IsOpen(gs, n) BY <1>1, <3>1, <3>3, Zenon DEF IsOpen
    <3>5. EndsAt(gs, n, i.latestFileSize, k) BY <3>1, <3>3, Zenon DEF EndsAt
    <3>6. gs # <<>>
      <4>1. Len(gs) # 0 BY <1>1, <3>2
      <4> QED BY <4>1
    <3>7. n \in DOMAIN gs BY <1>1, <3>1, Zenon
    <3> QED BY <1>4, <1>6, <2>2, <3>4, <3>5, <3>6, <3>7, Zenon DEF Covers
  <2> QED BY <2>1, <2>2, Zenon
<1> QED BY <1>4, <1>5, <1>6, Zenon

\* A new file is empty.
LEMMA ExtendIs ==
  ASSUME Induction, NEW fs \in Files, NEW gs, gs = Append(fs, EmptyFile)
  PROVE  /\ gs \in Files /\ gs # <<>> /\ Len(gs) = Len(fs) + 1
         /\ \A n \in 1 .. Len(fs) : gs[n] = fs[n]
         /\ gs[Len(fs) + 1] = EmptyFile
         /\ Stored(gs) = Stored(fs)
         /\ \A loc, k : IsPlace(fs, loc, k) => IsPlace(gs, loc, k)
         /\ \A i, k : Covers(fs, i, k) /\ (fs # <<>> => i.latestFileNumber + 1 = Len(fs)) => Covers(gs, i, k)
<1>1. EmptyFile \in FileSet BY DEF EmptyFile, FileSet
<1>2. /\ gs \in Files /\ Len(fs) \in Nat /\ Len(gs) = Len(fs) + 1
      /\ \A n \in 1 .. Len(fs) : gs[n] = fs[n]
      /\ gs[Len(fs) + 1] = EmptyFile
  BY <1>1 DEF Files
<1>3. DOMAIN gs = 1 .. Len(gs) /\ Len(gs) # 0 /\ gs # <<>>
  <2>1. Len(gs) # 0 BY <1>2
  <2> QED BY <1>2, <2>1, FileIs, Zenon
<1>4. /\ \A n \in 0 .. Len(fs) : UpTo(gs)[n] = UpTo(fs)[n]
      /\ \A n \in 1 .. Len(fs) + 1 : Before(gs, n) = Before(fs, n)
  <2>1. Len(fs) <= Len(gs) /\ \A n \in 1 .. Len(fs) : gs[n].blocks = fs[n].blocks BY <1>2
  <2>2. Len(fs) <= Len(fs) BY <1>2
  <2> QED BY <1>2, <2>1, <2>2, UpToAgree, Zenon
<1>5. Stored(gs) = Stored(fs)
  <2>1. Len(fs) + 1 \in 1 .. Len(gs) /\ (Len(fs) + 1) - 1 = Len(fs) /\ Len(fs) \in 0 .. Len(fs) BY <1>2
  <2>2. UpTo(gs)[Len(fs) + 1] = UpTo(gs)[Len(fs)] \o gs[Len(fs) + 1].blocks BY <1>2, <2>1, UpToStep, Zenon
  <2>3. UpTo(gs)[Len(fs)] = Stored(fs) BY <1>4, <2>1, Zenon DEF Stored
  <2>4. gs[Len(fs) + 1].blocks = <<>> BY <1>2 DEF EmptyFile
  <2>5. Stored(fs) \o <<>> = Stored(fs) BY BeforeStep
  <2> QED BY <1>2, <2>2, <2>3, <2>4, <2>5, Zenon DEF Stored
<1>6. ASSUME NEW loc, NEW k, IsPlace(fs, loc, k) PROVE IsPlace(gs, loc, k)
  <2> DEFINE n == loc.file + 1
  <2>1. loc.file \in Nat /\ n \in 1 .. Len(fs) BY <1>6, FileIs, Zenon DEF IsPlace
  <2>2. n \in 1 .. Len(fs) + 1 /\ n \in DOMAIN gs BY <1>2, <1>3, <2>1
  <2>3. gs[n].blocks = fs[n].blocks /\ Before(gs, n) = Before(fs, n) BY <1>2, <1>4, <2>1, <2>2, Zenon
  <2> QED BY <1>6, <2>1, <2>2, <2>3, Zenon DEF IsPlace
<1>7. ASSUME NEW i, NEW k, Covers(fs, i, k), fs # <<>> => i.latestFileNumber + 1 = Len(fs) PROVE Covers(gs, i, k)
  <2> DEFINE n == i.latestFileNumber + 1
  <2>1. CASE fs = <<>>
    <3>1. i.latestFileNumber = 0 /\ i.latestFileSize = 0 BY <1>7, <2>1, Zenon DEF Covers
    <3>2. Len(fs) = 0 /\ Len(gs) = 1 /\ n = 1 BY <1>2, <2>1, <3>1
    <3>3. Len(Stored(fs)) = 0 BY <2>1, <3>2, BeforeStep
    <3>4. k = 0 BY <1>7, <3>3 DEF Covers
    <3>5. gs[1] = EmptyFile /\ Before(gs, 1) = 0 BY <1>2, <3>2, BeforeStep, Zenon
    <3>6. gs[1].blocks = <<>> /\ Len(gs[1].blocks) = 0 BY <3>5 DEF EmptyFile
    <3>7. Ends(gs[1].blocks)[0] = 0 BY <3>6, EndsStep, Zenon
    <3>8. EndsAt(gs, 1, 0, 0) BY <3>5, <3>6, <3>7 DEF EndsAt
    <3>9. IsOpen(gs, 1) /\ 1 \in DOMAIN gs BY <1>3, <3>2 DEF IsOpen
    <3> QED BY <1>3, <1>5, <1>7, <3>1, <3>2, <3>4, <3>8, <3>9, Zenon DEF Covers
  <2>2. CASE fs # <<>>
    <3>1. n = Len(fs) /\ n \in 1 .. Len(fs) /\ EndsAt(fs, n, i.latestFileSize, k) BY <1>7, <2>2, CoversIs, Zenon
    <3>2. n \in 1 .. Len(fs) + 1 /\ n \in DOMAIN gs BY <1>2, <1>3, <3>1
    <3>3. gs[n].blocks = fs[n].blocks /\ Before(gs, n) = Before(fs, n) BY <1>2, <1>4, <3>1, <3>2, Zenon
    <3>4. gs[Len(gs)].blocks = <<>> BY <1>2 DEF EmptyFile
    <3>5. IsOpen(gs, n) BY <1>2, <3>1, <3>4 DEF IsOpen
    <3>6. EndsAt(gs, n, i.latestFileSize, k) BY <3>1, <3>3, Zenon DEF EndsAt
    <3> QED BY <1>3, <1>5, <1>7, <2>2, <3>2, <3>5, <3>6, Zenon DEF Covers
  <2> QED BY <2>1, <2>2, Zenon
<1> QED BY <1>2, <1>3, <1>5, <1>6, <1>7, Zenon

\* The n-th file is written anew.
Replaces(fs, gs, n, s) == gs = [fs EXCEPT ![n] = [blocks |-> s, torn |-> FALSE]]

\* The other files stay.
LEMMA ReplaceIs ==
  ASSUME NEW fs \in Files, NEW n \in 1 .. Len(fs), NEW s \in Seq(Block),
         NEW gs, Replaces(fs, gs, n, s)
  PROVE  /\ gs \in Files /\ Len(gs) = Len(fs)
         /\ gs[n].blocks = s /\ ~gs[n].torn
         /\ \A m \in 1 .. Len(fs) : m # n => gs[m] = fs[m]
         /\ IsOpen(fs, n) => IsOpen(gs, n)
<1> DEFINE f == [blocks |-> s, torn |-> FALSE]
<1>1. f \in FileSet /\ f.blocks = s /\ ~f.torn BY Zenon DEF FileSet
<1>2. gs = [fs EXCEPT ![n] = f] BY Zenon DEF Replaces
<1> HIDE DEF f
<1>3. gs \in Files /\ Len(gs) = Len(fs) /\ gs[n] = f BY <1>1, <1>2 DEF Files
<1>4. \A m \in 1 .. Len(fs) : m # n => gs[m] = fs[m] BY <1>2, FileIs, Zenon
<1>5. IsOpen(fs, n) => IsOpen(gs, n)
  <2>1. CASE n = Len(fs) BY <1>3, <2>1, Zenon DEF IsOpen
  <2>2. CASE n = Len(fs) - 1 /\ fs[Len(fs)].blocks = <<>>
    <3>1. Len(fs) \in 1 .. Len(fs) /\ Len(fs) # n BY <2>2, FileIs
    <3>2. gs[Len(fs)] = fs[Len(fs)] BY <1>4, <3>1, Zenon
    <3> QED BY <1>3, <2>2, <3>2, Zenon DEF IsOpen
  <2> QED BY <2>1, <2>2, Zenon DEF IsOpen
<1> QED BY <1>1, <1>3, <1>4, <1>5, Zenon

\* An appended block ends behind the last one.
LEMMA EndsAppend ==
  ASSUME Induction, NEW s \in Seq(Block), NEW b \in Block
  PROVE  /\ Ends(Append(s, b))[Len(s)] = Ends(s)[Len(s)]
         /\ Ends(Append(s, b))[Len(s) + 1] = Ends(s)[Len(s)] + DataSize[b.data]
<1> DEFINE t == Append(s, b)
           j == Len(s)
<1>1. /\ Len(s) \in Nat /\ Len(t) \in Nat /\ j \in Nat /\ j <= Len(s) /\ j <= Len(t) /\ Len(t) = j + 1
      /\ \A k \in 1 .. j : t[k] = s[k]
      /\ t[j + 1] = b
  BY SeqIs
<1> HIDE DEF t, j
<1>2. \A k \in 0 .. j : Ends(t)[k] = Ends(s)[k] BY <1>1, EndsAgree, Zenon
<1>3. j + 1 \in 1 .. Len(t) /\ (j + 1) - 1 = j /\ j \in 0 .. j BY <1>1
<1>4. Ends(t)[j + 1] = Ends(t)[j] + DataSize[t[j + 1].data]
  <2>1. \A k \in 1 .. Len(t) : Ends(t)[k] = Ends(t)[k - 1] + DataSize[t[k].data] BY <1>1, EndsStep, Zenon
  <2> QED BY <1>3, <2>1, Zenon
<1> QED BY <1>1, <1>2, <1>3, <1>4, Zenon DEF t, j

\* A block that is appended to the n-th file comes last.
Appends(fs, gs, n, b) == gs = [fs EXCEPT ![n] = [blocks |-> Append(@.blocks, b), torn |-> FALSE]]

\* It is then the last of all, and the others keep their places.
LEMMA AppendIs ==
  ASSUME Induction, NEW fs \in Files, NEW n \in 1 .. Len(fs), IsOpen(fs, n), NEW b \in Block,
         NEW gs, Appends(fs, gs, n, b),
         NEW j, j = Len(fs[n].blocks)
  PROVE  /\ gs \in Files /\ Len(gs) = Len(fs) /\ ~gs[n].torn
         /\ \A m \in 1 .. Len(fs) : m # n => gs[m] = fs[m]
         /\ IsOpen(gs, n) /\ Agree(fs, gs, n, j)
         /\ Stored(gs) = Append(Stored(fs), b)
         /\ gs[n].blocks # <<>>
         /\ Len(gs[n].blocks) = j + 1 /\ Ends(gs[n].blocks)[j + 1] = Ends(fs[n].blocks)[j] + DataSize[b.data]
         /\ Ends(gs[n].blocks)[j] = Ends(fs[n].blocks)[j]
         /\ Before(gs, n) = Before(fs, n) /\ Len(Stored(fs)) = Before(fs, n) + j
<1> DEFINE s == fs[n].blocks
           t == Append(s, b)
<1>1. Len(fs) \in Nat /\ DOMAIN fs = 1 .. Len(fs) /\ s \in Seq(Block) /\ j \in Nat BY FileIs, Zenon
<1>2. /\ t \in Seq(Block) /\ Len(t) = j + 1 /\ t[j + 1] = b
      /\ \A k \in 1 .. j : t[k] = s[k]
  BY <1>1, SeqIs
<1>3. Replaces(fs, gs, n, t) BY <1>1, Zenon DEF Replaces, Appends
<1> HIDE DEF t
<1>4. /\ gs \in Files /\ Len(gs) = Len(fs) /\ gs[n].blocks = t /\ ~gs[n].torn
      /\ \A m \in 1 .. Len(fs) : m # n => gs[m] = fs[m]
      /\ IsOpen(gs, n)
  BY <1>2, <1>3, ReplaceIs
<1>5. Agree(fs, gs, n, j)
  <2>1. \A m \in 1 .. n - 1 : gs[m].blocks = fs[m].blocks BY <1>1, <1>4
  <2>2. j \in 0 .. Len(fs[n].blocks) /\ j <= Len(gs[n].blocks) /\ n <= Len(gs) BY <1>1, <1>2, <1>4
  <2> QED BY <1>2, <1>4, <2>1, <2>2, Zenon DEF Agree
<1>6. Before(gs, n) = Before(fs, n) /\ Before(fs, n) \in Nat /\ Ends(gs[n].blocks)[j] = Ends(fs[n].blocks)[j]
  <2>1. Before(gs, n) = Before(fs, n) /\ Before(fs, n) \in Nat BY <1>4, <1>5, AgreeIs, Zenon
  <2> QED BY <1>1, <1>4, <2>1, EndsAppend, Zenon DEF t
<1>7. Len(Stored(fs)) = Before(fs, n) + j BY OpenIs, Zenon
<1>8. Len(Stored(gs)) = Before(fs, n) + (j + 1) 
  <2>1. n \in 1 .. Len(gs) BY <1>4, Zenon
  <2>2. Len(Stored(gs)) = Before(gs, n) + Len(gs[n].blocks) BY <1>4, <2>1, OpenIs, Zenon
  <2> QED BY <1>2, <1>4, <1>6, <2>2, Zenon
<1>9. Stored(gs) = Append(Stored(fs), b)
  <2> DEFINE S == Stored(fs)
             T == Stored(gs)
  <2>1. S \in Seq(Block) /\ T \in Seq(Block) BY <1>4, BeforeStep, Zenon
  <2>2. Len(S) \in Nat /\ Len(T) = Len(S) + 1 BY <1>1, <1>6, <1>7, <1>8
  <2>3. \A k \in 1 .. Len(S) : T[k] = S[k] BY <1>4, <1>5, <1>7, AgreeStored
  <2>4. T[Len(S) + 1] = b
    <3>1. j + 1 \in 1 .. Len(gs[n].blocks) /\ n \in 1 .. Len(gs) BY <1>1, <1>2, <1>4
    <3>2. T[Before(gs, n) + (j + 1)] = gs[n].blocks[j + 1] BY <1>4, <3>1, StoredAt, Zenon
    <3>3. Before(gs, n) + (j + 1) = Len(S) + 1 BY <1>1, <1>6, <1>7
    <3> QED BY <1>2, <1>4, <3>2, <3>3, Zenon
  <2> HIDE DEF S, T
  <2>5. /\ Append(S, b) \in Seq(Block) /\ Len(Append(S, b)) = Len(S) + 1
        /\ \A k \in 1 .. Len(S) : Append(S, b)[k] = S[k]
        /\ Append(S, b)[Len(S) + 1] = b
    BY <2>1, SeqIs, Zenon
  <2>6. ASSUME NEW k \in 1 .. Len(T) PROVE T[k] = Append(S, b)[k]
    <3>1. k \in 1 .. Len(S) \/ k = Len(S) + 1 BY <2>2
    <3> QED BY <2>3, <2>4, <2>5, <3>1, Zenon
  <2>7. T = Append(S, b) BY <2>1, <2>2, <2>5, <2>6, SeqIs, Zenon
  <2> QED BY <2>7, Zenon DEF S, T
<1>10. Ends(gs[n].blocks)[j + 1] = Ends(fs[n].blocks)[j] + DataSize[b.data] BY <1>1, <1>4, EndsAppend DEF t
<1>11. gs[n].blocks # <<>>
  <2>1. Len(t) # 0 BY <1>1, <1>2
  <2> QED BY <1>4, <2>1, Zenon
<1> QED BY <1>2, <1>4, <1>5, <1>6, <1>7, <1>9, <1>10, <1>11, Zenon

\* The same of a file that was appended to, as one fact.
HasAppended(fs, gs, n, b, j) ==
  /\ gs \in Files /\ Len(gs) = Len(fs) /\ ~gs[n].torn
  /\ \A m \in 1 .. Len(fs) : m # n => gs[m] = fs[m]
  /\ IsOpen(gs, n) /\ Agree(fs, gs, n, j)
  /\ Stored(gs) = Append(Stored(fs), b) /\ gs[n].blocks # <<>>
  /\ Len(Stored(fs)) = Before(fs, n) + j

LEMMA AppendHas ==
  ASSUME Induction, NEW fs \in Files, NEW n \in 1 .. Len(fs), IsOpen(fs, n), NEW b \in Block,
         NEW gs, Appends(fs, gs, n, b),
         NEW j, j = Len(fs[n].blocks)
  PROVE  HasAppended(fs, gs, n, b, j)
BY AppendIs DEF HasAppended

\* The n-th file is cut behind its j-th block, where the log then ends.
Cuts(fs, gs, n, j) == gs = [fs EXCEPT ![n] = [blocks |-> SubSeq(@.blocks, 1, j), torn |-> FALSE]]

\* The blocks before the cut keep their places.
LEMMA CutIs ==
  ASSUME Induction, NEW fs \in Files, NEW n \in 1 .. Len(fs), IsOpen(fs, n), NEW j \in 0 .. Len(fs[n].blocks),
         NEW gs, Cuts(fs, gs, n, j)
  PROVE  /\ gs \in Files /\ Len(gs) = Len(fs) /\ ~gs[n].torn /\ gs # <<>>
         /\ \A m \in 1 .. Len(fs) : m # n => gs[m] = fs[m]
         /\ IsOpen(gs, n) /\ Agree(fs, gs, n, j)
         /\ Before(fs, n) + j \in 0 .. Len(Stored(fs))
         /\ Len(gs[n].blocks) = j
         /\ Stored(gs) = SubSeq(Stored(fs), 1, Before(fs, n) + j)
         /\ Len(Stored(gs)) = Before(fs, n) + j
<1> DEFINE s == fs[n].blocks
           t == SubSeq(s, 1, j)
<1>1. Len(fs) \in Nat /\ DOMAIN fs = 1 .. Len(fs) /\ s \in Seq(Block) /\ Len(s) \in Nat /\ j \in Nat BY FileIs
<1>2. t \in Seq(Block) /\ Len(t) = j /\ \A k \in 1 .. j : t[k] = s[k] BY <1>1, SeqIs
<1>3. Replaces(fs, gs, n, t) BY <1>1, Zenon DEF Replaces, Cuts
<1> HIDE DEF t
<1>4. /\ gs \in Files /\ Len(gs) = Len(fs) /\ gs[n].blocks = t /\ ~gs[n].torn
      /\ \A m \in 1 .. Len(fs) : m # n => gs[m] = fs[m]
      /\ IsOpen(gs, n)
  BY <1>2, <1>3, ReplaceIs
<1>5. Agree(fs, gs, n, j)
  <2>1. \A m \in 1 .. n - 1 : gs[m].blocks = fs[m].blocks BY <1>1, <1>4
  <2>2. j <= Len(gs[n].blocks) /\ n <= Len(gs) BY <1>1, <1>2, <1>4
  <2> QED BY <1>2, <1>4, <2>1, <2>2, Zenon DEF Agree
<1>6. Before(gs, n) = Before(fs, n) /\ Before(fs, n) \in Nat BY <1>4, <1>5, AgreeIs
<1>7. Len(Stored(gs)) = Before(fs, n) + j 
  <2>1. n \in 1 .. Len(gs) BY <1>4, Zenon
  <2>2. Len(Stored(gs)) = Before(gs, n) + Len(gs[n].blocks) BY <1>4, <2>1, OpenIs, Zenon
  <2> QED BY <1>2, <1>4, <1>6, <2>2, Zenon
<1>8. /\ Before(fs, n) + j \in Nat /\ Before(fs, n) + j <= Len(Stored(fs))
      /\ \A k \in 1 .. Before(fs, n) + j : Stored(gs)[k] = Stored(fs)[k]
  BY <1>4, <1>5, AgreeStored
<1>9. Stored(fs) \in Seq(Block) /\ Stored(gs) \in Seq(Block) BY <1>4, BeforeStep, Zenon
<1>10. Before(fs, n) + j \in 0 .. Len(Stored(fs))
  <2>1. Len(Stored(fs)) \in Nat BY <1>9, SeqIs, Zenon
  <2> QED BY <1>8, <2>1
<1>11. Stored(gs) = SubSeq(Stored(fs), 1, Before(fs, n) + j)
  <2> DEFINE m == Before(fs, n) + j
             S == Stored(fs)
             T == Stored(gs)
  <2>1. /\ m \in 0 .. Len(S) /\ S \in Seq(Block) /\ T \in Seq(Block) /\ Len(T) = m
        /\ \A k \in 1 .. m : T[k] = S[k]
    BY <1>7, <1>8, <1>9, <1>10, Zenon
  <2> HIDE DEF m, S, T
  <2>2. /\ SubSeq(S, 1, m) \in Seq(Block) /\ Len(SubSeq(S, 1, m)) = m
        /\ \A k \in 1 .. m : SubSeq(S, 1, m)[k] = S[k]
    BY <2>1, SeqIs, Zenon
  <2>3. \A k \in 1 .. Len(T) : T[k] = SubSeq(S, 1, m)[k] BY <2>1, <2>2, Zenon
  <2>4. T = SubSeq(S, 1, m) BY <2>1, <2>2, <2>3, SeqIs, Zenon
  <2> QED BY <2>4, Zenon DEF m, S, T
<1>12. gs # <<>>
  <2>1. Len(gs) # 0 BY <1>1, <1>4
  <2> QED BY <2>1
<1> QED BY <1>2, <1>4, <1>5, <1>7, <1>10, <1>11, <1>12, Zenon

\* A file that is truncated at the end of a block keeps the blocks up to it.
LEMMA TruncateIs ==
  ASSUME Induction, NEW fs \in Files, NEW n \in Nat, n + 1 \in 1 .. Len(fs),
         NEW j \in 0 .. Len(fs[n + 1].blocks), NEW size, size = Ends(fs[n + 1].blocks)[j]
  PROVE  Cuts(fs, TruncateFile(fs, n, size), n + 1, j)
<1>1. DOMAIN fs = 1 .. Len(fs) /\ fs[n + 1].blocks \in Seq(Block) BY FileIs, Zenon
<1>2. BlocksUpTo(fs[n + 1], size) = j BY <1>1, BlocksUpToIs, Zenon
<1> QED BY <1>1, <1>2, Zenon DEF TruncateFile, Cuts

\* A file that is removed takes its blocks along.
LEMMA RemoveIs ==
  ASSUME Induction, NEW fs \in Files, Len(fs) > 1, NEW gs, gs = SubSeq(fs, 1, Len(fs) - 1)
  PROVE  /\ gs \in Files /\ Len(gs) = Len(fs) - 1 /\ gs # <<>>
         /\ \A m \in 1 .. Len(fs) - 1 : gs[m] = fs[m]
         /\ Agree(fs, gs, Len(fs) - 1, Len(fs[Len(fs) - 1].blocks))
         /\ Len(Stored(gs)) = Before(fs, Len(fs)) /\ Len(Stored(gs)) \in 0 .. Len(Stored(fs))
         /\ Stored(gs) = SubSeq(Stored(fs), 1, Len(Stored(gs)))
<1> DEFINE n == Len(fs) - 1
           j == Len(fs[n].blocks)
<1>1. Len(fs) \in Nat /\ n \in 1 .. Len(fs) /\ n \in Nat /\ n + 1 = Len(fs) /\ n <= Len(fs) BY FileIs
<1>2. fs[n].blocks \in Seq(Block) /\ j \in Nat BY <1>1, FileIs, Zenon
<1>3. gs \in Files /\ Len(gs) = n /\ \A m \in 1 .. n : gs[m] = fs[m] BY <1>1 DEF Files
<1> HIDE DEF n
<1>4. Agree(fs, gs, n, j)
  <2>1. \A m \in 1 .. n - 1 : gs[m].blocks = fs[m].blocks BY <1>1, <1>3
  <2>2. gs[n] = fs[n] BY <1>1, <1>3
  <2>3. j \in 0 .. Len(fs[n].blocks) /\ j <= Len(gs[n].blocks) /\ n <= Len(gs) BY <1>1, <1>2, <1>3, <2>2
  <2> QED BY <1>1, <2>1, <2>2, <2>3, Zenon DEF Agree
<1>5. /\ Before(fs, n) + j \in Nat /\ Before(fs, n) + j <= Len(Stored(fs))
      /\ \A k \in 1 .. Before(fs, n) + j : Stored(gs)[k] = Stored(fs)[k]
  BY <1>3, <1>4, AgreeStored
<1>6. Before(fs, n + 1) = Before(fs, n) + j BY <1>1, BeforeStep, Zenon
<1>7. Len(Stored(gs)) = Before(fs, n) + j
  <2>1. n \in 1 .. Len(gs) /\ IsOpen(gs, n) BY <1>1, <1>3 DEF IsOpen
  <2>2. Len(Stored(gs)) = Before(gs, n) + Len(gs[n].blocks) BY <1>3, <2>1, OpenIs, Zenon
  <2>3. Before(gs, n) = Before(fs, n) /\ gs[n] = fs[n] BY <1>1, <1>3, <1>4, AgreeIs
  <2> QED BY <2>2, <2>3, Zenon
<1>8. Stored(fs) \in Seq(Block) /\ Stored(gs) \in Seq(Block) /\ Len(Stored(fs)) \in Nat
  BY <1>3, BeforeStep, SeqIs, Zenon
<1>9. Stored(gs) = SubSeq(Stored(fs), 1, Len(Stored(gs))) /\ Len(Stored(gs)) \in 0 .. Len(Stored(fs))
  <2> DEFINE m == Before(fs, n) + j
             S == Stored(fs)
             T == Stored(gs)
  <2>1. /\ m \in 0 .. Len(S) /\ S \in Seq(Block) /\ T \in Seq(Block) /\ Len(T) = m
        /\ \A k \in 1 .. m : T[k] = S[k]
    BY <1>5, <1>7, <1>8
  <2> HIDE DEF m, S, T
  <2>2. /\ SubSeq(S, 1, m) \in Seq(Block) /\ Len(SubSeq(S, 1, m)) = m
        /\ \A k \in 1 .. m : SubSeq(S, 1, m)[k] = S[k]
    BY <2>1, SeqIs, Zenon
  <2>3. \A k \in 1 .. Len(T) : T[k] = SubSeq(S, 1, m)[k] BY <2>1, <2>2, Zenon
  <2>4. T = SubSeq(S, 1, m) BY <2>1, <2>2, <2>3, SeqIs, Zenon
  <2> QED BY <2>1, <2>4, Zenon DEF m, S, T
<1>10. gs # <<>>
  <2>1. Len(gs) # 0 BY <1>1, <1>3
  <2> QED BY <2>1, Zenon
<1> QED BY <1>1, <1>3, <1>4, <1>6, <1>7, <1>9, <1>10, Zenon DEF n

\* A database stays sound while the files keep what it points to.
LEMMA SoundKept ==
  ASSUME Induction, NEW fs \in Files, NEW gs \in Files, NEW d, IsSound(fs, d),
         d.savePoint <= Len(Stored(gs)) - 1,
         \A loc, k : IsPlace(fs, loc, k) /\ k <= d.savePoint + 1 => IsPlace(gs, loc, k),
         d.info # <<>> => /\ \A k \in Nat : Covers(fs, d.info[1], k) => Covers(gs, d.info[1], k)
                          /\ \A n \in 1 .. Len(gs) : gs[n].torn => n <= d.info[1].latestFileNumber + 1
  PROVE  IsSound(gs, d)
<1>1. Len(Stored(gs)) \in Nat /\ Len(Stored(fs)) \in Nat BY BeforeStep, SeqIs, Zenon
<1>2. d.savePoint \in -1 .. Len(Stored(fs)) - 1 BY Zenon DEF IsSound
<1>3. d.savePoint \in -1 .. Len(Stored(gs)) - 1 BY <1>1, <1>2
<1>4. ASSUME NEW j \in 0 .. d.savePoint PROVE IsPlace(gs, d.index[j], j + 1)
  <2>1. IsPlace(fs, d.index[j], j + 1) BY Zenon DEF IsSound
  <2>2. j + 1 <= d.savePoint + 1 BY <1>1, <1>2
  <2> QED BY <2>1, <2>2, Zenon
<1>5. ASSUME d.info # <<>>
      PROVE  /\ d.info = <<d.info[1]>>
             /\ \E k \in Nat : Covers(gs, d.info[1], k)
             /\ \A n \in DOMAIN gs : gs[n].torn => n <= d.info[1].latestFileNumber + 1
  <2>1. d.info = <<d.info[1]>> BY <1>5, Zenon DEF IsSound
  <2>2. PICK k \in Nat : Covers(fs, d.info[1], k) BY <1>5, Zenon DEF IsSound
  <2>3. Covers(gs, d.info[1], k) BY <1>5, <2>2, Zenon
  <2>4. DOMAIN gs = 1 .. Len(gs) BY FileIs, Zenon
  <2> QED BY <1>5, <2>1, <2>3, <2>4, Zenon
<1>6. d = [info |-> d.info, index |-> d.index, savePoint |-> d.savePoint] /\ DOMAIN d.index = 0 .. d.savePoint
  BY Zenon DEF IsSound
<1> QED BY <1>3, <1>4, <1>5, <1>6, Zenon DEF IsSound

\* A place is that of one block, and a block has one place.
LEMMA PlaceSame ==
  ASSUME Induction, NEW fs \in Files, NEW p, NEW q, NEW k, NEW l, IsPlace(fs, p, k), IsPlace(fs, q, l)
  PROVE  IsAt(p, q) <=> k = l
<1>1. /\ p.file \in Nat /\ p.file + 1 \in 1 .. Len(fs) /\ q.file \in Nat /\ q.file + 1 \in 1 .. Len(fs)
  BY PlaceIs, Zenon
<1>2. ASSUME IsAt(p, q) PROVE k = l
  <2>1. p.file = q.file /\ p.offset = q.offset BY <1>2, Zenon DEF IsAt
  <2>2. k = Before(fs, p.file + 1) + BlocksUpTo(fs[p.file + 1], p.offset) + 1 BY PlaceIs, Zenon
  <2>3. l = Before(fs, q.file + 1) + BlocksUpTo(fs[q.file + 1], q.offset) + 1 BY PlaceIs, Zenon
  <2> QED BY <2>1, <2>2, <2>3, Zenon
<1>3. ASSUME k = l PROVE IsAt(p, q)
  <2> DEFINE m == p.file + 1
             n == q.file + 1
  <2>1. DOMAIN fs[m].blocks = 1 .. Len(fs[m].blocks) /\ DOMAIN fs[n].blocks = 1 .. Len(fs[n].blocks)
    BY <1>1, FileIs, Zenon
  <2>2. PICK i \in 1 .. Len(fs[m].blocks) : k = Before(fs, m) + i /\ p.offset = Ends(fs[m].blocks)[i - 1]
    BY <2>1, Zenon DEF IsPlace
  <2>3. PICK j \in 1 .. Len(fs[n].blocks) : l = Before(fs, n) + j /\ q.offset = Ends(fs[n].blocks)[j - 1]
    BY <2>1, Zenon DEF IsPlace
  <2>4. m \in 1 .. Len(fs) /\ n \in 1 .. Len(fs) BY <1>1, Zenon
  <2> HIDE DEF m, n
  <2>5. Before(fs, m) + i = Before(fs, n) + j BY <1>3, <2>2, <2>3, Zenon
  <2>6. m = n /\ i = j BY <2>4, <2>5, PlaceUnique
  <2>7. p.file = q.file BY <1>1, <2>6 DEF m, n
  <2> QED BY <2>2, <2>3, <2>6, <2>7, Zenon DEF IsAt
<1> QED BY <1>2, <1>3, Zenon

\* blockStream visits the stored blocks in their order, at their places.
LEMMA PlacedIs ==
  ASSUME Induction, files \in Files
  PROVE  /\ DOMAIN Placed = 1 .. Len(Stored(files))
         /\ \A k \in 1 .. Len(Stored(files)) : IsPlace(files, Placed[k], k) /\ Placed[k].block = Stored(files)[k]
<1> DEFINE upTo == UpTo(files)
           File(k) == CHOOSE n \in DOMAIN files : Len(upTo[n - 1]) < k /\ k <= Len(upTo[n])
           Place(n, i) == [file |-> n - 1, offset |-> Ends(files[n].blocks)[i - 1], block |-> files[n].blocks[i]]
           T == Stored(files)
<1>1. Placed = [k \in DOMAIN T |-> Place(File(k), k - Len(upTo[File(k) - 1]))] BY Zenon DEF Placed
<1>2. DOMAIN T = 1 .. Len(T) /\ Len(T) \in Nat BY BeforeStep, SeqIs, Zenon
<1>3. ASSUME NEW k \in 1 .. Len(T) PROVE IsPlace(files, Placed[k], k) /\ Placed[k].block = Stored(files)[k]
  <2> DEFINE P(n) == Len(upTo[n - 1]) < k /\ k <= Len(upTo[n])
             n == File(k)
             i == k - Len(upTo[n - 1])
  <2>1. DOMAIN files = 1 .. Len(files) /\ Len(files) \in Nat BY FileIs, Zenon
  <2>2. \E m \in DOMAIN files : P(m)
    <3>1. PICK m \in 1 .. Len(files) : \E j \in 1 .. Len(files[m].blocks) : k = Before(files, m) + j
      BY StoredFrom, Zenon
    <3>2. PICK j \in 1 .. Len(files[m].blocks) : k = Before(files, m) + j BY <3>1, Zenon
    <3>3. Before(files, m + 1) = Before(files, m) + Len(files[m].blocks) BY BeforeStep, Zenon
    <3>4. m \in 1 .. Len(files) + 1 /\ (m + 1) - 1 = m BY <2>1
    <3>5. Before(files, m) \in Nat /\ Len(files[m].blocks) \in Nat BY <3>4, BeforeStep, FileIs, Zenon
    <3>6. Before(files, m) = Len(upTo[m - 1]) /\ Before(files, m + 1) = Len(upTo[m]) BY <3>4, Zenon DEF Before
    <3>7. Before(files, m) < k /\ k <= Before(files, m + 1) BY <3>2, <3>3, <3>5
    <3> QED BY <2>1, <3>6, <3>7, Zenon
  <2>3. n \in DOMAIN files /\ P(n) BY <2>2, Zenon
  <2>4. Placed[k] = Place(n, i) BY <1>1, <1>2, Zenon
  <2> HIDE DEF n, File
  <2>5. n \in 1 .. Len(files) /\ n \in 1 .. Len(files) + 1 /\ (n + 1) - 1 = n BY <2>1, <2>3
  <2>6. Before(files, n) = Len(upTo[n - 1]) /\ Before(files, n + 1) = Len(upTo[n]) BY <2>5, Zenon DEF Before
  <2>7. Before(files, n + 1) = Before(files, n) + Len(files[n].blocks) BY <2>5, BeforeStep, Zenon
  <2>8. Before(files, n) \in Nat /\ Len(files[n].blocks) \in Nat BY <2>5, BeforeStep, FileIs, Zenon
  <2>9. i \in 1 .. Len(files[n].blocks) /\ k = Before(files, n) + i
    <3>1. Before(files, n) < k /\ k <= Before(files, n + 1) /\ i = k - Before(files, n) BY <2>3, <2>6, Zenon
    <3>2. k \in Nat BY <1>2
    <3> HIDE DEF i
    <3> QED BY <2>7, <2>8, <3>1, <3>2
  <2>10. DOMAIN files[n].blocks = 1 .. Len(files[n].blocks) BY <2>5, FileIs, Zenon
  <2> HIDE DEF i
  <2>11. Placed[k].file = n - 1 /\ Placed[k].offset = Ends(files[n].blocks)[i - 1] /\ Placed[k].block = files[n].blocks[i]
    BY <2>4
  <2>12. n - 1 \in Nat /\ (n - 1) + 1 = n BY <2>5
  <2>13. IsPlace(files, Placed[k], k) BY <2>1, <2>3, <2>9, <2>10, <2>11, <2>12, Zenon DEF IsPlace
  <2>14. Stored(files)[Before(files, n) + i] = files[n].blocks[i] BY <2>5, <2>9, StoredAt, Zenon
  <2> QED BY <2>9, <2>11, <2>13, <2>14, Zenon
<1> QED BY <1>1, <1>2, <1>3, Zenon

\* constructBlockfilesInfo finds the end of the last block.
LEMMA ConstructIs ==
  ASSUME Induction, FilesInv
  PROVE  /\ Covers(files, constructBlockfilesInfo, Len(Stored(files)))
         /\ files # <<>> => constructBlockfilesInfo.latestFileNumber + 1 = Len(files)
<1> DEFINE n == Len(files)
           T == Stored(files)
           s == files[n].blocks
           scanned == IF s = <<>> /\ n > 1 THEN files[n - 1].blocks ELSE s
           last == IF scanned = <<>> THEN 0 ELSE scanned[Len(scanned)].number
           info == constructBlockfilesInfo
<1>1. files \in Files /\ n \in Nat /\ DOMAIN files = 1 .. n BY FileIs, Zenon DEF FilesInv, Files
<1>2. T \in Seq(Block) /\ Len(T) \in Nat /\ DOMAIN T = 1 .. Len(T) BY <1>1, BeforeStep, SeqIs, Zenon
<1>3. CASE n = 0
  <2>1. info = Info(0, 0, TRUE, 0) BY <1>3, Zenon DEF constructBlockfilesInfo
  <2>2. files = <<>> BY <1>1, <1>3 DEF Files
  <2>3. Len(T) = Before(files, 1) /\ Before(files, 1) = 0 BY <1>1, <1>3, BeforeStep
  <2>4. info \in InfoSet BY <2>1, Zenon DEF Info, InfoSet
  <2>5. info.latestFileNumber = 0 /\ info.latestFileSize = 0 /\ info.noBlockFiles = TRUE BY <2>1, Zenon DEF Info
  <2>6. Len(T) = 0 /\ Len(T) \in 0 .. Len(T) BY <2>3
  <2>7. 0 \in 0 .. Len(Stored(files)) /\ ~(0 > 0) BY <2>6
  <2> HIDE DEF info
  <2>8. Covers(files, info, 0) BY <2>2, <2>4, <2>5, <2>7, Zenon DEF Covers
  <2> QED BY <2>2, <2>6, <2>8, Zenon DEF info
<1>4. CASE n # 0
  <2>1. info = Info(n - 1, Bytes(s), n = 1 /\ s = <<>>, last) BY <1>4, Zenon DEF constructBlockfilesInfo
  <2>2. n \in 1 .. Len(files) /\ IsOpen(files, n) /\ n \in DOMAIN files /\ files # <<>>
    BY <1>1, <1>4 DEF IsOpen
  <2>3. s \in Seq(Block) /\ Len(s) \in Nat /\ (s = <<>> <=> Len(s) = 0) BY <1>1, <2>2, FileIs
  <2>4. Len(T) = Before(files, n) + Len(s) /\ Before(files, n) \in Nat
    <3>1. n \in 1 .. Len(files) + 1 BY <1>1, <2>2
    <3> QED BY <1>1, <2>2, <3>1, OpenIs, BeforeStep, Zenon
  <2>5. EndsAt(files, n, Bytes(s), Len(T))
    <3>1. Len(s) \in 0 .. Len(s) BY <2>3
    <3> QED BY <2>4, <3>1, Zenon DEF EndsAt, Bytes
  <2>6. Bytes(s) \in Nat
    <3>1. Len(s) \in 0 .. Len(s) BY <2>3
    <3> QED BY <2>3, <3>1, EndsGrow, Zenon DEF Bytes
  <2>7. (n = 1 /\ s = <<>>) = (Len(T) = 0) /\ (Len(T) > 0 => last = Len(T) - 1)
    <3>1. CASE s # <<>>
      <4>1. Len(s) \in 1 .. Len(s) BY <2>3, <3>1
      <4>2. T[Before(files, n) + Len(s)] = s[Len(s)] BY <1>1, <2>2, <4>1, StoredAt, Zenon
      <4>3. Len(T) \in DOMAIN T /\ Len(T) # 0 BY <1>2, <2>3, <2>4, <3>1
      <4>4. T[Len(T)].number = Len(T) - 1 BY <4>3, Zenon DEF FilesInv
      <4>5. last = s[Len(s)].number BY <3>1, Zenon
      <4> QED BY <2>4, <3>1, <4>2, <4>3, <4>4, <4>5, Zenon
    <3>2. CASE s = <<>> /\ n = 1
      <4>1. Before(files, n) = 0 BY <1>1, <3>2, BeforeStep, Zenon
      <4>2. Len(T) = 0 BY <2>3, <2>4, <3>2, <4>1
      <4> QED BY <3>2, <4>2
    <3>3. CASE s = <<>> /\ n # 1
      <4> DEFINE m == n - 1
                 t == files[m].blocks
      <4>1. m \in 1 .. Len(files) /\ m < n /\ m + 1 = n /\ m \in DOMAIN files BY <1>1, <1>4, <3>3
      <4>2. t # <<>> /\ t \in Seq(Block) BY <1>1, <4>1, FileIs, Zenon DEF FilesInv
      <4>3. Len(t) \in Nat /\ Len(t) # 0 /\ Len(t) \in 1 .. Len(t) BY <4>2
      <4>4. Before(files, m + 1) = Before(files, m) + Len(t) BY <1>1, <4>1, BeforeStep, Zenon
      <4>5. T[Before(files, m) + Len(t)] = t[Len(t)] BY <1>1, <4>1, <4>3, StoredAt, Zenon
      <4>6. m \in 1 .. Len(files) + 1 BY <1>1, <4>1
      <4>7. Before(files, m) \in Nat BY <1>1, <4>6, BeforeStep, Zenon
      <4>8. Len(T) = Before(files, m) + Len(t) BY <2>3, <2>4, <3>3, <4>1, <4>3, <4>4, <4>7
      <4>9. Len(T) \in DOMAIN T /\ Len(T) # 0 BY <1>2, <4>3, <4>7, <4>8
      <4>10. T[Len(T)].number = Len(T) - 1 BY <4>9, Zenon DEF FilesInv
      <4>11. n > 1 BY <1>1, <1>4, <3>3
      <4>12. last = t[Len(t)].number BY <3>3, <4>2, <4>11, Zenon
      <4> QED BY <3>3, <4>5, <4>8, <4>9, <4>10, <4>12, Zenon
    <3> QED BY <3>1, <3>2, <3>3, Zenon
  <2>8. last \in Nat
    <3>1. CASE Len(T) > 0
      <4>1. last = Len(T) - 1 BY <2>7, <3>1, Zenon
      <4> HIDE DEF last, T
      <4> QED BY <1>2, <3>1, <4>1
    <3>2. CASE ~(Len(T) > 0)
      <4>1. n = 1 /\ s = <<>> BY <1>2, <2>7, <3>2
      <4> QED BY <4>1
    <3> QED BY <3>1, <3>2, Zenon
  <2> HIDE DEF last, n, s
  <2>9. /\ info.latestFileNumber = n - 1 /\ info.latestFileSize = Bytes(s)
        /\ info.noBlockFiles = (n = 1 /\ s = <<>>) /\ info.lastPersistedBlock = last
    BY <2>1, Zenon DEF Info
  <2>10. info \in InfoSet
    <3>1. n - 1 \in Nat BY <1>1, <1>4
    <3>2. (n = 1 /\ s = <<>>) \in BOOLEAN OBVIOUS
    <3> QED BY <2>1, <2>6, <2>8, <3>1, <3>2, Zenon DEF Info, InfoSet
  <2>11. info.latestFileNumber + 1 = n BY <1>1, <2>9
  <2>12. Len(T) \in 0 .. Len(T) BY <1>2
  <2> HIDE DEF info, T
  <2>13. Covers(files, info, Len(T))
    <3>1. info.noBlockFiles = (Len(T) = 0) BY <2>7, <2>9, Zenon
    <3>2. Len(T) > 0 => info.lastPersistedBlock = Len(T) - 1 BY <2>7, <2>9, Zenon
    <3> QED BY <2>2, <2>5, <2>9, <2>10, <2>11, <2>12, <3>1, <3>2, Zenon DEF Covers, T
  <2> QED BY <2>11, <2>13, Zenon DEF info, T, n
<1> QED BY <1>3, <1>4, Zenon

\* syncBlockfilesInfoFromFS finds the blocks that were added since.
LEMMA SyncInfoIs ==
  ASSUME Induction, files \in Files, NEW i, NEW k, Covers(files, i, k)
  PROVE  /\ Covers(files, syncBlockfilesInfoFromFS(i), Len(Stored(files)))
         /\ syncBlockfilesInfoFromFS(i).latestFileNumber = i.latestFileNumber
<1> DEFINE n == i.latestFileNumber + 1
           f == files[n]
           s == f.blocks
           T == Stored(files)
           found == Len(ScanFrom(f, i.latestFileSize))
           info == syncBlockfilesInfoFromFS(i)
<1>1. /\ i \in InfoSet /\ k \in Nat /\ k <= Len(T)
      /\ k = IF i.noBlockFiles THEN 0 ELSE i.lastPersistedBlock + 1
  BY CoversIs, Zenon
<1>2. Len(files) \in Nat /\ Len(T) \in Nat /\ i.latestFileNumber \in Nat
  BY <1>1, FileIs, BeforeStep, SeqIs, Zenon DEF InfoSet
<1>3. CASE files = <<>>
  <2>1. Len(files) = 0 BY <1>3, Zenon
  <2>2. Len(files) < n BY <1>2, <2>1
  <2>3. info = i BY <2>2, Zenon DEF syncBlockfilesInfoFromFS
  <2>4. Len(T) = Before(files, 1) /\ Before(files, 1) = 0 BY <2>1, BeforeStep
  <2>5. k = Len(T) BY <1>1, <1>2, <2>4
  <2> QED BY <2>3, <2>5, Zenon
<1>4. CASE files # <<>>
  <2>1. n \in 1 .. Len(files) /\ IsOpen(files, n) /\ EndsAt(files, n, i.latestFileSize, k) BY <1>4, CoversIs, Zenon
  <2>2. s \in Seq(Block) /\ Len(s) \in Nat /\ n \in DOMAIN files /\ f \in FileSet BY <2>1, FileIs, Zenon
  <2>3. PICK j \in 0 .. Len(s) : k = Before(files, n) + j /\ i.latestFileSize = Ends(s)[j] BY <2>1, Zenon DEF EndsAt
  <2>4. Len(T) = Before(files, n) + Len(s) BY <2>1, OpenIs, Zenon
  <2>5. Before(files, n) \in Nat
    <3>1. n \in 1 .. Len(files) + 1 BY <1>2, <2>1
    <3> QED BY <3>1, BeforeStep, Zenon
  <2>6. BlocksUpTo(f, i.latestFileSize) = j BY <2>2, <2>3, BlocksUpToIs, Zenon
  <2>7. found = Len(s) - j
    <3>1. found = Len(SubSeq(s, j + 1, Len(s))) BY <2>6, Zenon DEF ScanFrom
    <3> HIDE DEF s
    <3> QED BY <2>2, <3>1
  <2>8. Len(T) = k + found BY <2>2, <2>3, <2>4, <2>5, <2>7
  <2>9. EndsAt(files, n, Bytes(s), Len(T))
    <3>1. Len(s) \in 0 .. Len(s) BY <2>2
    <3> QED BY <2>4, <3>1, Zenon DEF EndsAt, Bytes
  <2>10. Bytes(s) \in Nat
    <3>1. Len(s) \in 0 .. Len(s) BY <2>2
    <3> QED BY <2>2, <3>1, EndsGrow, Zenon DEF Bytes
  <2>12. CASE found = 0
    <3>1. j = Len(s) /\ k = Len(T) BY <1>1, <2>2, <2>7, <2>8, <2>12
    <3>2. i.latestFileSize = Bytes(s) BY <2>3, <3>1, Zenon DEF Bytes
    <3>3. info = i \/ info = [i EXCEPT !.latestFileSize = Bytes(s)] BY <2>12, Zenon DEF syncBlockfilesInfoFromFS
    <3>4. i = [i EXCEPT !.latestFileSize = Bytes(s)] BY <1>1, <3>2, Zenon DEF InfoSet
    <3>5. info = i BY <3>3, <3>4, Zenon
    <3> QED BY <3>1, <3>5, Zenon
  <2>13. CASE found # 0
    <3>1. j < Len(s) /\ found \in Nat /\ found > 0 BY <2>2, <2>7, <2>13
    <3>2. FileSize(f) # i.latestFileSize
      <4>1. j \in 0 .. Len(s) /\ Len(s) \in 0 .. Len(s) BY <2>2
      <4>2. Ends(s)[j] < Ends(s)[Len(s)] /\ Ends(s)[j] \in Nat /\ Ends(s)[Len(s)] \in Nat
        BY <2>2, <3>1, <4>1, EndsGrow, Zenon
      <4>3. FileSize(f) = Ends(s)[Len(s)] \/ FileSize(f) = Ends(s)[Len(s)] + 1
        <5>1. CASE f.torn BY <5>1, Zenon DEF FileSize, Bytes
        <5>2. CASE ~f.torn
          <6>1. FileSize(f) = Ends(s)[Len(s)] + 0 BY <5>2, Zenon DEF FileSize, Bytes
          <6> QED BY <4>2, <6>1
        <5> QED BY <5>1, <5>2, Zenon
      <4> QED BY <2>3, <4>2, <4>3
    <3>3. ~(Len(files) < n) BY <1>2, <2>1
    <3> DEFINE last == IF i.noBlockFiles THEN found - 1 ELSE i.lastPersistedBlock + found
    <3>4. info = Info(i.latestFileNumber, Bytes(s), FALSE, last)
      BY <2>13, <3>2, <3>3, Zenon DEF syncBlockfilesInfoFromFS
    <3>5. last = Len(T) - 1 /\ last \in Nat /\ Len(T) # 0
      <4>1. i.lastPersistedBlock \in Nat BY <1>1, Zenon DEF InfoSet
      <4>2. CASE i.noBlockFiles BY <1>1, <2>8, <3>1, <4>2
      <4>3. CASE ~i.noBlockFiles BY <1>1, <2>8, <3>1, <4>1, <4>3
      <4> QED BY <4>2, <4>3, Zenon
    <3> HIDE DEF last, found
    <3>6. /\ info.latestFileNumber = i.latestFileNumber /\ info.latestFileSize = Bytes(s)
          /\ info.noBlockFiles = FALSE /\ info.lastPersistedBlock = last
      BY <3>4 DEF Info
    <3>7. info \in InfoSet BY <1>2, <2>10, <3>4, <3>5 DEF Info, InfoSet
    <3>8. Len(T) \in 0 .. Len(T) BY <1>2
    <3> HIDE DEF info
    <3>9. info.noBlockFiles = (Len(T) = 0) BY <3>5, <3>6, Zenon
    <3>10. Covers(files, info, Len(T)) BY <1>4, <2>1, <2>2, <2>9, <3>5, <3>6, <3>7, <3>8, <3>9, Zenon DEF Covers
    <3> QED BY <3>6, <3>10, Zenon DEF info
  <2> QED BY <2>12, <2>13, Zenon
<1> QED BY <1>3, <1>4, Zenon

\* Another blockfilesInfo.
LEMMA InfoIs ==
  ASSUME files \in Files, NEW d, IsSound(files, d), NEW i, NEW k \in Nat, Covers(files, i, k),
         \A n \in 1 .. Len(files) : files[n].torn => n <= i.latestFileNumber + 1
  PROVE  /\ IsSound(files, [d EXCEPT !.info = <<i>>])
         /\ [d EXCEPT !.info = <<i>>].savePoint = d.savePoint
         /\ [d EXCEPT !.info = <<i>>].info = <<i>>
         /\ [d EXCEPT !.info = <<i>>].index = d.index
<1> DEFINE e == [d EXCEPT !.info = <<i>>]
           y == d.index
           z == d.savePoint
           x == d.info
           s == <<i>>
<1>1. d = [info |-> x, index |-> y, savePoint |-> z] BY Zenon DEF IsSound
<1>2. s # <<>> /\ s[1] = i OBVIOUS
<1>3. e = [d EXCEPT !.info = s] OBVIOUS
<1> HIDE DEF x, y, z, s, e
<1>4. e = [info |-> s, index |-> y, savePoint |-> z] BY <1>1, <1>3, Zenon
<1>5. e.info = s /\ e.index = y /\ e.savePoint = z BY <1>4, Zenon
<1>6. DOMAIN files = 1 .. Len(files) BY FileIs, Zenon
<1>7. /\ z \in -1 .. Len(Stored(files)) - 1 /\ DOMAIN y = 0 .. z
      /\ \A j \in 0 .. z : IsPlace(files, y[j], j + 1)
  BY Zenon DEF IsSound, y, z
<1>8. IsSound(files, e)
  <2>1. e = [info |-> e.info, index |-> e.index, savePoint |-> e.savePoint] BY <1>4, <1>5, Zenon
  <2>2. e.info = <<e.info[1]>> /\ e.info[1] = i BY <1>2, <1>5, Zenon DEF s
  <2> QED BY <1>5, <1>6, <1>7, <2>1, <2>2, Zenon DEF IsSound
<1> QED BY <1>5, <1>8, Zenon DEF e, y, z, s
================================================================================
