---------------------------- MODULE BlocksItrProofs ----------------------------
(***************************************************************************)
(* What a reader gets, for any blocks, sizes of blocks, files and cache,   *)
(* and any number of crashes and failing writes.  The argument: no step of *)
(* addBlock changes what a reader can have seen of the files, the cache    *)
(* holds blocks of the chain, and readers are told of indexed blocks only. *)
(***************************************************************************)
EXTENDS BlockStoreProofs, BlocksItr

\* blockfilesInfo is saved whenever the code asks for it.  Otherwise a reader gets a block from the
\* cache that is not in the chain: see the README.
ReadScope == Scope /\ "saveInfo" \notin Failing

\* The process runs, and with it its readers.
Running == Serving \union {"panicked"}

\* A stream is behind the first k blocks, in a file that holds one.
StreamAt(fs, s, k) ==
  /\ s.file \in Nat /\ s.file + 1 \in 1 .. Len(fs) /\ fs[s.file + 1].blocks # <<>>
  /\ s.pos \in 0 .. Len(fs[s.file + 1].blocks)
  /\ k = Before(fs, s.file + 1) + s.pos

\* Nothing that a reader can have seen of the files is changed.
Grows(fs, gs) ==
  /\ Len(Stored(fs)) <= Len(Stored(gs))
  /\ \A k \in 1 .. Len(Stored(fs)) : Stored(gs)[k] = Stored(fs)[k]
  /\ \A s, k : StreamAt(fs, s, k) => StreamAt(gs, s, k)

\* The cache holds blocks of the chain under their numbers.
Mirrors(c, T) == \A n \in DOMAIN c.blocks : n \in Nat /\ n < Len(T) /\ c.blocks[n] = T[n + 1]

CacheInv ==
  /\ phase \in {"truncate", "syncIndex"} => DOMAIN mgr.cache.blocks = {}
  /\ phase \in Running => Mirrors(mgr.cache, Stored(files))

\* What readers are told of is indexed, also when the process is about to die.
Published ==
  /\ mgr.info \in InfoSet
  /\ ~mgr.info.noBlockFiles => mgr.info.lastPersistedBlock <= db.savePoint

PublishedInv == phase = "panicked" => Published

Streams == [file : Int, pos : Nat]
ItrSet == [start : Nat, next : Nat, max : Nat, stream : Streams, closed : BOOLEAN, empty : BOOLEAN]

\* What the reader has got is the part of the chain from where it started, and its stream, if it
\* has one, is behind that.  It goes on only to a block that it was told of, unless the store was
\* empty when it started.
ReaderInv ==
  /\ itr \in ItrSet /\ got \in Seq(Block)
  /\ call = "none" => got = <<>>
  /\ call # "none" =>
       /\ phase \in Running
       /\ itr.next = itr.start + Len(got) /\ itr.next <= Len(Stored(files))
       /\ \A k \in 1 .. Len(got) : got[k] = Stored(files)[itr.start + k]
       /\ itr.stream # NoStream => StreamAt(files, itr.stream, itr.next)
       /\ ~itr.empty => ~mgr.info.noBlockFiles /\ itr.max <= mgr.info.lastPersistedBlock
       /\ call = "reading" /\ ~itr.closed /\ ~itr.empty => itr.next <= itr.max
       /\ call = "error" => itr.empty

\* The inductive invariant of a store with a reader.
JInv == SInv /\ ReadScope /\ CacheInv /\ PublishedInv /\ ReaderInv

\* Files that agree as far as there are blocks hold what they held.
LEMMA GrowsIs ==
  ASSUME Induction, NEW fs \in Files, NEW gs \in Files, NEW n, NEW j, Agree(fs, gs, n, j),
         Len(Stored(fs)) = Before(fs, n) + j
  PROVE  Grows(fs, gs)
<1>1. /\ Len(Stored(fs)) <= Len(Stored(gs))
      /\ \A k \in 1 .. Len(Stored(fs)) : Stored(gs)[k] = Stored(fs)[k]
  <2>1. Before(fs, n) + j <= Len(Stored(gs)) /\ \A k \in 1 .. Before(fs, n) + j : Stored(gs)[k] = Stored(fs)[k]
    BY AgreeStored
  <2> QED BY <2>1, Zenon
<1>2. ASSUME NEW s, NEW k, StreamAt(fs, s, k) PROVE StreamAt(gs, s, k)
  <2> DEFINE m == s.file + 1
             i == Len(fs[m].blocks)
  <2>1. /\ s.file \in Nat /\ m \in 1 .. Len(fs) /\ fs[m].blocks # <<>>
        /\ s.pos \in 0 .. i /\ k = Before(fs, m) + s.pos
    BY <1>2, Zenon DEF StreamAt
  <2> HIDE DEF m
  <2>2. fs[m].blocks \in Seq(Block) /\ i \in Nat BY <2>1, FileIs, Zenon
  <2>3. i \in 1 .. i
    <3>1. i # 0 BY <2>1, <2>2
    <3> QED BY <2>2, <3>1
  <2> HIDE DEF i
  <2>4. Before(fs, m) + i \in 1 .. Len(Stored(fs)) BY <2>1, <2>3, StoredAt, Zenon DEF i
  <2>5. Before(fs, m) + i <= Before(fs, n) + j BY <2>4, BeforeStep
  <2>6. m \in 1 .. Len(gs) /\ i \in 1 .. Len(gs[m].blocks) /\ Before(gs, m) = Before(fs, m)
    <3>1. i \in 1 .. Len(fs[m].blocks) BY <2>3, Zenon DEF i
    <3> QED BY <2>1, <2>5, <3>1, AgreeAt, Zenon
  <2>7. Len(gs[m].blocks) \in Nat BY <2>6, FileIs, Zenon
  <2>8. s.pos \in 0 .. Len(gs[m].blocks) /\ Len(gs[m].blocks) # 0 BY <2>1, <2>2, <2>6, <2>7
  <2>9. gs[m].blocks # <<>> BY <2>8
  <2> QED BY <2>1, <2>6, <2>8, <2>9, Zenon DEF StreamAt, m
<1> QED BY <1>1, <1>2, Zenon DEF Grows

\* The steps that are taken while the process runs.
AddSteps ==
  \/ \E d \in Data : AddBlock(d)
  \/ RetryBlock \/ CreateNextFile \/ SaveNextFile
  \/ AppendBytes \/ SyncBytes \/ SaveInfo \/ IndexBlock \/ Publish \/ FinishAdd
  \/ FailAdd \/ CallerPanics

\* These are the steps of addBlock, and none of them ends the process.
LEMMA RunningSteps ==
  ASSUME phase \in Running, Next, phase' # "closed"
  PROVE  AddSteps /\ phase' \in Running
<1>1. ~Open /\ ~Crash
  BY Zenon DEF Open, OpenInfo, OpenTruncate, SyncIndex, OpenBlockchainInfo, Crash, Running, Serving
<1>2. AddSteps BY <1>1, Zenon DEF Next, AddSteps
<1>3. CASE \E d \in Data : AddBlock(d) BY <1>2, <1>3, Zenon DEF AddBlock, StartAdd, Running, Serving
<1>4. CASE RetryBlock BY <1>2, <1>4, Zenon DEF RetryBlock, StartAdd, Running, Serving
<1>5. CASE FinishAdd BY <1>2, <1>5, Zenon DEF FinishAdd, Running, Serving
<1>6. CASE FailAdd BY <1>2, <1>6, Zenon DEF FailAdd, Running, Serving
<1>7. CASE CreateNextFile \/ SaveNextFile \/ AppendBytes \/ SyncBytes \/ SaveInfo \/ IndexBlock \/ Publish \/ CallerPanics
  BY <1>2, <1>7, Zenon
     DEF CreateNextFile, SaveNextFile, AppendBytes, SyncBytes, SaveInfo, IndexBlock, Publish, CallerPanics, Running, Serving
<1> QED BY <1>2, <1>3, <1>4, <1>5, <1>6, <1>7, Zenon DEF AddSteps

\* None of them takes a block from the files that a reader can have seen.
LEMMA RunningGrows ==
  ASSUME Induction, SInv, ReadScope, phase \in Running, AddSteps
  PROVE  Grows(files, files')
<1> DEFINE j == Len(files[Latest].blocks)
<1>0. IInv /\ files \in Files /\ Len(files) \in Nat BY Facts, Zenon DEF SInv
<1>1. CASE files' = files
  <2>1. Len(Stored(files)) <= Len(Stored(files)) BY <1>0, Facts
  <2> QED BY <1>1, <2>1, Zenon DEF Grows
<1>2. ASSUME phase \in Serving
      PROVE  /\ Latest \in 1 .. Len(files) /\ IsOpen(files, Latest) /\ Len(Stored(files)) = Before(files, Latest) + j
             /\ j \in Nat /\ j \in 0 .. j /\ j <= j /\ Latest <= Len(files) /\ Latest \in Nat
             /\ Latest = mgr.info.latestFileNumber + 1 /\ mgr.info.latestFileNumber \in Nat
             /\ Before(files, Latest) \in Nat /\ mgr.height \in Nat
  <2>1. /\ Latest \in 1 .. Len(files) /\ IsOpen(files, Latest) /\ Len(Stored(files)) = Before(files, Latest) + j
        /\ j \in Nat /\ Latest = mgr.info.latestFileNumber + 1 /\ mgr.info.latestFileNumber \in Nat
        /\ Before(files, Latest) \in Nat /\ mgr.height \in Nat
    BY <1>0, <1>2, ServingIs, Zenon
  <2> HIDE DEF j
  <2>2. j \in 0 .. j /\ j <= j /\ Latest <= Len(files) /\ Latest \in Nat BY <1>0, <2>1
  <2> QED BY <2>1, <2>2, Zenon
<1>3. ASSUME phase \in Serving, files' \in Files, Len(files) <= Len(files'),
             \A m \in 1 .. Len(files) : files'[m].blocks = files[m].blocks
      PROVE  Grows(files, files')
  <2> HIDE DEF j
  <2>1. Len(files') \in Nat /\ Latest <= Len(files') BY <1>0, <1>2, <1>3, FileIs
  <2>2. \A m \in 1 .. Latest - 1 : m \in 1 .. Len(files) BY <1>0, <1>2, <1>3
  <2>3. \A m \in 1 .. Latest - 1 : files'[m].blocks = files[m].blocks BY <1>3, <2>2, Zenon
  <2>4. files'[Latest].blocks = files[Latest].blocks /\ j <= Len(files'[Latest].blocks)
    BY <1>2, <1>3, Zenon DEF j
  <2>5. Agree(files, files', Latest, j) BY <1>2, <1>3, <2>1, <2>3, <2>4, Zenon DEF Agree, j
  <2> QED BY <1>0, <1>2, <1>3, <2>5, GrowsIs, Zenon
<1>4. CASE CreateNextFile
  <2>1. phase \in Serving /\ files' = OpenFile(files, mgr.info.latestFileNumber + 1)
    BY <1>4, Zenon DEF CreateNextFile, Serving
  <2>2. CASE files' # files
    <3>1. files' = Append(files, EmptyFile) BY <2>1, <2>2, Zenon DEF OpenFile
    <3>2. files' \in Files /\ Len(files') = Len(files) + 1 /\ \A m \in 1 .. Len(files) : files'[m] = files[m]
      BY <1>0, <3>1, ExtendIs, Zenon
    <3>3. Len(files) <= Len(files') BY <1>0, <3>2
    <3> QED BY <1>3, <2>1, <3>2, <3>3, Zenon
  <2> QED BY <1>1, <2>2, Zenon
<1>5. CASE AppendBytes
  <2>1. phase \in Serving /\ files' = [files EXCEPT ![Latest].torn = TRUE]
    BY <1>5, Zenon DEF AppendBytes, Latest, Serving
  <2>2. files[Latest] \in FileSet /\ DOMAIN files = 1 .. Len(files) BY <1>0, <1>2, <2>1, FileIs, Zenon
  <2> DEFINE f == [files[Latest] EXCEPT !.torn = TRUE]
  <2>3. f \in FileSet /\ f.blocks = files[Latest].blocks BY <2>2, Zenon DEF FileSet
  <2>4. files' = [files EXCEPT ![Latest] = f] BY <2>1, Zenon
  <2> HIDE DEF f
  <2>5. files' \in Files /\ Len(files') = Len(files)
    <3>1. Latest \in 1 .. Len(files) BY <1>2, <2>1, Zenon
    <3> QED BY <1>0, <2>3, <2>4, <3>1 DEF Files
  <2>6. \A m \in 1 .. Len(files) : files'[m].blocks = files[m].blocks BY <2>2, <2>3, <2>4, Zenon
  <2>7. Len(files) <= Len(files') BY <1>0, <2>5
  <2> QED BY <1>3, <2>1, <2>5, <2>6, <2>7, Zenon
<1>6. CASE SyncBytes
  <2>1. phase \in Serving \ {"idle"} /\ phase \in Serving /\ Appends(files, files', Latest, blk[1])
    BY <1>6, Zenon DEF SyncBytes, Latest, Appends, Serving
  <2>2. blk[1] \in Block BY <1>0, <2>1, BlkIs, Zenon
  <2>3. HasAppended(files, files', Latest, blk[1], j) BY <1>0, <1>2, <2>1, <2>2, AppendHas, Zenon
  <2>4. files' \in Files /\ Agree(files, files', Latest, j) BY <2>3, Zenon DEF HasAppended
  <2> HIDE DEF j
  <2> QED BY <1>0, <1>2, <2>1, <2>4, GrowsIs, Zenon
<1>7. CASE FailAdd /\ phase # "index"
  <2>1. /\ phase \in Failing
        /\ files' = TruncateFile(files, mgr.info.latestFileNumber, mgr.info.latestFileSize)
    BY <1>7, Zenon DEF FailAdd
  <2>2. phase \in {"append", "sync"} BY <1>7, <2>1, StoreAssumption, Zenon DEF ReadScope
  <2>3. phase \in Serving /\ phase # "bcInfo" /\ Len(Stored(files)) = mgr.height
    BY <1>0, <2>2, Zenon DEF IInv, AddInv, Unwritten, Serving
  <2>4. EndsAt(files, Latest, mgr.info.latestFileSize, mgr.height) BY <1>0, <2>3, ServingIs, Zenon
  <2>5. PICK i \in 0 .. j : mgr.height = Before(files, Latest) + i /\ mgr.info.latestFileSize = Ends(files[Latest].blocks)[i]
    BY <2>4, Zenon DEF EndsAt
  <2>6. Cuts(files, files', Latest, i) BY <1>0, <1>2, <2>1, <2>3, <2>5, TruncateIs, Zenon
  <2>7. files' \in Files /\ Agree(files, files', Latest, i) BY <1>0, <1>2, <2>3, <2>5, <2>6, CutIs, Zenon
  <2> HIDE DEF j
  <2> QED BY <1>0, <2>3, <2>5, <2>7, GrowsIs, Zenon
<1>8. CASE \/ \E d \in Data : AddBlock(d)
           \/ RetryBlock \/ SaveNextFile \/ SaveInfo \/ IndexBlock \/ Publish \/ FinishAdd
           \/ (FailAdd /\ phase = "index") \/ CallerPanics
  <2>1. files' = files
    BY <1>8, Zenon DEF AddBlock, StartAdd, RetryBlock, SaveNextFile, SaveInfo, IndexBlock, Publish, FinishAdd, FailAdd,
                       CallerPanics
  <2> QED BY <1>1, <2>1, Zenon
<1> QED BY <1>4, <1>5, <1>6, <1>7, <1>8, Zenon DEF AddSteps

\* What is put into the cache is the block that was written.
LEMMA PutMirrors ==
  ASSUME NEW c, NEW b, NEW T, Mirrors(c, T), b.number \in Nat, b.number < Len(T), T[b.number + 1] = b
  PROVE  Mirrors(CachePuts(c, b), T)
<1> DEFINE e == CachePuts(c, b)
           all == Put(c.blocks, b.number, b)
           low == CHOOSE n \in 0 .. b.number + 1 :
                    /\ SizeWithout(c, b, n) <= CacheBytes
                    /\ n > 0 => SizeWithout(c, b, n - 1) > CacheBytes
           some == [n \in {k \in DOMAIN all : k >= low} |-> all[n]]
           size == SizeWithout(c, b, low)
<1>1. e = c \/ e = [blocks |-> some, maxSeq |-> b.number, sizeBytes |-> size] BY Zenon DEF CachePuts
<1>2. \A n \in DOMAIN some : n \in DOMAIN all /\ some[n] = all[n]
  <2> HIDE DEF low, all
  <2> QED BY Zenon
<1>3. \A n \in DOMAIN all : (n = b.number /\ all[n] = b) \/ (n \in DOMAIN c.blocks /\ all[n] = c.blocks[n])
  BY Zenon DEF Put
<1> HIDE DEF e, all, some, size
<1>4. CASE e = c BY <1>4, Zenon DEF e
<1>5. CASE e = [blocks |-> some, maxSeq |-> b.number, sizeBytes |-> size]
  <2>1. e.blocks = some BY <1>5, Zenon
  <2> SUFFICES ASSUME NEW n \in DOMAIN some PROVE n \in Nat /\ n < Len(T) /\ some[n] = T[n + 1]
    BY <2>1, Zenon DEF Mirrors, e
  <2>2. some[n] = all[n] /\ n \in DOMAIN all BY <1>2, Zenon
  <2> QED BY <1>3, <2>2, Zenon DEF Mirrors
<1> QED BY <1>1, <1>4, <1>5, Zenon

\* A chain that grows keeps the blocks that are in the cache.
LEMMA MirrorsGrow ==
  ASSUME Induction, NEW fs \in Files, NEW gs \in Files, Grows(fs, gs), NEW c, Mirrors(c, Stored(fs))
  PROVE  Mirrors(c, Stored(gs))
<1> SUFFICES ASSUME NEW n \in DOMAIN c.blocks
             PROVE  n \in Nat /\ n < Len(Stored(gs)) /\ c.blocks[n] = Stored(gs)[n + 1]
  BY Zenon DEF Mirrors
<1>1. n \in Nat /\ n < Len(Stored(fs)) /\ c.blocks[n] = Stored(fs)[n + 1] BY Zenon DEF Mirrors
<1>2. Len(Stored(fs)) \in Nat /\ Len(Stored(gs)) \in Nat BY BeforeStep, SeqIs, Zenon
<1>3. Len(Stored(fs)) <= Len(Stored(gs)) BY Zenon DEF Grows
<1>4. n < Len(Stored(gs)) /\ n + 1 \in 1 .. Len(Stored(fs)) BY <1>1, <1>2, <1>3
<1> QED BY <1>1, <1>4, Zenon DEF Grows

\* While the store serves, a block is told of when it is indexed.
LEMMA PublishedIs ==
  ASSUME Induction, IInv, PublishedInv, phase \in Running
  PROVE  Published /\ (phase \in Serving /\ ~mgr.info.noBlockFiles => mgr.info.lastPersistedBlock <= mgr.height)
<1>1. CASE phase \in Serving
  <2> DEFINE k == IF phase = "bcInfo" THEN mgr.height + 1 ELSE mgr.height
  <2>1. /\ mgr.info \in InfoSet /\ k = IF mgr.info.noBlockFiles THEN 0 ELSE mgr.info.lastPersistedBlock + 1
    <3>1. files \in Files /\ Covers(files, mgr.info, k) BY <1>1, Facts, Zenon DEF IInv, ServingInv
    <3> HIDE DEF k
    <3> QED BY <3>1, CoversIs, Zenon
  <2>2. db.savePoint = IF phase \in {"publish", "bcInfo"} THEN mgr.height ELSE mgr.height - 1 BY <1>1, Zenon DEF IInv, ServingInv
  <2>3. mgr.info.lastPersistedBlock \in Nat /\ mgr.height \in Nat BY <1>1, <2>1, ServingIs, Zenon DEF InfoSet
  <2>4. ASSUME ~mgr.info.noBlockFiles
        PROVE  mgr.info.lastPersistedBlock <= db.savePoint /\ mgr.info.lastPersistedBlock <= mgr.height
    <3>1. CASE phase = "bcInfo" BY <2>1, <2>2, <2>3, <2>4, <3>1
    <3>2. CASE phase # "bcInfo" BY <2>1, <2>2, <2>3, <2>4, <3>2
    <3> QED BY <3>1, <3>2, Zenon
  <2> QED BY <2>1, <2>4, Zenon DEF Published
<1>2. CASE phase = "panicked" BY <1>2, Zenon DEF PublishedInv, Serving
<1> QED BY <1>1, <1>2, Zenon DEF Running

\* What a step of addBlock does to the manager.
LEMMA RunningMgr ==
  ASSUME Induction, SInv, ReadScope, PublishedInv, phase \in Running, AddSteps
  PROVE  /\ mgr'.cache = mgr.cache \/ (phase \in Written /\ mgr'.cache = CachePuts(mgr.cache, blk[1]))
         /\ ~mgr.info.noBlockFiles =>
              /\ ~mgr'.info.noBlockFiles /\ mgr'.info.lastPersistedBlock \in Nat
              /\ mgr.info.lastPersistedBlock <= mgr'.info.lastPersistedBlock
         /\ phase' = "panicked" => mgr'.info = mgr.info /\ db' = db
<1> DEFINE a == mgr.info
           h == mgr.height
           x == mgr.hash
           e == mgr.cache
           c == CachePuts(mgr.cache, blk[1])
<1>1. IInv /\ Published /\ MgrInv /\ mgr = [info |-> a, height |-> h, hash |-> x, cache |-> e]
  BY PublishedIs, Zenon DEF SInv, IInv, MgrInv
<1>2. a.lastPersistedBlock \in Nat /\ a.lastPersistedBlock <= a.lastPersistedBlock
  <2>1. a.lastPersistedBlock \in Nat BY <1>1, Zenon DEF Published, InfoSet
  <2> QED BY <2>1
<1>3. CASE mgr' = mgr /\ phase' # "panicked" BY <1>2, <1>3, Zenon
<1>4. CASE SaveNextFile
  <2> DEFINE i == Info(a.latestFileNumber + 1, 0, FALSE, a.lastPersistedBlock)
  <2>1. mgr' = [mgr EXCEPT !.info = i] /\ phase' = "append" BY <1>4, Zenon DEF SaveNextFile
  <2>2. ~i.noBlockFiles /\ i.lastPersistedBlock = a.lastPersistedBlock BY Zenon DEF Info
  <2> HIDE DEF i
  <2>3. mgr' = [info |-> i, height |-> h, hash |-> x, cache |-> e] BY <1>1, <2>1, MgrIs, Zenon
  <2>4. mgr'.info = i /\ mgr'.cache = e BY <2>3, Zenon
  <2> QED BY <1>2, <2>1, <2>2, <2>4, Zenon
<1>5. CASE Publish
  <2>1. mgr' = [mgr EXCEPT !.info = NewInfo] /\ phase' = "bcInfo" /\ phase = "publish" BY <1>5, Zenon DEF Publish
  <2>2. ~NewInfo.noBlockFiles /\ NewInfo.lastPersistedBlock = blk[1].number BY Zenon DEF NewInfo, Info
  <2>3. phase \in Serving /\ phase \in Serving \ {"idle"} BY <2>1, Zenon DEF Serving
  <2>4. blk[1].number = mgr.height /\ mgr.height \in Nat BY <1>1, <2>3, BlkIs, ServingIs, Zenon
  <2>5. ~a.noBlockFiles => a.lastPersistedBlock <= mgr.height BY <1>1, <2>3, PublishedIs, Zenon
  <2>6. mgr' = [info |-> NewInfo, height |-> h, hash |-> x, cache |-> e] BY <1>1, <2>1, MgrIs, Zenon
  <2>7. mgr'.info = NewInfo /\ mgr'.cache = e BY <2>6, Zenon
  <2> QED BY <2>1, <2>2, <2>4, <2>5, <2>7, Zenon
<1>6. CASE FinishAdd
  <2> DEFINE y == Hash(blk[1])
  <2>1. phase \in Written /\ mgr' = [mgr EXCEPT !.height = @ + 1, !.hash = y, !.cache = c] /\ db' = db
    BY <1>6, Zenon DEF FinishAdd, Written
  <2> HIDE DEF a, h, x, e, c, y
  <2>2. mgr' = [info |-> a, height |-> h + 1, hash |-> y, cache |-> c] BY <1>1, <2>1
  <2>3. mgr'.info = a /\ mgr'.cache = c BY <2>2, Zenon
  <2> QED BY <1>2, <2>1, <2>3, Zenon DEF a, c
<1>7. CASE FailAdd
  <2>1. /\ phase \in Failing /\ db' = db
        /\ mgr' = IF phase \in {"saveInfo", "index"} THEN [mgr EXCEPT !.cache = c] ELSE mgr
    BY <1>7, Zenon DEF FailAdd
  <2>2. CASE phase \in {"saveInfo", "index"}
    <3>1. phase \in Written BY <2>2, Zenon DEF Written
    <3>2. mgr' = [mgr EXCEPT !.cache = c] BY <2>1, <2>2, Zenon
    <3> HIDE DEF c
    <3>3. mgr' = [info |-> a, height |-> h, hash |-> x, cache |-> c] BY <1>1, <3>2, MgrIs, Zenon
    <3>4. mgr'.info = a /\ mgr'.cache = c BY <3>3, Zenon
    <3> QED BY <1>2, <2>1, <3>1, <3>4, Zenon DEF c
  <2>3. CASE phase \notin {"saveInfo", "index"}
    <3>1. mgr' = mgr BY <2>1, <2>3, Zenon
    <3> QED BY <1>2, <2>1, <3>1, Zenon
  <2> QED BY <2>2, <2>3, Zenon
<1>8. CASE CallerPanics
  <2>1. mgr' = mgr /\ db' = db BY <1>8, Zenon DEF CallerPanics
  <2> QED BY <1>2, <2>1, Zenon
<1>9. CASE \/ \E d \in Data : AddBlock(d)
           \/ RetryBlock \/ CreateNextFile \/ AppendBytes \/ SyncBytes \/ SaveInfo \/ IndexBlock
  <2>1. mgr' = mgr /\ phase' # "panicked"
    BY <1>9, Zenon DEF AddBlock, StartAdd, RetryBlock, CreateNextFile, AppendBytes, SyncBytes, SaveInfo, IndexBlock
  <2> QED BY <1>3, <2>1, Zenon
<1> QED BY <1>4, <1>5, <1>6, <1>7, <1>8, <1>9, Zenon DEF AddSteps

\* Every step of the writer keeps what is said of the cache and of what readers are told.
LEMMA WriterRuns ==
  ASSUME Induction, SInv, ReadScope, CacheInv, PublishedInv, Next, files' \in Files
  PROVE  CacheInv' /\ PublishedInv'
<1>1. CASE phase' = "closed" BY <1>1, Zenon DEF CacheInv, PublishedInv, Running, Serving
<1>2. CASE phase \in Running /\ phase' # "closed"
  <2>1. AddSteps /\ phase' \in Running BY <1>2, RunningSteps, Zenon
  <2>2. Grows(files, files') BY <1>2, <2>1, RunningGrows, Zenon
  <2>3. IInv /\ files \in Files /\ Published BY <1>2, Facts, PublishedIs, Zenon DEF SInv
  <2>4. Mirrors(mgr.cache, Stored(files')) BY <1>2, <2>2, <2>3, MirrorsGrow, Zenon DEF CacheInv
  <2>5. /\ mgr'.cache = mgr.cache \/ (phase \in Written /\ mgr'.cache = CachePuts(mgr.cache, blk[1]))
        /\ phase' = "panicked" => mgr'.info = mgr.info /\ db' = db
    BY <1>2, <2>1, RunningMgr, Zenon
  <2>6. ASSUME phase \in Written
        PROVE  /\ blk[1].number \in Nat /\ blk[1].number < Len(Stored(files'))
               /\ Stored(files')[blk[1].number + 1] = blk[1]
    <3>1. phase \in Serving \ {"idle"} /\ phase \in Serving BY <2>6, Zenon DEF Written, Serving
    <3>2. blk[1].number = mgr.height /\ mgr.height \in Nat BY <2>3, <3>1, BlkIs, ServingIs, Zenon
    <3>3. Len(Stored(files)) = mgr.height + 1 /\ Stored(files)[mgr.height + 1] = blk[1]
      BY <2>3, <2>6, Zenon DEF IInv, AddInv
    <3>4. Len(Stored(files)) <= Len(Stored(files')) /\ Len(Stored(files')) \in Nat
      BY <2>2, BeforeStep, SeqIs, Zenon DEF Grows
    <3>5. mgr.height + 1 \in 1 .. Len(Stored(files)) /\ mgr.height < Len(Stored(files')) BY <3>2, <3>3, <3>4
    <3>6. Stored(files')[mgr.height + 1] = Stored(files)[mgr.height + 1] BY <2>2, <3>5, Zenon DEF Grows
    <3> QED BY <3>2, <3>3, <3>5, <3>6, Zenon
  <2>7. Mirrors(mgr'.cache, Stored(files'))
    <3>1. CASE mgr'.cache = mgr.cache BY <2>4, <3>1, Zenon
    <3>2. CASE phase \in Written /\ mgr'.cache = CachePuts(mgr.cache, blk[1])
      <4>1. Mirrors(CachePuts(mgr.cache, blk[1]), Stored(files')) BY <2>4, <2>6, <3>2, PutMirrors, Zenon
      <4> QED BY <3>2, <4>1, Zenon
    <3> QED BY <2>5, <3>1, <3>2, Zenon
  <2>8. CacheInv' BY <2>1, <2>7, Zenon DEF CacheInv, Running, Serving
  <2>9. PublishedInv' BY <2>3, <2>5, Zenon DEF PublishedInv, Published
  <2> QED BY <2>8, <2>9, Zenon
<1>3. CASE phase \notin Running /\ phase' # "closed"
  <2>1. phase \notin Failing BY <1>3, StoreAssumption, Zenon DEF Running, Serving
  <2>2. Open
    BY <1>3, <2>1, Zenon
       DEF Next, AddBlock, RetryBlock, CreateNextFile, SaveNextFile, AppendBytes, SyncBytes, SaveInfo,
           IndexBlock, Publish, FinishAdd, FailAdd, CallerPanics, Crash, Running, Serving
  <2>3. phase' # "panicked" BY <2>2, Zenon DEF Open, OpenInfo, OpenTruncate, SyncIndex, OpenBlockchainInfo
  <2>4. DOMAIN mgr'.cache.blocks = {}
    <3>1. CASE OpenInfo
      <4>1. mgr'.cache = EmptyCache BY <3>1, Zenon DEF OpenInfo
      <4>2. DOMAIN EmptyCache.blocks = {} BY DEF EmptyCache
      <4> QED BY <4>1, <4>2, Zenon
    <3>2. CASE OpenTruncate \/ SyncIndex BY <3>2, Zenon DEF OpenTruncate, SyncIndex, CacheInv
    <3>3. CASE OpenBlockchainInfo
      <4>1. DOMAIN mgr.cache.blocks = {} BY <3>3, Zenon DEF OpenBlockchainInfo, CacheInv
      <4> DEFINE y == mgr.info.lastPersistedBlock + 1
                 z == Hash(BlockAt(db.index[mgr.info.lastPersistedBlock])[1])
                 a == mgr.info
                 h == mgr.height
                 x == mgr.hash
                 e == mgr.cache
      <4>2. mgr' = mgr \/ mgr' = [mgr EXCEPT !.height = y, !.hash = z] BY <3>3, Zenon DEF OpenBlockchainInfo
      <4>3. mgr = [info |-> a, height |-> h, hash |-> x, cache |-> e] BY Zenon DEF SInv, IInv, MgrInv
      <4> HIDE DEF y, z, a, h, x, e
      <4>4. CASE mgr' = [mgr EXCEPT !.height = y, !.hash = z]
        <5>1. mgr' = [info |-> a, height |-> y, hash |-> z, cache |-> e] BY <4>3, <4>4, Zenon
        <5> QED BY <4>1, <5>1, Zenon DEF e
      <4>5. CASE mgr' = mgr BY <4>1, <4>5, Zenon
      <4> QED BY <4>2, <4>4, <4>5, Zenon
    <3> QED BY <2>2, <3>1, <3>2, <3>3, Zenon DEF Open
  <2>5. CacheInv' BY <2>4, Zenon DEF CacheInv, Mirrors
  <2> QED BY <2>3, <2>5, Zenon DEF PublishedInv
<1> QED BY <1>1, <1>2, <1>3, Zenon

-----------------------------------------------------------------------------
(* The stream over the files *)

\* The next block of a stream that is behind k blocks is the one after them ...
LEMMA StreamIs ==
  ASSUME Induction, files \in Files, NEW s \in Streams, NEW k, StreamAt(files, s, k), StreamBlock(s) # <<>>
  PROVE  /\ k \in Nat /\ k + 1 <= Len(Stored(files)) /\ StreamBlock(s)[1] = Stored(files)[k + 1]
         /\ StreamAfter(s) \in Streams /\ StreamAt(files, StreamAfter(s), k + 1)
<1>m. PICK m : m = s.file + 1 OBVIOUS
<1>n. PICK n : n = s.file + 2 OBVIOUS
<1>f. PICK f : f = s.file OBVIOUS
<1>p. PICK p : p = s.pos OBVIOUS
<1>q. PICK q : q = p + 1 OBVIOUS
<1>L. PICK L : L = Len(files[m].blocks) OBVIOUS
<1>N. PICK N : N = Len(Stored(files)) OBVIOUS
<1>t. PICK t : t = StreamAfter(s) OBVIOUS
<1>1. f \in Nat /\ m \in 1 .. Len(files) /\ files[m].blocks # <<>> /\ p \in 0 .. L /\ k = Before(files, m) + p
  BY <1>m, <1>f, <1>p, <1>L, Zenon DEF StreamAt
<1>2. Len(files) \in Nat /\ L \in Nat /\ N \in Nat BY <1>1, <1>L, <1>N, FileIs, BeforeStep, SeqIs, Zenon
<1>3. Before(files, m) \in Nat
  <2>1. m \in 1 .. Len(files) + 1 BY <1>1, <1>2
  <2> QED BY <2>1, BeforeStep, Zenon
<1>4. CASE p < L
  <2>1. StreamBlock(s) = <<files[m].blocks[q]>> /\ t = [s EXCEPT !.pos = q]
    BY <1>m, <1>p, <1>q, <1>L, <1>t, <1>4, Zenon DEF StreamBlock, StreamAfter
  <2>2. s = [file |-> f, pos |-> p] BY <1>f, <1>p, Zenon DEF Streams
  <2>3. t = [file |-> f, pos |-> q] BY <2>1, <2>2, Zenon
  <2>4. t.file = f /\ t.pos = q BY <2>3, Zenon
  <2>5. f \in Int /\ q \in Nat /\ q \in 1 .. L /\ q \in 0 .. L BY <1>q, <1>1, <1>2, <1>4
  <2>6. t \in Streams BY <2>3, <2>5, Zenon DEF Streams
  <2>7. Before(files, m) + q \in 1 .. N /\ Stored(files)[Before(files, m) + q] = files[m].blocks[q]
    <3>1. q \in 1 .. Len(files[m].blocks) BY <1>L, <2>5, Zenon
    <3> QED BY <1>1, <1>N, <3>1, StoredAt, Zenon
  <2>8. k \in Nat /\ k + 1 = Before(files, m) + q /\ k + 1 <= N BY <1>1, <1>2, <1>3, <1>q, <2>7
  <2>9. StreamAt(files, t, k + 1)
    <3>1. t.file + 1 = m BY <1>f, <1>m, <2>4, Zenon
    <3> QED BY <1>L, <1>1, <2>4, <2>5, <2>8, <3>1, Zenon DEF StreamAt
  <2>10. StreamBlock(s)[1] = files[m].blocks[q] BY <2>1
  <2> QED BY <1>N, <1>t, <2>6, <2>7, <2>8, <2>9, <2>10, Zenon
<1>5. CASE ~(p < L)
  <2>1. /\ m < Len(files) /\ files[n].blocks # <<>>
        /\ StreamBlock(s) = <<files[n].blocks[1]>> /\ t = [file |-> m, pos |-> 1]
    BY <1>m, <1>n, <1>p, <1>L, <1>t, <1>5, Zenon DEF StreamBlock, StreamAfter
  <2>2. n \in 1 .. Len(files) /\ n = m + 1 /\ p = L /\ m \in Nat
    <3>1. f \in Nat /\ m = f + 1 /\ n = f + 2 /\ m < Len(files) BY <1>m, <1>n, <1>f, <1>1, <2>1, Zenon
    <3> QED BY <1>1, <1>2, <1>5, <3>1
  <2>3. t.file = m /\ t.pos = 1 BY <2>1, Zenon
  <2>4. t \in Streams
    <3>1. m \in Int /\ 1 \in Nat BY <2>2
    <3> QED BY <2>1, <3>1, Zenon DEF Streams
  <2>5. Before(files, n) = k
    <3>1. Before(files, m + 1) = Before(files, m) + Len(files[m].blocks) BY <1>1, BeforeStep, Zenon
    <3> QED BY <1>1, <1>L, <2>2, <3>1, Zenon
  <2>6. files[n].blocks \in Seq(Block) /\ Len(files[n].blocks) \in Nat BY <2>2, FileIs, Zenon
  <2>7. 1 \in 1 .. Len(files[n].blocks) /\ 1 \in 0 .. Len(files[n].blocks)
    <3>1. Len(files[n].blocks) # 0 BY <2>1, <2>6
    <3> QED BY <2>6, <3>1
  <2>8. Before(files, n) + 1 \in 1 .. N /\ Stored(files)[Before(files, n) + 1] = files[n].blocks[1]
    BY <1>N, <2>2, <2>7, StoredAt, Zenon
  <2>9. k \in Nat /\ k + 1 <= N BY <1>1, <1>2, <1>3, <2>2, <2>5, <2>8
  <2>10. StreamAt(files, t, k + 1)
    <3>1. t.file + 1 = n BY <2>2, <2>3, Zenon
    <3> QED BY <2>1, <2>2, <2>3, <2>5, <2>7, <3>1, Zenon DEF StreamAt
  <2>11. StreamBlock(s)[1] = files[n].blocks[1] BY <2>1
  <2> QED BY <1>N, <1>t, <2>4, <2>5, <2>8, <2>9, <2>10, <2>11, Zenon
<1> QED BY <1>4, <1>5, Zenon

\* ... and there is one, if there are more than k blocks.
LEMMA StreamHas ==
  ASSUME Induction, IInv, TornInv, NEW s \in Streams, NEW k, StreamAt(files, s, k), k < Len(Stored(files))
  PROVE  StreamBlock(s) # <<>>
<1> DEFINE m == s.file + 1
           n == s.file + 2
           p == s.pos
           L == Len(files[m].blocks)
           N == Len(Stored(files))
<1>1. s.file \in Nat /\ m \in 1 .. Len(files) /\ p \in 0 .. L /\ k = Before(files, m) + p BY Zenon DEF StreamAt
<1>2. files \in Files /\ Len(files) \in Nat /\ DOMAIN files = 1 .. Len(files) /\ N \in Nat BY Facts, Zenon
<1>3. L \in Nat BY <1>1, <1>2, FileIs, Zenon
<1>4. CASE p < L BY <1>4, Zenon DEF StreamBlock
<1>5. CASE ~(p < L)
  <2>1. p = L BY <1>1, <1>3, <1>5
  <2>2. N # Before(files, m) + L BY <1>1, <1>2, <2>1
  <2>3. ~IsOpen(files, m)
    <3> HIDE DEF m
    <3> QED BY <1>1, <1>2, <2>2, OpenIs, Zenon
  <2>4. ~files[m].torn
    <3> SUFFICES ASSUME files[m].torn PROVE FALSE OBVIOUS
    <3>1. db.info # <<>> /\ db.info[1].latestFileNumber + 1 = m BY <1>1, <1>2, Zenon DEF TornInv
    <3>2. PICK i \in Nat : Covers(files, db.info[1], i) BY <3>1, Zenon DEF IInv, DbInv, IsSound
    <3>3. files # <<>> BY <1>1, <1>2
    <3>4. IsOpen(files, db.info[1].latestFileNumber + 1) BY <1>2, <3>2, <3>3, CoversIs, Zenon
    <3> QED BY <2>3, <3>1, <3>4, Zenon
  <2>5. m < Len(files)
    <3>1. m # Len(files) BY <2>3, Zenon DEF IsOpen
    <3> QED BY <1>1, <1>2, <3>1
  <2>6. n \in 1 .. Len(files) /\ m = n - 1 BY <1>1, <1>2, <2>5
  <2>7. files[n].blocks # <<>>
    <3>1. CASE n < Len(files) BY <1>2, <2>6, <3>1, Zenon DEF IInv, FilesInv
    <3>2. CASE ~(n < Len(files))
      <4>1. n = Len(files) BY <1>2, <2>6, <3>2
      <4> QED BY <2>3, <2>6, <4>1, Zenon DEF IsOpen
    <3> QED BY <3>1, <3>2, Zenon
  <2> QED BY <1>5, <2>4, <2>5, <2>7, Zenon DEF StreamBlock
<1> QED BY <1>4, <1>5, Zenon

\* A stream that is opened at a block's entry in the index is before that block.
LEMMA InitStreamIs ==
  ASSUME Induction, IInv, itr.next \in DOMAIN db.index
  PROVE  initStream \in Streams /\ StreamAt(files, initStream, itr.next)
<1> DEFINE loc == db.index[itr.next]
           k == itr.next
<1>m. PICK m : m = loc.file + 1 OBVIOUS
<1>1. files \in Files /\ IsPlace(files, loc, k + 1) /\ k \in 0 .. db.savePoint /\ DOMAIN files = 1 .. Len(files)
      /\ db.savePoint \in Int
  <2>1. IsSound(files, db) /\ files \in Files BY Facts, Zenon DEF IInv, DbInv
  <2>2. db.savePoint \in -1 .. Len(Stored(files)) - 1 /\ DOMAIN db.index = 0 .. db.savePoint BY <2>1, Zenon DEF IsSound
  <2>3. db.savePoint \in Int BY <2>2, Facts
  <2> QED BY <2>1, <2>2, <2>3, FileIs, Zenon DEF IsSound
<1>2. PICK i \in DOMAIN files[m].blocks : k + 1 = Before(files, m) + i /\ loc.offset = Ends(files[m].blocks)[i - 1]
  BY <1>m, <1>1, Zenon DEF IsPlace
<1>3. loc.file \in Nat /\ m \in 1 .. Len(files) BY <1>m, <1>1, Zenon DEF IsPlace
<1>4. /\ files[m].blocks \in Seq(Block) /\ Len(files[m].blocks) \in Nat
      /\ DOMAIN files[m].blocks = 1 .. Len(files[m].blocks)
  BY <1>1, <1>3, FileIs, Zenon
<1>5. i - 1 \in 0 .. Len(files[m].blocks) /\ i \in 1 .. Len(files[m].blocks) /\ i - 1 \in Nat BY <1>2, <1>4
<1>6. BlocksUpTo(files[m], loc.offset) = i - 1
  <2>1. BlocksUpTo(files[m], Ends(files[m].blocks)[i - 1]) = i - 1 BY <1>4, <1>5, BlocksUpToIs, Zenon
  <2> QED BY <1>2, <2>1, Zenon
<1>7. initStream = [file |-> loc.file, pos |-> i - 1] BY <1>m, <1>6, Zenon DEF initStream
<1>8. initStream.file = loc.file /\ initStream.pos = i - 1 BY <1>7, Zenon
<1>9. initStream \in Streams
  <2>1. loc.file \in Int BY <1>3
  <2> QED BY <1>5, <1>7, <2>1, Zenon DEF Streams
<1>10. files[m].blocks # <<>>
  <2>1. Len(files[m].blocks) # 0 BY <1>4, <1>5
  <2> QED BY <2>1
<1>11. k = Before(files, m) + (i - 1)
  <2>1. Before(files, m) \in Nat
    <3>1. m \in 1 .. Len(files) + 1 BY <1>1, <1>3, FileIs
    <3> QED BY <1>1, <3>1, BeforeStep, Zenon
  <2>2. k \in Nat /\ i \in Nat /\ k + 1 = Before(files, m) + i BY <1>1, <1>2, <1>5
  <2> HIDE DEF k
  <2> QED BY <2>1, <2>2
<1> QED BY <1>3, <1>5, <1>8, <1>9, <1>10, <1>11, <1>m, Zenon DEF StreamAt

-----------------------------------------------------------------------------
(* The steps of a reader *)

\* The fields of an iterator.
LEMMA ItrIs ==
  ASSUME NEW i, NEW a, NEW n, NEW m, NEW s, NEW c, NEW e,
         i = [start |-> a, next |-> n, max |-> m, stream |-> s, closed |-> c, empty |-> e]
  PROVE  /\ i.start = a /\ i.next = n /\ i.max = m /\ i.stream = s /\ i.closed = c /\ i.empty = e
         /\ a \in Nat /\ n \in Nat /\ m \in Nat /\ s \in Streams /\ c \in BOOLEAN /\ e \in BOOLEAN => i \in ItrSet
<1>1. i.start = a /\ i.next = n /\ i.max = m /\ i.stream = s /\ i.closed = c /\ i.empty = e BY Zenon
<1>2. a \in Nat /\ n \in Nat /\ m \in Nat /\ s \in Streams /\ c \in BOOLEAN /\ e \in BOOLEAN => i \in ItrSet
  BY Zenon DEF ItrSet
<1> QED BY <1>1, <1>2, Zenon

LEMMA ItrHas ==
  ASSUME itr \in ItrSet
  PROVE  /\ itr.start \in Nat /\ itr.next \in Nat /\ itr.max \in Nat /\ itr.stream \in Streams
         /\ itr.closed \in BOOLEAN /\ itr.empty \in BOOLEAN
         /\ itr = [start |-> itr.start, next |-> itr.next, max |-> itr.max, stream |-> itr.stream,
                   closed |-> itr.closed, empty |-> itr.empty]
BY Zenon DEF ItrSet

LEMMA NoStreamIs == NoStream \in Streams /\ NoItr \in ItrSet
<1>1. 0 \in Nat /\ -1 \in Int OBVIOUS
<1>2. NoStream \in Streams BY <1>1, Zenon DEF NoStream, Streams
<1>3. FALSE \in BOOLEAN OBVIOUS
<1>4. NoItr \in ItrSet BY <1>1, <1>2, <1>3, Zenon DEF NoItr, ItrSet
<1> QED BY <1>2, <1>4, Zenon

\* What a reader may see of the store stays there while the writer goes on.
LEMMA ReaderWaits ==
  ASSUME Induction, JInv, WriterStep, files' \in Files
  PROVE  ReaderInv'
<1>1. CASE phase' = "closed"
  <2>1. itr' = NoItr /\ call' = "none" /\ got' = <<>> BY <1>1, Zenon DEF WriterStep
  <2>2. got' \in Seq(Block) BY <2>1
  <2> QED BY <2>1, <2>2, NoStreamIs, Zenon DEF ReaderInv
<1>2. CASE phase' # "closed"
  <2>1. Next /\ itr' = itr /\ call' = call /\ got' = got BY <1>2, Zenon DEF WriterStep
  <2>2. CASE call = "none" BY <2>1, <2>2, Zenon DEF JInv, ReaderInv
  <2>3. CASE call # "none"
    <3>a. PICK a : a = itr.start OBVIOUS
    <3>n. PICK n : n = itr.next OBVIOUS
    <3>m. PICK m : m = itr.max OBVIOUS
    <3>L. PICK L : L = Len(Stored(files)) OBVIOUS
    <3>M. PICK M : M = Len(Stored(files')) OBVIOUS
    <3>1. /\ itr \in ItrSet /\ got \in Seq(Block) /\ phase \in Running
          /\ n = a + Len(got) /\ n <= L
          /\ \A k \in 1 .. Len(got) : got[k] = Stored(files)[a + k]
          /\ itr.stream # NoStream => StreamAt(files, itr.stream, n)
          /\ ~itr.empty => ~mgr.info.noBlockFiles /\ m <= mgr.info.lastPersistedBlock
          /\ call = "reading" /\ ~itr.closed /\ ~itr.empty => n <= m
          /\ call = "error" => itr.empty
      BY <2>3, <3>a, <3>n, <3>m, <3>L, Zenon DEF JInv, ReaderInv
    <3>2. SInv /\ ReadScope /\ PublishedInv /\ IInv BY Zenon DEF JInv, SInv
    <3>3. AddSteps /\ phase' \in Running BY <1>2, <2>1, <3>1, RunningSteps, Zenon
    <3>4. Grows(files, files') BY <3>1, <3>2, <3>3, RunningGrows, Zenon
    <3>5. ~mgr.info.noBlockFiles =>
            /\ ~mgr'.info.noBlockFiles /\ mgr'.info.lastPersistedBlock \in Nat
            /\ mgr.info.lastPersistedBlock <= mgr'.info.lastPersistedBlock
      BY <3>1, <3>2, <3>3, RunningMgr, Zenon
    <3>6. a \in Nat /\ n \in Nat /\ m \in Nat BY <3>a, <3>n, <3>m, <3>1, ItrHas, Zenon
    <3>7. L \in Nat /\ M \in Nat /\ L <= M BY <3>2, <3>4, <3>L, <3>M, Facts, BeforeStep, SeqIs, Zenon DEF Grows
    <3>8. Len(got) \in Nat BY <3>1, SeqIs, Zenon
    <3>9. n <= M BY <3>1, <3>6, <3>7
    <3>10. ASSUME NEW k \in 1 .. Len(got) PROVE got[k] = Stored(files')[a + k]
      <4>1. a + k \in 1 .. L BY <3>1, <3>6, <3>7, <3>8
      <4> QED BY <3>1, <3>4, <3>L, <4>1, Zenon DEF Grows
    <3>11. itr.stream # NoStream => StreamAt(files', itr.stream, n) BY <3>1, <3>4, Zenon DEF Grows
    <3>12. ASSUME ~itr.empty PROVE ~mgr'.info.noBlockFiles /\ m <= mgr'.info.lastPersistedBlock
      <4>p. PICK p : p = mgr.info.lastPersistedBlock OBVIOUS
      <4>q. PICK q : q = mgr'.info.lastPersistedBlock OBVIOUS
      <4>1. Published BY <3>1, <3>2, PublishedIs, Zenon
      <4>2. p \in Nat BY <4>1, <4>p, Zenon DEF Published, InfoSet
      <4>3. m <= p /\ p <= q /\ q \in Nat /\ ~mgr'.info.noBlockFiles BY <3>1, <3>5, <3>12, <4>p, <4>q, Zenon
      <4>4. m <= q BY <3>6, <4>2, <4>3
      <4> QED BY <4>3, <4>4, <4>q, Zenon
    <3> QED BY <2>1, <2>3, <3>a, <3>n, <3>m, <3>M, <3>1, <3>3, <3>9, <3>10, <3>11, <3>12, Zenon DEF ReaderInv
  <2> QED BY <2>2, <2>3, Zenon
<1> QED BY <1>1, <1>2, Zenon

\* newBlockItr starts at a block that is there, or at the next one.
LEMMA ReaderOpens ==
  ASSUME Induction, JInv, NEW n \in Numbers, OpenIterator(n)
  PROVE  ReaderInv'
<1>m. PICK m : m = mgr.info.lastPersistedBlock OBVIOUS
<1>e. PICK e : e = mgr.info.noBlockFiles OBVIOUS
<1>1. /\ call = "none" /\ phase \in Serving /\ n >= FirstBlock /\ n <= mgr.height
      /\ itr' = [NoItr EXCEPT !.start = n, !.next = n, !.max = m, !.empty = e]
      /\ call' = "ready" /\ vars' = vars /\ got' = got
  BY <1>m, <1>e, Zenon DEF OpenIterator
<1>2. IInv /\ got = <<>> BY <1>1, Zenon DEF JInv, SInv, ReaderInv
<1>3. phase' = phase /\ files' = files /\ mgr' = mgr BY <1>1, Zenon DEF vars
<1>4. /\ mgr.height \in Nat /\ mgr.height = Len(acked) /\ Len(acked) <= Len(Stored(files)) /\ FirstBlock = 0
      /\ Len(Stored(files)) \in Nat /\ m \in Nat /\ e \in BOOLEAN
  BY <1>1, <1>2, <1>m, <1>e, ServingIs, Facts, Zenon DEF InfoSet
<1>5. n \in Nat /\ n <= Len(Stored(files))
  <2>1. n \in Int BY StoreAssumption DEF Numbers
  <2> QED BY <1>1, <1>4, <2>1
<1>6. itr' = [start |-> n, next |-> n, max |-> m, stream |-> NoStream, closed |-> FALSE, empty |-> e]
  BY <1>1, Zenon DEF NoItr
<1>7. /\ itr'.start = n /\ itr'.next = n /\ itr'.max = m /\ itr'.stream = NoStream /\ itr'.empty = e
      /\ itr' \in ItrSet
  <2>1. FALSE \in BOOLEAN OBVIOUS
  <2> QED BY <1>4, <1>5, <1>6, <2>1, ItrIs, NoStreamIs, Zenon
<1>8. got' \in Seq(Block) /\ Len(got') = 0 /\ n = n + 0 /\ m <= m /\ \A k \in 1 .. 0 : FALSE BY <1>1, <1>2, <1>4, <1>5
<1> QED BY <1>m, <1>e, <1>1, <1>3, <1>5, <1>7, <1>8, Zenon DEF ReaderInv, Running

\* waitForBlock goes on to a block that readers have been told of.
LEMMA ReaderGoesOn ==
  ASSUME Induction, JInv, WaitForBlock
  PROVE  ReaderInv'
<1>p. PICK p : p = mgr.info.lastPersistedBlock OBVIOUS
<1>1. /\ call = "ready" /\ call' = "reading" /\ vars' = vars /\ got' = got
      /\ itr.max < itr.next => p >= itr.next \/ itr.closed
      /\ itr' = IF itr.max < itr.next THEN [itr EXCEPT !.max = p] ELSE itr
  BY <1>p, Zenon DEF WaitForBlock, CanGoOn
<1>2. phase' = phase /\ files' = files /\ mgr' = mgr BY <1>1, Zenon DEF vars
<1>3. SInv /\ PublishedInv /\ IInv /\ phase \in Running /\ itr \in ItrSet BY <1>1, Zenon DEF JInv, SInv, ReaderInv
<1>4. p \in Nat
  <2>1. Published BY <1>3, PublishedIs, Zenon
  <2> QED BY <1>p, <2>1, Zenon DEF Published, InfoSet
<1>5. CASE itr.max < itr.next
  <2>a. PICK a : a = itr.start OBVIOUS
  <2>n. PICK n : n = itr.next OBVIOUS
  <2>s. PICK s : s = itr.stream OBVIOUS
  <2>c. PICK c : c = itr.closed OBVIOUS
  <2>e. PICK e : e = itr.empty OBVIOUS
  <2>m. PICK m : m = itr.max OBVIOUS
  <2>1. /\ a \in Nat /\ n \in Nat /\ s \in Streams /\ c \in BOOLEAN /\ e \in BOOLEAN
        /\ itr = [start |-> a, next |-> n, max |-> m, stream |-> s, closed |-> c, empty |-> e]
    BY <1>3, <2>a, <2>n, <2>s, <2>c, <2>e, <2>m, ItrHas, Zenon
  <2>2. itr' = [itr EXCEPT !.max = p] BY <1>1, <1>5, Zenon
  <2>3. itr' = [start |-> a, next |-> n, max |-> p, stream |-> s, closed |-> c, empty |-> e] BY <2>1, <2>2, Zenon
  <2>4. /\ itr'.start = itr.start /\ itr'.next = itr.next /\ itr'.max = p /\ itr'.stream = itr.stream
        /\ itr'.closed = itr.closed /\ itr'.empty = itr.empty /\ itr' \in ItrSet
    BY <1>4, <2>1, <2>3, <2>a, <2>n, <2>s, <2>c, <2>e, ItrIs, Zenon
  <2>5. p <= p /\ (itr.closed \/ itr.next <= p)
    <3>1. p >= n \/ itr.closed BY <1>1, <1>5, <2>n, Zenon
    <3>2. p >= n => n <= p BY <1>4, <2>1
    <3>3. p <= p BY <1>4
    <3> QED BY <3>1, <3>2, <3>3, <2>n, Zenon
  <2> QED BY <1>p, <1>1, <1>2, <2>4, <2>5, Zenon DEF JInv, ReaderInv
<1>6. CASE ~(itr.max < itr.next)
  <2>1. itr' = itr BY <1>1, <1>6, Zenon
  <2>2. itr.next <= itr.max
    <3>1. itr.next \in Nat /\ itr.max \in Nat BY <1>3, ItrHas, Zenon
    <3> QED BY <1>6, <3>1
  <2> QED BY <1>1, <1>2, <2>1, <2>2, Zenon DEF JInv, ReaderInv
<1> QED BY <1>5, <1>6, Zenon

\* Next returns the block behind those that it has returned.
LEMMA ReaderReturns ==
  ASSUME Induction, JInv, call = "reading", NEW b, NEW s \in Streams, Return(b, s), vars' = vars,
         itr.next + 1 <= Len(Stored(files)), b = Stored(files)[itr.next + 1],
         s # NoStream => StreamAt(files, s, itr.next + 1)
  PROVE  ReaderInv'
<1>a. PICK a : a = itr.start OBVIOUS
<1>n. PICK n : n = itr.next OBVIOUS
<1>m. PICK m : m = itr.max OBVIOUS
<1>t. PICK t : t = itr.stream OBVIOUS
<1>c. PICK c : c = itr.closed OBVIOUS
<1>e. PICK e : e = itr.empty OBVIOUS
<1>q. PICK q : q = n + 1 OBVIOUS
<1>g. PICK g : g = Len(got) OBVIOUS
<1>1. /\ itr \in ItrSet /\ got \in Seq(Block) /\ phase \in Running /\ n = a + g
      /\ \A k \in 1 .. g : got[k] = Stored(files)[a + k]
      /\ ~e => ~mgr.info.noBlockFiles /\ m <= mgr.info.lastPersistedBlock
  BY <1>a, <1>n, <1>m, <1>e, <1>g, Zenon DEF JInv, ReaderInv
<1>2. IInv /\ phase' = phase /\ files' = files /\ mgr' = mgr BY Zenon DEF vars, JInv, SInv
<1>3. /\ a \in Nat /\ n \in Nat /\ m \in Nat /\ c \in BOOLEAN /\ e \in BOOLEAN
      /\ itr = [start |-> a, next |-> n, max |-> m, stream |-> t, closed |-> c, empty |-> e]
  BY <1>1, <1>a, <1>n, <1>m, <1>t, <1>c, <1>e, ItrHas, Zenon
<1>4. itr' = [itr EXCEPT !.next = q, !.stream = s] /\ got' = Append(got, b) /\ call' = "ready"
  BY <1>n, <1>q, Zenon DEF Return
<1>5. itr' = [start |-> a, next |-> q, max |-> m, stream |-> s, closed |-> c, empty |-> e] BY <1>3, <1>4, Zenon
<1>6. q \in Nat /\ g \in Nat BY <1>1, <1>3, <1>q, <1>g
<1>7. itr' \in ItrSet /\ itr'.start = a /\ itr'.next = q /\ itr'.max = m /\ itr'.stream = s /\ itr'.empty = e
  BY <1>3, <1>5, <1>6, ItrIs, Zenon
<1>8. b \in Block
  <2>1. Stored(files) \in Seq(Block) /\ Len(Stored(files)) \in Nat BY <1>2, Facts, Zenon
  <2>2. q \in 1 .. Len(Stored(files)) /\ b = Stored(files)[q] BY <1>n, <1>q, <1>3, <2>1
  <2> QED BY <2>1, <2>2
<1>9. /\ got' \in Seq(Block) /\ Len(got') = g + 1 /\ got'[g + 1] = b
      /\ \A k \in 1 .. g : got'[k] = got[k]
  BY <1>1, <1>4, <1>8, <1>g
<1>10. q = a + Len(got') BY <1>1, <1>3, <1>6, <1>9, <1>q
<1>11. ASSUME NEW k \in 1 .. Len(got') PROVE got'[k] = Stored(files)[a + k]
  <2>1. k \in 1 .. g \/ k = g + 1 BY <1>6, <1>9
  <2>2. CASE k \in 1 .. g BY <1>1, <1>9, <2>2, Zenon
  <2>3. CASE k = g + 1
    <3>1. a + k = q BY <1>9, <1>10, <2>3, Zenon
    <3> QED BY <1>9, <1>n, <1>q, <2>3, <3>1, Zenon
  <2> QED BY <2>1, <2>2, <2>3, Zenon
<1>12. q <= Len(Stored(files)) /\ (s # NoStream => StreamAt(files, s, q)) BY <1>n, <1>q, Zenon
<1> QED BY <1>1, <1>2, <1>4, <1>7, <1>9, <1>10, <1>11, <1>12, Zenon DEF ReaderInv

\* The block comes from the cache, or from the stream ...
LEMMA ReaderReads ==
  ASSUME Induction, JInv, NextFromCache \/ NextFromFile
  PROVE  ReaderInv'
<1>1. call = "reading" /\ vars' = vars BY Zenon DEF NextFromCache, NextFromFile
<1>2. /\ IInv /\ phase \in Running /\ itr \in ItrSet /\ CacheInv
      /\ itr.stream # NoStream => StreamAt(files, itr.stream, itr.next)
  BY <1>1, Zenon DEF JInv, SInv, ReaderInv
<1>3. itr.next \in Nat /\ itr.stream \in Streams /\ files \in Files /\ Len(Stored(files)) \in Nat
  BY <1>2, ItrHas, Facts, Zenon
<1>4. CASE NextFromCache
  <2>1. Return(mgr.cache.blocks[itr.next], NoStream) /\ itr.next \in DOMAIN mgr.cache.blocks
    BY <1>4, Zenon DEF NextFromCache, Cached
  <2>2. itr.next < Len(Stored(files)) /\ mgr.cache.blocks[itr.next] = Stored(files)[itr.next + 1]
    BY <1>2, <2>1, Zenon DEF CacheInv, Mirrors
  <2>3. itr.next + 1 <= Len(Stored(files)) BY <1>3, <2>2
  <2> QED BY <1>1, <2>1, <2>2, <2>3, NoStreamIs, ReaderReturns, Zenon
<1>5. CASE NextFromFile
  <2>s. PICK s : s = IF itr.stream = NoStream THEN initStream ELSE itr.stream OBVIOUS
  <2>1. /\ itr.stream = NoStream => itr.next \in DOMAIN db.index
        /\ StreamBlock(s) # <<>> /\ Return(StreamBlock(s)[1], StreamAfter(s))
    BY <1>5, <2>s, Zenon DEF NextFromFile
  <2>2. s \in Streams /\ StreamAt(files, s, itr.next) BY <1>2, <1>3, <2>s, <2>1, InitStreamIs, Zenon
  <2>3. /\ itr.next + 1 <= Len(Stored(files)) /\ StreamBlock(s)[1] = Stored(files)[itr.next + 1]
        /\ StreamAfter(s) \in Streams /\ StreamAt(files, StreamAfter(s), itr.next + 1)
    BY <1>3, <2>1, <2>2, StreamIs, Zenon
  <2> QED BY <1>1, <2>1, <2>3, ReaderReturns, Zenon
<1> QED BY <1>4, <1>5, Zenon

\* ... which have it, unless the store was empty.
LEMMA ReaderFails ==
  ASSUME Induction, JInv, NextFails
  PROVE  itr.empty
<1> SUFFICES ASSUME ~itr.empty PROVE FALSE OBVIOUS
<1>1. /\ call = "reading" /\ ~itr.closed
      /\ IF itr.stream = NoStream THEN itr.next \notin DOMAIN db.index ELSE StreamBlock(itr.stream) = <<>>
  BY Zenon DEF NextFails
<1>2. /\ IInv /\ TornInv /\ PublishedInv /\ phase \in Running /\ itr \in ItrSet
      /\ itr.stream # NoStream => StreamAt(files, itr.stream, itr.next)
      /\ itr.next <= itr.max /\ ~mgr.info.noBlockFiles /\ itr.max <= mgr.info.lastPersistedBlock
  BY <1>1, Zenon DEF JInv, SInv, ReaderInv
<1>3. /\ mgr.info.lastPersistedBlock <= db.savePoint /\ mgr.info.lastPersistedBlock \in Nat
  <2>1. Published BY <1>2, PublishedIs, Zenon
  <2> QED BY <1>2, <2>1, Zenon DEF Published, InfoSet
<1>4. /\ db.savePoint \in -1 .. Len(Stored(files)) - 1 /\ DOMAIN db.index = 0 .. db.savePoint
      /\ Len(Stored(files)) \in Nat /\ itr.next \in Nat /\ itr.max \in Nat /\ itr.stream \in Streams
  BY <1>2, ItrHas, Facts, Zenon DEF IInv, DbInv, IsSound
<1>n. PICK n : n = itr.next OBVIOUS
<1>m. PICK m : m = itr.max OBVIOUS
<1>p. PICK p : p = mgr.info.lastPersistedBlock OBVIOUS
<1>5. n \in 0 .. db.savePoint /\ n < Len(Stored(files))
  <2>1. n \in Nat /\ m \in Nat /\ p \in Nat /\ n <= m /\ m <= p /\ p <= db.savePoint
    BY <1>2, <1>3, <1>4, <1>n, <1>m, <1>p, Zenon
  <2> QED BY <1>4, <2>1
<1>6. StreamAt(files, itr.stream, n) => StreamBlock(itr.stream) # <<>> BY <1>2, <1>4, <1>5, StreamHas, Zenon
<1> QED BY <1>1, <1>2, <1>4, <1>5, <1>6, <1>n, Zenon

LEMMA ReaderEnds ==
  ASSUME Induction, JInv, NextFails \/ NextAfterClose \/ Close
  PROVE  ReaderInv'
<1>1. CASE NextFails
  <2>1. call # "none" /\ call' = "error" /\ vars' = vars /\ itr' = itr /\ got' = got BY <1>1, Zenon DEF NextFails
  <2>2. phase' = phase /\ files' = files /\ mgr' = mgr BY <2>1, Zenon DEF vars
  <2> QED BY <1>1, <2>1, <2>2, ReaderFails, Zenon DEF JInv, ReaderInv
<1>2. CASE NextAfterClose
  <2>1. call # "none" /\ call' = "done" /\ vars' = vars /\ itr' = itr /\ got' = got BY <1>2, Zenon DEF NextAfterClose
  <2>2. phase' = phase /\ files' = files /\ mgr' = mgr BY <2>1, Zenon DEF vars
  <2> QED BY <2>1, <2>2, Zenon DEF JInv, ReaderInv
<1>3. CASE Close
  <2>a. PICK a : a = itr.start OBVIOUS
  <2>n. PICK n : n = itr.next OBVIOUS
  <2>s. PICK s : s = itr.stream OBVIOUS
  <2>c. PICK c : c = itr.closed OBVIOUS
  <2>e. PICK e : e = itr.empty OBVIOUS
  <2>m. PICK m : m = itr.max OBVIOUS
  <2>1. /\ call \in {"ready", "reading"} /\ call' = call /\ vars' = vars /\ got' = got
        /\ itr' = [itr EXCEPT !.closed = TRUE]
    BY <1>3, Zenon DEF Close
  <2>2. phase' = phase /\ files' = files /\ mgr' = mgr BY <2>1, Zenon DEF vars
  <2>3. /\ a \in Nat /\ n \in Nat /\ m \in Nat /\ s \in Streams /\ e \in BOOLEAN
        /\ itr = [start |-> a, next |-> n, max |-> m, stream |-> s, closed |-> c, empty |-> e]
    BY <2>a, <2>n, <2>s, <2>c, <2>e, <2>m, ItrHas, Zenon DEF JInv, ReaderInv
  <2>4. itr' = [start |-> a, next |-> n, max |-> m, stream |-> s, closed |-> TRUE, empty |-> e] BY <2>1, <2>3, Zenon
  <2>5. TRUE \in BOOLEAN OBVIOUS
  <2>6. /\ itr'.start = itr.start /\ itr'.next = itr.next /\ itr'.max = itr.max /\ itr'.stream = itr.stream
        /\ itr'.closed = TRUE /\ itr'.empty = itr.empty /\ itr' \in ItrSet
    BY <2>3, <2>4, <2>5, <2>a, <2>n, <2>s, <2>e, <2>m, ItrIs, Zenon
  <2>7. call # "none" /\ call # "error" BY <2>1, Zenon
  <2> QED BY <2>1, <2>2, <2>6, <2>7, Zenon DEF JInv, ReaderInv
<1> QED BY <1>1, <1>2, <1>3, Zenon

LEMMA ReaderInit == ASSUME Induction PROVE ReadScope /\ IInit => JInv
<1> SUFFICES ASSUME ReadScope, IInit PROVE JInv OBVIOUS
<1>1. Scope /\ Init /\ itr = NoItr /\ call = "none" /\ got = <<>> BY Zenon DEF IInit, ReadScope
<1>2. SInv BY <1>1, OpeningInit, Zenon
<1>3. phase = "closed" BY <1>1, Zenon DEF Init
<1>4. CacheInv /\ PublishedInv BY <1>3, Zenon DEF CacheInv, PublishedInv, Running, Serving
<1>5. got \in Seq(Block) BY <1>1
<1>6. ReaderInv BY <1>1, <1>5, NoStreamIs, Zenon DEF ReaderInv
<1> QED BY <1>2, <1>4, <1>6, Zenon DEF JInv

LEMMA ReaderSteps == ASSUME Induction PROVE JInv /\ [INext]_ivars => JInv'
<1> SUFFICES ASSUME JInv, [INext]_ivars PROVE JInv' OBVIOUS
<1>1. SInv /\ ReadScope /\ CacheInv /\ PublishedInv BY Zenon DEF JInv
<1>2. CASE WriterStep
  <2>1. Next BY <1>2, Zenon DEF WriterStep
  <2>2. SInv' BY <1>1, <2>1, OpeningStep, Zenon
  <2>3. files' \in Files BY <2>2, Zenon DEF SInv, IInv, FilesInv, Files
  <2>4. CacheInv' /\ PublishedInv' BY <1>1, <2>1, <2>3, WriterRuns, Zenon
  <2>5. ReaderInv' BY <1>2, <2>3, ReaderWaits, Zenon
  <2> QED BY <1>1, <2>2, <2>4, <2>5, Zenon DEF JInv, ReadScope, Scope
<1>3. CASE vars' = vars /\ ReaderInv'
  <2>1. SInv' BY <1>1, <1>3, OpeningStep, Zenon
  <2>2. phase' = phase /\ files' = files /\ mgr' = mgr /\ db' = db BY <1>3, Zenon DEF vars
  <2>3. CacheInv' /\ PublishedInv' BY <1>1, <2>2, Zenon DEF CacheInv, PublishedInv, Published
  <2> QED BY <1>1, <1>3, <2>1, <2>3, Zenon DEF JInv, ReadScope, Scope
<1>4. CASE \E n \in Numbers : OpenIterator(n)
  <2>1. vars' = vars /\ ReaderInv' BY <1>4, ReaderOpens, Zenon DEF OpenIterator
  <2> QED BY <1>3, <2>1, Zenon
<1>5. CASE ReaderStep \/ Close
  <2>1. vars' = vars
    BY <1>5, Zenon DEF ReaderStep, WaitForBlock, NextFromCache, NextFromFile, NextFails, NextAfterClose, Close
  <2>2. ReaderInv' BY <1>5, ReaderGoesOn, ReaderReads, ReaderEnds, Zenon DEF ReaderStep
  <2> QED BY <1>3, <2>1, <2>2, Zenon
<1>6. CASE ivars' = ivars
  <2>1. vars' = vars /\ itr' = itr /\ call' = call /\ got' = got BY <1>6, Zenon DEF ivars
  <2>2. phase' = phase /\ files' = files /\ mgr' = mgr BY <2>1, Zenon DEF vars
  <2>3. ReaderInv' BY <2>1, <2>2, Zenon DEF JInv, ReaderInv
  <2> QED BY <1>3, <2>1, <2>3, Zenon
<1> QED BY <1>2, <1>4, <1>5, <1>6, Zenon DEF INext

\* What a reader has got is in the files, in order.
LEMMA ReaderHas == ASSUME Induction PROVE JInv => ReadsTheChain /\ FailsOnlyWhenEmpty
<1> SUFFICES ASSUME JInv PROVE ReadsTheChain /\ FailsOnlyWhenEmpty OBVIOUS
<1>1. FailsOnlyWhenEmpty BY Zenon DEF JInv, ReaderInv, FailsOnlyWhenEmpty
<1>a. PICK a : a = itr.start OBVIOUS
<1>2. ASSUME NEW k \in DOMAIN got PROVE a - FirstBlock + k <= Len(Stored(files)) /\ got[k] = Stored(files)[a - FirstBlock + k]
  <2>1. IInv /\ itr \in ItrSet /\ got \in Seq(Block) BY Zenon DEF JInv, SInv, ReaderInv
  <2>2. Len(got) \in Nat /\ DOMAIN got = 1 .. Len(got) BY <2>1, SeqIs, Zenon
  <2>3. k \in 1 .. Len(got) BY <2>2, Zenon
  <2>4. got # <<>> BY <2>2, <2>3
  <2>5. call # "none" BY <2>4, Zenon DEF JInv, ReaderInv
  <2>6. itr.next = a + Len(got) /\ itr.next <= Len(Stored(files)) /\ got[k] = Stored(files)[a + k]
    BY <1>a, <2>3, <2>5, Zenon DEF JInv, ReaderInv
  <2>7. a \in Nat /\ FirstBlock = 0 /\ Len(Stored(files)) \in Nat BY <1>a, <2>1, ItrHas, Facts, Zenon
  <2>8. a - FirstBlock + k = a + k /\ a + k <= Len(Stored(files)) BY <2>2, <2>3, <2>6, <2>7
  <2> QED BY <2>6, <2>8, Zenon
<1>3. ReadsTheChain BY <1>a, <1>2, Zenon DEF ReadsTheChain
<1> QED BY <1>1, <1>3, Zenon

--------------------------------------------------------------------------------
(* The hypothesis of the lemmas, and the theorems *)

INSTANCE WellFoundedInduction

\* A non-empty set of natural numbers has a least element, which is 0 or a successor.
LEMMA InductionHolds == Induction
<1> SUFFICES ASSUME NEW S, 0 \in S, \A n \in Nat : n \in S => n + 1 \in S
             PROVE  Nat \subseteq S
  BY Zenon DEF Induction
<1> SUFFICES ASSUME Nat \ S # {} PROVE FALSE OBVIOUS
<1> DEFINE R == OpToRel(<, Nat)
           T == Nat \ S
<1>1. \A x, y \in Nat : <<x, y>> \in R <=> x < y BY Zenon DEF OpToRel
<1>2. IsWellFoundedOn(R, Nat) BY NatLessThanWellFounded, Zenon
<1>3. T \subseteq Nat /\ T # {} OBVIOUS
<1>4. \E x \in T : \A y \in T : ~(<<y, x>> \in R)
  <2> HIDE DEF R, T
  <2> QED BY <1>2, <1>3, WFMin, Zenon
<1>5. PICK x \in T : \A y \in T : ~(y < x) BY <1>1, <1>4, Zenon
<1>6. x \in Nat /\ x # 0 /\ x \notin S OBVIOUS
<1>7. x - 1 \in Nat /\ x - 1 < x /\ (x - 1) + 1 = x BY <1>6
<1>8. x - 1 \in S BY <1>5, <1>7
<1> QED BY <1>6, <1>7, <1>8

\* A store with a reader keeps the invariant of the store and of its readers.
THEOREM ReaderInvariance == ReadScope /\ ISpec => []JInv
<1>1. ReadScope /\ IInit => JInv BY ReaderInit, InductionHolds, Zenon
<1>2. JInv /\ [INext]_ivars => JInv' BY ReaderSteps, InductionHolds, Zenon
<1> QED BY <1>1, <1>2, PTL DEF ISpec

\* Next of blocksItr returns the blocks of the chain in order, none twice and none skipped, from
\* the cache or from the files, however addBlock interleaves with it, fails and is repeated.
THEOREM ReadChain == ReadScope /\ ISpec => []ReadsTheChain
<1>1. JInv => ReadsTheChain BY ReaderHas, InductionHolds, Zenon
<1> QED BY <1>1, ReaderInvariance, PTL

\* Next of blocksItr finds the block that waitForBlock went on to, unless the store was empty when
\* the iterator was made.
THEOREM FailingReader == ReadScope /\ ISpec => []FailsOnlyWhenEmpty
<1>1. JInv => FailsOnlyWhenEmpty BY ReaderHas, InductionHolds, Zenon
<1> QED BY <1>1, ReaderInvariance, PTL
================================================================================
