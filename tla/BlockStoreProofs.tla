--------------------------- MODULE BlockStoreProofs ----------------------------
(***************************************************************************)
(* What the block store keeps, for any blocks, sizes of blocks and files,  *)
(* and any number of crashes and failing writes.  The files are compared   *)
(* with one thing, the sequence of the blocks in them: blockfilesInfo says *)
(* where one of these blocks ends, the index where each of them starts,    *)
(* and the acknowledged blocks are the first of them.  A lemma for each    *)
(* action shows that it keeps the invariant and what it does to the        *)
(* sequence.                                                               *)
(***************************************************************************)
EXTENDS BlockStore, BlockFilesProofs

\* The store starts at block 0 (not from a snapshot), and a caller that retries meets no failing
\* index. For the other constants the properties are false: see the README.
Scope == FirstBlock = 0 /\ (CallerRetries => "index" \notin Failing)

\* What was acknowledged is in the files, before all else.
AckedInv ==
  /\ acked \in Seq(Block) /\ Len(acked) <= Len(Stored(files))
  /\ \A k \in DOMAIN acked : acked[k] = Stored(files)[k]

\* Both the database that is read and the one a crash falls back to are sound.
DbInv == IsSound(files, db) /\ IsSound(files, dbSynced)

\* The fields of blockfileMgr.
MgrInv == mgr = [info |-> mgr.info, height |-> mgr.height, hash |-> mgr.hash, cache |-> mgr.cache]

\* The manager is open: both databases name the file it appends to.
SameFile(d) == d.info # <<>> /\ d.info[1].latestFileNumber = mgr.info.latestFileNumber

\* The file that is appended to, counted from 1.
Latest == mgr.info.latestFileNumber + 1

\* While newBlockfileMgr runs, its blockfilesInfo ends behind the last complete block of the
\* files; once the file is truncated, no bytes of an incomplete block follow it there.
OpeningInv ==
  phase \in {"truncate", "syncIndex"} =>
    /\ Covers(files, mgr.info, Len(Stored(files)))
    /\ SameFile(db) /\ SameFile(dbSynced)
    /\ mgr.height = 0 /\ mgr.hash = GenesisHash
    /\ phase = "syncIndex" => files # <<>> /\ ~files[Latest].torn

\* Before the block is in the file ...
Unwritten == {"idle", "createFile", "saveNextFile", "append", "sync"}
\* ... and after.
Written == {"saveInfo", "index", "publish", "bcInfo"}

\* While the manager serves, its height and hash are those of the acknowledged blocks, the index
\* ends there, and blockfilesInfo ends behind the last of them, or behind the block that is added.
ServingInv ==
  phase \in Serving =>
    /\ files # <<>>
    /\ mgr.height = Len(acked)
    /\ mgr.hash = IF acked = <<>> THEN GenesisHash ELSE Hash(acked[Len(acked)])
    /\ db.savePoint = IF phase \in {"publish", "bcInfo"} THEN mgr.height ELSE mgr.height - 1
    /\ SameFile(db) /\ SameFile(dbSynced)
    /\ Covers(files, mgr.info, IF phase = "bcInfo" THEN mgr.height + 1 ELSE mgr.height)

\* The caller gets an error and will call again.
Retrying == phase = "error" /\ CallerRetries

\* The steps of addBlock: the block that is added has the next number; it is in the files if its
\* bytes have been synced and is not if they have not; a file is left only when it holds a block;
\* and until blockfilesInfo is saved, no database covers the new block.
AddInv ==
  /\ phase \in Serving \ {"idle"} =>
       blk # <<>> /\ blk = <<blk[1]>> /\ blk[1] \in Block /\ blk[1].number = mgr.height
  /\ phase \in Unwritten \/ Retrying => Len(Stored(files)) = mgr.height
  /\ phase \in Unwritten \ {"sync"} \/ Retrying => ~files[Latest].torn
  /\ phase \in Written =>
       /\ Len(Stored(files)) = mgr.height + 1 /\ Stored(files)[mgr.height + 1] = blk[1]
       /\ ~files[Latest].torn
  /\ phase \in {"createFile", "saveNextFile"} => mgr.info.latestFileSize > 0
  /\ phase = "saveNextFile" => Latest < Len(files)
  /\ phase = "saveInfo" /\ Latest < Len(files) => mgr.info.latestFileSize > 0
  /\ phase = "saveInfo" => \A d \in {db, dbSynced} :
                             /\ d.savePoint < mgr.height
                             /\ \E k \in 0 .. mgr.height : Covers(files, d.info[1], k)

\* The inductive invariant of the store ...
IInv ==
  /\ Scope /\ FilesInv /\ AckedInv /\ DbInv /\ MgrInv
  /\ OpeningInv /\ ServingInv /\ AddInv /\ OpenSucceeds

\* What a step may do to the blocks in the files, and to those that are acknowledged.
LogStep ==
  LET T == Stored(files)
  IN  \/ Stored(files') = T /\ acked' = acked
      \/ \E b \in Block : Stored(files') = Append(T, b) /\ acked' = acked
      \/ Stored(files') = T /\ Len(acked') = Len(T)
      \/ \E n \in Len(acked) .. Len(T) : Stored(files') = SubSeq(T, 1, n) /\ acked' = acked
      \/ Stored(files') = T /\ Len(acked') \in 0 .. Len(acked)

-----------------------------------------------------------------------------
(* The index *)

\* Adding the next block to the index.
LEMMA IndexIs ==
  ASSUME Induction, files \in Files, NEW d, IsSound(files, d), NEW b, NEW file, NEW offset,
         b.number = d.savePoint + 1, d.savePoint + 1 < Len(Stored(files)),
         IsPlace(files, [file |-> file, offset |-> offset], d.savePoint + 2)
  PROVE  /\ IsSound(files, IndexOf(d, b, file, offset))
         /\ IndexOf(d, b, file, offset).savePoint = b.number
         /\ IndexOf(d, b, file, offset).info = d.info
<1> DEFINE loc == [file |-> file, offset |-> offset]
           x == Put(d.index, b.number, loc)
           e == IndexOf(d, b, file, offset)
           N == Len(Stored(files))
<1>1. d = [info |-> d.info, index |-> d.index, savePoint |-> d.savePoint] BY Zenon DEF IsSound
<1>2. e = [d EXCEPT !.index = x, !.savePoint = b.number] BY Zenon DEF IndexOf
<1> HIDE DEF x, e
<1>3. e = [info |-> d.info, index |-> x, savePoint |-> b.number]
  <2> DEFINE i == d.info
             y == d.index
             z == d.savePoint
             w == b.number
  <2>1. d = [info |-> i, index |-> y, savePoint |-> z] BY <1>1, Zenon
  <2>2. e = [d EXCEPT !.index = x, !.savePoint = w] BY <1>2, Zenon
  <2> HIDE DEF i, y, z, w
  <2>3. e = [info |-> i, index |-> x, savePoint |-> w] BY <2>1, <2>2, Zenon
  <2> QED BY <2>3, Zenon DEF i, w
<1>4. e.info = d.info /\ e.index = x /\ e.savePoint = b.number BY <1>3, Zenon
<1>5. N \in Nat /\ d.savePoint \in -1 .. N - 1 /\ DOMAIN d.index = 0 .. d.savePoint
  BY BeforeStep, SeqIs, Zenon DEF IsSound
<1>6. e.savePoint \in -1 .. N - 1 /\ e.savePoint = d.savePoint + 1 /\ e.savePoint \in Nat BY <1>4, <1>5
<1>7. DOMAIN x = DOMAIN d.index \union {b.number} /\ \A z \in DOMAIN x : x[z] = IF z = b.number THEN loc ELSE d.index[z]
  BY Zenon DEF x, Put
<1>8. DOMAIN x = 0 .. e.savePoint
  <2>1. 0 .. e.savePoint = (0 .. d.savePoint) \union {e.savePoint} BY <1>5, <1>6
  <2> QED BY <1>4, <1>5, <1>7, <2>1, Zenon
<1>9. ASSUME NEW j \in 0 .. e.savePoint PROVE IsPlace(files, e.index[j], j + 1)
  <2>1. CASE j = b.number
    <3>1. e.index[j] = loc BY <1>4, <1>7, <1>8, <2>1, Zenon
    <3>2. j + 1 = d.savePoint + 2 BY <1>5, <2>1
    <3> QED BY <3>1, <3>2, Zenon
  <2>2. CASE j # b.number
    <3>1. e.index[j] = d.index[j] BY <1>4, <1>7, <1>8, <2>2, Zenon
    <3>2. j \in 0 .. d.savePoint BY <1>4, <1>5, <1>6, <2>2
    <3> QED BY <3>1, <3>2, Zenon DEF IsSound
  <2> QED BY <2>1, <2>2, Zenon
<1>10. e.info # <<>> => /\ e.info = <<e.info[1]>>
                        /\ \E k \in Nat : Covers(files, e.info[1], k)
                        /\ \A n \in DOMAIN files : files[n].torn => n <= e.info[1].latestFileNumber + 1
  BY <1>4, Zenon DEF IsSound
<1>11. e = [info |-> e.info, index |-> e.index, savePoint |-> e.savePoint] BY <1>3, <1>4, Zenon
<1>12. DOMAIN e.index = 0 .. e.savePoint BY <1>4, <1>8, Zenon
<1>13. IsSound(files, e) BY <1>6, <1>9, <1>10, <1>11, <1>12, Zenon DEF IsSound
<1> QED BY <1>4, <1>13, Zenon DEF e

-----------------------------------------------------------------------------
(* The steps of addBlock *)

\* Types that every step uses.
LEMMA Facts ==
  ASSUME Induction, IInv
  PROVE  /\ files \in Files /\ Len(files) \in Nat /\ DOMAIN files = 1 .. Len(files)
         /\ Stored(files) \in Seq(Block) /\ Len(Stored(files)) \in Nat
         /\ DOMAIN Stored(files) = 1 .. Len(Stored(files))
         /\ acked \in Seq(Block) /\ Len(acked) \in Nat /\ DOMAIN acked = 1 .. Len(acked)
         /\ Len(acked) <= Len(Stored(files))
         /\ Scope' /\ FirstBlock = 0
<1>1. files \in Files BY Zenon DEF IInv, FilesInv, Files
<1>2. acked \in Seq(Block) /\ Len(acked) <= Len(Stored(files)) BY Zenon DEF IInv, AckedInv
<1>3. Scope' /\ FirstBlock = 0 BY Zenon DEF IInv, Scope
<1> QED BY <1>1, <1>2, <1>3, FileIs, BeforeStep, SeqIs, Zenon

\* While the files and the databases stay as they are, so does what they hold.
LEMMA FilesSame ==
  ASSUME IInv, files' = files, acked' = acked
  PROVE  FilesInv' /\ AckedInv' /\ LogStep
BY Zenon DEF IInv, FilesInv, AckedInv, LogStep

\* The same of the databases.
LEMMA DbSame ==
  ASSUME IInv, files' = files, db' = db, dbSynced' = dbSynced
  PROVE  DbInv'
BY Zenon DEF IInv, DbInv

\* The manager serves.
LEMMA ServingIs ==
  ASSUME Induction, IInv, phase \in Serving
  PROVE  /\ files # <<>> /\ mgr.height = Len(acked) /\ mgr.height \in Nat
         /\ mgr.info \in InfoSet /\ Latest \in 1 .. Len(files) /\ IsOpen(files, Latest)
         /\ Latest = mgr.info.latestFileNumber + 1
         /\ mgr.info.latestFileNumber \in Nat /\ mgr.info.latestFileSize \in Nat
         /\ Len(Stored(files)) = Before(files, Latest) + Len(files[Latest].blocks)
         /\ files[Latest].blocks \in Seq(Block) /\ Len(files[Latest].blocks) \in Nat
         /\ Before(files, Latest) \in Nat
         /\ EndsAt(files, Latest, mgr.info.latestFileSize,
                   IF phase = "bcInfo" THEN mgr.height + 1 ELSE mgr.height)
<1> DEFINE k == IF phase = "bcInfo" THEN mgr.height + 1 ELSE mgr.height
<1>1. files # <<>> /\ mgr.height = Len(acked) /\ Covers(files, mgr.info, k) BY Zenon DEF IInv, ServingInv
<1>2. files \in Files /\ Len(files) \in Nat /\ Len(acked) \in Nat BY Facts, Zenon
<1> HIDE DEF k
<1>3. /\ mgr.info \in InfoSet /\ mgr.info.latestFileNumber + 1 \in 1 .. Len(files)
      /\ IsOpen(files, mgr.info.latestFileNumber + 1)
      /\ EndsAt(files, mgr.info.latestFileNumber + 1, mgr.info.latestFileSize, k)
  BY <1>1, <1>2, CoversIs, Zenon
<1>4. Latest \in 1 .. Len(files) /\ IsOpen(files, Latest) /\ EndsAt(files, Latest, mgr.info.latestFileSize, k)
  BY <1>3, Zenon DEF Latest
<1>5. mgr.info.latestFileNumber \in Nat /\ mgr.info.latestFileSize \in Nat BY <1>3, Zenon DEF InfoSet
<1>6. Latest \in 1 .. Len(files) + 1 BY <1>2, <1>4
<1>7. /\ Len(Stored(files)) = Before(files, Latest) + Len(files[Latest].blocks)
      /\ files[Latest].blocks \in Seq(Block) /\ Len(files[Latest].blocks) \in Nat
      /\ Before(files, Latest) \in Nat
  BY <1>2, <1>4, <1>6, OpenIs, FileIs, BeforeStep, Zenon
<1> QED BY <1>1, <1>2, <1>3, <1>4, <1>5, <1>7, Zenon DEF k, Latest

\* The manager after an assignment.
LEMMA MgrIs ==
  ASSUME MgrInv, NEW i, NEW c
  PROVE  /\ [mgr EXCEPT !.info = i] = [info |-> i, height |-> mgr.height, hash |-> mgr.hash, cache |-> mgr.cache]
         /\ [mgr EXCEPT !.cache = c] = [info |-> mgr.info, height |-> mgr.height, hash |-> mgr.hash, cache |-> c]
<1> DEFINE a == mgr.info
           h == mgr.height
           x == mgr.hash
           e == mgr.cache
<1>1. mgr = [info |-> a, height |-> h, hash |-> x, cache |-> e] BY Zenon DEF MgrInv
<1> HIDE DEF a, h, x, e
<1>2. [mgr EXCEPT !.info = i] = [info |-> i, height |-> h, hash |-> x, cache |-> e] BY <1>1
<1>3. [mgr EXCEPT !.cache = c] = [info |-> a, height |-> h, hash |-> x, cache |-> c] BY <1>1
<1> QED BY <1>2, <1>3, Zenon DEF a, h, x, e

\* Both databases name the file that is appended to, and no file after it is torn.
LEMMA SameFileIs ==
  ASSUME Induction, IInv, phase \in Serving, NEW d, d = db \/ d = dbSynced
  PROVE  /\ IsSound(files, d) /\ SameFile(d) /\ d.info # <<>> /\ d.info = <<d.info[1]>>
         /\ d.info[1].latestFileNumber + 1 = Latest
         /\ d.savePoint \in -1 .. Len(Stored(files)) - 1
         /\ \A n \in 1 .. Len(files) : files[n].torn => n <= Latest
         /\ \E k \in 0 .. Len(Stored(files)) : Covers(files, d.info[1], k)
<1>1. SameFile(d) BY Zenon DEF IInv, ServingInv
<1>2. IsSound(files, d) BY Zenon DEF IInv, DbInv
<1>3. d.info # <<>> /\ d.info[1].latestFileNumber + 1 = Latest BY <1>1, Zenon DEF SameFile, Latest
<1>4. d.info = <<d.info[1]>> /\ d.savePoint \in -1 .. Len(Stored(files)) - 1 BY <1>2, <1>3, Zenon DEF IsSound
<1>5. DOMAIN files = 1 .. Len(files) /\ files \in Files /\ Len(Stored(files)) \in Nat BY Facts, Zenon
<1>6. \A n \in 1 .. Len(files) : files[n].torn => n <= Latest BY <1>2, <1>3, <1>5, Zenon DEF IsSound
<1>7. PICK k \in Nat : Covers(files, d.info[1], k) BY <1>2, <1>3, Zenon DEF IsSound
<1>8. k <= Len(Stored(files)) BY <1>5, <1>7, CoversIs, Zenon
<1>9. k \in 0 .. Len(Stored(files)) BY <1>5, <1>8
<1> QED BY <1>1, <1>2, <1>3, <1>4, <1>6, <1>7, <1>9, Zenon

\* addBlock starts, and moves to the next file.
LEMMA StartSteps ==
  ASSUME Induction
  PROVE  IInv /\ ((\E d \in Data : AddBlock(d)) \/ RetryBlock \/ CreateNextFile \/ SaveNextFile) => IInv' /\ LogStep
\* addBlock starts with the next block.
<1>StartAddStep.
  ASSUME IInv, NEW b \in Block, b.number = mgr.height, phase = "idle" \/ Retrying, StartAdd(b)
  PROVE  IInv' /\ LogStep
  <2> USE <1>StartAddStep
  <2>1. /\ blk' = <<b>> /\ files' = files /\ db' = db /\ dbSynced' = dbSynced /\ mgr' = mgr /\ acked' = acked
        /\ phase' = IF mgr.info.latestFileSize + DataSize[b.data] > MaxFileSize THEN "createFile" ELSE "append"
    BY Zenon DEF StartAdd
  <2>2. phase \in Serving /\ phase \in {"idle", "error"} BY Zenon DEF Retrying, Serving
  <2>3. phase' \in {"createFile", "append"} BY <2>1, Zenon
  <2>4. FilesInv' /\ AckedInv' /\ LogStep BY <2>1, FilesSame, Zenon
  <2>5. DbInv' BY <2>1, DbSame, Zenon
  <2>6. MgrInv' BY <2>1, Zenon DEF IInv, MgrInv
  <2>7. OpeningInv' BY <2>3, Zenon DEF OpeningInv
  <2>8. ServingInv'
    <3>1. phase' \notin {"publish", "bcInfo"} /\ phase \notin {"publish", "bcInfo"} BY <2>2, <2>3, Zenon
    <3> QED BY <2>1, <2>2, <3>1, Zenon DEF IInv, ServingInv, SameFile
  <2>9. AddInv'
    <3>1. Len(Stored(files)) = mgr.height /\ ~files[Latest].torn BY Zenon DEF IInv, AddInv, Unwritten
    <3>2. Latest' = Latest BY <2>1, Zenon DEF Latest
    <3>3. phase' = "createFile" => mgr.info.latestFileSize > 0
      <4>1. mgr.info.latestFileSize \in Nat BY <2>2, ServingIs, Zenon
      <4>2. DataSize[b.data] \in Nat /\ DataSize[b.data] <= MaxFileSize BY SizeIs, Zenon
      <4>3. MaxFileSize \in Nat BY FilesAssumption, Zenon
      <4> QED BY <2>1, <4>1, <4>2, <4>3
    <3>4. blk' # <<>> /\ blk' = <<blk'[1]>> /\ blk'[1] \in Block /\ blk'[1].number = mgr'.height BY <2>1, Zenon
    <3> QED BY <2>1, <2>3, <3>1, <3>2, <3>3, <3>4, Zenon DEF AddInv, Unwritten, Written, Retrying
  <2>10. OpenSucceeds' BY <2>3, Zenon DEF OpenSucceeds
  <2> QED BY <2>4, <2>5, <2>6, <2>7, <2>8, <2>9, <2>10, Facts, Zenon DEF IInv
\* The caller adds the next block.
<1>AddBlockStep. ASSUME IInv, NEW d \in Data, AddBlock(d) PROVE IInv' /\ LogStep
  <2> USE <1>AddBlockStep
  <2>1. phase = "idle" /\ mgr.height < FirstBlock + MaxHeight /\ StartAdd(NextBlock(d)) BY Zenon DEF AddBlock
  <2>2. phase \in Serving BY <2>1, Zenon DEF Serving
  <2>3. mgr.height \in Nat /\ mgr.height = Len(acked) BY <2>2, ServingIs, Zenon
  <2>4. mgr.height \in Numbers BY <2>1, <2>3, Facts, FilesAssumption DEF Numbers
  <2>5. mgr.hash \in Hashes
    <3>1. mgr.hash = IF acked = <<>> THEN GenesisHash ELSE Hash(acked[Len(acked)]) BY <2>2, Zenon DEF IInv, ServingInv
    <3>2. CASE acked = <<>> BY <3>1, <3>2, Zenon DEF Hashes
    <3>3. CASE acked # <<>>
      <4>1. acked[Len(acked)] \in Block BY <3>3, Facts
      <4>2. Hash(acked[Len(acked)]) \in Numbers \X Data BY <4>1, Zenon DEF Hash, Block
      <4> QED BY <3>1, <3>3, <4>2, Zenon DEF Hashes
    <3> QED BY <3>2, <3>3, Zenon
  <2>6. NextBlock(d) \in Block /\ NextBlock(d).number = mgr.height BY <2>4, <2>5, Zenon DEF NextBlock, Block
  <2> QED BY <2>1, <2>6, <1>StartAddStep, Zenon
\* The caller adds the block again, after an error that left nothing of it.
<1>RetryBlockStep. ASSUME IInv, RetryBlock PROVE IInv' /\ LogStep
  <2> USE <1>RetryBlockStep
  <2>1. phase = "error" /\ CallerRetries /\ StartAdd(blk[1]) BY Zenon DEF RetryBlock
  <2>2. blk[1] \in Block /\ blk[1].number = mgr.height BY <2>1, Zenon DEF IInv, AddInv, Serving
  <2>3. Retrying BY <2>1, Zenon DEF Retrying
  <2> QED BY <2>1, <2>2, <2>3, <1>StartAddStep, Zenon
\* A new empty file does not disturb what the databases say of the others.
<1>CreateNextFileStep. ASSUME IInv, CreateNextFile PROVE IInv' /\ LogStep
  <2> USE <1>CreateNextFileStep
  <2>1. /\ phase = "createFile" /\ phase' = "saveNextFile" /\ files' = OpenFile(files, Latest)
        /\ db' = db /\ dbSynced' = dbSynced /\ mgr' = mgr /\ blk' = blk /\ acked' = acked
    BY Zenon DEF CreateNextFile, Latest
  <2>2. phase \in Serving BY <2>1, Zenon DEF Serving
  <2>3. files \in Files /\ Len(files) \in Nat /\ DOMAIN files = 1 .. Len(files) BY Facts, Zenon
  <2>4. Latest \in 1 .. Len(files) /\ files # <<>> BY <2>2, ServingIs, Zenon
  <2>5. Latest' = Latest BY <2>1, Zenon DEF Latest
  <2>6. MgrInv' BY <2>1, Zenon DEF IInv, MgrInv
  <2>7. OpeningInv' BY <2>1, Zenon DEF OpeningInv
  <2>8. OpenSucceeds' BY <2>1, Zenon DEF OpenSucceeds
  <2>9. SameFile(db) /\ SameFile(dbSynced) /\ SameFile(db)' /\ SameFile(dbSynced)'
    BY <2>1, <2>2, Zenon DEF IInv, ServingInv, SameFile
  <2>10. /\ Covers(files, mgr.info, mgr.height) /\ mgr.height = Len(acked)
         /\ mgr.hash = (IF acked = <<>> THEN GenesisHash ELSE Hash(acked[Len(acked)]))
         /\ db.savePoint = mgr.height - 1
    BY <2>1, <2>2, Zenon DEF IInv, ServingInv
  <2>11. /\ blk # <<>> /\ blk = <<blk[1]>> /\ blk[1] \in Block /\ blk[1].number = mgr.height
         /\ Len(Stored(files)) = mgr.height /\ ~files[Latest].torn /\ mgr.info.latestFileSize > 0
    BY <2>1, Zenon DEF IInv, AddInv, Serving, Unwritten
  <2>12. CASE Len(files) > Latest
    <3>1. files' = files BY <2>1, <2>12, Zenon DEF OpenFile
    <3>2. FilesInv' /\ AckedInv' /\ LogStep BY <2>1, <3>1, FilesSame, Zenon
    <3>3. DbInv' BY <2>1, <3>1, DbSame, Zenon
    <3>4. ServingInv' BY <2>1, <2>4, <2>9, <2>10, <3>1, Zenon DEF ServingInv
    <3>5. AddInv' BY <2>1, <2>5, <2>11, <2>12, <3>1, Zenon DEF AddInv, Serving, Unwritten, Written, Retrying
    <3> QED BY <2>6, <2>7, <2>8, <3>2, <3>3, <3>4, <3>5, Facts, Zenon DEF IInv
  <2>13. CASE ~(Len(files) > Latest)
    <3>1. Latest = Len(files)
      <4>1. \A n \in Nat : \A m \in 1 .. n : ~(n > m) => m = n OBVIOUS
      <4> QED BY <2>3, <2>4, <2>13, <4>1, Zenon
    <3>2. files' = Append(files, EmptyFile) BY <2>1, <2>13, Zenon DEF OpenFile
    <3>3. /\ files' \in Files /\ files' # <<>> /\ Len(files') = Len(files) + 1
          /\ \A n \in 1 .. Len(files) : files'[n] = files[n]
          /\ files'[Len(files) + 1] = EmptyFile
          /\ Stored(files') = Stored(files)
          /\ \A loc, k : IsPlace(files, loc, k) => IsPlace(files', loc, k)
          /\ \A i, k : Covers(files, i, k) /\ (files # <<>> => i.latestFileNumber + 1 = Len(files)) => Covers(files', i, k)
      BY <2>3, <3>2, ExtendIs, Zenon
    <3>4. FilesInv'
      <4>1. ASSUME NEW n \in DOMAIN files', n < Len(files') PROVE files'[n].blocks # <<>>
        <5>1. n \in 1 .. Len(files) BY <2>3, <3>3, <4>1, FileIs
        <5>2. files'[n] = files[n] BY <3>3, <5>1, Zenon
        <5>3. CASE n < Len(files) BY <2>3, <5>1, <5>2, <5>3, Zenon DEF IInv, FilesInv
        <5>4. CASE n = Len(files)
          <6>1. n = Latest BY <3>1, <5>4, Zenon
          <6>2. PICK j \in 0 .. Len(files[Latest].blocks) : mgr.info.latestFileSize = Ends(files[Latest].blocks)[j]
            BY <2>1, <2>2, ServingIs, Zenon DEF EndsAt
          <6>3. Len(files[Latest].blocks) \in Nat BY <2>2, ServingIs, Zenon
          <6>4. Ends(files[Latest].blocks)[0] = 0 BY <6>3, EndsStep, Zenon
          <6>5. Len(files[Latest].blocks) # 0 BY <2>11, <6>2, <6>3, <6>4
          <6> QED BY <5>2, <6>1, <6>5
        <5> QED BY <2>3, <5>1, <5>3, <5>4
      <4>2. files' \in Seq(FileSet) BY <3>3, Zenon DEF Files
      <4>3. \A k \in DOMAIN Stored(files') : Stored(files')[k].number = k - 1 BY <3>3, Zenon DEF IInv, FilesInv
      <4> QED BY <4>1, <4>2, <4>3, Zenon DEF FilesInv
    <3>5. AckedInv' /\ LogStep BY <2>1, <3>3, Zenon DEF IInv, AckedInv, LogStep
    <3>6. ASSUME NEW d, d = db \/ d = dbSynced PROVE IsSound(files', d)
      <4>1. IsSound(files, d) /\ d.info # <<>> /\ d.info[1].latestFileNumber + 1 = Len(files)
        BY <2>9, <3>1, <3>6, Zenon DEF IInv, DbInv, SameFile, Latest
      <4>2. d.savePoint <= Len(Stored(files')) - 1 BY <3>3, <4>1, Facts DEF IsSound
      <4>3. \A k \in Nat : Covers(files, d.info[1], k) => Covers(files', d.info[1], k) BY <3>3, <4>1, Zenon
      <4>4. ASSUME NEW n \in 1 .. Len(files'), files'[n].torn PROVE n <= d.info[1].latestFileNumber + 1
        <5>1. n # Len(files) + 1 BY <3>3, <4>4 DEF EmptyFile
        <5> QED BY <2>3, <3>3, <4>1, <5>1
      <4> QED BY <2>3, <3>3, <4>1, <4>2, <4>3, <4>4, SoundKept, Zenon
    <3>7. DbInv' BY <2>1, <3>6, Zenon DEF DbInv
    <3>8. ServingInv'
      <4>1. Covers(files', mgr.info, mgr.height) BY <2>10, <3>1, <3>3, Zenon DEF Latest
      <4> QED BY <2>1, <2>9, <2>10, <3>3, <4>1, Zenon DEF ServingInv
    <3>9. AddInv'
      <4>1. ~files'[Latest].torn /\ Latest < Len(files') BY <2>3, <2>4, <2>11, <3>1, <3>3
      <4> QED BY <2>1, <2>5, <2>11, <3>3, <4>1, Zenon DEF AddInv, Serving, Unwritten, Written, Retrying
    <3> QED BY <2>6, <2>7, <2>8, <3>4, <3>5, <3>7, <3>8, <3>9, Facts DEF IInv
  <2> QED BY <2>12, <2>13, Zenon
\* blockfilesInfo moves on to the new file, at the same block.
<1>SaveNextFileStep. ASSUME IInv, SaveNextFile PROVE IInv' /\ LogStep
  <2> USE <1>SaveNextFileStep
  <2> DEFINE i == Info(mgr.info.latestFileNumber + 1, 0, FALSE, mgr.info.lastPersistedBlock)
             T == Stored(files)
             s == files[Latest].blocks
  <2>1. /\ phase = "saveNextFile" /\ phase' = "append" /\ db' = [db EXCEPT !.info = <<i>>] /\ dbSynced' = db'
        /\ mgr' = [mgr EXCEPT !.info = i]
        /\ files' = files /\ blk' = blk /\ acked' = acked
    BY Zenon DEF SaveNextFile
  <2>2. phase \in Serving BY <2>1, Zenon DEF Serving
  <2>3. files \in Files /\ Len(files) \in Nat /\ DOMAIN files = 1 .. Len(files) /\ Len(T) \in Nat BY Facts, Zenon
  <2>4. /\ Latest \in 1 .. Len(files) /\ files # <<>> /\ IsOpen(files, Latest) /\ mgr.info \in InfoSet
        /\ Latest = mgr.info.latestFileNumber + 1 /\ mgr.height \in Nat
        /\ Len(T) = Before(files, Latest) + Len(s) /\ Len(s) \in Nat /\ Before(files, Latest) \in Nat
        /\ EndsAt(files, Latest, mgr.info.latestFileSize, mgr.height)
    BY <2>1, <2>2, ServingIs, Zenon
  <2>5. /\ blk # <<>> /\ blk = <<blk[1]>> /\ blk[1] \in Block /\ blk[1].number = mgr.height
        /\ Len(T) = mgr.height /\ mgr.info.latestFileSize > 0 /\ Latest < Len(files)
    BY <2>1, Zenon DEF IInv, AddInv, Serving, Unwritten
  <2>6. Latest = Len(files) - 1 /\ files[Len(files)].blocks = <<>> /\ Len(files) = Latest + 1
    BY <2>3, <2>4, <2>5 DEF IsOpen
  <2>7. mgr.height > 0
    <3>1. PICK j \in 0 .. Len(s) : mgr.height = Before(files, Latest) + j /\ mgr.info.latestFileSize = Ends(s)[j]
      BY <2>4, Zenon DEF EndsAt
    <3>2. Ends(s)[0] = 0 BY <2>4, EndsStep, Zenon
    <3>3. j # 0 BY <2>5, <3>1, <3>2
    <3> QED BY <2>4, <3>1, <3>3
  <2>8. mgr.info.lastPersistedBlock = mgr.height - 1 BY <2>1, <2>2, <2>7, Zenon DEF IInv, ServingInv, Covers
  <2>9. i \in InfoSet /\ i.latestFileNumber = Latest /\ i.latestFileSize = 0 /\ ~i.noBlockFiles
        /\ i.lastPersistedBlock = mgr.height - 1
    BY <2>4, <2>8 DEF i, Info, InfoSet
  <2> HIDE DEF i
  <2>10. Covers(files, i, mgr.height)
    <3>1. EndsAt(files, Len(files), 0, mgr.height)
      <4>1. Before(files, Len(files)) = Len(T) BY <2>3, <2>4, <2>6, BeforeStep, Zenon
      <4>2. Len(files[Len(files)].blocks) = 0 BY <2>6
      <4>3. Ends(files[Len(files)].blocks)[0] = 0 BY <4>2, EndsStep
      <4>4. 0 \in 0 .. Len(files[Len(files)].blocks) /\ mgr.height = Before(files, Len(files)) + 0
        BY <2>3, <2>5, <4>1, <4>2
      <4> QED BY <4>3, <4>4, Zenon DEF EndsAt
    <3>2. i.latestFileNumber + 1 = Len(files) /\ Len(files) \in DOMAIN files /\ IsOpen(files, Len(files))
      BY <2>3, <2>4, <2>6, <2>9 DEF IsOpen
    <3>3. mgr.height \in 0 .. Len(T) /\ mgr.height # 0 BY <2>4, <2>5, <2>7
    <3>4. i.noBlockFiles = (mgr.height = 0) BY <2>9, <3>3, Zenon DEF i, Info
    <3> QED BY <2>4, <2>9, <3>1, <3>2, <3>3, <3>4, Zenon DEF Covers
  <2>11. IsSound(files, db) /\ \A n \in 1 .. Len(files) : files[n].torn => n <= Latest BY <2>2, SameFileIs, Zenon
  <2>12. /\ IsSound(files, db') /\ db'.savePoint = db.savePoint /\ db'.info = <<i>>
    <3>1. \A n \in 1 .. Len(files) : files[n].torn => n <= i.latestFileNumber + 1 BY <2>3, <2>4, <2>9, <2>11
    <3> QED BY <2>1, <2>3, <2>4, <2>10, <2>11, <3>1, InfoIs, Zenon
  <2>13. mgr' = [info |-> i, height |-> mgr.height, hash |-> mgr.hash, cache |-> mgr.cache]
    BY <2>1, MgrIs, Zenon DEF IInv
  <2>14. mgr'.info = i /\ mgr'.height = mgr.height /\ mgr'.hash = mgr.hash /\ Latest' = Len(files)
    BY <2>3, <2>6, <2>9, <2>13, Zenon DEF Latest
  <2>15. FilesInv' /\ AckedInv' /\ LogStep BY <2>1, FilesSame, Zenon
  <2>16. DbInv' BY <2>1, <2>12, Zenon DEF DbInv
  <2>17. MgrInv' BY <2>13, Zenon DEF MgrInv
  <2>18. OpeningInv' BY <2>1, Zenon DEF OpeningInv
  <2>19. ServingInv'
    <3>1. /\ mgr.height = Len(acked) /\ db.savePoint = mgr.height - 1
          /\ mgr.hash = IF acked = <<>> THEN GenesisHash ELSE Hash(acked[Len(acked)])
      BY <2>1, <2>2, Zenon DEF IInv, ServingInv
    <3>2. db'.info[1] = i /\ db'.info # <<>> BY <2>12
    <3>3. SameFile(db)' /\ SameFile(dbSynced)' BY <2>1, <2>14, <3>2, Zenon DEF SameFile
    <3> QED BY <2>1, <2>4, <2>10, <2>12, <2>14, <3>1, <3>3, Zenon DEF ServingInv
  <2>20. AddInv'
    <3>1. ~files[Len(files)].torn BY <2>3, <2>4, <2>6, <2>11
    <3> QED BY <2>1, <2>5, <2>14, <3>1, Zenon DEF AddInv, Serving, Unwritten, Written, Retrying
  <2>21. OpenSucceeds' BY <2>1, Zenon DEF OpenSucceeds
  <2> QED BY <2>15, <2>16, <2>17, <2>18, <2>19, <2>20, <2>21, Facts, Zenon DEF IInv
<1> QED BY <1>AddBlockStep, <1>RetryBlockStep, <1>CreateNextFileStep, <1>SaveNextFileStep, Zenon

\* The n-th file has bytes of an incomplete block, or has not.
Tears(fs, gs, n, t) == gs = [fs EXCEPT ![n].torn = t]

\* The block of addBlock.
LEMMA BlkIs ==
  ASSUME IInv, phase \in Serving \ {"idle"}
  PROVE  blk # <<>> /\ blk = <<blk[1]>> /\ blk[1] \in Block /\ blk[1].number = mgr.height
BY Zenon DEF IInv, AddInv

\* Where a file holds a block, blockfilesInfo has a size for it.
LEMMA SizePositive ==
  ASSUME Induction, IInv, phase \in Serving, phase # "bcInfo", Len(Stored(files)) = mgr.height, files[Latest].blocks # <<>>
  PROVE  mgr.info.latestFileSize > 0
<1> DEFINE s == files[Latest].blocks
           a == Before(files, Latest)
           h == mgr.height
<1>1. /\ s \in Seq(Block) /\ Len(s) \in Nat /\ a \in Nat /\ h \in Nat /\ h = a + Len(s)
      /\ EndsAt(files, Latest, mgr.info.latestFileSize, h) /\ s # <<>>
  BY ServingIs, Zenon
<1>2. PICK j \in 0 .. Len(s) : h = a + j /\ mgr.info.latestFileSize = Ends(s)[j] BY <1>1, Zenon DEF EndsAt
<1> HIDE DEF s, a, h
<1>3. Len(s) # 0 /\ 0 \in 0 .. Len(s) BY <1>1
<1>4. 0 < j BY <1>1, <1>2, <1>3
<1>5. Ends(s)[0] = 0 /\ Ends(s)[0] < Ends(s)[j] BY <1>1, <1>3, <1>4, EndsIs, EndsGrow, Zenon
<1> QED BY <1>2, <1>5, Zenon

\* The block is in the file; blockfilesInfo, the index and the manager follow.
LEMMA IndexSteps ==
  ASSUME Induction
  PROVE  IInv /\ (SaveInfo \/ IndexBlock \/ Publish \/ FinishAdd) => IInv' /\ LogStep
\* newBlkfilesInfo ends behind the block that was written, which starts where blockfilesInfo ended.
<1>NewInfoIs.
  ASSUME IInv, phase \in {"saveInfo", "index", "publish"}
  PROVE  /\ Len(Stored(files)) = mgr.height + 1 /\ Stored(files)[mgr.height + 1] = blk[1]
         /\ ~files[Latest].torn
         /\ Covers(files, NewInfo, mgr.height + 1) /\ NewInfo.latestFileNumber = mgr.info.latestFileNumber
         /\ IsPlace(files, [file |-> mgr.info.latestFileNumber, offset |-> mgr.info.latestFileSize], mgr.height + 1)
  <2> USE <1>NewInfoIs
  <2> DEFINE n == Latest
             s == files[n].blocks
             T == Stored(files)
             b == blk[1]
             size == mgr.info.latestFileSize
             i == NewInfo
  <2>1. phase \in Serving /\ phase \in Serving \ {"idle"} /\ phase \in Written /\ phase # "bcInfo"
    BY Zenon DEF Serving, Written
  <2>2. Len(T) = mgr.height + 1 /\ T[mgr.height + 1] = b /\ ~files[n].torn BY <2>1, Zenon DEF IInv, AddInv
  <2>3. b \in Block /\ b.number = mgr.height BY <2>1, BlkIs, Zenon
  <2>4. files \in Files /\ Len(files) \in Nat /\ DOMAIN files = 1 .. Len(files) BY Facts, Zenon
  <2>5. /\ n \in 1 .. Len(files) /\ files # <<>> /\ IsOpen(files, n) /\ mgr.height \in Nat
        /\ n = mgr.info.latestFileNumber + 1 /\ mgr.info.latestFileNumber \in Nat /\ size \in Nat
        /\ Len(T) = Before(files, n) + Len(s) /\ s \in Seq(Block) /\ Len(s) \in Nat /\ Before(files, n) \in Nat
        /\ EndsAt(files, n, size, mgr.height)
    BY <2>1, ServingIs, Zenon
  <2>6. PICK j \in 0 .. Len(s) : mgr.height = Before(files, n) + j /\ size = Ends(s)[j] BY <2>5, Zenon DEF EndsAt
  <2> HIDE DEF n, s, T, b, size, i
  <2>7. Len(s) = j + 1 /\ j + 1 \in 1 .. Len(s) /\ j + 1 \in 0 .. Len(s) /\ (j + 1) - 1 = j
        /\ mgr.height + 1 = Before(files, n) + (j + 1)
    BY <2>2, <2>5, <2>6
  <2>8. s[j + 1] = b
    <3>1. j + 1 \in 1 .. Len(files[n].blocks) BY <2>7, Zenon DEF s
    <3>2. Stored(files)[Before(files, n) + (j + 1)] = files[n].blocks[j + 1] BY <2>4, <2>5, <3>1, StoredAt, Zenon
    <3> QED BY <2>2, <2>7, <3>2, Zenon DEF s, T
  <2>9. Ends(s)[j + 1] = size + DataSize[b.data] BY <2>5, <2>6, <2>7, <2>8, EndsStep, Zenon
  <2>10. DataSize[b.data] \in Nat BY <2>3, SizeIs, Zenon
  <2>11. i = Info(mgr.info.latestFileNumber, size + DataSize[b.data], FALSE, b.number)
    BY Zenon DEF NewInfo, i, b, size
  <2>12. /\ i.latestFileNumber = mgr.info.latestFileNumber /\ i.latestFileSize = size + DataSize[b.data]
         /\ i.noBlockFiles = FALSE /\ i.lastPersistedBlock = mgr.height
    BY <2>3, <2>11, Zenon DEF Info
  <2>13. i \in InfoSet
    <3>1. size + DataSize[b.data] \in Nat BY <2>5, <2>10
    <3> QED BY <2>3, <2>5, <2>11, <3>1, Zenon DEF Info, InfoSet
  <2>14. Covers(files, i, mgr.height + 1)
    <3>1. EndsAt(files, n, i.latestFileSize, mgr.height + 1) BY <2>7, <2>9, <2>12, Zenon DEF EndsAt, s
    <3>2. mgr.height + 1 \in 0 .. Len(T) /\ mgr.height + 1 # 0 /\ (mgr.height + 1) - 1 = mgr.height
      <4>1. Len(T) = mgr.height + 1 /\ mgr.height \in Nat BY <2>2, <2>5, Zenon
      <4> QED BY <4>1
    <3>3. i.noBlockFiles = (mgr.height + 1 = 0) BY <2>12, <3>2, Zenon
    <3>4. n \in DOMAIN files /\ i.latestFileNumber + 1 = n BY <2>4, <2>5, <2>12, Zenon
    <3> QED BY <2>5, <2>12, <2>13, <3>1, <3>2, <3>3, <3>4 DEF Covers, T
  <2>15. IsPlace(files, [file |-> mgr.info.latestFileNumber, offset |-> size], mgr.height + 1)
    <3> DEFINE loc == [file |-> mgr.info.latestFileNumber, offset |-> size]
    <3>1. loc.file = mgr.info.latestFileNumber /\ loc.offset = size OBVIOUS
    <3>2. loc.file + 1 = n /\ n \in DOMAIN files /\ DOMAIN s = 1 .. Len(s) /\ loc.file \in Nat
      BY <2>4, <2>5, <3>1
    <3> HIDE DEF loc
    <3>3. mgr.height + 1 = Before(files, n) + (j + 1) /\ loc.offset = Ends(s)[(j + 1) - 1] /\ j + 1 \in DOMAIN s
      BY <2>6, <2>7, <3>1, <3>2, Zenon
    <3>4. IsPlace(files, loc, mgr.height + 1) BY <3>2, <3>3, Zenon DEF IsPlace, s
    <3> QED BY <3>4, Zenon DEF loc
  <2> QED BY <2>2, <2>12, <2>14, <2>15, Zenon DEF n, T, b, size, i
\* blockfilesInfo is saved with the new block, before its index.
<1>SaveInfoStep. ASSUME IInv, SaveInfo PROVE IInv' /\ LogStep
  <2> USE <1>SaveInfoStep
  <2>1. /\ phase = "saveInfo" /\ phase' = "index" /\ db' = [db EXCEPT !.info = <<NewInfo>>] /\ dbSynced' = dbSynced
        /\ files' = files /\ mgr' = mgr /\ blk' = blk /\ acked' = acked
    BY Zenon DEF SaveInfo
  <2>2. phase \in Serving /\ phase \in Serving \ {"idle"} BY <2>1, Zenon DEF Serving
  <2>3. files \in Files /\ mgr.height + 1 \in Nat BY <2>2, Facts, ServingIs
  <2>4. Covers(files, NewInfo, mgr.height + 1) /\ NewInfo.latestFileNumber = mgr.info.latestFileNumber
    BY <2>1, <1>NewInfoIs, Zenon
  <2>5. IsSound(files, db) /\ \A n \in 1 .. Len(files) : files[n].torn => n <= NewInfo.latestFileNumber + 1
    BY <2>2, <2>4, SameFileIs, Zenon DEF Latest
  <2>6. IsSound(files, db') /\ db'.savePoint = db.savePoint /\ db'.info = <<NewInfo>>
    BY <2>1, <2>3, <2>4, <2>5, InfoIs, Zenon
  <2>7. FilesInv' /\ AckedInv' /\ LogStep BY <2>1, FilesSame, Zenon
  <2>8. DbInv' BY <2>1, <2>6, Zenon DEF IInv, DbInv
  <2>9. MgrInv' BY <2>1, Zenon DEF IInv, MgrInv
  <2>10. OpeningInv' BY <2>1, Zenon DEF OpeningInv
  <2>11. ServingInv'
    <3>1. SameFile(db)'
      <4>1. db'.info # <<>> /\ db'.info[1] = NewInfo BY <2>6
      <4> QED BY <2>1, <2>4, <4>1, Zenon DEF SameFile
    <3> QED BY <2>1, <2>2, <2>6, <3>1, Zenon DEF IInv, ServingInv, SameFile
  <2>12. AddInv'
    <3>1. blk # <<>> /\ blk = <<blk[1]>> /\ blk[1] \in Block /\ blk[1].number = mgr.height BY <2>2, BlkIs, Zenon
    <3>2. Len(Stored(files)) = mgr.height + 1 /\ Stored(files)[mgr.height + 1] = blk[1] /\ ~files[Latest].torn
      BY <2>1, <1>NewInfoIs, Zenon
    <3>3. Latest' = Latest BY <2>1, Zenon DEF Latest
    <3> QED BY <2>1, <3>1, <3>2, <3>3, Zenon DEF AddInv, Serving, Unwritten, Written, Retrying
  <2>13. OpenSucceeds' BY <2>1, Zenon DEF OpenSucceeds
  <2> QED BY <2>7, <2>8, <2>9, <2>10, <2>11, <2>12, <2>13, Facts, Zenon DEF IInv
\* The index gets the block at the place where it was written.
<1>IndexBlockStep. ASSUME IInv, IndexBlock PROVE IInv' /\ LogStep
  <2> USE <1>IndexBlockStep
  <2>1. /\ phase = "index" /\ phase' = "publish" /\ dbSynced' = db'
        /\ db' = IndexOf(db, blk[1], mgr.info.latestFileNumber, mgr.info.latestFileSize)
        /\ files' = files /\ mgr' = mgr /\ blk' = blk /\ acked' = acked
    BY Zenon DEF IndexBlock
  <2>2. phase \in Serving /\ phase \in Serving \ {"idle"} BY <2>1, Zenon DEF Serving
  <2>3. files \in Files /\ mgr.height \in Nat BY <2>2, Facts, ServingIs, Zenon
  <2>4. /\ Len(Stored(files)) = mgr.height + 1 /\ Stored(files)[mgr.height + 1] = blk[1] /\ ~files[Latest].torn
        /\ IsPlace(files, [file |-> mgr.info.latestFileNumber, offset |-> mgr.info.latestFileSize], mgr.height + 1)
    BY <2>1, <1>NewInfoIs, Zenon
  <2>5. blk # <<>> /\ blk = <<blk[1]>> /\ blk[1] \in Block /\ blk[1].number = mgr.height BY <2>2, BlkIs, Zenon
  <2>6. IsSound(files, db) /\ db.savePoint = mgr.height - 1 BY <2>1, <2>2, SameFileIs, Zenon DEF IInv, ServingInv
  <2>7. IsSound(files, db') /\ db'.savePoint = mgr.height /\ db'.info = db.info
    <3>1. db.savePoint + 1 = mgr.height /\ db.savePoint + 2 = mgr.height + 1 /\ db.savePoint + 1 < Len(Stored(files))
      BY <2>3, <2>4, <2>6
    <3> QED BY <2>1, <2>3, <2>4, <2>5, <2>6, <3>1, IndexIs
  <2>8. FilesInv' /\ AckedInv' /\ LogStep BY <2>1, FilesSame, Zenon
  <2>9. DbInv' BY <2>1, <2>7, Zenon DEF DbInv
  <2>10. MgrInv' BY <2>1, Zenon DEF IInv, MgrInv
  <2>11. OpeningInv' BY <2>1, Zenon DEF OpeningInv
  <2>12. ServingInv' BY <2>1, <2>2, <2>7, Zenon DEF IInv, ServingInv, SameFile
  <2>13. AddInv'
    <3>1. Latest' = Latest BY <2>1, Zenon DEF Latest
    <3> QED BY <2>1, <2>4, <2>5, <3>1, Zenon DEF AddInv, Serving, Unwritten, Written, Retrying
  <2>14. OpenSucceeds' BY <2>1 DEF OpenSucceeds
  <2> QED BY <2>8, <2>9, <2>10, <2>11, <2>12, <2>13, <2>14, Facts, Zenon DEF IInv
\* blockfilesInfo in memory moves behind the block.
<1>PublishStep. ASSUME IInv, Publish PROVE IInv' /\ LogStep
  <2> USE <1>PublishStep
  <2>1. /\ phase = "publish" /\ phase' = "bcInfo" /\ mgr' = [mgr EXCEPT !.info = NewInfo]
        /\ files' = files /\ db' = db /\ dbSynced' = dbSynced /\ blk' = blk /\ acked' = acked
    BY Zenon DEF Publish
  <2>2. phase \in Serving /\ phase \in Serving \ {"idle"} BY <2>1, Zenon DEF Serving
  <2>3. /\ Len(Stored(files)) = mgr.height + 1 /\ Stored(files)[mgr.height + 1] = blk[1] /\ ~files[Latest].torn
        /\ Covers(files, NewInfo, mgr.height + 1) /\ NewInfo.latestFileNumber = mgr.info.latestFileNumber
    BY <2>1, <1>NewInfoIs, Zenon
  <2>4. mgr' = [info |-> NewInfo, height |-> mgr.height, hash |-> mgr.hash, cache |-> mgr.cache]
    BY <2>1, MgrIs, Zenon DEF IInv
  <2>5. mgr'.info = NewInfo /\ mgr'.height = mgr.height /\ mgr'.hash = mgr.hash /\ Latest' = Latest
    BY <2>3, <2>4, Zenon DEF Latest
  <2>6. FilesInv' /\ AckedInv' /\ LogStep BY <2>1, FilesSame, Zenon
  <2>7. DbInv' BY <2>1, DbSame, Zenon
  <2>8. MgrInv' BY <2>4, Zenon DEF MgrInv
  <2>9. OpeningInv' BY <2>1, Zenon DEF OpeningInv
  <2>10. ServingInv'
    <3>1. SameFile(db)' /\ SameFile(dbSynced)' BY <2>1, <2>2, <2>3, <2>5, Zenon DEF IInv, ServingInv, SameFile
    <3> QED BY <2>1, <2>2, <2>3, <2>5, <3>1, Zenon DEF IInv, ServingInv
  <2>11. AddInv'
    <3>1. blk # <<>> /\ blk = <<blk[1]>> /\ blk[1] \in Block /\ blk[1].number = mgr.height BY <2>2, BlkIs, Zenon
    <3> QED BY <2>1, <2>3, <2>5, <3>1 DEF AddInv, Serving, Unwritten, Written, Retrying
  <2>12. OpenSucceeds' BY <2>1, Zenon DEF OpenSucceeds
  <2> QED BY <2>6, <2>7, <2>8, <2>9, <2>10, <2>11, <2>12, Facts, Zenon DEF IInv
\* The height and the hash move on to the block, which is thereby acknowledged.
<1>FinishAddStep. ASSUME IInv, FinishAdd PROVE IInv' /\ LogStep
  <2> USE <1>FinishAddStep
  <2> DEFINE b == blk[1]
             T == Stored(files)
             c == CachePuts(mgr.cache, b)
  <2>1. /\ phase = "bcInfo" /\ phase' = (IF CachePanics(mgr.cache, b) THEN "panicked" ELSE "idle")
        /\ mgr' = [mgr EXCEPT !.height = @ + 1, !.hash = Hash(b), !.cache = CachePuts(@, b)]
        /\ acked' = IF phase' = "idle" THEN Append(acked, b) ELSE acked
        /\ files' = files /\ db' = db /\ dbSynced' = dbSynced
    BY Zenon DEF FinishAdd
  <2>2. phase \in Serving /\ phase \in Serving \ {"idle"} /\ phase \in Written BY <2>1, Zenon DEF Serving, Written
  <2>3. phase' \in {"panicked", "idle"} BY <2>1, Zenon
  <2>4. b \in Block /\ b.number = mgr.height BY <2>2, BlkIs, Zenon
  <2>5. Len(T) = mgr.height + 1 /\ T[mgr.height + 1] = b /\ ~files[Latest].torn BY <2>2, Zenon DEF IInv, AddInv
  <2>6. mgr' = [info |-> mgr.info, height |-> mgr.height + 1, hash |-> Hash(b), cache |-> c]
    <3> DEFINE a == mgr.info
               h == mgr.height
               x == mgr.hash
               e == mgr.cache
               y == Hash(b)
               z == h + 1
    <3>1. mgr = [info |-> a, height |-> h, hash |-> x, cache |-> e] BY Zenon DEF IInv, MgrInv
    <3>2. mgr' = [mgr EXCEPT !.height = z, !.hash = y, !.cache = c] BY <2>1, Zenon
    <3> HIDE DEF a, h, x, e, y, z, c
    <3>3. mgr' = [info |-> a, height |-> z, hash |-> y, cache |-> c] BY <3>1, <3>2, Zenon
    <3> QED BY <3>3, Zenon DEF a, h, y, z
  <2>7. mgr'.info = mgr.info /\ mgr'.height = mgr.height + 1 /\ mgr'.hash = Hash(b) /\ Latest' = Latest
    BY <2>6, Zenon DEF Latest
  <2>8. FilesInv' BY <2>1, Zenon DEF IInv, FilesInv
  <2>9. acked \in Seq(Block) /\ Len(acked) \in Nat /\ mgr.height = Len(acked) /\ DOMAIN acked = 1 .. Len(acked)
    BY <2>2, Facts, ServingIs, Zenon
  <2>10. /\ Append(acked, b) \in Seq(Block) /\ Len(Append(acked, b)) = Len(acked) + 1
         /\ \A k \in 1 .. Len(acked) : Append(acked, b)[k] = acked[k]
         /\ Append(acked, b)[Len(acked) + 1] = b /\ DOMAIN Append(acked, b) = 1 .. Len(acked) + 1
    BY <2>4, <2>9, SeqIs
  <2>11. AckedInv' /\ LogStep
    <3>1. CASE phase' = "idle"
      <4>1. acked' = Append(acked, b) BY <2>1, <3>1, Zenon
      <4>2. ASSUME NEW k \in 1 .. Len(acked) + 1 PROVE acked'[k] = T[k]
        <5>1. CASE k \in 1 .. Len(acked) BY <2>9, <2>10, <4>1, <5>1, Zenon DEF IInv, AckedInv
        <5>2. CASE k = Len(acked) + 1 BY <2>5, <2>9, <2>10, <4>1, <5>2, Zenon
        <5> QED BY <2>9, <5>1, <5>2
      <4>3. Len(acked') = Len(T) BY <2>5, <2>9, <2>10, <4>1, Zenon
      <4>4. Len(acked') <= Len(Stored(files')) BY <2>1, <2>5, <2>9, <4>3
      <4>5. AckedInv' BY <2>1, <2>10, <4>1, <4>2, <4>4, Zenon DEF AckedInv
      <4> QED BY <2>1, <4>3, <4>5, Zenon DEF LogStep
    <3>2. CASE phase' # "idle"
      <4>1. acked' = acked BY <2>1, <3>2, Zenon
      <4> QED BY <2>1, <4>1, FilesSame, Zenon
    <3> QED BY <3>1, <3>2, Zenon
  <2>12. DbInv' BY <2>1, DbSame, Zenon
  <2>13. MgrInv'
    <3> HIDE DEF c, b
    <3> QED BY <2>6, Zenon DEF MgrInv
  <2>14. OpeningInv' BY <2>3, Zenon DEF OpeningInv
  <2>15. ServingInv'
    <3> SUFFICES ASSUME phase' = "idle" PROVE ServingInv' BY <2>3, Zenon DEF ServingInv, Serving
    <3>1. acked' = Append(acked, b) BY <2>1, Zenon
    <3>2. mgr'.height = Len(acked') /\ acked' # <<>> /\ acked'[Len(acked')] = b
      <4>1. Len(acked') = Len(acked) + 1 /\ acked'[Len(acked')] = b BY <2>10, <3>1, Zenon
      <4>2. Len(acked') # 0 BY <2>9, <4>1
      <4> QED BY <2>7, <2>9, <4>1, <4>2
    <3>3. /\ files # <<>> /\ db.savePoint = mgr.height /\ SameFile(db) /\ SameFile(dbSynced)
          /\ Covers(files, mgr.info, mgr.height + 1)
      BY <2>1, <2>2, Zenon DEF IInv, ServingInv
    <3>4. db'.savePoint = mgr'.height - 1 BY <2>1, <2>7, <2>9, <3>3
    <3>5. SameFile(db)' /\ SameFile(dbSynced)' BY <2>1, <2>7, <3>3, Zenon DEF SameFile
    <3> HIDE DEF b
    <3> QED BY <2>1, <2>7, <3>2, <3>3, <3>4, <3>5, Zenon DEF ServingInv
  <2>16. AddInv' BY <2>1, <2>3, <2>5, <2>7, Zenon DEF AddInv, Serving, Unwritten, Written, Retrying
  <2>17. OpenSucceeds' BY <2>3, Zenon DEF OpenSucceeds
  <2> QED BY <2>8, <2>11, <2>12, <2>13, <2>14, <2>15, <2>16, <2>17, Facts DEF IInv
<1> QED BY <1>SaveInfoStep, <1>IndexBlockStep, <1>PublishStep, <1>FinishAddStep, Zenon

\* The caller panics on an error, and the process ends.
LEMMA CallerPanicsStep == ASSUME Induction, IInv, CallerPanics PROVE IInv' /\ LogStep
<1>1. /\ phase' = "panicked" /\ files' = files /\ db' = db /\ dbSynced' = dbSynced /\ mgr' = mgr /\ acked' = acked
  BY Zenon DEF CallerPanics
<1>2. FilesInv' /\ AckedInv' /\ LogStep BY <1>1, FilesSame, Zenon
<1>3. DbInv' BY <1>1, DbSame, Zenon
<1>4. MgrInv' BY <1>1, Zenon DEF IInv, MgrInv
<1>5. OpeningInv' /\ ServingInv' /\ AddInv' /\ OpenSucceeds'
  BY <1>1, Zenon DEF OpeningInv, ServingInv, AddInv, OpenSucceeds, Serving, Unwritten, Written, Retrying
<1> QED BY <1>2, <1>3, <1>4, <1>5, Facts, Zenon DEF IInv

\* The bytes of the block are written, and may be lost in a crash.
LEMMA WriteSteps ==
  ASSUME Induction
  PROVE  IInv /\ (AppendBytes \/ SyncBytes \/ Crash) => IInv' /\ LogStep
\* That changes no block.
<1>TornIs.
  ASSUME NEW fs \in Files, NEW n \in 1 .. Len(fs), NEW gs, NEW t \in BOOLEAN, Tears(fs, gs, n, t)
  PROVE  /\ gs \in Files /\ SameBlocks(fs, gs) /\ Len(gs) = Len(fs)
         /\ gs[n].torn = t /\ \A m \in 1 .. Len(fs) : m # n => gs[m] = fs[m]
  <2> USE <1>TornIs
  <2> DEFINE f == [fs[n] EXCEPT !.torn = t]
  <2>1. Len(fs) \in Nat /\ DOMAIN fs = 1 .. Len(fs) /\ fs[n] \in FileSet BY FileIs, Zenon
  <2>2. f \in FileSet /\ f.torn = t /\ f.blocks = fs[n].blocks BY <2>1, Zenon DEF FileSet
  <2>3. gs = [fs EXCEPT ![n] = f] BY Zenon DEF Tears
  <2> HIDE DEF f
  <2>4. gs \in Files /\ Len(gs) = Len(fs) /\ gs[n] = f BY <2>2, <2>3 DEF Files
  <2>5. \A m \in 1 .. Len(fs) : m # n => gs[m] = fs[m] BY <2>1, <2>3, Zenon
  <2>6. SameBlocks(fs, gs) BY <2>2, <2>4, <2>5, Zenon DEF SameBlocks
  <2> QED BY <2>2, <2>4, <2>5, <2>6, Zenon
\* All that the invariants say of files with the same blocks.
<1>TornStep.
  ASSUME IInv, files' \in Files, SameBlocks(files, files'), acked' = acked
  PROVE  /\ FilesInv' /\ AckedInv' /\ LogStep /\ Stored(files') = Stored(files) /\ Len(files') = Len(files)
         /\ \A d : /\ IsSound(files, d)
                   /\ \A n \in 1 .. Len(files) : d.info # <<>> /\ files'[n].torn => n <= d.info[1].latestFileNumber + 1
                   => IsSound(files', d)
  <2> USE <1>TornStep
  <2>1. files \in Files /\ DOMAIN files = 1 .. Len(files) /\ Len(files) \in Nat BY Facts, Zenon
  <2>2. Len(files') = Len(files) /\ DOMAIN files' = 1 .. Len(files) /\ \A n \in 1 .. Len(files) : files'[n].blocks = files[n].blocks
    BY FileIs, Zenon DEF SameBlocks
  <2>3. /\ Stored(files') = Stored(files)
        /\ \A loc, k : IsPlace(files, loc, k) => IsPlace(files', loc, k)
        /\ \A i, k : Covers(files, i, k) => Covers(files', i, k)
    BY <2>1, SameIs, Zenon
  <2>4. FilesInv' BY <2>1, <2>2, <2>3, Zenon DEF IInv, FilesInv, Files
  <2>5. AckedInv' /\ LogStep BY <2>3, Zenon DEF IInv, AckedInv, LogStep
  <2>6. ASSUME NEW d, IsSound(files, d),
               \A n \in 1 .. Len(files) : d.info # <<>> /\ files'[n].torn => n <= d.info[1].latestFileNumber + 1
        PROVE  IsSound(files', d)
    <3>1. d.savePoint <= Len(Stored(files')) - 1 BY <2>3, <2>6, Facts DEF IsSound
    <3> QED BY <2>1, <2>2, <2>3, <2>6, <3>1, SoundKept, Zenon
  <2> QED BY <2>2, <2>3, <2>4, <2>5, <2>6, Zenon
\* The bytes of a block that is not complete.
<1>AppendBytesStep. ASSUME IInv, AppendBytes PROVE IInv' /\ LogStep
  <2> USE <1>AppendBytesStep
  <2>1. /\ phase = "append" /\ phase' = "sync" /\ files' = [files EXCEPT ![Latest].torn = TRUE]
        /\ db' = db /\ dbSynced' = dbSynced /\ mgr' = mgr /\ blk' = blk /\ acked' = acked
    BY Zenon DEF AppendBytes, Latest
  <2>2. phase \in Serving BY <2>1, Zenon DEF Serving
  <2>3. files \in Files /\ Len(files) \in Nat /\ DOMAIN files = 1 .. Len(files) BY Facts, Zenon
  <2>4. Latest \in 1 .. Len(files) /\ files # <<>> BY <2>2, ServingIs, Zenon
  <2>5. /\ files' \in Files /\ SameBlocks(files, files') /\ Len(files') = Len(files)
        /\ \A m \in 1 .. Len(files) : m # Latest => files'[m] = files[m]
    <3>1. Tears(files, files', Latest, TRUE) /\ TRUE \in BOOLEAN BY <2>1, Zenon DEF Tears
    <3> QED BY <2>3, <2>4, <3>1, <1>TornIs, Zenon
  <2>6. FilesInv' /\ AckedInv' /\ LogStep /\ Stored(files') = Stored(files) BY <2>1, <2>5, <1>TornStep, Zenon
  <2>7. DbInv'
    <3>1. ASSUME NEW d, d = db \/ d = dbSynced PROVE IsSound(files', d)
      <4>1. /\ IsSound(files, d) /\ d.info[1].latestFileNumber + 1 = Latest
            /\ \A n \in 1 .. Len(files) : files[n].torn => n <= Latest
        BY <2>2, <3>1, SameFileIs, Zenon
      <4>2. \A n \in 1 .. Len(files) : files'[n].torn => n <= Latest
        <5>1. Latest <= Latest BY <2>3, <2>4
        <5> QED BY <2>5, <4>1, <5>1, Zenon
      <4> QED BY <2>1, <2>5, <4>1, <4>2, <1>TornStep, Zenon
    <3> QED BY <2>1, <3>1, Zenon DEF DbInv
  <2>8. MgrInv' BY <2>1, Zenon DEF IInv, MgrInv
  <2>9. OpeningInv' BY <2>1, Zenon DEF OpeningInv
  <2>10. ServingInv'
    <3>1. files' # <<>>
      <4>1. Len(files') # 0 BY <2>3, <2>4, <2>5
      <4> QED BY <4>1
    <3>2. Covers(files', mgr.info, mgr.height) BY <2>1, <2>2, <2>3, <2>5, SameIs, Zenon DEF IInv, ServingInv
    <3> QED BY <2>1, <2>2, <3>1, <3>2, Zenon DEF IInv, ServingInv, SameFile
  <2>11. AddInv'
    <3>1. /\ blk # <<>> /\ blk = <<blk[1]>> /\ blk[1] \in Block /\ blk[1].number = mgr.height
          /\ Len(Stored(files)) = mgr.height
      BY <2>1, Zenon DEF IInv, AddInv, Serving, Unwritten
    <3> QED BY <2>1, <2>6, <3>1, Zenon DEF AddInv, Serving, Unwritten, Written, Retrying
  <2>12. OpenSucceeds' BY <2>1, Zenon DEF OpenSucceeds
  <2> QED BY <2>6, <2>7, <2>8, <2>9, <2>10, <2>11, <2>12, Facts, Zenon DEF IInv
\* The block becomes the last one in the files.
<1>SyncBytesStep. ASSUME IInv, SyncBytes PROVE IInv' /\ LogStep
  <2> USE <1>SyncBytesStep
  <2> DEFINE n == Latest
             b == blk[1]
             T == Stored(files)
             j == Len(files[n].blocks)
  <2>1. /\ phase = "sync" /\ phase' = "saveInfo"
        /\ Appends(files, files', n, b)
        /\ db' = db /\ dbSynced' = dbSynced /\ mgr' = mgr /\ blk' = blk /\ acked' = acked
    BY Zenon DEF SyncBytes, Latest, Appends
  <2>2. phase \in Serving /\ phase \in Serving \ {"idle"} BY <2>1, Zenon DEF Serving
  <2>3. files \in Files /\ Len(files) \in Nat /\ DOMAIN files = 1 .. Len(files) /\ T \in Seq(Block) /\ Len(T) \in Nat
        /\ Len(acked) <= Len(T) /\ DOMAIN acked = 1 .. Len(acked) /\ Len(acked) \in Nat /\ DOMAIN T = 1 .. Len(T)
    BY Facts, Zenon
  <2>4. n \in 1 .. Len(files) /\ files # <<>> /\ IsOpen(files, n) /\ mgr.height \in Nat
        /\ n = mgr.info.latestFileNumber + 1
    BY <2>2, ServingIs, Zenon
  <2>5. blk # <<>> /\ blk = <<b>> /\ b \in Block /\ b.number = mgr.height BY <2>2, BlkIs, Zenon
  <2>6. Len(T) = mgr.height BY <2>1, Zenon DEF IInv, AddInv, Unwritten
  <2>7. Latest' = n /\ j = Len(files[n].blocks) BY <2>1, Zenon DEF Latest
  <2> HIDE DEF n, b, j
  <2>8. /\ files' \in Files /\ Len(files') = Len(files) /\ ~files'[n].torn
        /\ \A m \in 1 .. Len(files) : m # n => files'[m] = files[m]
        /\ IsOpen(files', n) /\ Agree(files, files', n, j)
        /\ Stored(files') = Append(T, b) /\ files'[n].blocks # <<>>
        /\ Len(T) = Before(files, n) + j
    <3>1. /\ files \in Files /\ n \in 1 .. Len(files) /\ IsOpen(files, n) /\ b \in Block
          /\ Appends(files, files', n, b) /\ j = Len(files[n].blocks)
      BY <2>1, <2>3, <2>4, <2>5, <2>7, Zenon
    <3>2. HasAppended(files, files', n, b, j) BY <3>1, AppendHas, Zenon
    <3> QED BY <3>2, Zenon DEF HasAppended
  <2>9. DOMAIN files' = 1 .. Len(files) BY <2>8, FileIs, Zenon
  <2>10. /\ Append(T, b) \in Seq(Block) /\ Len(Append(T, b)) = Len(T) + 1
         /\ \A k \in 1 .. Len(T) : Append(T, b)[k] = T[k]
         /\ Append(T, b)[Len(T) + 1] = b /\ DOMAIN Append(T, b) = 1 .. Len(Append(T, b))
    BY <2>3, <2>5, SeqIs
  <2>11. FilesInv'
    <3>1. ASSUME NEW m \in DOMAIN files', m < Len(files') PROVE files'[m].blocks # <<>>
      BY <2>3, <2>8, <2>9, <3>1, Zenon DEF IInv, FilesInv
    <3>2. ASSUME NEW k \in DOMAIN Stored(files') PROVE Stored(files')[k].number = k - 1
      <4>1. k \in 1 .. Len(T) \/ k = Len(T) + 1 BY <2>3, <2>8, <2>10
      <4>2. CASE k \in 1 .. Len(T)
        <5>1. Stored(files')[k] = T[k] BY <2>8, <2>10, <4>2, Zenon
        <5>2. T[k].number = k - 1 BY <2>3, <4>2, Zenon DEF IInv, FilesInv
        <5> QED BY <5>1, <5>2, Zenon
      <4>3. CASE k = Len(T) + 1
        <5>1. Stored(files')[k] = b BY <2>8, <2>10, <4>3, Zenon
        <5> QED BY <2>3, <2>4, <2>5, <2>6, <4>3, <5>1
      <4> QED BY <4>1, <4>2, <4>3, Zenon
    <3>3. files' \in Seq(FileSet) BY <2>8, Zenon DEF Files
    <3> QED BY <3>1, <3>2, <3>3, Zenon DEF FilesInv
  <2>12. AckedInv'
    <3>1. Len(acked) <= Len(Stored(files')) BY <2>3, <2>8, <2>10
    <3>2. ASSUME NEW k \in DOMAIN acked PROVE acked[k] = Stored(files')[k]
      <4>1. k \in 1 .. Len(T) BY <2>3
      <4>2. acked[k] = T[k] BY Zenon DEF IInv, AckedInv
      <4> QED BY <2>8, <2>10, <4>1, <4>2, Zenon
    <3> QED BY <2>1, <3>1, <3>2, Zenon DEF IInv, AckedInv
  <2>13. LogStep BY <2>1, <2>5, <2>8, Zenon DEF LogStep
  <2>14. /\ \A k \in 1 .. Len(T) : Stored(files')[k] = T[k]
         /\ \A loc, k : IsPlace(files, loc, k) /\ k <= Len(T) => IsPlace(files', loc, k)
    BY <2>3, <2>8, AgreeStored
  <2>15. ASSUME NEW i, NEW k, Covers(files, i, k), i.latestFileNumber + 1 = n PROVE Covers(files', i, k)
    <3>1. k <= Len(T) BY <2>3, <2>15, CoversIs, Zenon
    <3> QED BY <2>3, <2>8, <2>15, <3>1, CoversKept
  <2>16. ASSUME NEW d, d = db \/ d = dbSynced
         PROVE  IsSound(files', d) /\ d.savePoint < mgr.height /\ \E k \in 0 .. mgr.height : Covers(files', d.info[1], k)
    <3>1. /\ IsSound(files, d) /\ d.info # <<>> /\ d.info[1].latestFileNumber + 1 = n
          /\ d.savePoint \in -1 .. Len(T) - 1
          /\ \A m \in 1 .. Len(files) : files[m].torn => m <= n
      BY <2>2, <2>16, SameFileIs, Zenon DEF n
    <3>2. d.savePoint <= Len(Stored(files')) - 1 /\ d.savePoint + 1 <= Len(T) /\ d.savePoint < mgr.height /\ d.savePoint \in Int
      <4>1. Len(Stored(files')) = Len(T) + 1 BY <2>8, <2>10, Zenon
      <4> HIDE DEF T
      <4> QED BY <2>3, <2>6, <3>1, <4>1
    <3>3. \A loc, k : IsPlace(files, loc, k) /\ k <= d.savePoint + 1 => IsPlace(files', loc, k)
      <4> SUFFICES ASSUME NEW loc, NEW k, IsPlace(files, loc, k), k <= d.savePoint + 1 PROVE IsPlace(files', loc, k)
        OBVIOUS
      <4>1. k \in 1 .. Len(T) BY <2>3, PlaceIs, Zenon
      <4>2. k <= Len(T) BY <2>3, <4>1
      <4> QED BY <2>14, <4>2, Zenon
    <3>4. \A m \in 1 .. Len(files') : files'[m].torn => m <= n BY <2>3, <2>4, <2>8, <3>1, Zenon
    <3>5. \A k : Covers(files, d.info[1], k) => Covers(files', d.info[1], k) BY <2>15, <3>1, Zenon
    <3>6. IsSound(files', d) BY <2>3, <2>8, <3>1, <3>2, <3>3, <3>4, <3>5, SoundKept, Zenon
    <3>7. PICK k \in 0 .. Len(T) : Covers(files, d.info[1], k) BY <2>2, <2>16, SameFileIs, Zenon
    <3> QED BY <2>6, <3>2, <3>5, <3>6, <3>7, Zenon
  <2>17. DbInv' BY <2>1, <2>16, Zenon DEF DbInv
  <2>18. MgrInv' BY <2>1, Zenon DEF IInv, MgrInv
  <2>19. OpeningInv' BY <2>1, Zenon DEF OpeningInv
  <2>20. ServingInv'
    <3>1. files' # <<>>
      <4>1. Len(files) # 0 BY <2>3, <2>4
      <4>2. Len(files') # 0 BY <2>8, <4>1, Zenon
      <4> QED BY <4>2
    <3>2. Covers(files', mgr.info, mgr.height) BY <2>1, <2>2, <2>4, <2>15, Zenon DEF IInv, ServingInv
    <3> QED BY <2>1, <2>2, <3>1, <3>2 DEF IInv, ServingInv, SameFile
  <2>21. AddInv'
    <3>1. Len(Stored(files')) = mgr.height + 1 /\ Stored(files')[mgr.height + 1] = b BY <2>6, <2>8, <2>10, Zenon
    <3>2. ASSUME n < Len(files) PROVE mgr.info.latestFileSize > 0
      <4>1. files[Latest].blocks # <<>> BY <2>3, <2>4, <2>7, <3>2, Zenon DEF IInv, FilesInv, n
      <4> QED BY <2>1, <2>2, <2>6, <4>1, SizePositive, Zenon
    <3> QED BY <2>1, <2>5, <2>7, <2>8, <2>16, <3>1, <3>2, Zenon DEF AddInv, Serving, Unwritten, Written, Retrying, b
  <2>22. OpenSucceeds' BY <2>1, Zenon DEF OpenSucceeds
  <2> QED BY <2>11, <2>12, <2>13, <2>17, <2>18, <2>19, <2>20, <2>21, <2>22, Facts DEF IInv
\* A crash keeps all complete blocks, and a database that was sound.
<1>CrashStep. ASSUME IInv, Crash PROVE IInv' /\ LogStep
  <2> USE <1>CrashStep
  <2>1. /\ phase' = "closed" /\ db' \in {db, dbSynced} /\ dbSynced' = db' /\ mgr' = NoMgr /\ acked' = acked
        /\ files' \in {files} \union {[files EXCEPT ![n].torn = FALSE] : n \in {k \in DOMAIN files : files[k].torn}}
    BY Zenon DEF Crash
  <2>2. files \in Files /\ Len(files) \in Nat /\ DOMAIN files = 1 .. Len(files) BY Facts, Zenon
  <2>3. /\ files' \in Files /\ SameBlocks(files, files')
        /\ \A n \in 1 .. Len(files) : files'[n].torn => files[n].torn
    <3>1. CASE files' = files BY <2>2, <3>1, Zenon DEF SameBlocks
    <3>2. CASE files' # files
      <4>1. PICK n \in 1 .. Len(files) : files' = [files EXCEPT ![n].torn = FALSE] BY <2>1, <2>2, <3>2, Zenon
      <4>2. Tears(files, files', n, FALSE) /\ FALSE \in BOOLEAN BY <4>1, Zenon DEF Tears
      <4>3. /\ files' \in Files /\ SameBlocks(files, files') /\ files'[n].torn = FALSE
            /\ \A m \in 1 .. Len(files) : m # n => files'[m] = files[m]
        BY <2>2, <4>2, <1>TornIs, Zenon
      <4> QED BY <4>3, Zenon
    <3> QED BY <3>1, <3>2, Zenon
  <2>4. FilesInv' /\ AckedInv' /\ LogStep BY <2>1, <2>3, <1>TornStep, Zenon
  <2>5. ASSUME NEW d, d = db \/ d = dbSynced PROVE IsSound(files', d)
    <3>1. IsSound(files, d) BY <2>5, Zenon DEF IInv, DbInv
    <3>2. \A n \in 1 .. Len(files) : d.info # <<>> /\ files'[n].torn => n <= d.info[1].latestFileNumber + 1
      BY <2>2, <2>3, <3>1, Zenon DEF IsSound
    <3> QED BY <2>1, <2>3, <3>1, <3>2, <1>TornStep, Zenon
  <2>6. DbInv' BY <2>1, <2>5, Zenon DEF DbInv
  <2>7. MgrInv' BY <2>1, Zenon DEF MgrInv, NoMgr
  <2>8. OpeningInv' /\ ServingInv' /\ AddInv' /\ OpenSucceeds'
    BY <2>1, Zenon DEF OpeningInv, ServingInv, AddInv, OpenSucceeds, Serving, Unwritten, Written, Retrying
  <2> QED BY <2>4, <2>6, <2>7, <2>8, Facts, Zenon DEF IInv
<1> QED BY <1>AppendBytesStep, <1>SyncBytesStep, <1>CrashStep, Zenon

-----------------------------------------------------------------------------
(* The steps that shorten a file *)

\* Cutting the file that is appended to, behind the acknowledged blocks.
LEMMA CutStep ==
  ASSUME Induction, IInv, NEW n \in 1 .. Len(files), IsOpen(files, n), NEW j \in 0 .. Len(files[n].blocks),
         Cuts(files, files', n, j), n < Len(files) => j # 0,
         Len(acked) <= Before(files, n) + j, acked' = acked
  PROVE  /\ FilesInv' /\ AckedInv' /\ LogStep
         /\ files' \in Files /\ files' # <<>> /\ Len(files') = Len(files) /\ ~files'[n].torn
         /\ Len(Stored(files')) = Before(files, n) + j /\ Before(files, n) + j \in 0 .. Len(Stored(files))
         /\ \A i, k : Covers(files, i, k) /\ i.latestFileNumber + 1 = n /\ k <= Before(files, n) + j => Covers(files', i, k)
         /\ \A d : /\ IsSound(files, d) /\ d.savePoint < Before(files, n) + j
                   /\ d.info # <<>> => /\ d.info[1].latestFileNumber + 1 = n
                                       /\ \E k \in 0 .. Before(files, n) + j : Covers(files, d.info[1], k)
                   => IsSound(files', d)
<1> DEFINE T == Stored(files)
           z == Before(files, n) + j
<1>1. files \in Files /\ Len(files) \in Nat /\ T \in Seq(Block) /\ Len(T) \in Nat
      /\ Len(acked) <= Len(T) /\ DOMAIN acked = 1 .. Len(acked) /\ Len(acked) \in Nat
  BY Facts, Zenon
<1>2. /\ files' \in Files /\ Len(files') = Len(files) /\ ~files'[n].torn /\ files' # <<>>
      /\ \A m \in 1 .. Len(files) : m # n => files'[m] = files[m]
      /\ IsOpen(files', n) /\ Agree(files, files', n, j) /\ Len(files'[n].blocks) = j
      /\ z \in 0 .. Len(T) /\ Stored(files') = SubSeq(T, 1, z) /\ Len(Stored(files')) = z
  BY <1>1, CutIs
<1>3. \A loc, k : IsPlace(files, loc, k) /\ k <= z => IsPlace(files', loc, k) BY <1>1, <1>2, AgreeStored
<1> HIDE DEF z, T
<1>4. /\ SubSeq(T, 1, z) \in Seq(Block) /\ \A k \in 1 .. z : SubSeq(T, 1, z)[k] = T[k] BY <1>1, <1>2, SeqIs
<1>5. DOMAIN Stored(files') = 1 .. z BY <1>2, <1>4, SeqIs
<1>6. z \in Nat /\ z <= Len(T) /\ Len(acked) <= z BY <1>1, <1>2 DEF z
<1>7. FilesInv'
  <2>1. ASSUME NEW m \in DOMAIN files', m < Len(files') PROVE files'[m].blocks # <<>>
    <3>1. m \in 1 .. Len(files) /\ m \in DOMAIN files BY <1>1, <1>2, FileIs, Zenon
    <3>2. CASE m = n BY <1>2, <2>1, <3>2
    <3>3. CASE m # n BY <1>2, <2>1, <3>1, <3>3, Zenon DEF IInv, FilesInv
    <3> QED BY <3>2, <3>3, Zenon
  <2>2. ASSUME NEW k \in DOMAIN Stored(files') PROVE Stored(files')[k].number = k - 1
    <3>1. k \in 1 .. z /\ k \in 1 .. Len(T) BY <1>1, <1>5, <1>6
    <3>2. k \in DOMAIN Stored(files) BY <3>1, Facts, Zenon DEF T
    <3>3. T[k].number = k - 1 BY <3>2, Zenon DEF IInv, FilesInv, T
    <3> QED BY <1>2, <1>4, <3>1, <3>3, Zenon
  <2> QED BY <1>2, <2>1, <2>2, Zenon DEF FilesInv, Files
<1>8. AckedInv'
  <2>1. ASSUME NEW k \in DOMAIN acked PROVE acked[k] = Stored(files')[k]
    <3>1. acked[k] = T[k] BY Zenon DEF IInv, AckedInv, T
    <3>2. k \in 1 .. z BY <1>1, <1>6
    <3> QED BY <1>2, <1>4, <3>1, <3>2, Zenon
  <2>2. acked \in Seq(Block) /\ Len(acked) <= Len(Stored(files')) BY <1>2, <1>6, Facts, Zenon
  <2> QED BY <2>1, <2>2, Zenon DEF AckedInv
<1>9. LogStep
  <2>1. z \in Len(acked) .. Len(T) BY <1>1, <1>6
  <2> QED BY <1>2, <2>1, Zenon DEF LogStep, T
<1>10. ASSUME NEW i, NEW k, Covers(files, i, k), i.latestFileNumber + 1 = n, k <= z
       PROVE  Covers(files', i, k)
  BY <1>1, <1>2, <1>10, CoversKept DEF z
<1>11. ASSUME NEW d, IsSound(files, d), d.savePoint < z,
              d.info # <<>> => /\ d.info[1].latestFileNumber + 1 = n
                               /\ \E k \in 0 .. z : Covers(files, d.info[1], k)
       PROVE  IsSound(files', d)
  <2>1. d.savePoint \in Int /\ d.savePoint <= Len(Stored(files')) - 1 /\ d.savePoint + 1 <= z
    <3>1. d.savePoint \in Int BY <1>1, <1>11 DEF IsSound
    <3> QED BY <1>2, <1>6, <1>11, <3>1
  <2>2. \A loc, k : IsPlace(files, loc, k) /\ k <= d.savePoint + 1 => IsPlace(files', loc, k)
    <3> SUFFICES ASSUME NEW loc, NEW k, IsPlace(files, loc, k), k <= d.savePoint + 1 PROVE k <= z BY <1>3, Zenon
    <3>1. files \in Files BY <1>1, Zenon
    <3>2. k \in 1 .. Len(Stored(files)) BY <3>1, PlaceIs, Zenon
    <3>3. k \in Nat BY <3>2
    <3> QED BY <1>6, <2>1, <3>3
  <2>3. ASSUME d.info # <<>>, NEW k \in Nat, Covers(files, d.info[1], k) PROVE Covers(files', d.info[1], k)
    <3>1. PICK l \in 0 .. z : Covers(files, d.info[1], l) BY <1>11, <2>3, Zenon
    <3>2. k = l BY <1>1, <2>3, <3>1, CoversIs
    <3>3. k <= z BY <1>6, <3>2
    <3> QED BY <1>10, <1>11, <2>3, <3>3, Zenon
  <2>4. ASSUME d.info # <<>>, NEW m \in 1 .. Len(files'), files'[m].torn PROVE m <= d.info[1].latestFileNumber + 1
    <3>1. m # n /\ files[m].torn /\ m \in DOMAIN files BY <1>2, <2>4, Facts, Zenon
    <3> QED BY <1>11, <2>4, <3>1, Zenon DEF IsSound
  <2> QED BY <1>1, <1>2, <1>11, <2>1, <2>2, <2>3, <2>4, SoundKept, Zenon
<1> QED BY <1>2, <1>7, <1>8, <1>9, <1>10, <1>11, Zenon DEF z, T

\* That again, with the number z of the blocks that are left.
HasCut(n, z) ==
  /\ FilesInv' /\ AckedInv' /\ LogStep /\ files' # <<>> /\ ~files'[n].torn
  /\ Len(Stored(files')) = z
  /\ \A i, k : Covers(files, i, k) /\ i.latestFileNumber + 1 = n /\ k <= z => Covers(files', i, k)
  /\ \A d : /\ IsSound(files, d) /\ d.savePoint < z
            /\ d.info # <<>> => /\ d.info[1].latestFileNumber + 1 = n
                                /\ \E k \in 0 .. z : Covers(files, d.info[1], k)
            => IsSound(files', d)

LEMMA CutHas ==
  ASSUME Induction, IInv, NEW n \in 1 .. Len(files), IsOpen(files, n), NEW j \in 0 .. Len(files[n].blocks),
         Cuts(files, files', n, j), n < Len(files) => j # 0,
         Len(acked) <= Before(files, n) + j, acked' = acked
  PROVE  HasCut(n, Before(files, n) + j)
BY CutStep, Zenon DEF HasCut

\* A call of addBlock that fails leaves the acknowledged blocks, and what it has
\* written is taken back unless the index failed.
LEMMA FailAddStep == ASSUME Induction, IInv, FailAdd PROVE IInv' /\ LogStep
<1> DEFINE c == CachePuts(mgr.cache, blk[1])
<1>1. /\ phase \in Failing /\ phase' \in {"panicked", "error"}
      /\ files' = (IF phase = "index" THEN files
                   ELSE TruncateFile(files, mgr.info.latestFileNumber, mgr.info.latestFileSize))
      /\ mgr' = mgr \/ mgr' = [mgr EXCEPT !.cache = c]
      /\ db' = db /\ dbSynced' = dbSynced /\ blk' = blk /\ acked' = acked
  BY Zenon DEF FailAdd
<1> HIDE DEF c
<1>2. phase \in {"append", "sync", "saveInfo", "index"} BY <1>1, StoreAssumption, Zenon
<1>3. phase \in Serving /\ phase \in Serving \ {"idle"} /\ phase # "bcInfo" /\ phase # "publish"
  BY <1>2, Zenon DEF Serving
<1>4. /\ MgrInv' /\ mgr'.info = mgr.info /\ mgr'.height = mgr.height /\ mgr'.hash = mgr.hash
  <2>1. mgr' = mgr \/ mgr' = [info |-> mgr.info, height |-> mgr.height, hash |-> mgr.hash, cache |-> c]
    BY <1>1, MgrIs, Zenon DEF IInv
  <2> QED BY <2>1 DEF IInv, MgrInv
<1>5. Latest' = Latest BY <1>4, Zenon DEF Latest
<1>6. /\ files # <<>> /\ Latest \in 1 .. Len(files) /\ IsOpen(files, Latest) /\ mgr.height \in Nat
      /\ mgr.height = Len(acked) /\ EndsAt(files, Latest, mgr.info.latestFileSize, mgr.height)
      /\ Latest = mgr.info.latestFileNumber + 1 /\ mgr.info.latestFileNumber \in Nat
      /\ Before(files, Latest) \in Nat
  BY <1>3, ServingIs, Zenon
<1>7. Covers(files, mgr.info, mgr.height) /\ db.savePoint = mgr.height - 1
  BY <1>2, <1>3, Zenon DEF IInv, ServingInv
<1>8. /\ FilesInv' /\ AckedInv' /\ LogStep /\ DbInv' /\ files' # <<>> /\ Covers(files', mgr.info, mgr.height)
      /\ phase # "index" => Len(Stored(files')) = mgr.height /\ ~files'[Latest].torn
  <2>1. CASE phase = "index"
    <3>1. files' = files BY <1>1, <2>1, Zenon
    <3> QED BY <1>1, <1>6, <1>7, <2>1, <3>1, FilesSame, DbSame, Zenon
  <2>2. CASE phase # "index"
    <3>1. PICK j \in 0 .. Len(files[Latest].blocks) :
            mgr.height = Before(files, Latest) + j /\ mgr.info.latestFileSize = Ends(files[Latest].blocks)[j]
      BY <1>6, Zenon DEF EndsAt
    <3>2. files \in Files /\ Len(Stored(files)) \in Nat BY Facts, Zenon
    <3>3. Cuts(files, files', Latest, j)
      <4>1. files' = TruncateFile(files, mgr.info.latestFileNumber, mgr.info.latestFileSize) BY <1>1, <2>2, Zenon
      <4> QED BY <1>6, <3>1, <3>2, <4>1, TruncateIs, Zenon
    <3>4. ASSUME Latest < Len(files) PROVE j # 0
      <4>1. mgr.info.latestFileSize > 0
        <5>1. CASE phase = "saveInfo" BY <3>4, <5>1, Zenon DEF IInv, AddInv
        <5>2. CASE phase # "saveInfo"
          <6>1. Len(Stored(files)) = mgr.height BY <1>2, <2>2, <5>2, Zenon DEF IInv, AddInv, Unwritten
          <6>2. files[Latest].blocks # <<>> BY <1>6, <3>4, Facts, Zenon DEF IInv, FilesInv
          <6> QED BY <1>3, <6>1, <6>2, SizePositive, Zenon
        <5> QED BY <5>1, <5>2, Zenon
      <4>2. files[Latest].blocks \in Seq(Block) BY <1>3, ServingIs, Zenon
      <4>3. Ends(files[Latest].blocks)[0] = 0 BY <4>2, EndsIs
      <4> QED BY <3>1, <4>1, <4>3
    <3>5. Len(acked) <= Before(files, Latest) + j /\ acked' = acked BY <1>1, <1>6, <3>1
    <3>6. /\ FilesInv' /\ AckedInv' /\ LogStep /\ files' # <<>> /\ ~files'[Latest].torn
          /\ Len(Stored(files')) = mgr.height
          /\ \A i, k : Covers(files, i, k) /\ i.latestFileNumber + 1 = Latest /\ k <= mgr.height => Covers(files', i, k)
          /\ \A d : /\ IsSound(files, d) /\ d.savePoint < mgr.height
                    /\ d.info # <<>> => /\ d.info[1].latestFileNumber + 1 = Latest
                                        /\ \E k \in 0 .. mgr.height : Covers(files, d.info[1], k)
                    => IsSound(files', d)
      <4>1. HasCut(Latest, Before(files, Latest) + j) BY <1>6, <3>1, <3>3, <3>4, <3>5, CutHas, Zenon
      <4>2. HasCut(Latest, mgr.height) BY <3>1, <4>1, Zenon
      <4> QED BY <4>2, Zenon DEF HasCut
    <3>7. ASSUME NEW d, d = db \/ d = dbSynced PROVE IsSound(files', d)
      <4>1. /\ IsSound(files, d) /\ d.info[1].latestFileNumber + 1 = Latest
            /\ d.savePoint \in -1 .. Len(Stored(files)) - 1
            /\ \E k \in 0 .. Len(Stored(files)) : Covers(files, d.info[1], k)
        BY <1>3, <3>7, SameFileIs, Zenon
      <4>2. d.savePoint < mgr.height /\ \E k \in 0 .. mgr.height : Covers(files, d.info[1], k)
        <5>1. CASE phase = "saveInfo" BY <3>7, <5>1, Zenon DEF IInv, AddInv
        <5>2. CASE phase # "saveInfo"
          <6>1. Len(Stored(files)) = mgr.height BY <1>2, <2>2, <5>2, Zenon DEF IInv, AddInv, Unwritten
          <6>2. d.savePoint < mgr.height BY <1>6, <4>1, <6>1
          <6> QED BY <4>1, <6>1, <6>2, Zenon
        <5> QED BY <5>1, <5>2, Zenon
      <4> QED BY <3>6, <4>1, <4>2, Zenon
    <3>8. DbInv' BY <1>1, <3>7, Zenon DEF DbInv
    <3>9. Covers(files', mgr.info, mgr.height)
      <4>1. mgr.height <= mgr.height BY <1>6
      <4> QED BY <1>6, <1>7, <3>6, <4>1, Zenon
    <3> QED BY <3>6, <3>8, <3>9, Zenon
  <2> QED BY <2>1, <2>2, Zenon
<1>9. OpeningInv' /\ OpenSucceeds' BY <1>1, Zenon DEF OpeningInv, OpenSucceeds
<1>10. ServingInv'
  <2>1. SameFile(db)' /\ SameFile(dbSynced)' BY <1>1, <1>3, <1>4, Zenon DEF IInv, ServingInv, SameFile
  <2>2. mgr.height = Len(acked) /\ mgr.hash = (IF acked = <<>> THEN GenesisHash ELSE Hash(acked[Len(acked)]))
    BY <1>3, Zenon DEF IInv, ServingInv
  <2> QED BY <1>1, <1>4, <1>7, <1>8, <2>1, <2>2, Zenon DEF ServingInv, Serving
<1>11. AddInv'
  <2>1. blk # <<>> /\ blk = <<blk[1]>> /\ blk[1] \in Block /\ blk[1].number = mgr.height BY <1>3, BlkIs, Zenon
  <2>2. CallerRetries => phase # "index" BY <1>1, Zenon DEF IInv, Scope
  <2> QED BY <1>1, <1>4, <1>5, <1>8, <2>1, <2>2, Zenon DEF AddInv, Serving, Unwritten, Written, Retrying
<1> QED BY <1>4, <1>8, <1>9, <1>10, <1>11, Facts, Zenon DEF IInv

-----------------------------------------------------------------------------
(* The steps of newBlockfileMgr *)

\* newBlockfileMgr.
LEMMA OpenSteps ==
  ASSUME Induction
  PROVE  IInv /\ Open => IInv' /\ LogStep
\* syncIndex goes on with the block behind the last one that is indexed.
<1>ToIndexIs.
  ASSUME Scope, FilesInv, IsSound(files, db), Covers(files, mgr.info, Len(Stored(files))), ~InSync
  PROVE  /\ files[1].blocks # <<>> /\ files[1].blocks[1].number = 0
         /\ db.savePoint + 2 \in 1 .. Len(Stored(files))
         /\ ToIndex # <<>> /\ ToIndex[1] = Placed[db.savePoint + 2]
  <2> USE <1>ToIndexIs
  <2> DEFINE T == Stored(files)
             N == Len(T)
             sp == db.savePoint
             all == Placed
             V == {all[k] : k \in 1 .. N}
  <2>1. files \in Files /\ Len(files) \in Nat /\ DOMAIN files = 1 .. Len(files) BY FileIs, Zenon DEF FilesInv, Files
  <2>2. T \in Seq(Block) /\ N \in Nat /\ DOMAIN T = 1 .. N BY <2>1, BeforeStep, SeqIs, Zenon
  <2>3. N = (IF mgr.info.noBlockFiles THEN 0 ELSE mgr.info.lastPersistedBlock + 1) BY <2>1, CoversIs, Zenon
  <2>4. ~mgr.info.noBlockFiles /\ sp # mgr.info.lastPersistedBlock BY Zenon DEF InSync
  <2>5. mgr.info.lastPersistedBlock \in Nat BY <2>1, CoversIs, Zenon DEF InfoSet
  <2>6. sp \in -1 .. N - 1 BY Zenon DEF IsSound
  <2>7. N > 0 /\ sp + 2 \in 1 .. N /\ sp \in Int BY <2>2, <2>3, <2>4, <2>5, <2>6
  <2>8. files # <<>>
    <3> SUFFICES ASSUME files = <<>> PROVE FALSE OBVIOUS
    <3>1. Len(files) = 0 OBVIOUS
    <3>2. N = Before(files, 1) /\ Before(files, 1) = 0 BY <2>1, <3>1, BeforeStep
    <3> QED BY <2>7, <3>2
  <2>9. Len(files) # 0 /\ 1 \in 1 .. Len(files) BY <2>1, <2>8
  <2>10. files[1].blocks \in Seq(Block) /\ Before(files, 1) = 0 BY <2>1, <2>9, FileIs, BeforeStep, Zenon
  <2>11. files[1].blocks # <<>>
    <3>1. CASE Len(files) = 1
      <4>1. IsOpen(files, 1) BY <3>1, Zenon DEF IsOpen
      <4>2. N = Before(files, 1) + Len(files[1].blocks) BY <2>1, <2>9, <4>1, OpenIs, Zenon
      <4> QED BY <2>7, <2>10, <4>2
    <3>2. CASE Len(files) # 1
      <4>1. 1 < Len(files) BY <2>1, <2>9, <3>2
      <4> QED BY <2>1, <2>9, <4>1, Zenon DEF FilesInv
    <3> QED BY <3>1, <3>2, Zenon
  <2>12. files[1].blocks[1].number = 0
    <3>1. 1 \in 1 .. Len(files[1].blocks) BY <2>10, <2>11
    <3>2. T[Before(files, 1) + 1] = files[1].blocks[1] BY <2>1, <2>9, <3>1, StoredAt, Zenon
    <3>3. 1 \in DOMAIN T BY <2>2, <2>7
    <3>4. T[1].number = 1 - 1 BY <3>3, Zenon DEF FilesInv
    <3> QED BY <2>10, <3>2, <3>4
  <2>13. DOMAIN all = 1 .. N /\ \A k \in 1 .. N : IsPlace(files, all[k], k) BY <2>1, PlacedIs, Zenon
  <2>14. all = [k \in 1 .. N |-> all[k]] BY <2>2, Zenon DEF Placed
  <2>15. all \in Seq(V) /\ Len(all) = N
    <3> HIDE DEF all, N
    <3>1. \A k \in 1 .. N : all[k] \in V OBVIOUS
    <3>2. all \in [1 .. N -> V] BY <2>14, <3>1, Zenon
    <3> HIDE DEF V
    <3> QED BY <2>2, <3>2
  <2>16. CASE sp = -1
    <3>1. ~(sp + 1 > files[1].blocks[1].number) BY <2>12, <2>16
    <3>2. ToIndex = all BY <3>1, Zenon DEF ToIndex
    <3>3. sp + 2 = 1 BY <2>16
    <3>4. all # <<>>
      <4>1. Len(all) # 0 BY <2>7, <2>15
      <4> QED BY <4>1
    <3> QED BY <2>7, <2>11, <2>12, <3>2, <3>3, <3>4, Zenon
  <2>17. CASE sp # -1
    <3> DEFINE loc == db.index[sp]
               P(k) == IsAt(all[k], loc)
               c == CHOOSE k \in DOMAIN all : P(k)
    <3>1. sp + 1 > files[1].blocks[1].number /\ sp \in 0 .. sp BY <2>2, <2>6, <2>12, <2>17
    <3>2. ToIndex = SubSeq(all, 1 + c, Len(all)) BY <3>1, Zenon DEF ToIndex
    <3>3. IsPlace(files, loc, sp + 1) BY <3>1, Zenon DEF IsSound
    <3>4. sp + 1 \in 1 .. N BY <2>2, <2>6, <2>17
    <3>5. \A k \in 1 .. N : P(k) <=> k = sp + 1
      <4> HIDE DEF all, N, loc, sp
      <4> QED BY <2>1, <2>13, <3>3, PlaceSame, Zenon
    <3>6. c = sp + 1
      <4> HIDE DEF P, all, N, loc, sp
      <4> QED BY <2>13, <3>4, <3>5, Zenon
    <3>7. ToIndex = SubSeq(all, sp + 2, N)
      <4>1. 1 + (sp + 1) = sp + 2 BY <2>7
      <4> HIDE DEF all, N, sp, c
      <4> QED BY <2>15, <3>2, <3>6, <4>1, Zenon
    <3> HIDE DEF all, N, sp, V, c
    <3>8. \A k \in sp + 2 .. N : all[k] \in V
      <4>1. \A k \in sp + 2 .. N : k \in 1 .. N BY <2>2, <2>7
      <4> QED BY <4>1, Zenon DEF V
    <3>9. /\ Len(SubSeq(all, sp + 2, N)) = IF sp + 2 <= N THEN N - (sp + 2) + 1 ELSE 0
          /\ \A k \in 1 .. N - (sp + 2) + 1 : SubSeq(all, sp + 2, N)[k] = all[sp + 2 + k - 1]
      <4>1. sp + 2 \in 1 .. N /\ N \in Nat BY <2>2, <2>7, Zenon
      <4> HIDE DEF V
      <4> QED BY <2>15, <4>1
    <3>10. 1 \in 1 .. N - (sp + 2) + 1 /\ sp + 2 + 1 - 1 = sp + 2 /\ sp + 2 <= N BY <2>2, <2>7
    <3>11. SubSeq(all, sp + 2, N)[1] = all[sp + 2] BY <3>9, <3>10, Zenon
    <3>12. Len(SubSeq(all, sp + 2, N)) # 0 BY <2>2, <2>7, <3>9, <3>10
    <3>13. SubSeq(all, sp + 2, N) # <<>>
      <4> DEFINE q == SubSeq(all, sp + 2, N)
      <4>1. Len(q) # 0 BY <3>12, Zenon
      <4> HIDE DEF q
      <4>2. q # <<>> BY <4>1
      <4> QED BY <4>2, Zenon DEF q
    <3> QED BY <2>7, <2>11, <2>12, <3>7, <3>11, <3>13, Zenon DEF all, N, sp
  <2> QED BY <2>16, <2>17, Zenon
\* newBlockfileMgr finds the end of the files, with a saved blockfilesInfo or without.
<1>OpenInfoStep. ASSUME IInv, OpenInfo PROVE IInv' /\ LogStep
  <2> USE <1>OpenInfoStep
  <2> DEFINE T == Stored(files)
  <2>1. PICK i : i = IF db.info = <<>> THEN constructBlockfilesInfo ELSE syncBlockfilesInfoFromFS(db.info[1]) OBVIOUS
  <2>2. /\ db' = [db EXCEPT !.info = <<i>>] /\ dbSynced' = db' /\ phase' = "truncate"
        /\ mgr' = [info |-> i, height |-> FirstBlock, hash |-> GenesisHash, cache |-> EmptyCache]
        /\ files' = files /\ acked' = acked
    BY <2>1, Zenon DEF OpenInfo
  <2>3. files \in Files /\ Len(files) \in Nat /\ DOMAIN files = 1 .. Len(files) /\ Len(T) \in Nat /\ FirstBlock = 0
    BY Facts, Zenon
  <2>4. IsSound(files, db) BY Zenon DEF IInv, DbInv
  <2>5. Covers(files, i, Len(T)) /\ \A n \in 1 .. Len(files) : files[n].torn => n <= i.latestFileNumber + 1
    <3>1. CASE db.info = <<>>
      <4>1. i = constructBlockfilesInfo BY <2>1, <3>1, Zenon
      <4>2. Covers(files, i, Len(T)) /\ (files # <<>> => i.latestFileNumber + 1 = Len(files))
        BY <4>1, ConstructIs, Zenon DEF IInv
      <4>3. \A n \in 1 .. Len(files) : files # <<>> /\ n <= Len(files) BY <2>3
      <4> QED BY <4>2, <4>3, Zenon
    <3>2. CASE db.info # <<>>
      <4>1. PICK k \in Nat : Covers(files, db.info[1], k) BY <2>4, <3>2, Zenon DEF IsSound
      <4>2. i = syncBlockfilesInfoFromFS(db.info[1]) BY <2>1, <3>2, Zenon
      <4>3. Covers(files, i, Len(T)) /\ i.latestFileNumber = db.info[1].latestFileNumber
        BY <2>3, <4>1, <4>2, SyncInfoIs, Zenon
      <4> QED BY <2>3, <2>4, <3>2, <4>3, Zenon DEF IsSound
    <3> QED BY <3>1, <3>2, Zenon
  <2>6. IsSound(files, db') /\ db'.info = <<i>> BY <2>2, <2>3, <2>4, <2>5, InfoIs, Zenon
  <2>7. DbInv' BY <2>2, <2>6, Zenon DEF DbInv
  <2>8. FilesInv' /\ AckedInv' /\ LogStep BY <2>2, FilesSame, Zenon
  <2>9. MgrInv' BY <2>2, Zenon DEF MgrInv
  <2>10. mgr'.info = i /\ mgr'.height = 0 /\ mgr'.hash = GenesisHash BY <2>2, <2>3, Zenon
  <2>11. SameFile(db)' /\ SameFile(dbSynced)' BY <2>2, <2>6, <2>10 DEF SameFile
  <2>12. OpeningInv' BY <2>2, <2>5, <2>10, <2>11, Zenon DEF OpeningInv
  <2>13. ServingInv' /\ AddInv' /\ OpenSucceeds'
    BY <2>2, Zenon DEF ServingInv, AddInv, OpenSucceeds, Serving, Unwritten, Written, Retrying
  <2> QED BY <2>7, <2>8, <2>9, <2>12, <2>13, Facts, Zenon DEF IInv
\* The first file of a new store.
<1>OpenEmpty.
  ASSUME IInv, files = <<>>, files' = TruncateFile(Append(<<>>, EmptyFile), 0, 0), acked' = acked
  PROVE  /\ FilesInv' /\ AckedInv' /\ LogStep /\ files' # <<>> /\ Stored(files') = Stored(files)
         /\ ~files'[1].torn
         /\ \A i, k : Covers(files, i, k) => Covers(files', i, k)
         /\ \A d : IsSound(files, d) => IsSound(files', d)
  <2> USE <1>OpenEmpty
  <2> DEFINE fs == Append(files, EmptyFile)
  <2>1. files \in Files /\ Len(files) = 0 /\ fs = Append(files, EmptyFile) BY Facts, Zenon
  <2>2. PICK gs : gs = fs OBVIOUS
  <2> HIDE DEF fs
  <2>3. /\ gs \in Files /\ gs # <<>> /\ Len(gs) = 1 /\ gs[1] = EmptyFile /\ Stored(gs) = Stored(files)
        /\ \A loc, k : IsPlace(files, loc, k) => IsPlace(gs, loc, k)
        /\ \A i, k : Covers(files, i, k) => Covers(gs, i, k)
    <3>1. gs = Append(files, EmptyFile) BY <2>1, <2>2, Zenon
    <3>2. /\ gs \in Files /\ gs # <<>> /\ Len(gs) = Len(files) + 1 /\ gs[Len(files) + 1] = EmptyFile
          /\ Stored(gs) = Stored(files)
          /\ \A loc, k : IsPlace(files, loc, k) => IsPlace(gs, loc, k)
          /\ \A i, k : Covers(files, i, k) /\ (files # <<>> => i.latestFileNumber + 1 = Len(files)) => Covers(gs, i, k)
      BY <2>1, <3>1, ExtendIs, Zenon
    <3> QED BY <2>1, <3>2
  <2>4. gs[1].blocks = <<>> /\ ~gs[1].torn /\ <<>> \in Seq(Block) BY <2>3 DEF EmptyFile
  <2>5. Ends(gs[1].blocks)[0] = 0 BY <2>4, EndsIs
  <2>6. 0 \in 0 .. Len(gs[1].blocks) /\ 0 \in Nat /\ 0 + 1 \in 1 .. Len(gs) BY <2>3, <2>4
  <2>7. Cuts(gs, files', 1, 0)
    <3>1. files' = TruncateFile(gs, 0, 0) BY <2>1, <2>2, Zenon
    <3>2. 0 \in 0 .. Len(gs[0 + 1].blocks) /\ 0 = Ends(gs[0 + 1].blocks)[0] BY <2>5, <2>6
    <3>3. Cuts(gs, files', 0 + 1, 0) BY <2>3, <2>6, <3>1, <3>2, TruncateIs, Zenon
    <3> QED BY <3>3
  <2>8. files' \in Files /\ Len(files') = 1 /\ ~files'[1].torn /\ Len(files'[1].blocks) = 0 /\ files' # <<>>
    <3>1. 1 \in 1 .. Len(gs) /\ IsOpen(gs, 1) BY <2>3 DEF IsOpen
    <3> QED BY <2>3, <2>6, <2>7, <3>1, CutIs
  <2>9. files'[1].blocks = <<>>
    <3>1. files'[1].blocks \in Seq(Block) BY <2>8, FileIs
    <3> QED BY <2>8, <3>1
  <2>10. SameBlocks(gs, files') BY <2>3, <2>4, <2>8, <2>9 DEF SameBlocks
  <2>11. /\ Stored(files') = Stored(files)
         /\ \A loc, k : IsPlace(files, loc, k) => IsPlace(files', loc, k)
         /\ \A i, k : Covers(files, i, k) => Covers(files', i, k)
    <3>1. /\ Stored(files') = Stored(gs)
          /\ \A loc, k : IsPlace(gs, loc, k) => IsPlace(files', loc, k)
          /\ \A i, k : Covers(gs, i, k) => Covers(files', i, k)
      BY <2>3, <2>8, <2>10, SameIs, Zenon
    <3> QED BY <2>3, <3>1, Zenon
  <2>12. DOMAIN files' = 1 .. 1 BY <2>8, FileIs, Zenon
  <2>13. FilesInv'
    <3>1. \A n \in DOMAIN files' : ~(n < Len(files')) BY <2>8, <2>12
    <3> QED BY <2>8, <2>11, <3>1, Zenon DEF IInv, FilesInv, Files
  <2>14. AckedInv' BY <2>11, Zenon DEF IInv, AckedInv
  <2>15. LogStep BY <2>11, Zenon DEF LogStep
  <2>16. ASSUME NEW d, IsSound(files, d) PROVE IsSound(files', d)
    <3>1. d.savePoint <= Len(Stored(files')) - 1 /\ \A n \in 1 .. Len(files') : ~files'[n].torn
      <4>1. d.savePoint <= Len(Stored(files)) - 1 BY <2>16, Facts DEF IsSound
      <4> QED BY <2>8, <2>11, <4>1
    <3> QED BY <2>1, <2>8, <2>11, <2>16, <3>1, SoundKept, Zenon
  <2> QED BY <2>8, <2>11, <2>13, <2>14, <2>15, <2>16, Zenon
\* The file is cut behind the last complete block.
<1>OpenTruncateStep. ASSUME IInv, OpenTruncate PROVE IInv' /\ LogStep
  <2> USE <1>OpenTruncateStep
  <2> DEFINE T == Stored(files)
  <2>1. /\ phase = "truncate" /\ phase' = "syncIndex" /\ mgr' = mgr /\ acked' = acked
        /\ files' = TruncateFile(OpenFile(files, mgr.info.latestFileNumber), mgr.info.latestFileNumber, mgr.info.latestFileSize)
        /\ db' = db /\ dbSynced' = dbSynced
    BY Zenon DEF OpenTruncate
  <2>2. files \in Files /\ Len(files) \in Nat /\ Len(T) \in Nat /\ Len(acked) \in Nat /\ Len(acked) <= Len(T)
        /\ DOMAIN files = 1 .. Len(files)
    BY Facts, Zenon
  <2>3. /\ Covers(files, mgr.info, Len(T)) /\ SameFile(db) /\ SameFile(dbSynced)
        /\ mgr.height = 0 /\ mgr.hash = GenesisHash
    BY <2>1, Zenon DEF IInv, OpeningInv
  <2>4. mgr.info \in InfoSet /\ mgr.info.latestFileNumber \in Nat BY <2>2, <2>3, CoversIs DEF InfoSet
  <2>5. Latest = mgr.info.latestFileNumber + 1 /\ Latest' = Latest BY <2>1, Zenon DEF Latest
  <2>6. /\ FilesInv' /\ AckedInv' /\ LogStep /\ DbInv' /\ files' # <<>> /\ ~files'[Latest].torn
        /\ Stored(files') = T \/ Len(Stored(files')) = Len(T)
        /\ Covers(files', mgr.info, Len(T))
    <3>1. CASE files = <<>>
      <4>1. mgr.info.latestFileNumber = 0 /\ mgr.info.latestFileSize = 0 BY <2>3, <3>1, Zenon DEF Covers
      <4>2. OpenFile(files, 0) = Append(<<>>, EmptyFile) BY <3>1 DEF OpenFile
      <4>3. files' = TruncateFile(Append(<<>>, EmptyFile), 0, 0) BY <2>1, <4>1, <4>2, Zenon
      <4>4. /\ FilesInv' /\ AckedInv' /\ LogStep /\ files' # <<>> /\ Stored(files') = T /\ ~files'[1].torn
            /\ \A i, k : Covers(files, i, k) => Covers(files', i, k)
            /\ \A d : IsSound(files, d) => IsSound(files', d)
        BY <2>1, <3>1, <4>3, <1>OpenEmpty, Zenon
      <4>5. DbInv' BY <2>1, <4>4, Zenon DEF IInv, DbInv
      <4>6. Latest = 1 BY <2>5, <4>1
      <4> QED BY <2>3, <4>4, <4>5, <4>6, Zenon
    <3>2. CASE files # <<>>
      <4>1. /\ Latest \in 1 .. Len(files) /\ IsOpen(files, Latest)
            /\ EndsAt(files, Latest, mgr.info.latestFileSize, Len(T))
        BY <2>2, <2>3, <2>5, <3>2, CoversIs, Zenon
      <4>2. PICK j \in 0 .. Len(files[Latest].blocks) :
              Len(T) = Before(files, Latest) + j /\ mgr.info.latestFileSize = Ends(files[Latest].blocks)[j]
        BY <4>1, Zenon DEF EndsAt
      <4>3. Len(T) = Before(files, Latest) + Len(files[Latest].blocks) BY <2>2, <4>1, OpenIs, Zenon
      <4>4. Before(files, Latest) \in Nat /\ Len(files[Latest].blocks) \in Nat
        <5>1. Latest \in 1 .. Len(files) + 1 BY <2>2, <4>1
        <5> QED BY <2>2, <4>1, <5>1, BeforeStep, FileIs, Zenon
      <4>5. j = Len(files[Latest].blocks)
        <5> HIDE DEF T
        <5> QED BY <4>2, <4>3, <4>4
      <4>6. Latest < Len(files) => j # 0
        <5>1. ASSUME Latest < Len(files) PROVE files[Latest].blocks # <<>>
          BY <2>2, <4>1, <5>1, Zenon DEF IInv, FilesInv
        <5>2. files[Latest].blocks \in Seq(Block) BY <2>2, <4>1, FileIs, Zenon
        <5> QED BY <4>5, <5>1, <5>2
      <4>7. OpenFile(files, mgr.info.latestFileNumber) = files
        <5>1. Len(files) > mgr.info.latestFileNumber BY <2>2, <2>4, <2>5, <4>1
        <5> QED BY <5>1, Zenon DEF OpenFile
      <4>8. Cuts(files, files', Latest, j)
        <5>1. files' = TruncateFile(files, mgr.info.latestFileNumber, mgr.info.latestFileSize) BY <2>1, <4>7, Zenon
        <5> QED BY <2>2, <2>4, <2>5, <4>1, <4>2, <5>1, TruncateIs, Zenon
      <4>9. Len(acked) <= Before(files, Latest) + j BY <2>2, <4>2, Zenon
      <4>10. /\ FilesInv' /\ AckedInv' /\ LogStep /\ files' # <<>> /\ ~files'[Latest].torn
             /\ Len(Stored(files')) = Len(T)
             /\ \A i, k : Covers(files, i, k) /\ i.latestFileNumber + 1 = Latest /\ k <= Len(T) => Covers(files', i, k)
             /\ \A d : /\ IsSound(files, d) /\ d.savePoint < Len(T)
                       /\ d.info # <<>> => /\ d.info[1].latestFileNumber + 1 = Latest
                                           /\ \E k \in 0 .. Len(T) : Covers(files, d.info[1], k)
                       => IsSound(files', d)
        <5>1. HasCut(Latest, Before(files, Latest) + j) BY <2>1, <4>1, <4>2, <4>6, <4>8, <4>9, CutHas, Zenon
        <5>2. HasCut(Latest, Len(T)) BY <4>2, <5>1, Zenon
        <5> QED BY <5>2, Zenon DEF HasCut
      <4>11. ASSUME NEW d, IsSound(files, d), SameFile(d) PROVE IsSound(files', d)
        <5>1. d.savePoint \in -1 .. Len(T) - 1 /\ d.info[1].latestFileNumber + 1 = Latest
          BY <2>5, <4>11, Zenon DEF IsSound, SameFile
        <5>2. PICK k \in Nat : Covers(files, d.info[1], k) BY <4>11, Zenon DEF IsSound, SameFile
        <5>3. k \in 0 .. Len(T) BY <2>2, <5>2, CoversIs
        <5>4. d.savePoint < Len(T) BY <2>2, <5>1
        <5> QED BY <4>10, <4>11, <5>1, <5>2, <5>3, <5>4
      <4>12. DbInv' BY <2>1, <2>3, <4>11, Zenon DEF IInv, DbInv
      <4>13. Covers(files', mgr.info, Len(T))
        <5>1. Len(T) <= Len(T) BY <2>2
        <5> QED BY <2>3, <2>5, <4>10, <5>1, Zenon
      <4> QED BY <4>10, <4>12, <4>13, Zenon
    <3> QED BY <3>1, <3>2, Zenon
  <2>7. OpeningInv'
    <3>1. SameFile(db)' /\ SameFile(dbSynced)' BY <2>1, <2>3, Zenon DEF SameFile
    <3>2. Covers(files', mgr.info, Len(Stored(files'))) BY <2>6, Zenon
    <3> QED BY <2>1, <2>3, <2>5, <2>6, <3>1, <3>2, Zenon DEF OpeningInv
  <2>8. ServingInv' /\ AddInv' /\ OpenSucceeds'
    BY <2>1, Zenon DEF ServingInv, AddInv, OpenSucceeds, Serving, Unwritten, Written, Retrying
  <2>9. MgrInv' BY <2>1, Zenon DEF IInv, MgrInv
  <2> QED BY <2>6, <2>7, <2>8, <2>9, Facts, Zenon DEF IInv
\* A torn block that the stream of syncIndex meets is in an inner file.
<1>TornInside.
  ASSUME IInv, phase = "syncIndex", NEW loc, NEW k, IsPlace(files, loc, k), MeetsTorn(loc)
  PROVE  \E n \in DOMAIN files : files[n].torn /\ n < Len(files)
  <2> USE <1>TornInside
  <2> DEFINE n == loc.file + 1
  <2>1. files \in Files /\ Len(files) \in Nat /\ DOMAIN files = 1 .. Len(files) BY Facts, Zenon
  <2>2. n \in 1 .. Len(files) BY <2>1, PlaceIs, Zenon
  <2>3. files[n].torn BY Zenon DEF MeetsTorn
  <2>4. /\ Covers(files, mgr.info, Len(Stored(files))) /\ SameFile(db) /\ files # <<>> /\ ~files[Latest].torn
        /\ IsSound(files, db)
    BY Zenon DEF IInv, OpeningInv, DbInv
  <2>5. Latest \in 1 .. Len(files) BY <2>1, <2>4, CoversIs, Zenon DEF Latest
  <2>6. n <= Latest BY <2>1, <2>2, <2>3, <2>4, Zenon DEF IsSound, SameFile, Latest
  <2> HIDE DEF n
  <2>7. n # Latest BY <2>3, <2>4, Zenon
  <2>8. n < Len(files) BY <2>1, <2>2, <2>5, <2>6, <2>7
  <2> QED BY <2>1, <2>2, <2>3, <2>8, Zenon
\* syncIndex adds the next block that is in the files and not in the index, or fails.
<1>SyncIndexStep. ASSUME IInv, SyncIndex PROVE IInv' /\ LogStep
  <2> USE <1>SyncIndexStep
  <2> DEFINE T == Stored(files)
             sp == db.savePoint
  <2>1. PICK p : p = ToIndex[1] OBVIOUS
  <2>2. /\ phase = "syncIndex" /\ ToIndex # <<>>
        /\ db' = IndexOf(db, p.block, p.file, p.offset) /\ dbSynced' = db'
        /\ phase' = (IF MeetsTorn(p) THEN "failed" ELSE phase)
        /\ files' = files /\ mgr' = mgr /\ acked' = acked
    BY <2>1, Zenon DEF SyncIndex
  <2>3. files \in Files /\ Len(T) \in Nat /\ DOMAIN T = 1 .. Len(T) BY Facts, Zenon
  <2>4. /\ Covers(files, mgr.info, Len(T)) /\ SameFile(db) /\ files # <<>> /\ ~files[Latest].torn
        /\ IsSound(files, db) /\ mgr.height = 0 /\ mgr.hash = GenesisHash
    BY <2>2, Zenon DEF IInv, OpeningInv, DbInv
  <2>5. ~InSync BY <2>2, Zenon DEF ToIndex
  <2>6. sp + 2 \in 1 .. Len(T) /\ p = Placed[sp + 2] BY <2>1, <2>4, <2>5, <1>ToIndexIs, Zenon DEF IInv
  <2>7. IsPlace(files, p, sp + 2) /\ p.block = T[sp + 2] BY <2>3, <2>6, PlacedIs, Zenon
  <2>8. sp \in Int /\ sp + 1 < Len(T)
    <3>1. sp \in Int BY <2>3, <2>4 DEF IsSound
    <3> QED BY <2>3, <2>6, <3>1
  <2>9. p.block.number = sp + 1
    <3>1. T[sp + 2].number = (sp + 2) - 1 BY <2>3, <2>6, Zenon DEF IInv, FilesInv
    <3> QED BY <2>7, <2>8, <3>1
  <2>10. IsPlace(files, [file |-> p.file, offset |-> p.offset], sp + 2) BY <2>7, Zenon DEF IsPlace
  <2>11. IsSound(files, db') /\ db'.info = db.info
    <3>1. PICK b, x, y : b = p.block /\ x = p.file /\ y = p.offset OBVIOUS
    <3>2. b.number = db.savePoint + 1 /\ db.savePoint + 1 < Len(Stored(files)) BY <2>8, <2>9, <3>1, Zenon
    <3>3. IsPlace(files, [file |-> x, offset |-> y], db.savePoint + 2) BY <2>10, <3>1, Zenon
    <3>4. IsSound(files, IndexOf(db, b, x, y)) /\ IndexOf(db, b, x, y).info = db.info
      BY <2>3, <2>4, <3>2, <3>3, IndexIs
    <3> QED BY <2>2, <3>1, <3>4, Zenon
  <2>12. DbInv' BY <2>2, <2>11, Zenon DEF DbInv
  <2>13. FilesInv' /\ AckedInv' /\ LogStep BY <2>2, FilesSame, Zenon
  <2>14. MgrInv' BY <2>2, Zenon DEF IInv, MgrInv
  <2>15. OpeningInv'
    <3>1. SameFile(db)' /\ SameFile(dbSynced)' /\ Latest' = Latest BY <2>2, <2>4, <2>11, Zenon DEF SameFile, Latest
    <3> QED BY <2>2, <2>4, <3>1, Zenon DEF OpeningInv
  <2>16. ServingInv' /\ AddInv'
    <3>1. phase' \in {"failed", "syncIndex"} BY <2>2, Zenon
    <3> QED BY <3>1, Zenon DEF ServingInv, AddInv, Serving, Unwritten, Written, Retrying
  <2>17. OpenSucceeds'
    <3>1. ASSUME phase' = "failed" PROVE \E n \in DOMAIN files : files[n].torn /\ n < Len(files)
      <4>1. MeetsTorn(p) BY <2>2, <3>1, Zenon
      <4> QED BY <2>2, <2>7, <4>1, <1>TornInside, Zenon
    <3> QED BY <2>2, <3>1, Zenon DEF OpenSucceeds
  <2> QED BY <2>12, <2>13, <2>14, <2>15, <2>16, <2>17, Facts, Zenon DEF IInv
\* syncIndex fails on a torn block in an inner file, and on nothing else.
<1>SyncIndexFailsIs.
  ASSUME IInv, phase = "syncIndex", syncIndexFails
  PROVE  \E n \in DOMAIN files : files[n].torn /\ n < Len(files)
  <2> USE <1>SyncIndexFailsIs
  <2> DEFINE sp == db.savePoint
  <2>1. /\ Covers(files, mgr.info, Len(Stored(files))) /\ IsSound(files, db) /\ Scope /\ FilesInv
    BY Zenon DEF IInv, OpeningInv, DbInv
  <2>2. FirstBlock = 0 /\ files \in Files /\ Len(Stored(files)) \in Nat BY Facts, Zenon
  <2>3. ~InSync BY <2>2 DEF syncIndexFails
  <2>4. files[1].blocks # <<>> /\ files[1].blocks[1].number = 0 BY <2>1, <2>3, <1>ToIndexIs, Zenon
  <2>5. sp + 1 > 0 /\ (sp \notin DOMAIN db.index \/ MeetsTorn(db.index[sp])) BY <2>2, <2>4 DEF syncIndexFails
  <2>6. sp \in Int /\ DOMAIN db.index = 0 .. sp /\ \A j \in 0 .. sp : IsPlace(files, db.index[j], j + 1)
    BY <2>1, <2>2 DEF IsSound
  <2> HIDE DEF sp
  <2>7. sp \in 0 .. sp BY <2>5, <2>6
  <2>8. MeetsTorn(db.index[sp]) /\ IsPlace(files, db.index[sp], sp + 1) BY <2>5, <2>6, <2>7, Zenon
  <2> QED BY <2>8, <1>TornInside, Zenon
\* The store opens with all blocks that are in the files.
<1>OpenBlockchainInfoStep. ASSUME IInv, OpenBlockchainInfo PROVE IInv' /\ LogStep
  <2> USE <1>OpenBlockchainInfoStep
  <2> DEFINE T == Stored(files)
             last == mgr.info.lastPersistedBlock
             found == last >= FirstBlock /\ last \in DOMAIN db.index /\ BlockAt(db.index[last]) # <<>>
             b == BlockAt(db.index[last])[1]
  <2>1. /\ phase = "syncIndex" /\ (~syncIndexFails => ToIndex = <<>>)
        /\ phase' = (IF syncIndexFails \/ (~mgr.info.noBlockFiles /\ ~found) THEN "failed" ELSE "idle")
        /\ mgr' = (IF phase' = "idle" /\ ~mgr.info.noBlockFiles
                   THEN [mgr EXCEPT !.height = last + 1, !.hash = Hash(b)] ELSE mgr)
        /\ acked' = (IF phase' = "idle" THEN Stored(files) ELSE acked)
        /\ files' = files /\ db' = db /\ dbSynced' = dbSynced
    BY Zenon DEF OpenBlockchainInfo
  <2>2. files \in Files /\ T \in Seq(Block) /\ Len(T) \in Nat /\ DOMAIN T = 1 .. Len(T) /\ FirstBlock = 0
    BY Facts, Zenon
  <2>3. /\ Covers(files, mgr.info, Len(T)) /\ SameFile(db) /\ SameFile(dbSynced) /\ files # <<>> /\ ~files[Latest].torn
        /\ IsSound(files, db) /\ mgr.height = 0 /\ mgr.hash = GenesisHash /\ FilesInv /\ Scope
    BY <2>1, Zenon DEF IInv, OpeningInv, DbInv
  <2>4. FilesInv' /\ DbInv' BY <2>1, DbSame, Zenon DEF IInv, FilesInv
  <2>5. CASE syncIndexFails
    <3>1. phase' = "failed" /\ mgr' = mgr /\ acked' = acked BY <2>1, <2>5, Zenon
    <3>2. OpenSucceeds' BY <2>1, <2>5, <1>SyncIndexFailsIs, Zenon DEF OpenSucceeds
    <3>3. AckedInv' /\ LogStep BY <2>1, <3>1, FilesSame, Zenon
    <3>4. MgrInv' BY <3>1, Zenon DEF IInv, MgrInv
    <3>5. OpeningInv' /\ ServingInv' /\ AddInv'
      BY <3>1, Zenon DEF OpeningInv, ServingInv, AddInv, Serving, Unwritten, Written, Retrying
    <3> QED BY <2>4, <3>2, <3>3, <3>4, <3>5, Facts, Zenon DEF IInv
  <2>6. CASE ~syncIndexFails
    <3>1. InSync BY <2>1, <2>3, <2>6, <1>ToIndexIs, Zenon
    <3>2. /\ mgr.info \in InfoSet /\ Len(T) = IF mgr.info.noBlockFiles THEN 0 ELSE last + 1
      BY <2>2, <2>3, CoversIs, Zenon
    <3>3. last \in Nat /\ mgr.info.noBlockFiles \in BOOLEAN BY <3>2, Zenon DEF InfoSet
    <3>4. db.savePoint \in -1 .. Len(T) - 1 BY <2>3, Zenon DEF IsSound
    <3>5. /\ phase' = "idle" /\ mgr'.info = mgr.info /\ mgr'.height = Len(T) /\ MgrInv'
          /\ mgr'.hash = (IF T = <<>> THEN GenesisHash ELSE Hash(T[Len(T)])) /\ db.savePoint = Len(T) - 1
      <4>1. CASE mgr.info.noBlockFiles
        <5>1. phase' = "idle" /\ mgr' = mgr BY <2>1, <2>6, <4>1, Zenon
        <5>2. Len(T) = 0 BY <3>2, <4>1, Zenon
        <5>3. T = <<>>
          <6> HIDE DEF T
          <6> QED BY <2>2, <5>2
        <5>4. db.savePoint = Len(T) - 1 BY <3>4, <5>2
        <5> QED BY <2>3, <5>1, <5>2, <5>3, <5>4, Zenon DEF IInv, MgrInv
      <4>2. CASE ~mgr.info.noBlockFiles
        <5>1. Len(T) = last + 1 /\ db.savePoint = last BY <3>1, <3>2, <4>2, Zenon DEF InSync
        <5>2. DOMAIN db.index = 0 .. last /\ \A j \in 0 .. last : IsPlace(files, db.index[j], j + 1)
          BY <2>3, <5>1, Zenon DEF IsSound
        <5>3. last \in 0 .. last BY <3>3
        <5>4. BlockAt(db.index[last]) = <<T[last + 1]>> BY <2>2, <5>2, <5>3, BlockAtIs, Zenon
        <5>5. BlockAt(db.index[last]) # <<>> /\ b = T[last + 1] BY <5>4
        <5>6. found BY <2>2, <3>3, <5>2, <5>3, <5>5
        <5>7. phase' = "idle" BY <2>1, <2>6, <5>6, Zenon
        <5> HIDE DEF found, b
        <5>8. mgr' = [mgr EXCEPT !.height = last + 1, !.hash = Hash(b)] BY <2>1, <4>2, <5>7, Zenon
        <5>9. mgr' = [info |-> mgr.info, height |-> last + 1, hash |-> Hash(b), cache |-> mgr.cache]
          <6> DEFINE a == mgr.info
                     h == mgr.height
                     x == mgr.hash
                     e == mgr.cache
                     y == Hash(b)
                     z == last + 1
          <6>1. mgr = [info |-> a, height |-> h, hash |-> x, cache |-> e] BY Zenon DEF IInv, MgrInv
          <6>2. mgr' = [mgr EXCEPT !.height = z, !.hash = y] BY <5>8, Zenon
          <6> HIDE DEF a, h, x, e, y, z
          <6>3. mgr' = [info |-> a, height |-> z, hash |-> y, cache |-> e] BY <6>1, <6>2, Zenon
          <6> QED BY <6>3, Zenon DEF a, e, y, z
        <5>10. T # <<>>
          <6> HIDE DEF T
          <6>1. Len(T) # 0 BY <3>3, <5>1
          <6> QED BY <6>1
        <5>11. mgr'.info = mgr.info /\ mgr'.height = Len(T) /\ mgr'.hash = Hash(T[Len(T)]) BY <5>1, <5>5, <5>9, Zenon
        <5>12. MgrInv' BY <5>9, Zenon DEF MgrInv
        <5>13. db.savePoint = Len(T) - 1 BY <3>3, <5>1
        <5> QED BY <5>7, <5>10, <5>11, <5>12, <5>13, Zenon
      <4> QED BY <4>1, <4>2, Zenon
    <3>6. acked' = T BY <2>1, <3>5, Zenon
    <3>7. AckedInv' /\ LogStep
      <4>1. Len(T) <= Len(T) BY <2>2
      <4> QED BY <2>1, <2>2, <3>6, <4>1, Zenon DEF AckedInv, LogStep
    <3>8. OpeningInv' /\ OpenSucceeds' BY <3>5, Zenon DEF OpeningInv, OpenSucceeds
    <3>9. ServingInv'
      <4>1. SameFile(db)' /\ SameFile(dbSynced)' BY <2>1, <2>3, <3>5, Zenon DEF SameFile
      <4> QED BY <2>1, <2>3, <3>5, <3>6, <4>1, Zenon DEF ServingInv
    <3>10. AddInv'
      <4>1. Latest' = Latest BY <3>5, Zenon DEF Latest
      <4> QED BY <2>1, <2>3, <3>5, <4>1, Zenon DEF AddInv, Serving, Unwritten, Written, Retrying
    <3> QED BY <2>4, <3>5, <3>7, <3>8, <3>9, <3>10, Facts DEF IInv
  <2> QED BY <2>5, <2>6, Zenon
<1> QED BY <1>OpenInfoStep, <1>OpenTruncateStep, <1>SyncIndexStep, <1>OpenBlockchainInfoStep, Zenon DEF Open

-----------------------------------------------------------------------------
(* All steps *)

\* Nothing changes.
LEMMA StutterStep == ASSUME Induction, IInv, UNCHANGED vars PROVE IInv' /\ LogStep
<1>1. /\ files' = files /\ db' = db /\ dbSynced' = dbSynced /\ mgr' = mgr /\ acked' = acked
      /\ phase' = phase /\ blk' = blk
  BY Zenon DEF vars
<1>2. FilesInv' /\ AckedInv' /\ LogStep /\ DbInv' BY <1>1, FilesSame, DbSame, Zenon
<1>3. Latest' = Latest /\ (SameFile(db)' <=> SameFile(db)) /\ (SameFile(dbSynced)' <=> SameFile(dbSynced))
      /\ (Retrying' <=> Retrying)
  BY <1>1, Zenon DEF Latest, SameFile, Retrying
<1>4. MgrInv' /\ OpenSucceeds' BY <1>1, Zenon DEF IInv, MgrInv, OpenSucceeds
<1>5. OpeningInv' BY <1>1, <1>3, Zenon DEF IInv, OpeningInv
<1>6. ServingInv' BY <1>1, <1>3, Zenon DEF IInv, ServingInv
<1>7. AddInv' BY <1>1, <1>3, Zenon DEF IInv, AddInv
<1> QED BY <1>2, <1>4, <1>5, <1>6, <1>7, Facts, Zenon DEF IInv

\* A new store.
LEMMA InitIs == ASSUME Induction PROVE Scope /\ Init => IInv
<1> SUFFICES ASSUME Scope, Init PROVE IInv OBVIOUS
<1>1. /\ files = <<>> /\ db = [info |-> <<>>, index |-> <<>>, savePoint |-> -1] /\ dbSynced = db
      /\ mgr = NoMgr /\ phase = "closed" /\ acked = <<>>
  BY DEF Init, Scope
<1>2. Stored(files) = <<>>
  <2>1. <<>> \in Files /\ Len(<<>>) = 0 BY DEF Files
  <2>2. UpTo(<<>>)[0] = <<>> BY <2>1, UpToStep, Zenon
  <2> QED BY <1>1, <2>1, <2>2, Zenon DEF Stored
<1>3. FilesInv /\ AckedInv BY <1>1, <1>2 DEF FilesInv, AckedInv
<1>4. IsSound(files, db)
  <2>1. db.info = <<>> /\ db.index = <<>> /\ db.savePoint = -1 BY <1>1, Zenon
  <2>2. -1 \in -1 .. Len(Stored(files)) - 1 /\ DOMAIN db.index = 0 .. -1 BY <1>2, <2>1
  <2>3. \A j \in 0 .. -1 : FALSE OBVIOUS
  <2> QED BY <1>1, <2>1, <2>2, <2>3, Zenon DEF IsSound
<1>5. DbInv /\ MgrInv BY <1>1, <1>4, Zenon DEF DbInv, MgrInv, NoMgr
<1>6. OpeningInv /\ ServingInv /\ AddInv /\ OpenSucceeds
  BY <1>1, Zenon DEF OpeningInv, ServingInv, AddInv, OpenSucceeds, Serving, Unwritten, Written, Retrying
<1> QED BY <1>3, <1>5, <1>6, Zenon DEF IInv

\* A step of the store.
LEMMA NextStep == ASSUME Induction, IInv, Next PROVE IInv' /\ LogStep
BY StartSteps, WriteSteps, IndexSteps, CallerPanicsStep, FailAddStep, OpenSteps, Zenon DEF Next

--------------------------------------------------------------------------------
(* A store that is never rolled back *)

\* Bytes of an incomplete block are in the file that both databases name, if anywhere.
TornInv ==
  \A n \in DOMAIN files : files[n].torn =>
    \A d \in {db, dbSynced} : d.info # <<>> /\ d.info[1].latestFileNumber + 1 = n

\* The inductive invariant of a store that is never rolled back.
SInv == IInv /\ TornInv /\ NeverFails

\* The invariant of a store that is not rolled back holds at first ...
LEMMA OpeningInit == ASSUME Induction PROVE Scope /\ Init => SInv
<1> SUFFICES ASSUME Scope, Init PROVE SInv OBVIOUS
<1>1. IInv BY InitIs, Zenon
<1>2. DOMAIN files = {} /\ phase # "failed" BY DEF Init
<1> QED BY <1>1, <1>2, Zenon DEF SInv, TornInv, NeverFails

\* ... and every step keeps it: the step that could fail finds no incomplete block.
LEMMA OpeningStep ==
  ASSUME Induction PROVE SInv /\ [Next]_vars => SInv'
\* That is the file which the manager appends to ...
<1>TornLatest.
  ASSUME IInv, TornInv, phase \in Serving \cup {"truncate", "syncIndex"}, NEW n \in DOMAIN files, files[n].torn
  PROVE  n = Latest
  <2> USE <1>TornLatest
  <2>1. db.info[1].latestFileNumber = mgr.info.latestFileNumber BY Zenon DEF IInv, OpeningInv, ServingInv, SameFile
  <2> QED BY <2>1 DEF TornInv, Latest
\* ... so that none are left once they are truncated, or the block is complete.
<1>NoTorn.
  ASSUME IInv, TornInv,
         phase \in {"saveNextFile", "saveInfo", "index", "syncIndex"}
  PROVE  \A n \in DOMAIN files : ~files[n].torn
  <2> USE <1>NoTorn
  <2>1. ~files[Latest].torn BY Zenon DEF IInv, OpeningInv, AddInv, Unwritten, Written
  <2>2. phase \in Serving \cup {"truncate", "syncIndex"} BY Zenon DEF Serving
  <2> QED BY <2>1, <2>2, <1>TornLatest, Zenon
\* A file that is truncated has none.
<1>TruncateTorn.
  ASSUME NEW fs, NEW n, NEW size, NEW m \in DOMAIN TruncateFile(fs, n, size),
         TruncateFile(fs, n, size)[m].torn
  PROVE  m # n + 1 /\ m \in DOMAIN fs /\ fs[m].torn
  BY <1>TruncateTorn, Zenon DEF TruncateFile
\* Opening a file for writing creates at most an empty one.
<1>OpenTorn.
  ASSUME NEW fs \in Files, NEW n, NEW m \in DOMAIN OpenFile(fs, n), OpenFile(fs, n)[m].torn
  PROVE  m \in DOMAIN fs /\ fs[m].torn
  <2> USE <1>OpenTorn
  <2>1. CASE Len(fs) > n BY <2>1, Zenon DEF OpenFile
  <2>2. CASE ~(Len(fs) > n)
    <3>0. PICK gs : gs = Append(fs, EmptyFile) OBVIOUS
    <3>1. OpenFile(fs, n) = gs BY <2>2, <3>0, Zenon DEF OpenFile
    <3>2. /\ gs \in Files /\ Len(gs) = Len(fs) + 1 /\ gs[Len(fs) + 1] = EmptyFile
          /\ \A k \in 1 .. Len(fs) : gs[k] = fs[k]
      BY <3>0, ExtendIs, Zenon
    <3>3. m \in 1 .. Len(fs) + 1 /\ gs[m].torn /\ DOMAIN fs = 1 .. Len(fs) /\ Len(fs) \in Nat
      BY <3>1, <3>2, FileIs, Zenon
    <3>4. m # Len(fs) + 1 BY <3>2, <3>3 DEF EmptyFile
    <3> QED BY <3>2, <3>3, <3>4
  <2> QED BY <2>1, <2>2, Zenon
\* Steps that tear no file and keep the databases as they are keep the invariant.
<1>TornSame.
  ASSUME TornInv, \A n \in DOMAIN files' : files'[n].torn => n \in DOMAIN files /\ files[n].torn,
         db' = db, dbSynced' = dbSynced
  PROVE  TornInv'
  BY <1>TornSame, Zenon DEF TornInv
\* The steps of addBlock, and a crash.
<1>AddTorn.
  ASSUME IInv, TornInv,
         \/ \E d \in Data : AddBlock(d)
         \/ RetryBlock \/ CreateNextFile \/ SaveNextFile
         \/ AppendBytes \/ SyncBytes \/ SaveInfo \/ IndexBlock \/ Publish \/ FinishAdd
         \/ FailAdd \/ CallerPanics \/ Crash
  PROVE  TornInv'
  <2> USE <1>AddTorn
  <2>1. files \in Files BY Facts, Zenon
  <2>2. CASE files' = files /\ db' = db /\ dbSynced' = dbSynced BY <2>2, <1>TornSame, Zenon
  <2>3. CASE CreateNextFile
    <3>1. files' = OpenFile(files, mgr.info.latestFileNumber + 1) /\ db' = db /\ dbSynced' = dbSynced
      BY <2>3, Zenon DEF CreateNextFile
    <3> QED BY <2>1, <3>1, <1>OpenTorn, <1>TornSame, Zenon
  <2>4. CASE SaveNextFile \/ SaveInfo \/ IndexBlock
    <3>1. files' = files /\ phase \in {"saveNextFile", "saveInfo", "index"}
      BY <2>4, Zenon DEF SaveNextFile, SaveInfo, IndexBlock
    <3> QED BY <3>1, <1>NoTorn, Zenon DEF TornInv
  <2>5. CASE AppendBytes
    <3>1. /\ phase = "append" /\ files' = [files EXCEPT ![Latest].torn = TRUE]
          /\ db' = db /\ dbSynced' = dbSynced
      BY <2>5, Zenon DEF AppendBytes, Latest
    <3>2. phase \in Serving BY <3>1, Zenon DEF Serving
    <3>3. \A d \in {db, dbSynced} : d.info # <<>> /\ d.info[1].latestFileNumber + 1 = Latest
      BY <3>2, SameFileIs, Zenon
    <3>4. DOMAIN files' = DOMAIN files BY <3>1, Zenon
    <3>5. \A n \in DOMAIN files' : n # Latest => files'[n] = files[n] BY <3>1, Zenon
    <3> QED BY <3>1, <3>3, <3>4, <3>5, Zenon DEF TornInv
  <2>6. CASE SyncBytes
    <3>1. /\ files' = [files EXCEPT ![Latest] = [blocks |-> Append(@.blocks, blk[1]), torn |-> FALSE]]
          /\ db' = db /\ dbSynced' = dbSynced
      BY <2>6, Zenon DEF SyncBytes, Latest
    <3>2. ASSUME NEW n \in DOMAIN files', files'[n].torn PROVE n \in DOMAIN files /\ files[n].torn
      BY <3>1, <3>2, Zenon
    <3> QED BY <3>1, <3>2, <1>TornSame, Zenon
  <2>7. CASE FailAdd
    <3>1. /\ \/ files' = files
             \/ files' = TruncateFile(files, mgr.info.latestFileNumber, mgr.info.latestFileSize)
          /\ db' = db /\ dbSynced' = dbSynced
      BY <2>7, Zenon DEF FailAdd
    <3> QED BY <3>1, <1>TruncateTorn, <1>TornSame, Zenon
  <2>8. CASE Crash
    <3>1. /\ db' \in {db, dbSynced} /\ dbSynced' = db'
          /\ \/ files' = files
             \/ \E n \in DOMAIN files : files' = [files EXCEPT ![n].torn = FALSE]
      BY <2>8, Zenon DEF Crash
    <3>2. \A n \in DOMAIN files' : files'[n].torn => n \in DOMAIN files /\ files[n].torn
      <4>1. CASE files' = files BY <4>1, Zenon
      <4>2. CASE \E n \in DOMAIN files : files' = [files EXCEPT ![n].torn = FALSE]
        <5>1. PICK n \in DOMAIN files : files' = [files EXCEPT ![n].torn = FALSE] BY <4>2, Zenon
        <5>2. DOMAIN files' = DOMAIN files /\ \A m \in DOMAIN files : m # n => files'[m] = files[m] BY <5>1, Zenon
        <5>3. files[n] \in FileSet BY <2>1, FileIs, Zenon
        <5>4. ~files'[n].torn BY <5>1, <5>3, Zenon DEF FileSet
        <5> QED BY <5>2, <5>4, Zenon
      <4> QED BY <3>1, <4>1, <4>2, Zenon
    <3> QED BY <3>1, <3>2, Zenon DEF TornInv
  <2>9. CASE (\E d \in Data : AddBlock(d)) \/ RetryBlock \/ Publish \/ FinishAdd \/ CallerPanics
    <3>1. files' = files /\ db' = db /\ dbSynced' = dbSynced
      BY <2>9, Zenon DEF AddBlock, RetryBlock, StartAdd, Publish, FinishAdd, CallerPanics
    <3> QED BY <2>2, <3>1, Zenon
  <2> QED BY <2>3, <2>4, <2>5, <2>6, <2>7, <2>8, <2>9, Zenon
\* The steps of newBlockfileMgr.
<1>OpenTornInv. ASSUME IInv, TornInv, Open PROVE TornInv'
  <2> USE <1>OpenTornInv
  <2>1. files \in Files BY Facts, Zenon
  <2>2. CASE OpenInfo
    <3> DEFINE info == IF db.info = <<>> THEN constructBlockfilesInfo ELSE syncBlockfilesInfoFromFS(db.info[1])
    <3>1. files' = files /\ db' = [db EXCEPT !.info = <<info>>] /\ dbSynced' = db' BY <2>2, Zenon DEF OpenInfo
    <3> HIDE DEF info
    <3>2. ASSUME NEW n \in DOMAIN files, files[n].torn PROVE db'.info # <<>> /\ db'.info[1].latestFileNumber + 1 = n
      <4>1. db.info # <<>> /\ db.info[1].latestFileNumber + 1 = n BY <3>2, Zenon DEF TornInv
      <4>2. PICK k \in Nat : Covers(files, db.info[1], k) BY <4>1, Zenon DEF IInv, DbInv, IsSound
      <4>3. info.latestFileNumber = db.info[1].latestFileNumber BY <2>1, <4>1, <4>2, SyncInfoIs, Zenon DEF info
      <4>4. db'.info = <<info>> BY <3>1, Zenon DEF IInv, DbInv, IsSound
      <4> QED BY <4>1, <4>3, <4>4
    <3> QED BY <3>1, <3>2, Zenon DEF TornInv
  <2>3. CASE OpenTruncate
    <3> DEFINE fs == OpenFile(files, mgr.info.latestFileNumber)
    <3>1. /\ files' = TruncateFile(fs, mgr.info.latestFileNumber, mgr.info.latestFileSize)
          /\ db' = db /\ dbSynced' = dbSynced
      BY <2>3, Zenon DEF OpenTruncate
    <3>2. ASSUME NEW n \in DOMAIN files', files'[n].torn PROVE n \in DOMAIN files /\ files[n].torn
      <4> HIDE DEF fs
      <4>1. n \in DOMAIN fs /\ fs[n].torn BY <3>1, <3>2, <1>TruncateTorn, Zenon
      <4> QED BY <2>1, <4>1, <1>OpenTorn, Zenon DEF fs
    <3> QED BY <3>1, <3>2, <1>TornSame, Zenon
  <2>4. CASE SyncIndex
    <3>1. files' = files /\ phase = "syncIndex" BY <2>4, Zenon DEF SyncIndex
    <3> QED BY <3>1, <1>NoTorn, Zenon DEF TornInv
  <2>5. CASE OpenBlockchainInfo
    <3>1. files' = files /\ db' = db /\ dbSynced' = dbSynced BY <2>5, Zenon DEF OpenBlockchainInfo
    <3> QED BY <3>1, <1>TornSame, Zenon
  <2> QED BY <2>2, <2>3, <2>4, <2>5, Zenon DEF Open
\* Opening fails in syncIndex only, when no file is torn.
<1>FailsIn.
  ASSUME NeverFails, Next, phase' = "failed"
  PROVE  phase = "syncIndex" /\ files' = files
  <2> USE <1>FailsIn
  <2> USE DEF NeverFails
  <2>1. SyncIndex \/ OpenBlockchainInfo
    BY Zenon DEF Next, AddBlock, RetryBlock, StartAdd, CreateNextFile, SaveNextFile, AppendBytes, SyncBytes, SaveInfo,
           IndexBlock, Publish, FinishAdd, FailAdd, CallerPanics, Crash, Open, OpenInfo, OpenTruncate
  <2> QED BY <2>1, Zenon DEF SyncIndex, OpenBlockchainInfo
<1> SUFFICES ASSUME SInv, [Next]_vars PROVE SInv' OBVIOUS
<1>1. CASE Next
  <2>1. IInv' BY <1>1, NextStep, Zenon DEF SInv
  <2>2. TornInv' BY <1>1, <1>AddTorn, <1>OpenTornInv, Zenon DEF SInv, Next
  <2>3. phase' # "failed"
    <3> SUFFICES ASSUME phase' = "failed" PROVE FALSE OBVIOUS
    <3>1. phase = "syncIndex" /\ files' = files BY <1>1, <1>FailsIn, Zenon DEF SInv
    <3>2. \A n \in DOMAIN files : ~files[n].torn BY <3>1, <1>NoTorn, Zenon DEF SInv
    <3>3. \E n \in DOMAIN files' : files'[n].torn BY <2>1, Zenon DEF IInv, OpenSucceeds
    <3> QED BY <3>1, <3>2, <3>3, Zenon
  <2> QED BY <2>1, <2>2, <2>3, Zenon DEF SInv, NeverFails
<1>2. CASE UNCHANGED vars
  <2>1. IInv' BY <1>2, StutterStep, Zenon DEF SInv
  <2> QED BY <1>2, <2>1, Zenon DEF SInv, TornInv, NeverFails, vars
<1> QED BY <1>1, <1>2, Zenon
================================================================================
