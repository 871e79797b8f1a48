----------------------------- MODULE BlockStore -----------------------------
(***************************************************************************)
(* The block store of a channel: numbered block files that are appended    *)
(* to, and a LevelDB that holds blockfilesInfo (where the last block ends) *)
(* and the index.  addBlock writes them one after the other, and the       *)
(* process may crash in between; newBlockfileMgr brings them back in line. *)
(*                                                                         *)
(* The database is what the process sees and what would survive a crash:   *)
(* saveBlkfilesInfo of addBlock is not synced, all other writes are.       *)
(***************************************************************************)
EXTENDS BlockFiles

CONSTANTS
  CacheBytes,     \* maxSizeBytes of the block cache
  CallerRetries,  \* whether the caller retries after an error, or panics
  Failing,        \* the steps of addBlock that may fail
  MaxCrashes, MaxFailures

ASSUME StoreAssumption ==
  /\ CacheBytes \in Nat
  /\ CallerRetries \in BOOLEAN /\ Failing \subseteq {"append", "sync", "saveInfo", "index"}
  /\ MaxCrashes \in Nat /\ MaxFailures \in Nat

VARIABLES
  db,        \* the database as the process sees it
  dbSynced,  \* the database as it survives a crash
  mgr,       \* blockfilesInfo, bcInfo and cache of the running manager
  phase,     \* where addBlock, or newBlockfileMgr, has got to
  blk,       \* the block that addBlock was called with
  acked,     \* the blocks that the store has acknowledged
  crashes, failures

vars == <<files, db, dbSynced, mgr, phase, blk, acked, crashes, failures>>

EmptyCache == [blocks |-> <<>>, maxSeq |-> 0, sizeBytes |-> 0]

NoMgr == [info |-> Info(0, 0, TRUE, 0), height |-> 0, hash |-> NoHash, cache |-> EmptyCache]

\* A new store.  One that is made from a snapshot has the transaction ids of its
\* blocks in the index.
Init ==
  /\ files = <<>>
  /\ db = [info |-> <<>>, index |-> <<>>, savePoint |-> FirstBlock - 1]
  /\ dbSynced = db
  /\ mgr = NoMgr
  /\ phase = "closed"
  /\ blk = <<>>
  /\ acked = <<>>
  /\ crashes = 0 /\ failures = 0

-----------------------------------------------------------------------------
(* addBlock *)

NextBlock(d) == [number |-> mgr.height, previousHash |-> mgr.hash, data |-> d]

\* addBlock first checks number and previous hash; a caller gets both from the
\* store.  A block that does not fit starts a new file.
StartAdd(b) ==
  /\ blk' = <<b>>
  /\ phase' = IF mgr.info.latestFileSize + DataSize[b.data] > MaxFileSize
              THEN "createFile" ELSE "append"
  /\ UNCHANGED <<files, db, dbSynced, mgr, acked, crashes, failures>>

AddBlock(d) ==
  /\ phase = "idle"
  /\ mgr.height < FirstBlock + MaxHeight
  /\ StartAdd(NextBlock(d))

RetryBlock ==
  /\ phase = "error" /\ CallerRetries
  /\ StartAdd(blk[1])

\* moveToNextFile creates the file ...
CreateNextFile ==
  /\ phase = "createFile"
  /\ files' = OpenFile(files, mgr.info.latestFileNumber + 1)
  /\ phase' = "saveNextFile"
  /\ UNCHANGED <<db, dbSynced, mgr, blk, acked, crashes, failures>>

\* ... and then saves blockfilesInfo, synced.
SaveNextFile ==
  LET info == Info(mgr.info.latestFileNumber + 1, 0, FALSE, mgr.info.lastPersistedBlock)
  IN  /\ phase = "saveNextFile"
      /\ db' = [db EXCEPT !.info = <<info>>]
      /\ dbSynced' = db'
      /\ mgr' = [mgr EXCEPT !.info = info]
      /\ phase' = "append"
      /\ UNCHANGED <<files, blk, acked, crashes, failures>>

\* The length and the block are written ...
AppendBytes ==
  /\ phase = "append"
  /\ files' = [files EXCEPT ![mgr.info.latestFileNumber + 1].torn = TRUE]
  /\ phase' = "sync"
  /\ UNCHANGED <<db, dbSynced, mgr, blk, acked, crashes, failures>>

\* ... and synced.
SyncBytes ==
  /\ phase = "sync"
  /\ files' = [files EXCEPT ![mgr.info.latestFileNumber + 1] =
                 [blocks |-> Append(@.blocks, blk[1]), torn |-> FALSE]]
  /\ phase' = "saveInfo"
  /\ UNCHANGED <<db, dbSynced, mgr, blk, acked, crashes, failures>>

NewInfo ==
  Info(mgr.info.latestFileNumber, mgr.info.latestFileSize + DataSize[blk[1].data], FALSE,
       blk[1].number)

SaveInfo ==
  /\ phase = "saveInfo"
  /\ db' = [db EXCEPT !.info = <<NewInfo>>]
  /\ phase' = "index"
  /\ UNCHANGED <<files, dbSynced, mgr, blk, acked, crashes, failures>>

Put(f, x, y) == [z \in DOMAIN f \union {x} |-> IF z = x THEN y ELSE f[z]]

IndexOf(d, b, file, offset) ==
  [d EXCEPT !.index = Put(d.index, b.number, [file |-> file, offset |-> offset]),
            !.savePoint = b.number]

\* The index entry points behind the block.
IndexBlockEnd ==
  /\ phase = "index"
  /\ db' = IndexOf(db, blk[1], NewInfo.latestFileNumber, NewInfo.latestFileSize)
  /\ dbSynced' = db'
  /\ phase' = "publish"
  /\ UNCHANGED <<files, mgr, blk, acked, crashes, failures>>

IndexBlock ==
  /\ phase = "index"
  /\ db' = IndexOf(db, blk[1], mgr.info.latestFileNumber, mgr.info.latestFileSize)
  /\ dbSynced' = db'
  /\ phase' = "publish"
  /\ UNCHANGED <<files, mgr, blk, acked, crashes, failures>>

\* updateBlockfilesInfo, which wakes the iterators.
Publish ==
  /\ phase = "publish"
  /\ mgr' = [mgr EXCEPT !.info = NewInfo]
  /\ phase' = "bcInfo"
  /\ UNCHANGED <<files, db, dbSynced, blk, acked, crashes, failures>>

\* The bytes of the cached blocks with a number below n.
BytesBelow(blocks, n) ==
  LET sum[k \in 0 .. n] ==
        IF k = 0 THEN 0
        ELSE sum[k - 1] + IF k - 1 \in DOMAIN blocks THEN DataSize[blocks[k - 1].data] ELSE 0
  IN  sum[n]

\* What sizeBytes is once b is in and the blocks below n are evicted.  A block 0 that is put again
\* replaces the first one, and is counted twice.
SizeWithout(c, b, n) == c.sizeBytes + DataSize[b.data] - BytesBelow(Put(c.blocks, b.number, b), n)

\* cache.put panics on a gap, on a block it has, and if evicting all does not make it fit.
CachePanics(c, b) ==
  /\ CacheBytes # 0 /\ c.maxSeq <= b.number
  /\ \/ c.maxSeq # 0 /\ (c.maxSeq + 1 < b.number \/ c.maxSeq = b.number)
     \/ SizeWithout(c, b, b.number + 1) > CacheBytes

\* cache.put: the oldest blocks are evicted until the rest fits.
CachePuts(c, b) ==
  LET all == Put(c.blocks, b.number, b)
      low == CHOOSE n \in 0 .. b.number + 1 :
               /\ SizeWithout(c, b, n) <= CacheBytes
               /\ n > 0 => SizeWithout(c, b, n - 1) > CacheBytes
  IN  IF CacheBytes = 0 \/ c.maxSeq > b.number \/ CachePanics(c, b) THEN c
      ELSE [blocks |-> [n \in {k \in DOMAIN all : k >= low} |-> all[n]], maxSeq |-> b.number,
            sizeBytes |-> SizeWithout(c, b, low)]

\* updateBlockchainInfo and the deferred cache.put, with which addBlock returns.
FinishAdd ==
  /\ phase = "bcInfo"
  /\ mgr' = [mgr EXCEPT !.height = @ + 1, !.hash = Hash(blk[1]),
                        !.cache = CachePuts(@, blk[1])]
  /\ phase' = IF CachePanics(mgr.cache, blk[1]) THEN "panicked" ELSE "idle"
  /\ acked' = IF phase' = "idle" THEN Append(acked, blk[1]) ELSE acked
  /\ blk' = <<>>
  /\ UNCHANGED <<files, db, dbSynced, crashes, failures>>

\* A failed write, sync or saveBlkfilesInfo truncates the file; a failed
\* indexBlock does not.  After the append the deferred cache.put runs too.
FailAdd ==
  /\ failures < MaxFailures
  /\ phase \in Failing
  /\ failures' = failures + 1
  /\ files' = IF phase = "index" THEN files
              ELSE TruncateFile(files, mgr.info.latestFileNumber, mgr.info.latestFileSize)
  /\ LET put == phase \in {"saveInfo", "index"}
     IN  /\ mgr' = IF put THEN [mgr EXCEPT !.cache = CachePuts(@, blk[1])] ELSE mgr
         /\ phase' = IF put /\ CachePanics(mgr.cache, blk[1]) THEN "panicked" ELSE "error"
  /\ UNCHANGED <<db, dbSynced, blk, acked, crashes>>

\* commitBlock panics on an error.
CallerPanics ==
  /\ phase = "error" /\ ~CallerRetries
  /\ phase' = "panicked"
  /\ UNCHANGED <<files, db, dbSynced, mgr, blk, acked, crashes, failures>>

-----------------------------------------------------------------------------
(* newBlockfileMgr *)

OpenInfo ==
  LET info == IF db.info = <<>> THEN constructBlockfilesInfo
              ELSE syncBlockfilesInfoFromFS(db.info[1])
  IN  /\ phase = "closed"
      /\ db' = [db EXCEPT !.info = <<info>>]
      /\ dbSynced' = db'
      /\ mgr' = [info |-> info, height |-> FirstBlock, hash |-> GenesisHash, cache |-> EmptyCache]
      /\ phase' = "truncate"
      /\ UNCHANGED <<files, blk, acked, crashes, failures>>

\* The writer is opened on an empty file.
OpenTruncateAll ==
  /\ phase = "truncate"
  /\ files' = TruncateFile(OpenFile(files, mgr.info.latestFileNumber), mgr.info.latestFileNumber, 0)
  /\ phase' = "syncIndex"
  /\ UNCHANGED <<db, dbSynced, mgr, blk, acked, crashes, failures>>

OpenTruncate ==
  /\ phase = "truncate"
  /\ files' = TruncateFile(OpenFile(files, mgr.info.latestFileNumber),
                           mgr.info.latestFileNumber, mgr.info.latestFileSize)
  /\ phase' = "syncIndex"
  /\ UNCHANGED <<db, dbSynced, mgr, blk, acked, crashes, failures>>

InSync == mgr.info.noBlockFiles \/ db.savePoint = mgr.info.lastPersistedBlock

\* The stream is behind a block; it reads the bytes of a torn block next, which is an error.
MeetsTorn(loc) ==
  LET f == files[loc.file + 1]
  IN  f.torn /\ BlocksUpTo(f, loc.offset) + 1 = Len(f.blocks)

syncIndexFails ==
  \/ db.savePoint = -1 /\ FirstBlock > 0
  \/ /\ ~InSync
     /\ \/ files[1].blocks = <<>>
        \/ /\ db.savePoint + 1 > files[1].blocks[1].number
           /\ db.savePoint \notin DOMAIN db.index \/ MeetsTorn(db.index[db.savePoint])

\* An index that is still empty is left so.
ToIndexUnlessEmpty ==
  LET all == Placed
  IN  IF InSync \/ db.savePoint < FirstBlock THEN <<>>
      ELSE SubSeq(all, 1 + CHOOSE k \in DOMAIN all : IsAt(all[k], db.index[db.savePoint]), Len(all))

\* The blocks that the stream of syncIndex will return: none if the index is in
\* sync, else those from file 0, or after the last block that is indexed.
ToIndex ==
  LET all == Placed
  IN  IF InSync THEN <<>>
      ELSE IF db.savePoint + 1 > files[1].blocks[1].number
      THEN SubSeq(all, 1 + CHOOSE k \in DOMAIN all : IsAt(all[k], db.index[db.savePoint]), Len(all))
      ELSE all

\* One round of the loop in syncIndex; each indexes one block, synced, and reads on.
SyncIndex ==
  /\ phase = "syncIndex"
  /\ ~syncIndexFails /\ ToIndex # <<>>
  /\ LET p == ToIndex[1]
     IN  /\ db' = IndexOf(db, p.block, p.file, p.offset)
         /\ phase' = IF MeetsTorn(p) THEN "failed" ELSE phase
  /\ dbSynced' = db'
  /\ UNCHANGED <<files, mgr, blk, acked, crashes, failures>>

\* The header of the last block gives height and hash.
OpenBlockchainInfo ==
  LET last == mgr.info.lastPersistedBlock
      found == last >= FirstBlock /\ last \in DOMAIN db.index /\ BlockAt(db.index[last]) # <<>>
  IN  /\ phase = "syncIndex"
      /\ ~syncIndexFails => ToIndex = <<>>
      /\ phase' = IF syncIndexFails \/ (~mgr.info.noBlockFiles /\ ~found) THEN "failed" ELSE "idle"
      /\ mgr' = IF phase' = "idle" /\ ~mgr.info.noBlockFiles
                THEN [mgr EXCEPT !.height = last + 1, !.hash = Hash(BlockAt(db.index[last])[1])]
                ELSE mgr
      /\ acked' = IF phase' = "idle" THEN Stored(files) ELSE acked
      /\ UNCHANGED <<files, db, dbSynced, blk, crashes, failures>>

Open == OpenInfo \/ OpenTruncate \/ SyncIndex \/ OpenBlockchainInfo

\* The process dies.  What was not synced may be lost.
Crash ==
  /\ phase \notin {"closed", "failed"}
  /\ phase = "panicked" \/ crashes < MaxCrashes
  /\ crashes' = IF phase = "panicked" THEN crashes ELSE crashes + 1
  /\ db' \in {db, dbSynced}
  /\ dbSynced' = db'
  /\ files' \in {files} \union
       {[files EXCEPT ![n].torn = FALSE] : n \in {k \in DOMAIN files : files[k].torn}}
  /\ phase' = "closed"
  /\ mgr' = NoMgr /\ blk' = <<>>
  /\ UNCHANGED <<acked, failures>>

Next ==
  \/ \E d \in Data : AddBlock(d)
  \/ RetryBlock \/ CreateNextFile \/ SaveNextFile
  \/ AppendBytes \/ SyncBytes \/ SaveInfo \/ IndexBlock \/ Publish \/ FinishAdd
  \/ FailAdd \/ CallerPanics
  \/ Open \/ Crash

Spec == Init /\ [][Next]_vars

-----------------------------------------------------------------------------
(* Properties *)

Serving == {"idle", "createFile", "saveNextFile", "append", "sync", "saveInfo", "index",
            "publish", "bcInfo", "error"}

\* newBlockfileMgr brings files, blockfilesInfo and index back in line: it neither
\* panics nor returns an error, wherever the process had died.  The exception is a
\* torn block in a file that is not the newest, which only a rollback leaves behind.
OpenSucceeds == phase = "failed" => \E n \in DOMAIN files : files[n].torn /\ n < Len(files)

\* A store that is never rolled back always opens.
NeverFails == phase # "failed"

\* RetrieveBlockByNumber returns, for every block that AddBlock has accepted,
\* that very block, also after crashes and failed calls of addBlock.
RetrievesWhatWasAdded ==
  phase \in Serving =>
    \A k \in DOMAIN acked :
      /\ FirstBlock + k - 1 \in DOMAIN db.index
      /\ BlockAt(db.index[FirstBlock + k - 1]) = <<acked[k]>>

\* Between two calls of addBlock the manager knows exactly what is on disk: the
\* end of the last file, the number of the last block, and its hash.
IdleIsInSync ==
  LET stored == Stored(files)
      last == files[mgr.info.latestFileNumber + 1]
  IN  phase = "idle" =>
        /\ mgr.height = FirstBlock + Len(stored)
        /\ mgr.info.latestFileSize = FileSize(last)
        /\ stored # <<>> => /\ mgr.info.lastPersistedBlock = mgr.height - 1
                           /\ mgr.hash = Hash(stored[Len(stored)])

Log == INSTANCE DurableLog WITH log <- Stored(files), acked <- Len(acked)

\* The store implements an atomic, durable log: no crash and no failed write
\* loses or changes a block that addBlock has acknowledged.
IsDurableLog == Log!Spec
=============================================================================
