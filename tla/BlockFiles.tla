------------------------------ MODULE BlockFiles ------------------------------
(***************************************************************************)
(* The block files of a channel: what they hold, and what is read off      *)
(* them.  A file is its complete blocks, and whether the bytes of a        *)
(* further one follow (torn).  A block never exceeds the size of a file.   *)
(***************************************************************************)
EXTENDS Integers, Sequences

CONSTANTS
  Data,           \* contents of a block
  DataSize,       \* their size on disk, length prefix included
  MaxFileSize,    \* conf.maxBlockfileSize
  FirstBlock,     \* 0, or the height of the snapshot the store is made from
  MaxHeight       \* bound on the number of blocks

ASSUME FilesAssumption ==
  /\ MaxFileSize \in Nat \ {0} /\ DataSize \in [Data -> 2 .. MaxFileSize]
  /\ FirstBlock \in Nat /\ MaxHeight \in Nat

VARIABLE files    \* the block files; file number n is files[n + 1]

Hash(b) == <<b.number, b.data>>
NoHash == <<>>
SnapshotHash == <<FirstBlock - 1>>
GenesisHash == IF FirstBlock = 0 THEN NoHash ELSE SnapshotHash

Numbers == FirstBlock .. FirstBlock + MaxHeight
Hashes == {GenesisHash} \union (Numbers \X Data)
Block == [number : Numbers, previousHash : Hashes, data : Data]

\* Where each of the blocks of a file ends.
Ends(blocks) ==
  LET end[k \in 0 .. Len(blocks)] == IF k = 0 THEN 0 ELSE end[k - 1] + DataSize[blocks[k].data]
  IN  end

Bytes(blocks) == Ends(blocks)[Len(blocks)]

EmptyFile == [blocks |-> <<>>, torn |-> FALSE]
FileSize(f) == Bytes(f.blocks) + (IF f.torn THEN 1 ELSE 0)

\* The number of complete blocks that end at or before an offset.
BlocksUpTo(f, offset) ==
  CHOOSE n \in 0 .. Len(f.blocks) :
    /\ Ends(f.blocks)[n] <= offset
    /\ n < Len(f.blocks) => Ends(f.blocks)[n + 1] > offset

TruncateFile(fs, n, size) ==
  [fs EXCEPT ![n + 1] = [blocks |-> SubSeq(@.blocks, 1, BlocksUpTo(@, size)), torn |-> FALSE]]

\* All complete blocks of the first n files, and of all files, in order.
UpTo(fs) ==
  LET upTo[n \in 0 .. Len(fs)] == IF n = 0 THEN <<>> ELSE upTo[n - 1] \o fs[n].blocks
  IN  upTo

Stored(fs) == UpTo(fs)[Len(fs)]

\* fetchBlock: the block that starts at a location, if there is one.
BlockAt(loc) ==
  LET f == files[loc.file + 1]
      k == BlocksUpTo(f, loc.offset) + 1
  IN  IF k <= Len(f.blocks) THEN <<f.blocks[k]>> ELSE <<>>

Info(file, size, empty, last) ==
  [latestFileNumber |-> file, latestFileSize |-> size, noBlockFiles |-> empty,
   lastPersistedBlock |-> last]

OpenFile(fs, n) == IF Len(fs) > n THEN fs ELSE Append(fs, EmptyFile)

-----------------------------------------------------------------------------
(* What newBlockfileMgr reads off the files *)

\* scanForLastCompleteBlock, from an offset.
ScanFrom(f, offset) == SubSeq(f.blocks, BlocksUpTo(f, offset) + 1, Len(f.blocks))

\* A torn block at the end is taken for a block.
syncBlockfilesInfoToEnd(i) ==
  LET n == i.latestFileNumber + 1
      f == files[n]
      found == Len(ScanFrom(f, i.latestFileSize))
  IN  IF Len(files) < n THEN i
      ELSE [i EXCEPT !.latestFileSize = FileSize(f), !.noBlockFiles = @ /\ found = 0,
                     !.lastPersistedBlock = IF i.noBlockFiles /\ found > 0 THEN found - 1 ELSE @ + found]

syncBlockfilesInfoFromFS(i) ==
  LET n == i.latestFileNumber + 1
      f == files[n]
      found == Len(ScanFrom(f, i.latestFileSize))
  IN  IF Len(files) < n \/ FileSize(f) = i.latestFileSize THEN i
      ELSE IF found = 0 THEN [i EXCEPT !.latestFileSize = Bytes(f.blocks)]
      ELSE Info(i.latestFileNumber, Bytes(f.blocks), FALSE,
                IF i.noBlockFiles THEN found - 1 ELSE i.lastPersistedBlock + found)

\* The last complete block is looked for in the last file and in the one before.
constructBlockfilesInfo ==
  LET n == Len(files)
      scanned == IF files[n].blocks = <<>> /\ n > 1 THEN files[n - 1].blocks ELSE files[n].blocks
      last == IF scanned = <<>> THEN 0 ELSE scanned[Len(scanned)].number
  IN  IF n = 0 THEN Info(0, 0, TRUE, 0)
      ELSE Info(n - 1, Bytes(files[n].blocks), n = 1 /\ files[n].blocks = <<>>, last)

\* The places of all blocks of the files, in order, with the blocks.
Placed ==
  LET upTo == UpTo(files)
      File(k) == CHOOSE n \in DOMAIN files : Len(upTo[n - 1]) < k /\ k <= Len(upTo[n])
      Place(n, i) == [file |-> n - 1, offset |-> Ends(files[n].blocks)[i - 1], block |-> files[n].blocks[i]]
  IN  [k \in DOMAIN Stored(files) |-> Place(File(k), k - Len(upTo[File(k) - 1]))]

IsAt(p, loc) == p.file = loc.file /\ p.offset = loc.offset
=============================================================================
