------------------------- MODULE BlockStoreRollback -------------------------
(***************************************************************************)
(* The offline commands that shorten a block store, "peer node rollback"   *)
(* and "peer node reset", as steps that a crash may interrupt.  A peer may *)
(* be started, or the command repeated, after any of them.  Neither is     *)
(* allowed for a store made from a snapshot.                               *)
(***************************************************************************)
EXTENDS BlockStore

CONSTANTS BatchLimit,    \* blocks whose index entries are deleted in one batch
          MaxCommands    \* bound on the commands that are given

ASSUME RollbackAssumption == BatchLimit \in Nat \ {0} /\ MaxCommands \in Nat

VARIABLES
  target,          \* the last block to keep
  preResetHeight,  \* contents of the file __preResetHeight, 0 if there is none
  commands

rvars == <<vars, target, preResetHeight, commands>>

RInit ==
  /\ Init
  /\ target = 0 /\ preResetHeight = 0 /\ commands = 0

\* retrieveFirstBlockNumFromFile fails on a file without a complete block.
HasFirst(n) == files[n + 1].blocks # <<>>
FirstNum(n) == files[n + 1].blocks[1].number

\* The file that holds block b, or -1 for an error.
binarySearchFileNumForBlock(b) ==
  LET last == constructBlockfilesInfo.latestFileNumber
      search[i \in {i \in (0 .. last) \X (0 .. last) : i[1] <= i[2]}] ==
        LET begin == i[1]
            end == i[2]
            mid == begin + (end - begin) \div 2 + 1
        IN  IF begin = end THEN begin
            ELSE IF ~HasFirst(mid) THEN -1
            ELSE IF FirstNum(mid) = b THEN mid
            ELSE IF FirstNum(mid) > b THEN search[<<begin, mid - 1>>]
            ELSE search[<<mid, end>>]
  IN  search[<<0, last>>]

Height == constructBlockfilesInfo.lastPersistedBlock + 1

\* Mutant: a height recorded by an earlier command is overwritten.
RecordHeightAlways == preResetHeight' = Height

\* recordHeightIfGreaterThanPreviousRecording
RecordHeight == preResetHeight' = IF Height > preResetHeight THEN Height ELSE preResetHeight

\* RollbackKVLedger validates its parameters and records the height.
StartRollback(t) ==
  /\ phase = "closed" /\ commands < MaxCommands
  /\ FirstBlock = 0
  /\ files # <<>> /\ constructBlockfilesInfo.lastPersistedBlock > t
  /\ commands' = commands + 1
  /\ target' = t
  /\ RecordHeight
  /\ acked' = IF t + 1 < Len(acked) THEN SubSeq(acked, 1, t + 1) ELSE acked
  /\ phase' = "rollbackIndex"
  /\ UNCHANGED <<files, db, dbSynced, mgr, blk, crashes, failures>>

\* A round of rollbackBlockIndex: the entries of at most BatchLimit blocks go.
RollbackIndex ==
  LET start == db.savePoint - BatchLimit + 1
      from == IF start > target THEN start ELSE target + 1
  IN  /\ phase = "rollbackIndex" /\ db.savePoint > target
      /\ db' = [db EXCEPT !.index = [n \in {k \in DOMAIN @ : k < from} |-> @[n]],
                          !.savePoint = from - 1]
      /\ dbSynced' = db'
      /\ UNCHANGED <<files, mgr, phase, blk, acked, crashes, failures, target, preResetHeight, commands>>

\* rollbackBlockFiles forgets blockfilesInfo and looks for the file to cut.
DeleteInfo ==
  /\ phase = "rollbackIndex" /\ db.savePoint <= target
  /\ db' = [db EXCEPT !.info = <<>>]
  /\ dbSynced' = db'
  /\ phase' = "rollbackFiles"
  /\ UNCHANGED <<files, mgr, blk, acked, crashes, failures, target, preResetHeight, commands>>

RollbackSearchFails ==
  /\ phase = "rollbackFiles"
  /\ binarySearchFileNumForBlock(target) = -1
  /\ phase' = "rollbackFailed"
  /\ UNCHANGED <<files, db, dbSynced, mgr, blk, acked, crashes, failures, target, preResetHeight, commands>>

\* The files after it are removed, from the last one down ...
RemoveFile ==
  /\ phase = "rollbackFiles"
  /\ binarySearchFileNumForBlock(target) >= 0
  /\ Len(files) > binarySearchFileNumForBlock(target) + 1
  /\ files' = SubSeq(files, 1, Len(files) - 1)
  /\ UNCHANGED <<db, dbSynced, mgr, phase, blk, acked, crashes, failures, target, preResetHeight, commands>>

\* Mutant: the file is truncated before the target block.
TruncateBeforeTarget ==
  LET n == binarySearchFileNumForBlock(target)
  IN  /\ phase = "rollbackFiles"
      /\ n >= 0 /\ Len(files) = n + 1
      /\ \E k \in DOMAIN files[n + 1].blocks :
           /\ files[n + 1].blocks[k].number = target
           /\ files' = [files EXCEPT ![n + 1] = [blocks |-> SubSeq(@.blocks, 1, k - 1), torn |-> FALSE]]
      /\ phase' = "closed"
      /\ UNCHANGED <<db, dbSynced, mgr, blk, acked, crashes, failures, target, preResetHeight, commands>>

\* ... and it is truncated where calculateEndOffSet finds the end of the target block.
TruncateToTarget ==
  LET n == binarySearchFileNumForBlock(target)
  IN  /\ phase = "rollbackFiles"
      /\ n >= 0 /\ Len(files) = n + 1
      /\ \E k \in DOMAIN files[n + 1].blocks :
           /\ files[n + 1].blocks[k].number = target
           /\ files' = [files EXCEPT ![n + 1] = [blocks |-> SubSeq(@.blocks, 1, k), torn |-> FALSE]]
      /\ phase' = "closed"
      /\ UNCHANGED <<db, dbSynced, mgr, blk, acked, crashes, failures, target, preResetHeight, commands>>

\* ResetBlockStore drops the index with all it holds, then cuts the files back
\* to the genesis block.
StartReset ==
  /\ phase = "closed" /\ commands < MaxCommands
  /\ FirstBlock = 0
  /\ commands' = commands + 1
  /\ target' = 0
  /\ db' = [info |-> <<>>, index |-> <<>>, savePoint |-> -1]
  /\ dbSynced' = db'
  /\ acked' = IF 1 < Len(acked) THEN SubSeq(acked, 1, 1) ELSE acked
  /\ phase' = "resetHeight"
  /\ UNCHANGED <<files, mgr, blk, crashes, failures, preResetHeight>>

ResetHeight ==
  /\ phase = "resetHeight"
  /\ RecordHeight
  /\ phase' = IF files = <<>> THEN "closed"
              ELSE IF ~HasFirst(0) THEN "resetFailed" ELSE "resetFiles"
  /\ UNCHANGED <<files, db, dbSynced, mgr, blk, acked, crashes, failures, target, commands>>

ResetRemoveFile ==
  /\ phase = "resetFiles" /\ Len(files) > 1
  /\ files' = SubSeq(files, 1, Len(files) - 1)
  /\ UNCHANGED <<db, dbSynced, mgr, phase, blk, acked, crashes, failures, target, preResetHeight, commands>>

ResetTruncate ==
  /\ phase = "resetFiles" /\ Len(files) = 1
  /\ files' = [files EXCEPT ![1] = [blocks |-> SubSeq(@.blocks, 1, 1), torn |-> FALSE]]
  /\ phase' = "closed"
  /\ UNCHANGED <<db, dbSynced, mgr, blk, acked, crashes, failures, target, preResetHeight, commands>>

\* A command that returns an error leaves the store as it is.
CommandReturns ==
  /\ phase \in {"rollbackFailed", "resetFailed"}
  /\ phase' = "closed"
  /\ UNCHANGED <<files, db, dbSynced, mgr, blk, acked, crashes, failures, target, preResetHeight, commands>>

\* resetLoop of the peer calls ClearPreResetHeight when the ledger has reached its former height
\* again.
ClearPreResetHeight ==
  /\ phase \in Serving
  /\ preResetHeight > 0 /\ mgr.height >= preResetHeight
  /\ preResetHeight' = 0
  /\ UNCHANGED <<vars, target, commands>>

RNext ==
  \/ Next /\ UNCHANGED <<target, preResetHeight, commands>>
  \/ \E t \in 0 .. MaxHeight - 1 : StartRollback(t)
  \/ RollbackIndex \/ DeleteInfo \/ RollbackSearchFails \/ RemoveFile \/ TruncateToTarget
  \/ StartReset \/ ResetHeight \/ ResetRemoveFile \/ ResetTruncate
  \/ CommandReturns \/ ClearPreResetHeight

RSpec == RInit /\ [][RNext]_rvars

-----------------------------------------------------------------------------
(* Properties *)

\* A crash in the middle of a rollback or a reset leaves a store
\* that still holds every block up to the target: blocks beyond it may or may
\* not be there, but the log has no gap.
KeepsUpToTarget ==
  /\ Len(Stored(files)) >= Len(acked)
  /\ \A k \in DOMAIN Stored(files) :
       /\ Stored(files)[k].number = k - 1
       /\ k \in DOMAIN acked => Stored(files)[k] = acked[k]

\* While a ledger is shorter than it was before a rollback or a reset, the height
\* to which it must be brought again stays recorded (reset.go: this "helps in
\* achieving fail-safe behaviour").  No command removes blocks of a store that is
\* higher than what is recorded, however long ago it recorded that; and what is
\* recorded is lowered, by a later command or when it is cleared, only if the
\* ledger has that many acknowledged blocks again.
HeightStaysRecorded ==
  [][/\ phase \in {"rollbackFiles", "resetFiles"} /\ Len(Stored(files')) < Len(Stored(files))
          => preResetHeight' >= Len(Stored(files))
     /\ preResetHeight' < preResetHeight => Len(acked) >= preResetHeight]_rvars

\* A rollback whose parameters were found valid reverts the store to the target.
RollbackSucceeds == phase # "rollbackFailed"
=============================================================================
