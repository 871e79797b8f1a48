------------------------------ MODULE SnapshotMgr ------------------------------
(***************************************************************************)
(* Snapshots of a peer's ledger.  Requests are kept in a database until    *)
(* the block they name is committed and its snapshot generated.  The       *)
(* goroutine processSnapshotMgmtEvents takes one event at a time and makes *)
(* the committer wait while a snapshot is generated.                       *)
(*                                                                         *)
(* Its channels are unbuffered and every sender waits for the answer, so   *)
(* that an event and the answer to it are one step.                        *)
(***************************************************************************)
EXTENDS Naturals, FiniteSetsExt

CONSTANTS MaxBlock, MaxPeerCrashes, MaxFailures

ASSUME SnapshotMgrAssumption == MaxBlock \in Nat /\ MaxPeerCrashes \in Nat /\ MaxFailures \in Nat

NoRequest == MaxBlock + 1   \* defaultSmallestBlockNumber

VARIABLES
  height,     \* last block of the block store
  requests,   \* requests in the bookkeeping database
  snapshots,  \* generated snapshots: their name, the state they hold, the request
  last,       \* lastCommittedBlockNumber
  status,     \* committerStatus
  inProgress, \* snapshotInProgress
  smallest,   \* smallestRequestBlockNum
  committer,  \* step of the commit of block height + 1
  gen,        \* step of generateSnapshot, and what it has exported
  up, peerCrashes, failures, deleteFailures

disk == <<height, requests, snapshots>>
manager == <<last, status, inProgress, smallest>>
svars == <<disk, manager, committer, gen, up, peerCrashes, failures, deleteFailures>>

NotGenerating == [step |-> "none", block |-> 0, txids |-> 0, state |-> 0]
Generating(n) == [NotGenerating EXCEPT !.step = "start", !.block = n]
Smallest(S) == Min(S \cup {NoRequest})
SnapshotExists(n) == \E s \in snapshots : s.num = n
CanFail == failures + deleteFailures < MaxFailures

SInit ==
  /\ height = 0 /\ requests = {} /\ snapshots = {}
  /\ last = 0 /\ status = "idle" /\ inProgress = FALSE /\ smallest = NoRequest
  /\ committer = "idle" /\ gen = NotGenerating
  /\ up = TRUE /\ peerCrashes = 0 /\ failures = 0 /\ deleteFailures = 0

----------------------------------------------------------------------------
(* The committer: CommitLegacy *)

\* Mutant: the commit proceeds although a snapshot is being generated.
CommitStartAnyway ==
  /\ up /\ committer = "idle" /\ height < MaxBlock
  /\ status' = "inProcess"
  /\ committer' = "committing"
  /\ UNCHANGED <<disk, last, inProgress, smallest, gen, up, peerCrashes, failures, deleteFailures>>

CommitStart ==
  /\ up /\ committer = "idle" /\ height < MaxBlock
  /\ status' = IF inProgress THEN "blocked" ELSE "inProcess"
  /\ committer' = IF inProgress THEN "waiting" ELSE "committing"
  /\ UNCHANGED <<disk, last, inProgress, smallest, gen, up, peerCrashes, failures, deleteFailures>>

StoreBlock ==
  /\ up /\ committer = "committing"
  /\ height' = height + 1
  /\ committer' = "done"
  /\ UNCHANGED <<requests, snapshots, manager, gen, up, peerCrashes, failures, deleteFailures>>

\* Handling of commitDone for block n.
Done(n) ==
  /\ last' = n
  /\ status' = "idle"
  /\ inProgress' = (inProgress \/ n = smallest)
  /\ gen' = IF n = smallest THEN Generating(n) ELSE gen
  /\ UNCHANGED smallest

CommitDone ==
  /\ up /\ committer = "done"
  /\ committer' = "idle"
  /\ Done(height)
  /\ UNCHANGED <<disk, up, peerCrashes, failures, deleteFailures>>

----------------------------------------------------------------------------
(* The goroutine that generates a snapshot: the block store and the state   *)
(* database are exported one after the other.                               *)

ExportTxIds ==
  /\ up /\ gen.step = "start"
  /\ gen' = [gen EXCEPT !.step = "txids", !.txids = height]
  /\ UNCHANGED <<disk, manager, committer, up, peerCrashes, failures, deleteFailures>>

ExportState ==
  /\ up /\ gen.step = "txids"
  /\ gen' = [gen EXCEPT !.step = "state", !.state = height]
  /\ UNCHANGED <<disk, manager, committer, up, peerCrashes, failures, deleteFailures>>

\* The temporary directory is renamed, after the height read at the start.
RenameSnapshot ==
  /\ up /\ gen.step = "state"
  /\ snapshots' = snapshots \cup {[num |-> gen.txids, state |-> gen.state, request |-> gen.block]}
  /\ gen' = [gen EXCEPT !.step = "done"]
  /\ UNCHANGED <<height, requests, manager, committer, up, peerCrashes, failures, deleteFailures>>

GenerateFails ==
  /\ up /\ gen.step \in {"start", "txids", "state"} /\ CanFail
  /\ failures' = failures + 1
  /\ gen' = [gen EXCEPT !.step = "done"]
  /\ UNCHANGED <<disk, manager, committer, up, peerCrashes, deleteFailures>>

\* The database fails before the request is deleted, or after it, when the next
\* one is looked for: smallestRequest returns 0 then, and smallest becomes 0.
DeleteFails(n) ==
  /\ CanFail
  /\ deleteFailures' = deleteFailures + 1
  /\ \/ UNCHANGED <<requests, smallest>>
     \/ /\ smallest = n
        /\ requests' = requests \ {n}
        /\ smallest' = 0

\* Mutant: the next smallest request is not looked for.
DeleteOnly(n) ==
  /\ requests' = requests \ {n}
  /\ smallest' = IF smallest = n THEN NoRequest ELSE smallest
  /\ UNCHANGED deleteFailures

\* Deletion from the bookkeeper, which looks for the next smallest request.
Delete(n) ==
  \/ /\ requests' = requests \ {n}
     /\ smallest' = IF smallest = n THEN Smallest(requests') ELSE smallest
     /\ UNCHANGED deleteFailures
  \/ DeleteFails(n)

\* Mutant: a commit that waits is not resumed.
SnapshotDoneOnly ==
  /\ up /\ gen.step = "done"
  /\ Delete(gen.block)
  /\ inProgress' = FALSE
  /\ gen' = NotGenerating
  /\ UNCHANGED <<height, snapshots, last, status, committer, up, peerCrashes, failures>>

\* An error of the deletion is logged only.
SnapshotDone ==
  /\ up /\ gen.step = "done"
  /\ Delete(gen.block)
  /\ status' = IF status = "blocked" THEN "inProcess" ELSE status
  /\ committer' = IF status = "blocked" THEN "committing" ELSE committer
  /\ inProgress' = FALSE
  /\ gen' = NotGenerating
  /\ UNCHANGED <<height, snapshots, last, up, peerCrashes, failures>>

----------------------------------------------------------------------------
(* Requests *)

LeastAcceptable == IF status = "idle" THEN last ELSE last + 1

\* SubmitSnapshotRequest that is not refused; 0 stands for the latest block.
SubmitSnapshotRequest ==
  /\ up
  /\ \E block \in 0 .. MaxBlock :
       LET n == IF block = 0 THEN LeastAcceptable ELSE block
           now == status = "idle" /\ n = last
       IN /\ n >= LeastAcceptable
          /\ n = last => ~SnapshotExists(n)
          /\ n \notin requests
          /\ requests' = requests \cup {n}
          /\ smallest' = Min({smallest, n})
          /\ inProgress' = (inProgress \/ now)
          /\ gen' = IF now THEN Generating(n) ELSE gen
  /\ UNCHANGED <<height, snapshots, last, status, committer, up, peerCrashes, failures, deleteFailures>>

CancelSnapshotRequest ==
  /\ up
  /\ \E n \in requests : ~(inProgress /\ n = last) /\ Delete(n)
  /\ UNCHANGED <<height, snapshots, last, status, inProgress, committer, gen, up, peerCrashes, failures>>

----------------------------------------------------------------------------
PeerCrash ==
  /\ up /\ peerCrashes < MaxPeerCrashes
  /\ peerCrashes' = peerCrashes + 1
  /\ up' = FALSE
  /\ committer' = "idle" /\ gen' = NotGenerating
  /\ status' = "idle" /\ inProgress' = FALSE
  /\ UNCHANGED <<disk, last, smallest, failures, deleteFailures>>

\* initSnapshotMgr, with regenrateMissedSnapshot.
Restart ==
  /\ ~up
  /\ up' = TRUE
  /\ smallest' = Smallest(requests)
  /\ last' = height
  /\ LET missed == height = smallest' /\ ~SnapshotExists(height) IN
       /\ inProgress' = missed
       /\ gen' = IF missed THEN Generating(height) ELSE NotGenerating
  /\ UNCHANGED <<disk, status, committer, peerCrashes, failures, deleteFailures>>

----------------------------------------------------------------------------
CommitStep == CommitStart \/ StoreBlock \/ CommitDone
Generate == ExportTxIds \/ ExportState \/ RenameSnapshot \/ GenerateFails \/ SnapshotDone

SNext == CommitStep \/ Generate \/ SubmitSnapshotRequest \/ CancelSnapshotRequest \/ PeerCrash \/ Restart

SSpec == SInit /\ [][SNext]_svars

\* Goroutines run, blocks keep coming and a crashed peer is started again.
SFairSpec == SSpec /\ WF_svars(CommitStep) /\ WF_svars(Generate) /\ WF_svars(Restart)

----------------------------------------------------------------------------
\* All parts of a snapshot, exported one by one by generateSnapshot, cover the
\* block it was requested for: no commit gets in between.
SnapshotIsConsistent == \A s \in snapshots : s.num = s.request /\ s.state = s.request

\* A commit that was made to wait for a snapshot is resumed, also when the
\* snapshot fails, or the peer ends and is started again.
CommitResumes == committer = "waiting" ~> committer # "waiting"

\* SubmitSnapshotRequest: "The request will be stored in the ledger until the
\* ledger commits the given block number and the snapshot generation is completed."
\* A request whose block is committed does not stay pending, unless the peer crashes,
\* when a start after the block has been passed neither serves it nor drops it, or a
\* deletion fails: "the pending snapshot requests (if any) may not be processed".
RequestIsServed ==
  \A n \in 0 .. MaxBlock :
    (n \in requests /\ height >= n) ~> (n \notin requests \/ peerCrashes > 0 \/ deleteFailures > 0)
================================================================================
