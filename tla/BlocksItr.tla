------------------------------ MODULE BlocksItr ------------------------------
(***************************************************************************)
(* A reader of the block store: the iterator behind a Deliver stream, used *)
(* while addBlock runs in another goroutine.  Next waits for the number of *)
(* the last persisted block, then takes the block from the cache or from a *)
(* stream over the files that it opened at an earlier call.                *)
(***************************************************************************)
EXTENDS BlockStore

VARIABLES
  itr,     \* the iterator
  call,    \* where the reader is: no iterator, before Next, in Next, after
  got      \* the blocks that Next has returned

ivars == <<vars, itr, call, got>>

NoStream == [file |-> -1, pos |-> 0]

NoItr == [start |-> 0, next |-> 0, max |-> 0, stream |-> NoStream, closed |-> FALSE, empty |-> FALSE]

IInit == Init /\ itr = NoItr /\ call = "none" /\ got = <<>>

\* FileLedger.Iterator for a specified number, and newBlockItr.
OpenIterator(n) ==
  /\ call = "none" /\ phase \in Serving
  /\ n >= FirstBlock /\ n <= mgr.height
  /\ itr' = [NoItr EXCEPT !.start = n, !.next = n, !.max = mgr.info.lastPersistedBlock,
                          !.empty = mgr.info.noBlockFiles]
  /\ call' = "ready"
  /\ UNCHANGED <<vars, got>>

\* The comparison is off by one.
CanGoOnEarly == mgr.info.lastPersistedBlock + 1 >= itr.next \/ itr.closed
CanGoOnLate == mgr.info.lastPersistedBlock > itr.next \/ itr.closed

\* Close is not looked at.
CanGoOnUnclosed == mgr.info.lastPersistedBlock >= itr.next

\* waitForBlock: the condition variable is signalled by Publish and by Close.
CanGoOn == mgr.info.lastPersistedBlock >= itr.next \/ itr.closed

WaitForBlock ==
  /\ call = "ready"
  /\ itr.max < itr.next => CanGoOn
  /\ itr' = IF itr.max < itr.next THEN [itr EXCEPT !.max = mgr.info.lastPersistedBlock] ELSE itr
  /\ call' = "reading"
  /\ UNCHANGED <<vars, got>>

\* The next block of a stream: in its file, or the first of the next file.
StreamBlock(s) ==
  LET f == files[s.file + 1]
  IN  IF s.pos < Len(f.blocks) THEN <<f.blocks[s.pos + 1]>>
      ELSE IF ~f.torn /\ s.file + 1 < Len(files) /\ files[s.file + 2].blocks # <<>>
      THEN <<files[s.file + 2].blocks[1]>>
      ELSE <<>>

StreamAfter(s) ==
  IF s.pos < Len(files[s.file + 1].blocks) THEN [s EXCEPT !.pos = @ + 1]
  ELSE [file |-> s.file + 1, pos |-> 1]

initStream ==
  LET loc == db.index[itr.next]
  IN  [file |-> loc.file, pos |-> BlocksUpTo(files[loc.file + 1], loc.offset)]

Cached == itr.next \in DOMAIN mgr.cache.blocks

Return(b, stream) ==
  /\ itr' = [itr EXCEPT !.next = @ + 1, !.stream = stream]
  /\ got' = Append(got, b)
  /\ call' = "ready"

\* The stream is kept.
NextFromCacheKeeping ==
  /\ call = "reading" /\ ~itr.closed /\ Cached
  /\ Return(mgr.cache.blocks[itr.next], itr.stream)
  /\ UNCHANGED vars

\* The rest of Next, under closeMarkerLock.  A block from the cache drops the
\* stream, which would be out of step with the iterator.
NextFromCache ==
  /\ call = "reading" /\ ~itr.closed /\ Cached
  /\ Return(mgr.cache.blocks[itr.next], NoStream)
  /\ UNCHANGED vars

NextFromFile ==
  /\ call = "reading" /\ ~itr.closed /\ ~Cached
  /\ itr.stream = NoStream => itr.next \in DOMAIN db.index
  /\ LET s == IF itr.stream = NoStream THEN initStream ELSE itr.stream
     IN  StreamBlock(s) # <<>> /\ Return(StreamBlock(s)[1], StreamAfter(s))
  /\ UNCHANGED vars

NextFails ==
  /\ call = "reading" /\ ~itr.closed /\ ~Cached
  /\ IF itr.stream = NoStream THEN itr.next \notin DOMAIN db.index
     ELSE StreamBlock(itr.stream) = <<>>
  /\ call' = "error"
  /\ UNCHANGED <<vars, itr, got>>

NextAfterClose ==
  /\ call = "reading" /\ itr.closed
  /\ call' = "done"
  /\ UNCHANGED <<vars, itr, got>>

Close ==
  /\ call \in {"ready", "reading"} /\ ~itr.closed
  /\ itr' = [itr EXCEPT !.closed = TRUE]
  /\ UNCHANGED <<vars, call, got>>

\* A crash takes the reader with it.
WriterStep ==
  /\ Next
  /\ IF phase' = "closed" THEN itr' = NoItr /\ call' = "none" /\ got' = <<>>
     ELSE UNCHANGED <<itr, call, got>>

ReaderStep == WaitForBlock \/ NextFromCache \/ NextFromFile \/ NextFails \/ NextAfterClose

INext ==
  \/ WriterStep
  \/ \E n \in Numbers : OpenIterator(n)
  \/ ReaderStep \/ Close

\* The goroutine of the reader keeps running; nobody has to add blocks.
ISpec == IInit /\ [][INext]_ivars /\ WF_ivars(ReaderStep)

-----------------------------------------------------------------------------
(* Properties *)

\* Next returns the blocks of the chain in order from the one asked for, none
\* twice and none skipped, whether they come from the cache or from the files,
\* and never a block whose append is still being made durable.
ReadsTheChain ==
  LET stored == Stored(files)
  IN  \A k \in DOMAIN got :
        /\ itr.start - FirstBlock + k <= Len(stored)
        /\ got[k] = stored[itr.start - FirstBlock + k]

\* While the store runs, Next fails only on an iterator that was opened before
\* the store had its first block.
FailsOnlyWhenEmpty == call = "error" => itr.empty

\* "Next blocks until there is a new block available, or until Close is called."
NextBlocksUntilAvailable == call # "error"

\* A reader that stays is given every block that is added from the one it asked for.
ReaderCatchesUp ==
  \A n \in Numbers :
    (n < mgr.height /\ itr.start <= n /\ call \in {"ready", "reading"})
      ~> (itr.next > n \/ itr.closed \/ call \in {"none", "error"})

\* Close makes a Next that waits for a block return.
CloseWakesReader == (call \in {"ready", "reading"} /\ itr.closed) ~> (call \in {"done", "none"})
=============================================================================
