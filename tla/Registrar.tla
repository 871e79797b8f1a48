------------------------------ MODULE Registrar ------------------------------
(***************************************************************************)
(* A channel in the registrar of an orderer: joined, onboarded by a        *)
(* follower, run by a consenter, switched between the two roles, removed,  *)
(* and found again on disk after a crash.  Calls of the participation API, *)
(* the goroutine of the follower and the one that removes the ledger share *)
(* the lock of the registrar.                                              *)
(*                                                                         *)
(* A block is its number.  Of the chain the model knows which blocks are   *)
(* config blocks, and which of those list this orderer.                    *)
(***************************************************************************)
EXTENDS Integers, FiniteSetsExt

CONSTANTS
  ConfigBlocks,   \* numbers of the config blocks; 0 is one
  Listing,        \* those that have this orderer among the consenters
  MaxNet,         \* bound on the height of the chain
  MaxJoins, MaxRemovals, MaxCrashes, MaxFailures

ASSUME RegistrarAssumption ==
  /\ MaxNet \in Nat /\ ConfigBlocks \subseteq 0 .. MaxNet /\ 0 \in ConfigBlocks
  /\ Listing \subseteq ConfigBlocks
  /\ MaxJoins \in Nat /\ MaxRemovals \in Nat /\ MaxCrashes \in Nat /\ MaxFailures \in Nat

None == -1

VARIABLES
  net,       \* height of the chain at the other orderers
  ledger,    \* height of the ledger, None if there is no directory for it
  joinFile,  \* join block in the file repository, or None
  marker,    \* whether the ledger is marked for removal
  shut,      \* whether the factory holds the ledger in its cache, but closed
  chain,     \* entry of the map chains: "none", "created", or "running"
  fol,       \* entry of the map followers, with the fields of the follower
  pending,   \* entry of pendingRemoval: "no", "removing", "failed"
  lock,      \* who holds the registrar's lock
  api,       \* the API call in progress, and the step it is at
  gor,       \* step of the goroutine of a follower
  remover,   \* step of the goroutine that removes the ledger
  late,      \* commit of a halted chain under way: "no", "open", "closed" ledger
  proc,      \* the orderer process: "down", "loading", "up"
  joined,    \* the block of the last accepted join
  word,      \* what the last API call told the client about the channel
  count      \* joins, removals, crashes and failures so far

persistent == <<net, ledger, joinFile, marker, shut>>
maps == <<chain, fol, pending>>
steps == <<lock, api, gor, remover, late, proc>>
told == <<joined, word>>
vars == <<persistent, maps, steps, told, count>>

NoFollower == [exists |-> FALSE, join |-> None, target |-> 0, lastConfig |-> 0, fetching |-> FALSE,
               stopped |-> FALSE, removing |-> FALSE, status |-> "none"]
Idle == [step |-> "idle", block |-> None]

Exists == chain # "none" \/ fol.exists
Height == Max({ledger, 0})

\* The last config block of a ledger of height h > 0.
LastConfig(h) == Max({b \in ConfigBlocks : b < h})

Init ==
  /\ net = 1
  /\ ledger = None /\ joinFile = None /\ marker = FALSE /\ shut = FALSE
  /\ chain = "none" /\ fol = NoFollower /\ pending = "no"
  /\ lock = "free" /\ api = Idle /\ gor = "none" /\ remover = "none" /\ late = "no" /\ proc = "up"
  /\ joined = None /\ word = "absent"
  /\ count = [joins |-> 0, removals |-> 0, crashes |-> 0, failures |-> 0]

\* The process ends; what is in memory is lost, and with it what a call in
\* progress would have told its client.
Stop(how) ==
  /\ proc' = how
  /\ chain' = "none" /\ fol' = NoFollower /\ pending' = "no"
  /\ lock' = "free" /\ api' = Idle /\ gor' = "none" /\ remover' = "none" /\ late' = "no"
  /\ word' = IF word \in {"joining", "removing"} THEN "unknown" ELSE word

CanFail == count.failures < MaxFailures
Failed == [count EXCEPT !.failures = @ + 1]

-----------------------------------------------------------------------------
(* The chain grows: at the other orderers, and in this one if it is member. *)

Grow ==
  /\ net < MaxNet
  /\ net' = net + 1
  /\ UNCHANGED <<ledger, joinFile, marker, shut, maps, steps, told, count>>

\* The lock is also taken by calls for other channels.
OtherChannel ==
  /\ proc = "up"
  /\ \/ lock = "free" /\ lock' = "other"
     \/ lock = "other" /\ lock' = "free"
  /\ UNCHANGED <<persistent, maps, api, gor, remover, late, proc, told, count>>

NewFollowerEarly(join) ==
  [NoFollower EXCEPT !.exists = TRUE, !.join = join,
     !.lastConfig = IF Height > 0 THEN LastConfig(Height) ELSE 0,
     !.status = IF join = None \/ join <= Height THEN "active" ELSE "onboarding"]

\* follower.NewChain
NewFollower(join) ==
  [NoFollower EXCEPT !.exists = TRUE, !.join = join,
     !.lastConfig = IF Height > 0 THEN LastConfig(Height) ELSE 0,
     !.status = IF join = None \/ join < Height THEN "active" ELSE "onboarding"]

-----------------------------------------------------------------------------
(* JoinChannel *)

Call(step, b) == [step |-> step, block |-> b]

\* The ledger is created with the ledger resources.
JoinChannel(b) ==
  /\ proc = "up" /\ api = Idle /\ lock = "free"
  /\ count.joins < MaxJoins /\ b \in ConfigBlocks /\ b < net
  /\ pending = "no" /\ ~Exists
  /\ lock' = "api" /\ api' = Call("saveJoin", b)
  /\ ledger' = Height
  /\ joined' = b /\ word' = "joining"
  /\ count' = [count EXCEPT !.joins = @ + 1]
  /\ UNCHANGED <<net, joinFile, marker, shut, maps, gor, remover, late, proc>>

JoinSave ==
  /\ api.step = "saveJoin" /\ proc = "up"
  /\ joinFile = None
  /\ joinFile' = api.block
  /\ api' = [api EXCEPT !.step = IF api.block = 0 /\ 0 \in Listing THEN "append" ELSE "follow"]
  /\ UNCHANGED <<net, ledger, marker, shut, maps, lock, gor, remover, late, proc, told, count>>

\* createAsMember appends the join block, then registers the chain.
JoinAppend ==
  /\ api.step = "append" /\ proc = "up"
  /\ ledger > 0 \/ ~shut
  /\ ledger' = Max({ledger, 1})
  /\ api' = [api EXCEPT !.step = "register"]
  /\ UNCHANGED <<net, joinFile, marker, shut, maps, lock, gor, remover, late, proc, told, count>>

JoinRegister ==
  /\ api.step = "register" /\ proc = "up"
  /\ chain' = "created"
  /\ api' = [api EXCEPT !.step = "removeJoin"]
  /\ UNCHANGED <<persistent, fol, pending, lock, gor, remover, late, proc, told, count>>

JoinStart ==
  /\ api.step = "removeJoin" /\ proc = "up"
  /\ joinFile' = None
  /\ chain' = "running"
  /\ lock' = "free" /\ api' = Idle /\ word' = "present"
  /\ UNCHANGED <<net, ledger, marker, shut, fol, pending, gor, remover, late, proc, joined, count>>

JoinFollowDropping ==
  /\ api.step = "follow" /\ proc = "up"
  /\ fol' = NewFollower(api.block)
  /\ gor' = "start" /\ joinFile' = None
  /\ lock' = "free" /\ api' = Idle /\ word' = "present"
  /\ UNCHANGED <<net, ledger, marker, shut, chain, pending, remover, late, proc, joined, count>>

JoinFollow ==
  /\ api.step = "follow" /\ proc = "up"
  /\ fol' = NewFollower(api.block)
  /\ gor' = "start"
  /\ lock' = "free" /\ api' = Idle /\ word' = "present"
  /\ UNCHANGED <<persistent, chain, pending, remover, late, proc, joined, count>>

\* An error of a step: Save refuses to replace a join block left behind, Append
\* needs an open ledger, and any other step may fail too.  The deferred functions
\* remove the join block, if this call saved it, and then the ledger; what is in
\* the maps stays there.
CleanUp == api' = [api EXCEPT !.step = IF @ = "saveJoin" THEN "markLedger" ELSE "dropJoin"]

JoinRefused ==
  /\ proc = "up"
  /\ \/ api.step = "saveJoin" /\ joinFile # None
     \/ api.step = "append" /\ ledger = 0 /\ shut
  /\ CleanUp
  /\ UNCHANGED <<persistent, maps, lock, gor, remover, late, proc, told, count>>

JoinFails ==
  /\ proc = "up" /\ CanFail
  /\ api.step \in {"saveJoin", "append", "register", "removeJoin", "follow"}
  /\ CleanUp
  /\ count' = Failed
  /\ UNCHANGED <<persistent, maps, lock, gor, remover, late, proc, told>>

CleanJoin ==
  /\ api.step = "dropJoin" /\ proc = "up"
  /\ \/ joinFile' = None /\ UNCHANGED count
     \/ CanFail /\ count' = Failed /\ UNCHANGED joinFile
  /\ api' = [api EXCEPT !.step = "markLedger"]
  /\ UNCHANGED <<net, ledger, marker, shut, maps, lock, gor, remover, late, proc, told>>

\* Remove of the ledger factory, from one step to the next: mark the ledger in the
\* file repository, shut it down and drop it, take the mark away.
RemoveLedger(at) ==
  \/ at = "mark" /\ marker' = TRUE /\ UNCHANGED <<ledger, shut>>
  \/ at = "drop" /\ ledger' = None /\ shut' = FALSE /\ UNCHANGED marker
  \/ at = "unmark" /\ marker' = FALSE /\ UNCHANGED <<ledger, shut>>
RemoveLedgerFails(at) ==
  /\ shut' = (shut \/ (at = "drop" /\ ledger # None))
  /\ UNCHANGED <<ledger, marker>>

CleanLedger ==
  /\ proc = "up"
  /\ \/ api.step = "markLedger" /\ RemoveLedger("mark") /\ api' = [api EXCEPT !.step = "dropLedger"]
     \/ api.step = "dropLedger" /\ RemoveLedger("drop") /\ api' = [api EXCEPT !.step = "unmark"]
     \/ api.step = "unmark" /\ RemoveLedger("unmark") /\ api' = [api EXCEPT !.step = "error"]
  /\ UNCHANGED <<net, joinFile, maps, lock, gor, remover, late, proc, told, count>>

CleanLedgerFails ==
  /\ proc = "up" /\ CanFail
  /\ api.step \in {"markLedger", "dropLedger", "unmark"}
  /\ RemoveLedgerFails(IF api.step = "dropLedger" THEN "drop" ELSE "other")
  /\ api' = [api EXCEPT !.step = "error"]
  /\ count' = Failed
  /\ UNCHANGED <<net, joinFile, maps, lock, gor, remover, late, proc, told>>

JoinReturnsError ==
  /\ api.step = "error" /\ proc = "up"
  /\ lock' = "free" /\ api' = Idle /\ word' = "absent"
  /\ UNCHANGED <<persistent, maps, gor, remover, late, proc, joined, count>>

-----------------------------------------------------------------------------
(* RemoveChannel *)

\* removeMember.  Halt of the consenter only signals it.
RemoveMember ==
  /\ proc = "up" /\ api = Idle /\ lock = "free"
  /\ count.removals < MaxRemovals
  /\ pending # "removing" /\ chain # "none"
  /\ chain' = "none" /\ pending' = "removing" /\ remover' = "mark"
  /\ word' = "removed"
  /\ count' = [count EXCEPT !.removals = @ + 1]
  /\ late' \in IF chain = "running" /\ ledger < MaxNet THEN {"no", "open"} ELSE {"no"}
  /\ UNCHANGED <<persistent, fol, lock, api, gor, proc, joined>>

\* doneChan is closed: the goroutine was stopped, or has failed.
Ended == {"done", "failed"}

\* follower.Halt, with the registrar's lock held, waits for the goroutine.
HaltFollower ==
  /\ proc = "up" /\ api = Idle /\ lock = "free"
  /\ count.removals < MaxRemovals
  /\ pending # "removing" /\ chain = "none" /\ fol.exists
  /\ lock' = "api" /\ api' = Call("waitDone", None)
  /\ fol' = [fol EXCEPT !.removing = TRUE, !.stopped = TRUE]
  /\ word' = "removing"
  /\ count' = [count EXCEPT !.removals = @ + 1]
  /\ UNCHANGED <<persistent, chain, pending, gor, remover, late, proc, joined>>

\* removeFollower
RemoveJoinBlock ==
  /\ api.step = "waitDone" /\ proc = "up"
  /\ gor \in Ended
  /\ joinFile' = None
  /\ api' = Call("unregister", None)
  /\ UNCHANGED <<net, ledger, marker, shut, maps, lock, gor, remover, late, proc, told, count>>

RemoveJoinBlockFails ==
  /\ api.step = "waitDone" /\ proc = "up" /\ CanFail
  /\ gor \in Ended
  /\ lock' = "free" /\ api' = Idle /\ word' = "unknown"
  /\ count' = Failed
  /\ UNCHANGED <<persistent, maps, gor, remover, late, proc, joined>>

Unregister ==
  /\ api.step = "unregister" /\ proc = "up"
  /\ fol' = NoFollower /\ gor' = "none"
  /\ pending' = "removing" /\ remover' = "mark"
  /\ lock' = "free" /\ api' = Idle /\ word' = "removed"
  /\ UNCHANGED <<persistent, chain, late, proc, joined, count>>

\* removeLedgerAsync
RemoverAfter(at) == CASE at = "mark" -> "drop" [] at = "drop" -> "unmark" [] at = "unmark" -> "finish"
LedgerCloses == late' = IF remover = "drop" /\ late = "open" THEN "closed" ELSE late

RemoverWorks ==
  /\ proc = "up" /\ remover \in {"mark", "drop", "unmark"}
  /\ RemoveLedger(remover) /\ LedgerCloses
  /\ remover' = RemoverAfter(remover)
  /\ UNCHANGED <<net, joinFile, maps, lock, api, gor, proc, told, count>>

RemoverFails ==
  /\ proc = "up" /\ CanFail /\ remover \in {"mark", "drop", "unmark"}
  /\ RemoveLedgerFails(remover) /\ LedgerCloses
  /\ remover' = "fail"
  /\ count' = Failed
  /\ UNCHANGED <<net, joinFile, maps, lock, api, gor, proc, told>>

RemoverEnds ==
  /\ proc = "up" /\ lock = "free"
  /\ remover \in {"finish", "fail"}
  /\ pending' = IF remover = "fail" THEN "failed" ELSE "no"
  /\ remover' = "none"
  /\ UNCHANGED <<persistent, chain, fol, lock, api, gor, late, proc, told, count>>

\* The goroutine of WriteBlock, which Halt does not wait for.  Its append to a
\* ledger that is shut down ends the process.
LateCommit ==
  /\ proc = "up" /\ late # "no"
  /\ IF late = "open"
     THEN /\ ledger' = ledger + 1 /\ net' = Max({net, ledger + 1}) /\ late' = "no"
          /\ UNCHANGED <<joinFile, marker, shut, maps, lock, api, gor, remover, proc, told>>
     ELSE Stop("panic") /\ shut' = FALSE /\ UNCHANGED <<net, ledger, joinFile, marker, joined>>
  /\ UNCHANGED count

-----------------------------------------------------------------------------
(* The goroutine of the follower *)

Going(step) == gor = step /\ proc = "up"
Goes(step) == gor' = step /\ UNCHANGED <<persistent, chain, pending, lock, api, remover, late, proc, told>>
GoTo(step) == Goes(step) /\ UNCHANGED count
FailTo(step) == Goes(step) /\ CanFail /\ count' = Failed

\* pull: with a join block, first pullUpToJoin.  An error outside the loop that
\* is retried ends the goroutine, and the follower stays registered ("TODO set the
\* status to StatusError").
FollowerStarts ==
  /\ Going("start")
  /\ IF fol.join # None /\ Height < fol.join + 1
     THEN \/ GoTo("upToJoin") /\ fol' = [fol EXCEPT !.target = fol.join + 1]
          \/ FailTo("failed") /\ UNCHANGED fol
     ELSE GoTo("afterJoin") /\ UNCHANGED fol

\* The loop of pullUntilTarget: the stop signal is looked at, then a block is
\* pulled and appended.  An error ends the loop, and it is retried.
PullRequest ==
  /\ gor \in {"upToJoin", "catchUp"} /\ proc = "up"
  /\ ~fol.fetching /\ ~fol.stopped /\ Height < fol.target
  /\ fol' = [fol EXCEPT !.fetching = TRUE]
  /\ UNCHANGED <<persistent, chain, pending, steps, told, count>>

PullBlock ==
  /\ proc = "up" /\ fol.fetching
  /\ Height < net /\ ~shut
  /\ ledger' = Height + 1
  /\ fol' = [fol EXCEPT !.fetching = FALSE,
                         !.lastConfig = IF Height \in ConfigBlocks THEN Height ELSE @]
  /\ UNCHANGED <<net, joinFile, marker, shut, chain, pending, steps, told, count>>

PullFails ==
  /\ proc = "up" /\ fol.fetching
  /\ fol' = [fol EXCEPT !.fetching = FALSE]
  /\ UNCHANGED <<persistent, chain, pending, steps, told, count>>

PulledToTarget ==
  /\ gor \in {"upToJoin", "catchUp"} /\ proc = "up"
  /\ ~fol.fetching /\ Height >= fol.target
  /\ GoTo(IF gor = "upToJoin" THEN "afterJoin" ELSE "check")
  /\ UNCHANGED fol

\* pullAfterJoin sets the status before it loads the config and gets a puller.
AfterJoin ==
  /\ Going("afterJoin")
  /\ \/ GoTo("check") /\ fol' = [fol EXCEPT !.status = "active", !.lastConfig = LastConfig(Height)]
     \/ FailTo("failed") /\ fol' = [fol EXCEPT !.status = "active"]

\* If membership cannot be determined, pullAfterJoin wraps err, which is nil, in
\* place of errMem: the switch goes ahead as for a member.
CheckMembership ==
  /\ Going("check")
  /\ \/ fol.lastConfig \in Listing /\ GoTo("switch") /\ fol' = [fol EXCEPT !.stopped = TRUE]
     \/ fol.lastConfig \notin Listing /\ GoTo("poll") /\ UNCHANGED fol
     \/ FailTo("switch") /\ fol' = [fol EXCEPT !.stopped = TRUE]

PollHeight ==
  /\ Going("poll")
  /\ net > Height
  /\ GoTo("catchUp") /\ fol' = [fol EXCEPT !.target = net]

FollowerStops ==
  /\ gor = "poll" \/ (gor \in {"upToJoin", "catchUp"} /\ Height < fol.target)
  /\ proc = "up" /\ fol.stopped /\ ~fol.fetching
  /\ GoTo("done") /\ UNCHANGED fol

SwitchKeepingFollower ==
  /\ Going("switch") /\ lock = "free"
  /\ lock' = "follower"
  /\ gor' = IF chain = "none" THEN "switched" ELSE "panic"
  /\ chain' = "created"
  /\ UNCHANGED <<persistent, fol, pending, api, remover, late, proc, told, count>>

\* SwitchFollowerToChain takes the lock only if it is free.
SwitchFollowerToChain ==
  /\ Going("switch") /\ lock = "free"
  /\ lock' = "follower"
  /\ gor' = IF chain = "none" THEN "switched" ELSE "panic"
  /\ fol' = NoFollower
  /\ chain' = "created"
  /\ UNCHANGED <<persistent, pending, api, remover, late, proc, told, count>>

SwitchGivesUpNever == FALSE

SwitchGivesUpAlways ==
  /\ Going("switch") /\ lock # "free"
  /\ GoTo("done") /\ UNCHANGED fol

SwitchGivesUp ==
  /\ Going("switch") /\ lock # "free" /\ fol.removing
  /\ GoTo("done") /\ UNCHANGED fol

SwitchEnds ==
  /\ Going("switched")
  /\ joinFile' = None
  /\ chain' = "running"
  /\ lock' = "free" /\ gor' = "none"
  /\ UNCHANGED <<net, ledger, marker, shut, fol, pending, api, remover, late, proc, told, count>>

\* A consenter appends what it orders, and blocks that it has missed.
ChainAppends ==
  /\ proc = "up" /\ chain = "running" /\ ledger < MaxNet
  /\ ledger > 0 /\ LastConfig(ledger) \in Listing
  /\ ledger' = ledger + 1 /\ net' = Max({net, ledger + 1})
  /\ UNCHANGED <<joinFile, marker, shut, maps, steps, told, count>>

\* A consenter that finds itself evicted.
SwitchChainToFollower ==
  /\ proc = "up" /\ chain = "running" /\ lock = "free"
  /\ ledger > 0 /\ LastConfig(ledger) \notin Listing
  /\ chain' = "none"
  /\ fol' = NewFollower(None) /\ gor' = "start"
  /\ UNCHANGED <<persistent, pending, lock, api, remover, late, proc, told, count>>

-----------------------------------------------------------------------------
(* Crash, and start of the process *)

Crash ==
  /\ proc \in {"up", "loading"} /\ count.crashes < MaxCrashes
  /\ Stop("down")
  /\ shut' = FALSE
  /\ count' = [count EXCEPT !.crashes = @ + 1]
  /\ UNCHANGED <<net, ledger, joinFile, marker, joined>>

\* New of the ledger factory takes up removals that a crash has cut off.
FactoryRemoves ==
  /\ proc \in {"down", "panic"} /\ marker
  /\ \/ ledger # None /\ ledger' = None /\ marker' = marker
     \/ ledger = None /\ ledger' = None /\ marker' = FALSE
  /\ UNCHANGED <<net, joinFile, shut, maps, steps, told, count>>

\* loadJoinBlocks and discoverLedgers: a ledger for every join block, and no
\* empty ledger without one.
Discover ==
  /\ proc \in {"down", "panic"} /\ ~marker
  /\ ledger' = IF joinFile # None THEN Height ELSE IF ledger = 0 THEN None ELSE ledger
  /\ proc' = "loading"
  /\ UNCHANGED <<net, joinFile, marker, shut, maps, lock, api, gor, remover, late, told, count>>

\* initAppChannels and startChannels.
InitMemberFromJoinBlock ==
  /\ proc = "loading" /\ joinFile = 0 /\ 0 \in Listing
  /\ \/ ledger = 0 /\ ledger' = 1 /\ UNCHANGED <<joinFile, chain, proc>>
     \/ ledger > 0 /\ joinFile' = None /\ chain' = "running" /\ proc' = "up" /\ UNCHANGED ledger
  /\ UNCHANGED <<net, marker, shut, fol, pending, lock, api, gor, remover, late, told, count>>

InitFollowerFromJoinBlock ==
  /\ proc = "loading" /\ joinFile # None /\ ~(joinFile = 0 /\ 0 \in Listing)
  /\ fol' = NewFollower(joinFile) /\ gor' = "start" /\ proc' = "up"
  /\ UNCHANGED <<persistent, chain, pending, lock, api, remover, late, told, count>>

InitFromLedger ==
  /\ proc = "loading" /\ joinFile = None /\ ledger # None
  /\ IF LastConfig(ledger) \in Listing
     THEN chain' = "running" /\ UNCHANGED <<fol, gor>>
     ELSE fol' = NewFollower(None) /\ gor' = "start" /\ UNCHANGED chain
  /\ proc' = "up"
  /\ UNCHANGED <<persistent, pending, lock, api, remover, late, told, count>>

InitWithoutChannel ==
  /\ proc = "loading" /\ joinFile = None /\ ledger = None
  /\ proc' = "up"
  /\ UNCHANGED <<persistent, maps, lock, api, gor, remover, late, told, count>>

JoinStep ==
  JoinSave \/ JoinAppend \/ JoinRegister \/ JoinStart \/ JoinFollow
  \/ JoinRefused \/ CleanJoin \/ CleanLedger \/ JoinReturnsError
RemoveStep == RemoveJoinBlock \/ Unregister
RemoverStep == RemoverWorks \/ RemoverEnds
FollowerStep ==
  FollowerStarts \/ PullRequest \/ PullBlock \/ PullFails \/ PulledToTarget \/ AfterJoin \/ CheckMembership \/ PollHeight
  \/ FollowerStops \/ SwitchFollowerToChain \/ SwitchGivesUp \/ SwitchEnds
StartStep ==
  FactoryRemoves \/ Discover \/ InitMemberFromJoinBlock \/ InitFollowerFromJoinBlock
  \/ InitFromLedger \/ InitWithoutChannel

Next ==
  \/ Grow \/ OtherChannel
  \/ \E b \in ConfigBlocks : JoinChannel(b)
  \/ JoinStep \/ JoinFails \/ CleanLedgerFails
  \/ RemoveMember \/ HaltFollower \/ RemoveStep \/ RemoveJoinBlockFails
  \/ RemoverStep \/ RemoverFails \/ LateCommit
  \/ FollowerStep \/ ChainAppends \/ SwitchChainToFollower
  \/ Crash \/ StartStep

\* The goroutines run, a process that is down is started again, and the ticker of
\* the follower finds the lock free, and the puller an orderer, now and then.
Fairness ==
  /\ WF_vars(OtherChannel /\ lock = "other") /\ WF_vars(JoinStep) /\ WF_vars(RemoveStep) /\ SF_vars(RemoverStep)
  /\ WF_vars(FollowerStep) /\ WF_vars(StartStep)
  /\ SF_vars(SwitchFollowerToChain) /\ SF_vars(PullBlock)

Spec == Init /\ [][Next]_vars /\ Fairness

-----------------------------------------------------------------------------
(* Properties *)

\* The channel has at most one role, none while it is being removed, and no switch
\* meets a chain where it expects none ("Programming error", registrar.go).  No
\* goroutine outlives the follower it serves.
OneRole ==
  /\ gor \notin {"none", "switched"} => fol.exists
  /\ ~(chain # "none" /\ fol.exists)
  /\ pending = "removing" => ~Exists
  /\ gor # "panic"

\* A channel that was joined and not removed has a role as soon as the process is
\* up, whatever crashes came between: before or after the join block was saved,
\* the first block appended, the join block removed.  One failing step in the whole
\* history is tolerated; a failed clean-up after a failed join can leave a mark that
\* a later start takes for a removal cut off.
JoinSurvives ==
  word = "present" /\ proc = "up" /\ count.failures <= 1 => Exists

\* A consenter only runs when all blocks up to the join block are in the ledger,
\* and a follower reports "active" only then (create_channel_participation.md:
\* "onboarding" while "its ledger catches up to the config block that was
\* specified in the join command"; a comment in follower_chain.go has it active
\* one block earlier).
OnboardedBeforeActive ==
  word \in {"joining", "present"} =>
    /\ chain = "running" => ledger > joined
    /\ fol.exists /\ fol.status = "active" => ledger > joined

\* RemoveChannel returns although Halt waits, with the lock held, for a goroutine
\* that wants the lock itself.
RemoveReturns == (api.step = "waitDone") ~> (api = Idle)

\* A join with a block that lists the orderer ends in a running consenter, unless
\* the follower cannot create its block puller or load its config.  Again at most
\* one step may fail, as a failed clean-up leaves a closed ledger in the cache.
JoinBecomesMember ==
  (word = "present" /\ joined \in Listing /\ ~(\E b \in ConfigBlocks \ Listing : b > joined))
    ~> (chain = "running" \/ word # "present" \/ gor = "failed" \/ count.failures > 1)

\* "Successfully removed channel."
RemovedIsGone == word = "removed" /\ proc = "up" => ~Exists

\* "After join failure, check that everything has been cleaned up"
FailedJoinIsCleanedUp == word = "absent" /\ proc = "up" => ~Exists

\* "app channel removal previously failed": RemoveChannel can be called again.
FailedRemovalCanBeRetried == pending = "failed" => Exists
=============================================================================
