---------------------------- MODULE RegistrarProofs ----------------------------
(***************************************************************************)
(* The channel has at most one role, is onboarded before it is active, and *)
(* survives crashes, for any chain and any number of calls and crashes.    *)
(* The argument for the roles is about the lock: whoever is between two    *)
(* changes of the maps holds it, and what the maps hold then is known from *)
(* the step that it is at.  For onboarding and crashes it is about the     *)
(* disk: the join block is there until the ledger has it.                  *)
(***************************************************************************)
EXTENDS Registrar, TLAPS

JoinSteps == {"saveJoin", "append", "register", "follow", "removeJoin"}
CleanSteps == {"dropJoin", "markLedger", "dropLedger", "unmark", "error"}
RemoveSteps == {"waitDone", "unregister"}

Shapes == "exists" \in DOMAIN fol /\ "step" \in DOMAIN api

\* A follower is registered as long as its goroutine has not switched or been removed.
GoroutineInv ==
  /\ fol.exists <=> gor \notin {"none", "switched"}
  /\ gor # "panic"
  /\ gor = "switched" => chain # "none"

\* Who holds the lock.
LockInv ==
  /\ lock = "api" <=> api.step # "idle"
  /\ lock = "follower" <=> gor = "switched"

\* What a call that holds the lock has left in the maps.
CallInv ==
  /\ api.step \in {"idle"} \cup JoinSteps \cup CleanSteps \cup RemoveSteps
  /\ api.step \in JoinSteps \cup CleanSteps => pending = "no" /\ ~fol.exists
  /\ api.step \in JoinSteps \ {"removeJoin"} => chain = "none"
  /\ api.step \in RemoveSteps => fol.exists
  /\ api.step = "unregister" => gor \in Ended

RolesInv ==
  /\ ~(chain # "none" /\ fol.exists)
  /\ pending # "no" => ~Exists
  /\ pending = "removing" <=> remover # "none"

DownInv == proc # "up" => /\ chain = "none" /\ ~fol.exists /\ gor = "none" /\ pending = "no"
                          /\ remover = "none" /\ api.step = "idle" /\ lock = "free"

IInv == Shapes /\ GoroutineInv /\ LockInv /\ CallInv /\ RolesInv /\ DownInv

--------------------------------------------------------------------------------
LEMMA NoFollowerIs == "exists" \in DOMAIN NoFollower /\ ~NoFollower.exists
BY DEF NoFollower

LEMMA NewFollowerIs == \A b : "exists" \in DOMAIN NewFollower(b) /\ NewFollower(b).exists
BY DEF NewFollower, NoFollower

LEMMA CallIs ==
  /\ "step" \in DOMAIN Idle /\ Idle.step = "idle"
  /\ \A s, b : "step" \in DOMAIN Call(s, b) /\ Call(s, b).step = s
BY DEF Idle, Call

\* Steps that leave the maps, the lock and the goroutines alone.
LEMMA OthersInv ==
  ASSUME IInv, UNCHANGED <<chain, gor, pending, lock, api, proc>>,
         "exists" \in DOMAIN fol', fol'.exists <=> fol.exists,
         remover' # "none" <=> remover # "none"
  PROVE  IInv'
BY DEF IInv, Shapes, GoroutineInv, LockInv, CallInv, RolesInv, DownInv, Exists

LEMMA InitInv == Init => IInv
BY NoFollowerIs, CallIs
DEF Init, IInv, Shapes, GoroutineInv, LockInv, CallInv, RolesInv, DownInv, Exists, JoinSteps, CleanSteps, RemoveSteps

\* The process ends.
LEMMA StopInv == ASSUME IInv, NEW how, how # "up", Stop(how) PROVE IInv'
BY NoFollowerIs, CallIs
DEF Stop, IInv, Shapes, GoroutineInv, LockInv, CallInv, RolesInv, DownInv, Exists, JoinSteps, CleanSteps, RemoveSteps

LEMMA JoinInv ==
  ASSUME IInv, (\E b \in ConfigBlocks : JoinChannel(b)) \/ JoinStep \/ JoinFails \/ CleanLedgerFails
  PROVE  IInv'
<1> USE DEF IInv, Shapes, GoroutineInv, LockInv, CallInv, RolesInv, DownInv, Exists, JoinSteps, CleanSteps, RemoveSteps
<1>1. CASE \E b \in ConfigBlocks : JoinChannel(b) BY <1>1, CallIs DEF JoinChannel, maps
<1>2. CASE JoinSave BY <1>2 DEF JoinSave, maps
<1>3. CASE JoinAppend BY <1>3 DEF JoinAppend, maps
<1>4. CASE JoinRegister BY <1>4 DEF JoinRegister
<1>5. CASE JoinStart BY <1>5, CallIs DEF JoinStart
<1>6. CASE JoinFollow BY <1>6, CallIs, NewFollowerIs DEF JoinFollow
<1>7. CASE JoinRefused \/ JoinFails BY <1>7 DEF JoinRefused, JoinFails, CleanUp, maps
<1>8. CASE CleanJoin BY <1>8 DEF CleanJoin, maps
<1>9. CASE CleanLedger \/ CleanLedgerFails BY <1>9 DEF CleanLedger, CleanLedgerFails, maps
<1>10. CASE JoinReturnsError BY <1>10, CallIs DEF JoinReturnsError, maps
<1> QED BY <1>1, <1>2, <1>3, <1>4, <1>5, <1>6, <1>7, <1>8, <1>9, <1>10, Zenon DEF JoinStep

LEMMA RemoveInv ==
  ASSUME IInv, RemoveMember \/ HaltFollower \/ RemoveStep \/ RemoveJoinBlockFails
  PROVE  IInv'
<1> USE DEF IInv, Shapes, GoroutineInv, LockInv, CallInv, RolesInv, DownInv, Exists, JoinSteps, CleanSteps, RemoveSteps
<1>1. CASE RemoveMember BY <1>1 DEF RemoveMember
<1>2. CASE HaltFollower BY <1>2, CallIs DEF HaltFollower
<1>3. CASE RemoveJoinBlock BY <1>3, CallIs DEF RemoveJoinBlock, maps
<1>4. CASE Unregister BY <1>4, CallIs, NoFollowerIs DEF Unregister
<1>5. CASE RemoveJoinBlockFails BY <1>5, CallIs DEF RemoveJoinBlockFails, maps
<1> QED BY <1>1, <1>2, <1>3, <1>4, <1>5 DEF RemoveStep

\* removeLedgerAsync takes the lock only to say how it went.
LEMMA RemoverInv == ASSUME IInv, RemoverStep \/ RemoverFails \/ LateCommit PROVE IInv'
<1>1. CASE RemoverWorks \/ RemoverFails
  <2>1. /\ UNCHANGED <<maps, lock, api, gor, proc>>
        /\ remover # "none" /\ remover' # "none"
    BY <1>1 DEF RemoverWorks, RemoverFails, RemoverAfter
  <2> QED BY <2>1, OthersInv DEF maps, IInv, Shapes
<1>2. CASE RemoverEnds
  BY <1>2 DEF RemoverEnds, IInv, Shapes, GoroutineInv, LockInv, CallInv, RolesInv, DownInv, Exists,
              JoinSteps, CleanSteps, RemoveSteps
<1>3. CASE LateCommit
  <2>1. CASE Stop("panic") BY <2>1, StopInv
  <2>2. CASE UNCHANGED <<maps, lock, api, gor, remover, proc>> BY <2>2, OthersInv DEF maps, IInv, Shapes
  <2> QED BY <1>3, <2>1, <2>2 DEF LateCommit
<1> QED BY <1>1, <1>2, <1>3 DEF RemoverStep

\* The follower's goroutine changes the maps only in its switch, with the lock.
LEMMA FollowerInv == ASSUME IInv, FollowerStep PROVE IInv'
<1> DEFINE Inner == {"start", "upToJoin", "afterJoin", "check", "poll", "catchUp", "switch", "done", "failed"}
<1>1. ASSUME gor \notin {"none", "switched", "done", "failed"}, proc = "up", gor' \in Inner,
             "exists" \in DOMAIN fol', fol'.exists <=> fol.exists,
             UNCHANGED <<chain, pending, lock, api, remover, proc>>
      PROVE  IInv'
  BY <1>1 DEF IInv, Shapes, GoroutineInv, LockInv, CallInv, RolesInv, DownInv, Exists, Ended, JoinSteps, CleanSteps, RemoveSteps
<1>2. "exists" \in DOMAIN fol BY DEF IInv, Shapes
<1>3. CASE FollowerStarts \/ PulledToTarget \/ AfterJoin \/ CheckMembership \/ PollHeight \/ FollowerStops \/ SwitchGivesUp
  BY <1>1, <1>2, <1>3, Zenon DEF FollowerStarts, PulledToTarget, AfterJoin, CheckMembership, PollHeight, FollowerStops,
                          SwitchGivesUp, Going, GoTo, Goes, FailTo
<1>4. CASE PullRequest \/ PullBlock \/ PullFails
  <2>1. UNCHANGED <<chain, pending, steps>> /\ "exists" \in DOMAIN fol' /\ (fol'.exists <=> fol.exists)
    BY <1>2, <1>4, Zenon DEF PullRequest, PullBlock, PullFails
  <2> QED BY <2>1, OthersInv DEF steps
<1>5. CASE SwitchFollowerToChain
  BY <1>5, NoFollowerIs DEF SwitchFollowerToChain, Going, IInv, Shapes, GoroutineInv, LockInv, CallInv, RolesInv, DownInv,
                            Exists, JoinSteps, CleanSteps, RemoveSteps
<1>6. CASE SwitchEnds
  BY <1>6 DEF SwitchEnds, Going, IInv, Shapes, GoroutineInv, LockInv, CallInv, RolesInv, DownInv,
              Exists, JoinSteps, CleanSteps, RemoveSteps
<1> QED BY <1>3, <1>4, <1>5, <1>6 DEF FollowerStep

LEMMA ChainInv == ASSUME IInv, Grow \/ OtherChannel \/ ChainAppends \/ SwitchChainToFollower PROVE IInv'
<1>1. CASE Grow \/ ChainAppends BY <1>1, OthersInv DEF Grow, ChainAppends, maps, steps, IInv, Shapes
<1>2. CASE OtherChannel
  BY <1>2 DEF OtherChannel, maps, IInv, Shapes, GoroutineInv, LockInv, CallInv, RolesInv, DownInv, Exists
<1>3. CASE SwitchChainToFollower
  BY <1>3, NewFollowerIs DEF SwitchChainToFollower, IInv, Shapes, GoroutineInv, LockInv, CallInv, RolesInv, DownInv,
                             Exists, JoinSteps, CleanSteps, RemoveSteps
<1> QED BY <1>1, <1>2, <1>3

LEMMA StartInv == ASSUME IInv, Crash \/ StartStep PROVE IInv'
<1> USE DEF IInv, Shapes, GoroutineInv, LockInv, CallInv, RolesInv, DownInv, Exists, JoinSteps, CleanSteps, RemoveSteps
<1>1. CASE Crash BY <1>1, StopInv DEF Crash
<1>2. CASE FactoryRemoves BY <1>2 DEF FactoryRemoves, maps, steps
<1>3. CASE Discover BY <1>3 DEF Discover, maps
<1>4. CASE InitMemberFromJoinBlock BY <1>4 DEF InitMemberFromJoinBlock
<1>5. CASE InitFollowerFromJoinBlock BY <1>5, NewFollowerIs DEF InitFollowerFromJoinBlock
<1>6. CASE InitFromLedger BY <1>6, NewFollowerIs DEF InitFromLedger
<1>7. CASE InitWithoutChannel BY <1>7 DEF InitWithoutChannel, maps
<1> QED BY <1>1, <1>2, <1>3, <1>4, <1>5, <1>6, <1>7, Zenon DEF StartStep

LEMMA NextInv == IInv /\ [Next]_vars => IInv'
<1> SUFFICES ASSUME IInv, [Next]_vars PROVE IInv' OBVIOUS
<1>1. CASE UNCHANGED vars BY <1>1, OthersInv DEF vars, maps, steps, IInv, Shapes
<1> QED BY <1>1, JoinInv, RemoveInv, RemoverInv, FollowerInv, ChainInv, StartInv DEF Next

\* The registrar never has a channel in two of its maps, not while JoinChannel, RemoveChannel, the
\* switches and the removal of a ledger run side by side, and SwitchFollowerToChain never meets
\* a chain.
THEOREM SingleRole == Spec => []OneRole
<1>1. IInv => OneRole BY DEF IInv, GoroutineInv, RolesInv, OneRole
<1> QED BY <1>1, InitInv, NextInv, PTL DEF Spec

--------------------------------------------------------------------------------
(* Onboarding *)

FolFields ==
  /\ {"exists", "join", "target", "status", "fetching"} \subseteq DOMAIN fol
  /\ fol.fetching => fol.exists
ApiFields == {"step", "block"} \subseteq DOMAIN api

\* What a removal under way excludes.
RemovalInv ==
  /\ pending # "no" => word = "removed"
  /\ late = "open" => pending # "no" /\ remover \notin {"unmark", "finish"}
  /\ api.step \in RemoveSteps => word = "removing"

\* What a join under way has done so far.
JoiningInv ==
  /\ word = "joining" <=> api.step \in JoinSteps \cup CleanSteps
  /\ word = "joining" => chain # "running"
  /\ api.step \in JoinSteps => api.block = joined /\ joined \in Nat /\ ledger \in Nat
  /\ api.step \in JoinSteps \ {"saveJoin"} => joinFile = joined
  /\ api.step \in {"append", "register", "removeJoin"} => joined = 0
  /\ api.step \in {"register", "removeJoin"} => ledger > 0

\* The join block stays in its file, or the follower's fields, until the ledger has it.
OnboardingInv ==
  word = "present" =>
    /\ joined \in Nat
    /\ joinFile \in {None, joined}
    /\ joinFile = None /\ ledger # None => ledger > joined
    /\ chain # "none" => ledger > joined
    /\ fol.exists => /\ fol.join \in {None, joined}
                     /\ fol.join = None \/ joinFile = None => ledger > joined
                     /\ fol.status = "active" => ledger > joined
    /\ gor = "upToJoin" => fol.target = joined + 1
    /\ gor \in {"afterJoin", "check", "poll", "catchUp", "switch", "switched"} => ledger > joined

ChainValues == chain \in {"none", "created", "running"}

OInv == /\ ledger \in Nat \cup {None} /\ ChainValues
        /\ FolFields /\ ApiFields /\ RemovalInv /\ JoiningInv /\ OnboardingInv

LEMMA HeightIs == ASSUME ledger \in Nat \cup {None} PROVE Height = IF ledger = None THEN 0 ELSE ledger
<1>1. ASSUME NEW a \in Int, NEW b \in Int PROVE Max({a, b}) = IF a >= b THEN a ELSE b
  BY DEF Max
<1> QED BY <1>1 DEF Height, None

LEMMA MaxIs == ASSUME NEW a \in Nat PROVE Max({a, 1}) = IF a >= 1 THEN a ELSE 1
BY DEF Max

LEMMA NewFollowerStatus ==
  ASSUME NEW b
  PROVE  /\ {"exists", "join", "target", "status", "fetching"} \subseteq DOMAIN NewFollower(b)
         /\ NewFollower(b).join = b /\ ~NewFollower(b).fetching
         /\ NewFollower(b).status = IF b = None \/ b < Height THEN "active" ELSE "onboarding"
BY DEF NewFollower, NoFollower

LEMMA NoFollowerFields ==
  {"exists", "join", "target", "status", "fetching"} \subseteq DOMAIN NoFollower /\ ~NoFollower.fetching
BY DEF NoFollower

LEMMA CallFields ==
  /\ {"step", "block"} \subseteq DOMAIN Idle
  /\ \A s, b : {"step", "block"} \subseteq DOMAIN Call(s, b) /\ Call(s, b).block = b
BY DEF Idle, Call

LEMMA InitOnboard == Init => OInv
BY CallIs, CallFields, NoFollowerFields
DEF Init, OInv, ChainValues, FolFields, ApiFields, RemovalInv, JoiningInv, OnboardingInv, JoinSteps, CleanSteps, RemoveSteps, None

LEMMA StopOnboard ==
  ASSUME OInv, NEW how, Stop(how), UNCHANGED <<ledger, joinFile, joined>>
  PROVE  OInv'
BY NoFollowerIs, NoFollowerFields, CallIs, CallFields
DEF Stop, OInv, ChainValues, FolFields, ApiFields, RemovalInv, JoiningInv, OnboardingInv, JoinSteps, CleanSteps, RemoveSteps

\* A step of a join, up to its answer.
LEMMA JoinOnboard ==
  ASSUME IInv, OInv, (\E b \in ConfigBlocks : JoinChannel(b)) \/ JoinStep \/ JoinFails \/ CleanLedgerFails
  PROVE  OInv'
<1> USE DEF OInv, ChainValues, FolFields, ApiFields, RemovalInv, JoiningInv, OnboardingInv, JoinSteps, CleanSteps, RemoveSteps
<1>0. CallInv /\ RolesInv /\ GoroutineInv BY DEF IInv
<1>1. CASE \E b \in ConfigBlocks : JoinChannel(b)
  <2>1. PICK b \in ConfigBlocks : JoinChannel(b) BY <1>1
  <2>2. b \in Nat /\ ledger' \in Nat BY <2>1, HeightIs, RegistrarAssumption DEF JoinChannel
  <2> QED BY <1>0, <2>1, <2>2, CallIs, CallFields DEF JoinChannel, maps, RolesInv, Exists
<1>2. CASE JoinSave BY <1>0, <1>2 DEF JoinSave, maps, told
<1>3. CASE JoinAppend BY <1>0, <1>3, MaxIs DEF JoinAppend, maps, told
<1>4. CASE JoinRegister BY <1>0, <1>4 DEF JoinRegister, persistent, told
<1>5. CASE JoinStart BY <1>0, <1>5, CallIs, CallFields DEF JoinStart, CallInv, GoroutineInv
<1>6. CASE JoinFollow
  BY <1>0, <1>6, CallIs, CallFields, HeightIs, NewFollowerIs, NewFollowerStatus DEF JoinFollow, persistent, CallInv, None
<1>7. CASE JoinRefused \/ JoinFails BY <1>0, <1>7 DEF JoinRefused, JoinFails, CleanUp, persistent, maps, told
<1>8. CASE CleanJoin BY <1>0, <1>8 DEF CleanJoin, maps, told
<1>9. CASE CleanLedger \/ CleanLedgerFails
  BY <1>0, <1>9 DEF CleanLedger, CleanLedgerFails, RemoveLedger, RemoveLedgerFails, maps, told
<1>10. CASE JoinReturnsError BY <1>0, <1>10, CallIs, CallFields DEF JoinReturnsError, persistent, maps, CallInv
<1> QED BY <1>1, <1>2, <1>3, <1>4, <1>5, <1>6, <1>7, <1>8, <1>9, <1>10, Zenon DEF JoinStep

LEMMA RemoveOnboard ==
  ASSUME IInv, OInv, RemoveMember \/ HaltFollower \/ RemoveStep \/ RemoveJoinBlockFails
  PROVE  OInv'
<1> USE DEF OInv, ChainValues, FolFields, ApiFields, RemovalInv, JoiningInv, OnboardingInv, JoinSteps, CleanSteps, RemoveSteps
<1>0. CallInv /\ RolesInv /\ LockInv BY DEF IInv
<1>1. CASE RemoveMember BY <1>0, <1>1, CallIs DEF RemoveMember, persistent
<1>2. CASE HaltFollower BY <1>0, <1>2, CallIs, CallFields DEF HaltFollower, persistent, RolesInv, Exists
<1>3. CASE RemoveJoinBlock BY <1>0, <1>3, CallIs, CallFields DEF RemoveJoinBlock, maps, told
<1>4. CASE Unregister BY <1>0, <1>4, CallIs, CallFields, NoFollowerFields DEF Unregister, persistent
<1>5. CASE RemoveJoinBlockFails
  BY <1>0, <1>5, CallIs, CallFields DEF RemoveJoinBlockFails, persistent, maps, CallInv, RolesInv, Exists
<1> QED BY <1>1, <1>2, <1>3, <1>4, <1>5, Zenon DEF RemoveStep

LEMMA RemoverOnboard == ASSUME IInv, OInv, RemoverStep \/ RemoverFails \/ LateCommit PROVE OInv'
<1>0. RolesInv BY DEF IInv
<1>1. CASE RemoverWorks
  BY <1>0, <1>1 DEF RemoverWorks, RemoveLedger, RemoverAfter, LedgerCloses, maps, told, RolesInv,
                    OInv, ChainValues, FolFields, ApiFields, RemovalInv, JoiningInv, OnboardingInv, JoinSteps, CleanSteps
<1>2. CASE RemoverFails
  BY <1>0, <1>2 DEF RemoverFails, RemoveLedgerFails, LedgerCloses, maps, told, RolesInv,
                    OInv, ChainValues, FolFields, ApiFields, RemovalInv, JoiningInv, OnboardingInv
<1>3. CASE RemoverEnds
  BY <1>0, <1>3 DEF RemoverEnds, persistent, told, RolesInv,
                    OInv, ChainValues, FolFields, ApiFields, RemovalInv, JoiningInv, OnboardingInv
<1>4. CASE LateCommit
  <2>1. CASE late = "open"
    BY <1>4, <2>1 DEF LateCommit, maps, told, None,
                      OInv, ChainValues, FolFields, ApiFields, RemovalInv, JoiningInv, OnboardingInv, JoinSteps, CleanSteps
  <2>2. CASE late # "open" BY <1>4, <2>2, StopOnboard DEF LateCommit
  <2> QED BY <2>1, <2>2
<1> QED BY <1>1, <1>2, <1>3, <1>4 DEF RemoverStep

\* The follower reports to be active, and offers to switch, behind the join block only.
LEMMA FollowerOnboard == ASSUME IInv, OInv, FollowerStep PROVE OInv'
<1> USE DEF OInv, ChainValues, FolFields, ApiFields, RemovalInv, JoiningInv, OnboardingInv
<1>0. GoroutineInv /\ LockInv /\ CallInv /\ RolesInv /\ Height = IF ledger = None THEN 0 ELSE ledger
  BY HeightIs DEF IInv
<1>1. CASE FollowerStarts
  BY <1>0, <1>1 DEF FollowerStarts, Going, GoTo, Goes, FailTo, persistent, told, GoroutineInv, None
<1>2. CASE PullRequest \/ PullFails
  BY <1>0, <1>2 DEF PullRequest, PullFails, persistent, steps, told, GoroutineInv
<1>3. CASE PullBlock BY <1>0, <1>3 DEF PullBlock, steps, told, None
<1>4. CASE PulledToTarget BY <1>0, <1>4 DEF PulledToTarget, GoTo, Goes, persistent, told
<1>5. CASE AfterJoin
  <2>1. PICK config : \/ fol' = [fol EXCEPT !.status = "active", !.lastConfig = config] /\ gor' = "check"
                      \/ fol' = [fol EXCEPT !.status = "active"] /\ gor' = "failed"
    BY <1>5, Zenon DEF AfterJoin, GoTo, Goes, FailTo
  <2>2. gor = "afterJoin" /\ UNCHANGED <<persistent, chain, pending, lock, api, remover, late, proc, told>>
    BY <1>5, Zenon DEF AfterJoin, Going, GoTo, Goes, FailTo
  <2>3. /\ DOMAIN fol' = DOMAIN fol /\ fol'.exists = fol.exists /\ fol'.join = fol.join
        /\ fol'.fetching = fol.fetching /\ fol'.status = "active"
        /\ gor' \in {"check", "failed"}
    BY <2>1, Zenon DEF FolFields
  <2> QED BY <1>0, <2>2, <2>3 DEF persistent, told
<1>6. CASE CheckMembership BY <1>0, <1>6 DEF CheckMembership, Going, GoTo, Goes, FailTo, persistent, told
<1>7. CASE PollHeight BY <1>0, <1>7 DEF PollHeight, Going, GoTo, Goes, persistent, told
<1>8. CASE FollowerStops \/ SwitchGivesUp
  BY <1>0, <1>8 DEF FollowerStops, SwitchGivesUp, Going, GoTo, Goes, persistent, told
<1>9. CASE SwitchFollowerToChain
  BY <1>0, <1>9, NoFollowerIs, NoFollowerFields
  DEF SwitchFollowerToChain, Going, persistent, told, GoroutineInv, RolesInv
<1>10. CASE SwitchEnds
  BY <1>0, <1>10 DEF SwitchEnds, Going, told, GoroutineInv, LockInv, JoinSteps, CleanSteps
<1> QED BY <1>1, <1>2, <1>3, <1>4, <1>5, <1>6, <1>7, <1>8, <1>9, <1>10, Zenon DEF FollowerStep

LEMMA ChainOnboard == ASSUME IInv, OInv, Grow \/ OtherChannel \/ ChainAppends \/ SwitchChainToFollower PROVE OInv'
<1> USE DEF OInv, ChainValues, FolFields, ApiFields, RemovalInv, JoiningInv, OnboardingInv
<1>1. CASE Grow \/ OtherChannel BY <1>1 DEF Grow, OtherChannel, persistent, maps, steps, told
<1>2. CASE ChainAppends BY <1>2 DEF ChainAppends, maps, steps, told, None
<1>3. CASE SwitchChainToFollower
  BY <1>3, NewFollowerIs, NewFollowerStatus DEF SwitchChainToFollower, persistent, told
<1> QED BY <1>1, <1>2, <1>3, Zenon

\* After a crash the join block tells a channel that is not onboarded yet from one that is.
LEMMA StartOnboard == ASSUME IInv, OInv, Crash \/ StartStep PROVE OInv'
<1> USE DEF OInv, ChainValues, FolFields, ApiFields, RemovalInv, JoiningInv, OnboardingInv
<1>0. DownInv /\ Height = IF ledger = None THEN 0 ELSE ledger BY HeightIs DEF IInv
<1>1. CASE Crash BY <1>1, StopOnboard DEF Crash
<1>2. CASE FactoryRemoves BY <1>0, <1>2, Zenon DEF FactoryRemoves, maps, steps, told, DownInv, JoinSteps
<1>3. CASE Discover BY <1>0, <1>3 DEF Discover, maps, told, DownInv, JoinSteps
<1>4. CASE InitMemberFromJoinBlock
  BY <1>0, <1>4 DEF InitMemberFromJoinBlock, told, DownInv, JoinSteps, CleanSteps, None
<1>5. CASE InitFollowerFromJoinBlock
  BY <1>0, <1>5, NewFollowerIs, NewFollowerStatus DEF InitFollowerFromJoinBlock, persistent, told, DownInv, JoinSteps
<1>6. CASE InitFromLedger
  BY <1>0, <1>6, NewFollowerIs, NewFollowerStatus
  DEF InitFromLedger, persistent, told, DownInv, JoinSteps, CleanSteps
<1>7. CASE InitWithoutChannel BY <1>0, <1>7 DEF InitWithoutChannel, persistent, maps, told
<1> QED BY <1>1, <1>2, <1>3, <1>4, <1>5, <1>6, <1>7, Zenon DEF StartStep

LEMMA NextOnboard == IInv /\ OInv /\ [Next]_vars => OInv'
<1> SUFFICES ASSUME IInv, OInv, [Next]_vars PROVE OInv' OBVIOUS
<1>1. CASE UNCHANGED vars
  BY <1>1 DEF vars, persistent, maps, steps, told, OInv, ChainValues, FolFields, ApiFields, RemovalInv, JoiningInv, OnboardingInv
<1> QED BY <1>1, JoinOnboard, RemoveOnboard, RemoverOnboard, FollowerOnboard, ChainOnboard, StartOnboard DEF Next

\* No consenter runs, and no follower reports "active", before the ledger has the join block, whatever
\* crashes and failures the onboarding goes through.
THEOREM OnboardingFirst == Spec => []OnboardedBeforeActive
<1>1. IInv /\ OInv => OnboardedBeforeActive
  BY DEF IInv, OInv, JoiningInv, OnboardingInv, CallInv, OnboardedBeforeActive
<1> QED BY <1>1, InitInv, NextInv, InitOnboard, NextOnboard, PTL DEF Spec

--------------------------------------------------------------------------------
(* A join survives *)

Failures == count.failures
CountType == "failures" \in DOMAIN count /\ Failures \in Nat

\* What only failures leave behind: a ledger closed in the cache, a join block without a role, a
\* chain that was not started.
LeftBehind ==
  /\ shut => Failures > 0
  /\ api.step \in CleanSteps => Failures > 0
  /\ chain = "running" => joinFile = None
  /\ api.step = "unregister" => joinFile = None
  /\ chain = "created" /\ gor # "switched" /\ api.step = "idle" => Failures > 0
  /\ ~Exists /\ proc = "up" /\ joinFile # None =>
       Failures > 0 \/ api.step \in JoinSteps \ {"saveJoin"}

\* A mark for removal is left by a removal under way, or by two failures: of a join and of its clean-up.
MarkInv ==
  /\ remover = "finish" => ~marker
  /\ proc = "loading" => ~marker
  /\ Failures <= 1 /\ proc = "up" /\ pending = "no" /\ api.step \notin {"dropLedger", "unmark"} => ~marker

\* The disk has what a start needs to take the channel up again.
DiskInv ==
  word = "present" /\ Failures <= 1 =>
    /\ ~marker
    /\ joinFile = None => ledger \in Nat /\ ledger > joined
    /\ proc = "up" => Exists

SInv == CountType /\ LeftBehind /\ MarkInv /\ DiskInv

LEMMA CountIs ==
  ASSUME CountType
  PROVE  "failures" \in DOMAIN Failed /\ Failed.failures = Failures + 1
BY DEF CountType, Failures, Failed

LEMMA InitSurvives == Init => SInv
BY CallIs, NoFollowerIs
DEF Init, SInv, CountType, Failures, LeftBehind, MarkInv, DiskInv, Exists, JoinSteps, CleanSteps

LEMMA StopSurvives ==
  ASSUME IInv, OInv, SInv, NEW how, how \in {"down", "panic"}, Stop(how), ~shut', Failures' = Failures, CountType',
         UNCHANGED <<ledger, joinFile, joined, marker>>
  PROVE  SInv'
BY CallIs, NoFollowerIs
DEF Stop, SInv, LeftBehind, MarkInv, DiskInv, Exists, JoinSteps, CleanSteps

LEMMA JoinSurvivesStep ==
  ASSUME IInv, OInv, SInv, (\E b \in ConfigBlocks : JoinChannel(b)) \/ JoinStep \/ JoinFails \/ CleanLedgerFails
  PROVE  SInv'
<1> USE DEF SInv, LeftBehind, MarkInv, DiskInv, JoinSteps, CleanSteps, Exists
<1>0. /\ Shapes /\ CallInv /\ RolesInv /\ GoroutineInv /\ LockInv /\ JoiningInv /\ CountType
      /\ Failures \in Nat /\ ledger \in Nat \cup {None}
  BY DEF IInv, OInv, CountType
<1>1. CASE \E b \in ConfigBlocks : JoinChannel(b)
  <2>1. PICK b \in ConfigBlocks : JoinChannel(b) BY <1>1
  <2>2. Failures' = Failures /\ CountType' BY <1>0, <2>1 DEF JoinChannel, CountType, Failures
  <2> QED BY <1>0, <2>1, <2>2, CallIs DEF JoinChannel, maps, GoroutineInv, LockInv
<1>2. CASE JoinSave \/ JoinAppend \/ JoinRegister
  <2>1. Failures' = Failures /\ CountType'
    BY <1>0, <1>2 DEF JoinSave, JoinAppend, JoinRegister, CountType, Failures
  <2> QED BY <1>0, <1>2, <2>1
          DEF JoinSave, JoinAppend, JoinRegister, persistent, maps, told, Shapes, CallInv, JoiningInv
<1>3. CASE JoinStart \/ JoinFollow
  <2>1. Failures' = Failures /\ CountType' BY <1>0, <1>3 DEF JoinStart, JoinFollow, CountType, Failures
  <2>2. CASE JoinStart BY <1>0, <2>1, <2>2, CallIs DEF JoinStart, CallInv, JoiningInv
  <2>3. CASE JoinFollow
    BY <1>0, <2>1, <2>3, CallIs, NewFollowerIs DEF JoinFollow, persistent, CallInv, JoiningInv, None
  <2> QED BY <1>3, <2>2, <2>3
<1>4. CASE JoinRefused
  <2>1. Failures' = Failures /\ CountType' BY <1>0, <1>4 DEF JoinRefused, CountType, Failures
  <2> QED BY <1>0, <1>4, <2>1 DEF JoinRefused, CleanUp, persistent, maps, told, Shapes, CallInv, JoiningInv
<1>5. CASE JoinFails \/ CleanLedgerFails
  <2>1. Failures' = Failures + 1 /\ CountType'
    BY <1>0, <1>5, CountIs DEF JoinFails, CleanLedgerFails, CountType, Failures
  <2>2. CASE JoinFails
    BY <1>0, <2>1, <2>2 DEF JoinFails, CleanUp, persistent, maps, told, Shapes, CallInv, JoiningInv
  <2>3. CASE CleanLedgerFails
    BY <1>0, <2>1, <2>3 DEF CleanLedgerFails, RemoveLedgerFails, maps, told, Shapes, CallInv, JoiningInv
  <2> QED BY <1>5, <2>2, <2>3
<1>6. CASE CleanJoin
  <2>1. (Failures' = Failures \/ Failures' = Failures + 1) /\ CountType'
    BY <1>0, <1>6, CountIs DEF CleanJoin, CountType, Failures
  <2> QED BY <1>0, <1>6, <2>1 DEF CleanJoin, maps, told, Shapes, CallInv, JoiningInv
<1>7. CASE CleanLedger \/ JoinReturnsError
  <2>1. Failures' = Failures /\ CountType' BY <1>0, <1>7 DEF CleanLedger, JoinReturnsError, CountType, Failures
  <2>2. CASE CleanLedger
    BY <1>0, <2>1, <2>2 DEF CleanLedger, RemoveLedger, maps, told, Shapes, CallInv, JoiningInv, RolesInv
  <2>3. CASE JoinReturnsError
    BY <1>0, <2>1, <2>3, CallIs DEF JoinReturnsError, persistent, maps, CallInv, JoiningInv
  <2> QED BY <1>7, <2>2, <2>3
<1> QED BY <1>1, <1>2, <1>3, <1>4, <1>5, <1>6, <1>7, Zenon DEF JoinStep

LEMMA RemoveSurvives ==
  ASSUME IInv, OInv, SInv, RemoveMember \/ HaltFollower \/ RemoveStep \/ RemoveJoinBlockFails
  PROVE  SInv'
<1> USE DEF SInv, LeftBehind, MarkInv, DiskInv, JoinSteps, CleanSteps, RemoveSteps, Exists
<1>0. Shapes /\ CallInv /\ RolesInv /\ GoroutineInv /\ LockInv /\ CountType /\ Failures \in Nat
  BY DEF IInv, CountType
<1>1. CASE RemoveMember
  <2>1. Failures' = Failures /\ CountType' BY <1>0, <1>1 DEF RemoveMember, CountType, Failures
  <2>2. chain \notin {"none", "running"} => chain = "created" BY DEF OInv, ChainValues
  <2> QED BY <1>0, <1>1, <2>1, <2>2, CallIs DEF RemoveMember, persistent, LockInv
<1>2. CASE HaltFollower
  <2>1. Failures' = Failures /\ CountType' BY <1>0, <1>2 DEF HaltFollower, CountType, Failures
  <2> QED BY <1>0, <1>2, <2>1, CallIs DEF HaltFollower, persistent, RolesInv, Shapes
<1>3. CASE RemoveJoinBlock \/ Unregister
  <2>1. Failures' = Failures /\ CountType' BY <1>0, <1>3 DEF RemoveJoinBlock, Unregister, CountType, Failures
  <2> QED BY <1>0, <1>3, <2>1, CallIs, NoFollowerIs
          DEF RemoveJoinBlock, Unregister, persistent, maps, told, CallInv, RolesInv, OInv, RemovalInv
<1>4. CASE RemoveJoinBlockFails
  <2>1. Failures' = Failures + 1 /\ CountType' BY <1>0, <1>4, CountIs DEF RemoveJoinBlockFails, CountType, Failures
  <2> QED BY <1>0, <1>4, <2>1, CallIs DEF RemoveJoinBlockFails, persistent, maps, CallInv
<1> QED BY <1>1, <1>2, <1>3, <1>4, Zenon DEF RemoveStep

LEMMA RemoverSurvives == ASSUME IInv, OInv, SInv, RemoverStep \/ RemoverFails \/ LateCommit PROVE SInv'
<1> USE DEF SInv, LeftBehind, MarkInv, DiskInv, Exists
<1>0. RolesInv /\ RemovalInv /\ CallInv /\ CountType /\ Failures \in Nat BY DEF IInv, OInv, CountType
<1>1. CASE RemoverWorks
  <2>1. Failures' = Failures /\ CountType' BY <1>0, <1>1 DEF RemoverWorks, CountType, Failures
  <2> QED BY <1>0, <1>1, <2>1
          DEF RemoverWorks, RemoveLedger, RemoverAfter, maps, told, RolesInv, RemovalInv
<1>2. CASE RemoverFails
  <2>1. Failures' = Failures + 1 /\ CountType' BY <1>0, <1>2, CountIs DEF RemoverFails, CountType, Failures
  <2> QED BY <1>0, <1>2, <2>1 DEF RemoverFails, RemoveLedgerFails, maps, told, RolesInv, RemovalInv
<1>3. CASE RemoverEnds
  <2>1. Failures' = Failures /\ CountType' BY <1>0, <1>3 DEF RemoverEnds, CountType, Failures
  <2> QED BY <1>0, <1>3, <2>1 DEF RemoverEnds, persistent, told, RolesInv, RemovalInv
<1>4. CASE LateCommit
  <2>1. Failures' = Failures /\ CountType' BY <1>0, <1>4 DEF LateCommit, CountType, Failures
  <2>2. CASE late = "open" BY <1>0, <1>4, <2>1, <2>2 DEF LateCommit, maps, told, RemovalInv
  <2>3. CASE late # "open" BY <1>4, <2>1, <2>3, StopSurvives, Zenon DEF LateCommit
  <2> QED BY <2>2, <2>3
<1> QED BY <1>1, <1>2, <1>3, <1>4, Zenon DEF RemoverStep

LEMMA FollowerSurvives == ASSUME IInv, OInv, SInv, FollowerStep PROVE SInv'
<1> USE DEF SInv, LeftBehind, MarkInv, DiskInv, Exists
<1>0. /\ GoroutineInv /\ LockInv /\ CallInv /\ RolesInv /\ FolFields /\ OnboardingInv /\ CountType
      /\ Height = IF ledger = None THEN 0 ELSE ledger
      /\ ledger \in Nat \cup {None}
  BY HeightIs DEF IInv, OInv
<1>1. Failures \in Nat /\ (Failures' = Failures \/ Failures' = Failures + 1) /\ CountType'
  <2>1. count' = count \/ (CanFail /\ count' = Failed)
    BY Zenon DEF FollowerStep, FollowerStarts, PullRequest, PullBlock, PullFails, PulledToTarget, AfterJoin,
                 CheckMembership, PollHeight, FollowerStops, SwitchFollowerToChain, SwitchGivesUp, SwitchEnds,
                 GoTo, FailTo
  <2> QED BY <1>0, <2>1 DEF CanFail, Failed, CountType, Failures
<1>2. CASE FollowerStarts \/ PulledToTarget \/ AfterJoin \/ CheckMembership \/ PollHeight \/ FollowerStops \/ SwitchGivesUp
  <2>1. /\ UNCHANGED <<persistent, chain, pending, lock, api, remover, late, proc, told>>
        /\ gor # "switched" /\ gor' # "switched" /\ (fol'.exists <=> fol.exists)
    BY <1>0, <1>2, Zenon DEF FollowerStarts, PulledToTarget, AfterJoin, CheckMembership, PollHeight, FollowerStops,
                      SwitchGivesUp, Going, GoTo, Goes, FailTo, FolFields
  <2> QED BY <1>1, <2>1 DEF persistent, told
<1>3. CASE PullRequest \/ PullFails \/ PullBlock
  <2>1. /\ UNCHANGED <<joinFile, marker, shut, chain, pending, steps, told>> /\ (fol'.exists <=> fol.exists)
        /\ ledger' = ledger \/ (ledger' = Height + 1 /\ fol.exists)
    BY <1>0, <1>3, Zenon DEF PullRequest, PullFails, PullBlock, persistent, FolFields
  <2> QED BY <1>0, <1>1, <2>1 DEF steps, told, None, OnboardingInv
<1>4. CASE SwitchFollowerToChain
  BY <1>0, <1>1, <1>4, NoFollowerIs DEF SwitchFollowerToChain, Going, persistent, told, GoroutineInv, RolesInv
<1>5. CASE SwitchEnds
  BY <1>0, <1>1, <1>5 DEF SwitchEnds, Going, told, GoroutineInv, LockInv, OnboardingInv, None
<1> QED BY <1>2, <1>3, <1>4, <1>5, Zenon DEF FollowerStep

LEMMA ChainSurvives ==
  ASSUME IInv, OInv, SInv, Grow \/ OtherChannel \/ ChainAppends \/ SwitchChainToFollower
  PROVE  SInv'
<1> USE DEF SInv, LeftBehind, MarkInv, DiskInv, Exists
<1>1. Failures' = Failures /\ CountType'
  BY DEF Grow, OtherChannel, ChainAppends, SwitchChainToFollower, CountType, Failures
<1>2. CASE Grow \/ OtherChannel BY <1>1, <1>2 DEF Grow, OtherChannel, persistent, maps, steps, told
<1>3. CASE ChainAppends
  <2>1. OnboardingInv /\ ledger \in Nat \cup {None} BY DEF OInv
  <2> QED BY <1>1, <1>3, <2>1 DEF ChainAppends, maps, steps, told, OnboardingInv, None
<1>4. CASE SwitchChainToFollower
  BY <1>1, <1>4, NewFollowerIs DEF SwitchChainToFollower, persistent, told
<1> QED BY <1>2, <1>3, <1>4, Zenon

LEMMA StartSurvives == ASSUME IInv, OInv, SInv, Crash \/ StartStep PROVE SInv'
<1> USE DEF SInv, LeftBehind, MarkInv, DiskInv, Exists
<1>0. /\ DownInv /\ OnboardingInv /\ Height = IF ledger = None THEN 0 ELSE ledger
      /\ ledger \in Nat \cup {None}
  BY HeightIs DEF IInv, OInv
<1>1. Failures' = Failures /\ CountType'
  BY DEF Crash, StartStep, FactoryRemoves, Discover, InitMemberFromJoinBlock, InitFollowerFromJoinBlock, InitFromLedger,
         InitWithoutChannel, CountType, Failures
<1>2. CASE Crash BY <1>1, <1>2, StopSurvives DEF Crash
<1>3. CASE FactoryRemoves BY <1>0, <1>1, <1>3 DEF FactoryRemoves, maps, steps, told, DownInv
<1>4. CASE Discover BY <1>0, <1>1, <1>4 DEF Discover, maps, told, DownInv, OnboardingInv, None
<1>5. CASE InitMemberFromJoinBlock
  BY <1>0, <1>1, <1>5 DEF InitMemberFromJoinBlock, told, DownInv, OnboardingInv, CleanSteps, None
<1>6. CASE InitFollowerFromJoinBlock
  BY <1>0, <1>1, <1>6, NewFollowerIs DEF InitFollowerFromJoinBlock, persistent, told, DownInv
<1>7. CASE InitFromLedger
  BY <1>0, <1>1, <1>7, NewFollowerIs DEF InitFromLedger, persistent, told, DownInv
<1>8. CASE InitWithoutChannel BY <1>0, <1>1, <1>8 DEF InitWithoutChannel, persistent, maps, told, DownInv, None
<1> QED BY <1>2, <1>3, <1>4, <1>5, <1>6, <1>7, <1>8, Zenon DEF StartStep

LEMMA NextSurvives == IInv /\ OInv /\ SInv /\ [Next]_vars => SInv'
<1> SUFFICES ASSUME IInv, OInv, SInv, [Next]_vars PROVE SInv' OBVIOUS
<1>1. CASE UNCHANGED vars
  BY <1>1 DEF vars, persistent, maps, steps, told, SInv, CountType, Failures, LeftBehind, MarkInv, DiskInv, Exists
<1> QED BY <1>1, JoinSurvivesStep, RemoveSurvives, RemoverSurvives, FollowerSurvives, ChainSurvives, StartSurvives DEF Next

\* A channel that was joined has a role whenever the process is up, whatever crashes came between
\* the writes of JoinChannel, of the follower and of the switch, if at most one step has failed.
THEOREM SurvivingJoin == Spec => []JoinSurvives
<1>1. SInv => JoinSurvives BY DEF SInv, DiskInv, JoinSurvives, Failures
<1> QED BY <1>1, InitInv, NextInv, InitOnboard, NextOnboard, InitSurvives, NextSurvives, PTL DEF Spec
================================================================================
