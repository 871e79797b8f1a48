----------------------------- MODULE ChannelConfig -----------------------------
(***************************************************************************)
(* Channel configuration and its transactions: common/configtx (the        *)
(* validator) and the parts of common/channelconfig the orderer reads.     *)
(*                                                                         *)
(* A configuration is a sequence number and, for each config element, a    *)
(* version and a value.  The tree of groups, values and policies is        *)
(* flattened, as mapConfig does, and cut down to the elements the ordering *)
(* service acts on:                                                        *)
(*   ConsensusType   the consenter type, its metadata and the state        *)
(*   BatchSize       the limits of the block cutter and the size filter    *)
(*   Writers         who satisfies /Channel/Writers                        *)
(*   OrdererWriters  who satisfies /Channel/Orderer/Writers                *)
(***************************************************************************)
EXTENDS Envelopes

CONSTANT Update   \* the CONFIG_UPDATE transactions that may be submitted

ConfigKey == {"ConsensusType", "BatchSize", "Writers", "OrdererWriters"}

BatchSizes ==
  [maxMessageCount : Nat, absoluteMaxBytes : Nat, preferredMaxBytes : Nat]

ConsensusTypes ==
  [type : {"etcdraft", "BFT"}, metadata : {"raft", "bft"}, state : {"NORMAL", "MAINTENANCE"}]

Config ==
  [sequence : Nat, version : [ConfigKey -> Nat], consensusType : ConsensusTypes,
   batchSize : BatchSizes, writers : SUBSET Creator, ordererWriters : SUBSET Creator]

\* A config transaction: the versions it read, the versions it writes and the values it puts
\* there, the elements whose mod_policy its signatures satisfy, and the sizes in bytes of
\* the update envelope and of the CONFIG envelope the orderer makes of it.
ASSUME UpdateAssumption ==
  \A u \in Update :
    /\ DOMAIN u.readSet \subseteq ConfigKey
    /\ \A k \in DOMAIN u.readSet : u.readSet[k] \in Nat
    /\ DOMAIN u.writeSet \subseteq ConfigKey
    /\ \A k \in DOMAIN u.writeSet : u.writeSet[k] \in Nat
    /\ u.consensusType \in ConsensusTypes
    /\ u.batchSize \in BatchSizes
    /\ u.writers \in SUBSET Creator
    /\ u.ordererWriters \in SUBSET Creator
    /\ u.creator \in Creator
    /\ u.size \in Nat
    /\ u.envelopeSize \in Nat

--------------------------------------------------------------------------------
(* configtx.ValidatorImpl *)

verifyReadSet(c, u) ==
  \A k \in DOMAIN u.readSet : c.version[k] = u.readSet[k]

computeDeltaSet(u) ==
  {k \in DOMAIN u.writeSet :
     ~ (k \in DOMAIN u.readSet /\ u.readSet[k] = u.writeSet[k])}

verifyDeltaSet(c, u) ==
  /\ computeDeltaSet(u) # {}
  /\ \A k \in computeDeltaSet(u) :
       /\ u.writeSet[k] = c.version[k] + 1
       /\ k \in u.policiesSatisfied

authorizeUpdate(c, u) == verifyReadSet(c, u) /\ verifyDeltaSet(c, u)

\* The configuration with the updated elements laid over the old ones, one sequence number on.
computeUpdateResult(c, u) ==
  LET delta == computeDeltaSet(u)
      src(k) == IF k \in delta THEN u ELSE c
  IN  [sequence       |-> c.sequence + 1,
       version        |-> [k \in ConfigKey |-> IF k \in delta THEN u.writeSet[k] ELSE c.version[k]],
       consensusType  |-> src("ConsensusType").consensusType,
       batchSize      |-> src("BatchSize").batchSize,
       writers        |-> src("Writers").writers,
       ordererWriters |-> src("OrdererWriters").ordererWriters]

\* OrdererConfig.validateBatchSize, which every new bundle passes through.
validateBatchSize(c) ==
  /\ c.batchSize.maxMessageCount # 0
  /\ c.batchSize.absoluteMaxBytes # 0
  /\ c.batchSize.preferredMaxBytes # 0
  /\ c.batchSize.preferredMaxBytes <= c.batchSize.absoluteMaxBytes

\* ProposeConfigUpdate succeeds, and the ConfigEnvelope it then returns.
CanPropose(c, u) ==
  /\ authorizeUpdate(c, u)
  /\ validateBatchSize(computeUpdateResult(c, u))

ProposeConfigUpdate(c, u) == [config |-> computeUpdateResult(c, u), lastUpdate |-> u]

\* Validate: the envelope is what its own update makes of the current configuration.
Validate(c, env) ==
  /\ env.config.sequence = c.sequence + 1
  /\ authorizeUpdate(c, env.lastUpdate)
  /\ env.config = computeUpdateResult(c, env.lastUpdate)
================================================================================
