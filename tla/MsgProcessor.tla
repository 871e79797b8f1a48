------------------------------ MODULE MsgProcessor ------------------------------
(***************************************************************************)
(* The rules of orderer/common/msgprocessor by which an orderer accepts an *)
(* envelope under a given configuration.  Each operator is one evaluation  *)
(* of a rule against one configuration; the specifications decide at which *)
(* moment each rule reads the configuration.                               *)
(*                                                                         *)
(* An envelope is any record with the fields size and creator.             *)
(***************************************************************************)
EXTENDS ChannelConfig

CONSTANT OrdererIdentity   \* who signs the CONFIG envelopes this orderer makes

ASSUME OrdererIdentityAssumption == OrdererIdentity \in Creator

\* MaxBytesRule.Apply
SizeFilter(c, e) == e.size <= c.batchSize.absoluteMaxBytes

\* SigFilter.Apply: in maintenance mode /Channel/Orderer/Writers replaces /Channel/Writers.
PolicyName(c) == IF c.consensusType.state = "MAINTENANCE" THEN "OrdererWriters" ELSE "Writers"
Policy(c, name) == IF name = "OrdererWriters" THEN c.ordererWriters ELSE c.writers
SigFilter(c, e) == e.creator \in Policy(c, PolicyName(c))

Filters(c, e) == SizeFilter(c, e) /\ SigFilter(c, e)

\* The first check of ProcessNormalMsg.
RejectsNormal(c) == c.consensusType.state # "NORMAL"

\* The envelope CreateSignedEnvelope puts around a ConfigEnvelope.
SignedEnvelope(env) == [size |-> env.lastUpdate.envelopeSize, creator |-> OrdererIdentity]

permittedTargetConsensusTypes == {"BFT"}

\* ensureConsensusTypeChangeOnly: of the values, the write set names ConsensusType and no
\* other.  It may name any policies: neither WriteSet.Policies nor those of the orderer group
\* are looked at.
ensureConsensusTypeChangeOnly(u) ==
  DOMAIN u.writeSet \cap {"ConsensusType", "BatchSize"} = {"ConsensusType"}

\* Variant of MaintenanceFilter that lets the type change in any state.
MaintenanceFilterAnyState(c, env) ==
  LET next == env.config
  IN  /\ next.consensusType.state # c.consensusType.state =>
           ensureConsensusTypeChangeOnly(env.lastUpdate)
      /\ next.consensusType.type # c.consensusType.type =>
           next.consensusType.type \in permittedTargetConsensusTypes

\* MaintenanceFilter.inspect, with the migration capability enabled.  c is the current
\* configuration and env the proposed one.
MaintenanceFilter(c, env) ==
  LET next == env.config
  IN  /\ next.consensusType.state # c.consensusType.state =>
           /\ ensureConsensusTypeChangeOnly(env.lastUpdate)
           /\ next.consensusType.type = c.consensusType.type
           /\ next.consensusType.metadata = c.consensusType.metadata
      /\ next.consensusType.type # c.consensusType.type =>
           /\ c.consensusType.state # "NORMAL"
           /\ next.consensusType.state # "NORMAL"
           /\ next.consensusType.type \in permittedTargetConsensusTypes
           /\ next.consensusType.metadata = "bft"

--------------------------------------------------------------------------------
(* The processors, run against a configuration that does not change meanwhile. *)

ProcessNormalMsg(c, m) == ~RejectsNormal(c) /\ Filters(c, m)

ProcessConfigUpdateMsg(c, u) ==
  LET env == ProposeConfigUpdate(c, u)
  IN  /\ Filters(c, u)
      /\ CanPropose(c, u)
      /\ Filters(c, SignedEnvelope(env))
      /\ MaintenanceFilter(c, env)
================================================================================
