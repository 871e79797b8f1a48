----------------------------- MODULE MCNoPaxosChain -----------------------------
(***************************************************************************)
(* Instances of NoPaxosChain for TLC.  One creator may write to the        *)
(* channel, one is also an orderer-organization writer, one is neither.    *)
(***************************************************************************)
EXTENDS NoPaxosChainInv, TLC

CONSTANTS client, osn, stranger, h1, h2

MCCreator == {client, osn, stranger}

m1 == [id |-> 1, size |-> 1, creator |-> osn]
m2 == [id |-> 2, size |-> 2, creator |-> client]
m3 == [id |-> 3, size |-> 4, creator |-> osn]
m4 == [id |-> 4, size |-> 1, creator |-> stranger]
m5 == [id |-> 5, size |-> 6, creator |-> client]

MCBatchSize(n) == [maxMessageCount |-> n, absoluteMaxBytes |-> 5, preferredMaxBytes |-> 3]
MCConsensusType(t, md, s) == [type |-> t, metadata |-> md, state |-> s]

MCGenesisConfig ==
  [sequence |-> 0, version |-> [k \in ConfigKey |-> 0],
   consensusType |-> MCConsensusType("etcdraft", "raft", "NORMAL"),
   batchSize |-> MCBatchSize(2), writers |-> {client, osn}, ordererWriters |-> {osn}]

\* An update of element k, whose value is in field f, read at version v, to value x.
MCUpdateOf(k, f, v, x) ==
  [[readSet |-> [j \in {k} |-> v], writeSet |-> [j \in {k} |-> v + 1],
    consensusType |-> MCGenesisConfig.consensusType, batchSize |-> MCGenesisConfig.batchSize,
    writers |-> {}, ordererWriters |-> {}, policiesSatisfied |-> {k},
    creator |-> osn, size |-> 1, envelopeSize |-> 2] EXCEPT ![f] = x]

dropClient  == MCUpdateOf("Writers", "writers", 0, {osn})
batchOfOne  == MCUpdateOf("BatchSize", "batchSize", 0, MCBatchSize(1))
emptyBatch  == MCUpdateOf("BatchSize", "batchSize", 0, MCBatchSize(0))
maintenance == MCUpdateOf("ConsensusType", "consensusType", 0, MCConsensusType("etcdraft", "raft", "MAINTENANCE"))
migrate     == MCUpdateOf("ConsensusType", "consensusType", 1, MCConsensusType("BFT", "bft", "MAINTENANCE"))
\* An update with more than the size limit once it is signed, and one the node may not sign.
bigEnvelope == [dropClient EXCEPT !.envelopeSize = 6]
dropOsn     == MCUpdateOf("Writers", "writers", 0, {client})
early       == [migrate EXCEPT !.readSet = [j \in {"ConsensusType"} |-> 0],
                               !.writeSet = [j \in {"ConsensusType"} |-> 1]]
MCMessage == {m1, m2, m3, m4, m5}
MCMixed   == {m1, m2}
MCUpdate  == {dropClient, batchOfOne, emptyBatch, maintenance, migrate, bigEnvelope, dropOsn, early}

\* What clients submit in the runs: messages that concurrent updates of the writers and
\* of the batch size concern; messages of all size classes; a migration and an attempt
\* to do it at once; and messages and updates that some rule must refuse.
MCProgress    == {{m1, m2, dropClient}, {m1, emptyBatch}}
MCReconfigure == {{m1, m2, dropClient}, {m2, dropClient, batchOfOne}}
MCBatches     == {{m1, m2, m3}}
MCMigration   == {{m1, maintenance, migrate, early}}
MCRejections  == {{m4, emptyBatch, dropOsn}, {m5, bigEnvelope, early}}
MCOrdering    == MCReconfigure \cup MCBatches \cup MCMigration \cup MCRejections
MCMaintenance == {{m1, maintenance}}
MCSmall       == {dropClient, emptyBatch}
================================================================================
