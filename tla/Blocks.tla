--------------------------------- MODULE Blocks ---------------------------------
(***************************************************************************)
(* Blocks and chains of blocks, as protoutil and the orderer's ledger see  *)
(* them.  A chain is a sequence of blocks; block number n is element n + 1.*)
(* A block carries either a batch of normal messages (txs) or one CONFIG   *)
(* envelope (env).  lastConfig is its LAST_CONFIG metadata.                *)
(***************************************************************************)
EXTENDS MsgProcessor

CONSTANTS GenesisConfig,   \* the configuration of block 0
          NoEnv            \* marks a block of normal messages

ASSUME GenesisAssumption == GenesisConfig \in Config /\ validateBatchSize(GenesisConfig)

\* ConfigEnvelope; the one of block 0 has no last update.
Env == [config : Config, lastUpdate : Update \cup {NoEnv}]

ASSUME NoEnvAssumption == NoEnv \notin Env

\* protoutil.BlockHeaderHash, by the parts of a header that tell two blocks apart: its
\* number and its data.  Metadata (lastConfig) is not hashed.
HeaderHash(b) == [number |-> b.number, txs |-> b.txs, env |-> b.env]
Hash == [number : Nat, txs : Seq(Message), env : Env \cup {NoEnv}]

Block ==
  [number : Nat, previousHash : Hash \cup {NoEnv}, txs : Seq(Message), env : Env \cup {NoEnv},
   lastConfig : Nat]

Genesis ==
  [number |-> 0, previousHash |-> NoEnv, txs |-> <<>>,
   env |-> [config |-> GenesisConfig, lastUpdate |-> NoEnv], lastConfig |-> 0]

IsConfigBlock(b) == b.env # NoEnv

LastOf(chain) == chain[Len(chain)]

\* n is the number of the last config block of the chain.
IsLastConfig(chain, n) ==
  /\ n \in 0 .. Len(chain) - 1
  /\ IsConfigBlock(chain[n + 1])
  /\ \A k \in n + 2 .. Len(chain) : ~IsConfigBlock(chain[k])

LastConfigNum(chain) == CHOOSE n \in 0 .. Len(chain) - 1 : IsLastConfig(chain, n)

ConfigOf(chain) == chain[LastConfigNum(chain) + 1].env.config

\* The normal messages of a chain.
Occurs(m, batch) == \E i \in DOMAIN batch : batch[i] = m
InChain(chain, m) == \E n \in DOMAIN chain : Occurs(m, chain[n].txs)
================================================================================
