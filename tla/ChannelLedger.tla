----------------------------- MODULE ChannelLedger -----------------------------
(***************************************************************************)
(* What the ordering service promises about a channel, whatever crashes,   *)
(* races and reconfigurations happen underneath: its ledger only ever      *)
(* grows, by one block at a time, and each new block                       *)
(*   - has the next number and the hash of its predecessor;                *)
(*   - points with LAST_CONFIG to the last config block up to itself;      *)
(*   - holds messages that pass the filters of the configuration in force  *)
(*     at that point of the chain, at most MaxMessageCount of them, none   *)
(*     of them a second time;                                              *)
(*   - or holds one CONFIG envelope that the configuration in force        *)
(*     authorizes and whose result it carries.                             *)
(***************************************************************************)
EXTENDS Naturals, Sequences

\* Chains and the rules of a configuration, as Blocks and MsgProcessor define them.
CONSTANTS Message, Update, Genesis,
          LastOf(_), HeaderHash(_), IsConfigBlock(_), LastConfigNum(_), ConfigOf(_), InChain(_, _),
          Filters(_, _), Validate(_, _), ProcessConfigUpdateMsg(_, _)

VARIABLE ledger

Linked(b) ==
  /\ b.number = Len(ledger)
  /\ b.previousHash = HeaderHash(LastOf(ledger))

NormalBlock(b) ==
  /\ ~IsConfigBlock(b)
  /\ b.lastConfig = LastConfigNum(ledger)
  /\ Len(b.txs) \in 1 .. ConfigOf(ledger).batchSize.maxMessageCount
  /\ \A i \in DOMAIN b.txs :
       /\ b.txs[i] \in Message
       /\ Filters(ConfigOf(ledger), b.txs[i])
       /\ ~InChain(ledger, b.txs[i])
       /\ \A j \in DOMAIN b.txs : b.txs[i] = b.txs[j] => i = j

ConfigBlock(b) ==
  /\ IsConfigBlock(b)
  /\ b.lastConfig = b.number
  /\ b.txs = <<>>
  /\ b.env.lastUpdate \in Update
  /\ Validate(ConfigOf(ledger), b.env)
  /\ ProcessConfigUpdateMsg(ConfigOf(ledger), b.env.lastUpdate)

Init == ledger = <<Genesis>>

AppendBlock ==
  LET b == LastOf(ledger')
  IN  /\ ledger' = Append(ledger, b)
      /\ Linked(b)
      /\ NormalBlock(b) \/ ConfigBlock(b)

Spec == Init /\ [][AppendBlock]_ledger
================================================================================
