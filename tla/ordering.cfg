SPECIFICATION Spec
CONSTANTS
  client = client
  osn = osn
  stranger = stranger
  NoEnv = NoEnv
  h1 = h1
  h2 = h2
  Creator <- MCCreator
  OrdererIdentity = osn
  Message <- MCMessage
  Update <- MCUpdate
  GenesisConfig <- MCGenesisConfig
  UintMod = 16
  Handler = {h1, h2}
  UdpHandler = {h2}
  Consenters = {"etcdraft"}
  Workloads <- MCOrdering
  MayRemove = FALSE
  MaxCrashes = 1
INVARIANTS
  ConfigNeverPanics
  AppendNeverPanics
  TimerRunsIffPending
  EnqueuedIsHeldOrCommitted
  ChainIsInOrder
  MigrationIsStaged
PROPERTY
  KeepsLedgerPromises
CHECK_DEADLOCK FALSE
