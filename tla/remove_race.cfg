SPECIFICATION Spec
CONSTANTS
  client = client
  osn = osn
  stranger = stranger
  NoEnv = NoEnv
  h1 = h1
  h2 = h2
  Creator <- MCCreator
  OrdererIdentity = osn
  Message <- MCMixed
  Update <- MCSmall
  GenesisConfig <- MCGenesisConfig
  UintMod = 16
  Handler = {h1, h2}
  UdpHandler = {h2}
  Consenters = {"etcdraft"}
  Workloads <- MCProgress
  MayRemove = TRUE
  MaxCrashes = 0
INVARIANT
  AppendNeverPanics
CHECK_DEADLOCK FALSE
