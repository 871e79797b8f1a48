SPECIFICATION Spec
CONSTANTS
  client = client
  osn = osn
  stranger = stranger
  NoEnv = NoEnv
  h1 = h1
  h2 = h2
  Creator <- MCCreator
  OrdererIdentity = osn
  Message <- MCMixed
  Update <- MCUpdate
  GenesisConfig <- MCGenesisConfig
  UintMod = 16
  Handler = {h1, h2}
  UdpHandler = {h2}
  Consenters = {"etcdraft"}
  Workloads <- MCMaintenance
  MayRemove = FALSE
  MaxCrashes = 0
INVARIANT
  MaintenanceBlocksNormal
CHECK_DEADLOCK FALSE
