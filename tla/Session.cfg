SPECIFICATION FairSpec
CONSTANTS
  web = web
  db = db
  cache = cache
  burner = burner
  noise = noise
  NoName = NoName
  Services <- MCServices
  Repair <- MCRepair
  IgnorePorts <- MCIgnorePorts
  IgnoreUnits <- MCIgnoreUnits
  KillAllow <- MCKillAllow
  MaxPorts = 2
  MaxFailed = 5
  MaxWatched = 8
  Ephemeral = 32768
  Tries = 2
  ConnectLimit = 1
  SshLimit = 4
  LlmLimit = 1
  StallLimit = 6
  MaxChunks = 1
  Hosts <- MCHosts
  Config <- MCConfig
  Cuts <- MCCuts
INVARIANTS
  SessionInv
  DoneWasStarted
  ResetsOnlyStalls
  AlertIsExplained
  WorseIsNoBetter
  SoundRecovers
  LossIsReal
  ProposalIsDown
PROPERTIES
  CycleEnds
