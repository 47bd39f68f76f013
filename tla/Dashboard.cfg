SPECIFICATION FairSpec
CONSTANTS
  Conditions <- MCConditions
  AgentReplies <- MCReplies
  FailureThreshold = 2
  RecoveryThreshold = 2
  VerifyTries = 2
  Message = "disk"
  Repairers = {}
  Askers = {cli, shell}
  Loop = Loop
  Off = Off
  NoAnswer = NoAnswer
INVARIANTS
  DashboardInv
  Debounced
PROPERTIES
  ReplyEndsPause
