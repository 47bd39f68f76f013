SPECIFICATION Spec
CONSTANTS
  Conditions <- MCWell
  AgentReplies = {}
  FailureThreshold = 2
  RecoveryThreshold = 2
  VerifyTries = 2
  Message = "disk"
  Repairers = {tool, console}
  Askers = {}
  Loop = Loop
  Off = Off
  NoAnswer = NoAnswer
SYMMETRY RepairSymmetry
INVARIANTS
  DashboardInv
  ResultIsHonest
PROPERTIES
  HoldApproves
