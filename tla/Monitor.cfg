SPECIFICATION FairSpec
CONSTANTS
  unit = unit
  proc = proc
  cmd = cmd
  NoAct = NoAct
  UnitActs <- MCUnitActs
  KillActs <- MCKillActs
  ExecActs <- MCExecActs
  RuleActs <- MCRuleActs
  Allowed <- MCAllowed
  Scores <- MCScores
  CritCap = 40
  AlertScore = 70
  RecoverScore = 80
  Pages = 2
  Keys = {3}
  LlmPeriod = 1
  MaxPending = 1
  Boot = "unused"
INVARIANTS
  RunsOnlyVetted
PROPERTIES
  LatchMovesByAdvice
  SickRaises
  HealthyClears
