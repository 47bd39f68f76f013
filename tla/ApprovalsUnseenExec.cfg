SPECIFICATION ASpec
CONSTANTS
  unit = unit
  cmd = cmd
  NoAct = NoAct
  UnitActs <- MCUnitActs
  KillActs <- MCKillActs
  ExecActs <- MCExecActs
  RuleActs <- MCRuleActs
  Allowed <- MCAllowed
  Scores <- MCScores
  CritCap = 40
  AlertScore = 70
  RecoverScore = 80
  Pages = 2
  Keys = {3}
  LlmPeriod = 2
  MaxPending = 1
  Boot = "unused"
INVARIANTS
  ExecWasShown
