SPECIFICATION FairSpec
CONSTANTS
  Phones = {p1, p2}
  Editors = {p1}
  Typed <- MCTyped
  Backlog = 1
  FormFields <- MCFields
  Others <- MCOthers
  NoConf = NoConf
  Required <- MCServer
  Defaulted <- MCServer
  Narrow <- MCNarrow
  ScanMax = 2
  ScanFiles <- MCFiles
  Nameless = ""
  Nobody = Nobody
  NotSeen = NotSeen
INVARIANTS
  ProvisionInv
PROPERTIES
  Served
  OwnForm
  PageKeepsConf
