SPECIFICATION Spec
CONSTANTS
  host = host
  ssid = ssid
  user = user
  set = set
  Fields <- MCFields
  Values <- MCValues
  NoValue = NoValue
  NoText = NoText
  Bad = Bad
  Capacity = 2
  ReadFaults = FALSE
  MaxSeq = 5
INVARIANTS
  TargetIsNotNewest
