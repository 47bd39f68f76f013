SPECIFICATION Spec
CONSTANTS
  Callers = {monitor, repair}
  Llm = llm
  Nobody = nobody
  MaxRequests = 2
  MaxRounds = 2
  Chunks = 2
  MaxLost = 2
INVARIANTS
  TunnelInv
PROPERTIES
  AcceptedIsOwn
CHECK_DEADLOCK FALSE
