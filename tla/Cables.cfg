SPECIFICATION FairSpec
CONSTANTS
  c1 = c1
  c2 = c2
  A = A
  B = B
  C = C
  None = None
  Client = {c1, c2}
  Box = {A, B, C}
  Route <- OneRoute
  FiberCount = 1
  MaxSegment = 5
  MaxRevision = 4
  MaxVersion = 3
INVARIANT SplitKeepsTheLight
INVARIANT ConnectionsKeepTheirFiber
PROPERTY SplitSeesCurrentPlant
CHECK_DEADLOCK FALSE
PROPERTY RequestsEnd
