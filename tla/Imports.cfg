SPECIFICATION FairSpec
CONSTANTS
  k = k
  ann = ann
  bob = bob
  x = x
  r1 = r1
  r2 = r2
  None = None
  Preview = {1, 2}
  Content = {x}
  User = {ann, bob}
  Key = {k}
  Request = {r1, r2}
  Job = {1, 2}
INVARIANTS
  Idempotent
  SolePreviewKeepsFile
PROPERTY ExpiredArePurged
CHECK_DEADLOCK FALSE
