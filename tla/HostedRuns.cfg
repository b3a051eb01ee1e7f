CONSTANTS
  None = None
  Processes = {p1, p2, p3, p4}
  Hosts = {h1, h2}
  Challenges = {c1}
SPECIFICATION Spec
INVARIANTS TypeOK OneRunPerInstance RunsAttached LabelEarned
PROPERTY LockFreed
CHECK_DEADLOCK FALSE
