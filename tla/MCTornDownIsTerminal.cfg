CONSTANTS
  None = None
  Requests = {q1, q2, q3, q4}
  MaxInFlight = 2
SPECIFICATION Spec
PROPERTY TornDownIsTerminal
CHECK_DEADLOCK FALSE
SYMMETRY MCSymmetry
