CONSTANTS
  None = None
  Requests = {q1, q2, q3, q4}
  MaxInFlight = 2
SPECIFICATION Spec
INVARIANTS SagaTypeOK FailureReasonMatches LiveIsComplete SessionsOwned CleanupHonest SupersessionSound
CHECK_DEADLOCK FALSE
SYMMETRY MCSymmetry
