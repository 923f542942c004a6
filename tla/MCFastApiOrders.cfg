\* Four requests: confirms that all overlap, or two and what follows them.
SPECIFICATION Spec
CONSTANTS
  Request = {q1, q2, q3, q4}
  NoRequest = NoRequest
  MaxOrder = 4
SYMMETRY Interchangeable
INVARIANTS
  IdsHaveNoGaps
  LostOnlyByOverlap
  PaidAsConfirmed
CHECK_DEADLOCK FALSE
