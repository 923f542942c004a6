\* Three requests of clones of one client, two tokens.
SPECIFICATION Spec
CONSTANTS
  Request = {q1, q2, q3}
  MaxToken = 2
  NoToken = NoToken
SYMMETRY Interchangeable
INVARIANTS
  AnswersTellEffect
  RejectedStaysOut
CHECK_DEADLOCK FALSE
