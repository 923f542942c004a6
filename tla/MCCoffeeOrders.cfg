\* Four requests on a menu of two drinks, over two runs of the server.
SPECIFICATION Spec
CONSTANTS
  Request = {q1, q2, q3, q4}
  Drink = {latte, mocha}
  UnknownDrink = UnknownDrink
  NoOrder = NoOrder
  NoRequest = NoRequest
  MaxOrder = 4
  MaxRuns = 2
SYMMETRY Interchangeable
INVARIANTS
  AuditMatchesBook
  PaidAsConfirmed
PROPERTIES
  ImplementsOrderBook
CHECK_DEADLOCK FALSE
