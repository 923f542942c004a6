\* Safety and refinement: three calls in flight at once.
SPECIFICATION Spec
CONSTANTS
  Call = {k1, k2, k3}
  search = search
  pay = pay
  address = address
  label1 = label1
  Api = {search, pay, address, label1}
  Declared <- MCDeclared
  UnknownApi = UnknownApi
  Host = Host
SYMMETRY MCSymmetry
INVARIANTS
  ApprovedBeforeRun
  RecordsAreTrue
  AnswersMatchRecords
PROPERTIES
  ImplementsGatedExecution
CHECK_DEADLOCK FALSE
