\* Safety: up to four operations on one card, one of them given up at a time.
SPECIFICATION CardSpec
CONSTANTS
  MaxActions = 3
  MaxCalls = 4
  MaxData = 3
  MaxSuspended = 1
INVARIANTS
  ActionsOnceInOrder
  OkMeansInSync
PROPERTIES
  LostOnlyWithSnapshots
  QuietAfterDetach
CHECK_DEADLOCK FALSE
