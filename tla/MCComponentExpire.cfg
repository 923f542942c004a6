\* Whether an expire request takes a card out of service at once.
SPECIFICATION CardSpec
CONSTANTS
  MaxActions = 1
  MaxCalls = 3
  MaxData = 1
  MaxSuspended = 0
PROPERTIES
  NoEventAfterExpireRequest
CHECK_DEADLOCK FALSE
