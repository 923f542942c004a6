SPECIFICATION ChatSpec
CONSTANTS
  RenderIr <- Compile
  TapsOn <- TapsOf
  ContentsOf <- Contents
  c1 = c1
  c2 = c2
  Cli = {c1, c2}
  Commands <- MCCommands
  ScriptStem <- MCScriptStem
  Listing <- MCListing
  Store <- MCStore
  OrderIds <- MCOrderIds
  MaxRuns = 2
  MaxSessions = 2
  MaxTaps = 3
INVARIANTS
  LoadedCardsAreShown
  CardIsItsTemplate
  BoughtAsShown
  FailsForCause
  LoggedInAsAsked
  ChatPaysAsShown
CHECK_DEADLOCK FALSE
