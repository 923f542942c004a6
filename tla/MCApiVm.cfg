SPECIFICATION FairSpec
CONSTANTS
  Module <- MCModule
  Entry <- EntryModule
  Specifier <- MCSpecifier
  Api = {pay, debug}
  Declared = {pay}
  MaxLayers = 2
  MaxAwaits = 3
INVARIANTS
  RunsOnce
  RunsWholePackage
  AnswerIsOutermost
PROPERTIES
  CallEnds
