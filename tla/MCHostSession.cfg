\* Two calls, two sessions of one user; the token lives for two steps of
\* the clock, so that it expires in the cache and on its way.
SPECIFICATION Spec
CONSTANTS
  Call = {c1, c2}
  Subject = {session1, session2}
  NoToken = NoToken
  MaxWord = 1000000000
  TokenTtl = 7500
  Step = 4000
  MaxTime = 9400
  MaxSecret = 1
INVARIANTS
  OwnToken
  RefusedForAReason
  AnswersTellEffect
PROPERTIES
  EveryCallEnds
CHECK_DEADLOCK FALSE
