\* Safety: two pool threads, up to three logins.
SPECIFICATION Spec
CONSTANTS
  Thread = {t1, t2}
  c1 = c1
  c2 = c2
  alice = alice
  bob = bob
  aliceDid = aliceDid
  bobDid = bobDid
  Challenge = {c1, c2}
  Identity = {alice, bob}
  User = {aliceDid, bobDid}
  UserOf <- MCUserOf
  Requests <- MCRequests
  Configs <- MCFastApiConfigs
  Ttl = 1
  MaxTime = 2
  MaxLogins = 3
  Nobody = Nobody
  NoRequest = NoRequest
  Malformed = Malformed
INVARIANTS
  TokensProven
  SentTokenIsLast
  AuditMatchesTokens
PROPERTIES
  OnlyTokensConsume
CHECK_DEADLOCK FALSE
