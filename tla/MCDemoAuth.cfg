\* Safety, refinement and liveness: two tasks, two logins, one restart.
SPECIFICATION FairSpec
CONSTANTS
  Handler = {h1, h2}
  c1 = c1
  c2 = c2
  alice = alice
  bob = bob
  aliceDid = aliceDid
  bobDid = bobDid
  Challenge = {c1, c2}
  Identity = {alice, bob}
  User = {aliceDid, bobDid}
  UserOf <- MCUserOf
  Requests <- MCRequests
  Configs <- MCConfigs
  Ttl = 1
  MaxTime = 2
  MaxLogins = 2
  MaxRestarts = 1
  Nobody = Nobody
  NoRequest = NoRequest
  Malformed = Malformed
INVARIANTS
  AtMostOneToken
  TokensProven
  AuditMatchesTokens
PROPERTIES
  AcceptedProofYieldsToken
  OnlyProofsConsume
  ImplementsOneTimeLogin
CHECK_DEADLOCK FALSE
