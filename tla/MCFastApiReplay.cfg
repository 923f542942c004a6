\* One challenge, one token: refuted when two logins overlap.
SPECIFICATION Spec
CONSTANTS
  Thread = {t1, t2}
  c1 = c1
  c2 = c2
  alice = alice
  bob = bob
  aliceDid = aliceDid
  bobDid = bobDid
  Challenge = {c1, c2}
  Identity = {alice, bob}
  User = {aliceDid, bobDid}
  UserOf <- MCUserOf
  Requests <- MCRequests
  Configs <- MCFastApiConfigs
  Ttl = 1
  MaxTime = 2
  MaxLogins = 3
  Nobody = Nobody
  NoRequest = NoRequest
  Malformed = Malformed
INVARIANTS
  AtMostOneToken
CHECK_DEADLOCK FALSE
