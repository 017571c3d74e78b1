SPECIFICATION Spec
CONSTANTS
  Requests = {r1}
  Cached = {}
  alice = alice
  bob = bob
  missing = missing
  malformed = malformed
  Accounts <- TwoAccounts
  Headers <- SmallHeaders
  Profiles <- SmallProfiles
  NoProfile = NoProfile
  Missing = missing
  Malformed = malformed
  NoPayer = NoPayer
  MinScore = 7
  MinBond = 5
  MaxChanges = 1
INVARIANT ReturnsGateResult
CHECK_DEADLOCK FALSE
