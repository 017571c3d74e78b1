SPECIFICATION FairSpec
CONSTANTS
  Requests = {r1, r2}
  Cached = {r2}
  alice = alice
  bob = bob
  missing = missing
  malformed = malformed
  Accounts <- TwoAccounts
  Headers <- SmallHeaders
  Profiles <- SmallProfiles
  NoProfile = NoProfile
  Missing = missing
  Malformed = malformed
  NoPayer = NoPayer
  MinScore = 7
  MinBond = 5
  MaxChanges = 1
INVARIANTS
  TypeOK
  PassWasEarned
  RefusalWasTrue
  PaymentRequiredIsFinal
PROPERTIES
  EveryRequestIsAnswered
CHECK_DEADLOCK FALSE
