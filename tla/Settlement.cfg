SPECIFICATION FairSpec
CONSTANTS
  Calls = {c1, c2}
  Base = 2
  Pubkeys <- AllPubkeys
  Requests <- AllRequests
  Funds <- InitialFunds
  PROGRAM_ID_DEVNET = devnet
  Deployed = local
  TOKEN_PROGRAM_ID = tokenProgram
  SYSTEM_PROGRAM_ID = systemProgram
  None = None
  ValueError = ValueError
  FeePayer = feePayer
  Controller = controller
  Source = source
  Claimer = claimer
  Claim = claimPda
  Mint = mint
  Claimed = 2
  Score = 2
  Usdc = 1
  ThousandUsdc = 3
  Score700 = 2
  Score800 = 3
  MinBond = 1
  CreditScore = 2
INVARIANTS
  TypeOK
  ResolvedIsDone
  MovedWithinCalls
PROPERTIES
  CallsSettle
  ExecutedAsAsked
  RefusedForCause
CHECK_DEADLOCK FALSE
