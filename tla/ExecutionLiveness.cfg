SPECIFICATION FairSpec
CONSTANTS
  a = a
  b = b
  r = r
  c1 = c1
  c2 = c2
  Ids <- MCTwoIds
  Configs <- MCConfigs
  MayLapse <- MCMayLapse
  Operations <- MCTwoApplies
  Invalid = Invalid
  Unreadable = Unreadable
  Pids = {1}
  MaxFaults = 2
PROPERTIES
  InterruptedExecutionsSettle
