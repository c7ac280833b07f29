SPECIFICATION Spec
CONSTANTS
  a = a
  b = b
  r = r
  c1 = c1
  c2 = c2
  Ids <- MCIds
  Configs <- MCConfigs
  MayLapse <- MCNothingLapses
  Operations <- MCOperations
  Invalid = Invalid
  Unreadable = Unreadable
  Pids = {1}
  MaxFaults = 2
INVARIANTS
  TypeOK
  AtMostOnce
  VerifiedIsDurable
  RejectedHadNoEffect
  AnsweredReceiptsAgree
  ReversalFollowsItsOriginal
  ReversedIsDurable
PROPERTIES
  JournalMovesForward
  KeepsPromise
