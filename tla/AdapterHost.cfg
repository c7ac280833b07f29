SPECIFICATION HostSpec
CONSTANTS
  a = a
  b = b
  r = r
  c1 = c1
  c2 = c2
  Ids <- MCIds
  Configs <- MCConfigs
  Operations <- MCOperations
  Invalid = Invalid
  Unreadable = Unreadable
  Pids = {1, 2}
  MaxFaults = 3
INVARIANTS
  HostTypeOK
  OneRecordPerGeneration
  ConvergedIsDurable
  IdleMemoryKnowsDisk
PROPERTIES
  DurableIsNeverRepeated
