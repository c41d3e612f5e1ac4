CONSTANTS
  MRs = {m1, m2}
  Configs <- AllConfigs
  Junk <- NoConfig
  Unused = unused
  Idle = idle
  Starts <- AnyUse
  MaxTrouble = 1
SPECIFICATION FairSpec
CHECK_DEADLOCK FALSE
INVARIANTS TypeOK Held
PROPERTIES HoldSpec DeletionsEnd
