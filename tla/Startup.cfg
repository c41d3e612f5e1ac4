CONSTANTS
  Starts <- AnyTwo
  MaxTrouble = 2
SPECIFICATION FairSpec
CHECK_DEADLOCK FALSE
INVARIANTS OwnKind SetUpSucceeds
PROPERTY AllServed
