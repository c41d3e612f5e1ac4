CONSTANTS
  Replicas = {p1}
  TokenIds = {i1, i2}
  RobotIds = {i1, i2}
  TeamIds = {i1, i2}
  RepoNames = {r1}
  ResourceName = r1
  OwnerIds = {i1}
  Labels = {"a"}
  OwnerTypes = {"robots", "users"}
  Levels = {"read", "write"}
  Unset = unset
  NoName = unset
  NotUuid = notUuid
  NoTeam = noTeam
  Ids <- KindIds
  Specs <- KindSpecs
  Names <- KindNames
  Worlds <- KindWorlds
  Starts <- Members
  MaxTrouble = 1
  NoCopy = noCopy
  Default <- KindDefault
  Resolve <- KindResolve
  Patch <- KindPatch
  Whole <- KindWhole
  Observe <- KindObserve
  Create <- KindCreate
  Update <- KindUpdate
  Delete <- KindDelete
  Publishes <- KindPublishes
  Targets <- KindTargets
  Objects <- KindObjects
  Drifts <- KindDrifts
  Edits <- KindEdits
SPECIFICATION Spec
CHECK_DEADLOCK FALSE
INVARIANT NoOrphan
