CONSTANTS
  Replicas = {p1}
  TokenIds = {t1, t2}
  Ids = {t1, t2}
  Labels = {"a"}
  OwnerTypes = {"robots"}
  OwnerIds = {o1}
  Unset = unset
  NoName = unset
  NotUuid = notUuid
  Specs <- TokenSpecs
  Names <- TokenNames
  Worlds <- TokenWorlds
  Starts <- NewToken
  MaxTrouble = 1
  NoCopy = noCopy
  Default <- TokenDefault
  Resolve <- TokenResolve
  Patch <- TokenPatch
  Whole <- TokenWhole
  Observe <- TokenObserve
  Create <- TokenCreate
  Update <- TokenUpdate
  Delete <- TokenDelete
  Publishes <- TokenPublishes
  Targets <- TokenTargets
  Objects <- TokenObjects
  Drifts <- TokenDrifts
  Edits <- TokenEdits
SPECIFICATION FairSpec
CHECK_DEADLOCK FALSE
PROPERTY SecretFollows
