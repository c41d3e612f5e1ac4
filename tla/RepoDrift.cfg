CONSTANTS
  Replicas = {p1}
  RepoNames = {r1}
  Ids = {r1}
  ResourceName = r1
  Unset = unset
  NoName = unset
  Specs <- RepoSpecs
  Names <- RepoExternalNames
  Worlds <- RepoWorlds
  Starts <- Namesake
  MaxTrouble = 1
  NoCopy = noCopy
  Default <- RepoDefault
  Resolve <- RepoResolve
  Patch <- RepoPatch
  Whole <- RepoWhole
  Observe <- RepoObserve
  Create <- RepoCreate
  Update <- RepoUpdate
  Delete <- RepoDelete
  Publishes <- RepoPublishes
  Targets <- RepoTargets
  Objects <- RepoObjects
  Drifts <- RepoDrifts
  Edits <- RepoEdits
SPECIFICATION FairSpec
CHECK_DEADLOCK FALSE
PROPERTY Reflects
