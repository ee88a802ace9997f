CONSTANTS
  GroupList <- MCGroupList
  UserList <- MCUserList
  DirList <- MCDirList
  ExeList <- MCExeList
  CfgList <- MCCfgList
  UnitList <- MCUnitList
  Root = "root"
  Owner <- MCOwner
  OwnerGroup <- MCOwnerGroup
  Sockets <- MCSockets
  EnabledUnits <- MCSockets
  StartedUnits <- MCSockets
  ExpectedActive <- MCSockets
  Built <- MCBuilt
  MaxRuns = 3
SPECIFICATION Spec
INVARIANT VerifyResultHonoured
CHECK_DEADLOCK FALSE
