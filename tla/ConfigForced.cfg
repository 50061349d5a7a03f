CONSTANTS
  Prep = 2
  RevertOnDisconnect = FALSE
  MaxRequest = 2
  DriverValue = {off, auto}
  MaxCrash = 2
  MaxFail = 2
  MaxEdit = 2
  Tab = {"a", "f"}
  Foreign = {"f"}
  Cred = {"c1", "c2"}
  NoCred = "none"
  MaxToken = 2
  MaxKill = 1
  MaxRemove = 1
  Cards <- Gpus
  Wanted <- VideoConfigs
  NoEncoder = "none"
  MaxProbe = 2
  MaxChange = 1
SPECIFICATION HostSpec
CHECK_DEADLOCK FALSE
INVARIANT ForcedIsForced
