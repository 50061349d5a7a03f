CONSTANTS
  Session = {s1}
  NoSession = NoSession
  NoOne = NoOne
  CertOf <- CertOfMC
  HttpModes <- Quiet
  AppMayExit = FALSE
  MayShutDown = FALSE
  MayGoSilent = {s1}
SPECIFICATION FairSpec
PROPERTIES SessionsEnd BroadcastEnds
