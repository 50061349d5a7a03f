CONSTANTS
  Session = {s1, s2}
  NoSession = NoSession
  NoOne = NoOne
  CertOf <- CertOfMC
  HttpModes <- Quiet
  AppMayExit = FALSE
  MayShutDown = FALSE
  MayGoSilent = {}
SPECIFICATION Spec
SYMMETRY Symmetry
INVARIANTS TypeOK NoDanglingControl ThreadsBacked FreshBroadcast JoinIsSound
