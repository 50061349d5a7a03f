SPECIFICATION FrontSpec
CONSTANTS
  Desktop = {d1, d2}
  NoDesktop = NoDesktop
CHECK_DEADLOCK FALSE
INVARIANTS
  UserIsServed RoutesAreTrue
PROPERTIES
  FrontSettles RequestsAreServed FrameIsWhole
