CONSTANTS
  Handle = {h1, h2, h3, h4, h5, h6}
  NoHandle = NoHandle
  Viewer = {v1, v2}
  MaxDisplay = 2
  ImagesHoldDisplay = TRUE
  AsyncTeardown = FALSE
  MaxPackets = 2
  MaxCrash = 1
  Listener = {l1, l2}
  HostAudio = {l2}
  Real = {a, b}
  Host = {s1}
  NoSession = NoSession
  NoOne = NoOne
  Nothing = Nothing
  Virtual = Virtual
  NoSink = NoSink
SPECIFICATION MediaSpec
SYMMETRY Symmetry
CHECK_DEADLOCK FALSE
INVARIANTS
  SessionIsSafe
  CaptureIsSafe
PROPERTIES
  ImplementsSole FreshQueue
