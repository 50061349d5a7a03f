CONSTANTS
  Launch = {1, 2, 3}
  NoLaunch = NoLaunch
  MaxQueued = 2
  Client = {c1, c2}
  Viewer = {c1}
  HostAudio = {c2}
  Real = {a}
  Nothing = Nothing
  Virtual = Virtual
  NoSink = NoSink
SPECIFICATION LiveSpec
CHECK_DEADLOCK FALSE
INVARIANTS
  LiveTypeOK PendingIsTimed
PROPERTIES
  NoOverwrite LaunchIsResolved
  WorkEnds
