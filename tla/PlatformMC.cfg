CONSTANTS
  Image = {i1, i2}
  NoImage = NoImage
  Streamer = {s1, s2}
  Id = {t1, t2}
  Says <- ClientsSay
  HighRes = FALSE
  MaxSent = 4
  MaxPort = 2
  PadIds = {0, 1}
  Encoders = {"rfi", "idr"}
  Dpb = 3
  MaxFrame = 4
  MaxReport = 1
  MaxRestart = 1
SPECIFICATION PlatformSpec
CHECK_DEADLOCK FALSE
INVARIANTS
  InputIsKept HeldIsKnown DevicesAreSafe PictureIsTrue ReferencesHold
