CONSTANTS
  Client = {c1, c2}
  NoClient = NoClient
  MaxAttempts = 2
  MaxEntries = 2
  MaxChanges = 2
  QueueMax = 1
SPECIFICATION Spec
INVARIANTS TypeOK OnlyConfirmed AnswersHold PairedIsAccepted
SYMMETRY Clients
CONSTRAINT UntilFailure
CHECK_DEADLOCK FALSE
