SPECIFICATION Spec
CONSTANTS
  Daemon = {agent}
  Command = {c1, c2}
  Project = {p, q}
  Thread = {t}
  MaxMsgs = 3
  TicksPerSecond = 2
  MaxTime = 1
  MaxFailures = 1
SYMMETRY Symmetry
INVARIANTS AnnouncedIsReadable ReplyIsNotQuestion
CHECK_DEADLOCK FALSE
