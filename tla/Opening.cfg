SPECIFICATION AnySpec
CONSTANTS
  Worker = {w1,w2}
  FirstWorker = w1
  Others = {o1}
  MaxFrames = 3
  MaxSockets = 2
  BehindLimit = 1
  Launcher = {l1, l2}
  Plain = Plain
  Nobody = Nobody
  MaxEnds = 1
  MaxReloads = 1
  MaxKills = 1
  Request = {r1, c1}
  Closing = {c1}
  Relay = {x1, x2}
  MaxLines = 1
  MaxNotes = 1
  Pane = {p1}
  Id = {i1, i2, i3}
  None = None
  MaxMoves = 2
  MaxLost = 1
  Agent = {g1, g2}
  MaxWrites = 2
  MaxDeaths = 1
CONSTRAINT MCOpened
CHECK_DEADLOCK FALSE
INVARIANTS
  NoFrameTwice
  FeedReachesMonitor
  LaunchersShare
  ControlKeepsApart
  RecordNamesWhatRan
  ToolsStay
