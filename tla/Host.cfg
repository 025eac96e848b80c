SPECIFICATION Spec
CONSTANTS
  None = None
  Failed = Failed
  Nobody = Nobody
  NoLine = NoLine
  Request = {c1, c2, c3}
  Title = {g}
  Args = {x}
  Paused = {h}
  Conversation = {k}
  MaxLaunches = 1
  MaxAsks = 1
  Relay = {r1}
  Brief = Brief
  Person = Person
  Attempts = 2
  MaxArm = 1
  Producer = {p1, p2}
  Viewer = {v1, v2}
  MaxPackets = 2
  Socket = {s1, s2}
  Caller = {c1, c2}
  Action = {w1}
  Frames = {{w1}, {}}
  NoDesk = NoDesk
  MaxMint = 2
  Desktop = {d1, d2}
  FirstShown = 0
  MaxMoves = 3
  MaxFails = 1
  MaxWorkers = 1
  Server = {v1, v2}
  Query = {t1, t2}
  Author = {a1}
  Desk = Desk
CONSTRAINT MCRouted
INVARIANTS
  PanesInOrder
  FeedIsTrue
  EnterFindsItsLine
  KeysAreTheOwners
  OneCallerOneDesktop
PROPERTIES
  CallsEnd
  StatusBarsCatchUp
CHECK_DEADLOCK FALSE
