SPECIFICATION AnySpec
CONSTANTS
  Agent = {a1, a2}
  Pid = {p1, p2}
  NoAgent = NoAgent
  NoPid = NoPid
  Unseen = Unseen
  Windows = {1}
  MaxTime = 2
  MaxContests = 1
  MaxLostWrites = 0
  Pane = {g1, g2, d1}
  Device = {d1}
  Worker = {w1, w2}
  First = w1
  None = None
  MaxTicks = 1
  MaxResizes = 1
  MaxDrops = 1
  SignIn = {s1, s2}
  SignOut = {o1}
  Reader = {r1}
  Ports = 2
  Process = {q1, q2}
  Question = {k1, k2, k3}
  Refreshing = {k2}
  Listing = {k2, k3}
  Never = Never
  MaxClock = 2
  MaxChange = 1
  Doc = {f1}
  MaxStarts = 2
  GiveUp = 1
  Ide = {i1, i2, i3}
  Alone = i3
  MaxKills = 1
CONSTRAINTS MCFollowed MCResumed
INVARIANTS
  ContestHasOtherHolder
  OnePairEach
  SignedOutUnlessRaced
  AnswersAreFresh
  EditorsAreServed
PROPERTY PortsComeBack
CHECK_DEADLOCK FALSE
