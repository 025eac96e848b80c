SPECIFICATION FairSpec
CONSTANTS
  Agent = {a1,a2}
  Pid = {}
  NoAgent = NoAgent
  NoPid = NoPid
  Unseen = Unseen
  Windows = {1,2}
  MaxTime = 3
  MaxContests = 2
  MaxLostWrites = 1
CHECK_DEADLOCK FALSE
PROPERTY OpenContestResolves
INVARIANT AnsweredStaysAnswered
INVARIANT NoContestDuringCooldown
PROPERTY NoticeBeforeLoss
