SPECIFICATION Spec
CONSTANTS
  Worker = {w1,w2,w3}
  Job = {j1,j2}
  Asker = {a1}
  Client = {}
  Connector = {k1}
  Requests = {{"workspace"}}
  FirstWorker = w1
  FirstConnector = k1
  NoWorker = NoWorker
  NoJob = NoJob
  Poller = Poller
  MaxCrashes = 1
CHECK_DEADLOCK FALSE
SYMMETRY MCSymmetry
CONSTRAINT MCFollowed
PROPERTY ImplementsRoles
INVARIANTS
  FailedUpdateKeepsWorker
  WorkersAccountedFor
