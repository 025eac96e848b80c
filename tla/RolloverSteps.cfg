SPECIFICATION Spec
CONSTANTS
  Worker = {w1,w2}
  Job = {j1,j2}
  Asker = {a1}
  Client = {}
  Connector = {k1,k2}
  Requests = {{"connector"}, {"workspace","desktop","connector"}}
  FirstWorker = w1
  FirstConnector = k1
  NoWorker = NoWorker
  NoJob = NoJob
  Poller = Poller
  MaxCrashes = 2
SYMMETRY MCSymmetry
CHECK_DEADLOCK FALSE
INVARIANTS
  DescriptorAgrees
  TypeOK
  RecoveryBudget
