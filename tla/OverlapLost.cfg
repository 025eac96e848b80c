SPECIFICATION Spec
CONSTANTS
  Worker = {w1,w2,w3}
  Job = {j1}
  Asker = {a1}
  Client = {}
  Connector = {k1}
  Requests = {{"workspace"}}
  FirstWorker = w1
  FirstConnector = k1
  NoWorker = NoWorker
  NoJob = NoJob
  Poller = Poller
  MaxCrashes = 1
CHECK_DEADLOCK FALSE
INVARIANT EveryWorkerFound
