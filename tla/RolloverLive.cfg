SPECIFICATION FairSpec
CONSTANTS
  Worker = {w1,w2,w3}
  Job = {j1,j2}
  Asker = {a1,a2}
  Client = {c1}
  Connector = {k1}
  Requests = {{"workspace"}}
  FirstWorker = w1
  FirstConnector = k1
  NoWorker = NoWorker
  NoJob = NoJob
  Poller = Poller
  MaxCrashes = 2
CONSTRAINT MCLive
CHECK_DEADLOCK FALSE
INVARIANT KeptForRollback
PROPERTIES
  DeadWorkerIsReplaced
  AcceptedJobFinishes
  IdleReplacedWorkerGoes
