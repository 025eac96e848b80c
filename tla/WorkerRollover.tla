--------------------------- MODULE WorkerRollover ---------------------------
(***************************************************************************)
(* The supervisor's layered update (red-supervisor: update.rs, runtime.rs, *)
(* jobs.rs, worker.rs).  One workspace worker is current; an update starts *)
(* a candidate, swaps it in, keeps the previous worker preserved until the *)
(* switch is final, and puts it back when a later layer fails.  Beside the *)
(* update threads run the request forwarders, the poller that restarts a   *)
(* worker that died, and the shutdown.                                     *)
(*                                                                         *)
(* Every lock of the code is one step here: what happens between two locks *)
(* can be interleaved.  The windows an update detaches and restarts are a  *)
(* choice of outcome in this module; their own state is another module's.  *)
(***************************************************************************)
EXTENDS Naturals, FiniteSets

CONSTANTS
  Worker,          \* worker generations: every process started is a fresh one
  Job,             \* update jobs, each with the thread that performs it
  Asker,           \* threads that answer an update request
  Client,          \* connections forwarded to a worker
  Connector,       \* connector binaries a build may leave
  Requests,        \* the sets of layers callers ask for
  FirstWorker, FirstConnector,   \* what the supervisor started with
  NoWorker, NoJob, \* "none"
  Poller,          \* the thread that looks at the current worker
  MaxCrashes       \* bound: workers that die on their own

Layer == {"workspace", "desktop", "connector"}

ASSUME RolloverConstants ==
  /\ Requests \subseteq (SUBSET Layer) \ {{}}
  /\ FirstWorker \in Worker /\ NoWorker \notin Worker
  /\ NoJob \notin Job /\ Poller \notin Job
  /\ FirstConnector \in Connector
  /\ MaxCrashes \in Nat

VARIABLES
  proc,        \* each worker's process: unborn, running or exited
  told,        \* what went down each worker's control pipe
  current, retiring, preserved,
  running,     \* the id Jobs.running holds
  asking,      \* the job an asker found room for and has not queued
  status, layers, persistenceError, finished,   \* the job records
  connectorGeneration, connector,
  disk,        \* runtime.json: the generation and the connector it names
  pc, seen, previous, candidate, rejected, before, outcome,  \* perform's locals
  looked,      \* the worker recover() read before it took the lock
  recovering, recoveryUsed, recovery, rescue,
  starts,      \* history: recoveries begun since a worker was last replaced
  entangled,   \* history: two replacements overlapped, or a recovery acted on a stale worker
  client, crashes, supervisor, lastDone

jobVars   == <<running, asking, status, layers, persistenceError, finished, lastDone>>
connVars  == <<connectorGeneration, connector, disk>>
localVars == <<seen, previous, candidate, rejected, before, outcome>>
listVars  == <<current, retiring, preserved>>
recVars   == <<recovering, recoveryUsed, recovery, rescue, starts, entangled>>
procVars  == <<proc, told>>
envVars   == <<client, crashes, supervisor>>
vars == <<procVars, listVars, jobVars, connVars, pc, localVars, looked, recVars, envVars>>

Status    == {"none", "preparing", "switching", "succeeded", "recovering", "failed"}
OrNone(S) == S \cup {NoWorker}

\* perform's steps, in the order the code takes them
Steps == {"none", "asked", "begin", "build", "detach", "preserve", "swap", "list",
          "publish", "window", "budget",
          "kill", "reject", "restore", "relist", "discard", "unpublish",
          "release", "tell", "drop", "report", "done", "look", "decide", "over"}

Init ==
  /\ proc = [w \in Worker |-> IF w = FirstWorker THEN "running" ELSE "unborn"]
  /\ told = [w \in Worker |-> {}]
  /\ current = FirstWorker /\ retiring = {} /\ preserved = {}
  /\ running = NoJob /\ asking = [a \in Asker |-> NoJob] /\ lastDone = NoJob
  /\ status = [j \in Job |-> "none"] /\ layers = [j \in Job |-> {}]
  /\ persistenceError = [j \in Job |-> FALSE] /\ finished = [j \in Job |-> FALSE]
  /\ connectorGeneration = 1 /\ connector = FirstConnector
  /\ disk = [generation |-> 1, connector |-> FirstConnector]
  /\ pc = [j \in Job |-> "none"] /\ seen = [j \in Job |-> {}]
  /\ previous = [j \in Job |-> NoWorker] /\ candidate = [j \in Job |-> NoWorker]
  /\ rejected = [j \in Job |-> NoWorker] /\ before = [j \in Job |-> 1]
  /\ outcome = [j \in Job |-> TRUE]
  /\ looked = [k \in Job \cup {Poller} |-> NoWorker]
  /\ recovering = FALSE /\ recoveryUsed = FALSE /\ recovery = "idle"
  /\ rescue = [at |-> "none", previous |-> NoWorker, next |-> NoWorker]
  /\ starts = 0 /\ entangled = FALSE
  /\ client = [c \in Client |-> [at |-> "idle", on |-> NoWorker]]
  /\ crashes = 0 /\ supervisor = "up"

-----------------------------------------------------------------------------
(* Child: the worker process and its control pipe *)

InUse(w) == \E c \in Client : client[c] = [at |-> "using", on |-> w]

\* tell(): a dropped pipe takes nothing more
Telling(w, message) ==
  IF "close" \in told[w] THEN told ELSE [told EXCEPT ![w] = @ \cup {message}]

\* mutant: retire() does not ask whether a switch may still want the worker
RetirePreserved(w) ==
  IF w \in retiring /\ ~InUse(w)
  THEN /\ retiring' = retiring \ {w}
       /\ told' = Telling(w, "close")
  ELSE UNCHANGED <<retiring, told>>

\* retire(): close a replaced worker once nothing uses it and no switch may want it
Retire(w) ==
  IF w \in retiring /\ ~InUse(w) /\ w \notin preserved
  THEN /\ retiring' = retiring \ {w}
       /\ told' = Telling(w, "close")
  ELSE UNCHANGED <<retiring, told>>

Serving == supervisor # "gone"
Closing == supervisor # "up"

-----------------------------------------------------------------------------
(* Jobs: what a caller asks for *)

\* history only: the jobs whose thread is between its start and its end
Updating == {j \in Job : pc[j] \notin {"none", "asked", "look", "decide", "over"}}

Busy == running # NoJob \/ recovering

\* update(): the root, the layers and the desktop are in order, and nothing is busy
Ask(a, j, chosen) ==
  /\ Serving /\ pc[j] = "none" /\ asking[a] = NoJob
  /\ ~Busy
  /\ asking' = [asking EXCEPT ![a] = j]
  /\ layers' = [layers EXCEPT ![j] = chosen]
  /\ pc' = [pc EXCEPT ![j] = "asked"]
  /\ UNCHANGED <<procVars, listVars, running, status, persistenceError, finished, lastDone,
                 connVars, localVars, looked, recVars, envVars>>

\* update(), after the lock was let go: queue the job and spawn perform
Queue(a) ==
  LET j == asking[a] IN
  /\ Serving /\ j # NoJob
  /\ running' = j
  /\ status' = [status EXCEPT ![j] = "preparing"]
  /\ asking' = [asking EXCEPT ![a] = NoJob]
  /\ pc' = [pc EXCEPT ![j] = "begin"]
  /\ entangled' = (entangled \/ recovering \/ Updating # {})
  /\ UNCHANGED <<procVars, listVars, layers, persistenceError, finished, lastDone, connVars,
                 localVars, looked, recovering, recoveryUsed, recovery, rescue, starts, envVars>>

-----------------------------------------------------------------------------
(* switching(): prepare *)

At(j, step)   == Serving /\ pc[j] = step
Goto(j, step) == pc' = [pc EXCEPT ![j] = step]
Fail(j)       == Goto(j, "kill") /\ outcome' = [outcome EXCEPT ![j] = FALSE]

RunningLayers == IF running = NoJob THEN {} ELSE layers[running]

\* read the running job's layers, note the generation, start and check a candidate
Begin(j) ==
  /\ At(j, "begin")
  /\ seen' = [seen EXCEPT ![j] = RunningLayers]
  /\ before' = [before EXCEPT ![j] = connectorGeneration]
  /\ \/ /\ "workspace" \notin RunningLayers
        /\ Goto(j, "build") /\ UNCHANGED <<proc, candidate, outcome>>
     \/ /\ "workspace" \in RunningLayers
        /\ \E w \in Worker :
             /\ proc[w] = "unborn"
             /\ proc' = [proc EXCEPT ![w] = "running"]
             /\ candidate' = [candidate EXCEPT ![j] = w]
        /\ Goto(j, "build") /\ UNCHANGED outcome
     \/ /\ "workspace" \in RunningLayers
        /\ Fail(j) /\ UNCHANGED <<proc, candidate>>
  /\ UNCHANGED <<told, listVars, jobVars, connVars, previous, rejected, looked, recVars, envVars>>

\* build the desktop, then build, adopt and probe the connector; then look at closing
Build(j) ==
  /\ At(j, "build")
  /\ \/ "desktop" \in seen[j] /\ Fail(j) /\ UNCHANGED connector
     \/ "connector" \in seen[j] /\ connector' \in Connector /\ Fail(j)
     \/ /\ IF "connector" \in seen[j] THEN connector' \in Connector ELSE UNCHANGED connector
        /\ IF Closing THEN Fail(j) ELSE Goto(j, "detach") /\ UNCHANGED outcome
  /\ UNCHANGED <<procVars, listVars, jobVars, connectorGeneration, disk, seen, previous,
                 candidate, rejected, before, looked, recVars, envVars>>

HasWindow(j) == "desktop" \in layers[j]

\* the chosen window saves and lets go, or says it will not
Detach(j) ==
  /\ At(j, "detach")
  /\ status' = IF running = NoJob THEN status ELSE [status EXCEPT ![running] = "switching"]
  /\ \/ HasWindow(j) /\ Fail(j)
     \/ /\ Goto(j, IF candidate[j] = NoWorker THEN "publish" ELSE "preserve")
        /\ UNCHANGED outcome
  /\ UNCHANGED <<procVars, listVars, running, asking, layers, persistenceError, finished, lastDone,
                 connVars, seen, previous, candidate, rejected, before, looked, recVars, envVars>>

(* switching(): commit *)

\* keep the worker that is current reachable until the switch is final
Preserve(j) ==
  /\ At(j, "preserve")
  /\ previous' = [previous EXCEPT ![j] = current]
  /\ preserved' = preserved \cup {current}
  /\ Goto(j, "swap")
  /\ UNCHANGED <<procVars, current, retiring, jobVars, connVars, seen, candidate, rejected,
                 before, outcome, looked, recVars, envVars>>

Swap(j) ==
  /\ At(j, "swap")
  /\ current' = candidate[j]
  /\ candidate' = [candidate EXCEPT ![j] = NoWorker]
  /\ Goto(j, "list")
  /\ UNCHANGED <<procVars, retiring, preserved, jobVars, connVars, seen, previous, rejected,
                 before, outcome, looked, recVars, envVars>>

List(j) ==
  /\ At(j, "list")
  /\ retiring' = retiring \cup {previous[j]}
  /\ Goto(j, "publish")
  /\ UNCHANGED <<procVars, current, preserved, jobVars, connVars, localVars, looked, recVars, envVars>>

\* persist(): the whole descriptor replaced, or nothing
Persisted(generation) == disk' = [generation |-> generation, connector |-> connector]

Publish(j) ==
  /\ At(j, "publish")
  /\ connectorGeneration' = connectorGeneration + (IF "connector" \in seen[j] THEN 1 ELSE 0)
  /\ \/ Persisted(connectorGeneration') /\ Goto(j, "window") /\ UNCHANGED outcome
     \/ Fail(j) /\ UNCHANGED disk
  /\ UNCHANGED <<procVars, listVars, jobVars, connector, seen, previous, candidate,
                 rejected, before, looked, recVars, envVars>>

\* the replacement window starts and registers, or it does not
Window(j) ==
  /\ At(j, "window")
  /\ \/ HasWindow(j) /\ Fail(j)
     \/ Goto(j, "budget") /\ UNCHANGED outcome
  /\ UNCHANGED <<procVars, listVars, jobVars, connVars, seen, previous, candidate, rejected,
                 before, looked, recVars, envVars>>

\* clear_recovery_budget(), when a worker was replaced
Budget(j) ==
  /\ At(j, "budget")
  /\ IF "workspace" \in seen[j]
     THEN recoveryUsed' = FALSE /\ recovery' = "idle" /\ starts' = 0
     ELSE UNCHANGED <<recoveryUsed, recovery, starts>>
  /\ Goto(j, "release")
  /\ UNCHANGED <<procVars, listVars, jobVars, connVars, localVars, looked, recovering, rescue,
                 entangled, envVars>>

-----------------------------------------------------------------------------
(* put_back(): undo whatever the failed switch managed to do *)

\* mutant: put_back() restores a worker although none was replaced
KillAndRestore(j) ==
  /\ At(j, "kill")
  /\ proc' = IF candidate[j] = NoWorker THEN proc ELSE [proc EXCEPT ![candidate[j]] = "exited"]
  /\ candidate' = [candidate EXCEPT ![j] = NoWorker]
  /\ Goto(j, "reject")
  /\ UNCHANGED <<told, listVars, jobVars, connVars, seen, previous, rejected, before, outcome,
                 looked, recVars, envVars>>

KillCandidate(j) ==
  /\ At(j, "kill")
  /\ proc' = IF candidate[j] = NoWorker THEN proc ELSE [proc EXCEPT ![candidate[j]] = "exited"]
  /\ candidate' = [candidate EXCEPT ![j] = NoWorker]
  /\ Goto(j, IF previous[j] = NoWorker THEN "unpublish" ELSE "reject")
  /\ UNCHANGED <<told, listVars, jobVars, connVars, seen, previous, rejected, before, outcome,
                 looked, recVars, envVars>>

Reject(j) ==
  /\ At(j, "reject")
  /\ rejected' = [rejected EXCEPT ![j] = current]
  /\ Goto(j, "restore")
  /\ UNCHANGED <<procVars, listVars, jobVars, connVars, seen, previous, candidate, before,
                 outcome, looked, recVars, envVars>>

\* mutant: the rejected worker stays current
RestoreNothing(j) ==
  /\ At(j, "restore")
  /\ Goto(j, "relist")
  /\ UNCHANGED <<procVars, listVars, jobVars, connVars, localVars, looked, recVars, envVars>>

Restore(j) ==
  /\ At(j, "restore")
  /\ current' = previous[j]
  /\ Goto(j, "relist")
  /\ UNCHANGED <<procVars, retiring, preserved, jobVars, connVars, localVars, looked, recVars, envVars>>

\* mutant: the rejected worker joins no list
RelistForgets(j) ==
  /\ At(j, "relist")
  /\ retiring' = retiring \ {previous[j]}
  /\ told' = Telling(rejected[j], "retired")
  /\ Goto(j, "discard")
  /\ UNCHANGED <<proc, current, preserved, jobVars, connVars, localVars, looked, recVars, envVars>>

\* the previous worker leaves the list, the rejected one joins it and is told
Relist(j) ==
  /\ At(j, "relist")
  /\ retiring' = (retiring \ {previous[j]}) \cup {rejected[j]}
  /\ told' = Telling(rejected[j], "retired")
  /\ Goto(j, "discard")
  /\ UNCHANGED <<proc, current, preserved, jobVars, connVars, localVars, looked, recVars, envVars>>

Discard(j) ==
  /\ At(j, "discard")
  /\ Retire(rejected[j])
  /\ Goto(j, "unpublish")
  /\ UNCHANGED <<proc, current, preserved, jobVars, connVars, localVars, looked, recVars, envVars>>

\* mutant: a descriptor that could not be rewritten is not reported
UnpublishSilently(j) ==
  /\ At(j, "unpublish")
  /\ connectorGeneration' = before[j]
  /\ Persisted(before[j]) \/ UNCHANGED disk
  /\ Goto(j, "release")
  /\ UNCHANGED <<procVars, listVars, jobVars, connector, localVars, looked, recVars, envVars>>

\* the generation goes back and the descriptor is rewritten, or the job says it was not
Unpublish(j) ==
  /\ At(j, "unpublish")
  /\ connectorGeneration' = before[j]
  /\ \/ Persisted(before[j]) /\ UNCHANGED persistenceError
     \/ /\ persistenceError' = IF running = NoJob THEN persistenceError
                               ELSE [persistenceError EXCEPT ![running] = TRUE]
        /\ UNCHANGED disk
  /\ Goto(j, "release")
  /\ UNCHANGED <<procVars, listVars, running, asking, status, layers, finished, lastDone,
                 connector, localVars, looked, recVars, envVars>>

-----------------------------------------------------------------------------
(* finish_retirement() and the end of perform() *)

Release(j) ==
  /\ At(j, "release")
  /\ preserved' = preserved \ {previous[j]}
  /\ Goto(j, IF previous[j] = NoWorker THEN "report" ELSE "tell")
  /\ UNCHANGED <<procVars, current, retiring, jobVars, connVars, localVars, looked, recVars, envVars>>

\* mutant: a previous worker that was put back is told it is retired
TellAlways(j) ==
  /\ At(j, "tell")
  /\ told' = Telling(previous[j], "retired")
  /\ Goto(j, "drop")
  /\ UNCHANGED <<proc, listVars, jobVars, connVars, localVars, looked, recVars, envVars>>

Tell(j) ==
  /\ At(j, "tell")
  /\ told' = IF previous[j] \in retiring THEN Telling(previous[j], "retired") ELSE told
  /\ Goto(j, "drop")
  /\ UNCHANGED <<proc, listVars, jobVars, connVars, localVars, looked, recVars, envVars>>

\* mutant: the update waits for the last request on the worker it replaced
DropWhenIdle(j) ==
  /\ At(j, "drop") /\ ~InUse(previous[j])
  /\ Retire(previous[j])
  /\ Goto(j, "report")
  /\ UNCHANGED <<proc, current, preserved, jobVars, connVars, localVars, looked, recVars, envVars>>

Drop(j) ==
  /\ At(j, "drop")
  /\ Retire(previous[j])
  /\ Goto(j, "report")
  /\ UNCHANGED <<proc, current, preserved, jobVars, connVars, localVars, looked, recVars, envVars>>

\* the outcome is written on whichever job is running
Report(j) ==
  /\ At(j, "report")
  /\ status' = IF running = NoJob THEN status
               ELSE [status EXCEPT ![running] = IF outcome[j] THEN "succeeded" ELSE "recovering"]
  /\ Goto(j, "done")
  /\ UNCHANGED <<procVars, listVars, running, asking, layers, persistenceError, finished, lastDone,
                 connVars, localVars, looked, recVars, envVars>>

\* Jobs.done(): a recovering job becomes failed, and nothing is running
Done(j) ==
  /\ At(j, "done")
  /\ IF running = NoJob THEN UNCHANGED <<status, finished, lastDone>>
     ELSE /\ status' = [status EXCEPT ![running] = IF @ = "recovering" THEN "failed" ELSE @]
          /\ finished' = [finished EXCEPT ![running] = TRUE]
          /\ lastDone' = running
  /\ running' = NoJob
  /\ Goto(j, "look")
  /\ UNCHANGED <<procVars, listVars, asking, layers, persistenceError, connVars, localVars,
                 looked, recVars, envVars>>

-----------------------------------------------------------------------------
(* recover(): called by the poller and at the end of every job *)

\* the current worker is read before the lock is taken
Look(k) ==
  /\ Serving /\ looked[k] = NoWorker
  /\ IF k = Poller THEN ~Closing /\ proc[current] = "exited" /\ UNCHANGED pc
                   ELSE pc[k] = "look" /\ Goto(k, "decide")
  /\ looked' = [looked EXCEPT ![k] = current]
  /\ UNCHANGED <<procVars, listVars, jobVars, connVars, localVars, recVars, envVars>>

\* mutant: a worker that dies on every start is restarted for ever
MayAlwaysRecover(w) == ~Closing /\ ~recovering /\ proc[w] = "exited"

MayRecover(w) == ~Closing /\ ~recovering /\ ~recoveryUsed /\ proc[w] = "exited"

\* mutant: asking spends the budget
DecideSpends(k) ==
  /\ Serving /\ looked[k] # NoWorker
  /\ recoveryUsed' = TRUE
  /\ IF MayRecover(looked[k])
     THEN /\ recovering' = TRUE /\ recovery' = "restarting"
          /\ rescue' = [at |-> "start", previous |-> looked[k], next |-> NoWorker]
          /\ starts' = starts + 1
          /\ entangled' = (entangled \/ Updating # {} \/ looked[k] # current)
     ELSE UNCHANGED <<recovering, recovery, rescue, starts, entangled>>
  /\ looked' = [looked EXCEPT ![k] = NoWorker]
  /\ IF k = Poller THEN UNCHANGED pc ELSE Goto(k, "over")
  /\ UNCHANGED <<procVars, listVars, jobVars, connVars, localVars, envVars>>

\* the whole decision under the recovery lock
Decide(k) ==
  /\ Serving /\ looked[k] # NoWorker
  /\ IF MayRecover(looked[k])
     THEN /\ recoveryUsed' = TRUE /\ recovering' = TRUE /\ recovery' = "restarting"
          /\ rescue' = [at |-> "start", previous |-> looked[k], next |-> NoWorker]
          /\ starts' = starts + 1
          /\ entangled' = (entangled \/ Updating # {} \/ looked[k] # current)
     ELSE UNCHANGED recVars
  /\ looked' = [looked EXCEPT ![k] = NoWorker]
  /\ IF k = Poller THEN UNCHANGED pc ELSE Goto(k, "over")
  /\ UNCHANGED <<procVars, listVars, jobVars, connVars, localVars, envVars>>

\* the recovery thread: a worker starts, or the recovery has failed
RescueStarts ==
  /\ Serving /\ rescue.at = "start"
  /\ \/ /\ \E w \in Worker :
             /\ proc[w] = "unborn"
             /\ proc' = [proc EXCEPT ![w] = "running"]
             /\ rescue' = [rescue EXCEPT !.at = "check", !.next = w]
        /\ UNCHANGED recovery
     \/ /\ recovery' = "failed"
        /\ rescue' = [rescue EXCEPT !.at = "end"]
        /\ UNCHANGED proc
  /\ UNCHANGED <<told, listVars, jobVars, connVars, pc, localVars, looked, recovering,
                 recoveryUsed, starts, entangled, envVars>>

\* the supervisor may be closing by now, and then the new worker is killed
RescueChecks ==
  /\ Serving /\ rescue.at = "check"
  /\ IF Closing
     THEN /\ proc' = [proc EXCEPT ![rescue.next] = "exited"]
          /\ rescue' = [rescue EXCEPT !.at = "end"]
     ELSE rescue' = [rescue EXCEPT !.at = "swap"] /\ UNCHANGED proc
  /\ UNCHANGED <<told, listVars, jobVars, connVars, pc, localVars, looked, recovering,
                 recoveryUsed, recovery, starts, entangled, envVars>>

RescueSwaps ==
  /\ Serving /\ rescue.at = "swap"
  /\ current' = rescue.next
  /\ rescue' = [rescue EXCEPT !.at = "list"]
  /\ UNCHANGED <<procVars, retiring, preserved, jobVars, connVars, pc, localVars, looked, recovering,
                 recoveryUsed, recovery, starts, entangled, envVars>>

RescueLists ==
  /\ Serving /\ rescue.at = "list"
  /\ retiring' = retiring \cup {rescue.previous}
  /\ rescue' = [rescue EXCEPT !.at = "retire"]
  /\ UNCHANGED <<procVars, current, preserved, jobVars, connVars, pc, localVars, looked,
                 recovering, recoveryUsed, recovery, starts, entangled, envVars>>

RescueRetires ==
  /\ Serving /\ rescue.at = "retire"
  /\ Retire(rescue.previous)
  /\ recovery' = "recovered"
  /\ rescue' = [rescue EXCEPT !.at = "end"]
  /\ UNCHANGED <<proc, current, preserved, jobVars, connVars, pc, localVars, looked,
                 recovering, recoveryUsed, starts, entangled, envVars>>

RescueEnds ==
  /\ Serving /\ rescue.at = "end"
  /\ recovering' = FALSE
  /\ rescue' = [at |-> "none", previous |-> NoWorker, next |-> NoWorker]
  /\ UNCHANGED <<procVars, listVars, jobVars, connVars, pc, localVars, looked,
                 recoveryUsed, recovery, starts, entangled, envVars>>

Rescue == RescueStarts \/ RescueChecks \/ RescueSwaps \/ RescueLists \/ RescueRetires \/ RescueEnds

-----------------------------------------------------------------------------
(* connection(): a request or a stream, forwarded to the current worker *)

ClientAt(c, step, next, w) ==
  /\ Serving /\ client[c].at = step
  /\ client' = [client EXCEPT ![c] = [at |-> next, on |-> w]]
  /\ UNCHANGED <<proc, current, preserved, jobVars, connVars, pc, localVars, looked, recVars,
                 crashes, supervisor>>

\* worker(), and then the count: two steps
Choose(c) == ClientAt(c, "idle", "chosen", current) /\ UNCHANGED <<told, retiring>>
Count(c)  == ClientAt(c, "chosen", "using", client[c].on) /\ UNCHANGED <<told, retiring>>
\* the count goes down, and then the worker may retire
Finish(c) == ClientAt(c, "using", "leaving", client[c].on) /\ UNCHANGED <<told, retiring>>
\* mutant: nobody looks at a replaced worker when its last request ends
LeaveOnly(c) == ClientAt(c, "leaving", "idle", NoWorker) /\ UNCHANGED <<told, retiring>>
Leave(c)  == ClientAt(c, "leaving", "idle", NoWorker) /\ Retire(client[c].on)

-----------------------------------------------------------------------------
(* Worker processes, and the supervisor's own end *)

WorkerChanges(w) ==
  /\ proc[w] = "running"
  /\ proc' = [proc EXCEPT ![w] = "exited"]
  /\ UNCHANGED <<told, listVars, jobVars, connVars, pc, localVars, looked, recVars, client, supervisor>>

Crash(w) == WorkerChanges(w) /\ crashes < MaxCrashes /\ crashes' = crashes + 1

\* a worker told to close, or whose supervisor went away, drains and exits
Exit(w) == WorkerChanges(w) /\ ("close" \in told[w] \/ supervisor = "gone") /\ UNCHANGED crashes

ShutdownStep(from, to) ==
  /\ supervisor = from /\ supervisor' = to
  /\ UNCHANGED <<listVars, jobVars, connVars, pc, localVars, looked, recVars, client, crashes>>

Close == ShutdownStep("up", "closing") /\ UNCHANGED procVars

\* close() and kill() for every worker this supervisor has
Sweep ==
  LET all == {current} \cup retiring IN
  /\ ShutdownStep("closing", "swept")
  /\ told' = [w \in Worker |-> IF w \in all THEN told[w] \cup {"close"} ELSE told[w]]
  /\ proc' = [w \in Worker |-> IF w \in all THEN "exited" ELSE proc[w]]

Gone == ShutdownStep("swept", "gone") /\ UNCHANGED procVars

-----------------------------------------------------------------------------
Perform(j) ==
  \/ Begin(j) \/ Build(j) \/ Detach(j) \/ Preserve(j) \/ Swap(j) \/ List(j)
  \/ Publish(j) \/ Window(j) \/ Budget(j)
  \/ KillCandidate(j) \/ Reject(j) \/ Restore(j) \/ Relist(j) \/ Discard(j) \/ Unpublish(j)
  \/ Release(j) \/ Tell(j) \/ Drop(j) \/ Report(j) \/ Done(j)

Forward(c) == Choose(c) \/ Count(c) \/ Finish(c) \/ Leave(c)

Next ==
  \/ \E a \in Asker : Queue(a)
  \/ \E a \in Asker, j \in Job, chosen \in Requests : Ask(a, j, chosen)
  \/ \E j \in Job : Perform(j)
  \/ \E k \in Job \cup {Poller} : Look(k) \/ Decide(k)
  \/ Rescue
  \/ \E c \in Client : Forward(c)
  \/ \E w \in Worker : Crash(w) \/ Exit(w)
  \/ Close \/ Sweep \/ Gone

Spec == Init /\ [][Next]_vars

(* Threads keep running, a told worker exits, and a request that was       *)
(* counted down goes on to retire().  Nobody has to ask for an update,     *)
(* finish a stream, crash a worker or stop the supervisor.                 *)
Fairness ==
  /\ \A a \in Asker : WF_vars(Queue(a))
  /\ \A j \in Job : WF_vars(Perform(j))
  /\ \A k \in Job \cup {Poller} : WF_vars(Look(k) \/ Decide(k))
  /\ WF_vars(Rescue)
  /\ \A c \in Client : WF_vars(Leave(c))
  /\ \A w \in Worker : WF_vars(Exit(w))
  /\ WF_vars(Sweep) /\ WF_vars(Gone)

FairSpec == Spec /\ Fairness

-----------------------------------------------------------------------------
TypeOK ==
  /\ proc \in [Worker -> {"unborn", "running", "exited"}]
  /\ told \in [Worker -> SUBSET {"retired", "close"}]
  /\ current \in Worker
  /\ retiring \subseteq Worker /\ preserved \subseteq Worker
  /\ running \in Job \cup {NoJob} /\ lastDone \in Job \cup {NoJob}
  /\ asking \in [Asker -> Job \cup {NoJob}]
  /\ status \in [Job -> Status] /\ layers \in [Job -> SUBSET Layer]
  /\ persistenceError \in [Job -> BOOLEAN] /\ finished \in [Job -> BOOLEAN]
  /\ connectorGeneration \in Nat /\ connector \in Connector
  /\ disk \in [generation : Nat, connector : Connector]
  /\ pc \in [Job -> Steps] /\ seen \in [Job -> SUBSET Layer]
  /\ previous \in [Job -> OrNone(Worker)] /\ candidate \in [Job -> OrNone(Worker)]
  /\ rejected \in [Job -> OrNone(Worker)] /\ before \in [Job -> Nat]
  /\ outcome \in [Job -> BOOLEAN]
  /\ looked \in [Job \cup {Poller} -> OrNone(Worker)]
  /\ recovering \in BOOLEAN /\ recoveryUsed \in BOOLEAN
  /\ recovery \in {"idle", "restarting", "recovered", "failed"}
  /\ rescue \in [at : {"none", "start", "check", "swap", "list", "retire", "end"},
                 previous : OrNone(Worker), next : OrNone(Worker)]
  /\ starts \in Nat /\ entangled \in BOOLEAN
  /\ client \in [Client -> [at : {"idle", "chosen", "using", "leaving"}, on : OrNone(Worker)]]
  /\ crashes \in 0..MaxCrashes
  /\ supervisor \in {"up", "closing", "swept", "gone"}

-----------------------------------------------------------------------------
(* Safety.  Orderly: so far one update or recovery replaced the worker at  *)
(* a time, on what was current.  The code refuses a second update while    *)
(* one runs, but asks before it queues and recovers without looking at the *)
(* jobs, so this is a condition of the promises and not an invariant.      *)

Orderly == ~entangled
Swept == supervisor \in {"swept", "gone"}

\* Between the preserve and the release a previous worker has been told
\* nothing, so the rollback finds it serving (update.rs order 3).
Holding(j) == previous[j] # NoWorker /\ pc[j] \in
  {"swap", "list", "publish", "window", "budget", "kill", "reject", "restore",
   "relist", "discard", "unpublish", "release"}
KeptForRollback ==
  Orderly /\ ~Swept => \A j \in Job : Holding(j) => told[previous[j]] = {}

\* The worker requests are sent to was never told it is retired nor told to
\* close: it would forward to itself (update.rs order 3).
CurrentNeverDismissed == Orderly /\ ~Swept => told[current] = {}

\* An update that failed after the swap leaves the worker it began with
\* current, whatever step failed (update.rs put_back).
FailedUpdateKeepsWorker ==
  Orderly => \A j \in Job :
    pc[j] \in {"report", "done"} /\ ~outcome[j] /\ previous[j] # NoWorker => current = previous[j]

\* Between two successful worker updates at most one automatic restart begins,
\* whoever notices the dead worker and however late (Supervisor.recovery_used).
RecoveryBudget == starts <= 1

\* Between jobs runtime.json says what the supervisor holds, unless the last
\* job reported that it could not be written (Job.persistence_error).
DescriptorAgrees ==
  Orderly /\ running = NoJob /\ lastDone # NoJob /\ ~persistenceError[lastDone]
    => disk = [generation |-> connectorGeneration, connector |-> connector]

\* Every running worker is one the supervisor can still find and close: the
\* current one, one draining, one told to close, or one a thread has in hand
\* (all_workers, which the shutdown closes).
HeldBy(w, j) ==
  \/ candidate[j] = w
  \/ previous[j] = w /\ pc[j] = "list"
  \/ rejected[j] = w /\ pc[j] \in {"restore", "relist"}
InHand(w) == (\E j \in Job : HeldBy(w, j)) \/ (rescue.next = w /\ rescue.at \in {"check", "swap"})
Found(w) == w = current \/ w \in retiring \/ "close" \in told[w] \/ InHand(w)
WorkersAccountedFor ==
  Orderly /\ Serving => \A w \in Worker : proc[w] = "running" => Found(w)

-----------------------------------------------------------------------------
(* Liveness, under FairSpec *)

\* Two updates at once: busy is asked under one lock and the job queued under another
\* (runtime.rs:573, 577).  One of them then ends the other's job, or nobody's.
Overlapping == \E i, j \in Updating : i # j

\* A job a caller was told is accepted finishes (jobs.rs: the status has the
\* outcome), unless another overlaps it or the supervisor goes first; and
\* whatever overlaps, the supervisor does not stay busy, which would refuse
\* every later update.
AcceptedJobFinishes ==
  /\ \A j \in Job : running = j ~> finished[j] \/ Overlapping \/ supervisor = "gone"
  /\ running # NoJob ~> running = NoJob \/ supervisor = "gone"

\* A replaced worker nothing uses does not stay: whichever of the update, the
\* recovery and the last request is late, somebody retires it.
IdleReplacedWorkerGoes ==
  \A w \in Worker :
    w \in retiring /\ ~InUse(w) ~> w \notin retiring \/ InUse(w) \/ supervisor = "gone"

\* The first worker to die since the last one was replaced by an update is
\* itself replaced, by the one recovery or by an update, or the recovery says
\* that it failed.  A second one is left as it is (Supervisor.recovery_used).
DeadWorkerIsReplaced ==
  \A w \in Worker :
    current = w /\ proc[w] = "exited" /\ starts = 0 ~>
       current # w \/ recovery = "failed" \/ Closing \/ ~Orderly

-----------------------------------------------------------------------------
(* What the source says of itself and the code does not keep *)

\* runtime.rs: close() stops every worker this supervisor has, so each one
\* that still runs can be found, whatever overlapped.
EveryWorkerFound == Serving => \A w \in Worker : proc[w] = "running" => Found(w)

=============================================================================
