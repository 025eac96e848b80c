------------------------ MODULE WorkerRolloverProofs ------------------------
(***************************************************************************)
(* Proofs about WorkerRollover, for every number of workers, jobs, askers, *)
(* clients, connectors and crashes: its types and its recovery budget,     *)
(* then what it promises while replacements come one at a time.            *)
(***************************************************************************)
EXTENDS WorkerRolloverRefinement, TLAPS

\* What the types rest on: a local that a step reads was set by an earlier one.
LocalsSet ==
  /\ \A j \in Job :
       /\ pc[j] \in {"preserve", "swap"} => candidate[j] \in Worker
       /\ pc[j] \in {"swap", "list", "reject", "restore", "relist", "discard", "tell", "drop"}
            => previous[j] \in Worker
       /\ pc[j] \in {"restore", "relist", "discard"} => rejected[j] \in Worker
  /\ rescue.at # "none" => rescue.previous \in Worker
  /\ rescue.at \in {"check", "swap", "list", "retire"} => rescue.next \in Worker

Typed == TypeOK /\ LocalsSet

LEMMA RetireTyped ==
  ASSUME Typed, NEW w, Retire(w)
  PROVE  /\ retiring' \in SUBSET Worker
         /\ told' \in [Worker -> SUBSET {"retired", "close"}]
  BY DEF Typed, TypeOK, Retire, Telling

LEMMA InitTyped == Init => Typed
<1> SUFFICES ASSUME Init PROVE Typed
  OBVIOUS
<1>1. client \in [Client -> [at : {"idle", "chosen", "using", "leaving"}, on : OrNone(Worker)]]
  BY DEF Init, OrNone
<1>2. rescue \in [at : {"none", "start", "check", "swap", "list", "retire", "end"},
                 previous : OrNone(Worker), next : OrNone(Worker)]
  BY DEF Init, OrNone
<1>3. disk \in [generation : Nat, connector : Connector]
  BY RolloverConstants DEF Init
<1>4. /\ proc \in [Worker -> {"unborn", "running", "exited"}]
      /\ told \in [Worker -> SUBSET {"retired", "close"}]
      /\ looked \in [Job \cup {Poller} -> OrNone(Worker)]
  BY DEF Init, OrNone
<1>5. /\ status \in [Job -> Status] /\ layers \in [Job -> SUBSET Layer]
      /\ persistenceError \in [Job -> BOOLEAN] /\ finished \in [Job -> BOOLEAN]
      /\ pc \in [Job -> Steps] /\ seen \in [Job -> SUBSET Layer]
  BY DEF Init, Status, Steps
<1>6. /\ previous \in [Job -> OrNone(Worker)] /\ candidate \in [Job -> OrNone(Worker)]
      /\ rejected \in [Job -> OrNone(Worker)] /\ before \in [Job -> Nat]
      /\ outcome \in [Job -> BOOLEAN]
  BY DEF Init, OrNone
<1>7. crashes \in 0..MaxCrashes
  BY RolloverConstants DEF Init
<1>8. TypeOK
  BY <1>1, <1>2, <1>3, <1>4, <1>5, <1>6, <1>7, RolloverConstants DEF Init, TypeOK
<1>9. LocalsSet
  BY DEF Init, LocalsSet
<1>. QED
  BY <1>8, <1>9 DEF Typed

LEMMA AskTyped ==
  ASSUME Typed, NEW a \in Asker, NEW j \in Job, NEW chosen \in Requests, Ask(a, j, chosen)
  PROVE  Typed'
  BY RolloverConstants DEF Typed, TypeOK, LocalsSet, Ask, OrNone, Status, Steps, Layer,
     procVars, listVars, connVars, localVars, recVars, envVars

LEMMA QueueTyped ==
  ASSUME Typed, NEW a \in Asker, Queue(a)
  PROVE  Typed'
  BY RolloverConstants DEF Typed, TypeOK, LocalsSet, Queue, OrNone, Status, Steps,
     procVars, listVars, connVars, localVars, recVars, envVars

LEMMA BeginTyped ==
  ASSUME Typed, NEW j \in Job, Begin(j)
  PROVE  Typed'
<1>1. RunningLayers \in SUBSET Layer
  BY DEF Typed, TypeOK, RunningLayers
<1>2. proc' \in [Worker -> {"unborn", "running", "exited"}]
  BY DEF Typed, TypeOK, Begin
<1>3. candidate' \in [Job -> OrNone(Worker)]
  BY DEF Typed, TypeOK, Begin, OrNone
<1>4. outcome' \in [Job -> BOOLEAN]
  BY DEF Typed, TypeOK, Begin, Fail
<1>5. pc' \in [Job -> Steps] /\ \E next \in {"build", "kill"} : pc' = [pc EXCEPT ![j] = next]
  BY DEF Typed, TypeOK, Begin, Goto, Fail, Steps
<1>6. TypeOK'
  BY <1>1, <1>2, <1>3, <1>4, <1>5 DEF Typed, TypeOK, Begin,
     listVars, jobVars, connVars, recVars, envVars
<1>7. LocalsSet'
  BY <1>5 DEF Typed, TypeOK, LocalsSet, Begin, At, recVars
<1>. QED
  BY <1>6, <1>7 DEF Typed

LEMMA BuildTyped ==
  ASSUME Typed, NEW j \in Job, Build(j)
  PROVE  Typed'
<1>1. connector' \in Connector
  BY RolloverConstants DEF Typed, TypeOK, LocalsSet, Build
<1>2. outcome' \in [Job -> BOOLEAN]
  BY RolloverConstants DEF Typed, TypeOK, LocalsSet, Build, Fail
<1>3. pc' \in [Job -> Steps] /\ \E next \in {"kill", "detach"} : pc' = [pc EXCEPT ![j] = next]
  BY RolloverConstants DEF Typed, TypeOK, LocalsSet, Build, Goto, Fail, Steps
<1>4. TypeOK'
  BY <1>1, <1>2, <1>3 DEF Typed, TypeOK, Build, procVars, listVars, jobVars, connVars, recVars, envVars
<1>5. LocalsSet'
  BY <1>1, <1>2, <1>3 DEF Typed, TypeOK, LocalsSet, Build, At, procVars, listVars, jobVars, connVars, recVars, envVars
<1>. QED
  BY <1>4, <1>5 DEF Typed

LEMMA DetachTyped ==
  ASSUME Typed, NEW j \in Job, Detach(j)
  PROVE  Typed'
<1>1. status' \in [Job -> Status]
  BY RolloverConstants DEF Typed, TypeOK, LocalsSet, Detach, Status, HasWindow
<1>2. outcome' \in [Job -> BOOLEAN]
  BY RolloverConstants DEF Typed, TypeOK, LocalsSet, Detach, Fail
<1>3. /\ pc' \in [Job -> Steps]
      /\ \E next \in {"kill", "publish", "preserve"} :
           pc' = [pc EXCEPT ![j] = next] /\ (next = "preserve" => candidate[j] # NoWorker)
  BY RolloverConstants DEF Typed, TypeOK, LocalsSet, Detach, Goto, Fail, Steps
<1>4. TypeOK'
  BY <1>1, <1>2, <1>3 DEF Typed, TypeOK, Detach, procVars, listVars, jobVars, connVars, recVars, envVars
<1>5. LocalsSet'
  BY <1>3 DEF Typed, TypeOK, LocalsSet, Detach, At, OrNone, recVars
<1>. QED
  BY <1>4, <1>5 DEF Typed

LEMMA PreserveTyped ==
  ASSUME Typed, NEW j \in Job, Preserve(j)
  PROVE  Typed'
  BY RolloverConstants DEF Typed, TypeOK, LocalsSet, Preserve, At, Goto, Steps, OrNone, procVars, listVars, jobVars, connVars, localVars, recVars, envVars

LEMMA SwapTyped ==
  ASSUME Typed, NEW j \in Job, Swap(j)
  PROVE  Typed'
  BY RolloverConstants DEF Typed, TypeOK, LocalsSet, Swap, At, Goto, Steps, OrNone, procVars, listVars, jobVars, connVars, localVars, recVars, envVars

LEMMA ListTyped ==
  ASSUME Typed, NEW j \in Job, List(j)
  PROVE  Typed'
  BY RolloverConstants DEF Typed, TypeOK, LocalsSet, List, At, Goto, Steps, procVars, listVars, jobVars, connVars, localVars, recVars, envVars

LEMMA PublishTyped ==
  ASSUME Typed, NEW j \in Job, Publish(j)
  PROVE  Typed'
<1>1. connectorGeneration' \in Nat
  BY RolloverConstants DEF Typed, TypeOK, LocalsSet, Publish
<1>2. disk' \in [generation : Nat, connector : Connector]
  BY RolloverConstants DEF Typed, TypeOK, LocalsSet, Publish, Persisted
<1>3. outcome' \in [Job -> BOOLEAN]
  BY RolloverConstants DEF Typed, TypeOK, LocalsSet, Publish, Fail
<1>4. pc' \in [Job -> Steps] /\ \E next \in {"kill", "window"} : pc' = [pc EXCEPT ![j] = next]
  BY RolloverConstants DEF Typed, TypeOK, LocalsSet, Publish, Goto, Fail, Steps
<1>5. TypeOK'
  BY <1>1, <1>2, <1>3, <1>4 DEF Typed, TypeOK, Publish, procVars, listVars, jobVars, connVars, recVars, envVars
<1>6. LocalsSet'
  BY <1>1, <1>2, <1>3, <1>4 DEF Typed, TypeOK, LocalsSet, Publish, At, procVars, listVars, jobVars, connVars, recVars, envVars
<1>. QED
  BY <1>5, <1>6 DEF Typed

LEMMA WindowTyped ==
  ASSUME Typed, NEW j \in Job, Window(j)
  PROVE  Typed'
<1>1. outcome' \in [Job -> BOOLEAN]
  BY RolloverConstants DEF Typed, TypeOK, LocalsSet, Window, Fail
<1>2. pc' \in [Job -> Steps] /\ \E next \in {"kill", "budget"} : pc' = [pc EXCEPT ![j] = next]
  BY RolloverConstants DEF Typed, TypeOK, LocalsSet, Window, Goto, Fail, Steps
<1>3. TypeOK'
  BY <1>1, <1>2 DEF Typed, TypeOK, Window, procVars, listVars, jobVars, connVars, recVars, envVars
<1>4. LocalsSet'
  BY <1>1, <1>2 DEF Typed, TypeOK, LocalsSet, Window, At, procVars, listVars, jobVars, connVars, recVars, envVars
<1>. QED
  BY <1>3, <1>4 DEF Typed

LEMMA BudgetTyped ==
  ASSUME Typed, NEW j \in Job, Budget(j)
  PROVE  Typed'
<1>1. recoveryUsed' \in BOOLEAN
  BY RolloverConstants DEF Typed, TypeOK, LocalsSet, Budget
<1>2. recovery' \in {"idle", "restarting", "recovered", "failed"}
  BY RolloverConstants DEF Typed, TypeOK, LocalsSet, Budget, recVars
<1>3. starts' \in Nat
  BY RolloverConstants DEF Typed, TypeOK, LocalsSet, Budget, recVars
<1>4. pc' \in [Job -> Steps] /\ \E next \in {"release"} : pc' = [pc EXCEPT ![j] = next]
  BY RolloverConstants DEF Typed, TypeOK, LocalsSet, Budget, Goto, Fail, Steps
<1>5. TypeOK'
  BY <1>1, <1>2, <1>3, <1>4 DEF Typed, TypeOK, Budget, procVars, listVars, jobVars, connVars, localVars, recVars, envVars
<1>6. LocalsSet'
  BY <1>1, <1>2, <1>3, <1>4 DEF Typed, TypeOK, LocalsSet, Budget, At, procVars, listVars, jobVars, connVars, localVars, recVars, envVars
<1>. QED
  BY <1>5, <1>6 DEF Typed

LEMMA KillCandidateTyped ==
  ASSUME Typed, NEW j \in Job, KillCandidate(j)
  PROVE  Typed'
  BY RolloverConstants DEF Typed, TypeOK, LocalsSet, KillCandidate, At, Goto, Steps, OrNone, procVars, listVars, jobVars, connVars, localVars, recVars, envVars

LEMMA RejectTyped ==
  ASSUME Typed, NEW j \in Job, Reject(j)
  PROVE  Typed'
  BY RolloverConstants DEF Typed, TypeOK, LocalsSet, Reject, At, Goto, Steps, OrNone, procVars, listVars, jobVars, connVars, localVars, recVars, envVars

LEMMA RestoreTyped ==
  ASSUME Typed, NEW j \in Job, Restore(j)
  PROVE  Typed'
  BY RolloverConstants DEF Typed, TypeOK, LocalsSet, Restore, At, Goto, Steps, OrNone, procVars, listVars, jobVars, connVars, localVars, recVars, envVars

LEMMA RelistTyped ==
  ASSUME Typed, NEW j \in Job, Relist(j)
  PROVE  Typed'
  BY RolloverConstants DEF Typed, TypeOK, LocalsSet, Relist, At, Goto, Steps, Telling, OrNone, procVars, listVars, jobVars, connVars, localVars, recVars, envVars

LEMMA DiscardTyped ==
  ASSUME Typed, NEW j \in Job, Discard(j)
  PROVE  Typed'
  BY RolloverConstants DEF Typed, TypeOK, LocalsSet, Discard, At, Goto, Steps, Retire, Telling, OrNone, procVars, listVars, jobVars, connVars, localVars, recVars, envVars

LEMMA UnpublishTyped ==
  ASSUME Typed, NEW j \in Job, Unpublish(j)
  PROVE  Typed'
<1>1. connectorGeneration' \in Nat
  BY RolloverConstants DEF Typed, TypeOK, LocalsSet, Unpublish
<1>2. disk' \in [generation : Nat, connector : Connector]
  BY RolloverConstants DEF Typed, TypeOK, LocalsSet, Unpublish, Persisted
<1>3. persistenceError' \in [Job -> BOOLEAN]
  BY RolloverConstants DEF Typed, TypeOK, LocalsSet, Unpublish
<1>4. pc' \in [Job -> Steps] /\ \E next \in {"release"} : pc' = [pc EXCEPT ![j] = next]
  BY RolloverConstants DEF Typed, TypeOK, LocalsSet, Unpublish, Goto, Fail, Steps
<1>5. TypeOK'
  BY <1>1, <1>2, <1>3, <1>4 DEF Typed, TypeOK, Unpublish, procVars, listVars, jobVars, connVars, localVars, recVars, envVars
<1>6. LocalsSet'
  BY <1>1, <1>2, <1>3, <1>4 DEF Typed, TypeOK, LocalsSet, Unpublish, At, procVars, listVars, jobVars, connVars, localVars, recVars, envVars
<1>. QED
  BY <1>5, <1>6 DEF Typed

LEMMA ReleaseTyped ==
  ASSUME Typed, NEW j \in Job, Release(j)
  PROVE  Typed'
  BY RolloverConstants DEF Typed, TypeOK, LocalsSet, Release, At, Goto, Steps, OrNone, procVars, listVars, jobVars, connVars, localVars, recVars, envVars

LEMMA TellTyped ==
  ASSUME Typed, NEW j \in Job, Tell(j)
  PROVE  Typed'
  BY RolloverConstants DEF Typed, TypeOK, LocalsSet, Tell, At, Goto, Steps, Telling, OrNone, procVars, listVars, jobVars, connVars, localVars, recVars, envVars

LEMMA DropTyped ==
  ASSUME Typed, NEW j \in Job, Drop(j)
  PROVE  Typed'
<1>1. retiring' \in SUBSET Worker
  BY RolloverConstants DEF Typed, TypeOK, LocalsSet, Drop, Retire, ClientAt
<1>2. told' \in [Worker -> SUBSET {"retired", "close"}]
  BY RolloverConstants DEF Typed, TypeOK, LocalsSet, Drop, Retire, Telling, ClientAt
<1>3. pc' \in [Job -> Steps] /\ \E next \in {"report"} : pc' = [pc EXCEPT ![j] = next]
  BY RolloverConstants DEF Typed, TypeOK, LocalsSet, Drop, Goto, Fail, Steps
<1>4. TypeOK'
  BY <1>1, <1>2, <1>3 DEF Typed, TypeOK, Drop, procVars, listVars, jobVars, connVars, localVars, recVars, envVars
<1>5. LocalsSet'
  BY <1>1, <1>2, <1>3 DEF Typed, TypeOK, LocalsSet, Drop, At, procVars, listVars, jobVars, connVars, localVars, recVars, envVars
<1>. QED
  BY <1>4, <1>5 DEF Typed

LEMMA ReportTyped ==
  ASSUME Typed, NEW j \in Job, Report(j)
  PROVE  Typed'
  BY RolloverConstants DEF Typed, TypeOK, LocalsSet, Report, At, Goto, Steps, Status, procVars, listVars, jobVars, connVars, localVars, recVars, envVars

LEMMA DoneTyped ==
  ASSUME Typed, NEW j \in Job, Done(j)
  PROVE  Typed'
<1>1. status' \in [Job -> Status]
  BY RolloverConstants DEF Typed, TypeOK, LocalsSet, Done, Status, HasWindow
<1>2. finished' \in [Job -> BOOLEAN]
  BY RolloverConstants DEF Typed, TypeOK, LocalsSet, Done
<1>3. lastDone' \in Job \cup {NoJob}
  BY RolloverConstants DEF Typed, TypeOK, LocalsSet, Done
<1>4. pc' \in [Job -> Steps] /\ \E next \in {"look"} : pc' = [pc EXCEPT ![j] = next]
  BY RolloverConstants DEF Typed, TypeOK, LocalsSet, Done, Goto, Fail, Steps
<1>5. TypeOK'
  BY <1>1, <1>2, <1>3, <1>4 DEF Typed, TypeOK, Done, procVars, listVars, jobVars, connVars, localVars, recVars, envVars
<1>6. LocalsSet'
  BY <1>1, <1>2, <1>3, <1>4 DEF Typed, TypeOK, LocalsSet, Done, At, procVars, listVars, jobVars, connVars, localVars, recVars, envVars
<1>. QED
  BY <1>5, <1>6 DEF Typed

LEMMA LookTyped ==
  ASSUME Typed, NEW k \in Job \cup {Poller}, Look(k)
  PROVE  Typed'
  BY RolloverConstants DEF Typed, TypeOK, LocalsSet, Look, Goto, Steps, OrNone, MayRecover, procVars, listVars, jobVars, connVars, localVars, recVars, envVars

LEMMA DecideTyped ==
  ASSUME Typed, NEW k \in Job \cup {Poller}, Decide(k)
  PROVE  Typed'
<1>1. looked' \in [Job \cup {Poller} -> OrNone(Worker)]
  BY RolloverConstants DEF Typed, TypeOK, LocalsSet, Decide, OrNone
<1>2. rescue' \in [at : {"none", "start", "check", "swap", "list", "retire", "end"},
                 previous : OrNone(Worker), next : OrNone(Worker)]
  BY RolloverConstants DEF Typed, TypeOK, LocalsSet, Decide, OrNone, recVars
<1>3. starts' \in Nat
  BY RolloverConstants DEF Typed, TypeOK, LocalsSet, Decide, recVars
<1>4. entangled' \in BOOLEAN
  BY RolloverConstants DEF Typed, TypeOK, LocalsSet, Decide, recVars
<1>5. recovery' \in {"idle", "restarting", "recovered", "failed"}
  BY RolloverConstants DEF Typed, TypeOK, LocalsSet, Decide, recVars
<1>6. pc' \in [Job -> Steps]
  BY RolloverConstants DEF Typed, TypeOK, LocalsSet, Decide, Goto, Fail, Steps
<1>7. TypeOK'
  BY <1>1, <1>2, <1>3, <1>4, <1>5, <1>6 DEF Typed, TypeOK, Decide, procVars, listVars, jobVars, connVars, localVars, recVars, envVars
<1>8. /\ rescue'.at # "none" => rescue'.previous \in Worker
      /\ rescue'.at \in {"check", "swap", "list", "retire"} => rescue'.next \in Worker
  <2>1. looked[k] \in Worker
    BY DEF Typed, TypeOK, Decide, OrNone
  <2>. QED
    BY <2>1 DEF Typed, LocalsSet, Decide, recVars
<1>9. pc' = pc \/ pc' = [pc EXCEPT ![k] = "over"]
  BY DEF Decide, Goto
<1>10. LocalsSet'
  BY <1>8, <1>9 DEF Typed, TypeOK, LocalsSet, Decide, localVars
<1>. QED
  BY <1>7, <1>10 DEF Typed

LEMMA RescueStartsTyped ==
  ASSUME Typed, RescueStarts
  PROVE  Typed'
<1>1. recovery' \in {"idle", "restarting", "recovered", "failed"}
  BY DEF Typed, TypeOK, RescueStarts
<1>2. /\ proc' \in [Worker -> {"unborn", "running", "exited"}]
      /\ rescue' \in [at : {"none", "start", "check", "swap", "list", "retire", "end"},
                      previous : OrNone(Worker), next : OrNone(Worker)]
      /\ rescue'.at # "none" => rescue'.previous \in Worker
      /\ rescue'.at \in {"check", "swap", "list", "retire"} => rescue'.next \in Worker
  <2>1. CASE rescue' = [rescue EXCEPT !.at = "end"] /\ UNCHANGED proc
    BY <2>1 DEF Typed, TypeOK, LocalsSet, RescueStarts
  <2>2. CASE \E w \in Worker : /\ proc' = [proc EXCEPT ![w] = "running"]
                               /\ rescue' = [rescue EXCEPT !.at = "check", !.next = w]
    <3>. PICK w \in Worker : /\ proc' = [proc EXCEPT ![w] = "running"]
                             /\ rescue' = [rescue EXCEPT !.at = "check", !.next = w]
      BY <2>2
    <3>1. proc' \in [Worker -> {"unborn", "running", "exited"}]
      BY DEF Typed, TypeOK
    <3>. QED
      BY <3>1 DEF Typed, TypeOK, LocalsSet, RescueStarts, OrNone
  <2>. QED
    BY <2>1, <2>2 DEF RescueStarts
<1>3. TypeOK'
  BY <1>1, <1>2 DEF Typed, TypeOK, RescueStarts, procVars, listVars, jobVars, connVars, localVars,
     envVars
<1>4. LocalsSet'
  BY <1>2 DEF Typed, LocalsSet, RescueStarts, localVars
<1>. QED
  BY <1>3, <1>4 DEF Typed

LEMMA RescueChecksTyped ==
  ASSUME Typed, RescueChecks
  PROVE  Typed'
<1>1. proc' \in [Worker -> {"unborn", "running", "exited"}]
  BY RolloverConstants DEF Typed, TypeOK, LocalsSet, RescueChecks
<1>2. rescue' \in [at : {"none", "start", "check", "swap", "list", "retire", "end"},
                 previous : OrNone(Worker), next : OrNone(Worker)]
  BY RolloverConstants DEF Typed, TypeOK, LocalsSet, RescueChecks, OrNone, recVars
<1>3. TypeOK'
  BY <1>1, <1>2 DEF Typed, TypeOK, RescueChecks, procVars, listVars, jobVars, connVars, localVars, recVars, envVars
<1>4. LocalsSet'
  BY <1>1, <1>2 DEF Typed, TypeOK, LocalsSet, RescueChecks, At, procVars, listVars, jobVars, connVars, localVars, recVars, envVars
<1>. QED
  BY <1>3, <1>4 DEF Typed

LEMMA RescueSwapsTyped ==
  ASSUME Typed, RescueSwaps
  PROVE  Typed'
  BY RolloverConstants DEF Typed, TypeOK, LocalsSet, RescueSwaps, Retire, Telling, OrNone, procVars, listVars, jobVars, connVars, localVars, recVars, envVars

LEMMA RescueListsTyped ==
  ASSUME Typed, RescueLists
  PROVE  Typed'
  BY RolloverConstants DEF Typed, TypeOK, LocalsSet, RescueLists, Retire, Telling, OrNone, procVars, listVars, jobVars, connVars, localVars, recVars, envVars

LEMMA RescueRetiresTyped ==
  ASSUME Typed, RescueRetires
  PROVE  Typed'
  BY RolloverConstants DEF Typed, TypeOK, LocalsSet, RescueRetires, Retire, Telling, OrNone, procVars, listVars, jobVars, connVars, localVars, recVars, envVars

LEMMA RescueEndsTyped ==
  ASSUME Typed, RescueEnds
  PROVE  Typed'
  BY RolloverConstants DEF Typed, TypeOK, LocalsSet, RescueEnds, Retire, Telling, OrNone, procVars, listVars, jobVars, connVars, localVars, recVars, envVars

LEMMA ChooseTyped ==
  ASSUME Typed, NEW c \in Client, Choose(c)
  PROVE  Typed'
  BY RolloverConstants DEF Typed, TypeOK, LocalsSet, Choose, ClientAt, Retire, Telling, OrNone, procVars, listVars, jobVars, connVars, localVars, recVars, envVars

LEMMA CountTyped ==
  ASSUME Typed, NEW c \in Client, Count(c)
  PROVE  Typed'
  BY RolloverConstants DEF Typed, TypeOK, LocalsSet, Count, ClientAt, Retire, Telling, OrNone, procVars, listVars, jobVars, connVars, localVars, recVars, envVars

LEMMA FinishTyped ==
  ASSUME Typed, NEW c \in Client, Finish(c)
  PROVE  Typed'
  BY RolloverConstants DEF Typed, TypeOK, LocalsSet, Finish, ClientAt, Retire, Telling, OrNone, procVars, listVars, jobVars, connVars, localVars, recVars, envVars

LEMMA LeaveTyped ==
  ASSUME Typed, NEW c \in Client, Leave(c)
  PROVE  Typed'
<1>1. client' \in [Client -> [at : {"idle", "chosen", "using", "leaving"}, on : OrNone(Worker)]]
  BY DEF Typed, TypeOK, Leave, ClientAt, OrNone
<1>2. retiring' \in SUBSET Worker /\ told' \in [Worker -> SUBSET {"retired", "close"}]
  BY RetireTyped DEF Leave
<1>3. TypeOK'
  BY <1>1, <1>2 DEF Typed, TypeOK, Leave, ClientAt, jobVars, connVars, localVars, recVars
<1>4. LocalsSet'
  BY DEF Typed, LocalsSet, Leave, ClientAt, localVars, recVars
<1>. QED
  BY <1>3, <1>4 DEF Typed

LEMMA CrashTyped ==
  ASSUME Typed, NEW w \in Worker, Crash(w)
  PROVE  Typed'
  BY RolloverConstants DEF Typed, TypeOK, LocalsSet, Crash, WorkerChanges, procVars, listVars, jobVars, connVars, localVars, recVars, envVars

LEMMA ExitTyped ==
  ASSUME Typed, NEW w \in Worker, Exit(w)
  PROVE  Typed'
  BY RolloverConstants DEF Typed, TypeOK, LocalsSet, Exit, WorkerChanges, procVars, listVars, jobVars, connVars, localVars, recVars, envVars

LEMMA CloseTyped ==
  ASSUME Typed, Close
  PROVE  Typed'
  BY RolloverConstants DEF Typed, TypeOK, LocalsSet, Close, ShutdownStep, procVars, listVars, jobVars, connVars, localVars, recVars, envVars

LEMMA SweepTyped ==
  ASSUME Typed, Sweep
  PROVE  Typed'
  BY RolloverConstants DEF Typed, TypeOK, LocalsSet, Sweep, ShutdownStep, procVars, listVars, jobVars, connVars, localVars, recVars, envVars

LEMMA GoneTyped ==
  ASSUME Typed, Gone
  PROVE  Typed'
  BY RolloverConstants DEF Typed, TypeOK, LocalsSet, Gone, ShutdownStep, procVars, listVars, jobVars, connVars, localVars, recVars, envVars

LEMMA StepTyped == Typed /\ [Next]_vars => Typed'
<1>. SUFFICES ASSUME Typed, [Next]_vars PROVE Typed'
  OBVIOUS
<1>1. ASSUME NEW a \in Asker, Queue(a) PROVE Typed'
  BY <1>1, QueueTyped
<1>2. ASSUME NEW a \in Asker, NEW j \in Job, NEW chosen \in Requests, Ask(a, j, chosen) PROVE Typed'
  BY <1>2, AskTyped
<1>3. ASSUME NEW j \in Job, Perform(j) PROVE Typed'
  BY <1>3, BeginTyped, BuildTyped, DetachTyped, PreserveTyped, SwapTyped, ListTyped, PublishTyped,
     WindowTyped, BudgetTyped, KillCandidateTyped, RejectTyped, RestoreTyped, RelistTyped,
     DiscardTyped, UnpublishTyped, ReleaseTyped, TellTyped, DropTyped, ReportTyped, DoneTyped
     DEF Perform
<1>4. ASSUME NEW k \in Job \cup {Poller}, Look(k) \/ Decide(k) PROVE Typed'
  BY <1>4, LookTyped, DecideTyped
<1>5. ASSUME Rescue PROVE Typed'
  BY <1>5, RescueStartsTyped, RescueChecksTyped, RescueSwapsTyped, RescueListsTyped,
     RescueRetiresTyped, RescueEndsTyped DEF Rescue
<1>6. ASSUME NEW c \in Client, Forward(c) PROVE Typed'
  BY <1>6, ChooseTyped, CountTyped, FinishTyped, LeaveTyped DEF Forward
<1>7. ASSUME NEW w \in Worker, Crash(w) \/ Exit(w) PROVE Typed'
  BY <1>7, CrashTyped, ExitTyped
<1>8. ASSUME Close \/ Sweep \/ Gone PROVE Typed'
  BY <1>8, CloseTyped, SweepTyped, GoneTyped
<1>9. ASSUME UNCHANGED vars PROVE Typed'
  BY <1>9 DEF Typed, TypeOK, LocalsSet, vars, procVars, listVars, jobVars, connVars, localVars,
     recVars, envVars
<1>. QED
  BY <1>1, <1>2, <1>3, <1>4, <1>5, <1>6, <1>7, <1>8, <1>9 DEF Next

\* Every variable keeps its type, and no step reads a local that was not set
\* (WorkerRollover's locals are Options in the code, taken with take() and
\* as_ref()).
THEOREM TypeCorrect == Spec => []TypeOK
<1>1. Init => Typed
  BY InitTyped
<1>2. Typed /\ [Next]_vars => Typed'
  BY StepTyped
<1>3. Typed => TypeOK
  BY DEF Typed
<1>. QED
  BY <1>1, <1>2, <1>3, PTL DEF Spec

-----------------------------------------------------------------------------
(* The recovery budget *)

Spent == starts <= 1 /\ (starts # 0 => recoveryUsed)

\* Whoever notices the dead worker, at most one automatic restart begins until
\* an update has replaced the worker: for any number of updates, crashes and
\* callers, overlapping or not (Supervisor::recover's decision under the lock).
THEOREM BudgetHolds == Spec => []RecoveryBudget
<1>1. Init => Typed /\ Spent
  BY InitTyped DEF Init, Spent
<1>2. Typed /\ Spent /\ [Next]_vars => (Typed /\ Spent)'
  <2>. SUFFICES ASSUME Typed, Spent, [Next]_vars PROVE (Typed /\ Spent)'
    OBVIOUS
  <2>1. Typed'
    BY StepTyped
  <2>2. ASSUME NEW j \in Job, Budget(j) PROVE Spent'
    BY <2>2 DEF Spent, Budget
  <2>3. ASSUME NEW k \in Job \cup {Poller}, Decide(k) PROVE Spent'
    BY <2>3 DEF Typed, TypeOK, Spent, Decide, MayRecover, recVars
  <2>4. ASSUME UNCHANGED <<starts, recoveryUsed>> PROVE Spent'
    BY <2>4 DEF Spent
  <2>5. ASSUME NEW j \in Job, Perform(j) PROVE Budget(j) \/ UNCHANGED <<starts, recoveryUsed>>
    BY <2>5 DEF Perform, Begin, Build, Detach, Preserve, Swap, List, Publish, Window,
       KillCandidate, Reject, Restore, Relist, Discard, Unpublish, Release, Tell, Drop, Report,
       Done, recVars
  <2>6. ASSUME Rescue PROVE UNCHANGED <<starts, recoveryUsed>>
    BY <2>6 DEF Rescue, RescueStarts, RescueChecks, RescueSwaps, RescueLists, RescueRetires,
       RescueEnds
  <2>7. CASE \E a \in Asker : Queue(a) \/ \E j \in Job, chosen \in Requests : Ask(a, j, chosen)
    BY <2>1, <2>7, <2>4 DEF Queue, Ask, recVars
  <2>8. CASE \E c \in Client : Forward(c)
    BY <2>1, <2>8, <2>4 DEF Forward, Choose, Count, Finish, Leave, ClientAt, recVars
  <2>9. CASE Close \/ Sweep \/ Gone \/ \E w \in Worker : Crash(w) \/ Exit(w)
    BY <2>1, <2>9, <2>4 DEF Close, Sweep, Gone, ShutdownStep, Crash, Exit, WorkerChanges, recVars
  <2>10. CASE \E k \in Job \cup {Poller} : Look(k)
    BY <2>1, <2>10, <2>4 DEF Look, recVars
  <2>11. CASE UNCHANGED vars
    BY <2>1, <2>11, <2>4 DEF vars, recVars
  <2>. QED
    BY <2>1, <2>2, <2>3, <2>4, <2>5, <2>6, <2>7, <2>8, <2>9, <2>10, <2>11 DEF Next
<1>3. Typed /\ Spent => RecoveryBudget
  BY DEF Spent, RecoveryBudget
<1>. QED
  BY <1>1, <1>2, <1>3, PTL DEF Spec


-----------------------------------------------------------------------------
(* One replacement at a time: the inductive invariant behind the promises  *)
(* that hold while Orderly.  It follows an update step by step: where its  *)
(* previous worker, its candidate and the current worker are.              *)

Before    == {"none", "asked", "begin", "build", "detach", "preserve"}
Replaced  == {"list", "publish", "window", "budget", "kill", "reject", "restore"}
PutBack   == {"relist", "discard", "unpublish"}
Ending    == {"release", "tell", "drop", "report", "done"}
Active(j) == j \in Updating

\* nobody replaces the current worker beside the update that is running
OneAtATime ==
  /\ \A j \in Job : Active(j) <=> running = j
  /\ recovering => running = NoJob
  /\ recovering <=> rescue.at # "none"

\* a job is queued once
Asked ==
  /\ \A a \in Asker, j \in Job : asking[a] = j => pc[j] = "asked"
  /\ \A a, b \in Asker : asking[a] = asking[b] /\ asking[a] # NoJob => a = b

\* who looked at a worker has still to decide
Looking == \A j \in Job : looked[j] # NoWorker => pc[j] = "decide"

\* where an update's previous worker is
UpdateAt(j) ==
  /\ pc[j] \in Before => previous[j] = NoWorker
  /\ pc[j] = "swap" => previous[j] = current
  /\ pc[j] \in Replaced /\ previous[j] # NoWorker => current # previous[j]
  /\ pc[j] = "restore" => rejected[j] = current
  /\ pc[j] = "relist" => rejected[j] # previous[j]
  /\ pc[j] \in PutBack /\ previous[j] # NoWorker => current = previous[j]
  /\ pc[j] \in Ending /\ ~outcome[j] /\ previous[j] # NoWorker => current = previous[j]
  /\ pc[j] \in Before \cup {"swap", "list", "publish", "window", "budget"} => outcome[j]
  /\ Holding(j) => previous[j] \in preserved
Updates == \A j \in Job : UpdateAt(j)

\* a replaced worker waits on the list for its switch to be final
Waiting ==
  \A j \in Job : previous[j] # NoWorker =>
    /\ pc[j] \in {"publish", "window", "budget"} => previous[j] \in retiring
    /\ pc[j] = "release" /\ outcome[j] => previous[j] \in retiring /\ current # previous[j]

\* what is undone has failed
Undoing ==
  \A j \in Job : pc[j] \in {"kill", "reject", "restore", "relist", "discard", "unpublish"} => ~outcome[j]

\* a worker that has not served yet
Unserved(w) == told[w] = {} /\ w \notin retiring /\ w # current /\ proc[w] # "unborn"

Candidates ==
  /\ \A j \in Job : candidate[j] # NoWorker =>
       Unserved(candidate[j]) /\ pc[j] \in {"build", "detach", "preserve", "swap", "kill"}
  /\ \A j \in Job : pc[j] = "kill" /\ previous[j] # NoWorker => candidate[j] = NoWorker
  /\ rescue.at \in {"check", "swap"} => Unserved(rescue.next) /\ rescue.next # rescue.previous

\* a worker that was never started is nowhere
Unborn ==
  \A w \in Worker : proc[w] = "unborn" =>
    /\ told[w] = {} /\ w \notin retiring /\ w # current
    /\ \A j \in Job : previous[j] # w /\ (pc[j] \in {"restore", "relist", "discard"} => rejected[j] # w)

\* what a recovery replaces is dead, and current until it swaps
Rescued ==
  /\ rescue.at # "none" => proc[rescue.previous] = "exited"
  /\ rescue.at \in {"start", "check", "swap"} => current = rescue.previous
  /\ rescue.at \in {"list", "retire"} => current = rescue.next /\ rescue.next # rescue.previous

\* the current worker is on the list of retiring ones only while it is put back
Listed ==
  current \in retiring => \E j \in Job : pc[j] = "relist" /\ previous[j] = current

\* nobody was told anything who may still serve
Untold ==
  ~Swept => told[current] = {} /\ \A j \in Job : Holding(j) => told[previous[j]] = {}

\* the descriptor and what the supervisor holds
Agreed == disk = [generation |-> connectorGeneration, connector |-> connector]
Written ==
  /\ \A j \in Job : pc[j] \in {"window", "budget"} => Agreed
  /\ \A j \in Job : pc[j] \in Ending => Agreed \/ persistenceError[j]
  /\ running = NoJob => lastDone = NoJob \/ Agreed \/ persistenceError[lastDone]

Order ==
  /\ OneAtATime /\ Asked /\ Looking /\ Updates /\ Waiting /\ Undoing /\ Candidates /\ Unborn /\ Rescued /\ Listed
  /\ Untold /\ Written /\ WorkersAccountedFor

OrderInv == Orderly => Order

\* what a retirement may touch
LEMMA Retires ==
  ASSUME Typed, NEW w, Retire(w)
  PROVE  /\ retiring' \subseteq retiring
         /\ \A v \in Worker : v \notin retiring \/ v \in preserved => told'[v] = told[v]
         /\ \A v \in Worker : told[v] \subseteq told'[v]
         /\ \A v \in retiring : v \in retiring' \/ "close" \in told'[v]
  BY DEF Typed, TypeOK, Retire, Telling

\* beside an update that is on its way nothing else is
LEMMA OneUpdate ==
  ASSUME Typed, Order, NEW j \in Job, Active(j)
  PROVE  /\ running = j /\ rescue.at = "none"
         /\ \A i \in Job : i # j => ~Active(i) /\ candidate[i] = NoWorker
<1>1. running = j
  BY DEF Order, OneAtATime
<1>2. ASSUME NEW i \in Job, i # j PROVE ~Active(i)
  BY <1>1, <1>2 DEF Order, OneAtATime
<1>3. ASSUME NEW i \in Job, i # j PROVE candidate[i] = NoWorker
  BY <1>2, <1>3 DEF Order, Candidates, Active, Updating
<1>4. ~recovering
  BY <1>1, RolloverConstants DEF Order, OneAtATime
<1>5. rescue.at = "none"
  BY <1>4 DEF Order, OneAtATime
<1>. QED
  BY <1>1, <1>2, <1>3, <1>5

-----------------------------------------------------------------------------
(* Each step keeps the order *)

LEMMA BeginOrder ==
  ASSUME Typed, Typed', Orderly, Orderly', Order, NEW j \in Job, Begin(j)
  PROVE  Order'
<1>1. \E next \in {"build", "kill"} : pc' = [pc EXCEPT ![j] = next]
  BY RolloverConstants DEF Begin, Goto, Fail
<1>2. OneAtATime'
  BY <1>1 DEF Order, OneAtATime, Active, Updating, Begin, At, Goto, Fail, listVars, jobVars,
     connVars, recVars, envVars
<1>3. Asked'
  BY <1>1 DEF Order, Asked, Begin, At, Goto, Fail, listVars, jobVars, connVars, recVars, envVars
<1>4. Looking'
  BY <1>1 DEF Order, Looking, Begin, At, Goto, Fail, listVars, jobVars, connVars, recVars, envVars
<1>5. Updates'
  BY <1>1 DEF Typed, TypeOK, Order, Updates, UpdateAt, Before, Replaced, PutBack, Ending, Holding,
     Begin, At, Goto, Fail, listVars, jobVars, connVars, recVars, envVars
<1>6. Waiting'
  BY <1>1 DEF Typed, TypeOK, Order, Waiting, Begin, At, Goto, Fail, listVars, jobVars, connVars,
     recVars, envVars
<1>7. Undoing'
  BY <1>1 DEF Typed, TypeOK, Order, Undoing, Begin, At, Goto, Fail, listVars, jobVars, connVars,
     recVars, envVars
<1>8. Candidates'
  <2>1. Active(j) /\ candidate[j] = NoWorker
    BY DEF Order, Candidates, Active, Updating, At, Begin
  <2>2. /\ rescue'.at = "none" /\ \A i \in Job : i # j => candidate'[i] = NoWorker
        /\ UNCHANGED <<told, retiring, current>>
    BY <2>1, OneUpdate DEF Typed, TypeOK, Begin, listVars, recVars
  <2>3. ASSUME candidate'[j] # NoWorker
        PROVE  /\ candidate'[j] \in Worker /\ proc[candidate'[j]] = "unborn"
               /\ proc'[candidate'[j]] = "running" /\ pc'[j] = "build"
    BY <2>1, <2>3 DEF Typed, TypeOK, Begin, Fail, Goto
  <2>4. candidate'[j] # NoWorker =>
          /\ told'[candidate'[j]] = {} /\ candidate'[j] \notin retiring'
          /\ candidate'[j] # current' /\ proc'[candidate'[j]] # "unborn"
    BY <2>2, <2>3 DEF Order, Unborn
  <2>5. pc'[j] # "kill" \/ candidate'[j] = NoWorker
    BY <2>3
  <2>. QED
    BY <2>2, <2>3, <2>4, <2>5 DEF Candidates, Unserved
<1>9. Unborn'
  BY <1>1 DEF Typed, TypeOK, Order, Unborn, Begin, At, Goto, Fail, listVars, jobVars, connVars,
     recVars, envVars
<1>10. Rescued'
  BY <1>1, RolloverConstants DEF Typed, TypeOK, Order, Rescued, OneAtATime, Active, Updating, Begin,
     At, Goto, Fail, listVars, jobVars, connVars, recVars, envVars
<1>11. Listed'
  BY <1>1 DEF Order, Listed, Begin, At, Goto, Fail, listVars, jobVars, connVars, recVars, envVars
<1>12. Untold'
  <2>1. previous[j] = NoWorker /\ previous' = previous
    BY DEF Order, Updates, UpdateAt, Before, At, Begin
  <2>2. told' = told /\ current' = current /\ supervisor' = supervisor
    BY DEF Begin, listVars, jobVars, connVars, recVars, envVars
  <2>3. ASSUME NEW i \in Job, Holding(i)' PROVE Holding(i)
    BY <1>1, <2>1, <2>3 DEF Typed, TypeOK, Holding
  <2>. QED
    BY <2>1, <2>2, <2>3 DEF Order, Untold, Swept
<1>13. Written'
  BY <1>1 DEF Order, Written, Agreed, Ending, Begin, At, Goto, Fail, listVars, jobVars, connVars,
     recVars, envVars
<1>14. WorkersAccountedFor'
  <2>1. candidate[j] = NoWorker
    BY DEF Order, Candidates, At, Begin
  <2>2. UNCHANGED <<told, retiring, current, previous, rejected, rescue>>
    BY DEF Begin, listVars, recVars
  <2>3. ASSUME NEW w \in Worker, proc'[w] = "running", proc[w] # "running" PROVE candidate'[j] = w
    BY <2>3 DEF Typed, TypeOK, Begin
  <2>4. \A i \in Job : i # j => candidate'[i] = candidate[i] /\ pc'[i] = pc[i]
    BY <1>1 DEF Typed, TypeOK, Begin
  <2>5. ASSUME NEW w \in Worker, InHand(w) PROVE InHand(w)'
    BY <2>1, <2>2, <2>4, <2>5, RolloverConstants DEF InHand, HeldBy, Begin, At
  <2>6. ASSUME NEW w \in Worker, Found(w) PROVE Found(w)'
    BY <2>2, <2>5, <2>6 DEF Found
  <2>7. \A w \in Worker : candidate'[j] = w => Found(w)'
    BY DEF Found, InHand, HeldBy
  <2>. QED
    BY <2>3, <2>6, <2>7 DEF Order, WorkersAccountedFor, Begin, At
<1>. QED
  BY <1>2, <1>3, <1>4, <1>5, <1>6, <1>7, <1>8, <1>9, <1>10, <1>11, <1>12, <1>13, <1>14 DEF Order

LEMMA BuildOrder ==
  ASSUME Typed, Typed', Orderly, Orderly', Order, NEW j \in Job, Build(j)
  PROVE  Order'
<1>1. \E next \in {"detach", "kill"} : pc' = [pc EXCEPT ![j] = next]
  BY RolloverConstants DEF Build, Goto, Fail
<1>2. OneAtATime'
  BY <1>1 DEF Order, OneAtATime, Active, Updating, Build, At, Goto, Fail, procVars, listVars,
     jobVars, recVars, envVars
<1>3. Asked'
  BY <1>1 DEF Order, Asked, Build, At, Goto, Fail, procVars, listVars, jobVars, recVars, envVars
<1>4. Looking'
  BY <1>1 DEF Order, Looking, Build, At, Goto, Fail, procVars, listVars, jobVars, recVars, envVars
<1>5. Updates'
  BY <1>1 DEF Typed, TypeOK, Order, Updates, UpdateAt, Before, Replaced, PutBack, Ending, Holding,
     Build, At, Goto, Fail, procVars, listVars, jobVars, recVars, envVars
<1>6. Waiting'
  BY <1>1 DEF Typed, TypeOK, Order, Waiting, Build, At, Goto, Fail, procVars, listVars, jobVars,
     recVars, envVars
<1>7. Undoing'
  BY <1>1 DEF Typed, TypeOK, Order, Undoing, Build, At, Goto, Fail, procVars, listVars, jobVars,
     recVars, envVars
<1>8. Candidates'
  BY <1>1 DEF Order, Candidates, Unserved, Updates, UpdateAt, Before, Build, At, procVars, listVars,
     recVars
<1>9. Unborn'
  BY <1>1 DEF Order, Unborn, Build, At, Goto, Fail, procVars, listVars, jobVars, recVars, envVars
<1>10. Rescued'
  BY <1>1 DEF Order, Rescued, Build, At, Goto, Fail, procVars, listVars, jobVars, recVars, envVars
<1>11. Listed'
  BY <1>1 DEF Order, Listed, Build, At, Goto, Fail, procVars, listVars, jobVars, recVars, envVars
<1>12. Untold'
  <2>1. previous[j] = NoWorker /\ previous' = previous
    BY DEF Order, Updates, UpdateAt, Before, At, Build
  <2>2. told' = told /\ current' = current /\ supervisor' = supervisor
    BY DEF Build, procVars, listVars, jobVars, recVars, envVars
  <2>3. ASSUME NEW i \in Job, Holding(i)' PROVE Holding(i)
    BY <1>1, <2>1, <2>3 DEF Typed, TypeOK, Holding
  <2>. QED
    BY <2>1, <2>2, <2>3 DEF Order, Untold, Swept
<1>13. Written'
  <2>1. running = j /\ \A i \in Job : i # j => ~Active(i)
    BY RolloverConstants DEF Order, OneAtATime, Active, Updating, At, Build
  <2>2. pc'[j] \in {"detach", "kill"} /\ \A i \in Job : i # j => pc'[i] = pc[i]
    BY <1>1 DEF Typed, TypeOK
  <2>3. running' = running /\ persistenceError' = persistenceError /\ lastDone' = lastDone
    BY DEF Build, procVars, listVars, jobVars, recVars, envVars
  <2>4. \A i \in Job : pc'[i] \notin Ending
    BY <2>1, <2>2 DEF Active, Updating, Ending
  <2>5. \A i \in Job : pc'[i] \in {"window", "budget"} => Agreed'
    BY <2>1, <2>2 DEF Active, Updating, Build
  <2>. QED
    BY <2>1, <2>3, <2>4, <2>5, RolloverConstants DEF Written
<1>14. WorkersAccountedFor'
  BY <1>1 DEF Order, WorkersAccountedFor, Orderly, Found, InHand, HeldBy, Serving, Build, At, Goto,
     Fail, procVars, listVars, jobVars, recVars, envVars
<1>. QED
  BY <1>2, <1>3, <1>4, <1>5, <1>6, <1>7, <1>8, <1>9, <1>10, <1>11, <1>12, <1>13, <1>14 DEF Order

LEMMA DetachOrder ==
  ASSUME Typed, Typed', Orderly, Orderly', Order, NEW j \in Job, Detach(j)
  PROVE  Order'
<1>1. \E next \in {"publish", "preserve", "kill"} : pc' = [pc EXCEPT ![j] = next]
  BY RolloverConstants DEF Detach, Goto, Fail
<1>2. OneAtATime'
  BY <1>1 DEF Order, OneAtATime, Active, Updating, Detach, At, Goto, Fail, procVars, listVars,
     connVars, recVars, envVars
<1>3. Asked'
  BY <1>1 DEF Order, Asked, Detach, At, Goto, Fail, procVars, listVars, connVars, recVars, envVars
<1>4. Looking'
  BY <1>1 DEF Order, Looking, Detach, At, Goto, Fail, procVars, listVars, connVars, recVars, envVars
<1>5. Updates'
  BY <1>1 DEF Typed, TypeOK, Order, Updates, UpdateAt, Before, Replaced, PutBack, Ending, Holding,
     Detach, At, Goto, Fail, procVars, listVars, connVars, recVars, envVars
<1>6. Waiting'
  BY <1>1 DEF Order, Waiting, Updates, UpdateAt, OneAtATime, Active, Updating, Before, Detach, At
<1>7. Undoing'
  BY <1>1 DEF Typed, TypeOK, Order, Undoing, Detach, At, Goto, Fail, procVars, listVars, connVars,
     recVars, envVars
<1>8. Candidates'
  BY <1>1 DEF Order, Candidates, Unserved, Updates, UpdateAt, Before, Detach, At, Goto, Fail,
     procVars, listVars, recVars
<1>9. Unborn'
  BY <1>1 DEF Order, Unborn, Detach, At, Goto, Fail, procVars, listVars, connVars, recVars, envVars
<1>10. Rescued'
  BY <1>1 DEF Order, Rescued, Detach, At, Goto, Fail, procVars, listVars, connVars, recVars, envVars
<1>11. Listed'
  BY <1>1 DEF Order, Listed, Detach, At, Goto, Fail, procVars, listVars, connVars, recVars, envVars
<1>12. Untold'
  <2>1. previous[j] = NoWorker /\ previous' = previous
    BY DEF Order, Updates, UpdateAt, Before, At, Detach
  <2>2. told' = told /\ current' = current /\ supervisor' = supervisor
    BY DEF Detach, procVars, listVars, connVars, recVars, envVars
  <2>3. ASSUME NEW i \in Job, Holding(i)' PROVE Holding(i)
    BY <1>1, <2>1, <2>3 DEF Typed, TypeOK, Holding
  <2>. QED
    BY <2>1, <2>2, <2>3 DEF Order, Untold, Swept
<1>13. Written'
  BY <1>1 DEF Order, Written, Agreed, Ending, Detach, At, Goto, Fail, procVars, listVars, connVars,
     recVars, envVars
<1>14. WorkersAccountedFor'
  BY <1>1 DEF Order, WorkersAccountedFor, Orderly, Found, InHand, HeldBy, Serving, Detach, At, Goto,
     Fail, procVars, listVars, connVars, recVars, envVars
<1>. QED
  BY <1>2, <1>3, <1>4, <1>5, <1>6, <1>7, <1>8, <1>9, <1>10, <1>11, <1>12, <1>13, <1>14 DEF Order

LEMMA PreserveOrder ==
  ASSUME Typed, Typed', Orderly, Orderly', Order, NEW j \in Job, Preserve(j)
  PROVE  Order'
<1>1. OneAtATime'
  BY DEF Order, OneAtATime, Active, Updating, Preserve, At, Goto, procVars, jobVars, connVars,
     recVars, envVars
<1>2. Asked'
  BY DEF Order, Asked, Preserve, At, Goto, procVars, jobVars, connVars, recVars, envVars
<1>3. Looking'
  BY DEF Order, Looking, Preserve, At, Goto, procVars, jobVars, connVars, recVars, envVars
<1>4. Updates'
  BY DEF Typed, TypeOK, Order, Updates, UpdateAt, Before, Replaced, PutBack, Ending, Holding,
     Preserve, At, Goto, procVars, jobVars, connVars, recVars, envVars
<1>5. Waiting'
  BY DEF Order, Waiting, Preserve, At, Goto, procVars, jobVars, connVars, recVars, envVars
<1>6. Undoing'
  BY DEF Order, Undoing, Preserve, At, Goto, procVars, jobVars, connVars, recVars, envVars
<1>7. Candidates'
  BY DEF Order, Candidates, Unserved, OrNone, Preserve, At, Goto, procVars, jobVars, connVars,
     recVars, envVars
<1>8. Unborn'
  BY DEF Order, Unborn, Preserve, At, Goto, procVars, jobVars, connVars, recVars, envVars
<1>9. Rescued'
  BY DEF Order, Rescued, Preserve, At, Goto, procVars, jobVars, connVars, recVars, envVars
<1>10. Listed'
  BY DEF Order, Listed, Preserve, At, Goto, procVars, jobVars, connVars, recVars, envVars
<1>11. Untold'
  BY DEF Typed, TypeOK, Order, Untold, Swept, Holding, Preserve, At, Goto, procVars, jobVars,
     connVars, recVars, envVars
<1>12. Written'
  BY DEF Order, Written, Agreed, Ending, Preserve, At, Goto, procVars, jobVars, connVars, recVars,
     envVars
<1>13. WorkersAccountedFor'
  BY DEF Order, WorkersAccountedFor, Orderly, Found, InHand, HeldBy, Serving, Preserve, At, Goto,
     procVars, jobVars, connVars, recVars, envVars
<1>. QED
  BY <1>1, <1>2, <1>3, <1>4, <1>5, <1>6, <1>7, <1>8, <1>9, <1>10, <1>11, <1>12, <1>13 DEF Order

LEMMA SwapOrder ==
  ASSUME Typed, Typed', Orderly, Orderly', Order, NEW j \in Job, Swap(j)
  PROVE  Order'
<1>1. OneAtATime'
  BY DEF Order, OneAtATime, Active, Updating, Swap, At, Goto, procVars, jobVars, connVars, recVars,
     envVars
<1>2. Asked'
  BY DEF Order, Asked, Swap, At, Goto, procVars, jobVars, connVars, recVars, envVars
<1>3. Looking'
  BY DEF Order, Looking, Swap, At, Goto, procVars, jobVars, connVars, recVars, envVars
<1>4. Updates'
  <2>1. Active(j) /\ pc[j] = "swap" /\ candidate[j] \in Worker
    BY DEF Typed, LocalsSet, Active, Updating, At, Swap
  <2>2. rescue.at = "none" /\ \A i \in Job : i # j => ~Active(i) /\ candidate[i] = NoWorker
    BY <2>1, OneUpdate
  <2>3. /\ pc' = [pc EXCEPT ![j] = "list"] /\ current' = candidate[j]
        /\ UNCHANGED <<previous, rejected, outcome, preserved>>
    BY DEF Swap, Goto
  <2>4. /\ current # candidate[j] /\ previous[j] = current /\ outcome[j]
        /\ Holding(j) => previous[j] \in preserved
    BY <2>1, RolloverConstants DEF Order, Updates, UpdateAt, Candidates, Unserved
  <2>5. Holding(j)
    BY <2>1, <2>4, RolloverConstants DEF Holding, Typed, TypeOK
  <2>6. UpdateAt(j)'
    BY <2>1, <2>3, <2>4, <2>5 DEF Typed, TypeOK, UpdateAt, Before, Replaced, PutBack, Ending,
       Holding
  <2>7. ASSUME NEW i \in Job, i # j PROVE UpdateAt(i)'
    <3>1. pc'[i] = pc[i] /\ ~Active(i) /\ UpdateAt(i)
      BY <2>2, <2>3, <2>7 DEF Typed, TypeOK, Order, Updates
    <3>. QED
      BY <2>3, <3>1 DEF UpdateAt, Before, Replaced, PutBack, Ending, Holding, Active, Updating
  <2>. QED
    BY <2>6, <2>7 DEF Updates
<1>5. Waiting'
  BY RolloverConstants DEF Typed, TypeOK, Order, Waiting, OneAtATime, Active, Updating, Swap, At,
     Goto, procVars, jobVars, connVars, recVars, envVars
<1>6. Undoing'
  BY DEF Order, Undoing, Swap, At, Goto, procVars, jobVars, connVars, recVars, envVars
<1>7. Candidates'
  <2>1. Active(j) /\ pc[j] = "swap" /\ candidate[j] \in Worker
    BY DEF Typed, LocalsSet, Active, Updating, At, Swap
  <2>2. rescue.at = "none" /\ \A i \in Job : i # j => ~Active(i) /\ candidate[i] = NoWorker
    BY <2>1, OneUpdate
  <2>3. rescue' = rescue /\ \A i \in Job : candidate'[i] = NoWorker
    BY <2>2 DEF Swap, recVars, Typed, TypeOK
  <2>. QED
    BY <2>2, <2>3 DEF Candidates
<1>8. Unborn'
  BY RolloverConstants DEF Order, Unborn, Candidates, Unserved, Swap, Goto, procVars
<1>9. Rescued'
  BY RolloverConstants DEF Typed, TypeOK, Order, Rescued, OneAtATime, Active, Updating, Swap, At,
     Goto, procVars, jobVars, connVars, recVars, envVars
<1>10. Listed'
  BY RolloverConstants DEF Typed, TypeOK, Order, Listed, Candidates, Unserved, Swap
<1>11. Untold'
  <2>1. Active(j) /\ pc[j] = "swap" /\ candidate[j] \in Worker
    BY DEF Typed, LocalsSet, Active, Updating, At, Swap
  <2>2. rescue.at = "none" /\ \A i \in Job : i # j => ~Active(i) /\ candidate[i] = NoWorker
    BY <2>1, OneUpdate
  <2>3. /\ pc' = [pc EXCEPT ![j] = "list"] /\ current' = candidate[j]
        /\ UNCHANGED <<told, previous, supervisor>>
    BY DEF Swap, Goto, procVars, envVars
  <2>4. told[candidate[j]] = {}
    BY <2>1, RolloverConstants DEF Order, Candidates, Unserved
  <2>5. ASSUME NEW i \in Job, Holding(i)' PROVE Holding(i)
    BY <2>1, <2>2, <2>3, <2>5 DEF Holding, Active, Updating, Typed, TypeOK
  <2>. QED
    BY <2>3, <2>4, <2>5 DEF Order, Untold, Swept
<1>12. Written'
  BY DEF Order, Written, Agreed, Ending, Swap, At, Goto, procVars, jobVars, connVars, recVars,
     envVars
<1>13. WorkersAccountedFor'
  BY DEF Typed, TypeOK, Order, WorkersAccountedFor, Found, InHand, HeldBy, Updates, UpdateAt, Swap,
     At, Goto, procVars, recVars
<1>. QED
  BY <1>1, <1>2, <1>3, <1>4, <1>5, <1>6, <1>7, <1>8, <1>9, <1>10, <1>11, <1>12, <1>13 DEF Order

LEMMA ListOrder ==
  ASSUME Typed, Typed', Orderly, Orderly', Order, NEW j \in Job, List(j)
  PROVE  Order'
<1>1. OneAtATime'
  BY DEF Order, OneAtATime, Active, Updating, List, At, Goto, procVars, jobVars, connVars,
     localVars, recVars, envVars
<1>2. Asked'
  BY DEF Order, Asked, List, At, Goto, procVars, jobVars, connVars, localVars, recVars, envVars
<1>3. Looking'
  BY DEF Order, Looking, List, At, Goto, procVars, jobVars, connVars, localVars, recVars, envVars
<1>4. Updates'
  BY DEF Order, Updates, UpdateAt, Before, Replaced, PutBack, Ending, Holding, List, At, Goto,
     procVars, jobVars, connVars, localVars, recVars, envVars
<1>5. Waiting'
  BY DEF Order, Waiting, List, At, Goto, procVars, jobVars, connVars, localVars, recVars, envVars
<1>6. Undoing'
  BY DEF Order, Undoing, List, At, Goto, procVars, jobVars, connVars, localVars, recVars, envVars
<1>7. Candidates'
  BY RolloverConstants DEF Order, Candidates, OneAtATime, Active, Updating, List, At, localVars,
     recVars
<1>8. Unborn'
  BY DEF Order, Unborn, List, At, Goto, procVars, jobVars, connVars, localVars, recVars, envVars
<1>9. Rescued'
  BY DEF Order, Rescued, List, At, Goto, procVars, jobVars, connVars, localVars, recVars, envVars
<1>10. Listed'
  BY RolloverConstants DEF Typed, TypeOK, Order, Listed, Updates, UpdateAt, Replaced, List, At,
     Goto, localVars
<1>11. Untold'
  BY DEF Order, Untold, Swept, Holding, List, At, Goto, procVars, jobVars, connVars, localVars,
     recVars, envVars
<1>12. Written'
  BY DEF Order, Written, Agreed, Ending, List, At, Goto, procVars, jobVars, connVars, localVars,
     recVars, envVars
<1>13. WorkersAccountedFor'
  BY DEF Order, WorkersAccountedFor, Orderly, Found, InHand, HeldBy, Serving, List, At, Goto,
     procVars, jobVars, connVars, localVars, recVars, envVars
<1>. QED
  BY <1>1, <1>2, <1>3, <1>4, <1>5, <1>6, <1>7, <1>8, <1>9, <1>10, <1>11, <1>12, <1>13 DEF Order

LEMMA PublishOrder ==
  ASSUME Typed, Typed', Orderly, Orderly', Order, NEW j \in Job, Publish(j)
  PROVE  Order'
<1>1. \E next \in {"window", "kill"} : pc' = [pc EXCEPT ![j] = next]
  BY RolloverConstants DEF Publish, Goto, Fail
<1>2. OneAtATime'
  BY <1>1 DEF Order, OneAtATime, Active, Updating, Publish, At, Goto, Fail, Persisted, procVars,
     listVars, jobVars, recVars, envVars
<1>3. Asked'
  BY <1>1 DEF Order, Asked, Publish, At, Goto, Fail, Persisted, procVars, listVars, jobVars,
     recVars, envVars
<1>4. Looking'
  BY <1>1 DEF Order, Looking, Publish, At, Goto, Fail, Persisted, procVars, listVars, jobVars,
     recVars, envVars
<1>5. Updates'
  BY <1>1 DEF Typed, TypeOK, Order, Updates, UpdateAt, Before, Replaced, PutBack, Ending, Holding,
     Publish, At, Goto, Fail, Persisted, procVars, listVars, jobVars, recVars, envVars
<1>6. Waiting'
  BY <1>1 DEF Typed, TypeOK, Order, Waiting, Publish, At, Goto, Fail, Persisted, procVars, listVars,
     jobVars, recVars, envVars
<1>7. Undoing'
  BY <1>1 DEF Typed, TypeOK, Order, Undoing, Publish, At, Goto, Fail, Persisted, procVars, listVars,
     jobVars, recVars, envVars
<1>8. Candidates'
  BY <1>1 DEF Order, Candidates, Unserved, OrNone, Publish, At, Goto, Fail, Persisted, procVars,
     listVars, jobVars, recVars, envVars
<1>9. Unborn'
  BY <1>1 DEF Order, Unborn, Publish, At, Goto, Fail, Persisted, procVars, listVars, jobVars,
     recVars, envVars
<1>10. Rescued'
  BY <1>1 DEF Order, Rescued, Publish, At, Goto, Fail, Persisted, procVars, listVars, jobVars,
     recVars, envVars
<1>11. Listed'
  BY <1>1 DEF Order, Listed, Publish, At, Goto, Fail, Persisted, procVars, listVars, jobVars,
     recVars, envVars
<1>12. Untold'
  BY <1>1 DEF Order, Untold, Swept, Holding, Publish, At, Goto, Fail, Persisted, procVars, listVars,
     jobVars, recVars, envVars
<1>13. Written'
  <2>1. running = j /\ \A i \in Job : i # j => ~Active(i)
    BY RolloverConstants DEF Order, OneAtATime, Active, Updating, At, Publish
  <2>2. pc'[j] \in {"window", "kill"} /\ \A i \in Job : i # j => pc'[i] = pc[i]
    BY <1>1 DEF Typed, TypeOK
  <2>3. running' = running /\ persistenceError' = persistenceError /\ lastDone' = lastDone
    BY DEF Publish, procVars, listVars, jobVars, recVars, envVars
  <2>4. \A i \in Job : pc'[i] \notin Ending
    BY <2>1, <2>2 DEF Active, Updating, Ending
  <2>5. \A i \in Job : pc'[i] \in {"window", "budget"} => Agreed'
    BY <2>1, <2>2 DEF Active, Updating, Publish, Persisted, Agreed, Fail, Goto, At, Typed, TypeOK
  <2>. QED
    BY <2>1, <2>3, <2>4, <2>5, RolloverConstants DEF Written
<1>14. WorkersAccountedFor'
  BY <1>1 DEF Order, WorkersAccountedFor, Orderly, Found, InHand, HeldBy, Serving, Publish, At,
     Goto, Fail, Persisted, procVars, listVars, jobVars, recVars, envVars
<1>. QED
  BY <1>2, <1>3, <1>4, <1>5, <1>6, <1>7, <1>8, <1>9, <1>10, <1>11, <1>12, <1>13, <1>14 DEF Order

LEMMA WindowOrder ==
  ASSUME Typed, Typed', Orderly, Orderly', Order, NEW j \in Job, Window(j)
  PROVE  Order'
<1>1. \E next \in {"budget", "kill"} : pc' = [pc EXCEPT ![j] = next]
  BY RolloverConstants DEF Window, Goto, Fail
<1>2. OneAtATime'
  BY <1>1 DEF Order, OneAtATime, Active, Updating, Window, At, Goto, Fail, procVars, listVars,
     jobVars, connVars, recVars, envVars
<1>3. Asked'
  BY <1>1 DEF Order, Asked, Window, At, Goto, Fail, procVars, listVars, jobVars, connVars, recVars,
     envVars
<1>4. Looking'
  BY <1>1 DEF Order, Looking, Window, At, Goto, Fail, procVars, listVars, jobVars, connVars,
     recVars, envVars
<1>5. Updates'
  BY <1>1 DEF Typed, TypeOK, Order, Updates, UpdateAt, Before, Replaced, PutBack, Ending, Holding,
     Window, At, Goto, Fail, procVars, listVars, jobVars, connVars, recVars, envVars
<1>6. Waiting'
  BY <1>1 DEF Typed, TypeOK, Order, Waiting, Window, At, Goto, Fail, procVars, listVars, jobVars,
     connVars, recVars, envVars
<1>7. Undoing'
  BY <1>1 DEF Typed, TypeOK, Order, Undoing, Window, At, Goto, Fail, procVars, listVars, jobVars,
     connVars, recVars, envVars
<1>8. Candidates'
  BY <1>1 DEF Order, Candidates, Unserved, OrNone, Window, At, Goto, Fail, procVars, listVars,
     jobVars, connVars, recVars, envVars
<1>9. Unborn'
  BY <1>1 DEF Order, Unborn, Window, At, Goto, Fail, procVars, listVars, jobVars, connVars, recVars,
     envVars
<1>10. Rescued'
  BY <1>1 DEF Order, Rescued, Window, At, Goto, Fail, procVars, listVars, jobVars, connVars,
     recVars, envVars
<1>11. Listed'
  BY <1>1 DEF Order, Listed, Window, At, Goto, Fail, procVars, listVars, jobVars, connVars, recVars,
     envVars
<1>12. Untold'
  BY <1>1 DEF Order, Untold, Swept, Holding, Window, At, Goto, Fail, procVars, listVars, jobVars,
     connVars, recVars, envVars
<1>13. Written'
  BY <1>1 DEF Order, Written, Agreed, Ending, Window, At, Goto, Fail, procVars, listVars, jobVars,
     connVars, recVars, envVars
<1>14. WorkersAccountedFor'
  BY <1>1 DEF Order, WorkersAccountedFor, Orderly, Found, InHand, HeldBy, Serving, Window, At, Goto,
     Fail, procVars, listVars, jobVars, connVars, recVars, envVars
<1>. QED
  BY <1>2, <1>3, <1>4, <1>5, <1>6, <1>7, <1>8, <1>9, <1>10, <1>11, <1>12, <1>13, <1>14 DEF Order

LEMMA BudgetOrder ==
  ASSUME Typed, Typed', Orderly, Orderly', Order, NEW j \in Job, Budget(j)
  PROVE  Order'
<1>1. OneAtATime'
  BY DEF Order, OneAtATime, Active, Updating, Budget, At, Goto, procVars, listVars, jobVars,
     connVars, localVars, envVars
<1>2. Asked'
  BY DEF Order, Asked, Budget, At, Goto, procVars, listVars, jobVars, connVars, localVars, envVars
<1>3. Looking'
  BY DEF Order, Looking, Budget, At, Goto, procVars, listVars, jobVars, connVars, localVars, envVars
<1>4. Updates'
  BY DEF Order, Updates, UpdateAt, Before, Replaced, PutBack, Ending, Holding, Budget, At, Goto,
     procVars, listVars, jobVars, connVars, localVars, envVars
<1>5. Waiting'
  BY DEF Order, Waiting, Updates, UpdateAt, Replaced, Budget, At, Goto, listVars, localVars
<1>6. Undoing'
  BY DEF Order, Undoing, Budget, At, Goto, procVars, listVars, jobVars, connVars, localVars, envVars
<1>7. Candidates'
  BY DEF Order, Candidates, Unserved, OrNone, Budget, At, Goto, procVars, listVars, jobVars,
     connVars, localVars, envVars
<1>8. Unborn'
  BY DEF Order, Unborn, Budget, At, Goto, procVars, listVars, jobVars, connVars, localVars, envVars
<1>9. Rescued'
  BY DEF Order, Rescued, Budget, At, Goto, procVars, listVars, jobVars, connVars, localVars, envVars
<1>10. Listed'
  BY DEF Order, Listed, Budget, At, Goto, procVars, listVars, jobVars, connVars, localVars, envVars
<1>11. Untold'
  BY DEF Order, Untold, Swept, Holding, Budget, At, Goto, procVars, listVars, jobVars, connVars,
     localVars, envVars
<1>12. Written'
  BY DEF Order, Written, Agreed, Ending, Budget, At, Goto, procVars, listVars, jobVars, connVars,
     localVars, envVars
<1>13. WorkersAccountedFor'
  BY DEF Order, WorkersAccountedFor, Orderly, Found, InHand, HeldBy, Serving, Budget, At, Goto,
     procVars, listVars, jobVars, connVars, localVars, envVars
<1>. QED
  BY <1>1, <1>2, <1>3, <1>4, <1>5, <1>6, <1>7, <1>8, <1>9, <1>10, <1>11, <1>12, <1>13 DEF Order

LEMMA KillCandidateOrder ==
  ASSUME Typed, Typed', Orderly, Orderly', Order, NEW j \in Job, KillCandidate(j)
  PROVE  Order'
<1>1. \E next \in {"reject", "unpublish"} : pc' = [pc EXCEPT ![j] = next]
  BY RolloverConstants DEF KillCandidate, Goto
<1>2. OneAtATime'
  BY <1>1 DEF Order, OneAtATime, Active, Updating, KillCandidate, At, Goto, listVars, jobVars,
     connVars, recVars, envVars
<1>3. Asked'
  BY <1>1 DEF Order, Asked, KillCandidate, At, Goto, listVars, jobVars, connVars, recVars, envVars
<1>4. Looking'
  BY <1>1 DEF Order, Looking, KillCandidate, At, Goto, listVars, jobVars, connVars, recVars, envVars
<1>5. Updates'
  BY <1>1 DEF Order, Updates, UpdateAt, Before, Replaced, PutBack, Ending, Holding, KillCandidate,
     At, Goto, listVars, jobVars, connVars, recVars, envVars
<1>6. Waiting'
  BY <1>1 DEF Order, Waiting, KillCandidate, At, Goto, listVars, jobVars, connVars, recVars, envVars
<1>7. Undoing'
  BY <1>1 DEF Order, Undoing, KillCandidate, At, Goto, listVars, jobVars, connVars, recVars, envVars
<1>8. Candidates'
  BY <1>1 DEF Typed, TypeOK, Order, Candidates, Unserved, OrNone, KillCandidate, At, Goto, listVars,
     jobVars, connVars, recVars, envVars
<1>9. Unborn'
  BY <1>1 DEF Order, Unborn, KillCandidate, At, Goto, listVars, jobVars, connVars, recVars, envVars
<1>10. Rescued'
  BY <1>1 DEF Order, Rescued, KillCandidate, At, Goto, listVars, jobVars, connVars, recVars, envVars
<1>11. Listed'
  BY <1>1 DEF Order, Listed, KillCandidate, At, Goto, listVars, jobVars, connVars, recVars, envVars
<1>12. Untold'
  BY <1>1 DEF Order, Untold, Swept, Holding, KillCandidate, At, Goto, listVars, jobVars, connVars,
     recVars, envVars
<1>13. Written'
  BY <1>1 DEF Order, Written, Agreed, Ending, KillCandidate, At, Goto, listVars, jobVars, connVars,
     recVars, envVars
<1>14. WorkersAccountedFor'
  BY <1>1 DEF Typed, TypeOK, Order, WorkersAccountedFor, Orderly, Found, InHand, HeldBy, Serving,
     KillCandidate, At, Goto, listVars, jobVars, connVars, recVars, envVars
<1>. QED
  BY <1>2, <1>3, <1>4, <1>5, <1>6, <1>7, <1>8, <1>9, <1>10, <1>11, <1>12, <1>13, <1>14 DEF Order

LEMMA RejectOrder ==
  ASSUME Typed, Typed', Orderly, Orderly', Order, NEW j \in Job, Reject(j)
  PROVE  Order'
<1>1. OneAtATime'
  BY DEF Order, OneAtATime, Active, Updating, Reject, At, Goto, procVars, listVars, jobVars,
     connVars, recVars, envVars
<1>2. Asked'
  BY DEF Order, Asked, Reject, At, Goto, procVars, listVars, jobVars, connVars, recVars, envVars
<1>3. Looking'
  BY DEF Order, Looking, Reject, At, Goto, procVars, listVars, jobVars, connVars, recVars, envVars
<1>4. Updates'
  BY DEF Typed, TypeOK, Order, Updates, UpdateAt, Before, Replaced, PutBack, Ending, Holding,
     Reject, At, Goto, procVars, listVars, jobVars, connVars, recVars, envVars
<1>5. Waiting'
  BY DEF Order, Waiting, Reject, At, Goto, procVars, listVars, jobVars, connVars, recVars, envVars
<1>6. Undoing'
  BY DEF Order, Undoing, Reject, At, Goto, procVars, listVars, jobVars, connVars, recVars, envVars
<1>7. Candidates'
  BY DEF Order, Candidates, Unserved, OrNone, Reject, At, Goto, procVars, listVars, jobVars,
     connVars, recVars, envVars
<1>8. Unborn'
  BY DEF Typed, TypeOK, Order, Unborn, Reject, At, Goto, procVars, listVars, jobVars, connVars,
     recVars, envVars
<1>9. Rescued'
  BY DEF Order, Rescued, Reject, At, Goto, procVars, listVars, jobVars, connVars, recVars, envVars
<1>10. Listed'
  BY DEF Order, Listed, Reject, At, Goto, procVars, listVars, jobVars, connVars, recVars, envVars
<1>11. Untold'
  BY DEF Order, Untold, Swept, Holding, Reject, At, Goto, procVars, listVars, jobVars, connVars,
     recVars, envVars
<1>12. Written'
  BY DEF Order, Written, Agreed, Ending, Reject, At, Goto, procVars, listVars, jobVars, connVars,
     recVars, envVars
<1>13. WorkersAccountedFor'
  BY DEF Order, WorkersAccountedFor, Orderly, Found, InHand, HeldBy, Serving, Reject, At, Goto,
     procVars, listVars, jobVars, connVars, recVars, envVars
<1>. QED
  BY <1>1, <1>2, <1>3, <1>4, <1>5, <1>6, <1>7, <1>8, <1>9, <1>10, <1>11, <1>12, <1>13 DEF Order

LEMMA RestoreOrder ==
  ASSUME Typed, Typed', Orderly, Orderly', Order, NEW j \in Job, Restore(j)
  PROVE  Order'
<1>1. OneAtATime'
  BY DEF Order, OneAtATime, Active, Updating, Restore, At, Goto, procVars, jobVars, connVars,
     localVars, recVars, envVars
<1>2. Asked'
  BY DEF Order, Asked, Restore, At, Goto, procVars, jobVars, connVars, localVars, recVars, envVars
<1>3. Looking'
  BY DEF Order, Looking, Restore, At, Goto, procVars, jobVars, connVars, localVars, recVars, envVars
<1>4. Updates'
  BY RolloverConstants DEF Typed, TypeOK, Order, Updates, UpdateAt, Before, Replaced, PutBack,
     Ending, Holding, OneAtATime, Active, Updating, Restore, At, Goto, procVars, jobVars, connVars,
     localVars, recVars, envVars
<1>5. Waiting'
  BY RolloverConstants DEF Typed, TypeOK, Order, Waiting, OneAtATime, Active, Updating, Restore, At,
     Goto, procVars, jobVars, connVars, localVars, recVars, envVars
<1>6. Undoing'
  BY DEF Order, Undoing, Restore, At, Goto, procVars, jobVars, connVars, localVars, recVars, envVars
<1>7. Candidates'
  <2>1. candidate[j] = NoWorker
    BY DEF Order, Candidates, At, Restore
  <2>2. Active(j)
    BY DEF Active, Updating, At, Restore
  <2>3. candidate' = candidate /\ rescue' = rescue
    BY DEF Restore, procVars, jobVars, connVars, localVars, recVars, envVars
  <2>. QED
    BY <2>1, <2>2, <2>3, OneUpdate DEF Candidates
<1>8. Unborn'
  BY DEF Order, Unborn, Restore, At, Goto, procVars, jobVars, connVars, localVars, recVars, envVars
<1>9. Rescued'
  BY RolloverConstants DEF Typed, TypeOK, Order, Rescued, OneAtATime, Active, Updating, Restore, At,
     Goto, procVars, jobVars, connVars, localVars, recVars, envVars
<1>10. Listed'
  BY DEF Typed, TypeOK, Order, Listed, Restore, At, Goto, procVars, jobVars, connVars, localVars,
     recVars, envVars
<1>11. Untold'
  BY RolloverConstants DEF Typed, TypeOK, Order, Untold, Swept, Holding, OneAtATime, Active,
     Updating, Restore, At, Goto, procVars, jobVars, connVars, localVars, recVars, envVars
<1>12. Written'
  BY DEF Order, Written, Agreed, Ending, Restore, At, Goto, procVars, jobVars, connVars, localVars,
     recVars, envVars
<1>13. WorkersAccountedFor'
  BY DEF Order, WorkersAccountedFor, Found, InHand, HeldBy, Updates, UpdateAt, Restore, At, Goto,
     procVars, localVars, recVars
<1>. QED
  BY <1>1, <1>2, <1>3, <1>4, <1>5, <1>6, <1>7, <1>8, <1>9, <1>10, <1>11, <1>12, <1>13 DEF Order

LEMMA RelistOrder ==
  ASSUME Typed, Typed', Orderly, Orderly', Order, NEW j \in Job, Relist(j)
  PROVE  Order'
<1>1. OneAtATime'
  BY DEF Order, OneAtATime, Active, Updating, Relist, At, Goto, Telling, jobVars, connVars,
     localVars, recVars, envVars
<1>2. Asked'
  BY DEF Order, Asked, Relist, At, Goto, Telling, jobVars, connVars, localVars, recVars, envVars
<1>3. Looking'
  BY DEF Order, Looking, Relist, At, Goto, Telling, jobVars, connVars, localVars, recVars, envVars
<1>4. Updates'
  BY DEF Order, Updates, UpdateAt, Before, Replaced, PutBack, Ending, Holding, Relist, At, Goto,
     Telling, jobVars, connVars, localVars, recVars, envVars
<1>5. Waiting'
  BY RolloverConstants DEF Typed, TypeOK, Order, Waiting, OneAtATime, Active, Updating, Relist, At,
     Goto, Telling, jobVars, connVars, localVars, recVars, envVars
<1>6. Undoing'
  BY DEF Order, Undoing, Relist, At, Goto, Telling, jobVars, connVars, localVars, recVars, envVars
<1>7. Candidates'
  BY RolloverConstants DEF Order, Candidates, OneAtATime, Active, Updating, Relist, At, localVars,
     recVars
<1>8. Unborn'
  BY DEF Order, Unborn, Relist, At, Goto, Telling, jobVars, connVars, localVars, recVars, envVars
<1>9. Rescued'
  BY DEF Order, Rescued, Relist, At, Goto, Telling, jobVars, connVars, localVars, recVars, envVars
<1>10. Listed'
  BY RolloverConstants DEF Typed, LocalsSet, Order, Listed, Updates, UpdateAt, PutBack, Relist, At
<1>11. Untold'
  BY RolloverConstants DEF Typed, LocalsSet, Order, Untold, Swept, Holding, Updates, UpdateAt,
     OneAtATime, Active, Updating, PutBack, Relist, At, Goto, Telling, localVars, envVars
<1>12. Written'
  BY DEF Order, Written, Agreed, Ending, Relist, At, Goto, Telling, jobVars, connVars, localVars,
     recVars, envVars
<1>13. WorkersAccountedFor'
  <2>1. /\ \A i \in Job : i # j => ~Active(i)
        /\ rescue.at = "none" /\ candidate[j] = NoWorker
    <3>1. Active(j) /\ candidate[j] = NoWorker
      BY DEF Active, Updating, At, Relist, Order, Candidates
    <3>. QED
      BY <3>1, OneUpdate
  <2>2. current = previous[j]
    <3>1. pc[j] = "relist" /\ previous[j] # NoWorker
      BY RolloverConstants DEF Typed, LocalsSet, At, Relist
    <3>. QED
      BY <3>1 DEF Order, Updates, UpdateAt, PutBack
  <2>3. \A v \in Worker : "close" \in told[v] => "close" \in told'[v]
    BY DEF Typed, TypeOK, Relist, Telling
  <2>4. current' = current /\ proc' = proc /\ retiring' = (retiring \ {previous[j]}) \cup {rejected[j]}
    BY DEF Relist
  <2>5. ASSUME NEW v \in Worker, InHand(v) PROVE v = rejected[j]
    <3>1. \A i \in Job : candidate[i] # v
      <4>1. Active(j)
        BY DEF Active, Updating, At, Relist
      <4>. QED
        BY <2>1, <4>1, OneUpdate, RolloverConstants
    <3>. QED
      BY <2>1, <2>5, <3>1 DEF InHand, HeldBy, Active, Updating, Relist, At
  <2>6. ASSUME NEW v \in Worker, Found(v) PROVE Found(v)'
    BY <2>2, <2>3, <2>4, <2>5, <2>6 DEF Found
  <2>. QED
    BY <2>4, <2>6 DEF Order, WorkersAccountedFor, Relist, At
<1>. QED
  BY <1>1, <1>2, <1>3, <1>4, <1>5, <1>6, <1>7, <1>8, <1>9, <1>10, <1>11, <1>12, <1>13 DEF Order

LEMMA DiscardOrder ==
  ASSUME Typed, Typed', Orderly, Orderly', Order, NEW j \in Job, Discard(j)
  PROVE  Order'
<1>1. OneAtATime'
  BY DEF Order, OneAtATime, Active, Updating, Discard, At, Goto, Retire, Telling, jobVars, connVars,
     localVars, recVars, envVars
<1>2. Asked'
  BY DEF Order, Asked, Discard, At, Goto, Retire, Telling, jobVars, connVars, localVars, recVars,
     envVars
<1>3. Looking'
  BY DEF Order, Looking, Discard, At, Goto, Retire, Telling, jobVars, connVars, localVars, recVars,
     envVars
<1>4. Updates'
  BY DEF Order, Updates, UpdateAt, Before, Replaced, PutBack, Ending, Holding, Discard, At, Goto,
     Retire, Telling, jobVars, connVars, localVars, recVars, envVars
<1>5. Waiting'
  BY RolloverConstants DEF Typed, TypeOK, Order, Waiting, OneAtATime, Active, Updating, Discard, At,
     Goto, Retire, Telling, jobVars, connVars, localVars, recVars, envVars
<1>6. Undoing'
  BY DEF Order, Undoing, Discard, At, Goto, Retire, Telling, jobVars, connVars, localVars, recVars,
     envVars
<1>7. Candidates'
  <2>1. candidate[j] = NoWorker
    BY DEF Order, Candidates, At, Discard
  <2>2. Active(j)
    BY DEF Active, Updating, At, Discard
  <2>3. candidate' = candidate /\ rescue' = rescue
    BY DEF Discard, jobVars, connVars, localVars, recVars, envVars
  <2>. QED
    BY <2>1, <2>2, <2>3, OneUpdate DEF Candidates
<1>8. Unborn'
  BY DEF Typed, TypeOK, Order, Unborn, Discard, At, Goto, Retire, Telling, jobVars, connVars,
     localVars, recVars, envVars
<1>9. Rescued'
  BY DEF Order, Rescued, Discard, At, Goto, Retire, Telling, jobVars, connVars, localVars, recVars,
     envVars
<1>10. Listed'
  BY DEF Order, Listed, Discard, At, Goto, Retire, Telling, jobVars, connVars, localVars, recVars,
     envVars
<1>11. Untold'
  <2>1. /\ \A i \in Job : i # j => ~Active(i)
        /\ pc[j] = "discard" /\ pc' = [pc EXCEPT ![j] = "unpublish"]
    BY DEF Order, OneAtATime, Active, Updating, At, Goto, Discard
  <2>2. current \notin retiring
    BY <2>1 DEF Order, Listed, Active, Updating
  <2>3. Retire(rejected[j])
    BY DEF Discard
  <2>4. told'[current] = told[current] /\ UNCHANGED <<current, previous, supervisor>>
    BY <2>2, <2>3, Retires DEF Typed, TypeOK, Discard, localVars, envVars
  <2>5. ASSUME NEW i \in Job, Holding(i)' PROVE Holding(i) /\ told'[previous[i]] = told[previous[i]]
    <3>1. Holding(i)
      BY <2>1, <2>4, <2>5 DEF Holding, Typed, TypeOK
    <3>2. previous[i] \in preserved
      BY <3>1 DEF Order, Updates, UpdateAt
    <3>. QED
      BY <2>3, <3>1, <3>2, Retires DEF Typed, TypeOK
  <2>. QED
    BY <2>4, <2>5 DEF Order, Untold, Swept
<1>12. Written'
  BY DEF Order, Written, Agreed, Ending, Discard, At, Goto, Retire, Telling, jobVars, connVars,
     localVars, recVars, envVars
<1>13. WorkersAccountedFor'
  BY DEF Typed, TypeOK, Order, WorkersAccountedFor, Orderly, Found, InHand, HeldBy, Serving,
     Discard, At, Goto, Retire, Telling, jobVars, connVars, localVars, recVars, envVars
<1>. QED
  BY <1>1, <1>2, <1>3, <1>4, <1>5, <1>6, <1>7, <1>8, <1>9, <1>10, <1>11, <1>12, <1>13 DEF Order

LEMMA UnpublishOrder ==
  ASSUME Typed, Typed', Orderly, Orderly', Order, NEW j \in Job, Unpublish(j)
  PROVE  Order'
<1>1. OneAtATime'
  BY DEF Order, OneAtATime, Active, Updating, Unpublish, At, Goto, Persisted, procVars, listVars,
     localVars, recVars, envVars
<1>2. Asked'
  BY DEF Order, Asked, Unpublish, At, Goto, Persisted, procVars, listVars, localVars, recVars,
     envVars
<1>3. Looking'
  BY DEF Order, Looking, Unpublish, At, Goto, Persisted, procVars, listVars, localVars, recVars,
     envVars
<1>4. Updates'
  BY DEF Order, Updates, UpdateAt, Before, Replaced, PutBack, Ending, Holding, Unpublish, At, Goto,
     Persisted, procVars, listVars, localVars, recVars, envVars
<1>5. Waiting'
  BY DEF Order, Waiting, Undoing, Unpublish, At, Goto, listVars, localVars
<1>6. Undoing'
  BY DEF Order, Undoing, Unpublish, At, Goto, Persisted, procVars, listVars, localVars, recVars,
     envVars
<1>7. Candidates'
  BY DEF Order, Candidates, Unserved, OrNone, Unpublish, At, Goto, Persisted, procVars, listVars,
     localVars, recVars, envVars
<1>8. Unborn'
  BY DEF Order, Unborn, Unpublish, At, Goto, Persisted, procVars, listVars, localVars, recVars,
     envVars
<1>9. Rescued'
  BY DEF Order, Rescued, Unpublish, At, Goto, Persisted, procVars, listVars, localVars, recVars,
     envVars
<1>10. Listed'
  BY DEF Order, Listed, Unpublish, At, Goto, Persisted, procVars, listVars, localVars, recVars,
     envVars
<1>11. Untold'
  BY DEF Order, Untold, Swept, Holding, Unpublish, At, Goto, Persisted, procVars, listVars,
     localVars, recVars, envVars
<1>12. Written'
  <2>1. running = j /\ \A i \in Job : i # j => ~Active(i)
    BY OneUpdate DEF Active, Updating, At, Unpublish
  <2>2. pc' = [pc EXCEPT ![j] = "release"] /\ running' = running /\ connector' = connector
    BY DEF Unpublish, Goto
  <2>3. Agreed' \/ persistenceError'[j]
    BY <2>1, <2>2, RolloverConstants DEF Unpublish, Persisted, Agreed, Typed, TypeOK
  <2>4. \A i \in Job : i # j => pc'[i] \notin Ending \cup {"window", "budget"}
    BY <2>1, <2>2 DEF Active, Updating, Ending, Typed, TypeOK
  <2>5. pc'[j] = "release" /\ running' # NoJob
    BY <2>1, <2>2, RolloverConstants DEF Typed, TypeOK
  <2>. QED
    BY <2>3, <2>4, <2>5 DEF Written, Ending
<1>13. WorkersAccountedFor'
  BY DEF Order, WorkersAccountedFor, Orderly, Found, InHand, HeldBy, Serving, Unpublish, At, Goto,
     Persisted, procVars, listVars, localVars, recVars, envVars
<1>. QED
  BY <1>1, <1>2, <1>3, <1>4, <1>5, <1>6, <1>7, <1>8, <1>9, <1>10, <1>11, <1>12, <1>13 DEF Order

LEMMA ReleaseOrder ==
  ASSUME Typed, Typed', Orderly, Orderly', Order, NEW j \in Job, Release(j)
  PROVE  Order'
<1>1. OneAtATime'
  BY DEF Order, OneAtATime, Active, Updating, Release, At, Goto, procVars, jobVars, connVars,
     localVars, recVars, envVars
<1>2. Asked'
  BY DEF Order, Asked, Release, At, Goto, procVars, jobVars, connVars, localVars, recVars, envVars
<1>3. Looking'
  BY DEF Order, Looking, Release, At, Goto, procVars, jobVars, connVars, localVars, recVars, envVars
<1>4. Updates'
  BY RolloverConstants DEF Typed, TypeOK, Order, Updates, UpdateAt, Before, Replaced, PutBack,
     Ending, Holding, OneAtATime, Active, Updating, Release, At, Goto, procVars, jobVars, connVars,
     localVars, recVars, envVars
<1>5. Waiting'
  BY DEF Order, Waiting, Release, At, Goto, procVars, jobVars, connVars, localVars, recVars, envVars
<1>6. Undoing'
  BY DEF Order, Undoing, Release, At, Goto, procVars, jobVars, connVars, localVars, recVars, envVars
<1>7. Candidates'
  BY DEF Order, Candidates, Unserved, OrNone, Release, At, Goto, procVars, jobVars, connVars,
     localVars, recVars, envVars
<1>8. Unborn'
  BY DEF Order, Unborn, Release, At, Goto, procVars, jobVars, connVars, localVars, recVars, envVars
<1>9. Rescued'
  BY DEF Order, Rescued, Release, At, Goto, procVars, jobVars, connVars, localVars, recVars, envVars
<1>10. Listed'
  BY DEF Order, Listed, Release, At, Goto, procVars, jobVars, connVars, localVars, recVars, envVars
<1>11. Untold'
  BY DEF Order, Untold, Swept, Holding, Release, At, Goto, procVars, jobVars, connVars, localVars,
     recVars, envVars
<1>12. Written'
  BY DEF Order, Written, Agreed, Ending, Release, At, Goto, procVars, jobVars, connVars, localVars,
     recVars, envVars
<1>13. WorkersAccountedFor'
  BY DEF Order, WorkersAccountedFor, Orderly, Found, InHand, HeldBy, Serving, Release, At, Goto,
     procVars, jobVars, connVars, localVars, recVars, envVars
<1>. QED
  BY <1>1, <1>2, <1>3, <1>4, <1>5, <1>6, <1>7, <1>8, <1>9, <1>10, <1>11, <1>12, <1>13 DEF Order

LEMMA TellOrder ==
  ASSUME Typed, Typed', Orderly, Orderly', Order, NEW j \in Job, Tell(j)
  PROVE  Order'
<1>1. OneAtATime'
  BY DEF Order, OneAtATime, Active, Updating, Tell, At, Goto, Telling, listVars, jobVars, connVars,
     localVars, recVars, envVars
<1>2. Asked'
  BY DEF Order, Asked, Tell, At, Goto, Telling, listVars, jobVars, connVars, localVars, recVars,
     envVars
<1>3. Looking'
  BY DEF Order, Looking, Tell, At, Goto, Telling, listVars, jobVars, connVars, localVars, recVars,
     envVars
<1>4. Updates'
  BY DEF Order, Updates, UpdateAt, Before, Replaced, PutBack, Ending, Holding, Tell, At, Goto,
     Telling, listVars, jobVars, connVars, localVars, recVars, envVars
<1>5. Waiting'
  BY DEF Order, Waiting, Tell, At, Goto, Telling, listVars, jobVars, connVars, localVars, recVars,
     envVars
<1>6. Undoing'
  BY DEF Order, Undoing, Tell, At, Goto, Telling, listVars, jobVars, connVars, localVars, recVars,
     envVars
<1>7. Candidates'
  BY DEF Order, Candidates, Unserved, OrNone, Tell, At, Goto, Telling, listVars, jobVars, connVars,
     localVars, recVars, envVars
<1>8. Unborn'
  BY DEF Order, Unborn, Tell, At, Goto, Telling, listVars, jobVars, connVars, localVars, recVars,
     envVars
<1>9. Rescued'
  BY DEF Order, Rescued, Tell, At, Goto, Telling, listVars, jobVars, connVars, localVars, recVars,
     envVars
<1>10. Listed'
  BY DEF Order, Listed, Tell, At, Goto, Telling, listVars, jobVars, connVars, localVars, recVars,
     envVars
<1>11. Untold'
  <2>1. /\ \A i \in Job : i # j => ~Active(i)
        /\ pc[j] = "tell" /\ pc' = [pc EXCEPT ![j] = "drop"]
    BY DEF Order, OneAtATime, Active, Updating, At, Goto, Tell
  <2>2. current \notin retiring
    BY <2>1 DEF Order, Listed, Active, Updating
  <2>3. told'[current] = told[current]
    BY <2>2 DEF Tell, Telling, Typed, TypeOK
  <2>4. \A i \in Job : ~Holding(i)'
    BY <2>1 DEF Holding, Active, Updating, Typed, TypeOK
  <2>. QED
    BY <2>3, <2>4 DEF Order, Untold, Swept, Tell, listVars, envVars
<1>12. Written'
  BY DEF Order, Written, Agreed, Ending, Tell, At, Goto, Telling, listVars, jobVars, connVars,
     localVars, recVars, envVars
<1>13. WorkersAccountedFor'
  BY DEF Order, WorkersAccountedFor, Orderly, Found, InHand, HeldBy, Serving, Tell, At, Goto,
     Telling, listVars, jobVars, connVars, localVars, recVars, envVars
<1>. QED
  BY <1>1, <1>2, <1>3, <1>4, <1>5, <1>6, <1>7, <1>8, <1>9, <1>10, <1>11, <1>12, <1>13 DEF Order

LEMMA DropOrder ==
  ASSUME Typed, Typed', Orderly, Orderly', Order, NEW j \in Job, Drop(j)
  PROVE  Order'
<1>1. OneAtATime'
  BY DEF Order, OneAtATime, Active, Updating, Drop, At, Goto, Retire, Telling, jobVars, connVars,
     localVars, recVars, envVars
<1>2. Asked'
  BY DEF Order, Asked, Drop, At, Goto, Retire, Telling, jobVars, connVars, localVars, recVars,
     envVars
<1>3. Looking'
  BY DEF Order, Looking, Drop, At, Goto, Retire, Telling, jobVars, connVars, localVars, recVars,
     envVars
<1>4. Updates'
  BY DEF Order, Updates, UpdateAt, Before, Replaced, PutBack, Ending, Holding, Drop, At, Goto,
     Retire, Telling, jobVars, connVars, localVars, recVars, envVars
<1>5. Waiting'
  BY RolloverConstants DEF Typed, TypeOK, Order, Waiting, OneAtATime, Active, Updating, Drop, At,
     Goto, Retire, Telling, jobVars, connVars, localVars, recVars, envVars
<1>6. Undoing'
  BY DEF Order, Undoing, Drop, At, Goto, Retire, Telling, jobVars, connVars, localVars, recVars,
     envVars
<1>7. Candidates'
  <2>1. candidate[j] = NoWorker
    BY DEF Order, Candidates, At, Drop
  <2>2. Active(j)
    BY DEF Active, Updating, At, Drop
  <2>3. candidate' = candidate /\ rescue' = rescue
    BY DEF Drop, jobVars, connVars, localVars, recVars, envVars
  <2>. QED
    BY <2>1, <2>2, <2>3, OneUpdate DEF Candidates
<1>8. Unborn'
  BY DEF Typed, TypeOK, Order, Unborn, Drop, At, Goto, Retire, Telling, jobVars, connVars,
     localVars, recVars, envVars
<1>9. Rescued'
  BY DEF Order, Rescued, Drop, At, Goto, Retire, Telling, jobVars, connVars, localVars, recVars,
     envVars
<1>10. Listed'
  BY DEF Order, Listed, Drop, At, Goto, Retire, Telling, jobVars, connVars, localVars, recVars,
     envVars
<1>11. Untold'
  <2>1. /\ \A i \in Job : i # j => ~Active(i)
        /\ pc[j] = "drop" /\ pc' = [pc EXCEPT ![j] = "report"]
    BY DEF Order, OneAtATime, Active, Updating, At, Goto, Drop
  <2>2. current \notin retiring
    BY <2>1 DEF Order, Listed, Active, Updating
  <2>3. told'[current] = told[current]
    BY <2>2, Retires DEF Drop, Typed, TypeOK
  <2>4. \A i \in Job : ~Holding(i)'
    BY <2>1 DEF Holding, Active, Updating, Typed, TypeOK
  <2>. QED
    BY <2>3, <2>4 DEF Order, Untold, Swept, Drop, envVars
<1>12. Written'
  BY DEF Order, Written, Agreed, Ending, Drop, At, Goto, Retire, Telling, jobVars, connVars,
     localVars, recVars, envVars
<1>13. WorkersAccountedFor'
  BY DEF Typed, TypeOK, Order, WorkersAccountedFor, Orderly, Found, InHand, HeldBy, Serving, Drop,
     At, Goto, Retire, Telling, jobVars, connVars, localVars, recVars, envVars
<1>. QED
  BY <1>1, <1>2, <1>3, <1>4, <1>5, <1>6, <1>7, <1>8, <1>9, <1>10, <1>11, <1>12, <1>13 DEF Order

LEMMA ReportOrder ==
  ASSUME Typed, Typed', Orderly, Orderly', Order, NEW j \in Job, Report(j)
  PROVE  Order'
<1>1. OneAtATime'
  BY DEF Order, OneAtATime, Active, Updating, Report, At, Goto, procVars, listVars, connVars,
     localVars, recVars, envVars
<1>2. Asked'
  BY DEF Order, Asked, Report, At, Goto, procVars, listVars, connVars, localVars, recVars, envVars
<1>3. Looking'
  BY DEF Order, Looking, Report, At, Goto, procVars, listVars, connVars, localVars, recVars, envVars
<1>4. Updates'
  BY DEF Order, Updates, UpdateAt, Before, Replaced, PutBack, Ending, Holding, Report, At, Goto,
     procVars, listVars, connVars, localVars, recVars, envVars
<1>5. Waiting'
  BY DEF Order, Waiting, Report, At, Goto, procVars, listVars, connVars, localVars, recVars, envVars
<1>6. Undoing'
  BY DEF Order, Undoing, Report, At, Goto, procVars, listVars, connVars, localVars, recVars, envVars
<1>7. Candidates'
  BY DEF Order, Candidates, Unserved, OrNone, Report, At, Goto, procVars, listVars, connVars,
     localVars, recVars, envVars
<1>8. Unborn'
  BY DEF Order, Unborn, Report, At, Goto, procVars, listVars, connVars, localVars, recVars, envVars
<1>9. Rescued'
  BY DEF Order, Rescued, Report, At, Goto, procVars, listVars, connVars, localVars, recVars, envVars
<1>10. Listed'
  BY DEF Order, Listed, Report, At, Goto, procVars, listVars, connVars, localVars, recVars, envVars
<1>11. Untold'
  BY DEF Order, Untold, Swept, Holding, Report, At, Goto, procVars, listVars, connVars, localVars,
     recVars, envVars
<1>12. Written'
  BY DEF Order, Written, Agreed, Ending, Report, At, Goto, procVars, listVars, connVars, localVars,
     recVars, envVars
<1>13. WorkersAccountedFor'
  BY DEF Order, WorkersAccountedFor, Orderly, Found, InHand, HeldBy, Serving, Report, At, Goto,
     procVars, listVars, connVars, localVars, recVars, envVars
<1>. QED
  BY <1>1, <1>2, <1>3, <1>4, <1>5, <1>6, <1>7, <1>8, <1>9, <1>10, <1>11, <1>12, <1>13 DEF Order

LEMMA DoneOrder ==
  ASSUME Typed, Typed', Orderly, Orderly', Order, NEW j \in Job, Done(j)
  PROVE  Order'
<1>1. OneAtATime'
  BY RolloverConstants DEF Typed, TypeOK, Order, OneAtATime, Active, Updating, Done, At, Goto,
     procVars, listVars, connVars, localVars, recVars, envVars
<1>2. Asked'
  BY DEF Order, Asked, Done, At, Goto, procVars, listVars, connVars, localVars, recVars, envVars
<1>3. Looking'
  BY DEF Order, Looking, Done, At, Goto, procVars, listVars, connVars, localVars, recVars, envVars
<1>4. Updates'
  BY DEF Order, Updates, UpdateAt, Before, Replaced, PutBack, Ending, Holding, Done, At, Goto,
     procVars, listVars, connVars, localVars, recVars, envVars
<1>5. Waiting'
  BY DEF Order, Waiting, Done, At, Goto, procVars, listVars, connVars, localVars, recVars, envVars
<1>6. Undoing'
  BY DEF Order, Undoing, Done, At, Goto, procVars, listVars, connVars, localVars, recVars, envVars
<1>7. Candidates'
  BY DEF Order, Candidates, Unserved, OrNone, Done, At, Goto, procVars, listVars, connVars,
     localVars, recVars, envVars
<1>8. Unborn'
  BY DEF Order, Unborn, Done, At, Goto, procVars, listVars, connVars, localVars, recVars, envVars
<1>9. Rescued'
  BY DEF Order, Rescued, Done, At, Goto, procVars, listVars, connVars, localVars, recVars, envVars
<1>10. Listed'
  BY DEF Order, Listed, Done, At, Goto, procVars, listVars, connVars, localVars, recVars, envVars
<1>11. Untold'
  BY DEF Order, Untold, Swept, Holding, Done, At, Goto, procVars, listVars, connVars, localVars,
     recVars, envVars
<1>12. Written'
  BY RolloverConstants DEF Typed, TypeOK, Order, Written, Agreed, Ending, OneAtATime, Active,
     Updating, Done, At, Goto, procVars, listVars, connVars, localVars, recVars, envVars
<1>13. WorkersAccountedFor'
  BY DEF Order, WorkersAccountedFor, Orderly, Found, InHand, HeldBy, Serving, Done, At, Goto,
     procVars, listVars, connVars, localVars, recVars, envVars
<1>. QED
  BY <1>1, <1>2, <1>3, <1>4, <1>5, <1>6, <1>7, <1>8, <1>9, <1>10, <1>11, <1>12, <1>13 DEF Order

LEMMA LookOrder ==
  ASSUME Typed, Typed', Orderly, Orderly', Order, NEW k \in Job \cup {Poller}, Look(k)
  PROVE  Order'
<1>1. OneAtATime'
  BY DEF Typed, TypeOK, Order, OneAtATime, Active, Updating, Look, Goto, procVars, listVars,
     jobVars, connVars, localVars, recVars, envVars
<1>2. Asked'
  BY DEF Typed, TypeOK, Order, Asked, Look, Goto, procVars, listVars, jobVars, connVars, localVars,
     recVars, envVars
<1>3. Looking'
  BY RolloverConstants DEF Typed, TypeOK, Order, Looking, OneAtATime, Active, Updating, Look, Goto,
     procVars, listVars, jobVars, connVars, localVars, recVars, envVars
<1>4. Updates'
  BY DEF Typed, TypeOK, Order, Updates, UpdateAt, Before, Replaced, PutBack, Ending, Holding, Look,
     Goto, procVars, listVars, jobVars, connVars, localVars, recVars, envVars
<1>5. Waiting'
  BY DEF Typed, TypeOK, Order, Waiting, Look, Goto, procVars, listVars, jobVars, connVars,
     localVars, recVars, envVars
<1>6. Undoing'
  BY DEF Typed, TypeOK, Order, Undoing, Look, Goto, procVars, listVars, jobVars, connVars,
     localVars, recVars, envVars
<1>7. Candidates'
  BY DEF Typed, TypeOK, Order, Candidates, Unserved, OrNone, Look, Goto, procVars, listVars,
     jobVars, connVars, localVars, recVars, envVars
<1>8. Unborn'
  BY DEF Typed, TypeOK, Order, Unborn, Look, Goto, procVars, listVars, jobVars, connVars, localVars,
     recVars, envVars
<1>9. Rescued'
  BY DEF Order, Rescued, Look, Goto, procVars, listVars, jobVars, connVars, localVars, recVars,
     envVars
<1>10. Listed'
  BY DEF Typed, TypeOK, Order, Listed, Look, Goto, procVars, listVars, jobVars, connVars, localVars,
     recVars, envVars
<1>11. Untold'
  BY DEF Typed, TypeOK, Order, Untold, Swept, Holding, Look, Goto, procVars, listVars, jobVars,
     connVars, localVars, recVars, envVars
<1>12. Written'
  BY DEF Typed, TypeOK, Order, Written, Agreed, Ending, Look, Goto, procVars, listVars, jobVars,
     connVars, localVars, recVars, envVars
<1>13. WorkersAccountedFor'
  BY DEF Typed, TypeOK, Order, WorkersAccountedFor, Orderly, Found, InHand, HeldBy, Serving, Look,
     Goto, procVars, listVars, jobVars, connVars, localVars, recVars, envVars
<1>. QED
  BY <1>1, <1>2, <1>3, <1>4, <1>5, <1>6, <1>7, <1>8, <1>9, <1>10, <1>11, <1>12, <1>13 DEF Order

LEMMA DecideOrder ==
  ASSUME Typed, Typed', Orderly, Orderly', Order, NEW k \in Job \cup {Poller}, Decide(k)
  PROVE  Order'
<1>1. \A i \in Job : pc'[i] # pc[i] => i = k /\ pc[i] = "decide" /\ pc'[i] = "over"
  BY RolloverConstants DEF Typed, TypeOK, Order, Looking, Decide, Goto
<1>2. OneAtATime'
  <2>1. running' = running /\ \A i \in Job : Active(i)' <=> Active(i)
    BY <1>1 DEF Active, Updating, Decide, jobVars
  <2>2. CASE MayRecover(looked[k])
    <3>1. recovering' = TRUE /\ rescue'.at = "start" /\ Updating = {}
      <4>1. recovering' = TRUE /\ rescue' = [at |-> "start", previous |-> looked[k], next |-> NoWorker]
        BY <2>2 DEF Decide
      <4>2. entangled' = (entangled \/ Updating # {} \/ looked[k] # current)
        BY <2>2 DEF Decide
      <4>. QED
        BY <4>1, <4>2 DEF Orderly
    <3>. QED
      BY <2>1, <3>1 DEF Typed, TypeOK, Order, OneAtATime, Active
  <2>3. CASE ~MayRecover(looked[k])
    BY <2>1, <2>3 DEF Order, OneAtATime, Decide, recVars
  <2>. QED
    BY <2>2, <2>3
<1>3. Asked'
  BY <1>1 DEF Order, Asked, Decide, Goto, MayRecover, procVars, listVars, jobVars, connVars,
     localVars, recVars, envVars
<1>4. Looking'
  BY <1>1 DEF Typed, TypeOK, Order, Looking, Decide, Goto, MayRecover, procVars, listVars, jobVars,
     connVars, localVars, recVars, envVars
<1>5. Updates'
  BY <1>1 DEF Order, Updates, UpdateAt, Before, Replaced, PutBack, Ending, Holding, Decide, Goto,
     MayRecover, procVars, listVars, jobVars, connVars, localVars, recVars, envVars
<1>6. Waiting'
  BY <1>1 DEF Order, Waiting, Decide, Goto, MayRecover, procVars, listVars, jobVars, connVars,
     localVars, recVars, envVars
<1>7. Undoing'
  BY <1>1 DEF Order, Undoing, Decide, Goto, MayRecover, procVars, listVars, jobVars, connVars,
     localVars, recVars, envVars
<1>8. Candidates'
  BY <1>1 DEF Order, Candidates, Unserved, OrNone, Decide, Goto, MayRecover, procVars, listVars,
     jobVars, connVars, localVars, recVars, envVars
<1>9. Unborn'
  BY <1>1 DEF Order, Unborn, Decide, Goto, MayRecover, procVars, listVars, jobVars, connVars,
     localVars, recVars, envVars
<1>10. Rescued'
  <2>1. CASE MayRecover(looked[k])
    <3>1. rescue' = [at |-> "start", previous |-> looked[k], next |-> NoWorker] /\ looked[k] = current
      BY <2>1 DEF Decide, Orderly
    <3>2. proc[looked[k]] = "exited" /\ proc' = proc /\ current' = current
      BY <2>1 DEF Decide, MayRecover, procVars, listVars
    <3>. QED
      BY <3>1, <3>2 DEF Rescued
  <2>2. CASE ~MayRecover(looked[k])
    BY <2>2 DEF Order, Rescued, Decide, recVars, procVars, listVars
  <2>. QED
    BY <2>1, <2>2
<1>11. Listed'
  BY <1>1 DEF Order, Listed, Decide, Goto, MayRecover, procVars, listVars, jobVars, connVars,
     localVars, recVars, envVars
<1>12. Untold'
  BY <1>1 DEF Order, Untold, Swept, Holding, Decide, Goto, MayRecover, procVars, listVars, jobVars,
     connVars, localVars, recVars, envVars
<1>13. Written'
  BY <1>1 DEF Order, Written, Agreed, Ending, Decide, Goto, MayRecover, procVars, listVars, jobVars,
     connVars, localVars, recVars, envVars
<1>14. WorkersAccountedFor'
  BY <1>1, RolloverConstants DEF Typed, TypeOK, Order, WorkersAccountedFor, Orderly, Found, InHand,
     HeldBy, Serving, OneAtATime, Active, Updating, Decide, Goto, MayRecover, procVars, listVars,
     jobVars, connVars, localVars, recVars, envVars
<1>. QED
  BY <1>2, <1>3, <1>4, <1>5, <1>6, <1>7, <1>8, <1>9, <1>10, <1>11, <1>12, <1>13, <1>14 DEF Order

LEMMA RescueStartsOrder ==
  ASSUME Typed, Typed', Orderly, Orderly', Order, RescueStarts
  PROVE  Order'
<1>1. /\ rescue.at = "start" /\ rescue.previous \in Worker
      /\ UNCHANGED <<told, listVars, jobVars, connVars, pc, localVars, looked, recovering, entangled, supervisor>>
  BY DEF RescueStarts, Typed, LocalsSet, envVars
<1>. USE <1>1 DEF listVars, jobVars, connVars, localVars
<1>2. ASSUME NEW w \in Worker, proc[w] = "unborn", proc' = [proc EXCEPT ![w] = "running"],
             rescue' = [at |-> "check", previous |-> rescue.previous, next |-> w]
      PROVE  Order'
  <2>. proc \in [Worker -> {"unborn", "running", "exited"}]
    BY DEF Typed, TypeOK
  <2>1. OneAtATime'
    BY <1>2 DEF Order, OneAtATime, Active, Updating
  <2>2. Asked'
    BY <1>2 DEF Order, Asked
  <2>3. Looking'
    BY <1>2 DEF Order, Looking
  <2>4. Updates'
    BY <1>2 DEF Order, Updates, UpdateAt, Holding
  <2>5. Waiting'
    BY <1>2 DEF Order, Waiting
  <2>6. Undoing'
    BY <1>2 DEF Order, Undoing
  <2>7. Candidates'
    BY <1>2 DEF Order, Candidates, Unserved, Unborn, Rescued, Typed, TypeOK, OrNone
  <2>8. Unborn'
    BY <1>2 DEF Order, Unborn
  <2>9. Rescued'
    BY <1>2 DEF Order, Rescued
  <2>10. Listed'
    BY <1>2 DEF Order, Listed
  <2>11. Untold'
    BY <1>2 DEF Order, Untold, Swept, Holding
  <2>12. Written'
    BY <1>2 DEF Order, Written, Agreed
  <2>13. WorkersAccountedFor'
    BY <1>2 DEF Order, WorkersAccountedFor, Orderly, Found, InHand, HeldBy, Serving
  <2>. QED
    BY <2>1, <2>2, <2>3, <2>4, <2>5, <2>6, <2>7, <2>8, <2>9, <2>10, <2>11, <2>12, <2>13 DEF Order
<1>3. ASSUME proc' = proc, rescue' = [at |-> "end", previous |-> rescue.previous, next |-> rescue.next]
      PROVE  Order'
  <2>1. OneAtATime'
    BY <1>3 DEF Order, OneAtATime, Active, Updating
  <2>2. Asked'
    BY <1>3 DEF Order, Asked
  <2>3. Looking'
    BY <1>3 DEF Order, Looking
  <2>4. Updates'
    BY <1>3 DEF Order, Updates, UpdateAt, Holding
  <2>5. Waiting'
    BY <1>3 DEF Order, Waiting
  <2>6. Undoing'
    BY <1>3 DEF Order, Undoing
  <2>7. Candidates'
    BY <1>3 DEF Order, Candidates, Unserved
  <2>8. Unborn'
    BY <1>3 DEF Order, Unborn
  <2>9. Rescued'
    BY <1>3 DEF Order, Rescued
  <2>10. Listed'
    BY <1>3 DEF Order, Listed
  <2>11. Untold'
    BY <1>3 DEF Order, Untold, Swept, Holding
  <2>12. Written'
    BY <1>3 DEF Order, Written, Agreed
  <2>13. WorkersAccountedFor'
    BY <1>3 DEF Order, WorkersAccountedFor, Orderly, Found, InHand, HeldBy, Serving
  <2>. QED
    BY <2>1, <2>2, <2>3, <2>4, <2>5, <2>6, <2>7, <2>8, <2>9, <2>10, <2>11, <2>12, <2>13 DEF Order
<1>. QED
  <2>1. rescue = [at |-> rescue.at, previous |-> rescue.previous, next |-> rescue.next]
    BY DEF Typed, TypeOK
  <2>. QED
    BY <1>2, <1>3, <2>1 DEF RescueStarts

LEMMA RescueChecksOrder ==
  ASSUME Typed, Typed', Orderly, Orderly', Order, RescueChecks
  PROVE  Order'
<1>1. OneAtATime'
  BY DEF Typed, TypeOK, Order, OneAtATime, Active, Updating, RescueChecks, listVars, jobVars,
     connVars, localVars, envVars
<1>2. Asked'
  BY DEF Order, Asked, RescueChecks, listVars, jobVars, connVars, localVars, envVars
<1>3. Looking'
  BY DEF Order, Looking, RescueChecks, listVars, jobVars, connVars, localVars, envVars
<1>4. Updates'
  BY DEF Order, Updates, UpdateAt, Before, Replaced, PutBack, Ending, Holding, RescueChecks,
     listVars, jobVars, connVars, localVars, envVars
<1>5. Waiting'
  BY DEF Order, Waiting, RescueChecks, listVars, jobVars, connVars, localVars, envVars
<1>6. Undoing'
  BY DEF Order, Undoing, RescueChecks, listVars, jobVars, connVars, localVars, envVars
<1>7. Candidates'
  BY DEF Typed, TypeOK, Order, Candidates, Unserved, OrNone, RescueChecks, listVars, jobVars,
     connVars, localVars, envVars
<1>8. Unborn'
  BY DEF Typed, TypeOK, Order, Unborn, RescueChecks, listVars, jobVars, connVars, localVars, envVars
<1>9. Rescued'
  BY DEF Typed, TypeOK, Order, Rescued, RescueChecks, listVars, jobVars, connVars, localVars,
     envVars
<1>10. Listed'
  BY DEF Order, Listed, RescueChecks, listVars, jobVars, connVars, localVars, envVars
<1>11. Untold'
  BY DEF Order, Untold, Swept, Holding, RescueChecks, listVars, jobVars, connVars, localVars,
     envVars
<1>12. Written'
  BY DEF Order, Written, Agreed, Ending, RescueChecks, listVars, jobVars, connVars, localVars,
     envVars
<1>13. WorkersAccountedFor'
  BY DEF Typed, TypeOK, Order, WorkersAccountedFor, Orderly, Found, InHand, HeldBy, Serving,
     RescueChecks, listVars, jobVars, connVars, localVars, envVars
<1>. QED
  BY <1>1, <1>2, <1>3, <1>4, <1>5, <1>6, <1>7, <1>8, <1>9, <1>10, <1>11, <1>12, <1>13 DEF Order

LEMMA RescueSwapsOrder ==
  ASSUME Typed, Typed', Orderly, Orderly', Order, RescueSwaps
  PROVE  Order'
<1>1. OneAtATime'
  BY DEF Order, OneAtATime, Active, Updating, RescueSwaps, procVars, jobVars, connVars, localVars,
     envVars
<1>2. Asked'
  BY DEF Order, Asked, RescueSwaps, procVars, jobVars, connVars, localVars, envVars
<1>3. Looking'
  BY DEF Order, Looking, RescueSwaps, procVars, jobVars, connVars, localVars, envVars
<1>4. Updates'
  BY RolloverConstants DEF Typed, TypeOK, Order, Updates, UpdateAt, Before, Replaced, PutBack,
     Ending, Holding, OneAtATime, Active, Updating, RescueSwaps, procVars, jobVars, connVars,
     localVars, envVars
<1>5. Waiting'
  BY RolloverConstants DEF Typed, TypeOK, Order, Waiting, OneAtATime, Active, Updating, RescueSwaps,
     procVars, jobVars, connVars, localVars, envVars
<1>6. Undoing'
  BY DEF Order, Undoing, RescueSwaps, procVars, jobVars, connVars, localVars, envVars
<1>7. Candidates'
  BY RolloverConstants DEF Typed, TypeOK, Order, Candidates, Unserved, OrNone, OneAtATime, Active,
     Updating, RescueSwaps, procVars, jobVars, connVars, localVars, envVars
<1>8. Unborn'
  BY DEF Order, Unborn, Candidates, Unserved, RescueSwaps, procVars, localVars
<1>9. Rescued'
  BY DEF Order, Rescued, Candidates, RescueSwaps, procVars
<1>10. Listed'
  BY DEF Order, Listed, Candidates, Unserved, RescueSwaps
<1>11. Untold'
  BY RolloverConstants DEF Order, Untold, Holding, OneAtATime, Active, Updating, Candidates,
     Unserved, RescueSwaps, procVars
<1>12. Written'
  BY DEF Order, Written, Agreed, Ending, RescueSwaps, procVars, jobVars, connVars, localVars,
     envVars
<1>13. WorkersAccountedFor'
  BY DEF Order, WorkersAccountedFor, Found, InHand, HeldBy, Rescued, RescueSwaps, procVars,
     localVars
<1>. QED
  BY <1>1, <1>2, <1>3, <1>4, <1>5, <1>6, <1>7, <1>8, <1>9, <1>10, <1>11, <1>12, <1>13 DEF Order

LEMMA RescueListsOrder ==
  ASSUME Typed, Typed', Orderly, Orderly', Order, RescueLists
  PROVE  Order'
<1>1. OneAtATime'
  BY DEF Order, OneAtATime, Active, Updating, RescueLists, procVars, jobVars, connVars, localVars,
     envVars
<1>2. Asked'
  BY DEF Order, Asked, RescueLists, procVars, jobVars, connVars, localVars, envVars
<1>3. Looking'
  BY DEF Order, Looking, RescueLists, procVars, jobVars, connVars, localVars, envVars
<1>4. Updates'
  BY DEF Order, Updates, UpdateAt, Before, Replaced, PutBack, Ending, Holding, RescueLists,
     procVars, jobVars, connVars, localVars, envVars
<1>5. Waiting'
  BY DEF Order, Waiting, RescueLists, procVars, jobVars, connVars, localVars, envVars
<1>6. Undoing'
  BY DEF Order, Undoing, RescueLists, procVars, jobVars, connVars, localVars, envVars
<1>7. Candidates'
  BY RolloverConstants DEF Typed, TypeOK, Order, Candidates, Unserved, OrNone, OneAtATime, Active,
     Updating, RescueLists, procVars, jobVars, connVars, localVars, envVars
<1>8. Unborn'
  BY DEF Order, Unborn, Rescued, RescueLists, procVars, localVars
<1>9. Rescued'
  BY DEF Order, Rescued, RescueLists, procVars, jobVars, connVars, localVars, envVars
<1>10. Listed'
  BY DEF Order, Listed, Rescued, RescueLists, localVars
<1>11. Untold'
  BY DEF Order, Untold, Swept, Holding, RescueLists, procVars, jobVars, connVars, localVars, envVars
<1>12. Written'
  BY DEF Order, Written, Agreed, Ending, RescueLists, procVars, jobVars, connVars, localVars,
     envVars
<1>13. WorkersAccountedFor'
  BY DEF Order, WorkersAccountedFor, Orderly, Found, InHand, HeldBy, Serving, RescueLists, procVars,
     jobVars, connVars, localVars, envVars
<1>. QED
  BY <1>1, <1>2, <1>3, <1>4, <1>5, <1>6, <1>7, <1>8, <1>9, <1>10, <1>11, <1>12, <1>13 DEF Order

LEMMA RescueRetiresOrder ==
  ASSUME Typed, Typed', Orderly, Orderly', Order, RescueRetires
  PROVE  Order'
<1>1. OneAtATime'
  BY DEF Order, OneAtATime, Active, Updating, RescueRetires, Retire, Telling, jobVars, connVars,
     localVars, envVars
<1>2. Asked'
  BY DEF Order, Asked, RescueRetires, Retire, Telling, jobVars, connVars, localVars, envVars
<1>3. Looking'
  BY DEF Order, Looking, RescueRetires, Retire, Telling, jobVars, connVars, localVars, envVars
<1>4. Updates'
  BY DEF Order, Updates, UpdateAt, Before, Replaced, PutBack, Ending, Holding, RescueRetires,
     Retire, Telling, jobVars, connVars, localVars, envVars
<1>5. Waiting'
  BY RolloverConstants DEF Order, Waiting, OneAtATime, Active, Updating, RescueRetires
<1>6. Undoing'
  BY DEF Order, Undoing, RescueRetires, Retire, Telling, jobVars, connVars, localVars, envVars
<1>7. Candidates'
  BY DEF Typed, TypeOK, Order, Candidates, Unserved, OrNone, RescueRetires, Retire, Telling,
     jobVars, connVars, localVars, envVars
<1>8. Unborn'
  <2>1. Retire(rescue.previous)
    BY DEF RescueRetires
  <2>2. UNCHANGED <<proc, current, pc, previous, candidate, rejected>>
    BY DEF RescueRetires, jobVars, connVars, localVars, envVars, ClientAt
  <2>. QED
    BY <2>1, <2>2, Retires DEF Typed, TypeOK, LocalsSet, Order, Unborn
<1>9. Rescued'
  BY DEF Order, Rescued, RescueRetires, Retire, Telling, jobVars, connVars, localVars, envVars
<1>10. Listed'
  BY DEF Order, Listed, RescueRetires, Retire, Telling, jobVars, connVars, localVars, envVars
<1>11. Untold'
  <2>1. \A i \in Job : ~Active(i)
    BY RolloverConstants DEF Order, OneAtATime, RescueRetires
  <2>2. current \notin retiring
    BY <2>1 DEF Order, Listed, Active, Updating
  <2>3. Retire(rescue.previous)
    BY DEF RescueRetires
  <2>4. told'[current] = told[current] /\ UNCHANGED <<current, pc, previous, supervisor>>
    BY <2>2, <2>3, Retires DEF Typed, TypeOK, RescueRetires, localVars, envVars
  <2>5. \A i \in Job : ~Holding(i)'
    BY <2>1, <2>4 DEF Holding, Active, Updating
  <2>. QED
    BY <2>4, <2>5 DEF Order, Untold, Swept
<1>12. Written'
  BY DEF Order, Written, Agreed, Ending, RescueRetires, Retire, Telling, jobVars, connVars,
     localVars, envVars
<1>13. WorkersAccountedFor'
  BY DEF Typed, TypeOK, Order, WorkersAccountedFor, Orderly, Found, InHand, HeldBy, Serving,
     RescueRetires, Retire, Telling, jobVars, connVars, localVars, envVars
<1>. QED
  BY <1>1, <1>2, <1>3, <1>4, <1>5, <1>6, <1>7, <1>8, <1>9, <1>10, <1>11, <1>12, <1>13 DEF Order

LEMMA RescueEndsOrder ==
  ASSUME Typed, Typed', Orderly, Orderly', Order, RescueEnds
  PROVE  Order'
<1>1. OneAtATime'
  BY DEF Order, OneAtATime, Active, Updating, RescueEnds, procVars, listVars, jobVars, connVars,
     localVars, envVars
<1>2. Asked'
  BY DEF Order, Asked, RescueEnds, procVars, listVars, jobVars, connVars, localVars, envVars
<1>3. Looking'
  BY DEF Order, Looking, RescueEnds, procVars, listVars, jobVars, connVars, localVars, envVars
<1>4. Updates'
  BY DEF Order, Updates, UpdateAt, Before, Replaced, PutBack, Ending, Holding, RescueEnds, procVars,
     listVars, jobVars, connVars, localVars, envVars
<1>5. Waiting'
  BY DEF Order, Waiting, RescueEnds, procVars, listVars, jobVars, connVars, localVars, envVars
<1>6. Undoing'
  BY DEF Order, Undoing, RescueEnds, procVars, listVars, jobVars, connVars, localVars, envVars
<1>7. Candidates'
  BY DEF Order, Candidates, Unserved, OrNone, RescueEnds, procVars, listVars, jobVars, connVars,
     localVars, envVars
<1>8. Unborn'
  BY DEF Order, Unborn, RescueEnds, procVars, listVars, jobVars, connVars, localVars, envVars
<1>9. Rescued'
  BY DEF Order, Rescued, RescueEnds, procVars, listVars, jobVars, connVars, localVars, envVars
<1>10. Listed'
  BY DEF Order, Listed, RescueEnds, procVars, listVars, jobVars, connVars, localVars, envVars
<1>11. Untold'
  BY DEF Order, Untold, Swept, Holding, RescueEnds, procVars, listVars, jobVars, connVars,
     localVars, envVars
<1>12. Written'
  BY DEF Order, Written, Agreed, Ending, RescueEnds, procVars, listVars, jobVars, connVars,
     localVars, envVars
<1>13. WorkersAccountedFor'
  BY DEF Order, WorkersAccountedFor, Orderly, Found, InHand, HeldBy, Serving, RescueEnds, procVars,
     listVars, jobVars, connVars, localVars, envVars
<1>. QED
  BY <1>1, <1>2, <1>3, <1>4, <1>5, <1>6, <1>7, <1>8, <1>9, <1>10, <1>11, <1>12, <1>13 DEF Order

LEMMA ChooseOrder ==
  ASSUME Typed, Typed', Orderly, Orderly', Order, NEW c \in Client, Choose(c)
  PROVE  Order'
<1>1. OneAtATime'
  BY DEF Order, OneAtATime, Active, Updating, Choose, ClientAt, jobVars, connVars, localVars,
     recVars
<1>2. Asked'
  BY DEF Order, Asked, Choose, ClientAt, jobVars, connVars, localVars, recVars
<1>3. Looking'
  BY DEF Order, Looking, Choose, ClientAt, jobVars, connVars, localVars, recVars
<1>4. Updates'
  BY DEF Order, Updates, UpdateAt, Before, Replaced, PutBack, Ending, Holding, Choose, ClientAt,
     jobVars, connVars, localVars, recVars
<1>5. Waiting'
  BY DEF Order, Waiting, Choose, ClientAt, jobVars, connVars, localVars, recVars
<1>6. Undoing'
  BY DEF Order, Undoing, Choose, ClientAt, jobVars, connVars, localVars, recVars
<1>7. Candidates'
  BY DEF Order, Candidates, Unserved, OrNone, Choose, ClientAt, jobVars, connVars, localVars,
     recVars
<1>8. Unborn'
  BY DEF Order, Unborn, Choose, ClientAt, jobVars, connVars, localVars, recVars
<1>9. Rescued'
  BY DEF Order, Rescued, Choose, ClientAt, jobVars, connVars, localVars, recVars
<1>10. Listed'
  BY DEF Order, Listed, Choose, ClientAt, jobVars, connVars, localVars, recVars
<1>11. Untold'
  BY DEF Order, Untold, Swept, Holding, Choose, ClientAt, jobVars, connVars, localVars, recVars
<1>12. Written'
  BY DEF Order, Written, Agreed, Ending, Choose, ClientAt, jobVars, connVars, localVars, recVars
<1>13. WorkersAccountedFor'
  BY DEF Order, WorkersAccountedFor, Orderly, Found, InHand, HeldBy, Serving, Choose, ClientAt,
     jobVars, connVars, localVars, recVars
<1>. QED
  BY <1>1, <1>2, <1>3, <1>4, <1>5, <1>6, <1>7, <1>8, <1>9, <1>10, <1>11, <1>12, <1>13 DEF Order

LEMMA CountOrder ==
  ASSUME Typed, Typed', Orderly, Orderly', Order, NEW c \in Client, Count(c)
  PROVE  Order'
<1>1. OneAtATime'
  BY DEF Order, OneAtATime, Active, Updating, Count, ClientAt, jobVars, connVars, localVars, recVars
<1>2. Asked'
  BY DEF Order, Asked, Count, ClientAt, jobVars, connVars, localVars, recVars
<1>3. Looking'
  BY DEF Order, Looking, Count, ClientAt, jobVars, connVars, localVars, recVars
<1>4. Updates'
  BY DEF Order, Updates, UpdateAt, Before, Replaced, PutBack, Ending, Holding, Count, ClientAt,
     jobVars, connVars, localVars, recVars
<1>5. Waiting'
  BY DEF Order, Waiting, Count, ClientAt, jobVars, connVars, localVars, recVars
<1>6. Undoing'
  BY DEF Order, Undoing, Count, ClientAt, jobVars, connVars, localVars, recVars
<1>7. Candidates'
  BY DEF Order, Candidates, Unserved, OrNone, Count, ClientAt, jobVars, connVars, localVars, recVars
<1>8. Unborn'
  BY DEF Order, Unborn, Count, ClientAt, jobVars, connVars, localVars, recVars
<1>9. Rescued'
  BY DEF Order, Rescued, Count, ClientAt, jobVars, connVars, localVars, recVars
<1>10. Listed'
  BY DEF Order, Listed, Count, ClientAt, jobVars, connVars, localVars, recVars
<1>11. Untold'
  BY DEF Order, Untold, Swept, Holding, Count, ClientAt, jobVars, connVars, localVars, recVars
<1>12. Written'
  BY DEF Order, Written, Agreed, Ending, Count, ClientAt, jobVars, connVars, localVars, recVars
<1>13. WorkersAccountedFor'
  BY DEF Order, WorkersAccountedFor, Orderly, Found, InHand, HeldBy, Serving, Count, ClientAt,
     jobVars, connVars, localVars, recVars
<1>. QED
  BY <1>1, <1>2, <1>3, <1>4, <1>5, <1>6, <1>7, <1>8, <1>9, <1>10, <1>11, <1>12, <1>13 DEF Order

LEMMA FinishOrder ==
  ASSUME Typed, Typed', Orderly, Orderly', Order, NEW c \in Client, Finish(c)
  PROVE  Order'
<1>1. OneAtATime'
  BY DEF Order, OneAtATime, Active, Updating, Finish, ClientAt, jobVars, connVars, localVars,
     recVars
<1>2. Asked'
  BY DEF Order, Asked, Finish, ClientAt, jobVars, connVars, localVars, recVars
<1>3. Looking'
  BY DEF Order, Looking, Finish, ClientAt, jobVars, connVars, localVars, recVars
<1>4. Updates'
  BY DEF Order, Updates, UpdateAt, Before, Replaced, PutBack, Ending, Holding, Finish, ClientAt,
     jobVars, connVars, localVars, recVars
<1>5. Waiting'
  BY DEF Order, Waiting, Finish, ClientAt, jobVars, connVars, localVars, recVars
<1>6. Undoing'
  BY DEF Order, Undoing, Finish, ClientAt, jobVars, connVars, localVars, recVars
<1>7. Candidates'
  BY DEF Order, Candidates, Unserved, OrNone, Finish, ClientAt, jobVars, connVars, localVars,
     recVars
<1>8. Unborn'
  BY DEF Order, Unborn, Finish, ClientAt, jobVars, connVars, localVars, recVars
<1>9. Rescued'
  BY DEF Order, Rescued, Finish, ClientAt, jobVars, connVars, localVars, recVars
<1>10. Listed'
  BY DEF Order, Listed, Finish, ClientAt, jobVars, connVars, localVars, recVars
<1>11. Untold'
  BY DEF Order, Untold, Swept, Holding, Finish, ClientAt, jobVars, connVars, localVars, recVars
<1>12. Written'
  BY DEF Order, Written, Agreed, Ending, Finish, ClientAt, jobVars, connVars, localVars, recVars
<1>13. WorkersAccountedFor'
  BY DEF Order, WorkersAccountedFor, Orderly, Found, InHand, HeldBy, Serving, Finish, ClientAt,
     jobVars, connVars, localVars, recVars
<1>. QED
  BY <1>1, <1>2, <1>3, <1>4, <1>5, <1>6, <1>7, <1>8, <1>9, <1>10, <1>11, <1>12, <1>13 DEF Order

LEMMA LeaveOrder ==
  ASSUME Typed, Typed', Orderly, Orderly', Order, NEW c \in Client, Leave(c)
  PROVE  Order'
<1>1. OneAtATime'
  BY DEF Order, OneAtATime, Active, Updating, Leave, ClientAt, Retire, Telling, jobVars, connVars,
     localVars, recVars
<1>2. Asked'
  BY DEF Order, Asked, Leave, ClientAt, Retire, Telling, jobVars, connVars, localVars, recVars
<1>3. Looking'
  BY DEF Order, Looking, Leave, ClientAt, Retire, Telling, jobVars, connVars, localVars, recVars
<1>4. Updates'
  BY DEF Order, Updates, UpdateAt, Before, Replaced, PutBack, Ending, Holding, Leave, ClientAt,
     Retire, Telling, jobVars, connVars, localVars, recVars
<1>5. Waiting'
  BY DEF Order, Waiting, Updates, UpdateAt, Holding, Leave, ClientAt, Retire, localVars
<1>6. Undoing'
  BY DEF Order, Undoing, Leave, ClientAt, Retire, Telling, jobVars, connVars, localVars, recVars
<1>7. Candidates'
  <2>1. Retire(client[c].on)
    BY DEF Leave
  <2>2. UNCHANGED <<proc, current, pc, previous, candidate, rescue>>
    BY DEF Leave, jobVars, connVars, localVars, recVars, ClientAt
  <2>. QED
    BY <2>1, <2>2, Retires DEF Typed, TypeOK, LocalsSet, Order, Candidates, Unserved, OrNone
<1>8. Unborn'
  <2>1. Retire(client[c].on)
    BY DEF Leave
  <2>2. UNCHANGED <<proc, current, pc, previous, candidate, rejected>>
    BY DEF Leave, jobVars, connVars, localVars, recVars, ClientAt
  <2>. QED
    BY <2>1, <2>2, Retires DEF Typed, TypeOK, LocalsSet, Order, Unborn
<1>9. Rescued'
  BY DEF Order, Rescued, Leave, ClientAt, Retire, Telling, jobVars, connVars, localVars, recVars
<1>10. Listed'
  BY DEF Order, Listed, Leave, ClientAt, Retire, Telling, jobVars, connVars, localVars, recVars
<1>11. Untold'
  <2>1. Retire(client[c].on) /\ UNCHANGED <<current, pc, previous, supervisor>>
    BY DEF Leave, ClientAt, localVars
  <2>2. \A i \in Job : Holding(i)' <=> Holding(i)
    BY <2>1 DEF Holding
  <2>3. \A i \in Job : Holding(i) => told'[previous[i]] = told[previous[i]]
    BY <2>1, Retires DEF Order, Updates, UpdateAt, Holding, Typed, TypeOK, OrNone
  <2>4. current \notin retiring \/ current \in preserved
    <3>1. ASSUME NEW i \in Job, pc[i] = "relist", previous[i] = current PROVE current \in preserved
      BY <3>1, RolloverConstants DEF Order, Updates, UpdateAt, Holding, Typed, TypeOK
    <3>. QED
      BY <3>1 DEF Order, Listed
  <2>5. told'[current] = told[current]
    BY <2>1, <2>4, Retires DEF Typed, TypeOK
  <2>. QED
    BY <2>1, <2>2, <2>3, <2>5 DEF Order, Untold, Swept
<1>12. Written'
  BY DEF Order, Written, Agreed, Ending, Leave, ClientAt, Retire, Telling, jobVars, connVars,
     localVars, recVars
<1>13. WorkersAccountedFor'
  BY DEF Typed, TypeOK, Order, WorkersAccountedFor, Found, InHand, HeldBy, Rescued, Leave, ClientAt,
     Retire, Telling, localVars, recVars
<1>. QED
  BY <1>1, <1>2, <1>3, <1>4, <1>5, <1>6, <1>7, <1>8, <1>9, <1>10, <1>11, <1>12, <1>13 DEF Order

LEMMA CrashOrder ==
  ASSUME Typed, Typed', Orderly, Orderly', Order, NEW w \in Worker, Crash(w)
  PROVE  Order'
<1>1. OneAtATime'
  BY DEF Order, OneAtATime, Active, Updating, Crash, WorkerChanges, listVars, jobVars, connVars,
     localVars, recVars
<1>2. Asked'
  BY DEF Order, Asked, Crash, WorkerChanges, listVars, jobVars, connVars, localVars, recVars
<1>3. Looking'
  BY DEF Order, Looking, Crash, WorkerChanges, listVars, jobVars, connVars, localVars, recVars
<1>4. Updates'
  BY DEF Order, Updates, UpdateAt, Before, Replaced, PutBack, Ending, Holding, Crash, WorkerChanges,
     listVars, jobVars, connVars, localVars, recVars
<1>5. Waiting'
  BY DEF Order, Waiting, Crash, WorkerChanges, listVars, jobVars, connVars, localVars, recVars
<1>6. Undoing'
  BY DEF Order, Undoing, Crash, WorkerChanges, listVars, jobVars, connVars, localVars, recVars
<1>7. Candidates'
  BY DEF Order, Candidates, Unserved, OrNone, Crash, WorkerChanges, listVars, jobVars, connVars,
     localVars, recVars
<1>8. Unborn'
  BY DEF Order, Unborn, Crash, WorkerChanges, listVars, jobVars, connVars, localVars, recVars
<1>9. Rescued'
  BY DEF Order, Rescued, Crash, WorkerChanges, listVars, jobVars, connVars, localVars, recVars
<1>10. Listed'
  BY DEF Order, Listed, Crash, WorkerChanges, listVars, jobVars, connVars, localVars, recVars
<1>11. Untold'
  BY DEF Order, Untold, Swept, Holding, Crash, WorkerChanges, listVars, jobVars, connVars,
     localVars, recVars
<1>12. Written'
  BY DEF Order, Written, Agreed, Ending, Crash, WorkerChanges, listVars, jobVars, connVars,
     localVars, recVars
<1>13. WorkersAccountedFor'
  BY DEF Order, WorkersAccountedFor, Orderly, Found, InHand, HeldBy, Serving, Crash, WorkerChanges,
     listVars, jobVars, connVars, localVars, recVars
<1>. QED
  BY <1>1, <1>2, <1>3, <1>4, <1>5, <1>6, <1>7, <1>8, <1>9, <1>10, <1>11, <1>12, <1>13 DEF Order

LEMMA ExitOrder ==
  ASSUME Typed, Typed', Orderly, Orderly', Order, NEW w \in Worker, Exit(w)
  PROVE  Order'
<1>1. OneAtATime'
  BY DEF Order, OneAtATime, Active, Updating, Exit, WorkerChanges, listVars, jobVars, connVars,
     localVars, recVars
<1>2. Asked'
  BY DEF Order, Asked, Exit, WorkerChanges, listVars, jobVars, connVars, localVars, recVars
<1>3. Looking'
  BY DEF Order, Looking, Exit, WorkerChanges, listVars, jobVars, connVars, localVars, recVars
<1>4. Updates'
  BY DEF Order, Updates, UpdateAt, Before, Replaced, PutBack, Ending, Holding, Exit, WorkerChanges,
     listVars, jobVars, connVars, localVars, recVars
<1>5. Waiting'
  BY DEF Order, Waiting, Exit, WorkerChanges, listVars, jobVars, connVars, localVars, recVars
<1>6. Undoing'
  BY DEF Order, Undoing, Exit, WorkerChanges, listVars, jobVars, connVars, localVars, recVars
<1>7. Candidates'
  BY DEF Order, Candidates, Unserved, OrNone, Exit, WorkerChanges, listVars, jobVars, connVars,
     localVars, recVars
<1>8. Unborn'
  BY DEF Order, Unborn, Exit, WorkerChanges, listVars, jobVars, connVars, localVars, recVars
<1>9. Rescued'
  BY DEF Order, Rescued, Exit, WorkerChanges, listVars, jobVars, connVars, localVars, recVars
<1>10. Listed'
  BY DEF Order, Listed, Exit, WorkerChanges, listVars, jobVars, connVars, localVars, recVars
<1>11. Untold'
  BY DEF Order, Untold, Swept, Holding, Exit, WorkerChanges, listVars, jobVars, connVars, localVars,
     recVars
<1>12. Written'
  BY DEF Order, Written, Agreed, Ending, Exit, WorkerChanges, listVars, jobVars, connVars,
     localVars, recVars
<1>13. WorkersAccountedFor'
  BY DEF Order, WorkersAccountedFor, Orderly, Found, InHand, HeldBy, Serving, Exit, WorkerChanges,
     listVars, jobVars, connVars, localVars, recVars
<1>. QED
  BY <1>1, <1>2, <1>3, <1>4, <1>5, <1>6, <1>7, <1>8, <1>9, <1>10, <1>11, <1>12, <1>13 DEF Order

LEMMA CloseOrder ==
  ASSUME Typed, Typed', Orderly, Orderly', Order, Close
  PROVE  Order'
<1>1. OneAtATime'
  BY DEF Order, OneAtATime, Active, Updating, Close, ShutdownStep, procVars, listVars, jobVars,
     connVars, localVars, recVars
<1>2. Asked'
  BY DEF Order, Asked, Close, ShutdownStep, procVars, listVars, jobVars, connVars, localVars,
     recVars
<1>3. Looking'
  BY DEF Order, Looking, Close, ShutdownStep, procVars, listVars, jobVars, connVars, localVars,
     recVars
<1>4. Updates'
  BY DEF Order, Updates, UpdateAt, Before, Replaced, PutBack, Ending, Holding, Close, ShutdownStep,
     procVars, listVars, jobVars, connVars, localVars, recVars
<1>5. Waiting'
  BY DEF Order, Waiting, Close, ShutdownStep, procVars, listVars, jobVars, connVars, localVars,
     recVars
<1>6. Undoing'
  BY DEF Order, Undoing, Close, ShutdownStep, procVars, listVars, jobVars, connVars, localVars,
     recVars
<1>7. Candidates'
  BY DEF Order, Candidates, Unserved, OrNone, Close, ShutdownStep, procVars, listVars, jobVars,
     connVars, localVars, recVars
<1>8. Unborn'
  BY DEF Order, Unborn, Close, ShutdownStep, procVars, listVars, jobVars, connVars, localVars,
     recVars
<1>9. Rescued'
  BY DEF Order, Rescued, Close, ShutdownStep, procVars, listVars, jobVars, connVars, localVars,
     recVars
<1>10. Listed'
  BY DEF Order, Listed, Close, ShutdownStep, procVars, listVars, jobVars, connVars, localVars,
     recVars
<1>11. Untold'
  BY DEF Order, Untold, Swept, Holding, Close, ShutdownStep, procVars, listVars, jobVars, connVars,
     localVars, recVars
<1>12. Written'
  BY DEF Order, Written, Agreed, Ending, Close, ShutdownStep, procVars, listVars, jobVars, connVars,
     localVars, recVars
<1>13. WorkersAccountedFor'
  BY DEF Order, WorkersAccountedFor, Orderly, Found, InHand, HeldBy, Serving, Close, ShutdownStep,
     procVars, listVars, jobVars, connVars, localVars, recVars
<1>. QED
  BY <1>1, <1>2, <1>3, <1>4, <1>5, <1>6, <1>7, <1>8, <1>9, <1>10, <1>11, <1>12, <1>13 DEF Order

LEMMA SweepOrder ==
  ASSUME Typed, Typed', Orderly, Orderly', Order, Sweep
  PROVE  Order'
<1>1. OneAtATime'
  BY DEF Order, OneAtATime, Active, Updating, Sweep, ShutdownStep, listVars, jobVars, connVars,
     localVars, recVars
<1>2. Asked'
  BY DEF Order, Asked, Sweep, ShutdownStep, listVars, jobVars, connVars, localVars, recVars
<1>3. Looking'
  BY DEF Order, Looking, Sweep, ShutdownStep, listVars, jobVars, connVars, localVars, recVars
<1>4. Updates'
  BY DEF Order, Updates, UpdateAt, Before, Replaced, PutBack, Ending, Holding, Sweep, ShutdownStep,
     listVars, jobVars, connVars, localVars, recVars
<1>5. Waiting'
  BY DEF Order, Waiting, Sweep, ShutdownStep, listVars, jobVars, connVars, localVars, recVars
<1>6. Undoing'
  BY DEF Order, Undoing, Sweep, ShutdownStep, listVars, jobVars, connVars, localVars, recVars
<1>7. Candidates'
  BY DEF Typed, TypeOK, LocalsSet, Order, Candidates, Unserved, OrNone, Sweep, ShutdownStep,
     listVars, localVars, recVars
<1>8. Unborn'
  BY DEF Order, Unborn, Sweep, ShutdownStep, listVars, jobVars, connVars, localVars, recVars
<1>9. Rescued'
  BY DEF Typed, LocalsSet, Order, Rescued, Sweep, ShutdownStep, listVars, recVars
<1>10. Listed'
  BY DEF Order, Listed, Sweep, ShutdownStep, listVars, jobVars, connVars, localVars, recVars
<1>11. Untold'
  BY DEF Order, Untold, Swept, Holding, Sweep, ShutdownStep, listVars, jobVars, connVars, localVars,
     recVars
<1>12. Written'
  BY DEF Order, Written, Agreed, Ending, Sweep, ShutdownStep, listVars, jobVars, connVars,
     localVars, recVars
<1>13. WorkersAccountedFor'
  BY DEF Order, WorkersAccountedFor, Orderly, Found, InHand, HeldBy, Serving, Sweep, ShutdownStep,
     listVars, jobVars, connVars, localVars, recVars
<1>. QED
  BY <1>1, <1>2, <1>3, <1>4, <1>5, <1>6, <1>7, <1>8, <1>9, <1>10, <1>11, <1>12, <1>13 DEF Order

LEMMA GoneOrder ==
  ASSUME Typed, Typed', Orderly, Orderly', Order, Gone
  PROVE  Order'
<1>1. OneAtATime'
  BY DEF Order, OneAtATime, Active, Updating, Gone, ShutdownStep, procVars, listVars, jobVars,
     connVars, localVars, recVars
<1>2. Asked'
  BY DEF Order, Asked, Gone, ShutdownStep, procVars, listVars, jobVars, connVars, localVars, recVars
<1>3. Looking'
  BY DEF Order, Looking, Gone, ShutdownStep, procVars, listVars, jobVars, connVars, localVars,
     recVars
<1>4. Updates'
  BY DEF Order, Updates, UpdateAt, Before, Replaced, PutBack, Ending, Holding, Gone, ShutdownStep,
     procVars, listVars, jobVars, connVars, localVars, recVars
<1>5. Waiting'
  BY DEF Order, Waiting, Gone, ShutdownStep, procVars, listVars, jobVars, connVars, localVars,
     recVars
<1>6. Undoing'
  BY DEF Order, Undoing, Gone, ShutdownStep, procVars, listVars, jobVars, connVars, localVars,
     recVars
<1>7. Candidates'
  BY DEF Order, Candidates, Unserved, OrNone, Gone, ShutdownStep, procVars, listVars, jobVars,
     connVars, localVars, recVars
<1>8. Unborn'
  BY DEF Order, Unborn, Gone, ShutdownStep, procVars, listVars, jobVars, connVars, localVars,
     recVars
<1>9. Rescued'
  BY DEF Order, Rescued, Gone, ShutdownStep, procVars, listVars, jobVars, connVars, localVars,
     recVars
<1>10. Listed'
  BY DEF Order, Listed, Gone, ShutdownStep, procVars, listVars, jobVars, connVars, localVars,
     recVars
<1>11. Untold'
  BY DEF Order, Untold, Swept, Holding, Gone, ShutdownStep, procVars, listVars, jobVars, connVars,
     localVars, recVars
<1>12. Written'
  BY DEF Order, Written, Agreed, Ending, Gone, ShutdownStep, procVars, listVars, jobVars, connVars,
     localVars, recVars
<1>13. WorkersAccountedFor'
  BY DEF Order, WorkersAccountedFor, Orderly, Found, InHand, HeldBy, Serving, Gone, ShutdownStep,
     procVars, listVars, jobVars, connVars, localVars, recVars
<1>. QED
  BY <1>1, <1>2, <1>3, <1>4, <1>5, <1>6, <1>7, <1>8, <1>9, <1>10, <1>11, <1>12, <1>13 DEF Order

LEMMA AskOrder ==
  ASSUME Typed, Typed', Orderly, Orderly', Order, NEW a \in Asker, NEW j \in Job, NEW chosen \in Requests, Ask(a, j, chosen)
  PROVE  Order'
<1>1. OneAtATime'
  BY DEF Order, OneAtATime, Active, Updating, Ask, procVars, listVars, connVars, localVars, recVars,
     envVars
<1>2. Asked'
  BY DEF Typed, TypeOK, Order, Asked, Ask, procVars, listVars, connVars, localVars, recVars, envVars
<1>3. Looking'
  BY DEF Order, Looking, Ask, procVars, listVars, connVars, localVars, recVars, envVars
<1>4. Updates'
  BY DEF Order, Updates, UpdateAt, Before, Replaced, PutBack, Ending, Holding, Ask, procVars,
     listVars, connVars, localVars, recVars, envVars
<1>5. Waiting'
  BY DEF Order, Waiting, Ask, procVars, listVars, connVars, localVars, recVars, envVars
<1>6. Undoing'
  BY DEF Order, Undoing, Ask, procVars, listVars, connVars, localVars, recVars, envVars
<1>7. Candidates'
  BY DEF Order, Candidates, Unserved, OrNone, Ask, procVars, listVars, connVars, localVars, recVars,
     envVars
<1>8. Unborn'
  BY DEF Order, Unborn, Ask, procVars, listVars, connVars, localVars, recVars, envVars
<1>9. Rescued'
  BY DEF Order, Rescued, Ask, procVars, listVars, connVars, localVars, recVars, envVars
<1>10. Listed'
  BY DEF Order, Listed, Ask, procVars, listVars, connVars, localVars, recVars, envVars
<1>11. Untold'
  BY DEF Order, Untold, Swept, Holding, Ask, procVars, listVars, connVars, localVars, recVars,
     envVars
<1>12. Written'
  BY DEF Order, Written, Agreed, Ending, Ask, procVars, listVars, connVars, localVars, recVars,
     envVars
<1>13. WorkersAccountedFor'
  BY DEF Order, WorkersAccountedFor, Orderly, Found, InHand, HeldBy, Serving, Ask, procVars,
     listVars, connVars, localVars, recVars, envVars
<1>. QED
  BY <1>1, <1>2, <1>3, <1>4, <1>5, <1>6, <1>7, <1>8, <1>9, <1>10, <1>11, <1>12, <1>13 DEF Order

LEMMA QueueOrder ==
  ASSUME Typed, Typed', Orderly, Orderly', Order, NEW a \in Asker, Queue(a)
  PROVE  Order'
<1>1. OneAtATime'
  BY DEF Typed, TypeOK, Order, OneAtATime, Active, Updating, Queue, Orderly, procVars, listVars,
     connVars, localVars, envVars
<1>2. Asked'
  BY RolloverConstants DEF Typed, TypeOK, Order, Asked, OneAtATime, Active, Updating, Queue,
     Orderly, procVars, listVars, connVars, localVars, envVars
<1>3. Looking'
  BY DEF Order, Looking, Asked, Queue
<1>4. Updates'
  BY DEF Order, Updates, UpdateAt, Before, Holding, Asked, Queue, listVars, localVars
<1>5. Waiting'
  BY DEF Order, Waiting, Queue, Orderly, procVars, listVars, connVars, localVars, envVars
<1>6. Undoing'
  BY DEF Order, Undoing, Queue, Orderly, procVars, listVars, connVars, localVars, envVars
<1>7. Candidates'
  BY RolloverConstants DEF Typed, TypeOK, Order, Candidates, Unserved, OrNone, OneAtATime, Active,
     Updating, Queue, Orderly, procVars, listVars, connVars, localVars, envVars
<1>8. Unborn'
  BY DEF Order, Unborn, Queue, Orderly, procVars, listVars, connVars, localVars, envVars
<1>9. Rescued'
  BY DEF Order, Rescued, Queue, Orderly, procVars, listVars, connVars, localVars, envVars
<1>10. Listed'
  BY RolloverConstants DEF Typed, TypeOK, Order, Listed, OneAtATime, Active, Updating, Queue,
     Orderly, procVars, listVars, connVars, localVars, envVars
<1>11. Untold'
  BY DEF Order, Untold, Swept, Holding, Queue, Orderly, procVars, listVars, connVars, localVars,
     envVars
<1>12. Written'
  BY DEF Order, Written, Agreed, Ending, Queue, Orderly, procVars, listVars, connVars, localVars,
     envVars
<1>13. WorkersAccountedFor'
  BY RolloverConstants DEF Typed, TypeOK, Order, WorkersAccountedFor, Orderly, Found, InHand,
     HeldBy, Serving, OneAtATime, Active, Updating, Queue, procVars, listVars, connVars, localVars,
     envVars
<1>. QED
  BY <1>1, <1>2, <1>3, <1>4, <1>5, <1>6, <1>7, <1>8, <1>9, <1>10, <1>11, <1>12, <1>13 DEF Order

-----------------------------------------------------------------------------
(* The order holds, and what follows from it *)

LEMMA InitOrder == Init => Order
<1> SUFFICES ASSUME Init PROVE Order
  OBVIOUS
<1>1. /\ \A j \in Job : pc[j] = "none" /\ outcome[j] /\ previous[j] = NoWorker /\ candidate[j] = NoWorker
      /\ \A k \in Job \cup {Poller} : looked[k] = NoWorker
      /\ \A w \in Worker : told[w] = {} /\ (proc[w] # "unborn" => w = FirstWorker)
      /\ rescue.at = "none" /\ ~recovering /\ running = NoJob
      /\ current = FirstWorker /\ retiring = {} /\ proc[FirstWorker] = "running"
  BY RolloverConstants DEF Init
<1>2. OneAtATime
  BY <1>1, RolloverConstants DEF OneAtATime, Active, Updating
<1>3. Asked /\ Looking
  BY <1>1, RolloverConstants DEF Init, Asked, Looking
<1>4. Updates
  BY <1>1 DEF Updates, UpdateAt, Replaced, PutBack, Ending, Holding
<1>9. Waiting /\ Undoing
  BY <1>1 DEF Waiting, Undoing
<1>5. Candidates /\ Unborn /\ Rescued /\ Listed
  BY <1>1, RolloverConstants DEF Candidates, Unborn, Rescued, Listed
<1>6. Untold
  BY <1>1, RolloverConstants DEF Untold, Holding
<1>7. Written
  BY <1>1 DEF Init, Written, Agreed, Ending
<1>8. WorkersAccountedFor
  BY <1>1 DEF WorkersAccountedFor, Found
<1>. QED
  BY <1>2, <1>3, <1>4, <1>5, <1>6, <1>7, <1>8, <1>9 DEF Order

\* Replacements that overlapped once are never again said to come one at a time.
LEMMA StaysEntangled ==
  ASSUME [Next]_vars, entangled
  PROVE  entangled'
<1>1. ASSUME NEW j \in Job, Perform(j) PROVE entangled'
  BY <1>1 DEF Perform, Begin, Build, Detach, Preserve, Swap, List, Publish, Window, Budget,
     KillCandidate, Reject, Restore, Relist, Discard, Unpublish, Release, Tell, Drop, Report, Done, recVars
<1>2. ASSUME NEW k \in Job \cup {Poller}, Look(k) \/ Decide(k) PROVE entangled'
  BY <1>2 DEF Look, Decide, recVars
<1>3. CASE Rescue
  BY <1>3 DEF Rescue, RescueStarts, RescueChecks, RescueSwaps, RescueLists, RescueRetires,
     RescueEnds
<1>4. ASSUME NEW c \in Client, Forward(c) PROVE entangled'
  BY <1>4 DEF Forward, Choose, Count, Finish, Leave, ClientAt, recVars
<1>5. ASSUME NEW w \in Worker, Crash(w) \/ Exit(w) PROVE entangled'
  BY <1>5 DEF Crash, Exit, WorkerChanges, recVars
<1>6. CASE Close \/ Sweep \/ Gone
  BY <1>6 DEF Close, Sweep, Gone, ShutdownStep, recVars
<1>7. ASSUME NEW a \in Asker, Queue(a) PROVE entangled'
  BY <1>7 DEF Queue
<1>8. ASSUME NEW a \in Asker, NEW j \in Job, NEW chosen \in Requests, Ask(a, j, chosen) PROVE entangled'
  BY <1>8 DEF Ask, recVars
<1>9. CASE UNCHANGED vars
  BY <1>9 DEF vars, recVars
<1>. QED
  BY <1>1, <1>2, <1>3, <1>4, <1>5, <1>6, <1>7, <1>8, <1>9 DEF Next

LEMMA StepOrder ==
  ASSUME Typed, Typed', Orderly, Orderly', Order, [Next]_vars
  PROVE  Order'
<1>1. ASSUME NEW j \in Job, Perform(j) PROVE Order'
  BY <1>1, BeginOrder, BuildOrder, DetachOrder, PreserveOrder, SwapOrder, ListOrder, PublishOrder,
     WindowOrder, BudgetOrder, KillCandidateOrder, RejectOrder, RestoreOrder, RelistOrder,
     DiscardOrder, UnpublishOrder, ReleaseOrder, TellOrder, DropOrder, ReportOrder, DoneOrder
     DEF Perform
<1>2. ASSUME NEW k \in Job \cup {Poller}, Look(k) \/ Decide(k) PROVE Order'
  BY <1>2, LookOrder, DecideOrder
<1>3. CASE Rescue
  BY <1>3, RescueStartsOrder, RescueChecksOrder, RescueSwapsOrder, RescueListsOrder,
     RescueRetiresOrder, RescueEndsOrder DEF Rescue
<1>4. ASSUME NEW c \in Client, Forward(c) PROVE Order'
  BY <1>4, ChooseOrder, CountOrder, FinishOrder, LeaveOrder DEF Forward
<1>5. ASSUME NEW w \in Worker, Crash(w) \/ Exit(w) PROVE Order'
  BY <1>5, CrashOrder, ExitOrder
<1>6. CASE Close \/ Sweep \/ Gone
  BY <1>6, CloseOrder, SweepOrder, GoneOrder
<1>7. ASSUME NEW a \in Asker, Queue(a) PROVE Order'
  BY <1>7, QueueOrder
<1>8. ASSUME NEW a \in Asker, NEW j \in Job, NEW chosen \in Requests, Ask(a, j, chosen) PROVE Order'
  BY <1>8, AskOrder
<1>9. CASE UNCHANGED vars
  <2>1. OneAtATime' /\ Asked' /\ Looking'
    BY <1>9 DEF vars, Order, OneAtATime, Asked, Looking, Active, Updating, jobVars, recVars
  <2>2. Updates' /\ Waiting' /\ Undoing' /\ Candidates' /\ Unborn' /\ Rescued'
    BY <1>9 DEF vars, Order, Updates, UpdateAt, Holding, Waiting, Undoing, Candidates, Unserved,
       Unborn, Rescued,
       procVars, listVars, localVars, recVars
  <2>3. Listed' /\ Untold' /\ Written'
    BY <1>9 DEF vars, Order, Listed, Untold, Swept, Holding, Written, Agreed,
       procVars, listVars, jobVars, connVars, localVars, envVars
  <2>4. WorkersAccountedFor'
    BY <1>9 DEF vars, Order, WorkersAccountedFor, Orderly, Found, InHand, HeldBy, Serving,
       procVars, listVars, localVars, recVars, envVars
  <2>. QED
    BY <2>1, <2>2, <2>3, <2>4 DEF Order
<1>. QED
  BY <1>1, <1>2, <1>3, <1>4, <1>5, <1>6, <1>7, <1>8, <1>9 DEF Next

LEMMA OrderKept == Spec => [](Typed /\ OrderInv)
<1>1. Init => Typed /\ OrderInv
  BY InitTyped, InitOrder DEF OrderInv
<1>2. Typed /\ OrderInv /\ [Next]_vars => (Typed /\ OrderInv)'
  <2>. SUFFICES ASSUME Typed, OrderInv, [Next]_vars PROVE Typed' /\ OrderInv'
    OBVIOUS
  <2>1. Typed'
    BY StepTyped
  <2>2. ASSUME Orderly' PROVE Order'
    BY <2>1, <2>2, StepOrder, StaysEntangled DEF Orderly, OrderInv
  <2>. QED
    BY <2>1, <2>2 DEF OrderInv
<1>. QED
  BY <1>1, <1>2, PTL DEF Spec

\* An update that fails after it swapped its candidate in leaves the worker it
\* began with current, whatever step failed: one thread's rollback finds the
\* lists as it left them (put_back in update.rs).
THEOREM FailedUpdateIsUndone == Spec => []FailedUpdateKeepsWorker
<1>1. Typed /\ OrderInv => FailedUpdateKeepsWorker
  BY DEF OrderInv, Order, Updates, UpdateAt, Ending, FailedUpdateKeepsWorker
<1>. QED
  BY <1>1, OrderKept, PTL

\* The worker an update replaces was told nothing until the switch is final, so
\* a rollback finds it serving (update.rs order 3).
THEOREM PreviousWorkerIsKept == Spec => []KeptForRollback
<1>1. Typed /\ OrderInv => KeptForRollback
  BY DEF OrderInv, Order, Untold, KeptForRollback
<1>. QED
  BY <1>1, OrderKept, PTL

\* The worker requests are sent to was never told to retire or to close.
THEOREM CurrentIsNotDismissed == Spec => []CurrentNeverDismissed
<1>1. Typed /\ OrderInv => CurrentNeverDismissed
  BY DEF OrderInv, Order, Untold, CurrentNeverDismissed
<1>. QED
  BY <1>1, OrderKept, PTL

\* A worker that runs is current, draining, told to close, or in the hands of
\* the thread that replaces it: the shutdown finds it (all_workers).
THEOREM NoWorkerIsLost == Spec => []WorkersAccountedFor
<1>1. Typed /\ OrderInv => WorkersAccountedFor
  BY DEF OrderInv, Order, WorkersAccountedFor
<1>. QED
  BY <1>1, OrderKept, PTL

\* Between jobs runtime.json names the generation and the connector the
\* supervisor holds, or the last job reports that it could not be written.
THEOREM DescriptorIsTrue == Spec => []DescriptorAgrees
<1>1. Typed /\ OrderInv => DescriptorAgrees
  BY DEF OrderInv, Order, Written, Agreed, DescriptorAgrees
<1>. QED
  BY <1>1, OrderKept, PTL

-----------------------------------------------------------------------------
(* The roles of the workers: WorkerRollover implements WorkerRoles *)

\* a worker is in one role at a time
LEMMA OneRole ==
  ASSUME Typed, Order, NEW w \in Worker
  PROVE  /\ proc[w] = "unborn" => ~Candidate(w) /\ ~Kept(w) /\ w \notin retiring /\ ~Leaving(w)
         /\ Candidate(w) => ~Kept(w) /\ w \notin retiring /\ ~Leaving(w) /\ w # current
<1>1. ASSUME proc[w] = "unborn" PROVE ~Kept(w) /\ w \notin retiring /\ ~Leaving(w)
  BY <1>1 DEF Order, Unborn, Kept, Leaving, Rescued
<1>2. Candidate(w) => proc[w] # "unborn" /\ w \notin retiring /\ w # current
  BY RolloverConstants DEF Order, Candidates, Unserved, Candidate
<1>3. ASSUME NEW j \in Job, candidate[j] = w PROVE ~Kept(w) /\ ~Leaving(w)
  <2>1. w # NoWorker /\ pc[j] \in {"build", "detach", "preserve", "swap", "kill"}
    BY <1>3, RolloverConstants DEF Order, Candidates
  <2>2. Active(j)
    BY <2>1 DEF Active, Updating
  <2>3. /\ rescue.at = "none" /\ \A i \in Job : i # j => ~Active(i)
    BY <2>2, OneUpdate
  <2>4. ~Holding(j) \/ previous[j] # w
    <3>1. CASE pc[j] = "swap"
      BY <1>3, <1>2, <3>1 DEF Order, Updates, UpdateAt, Candidate
    <3>2. CASE pc[j] = "kill"
      BY <1>3, <2>1, <3>2 DEF Order, Candidates
    <3>. QED
      BY <2>1, <3>1, <3>2 DEF Holding
  <2>. QED
    BY <2>1, <2>3, <2>4 DEF Kept, Leaving, Holding, Active, Updating
<1>4. ASSUME rescue.next = w, rescue.at \in {"check", "swap"} PROVE ~Kept(w) /\ ~Leaving(w)
  <2>1. \A i \in Job : ~Active(i)
    BY <1>4, RolloverConstants DEF Order, OneAtATime
  <2>. QED
    BY <1>4, <2>1 DEF Kept, Leaving, Holding, Active, Updating
<1>. QED
  BY <1>1, <1>2, <1>3, <1>4 DEF Candidate

\* the role of a worker, read off where it is
RoleFacts ==
  \A w \in Worker :
    /\ w = current => RoleOf(w) = "current"
    /\ w # current =>
         /\ proc[w] = "unborn" => RoleOf(w) = "unborn"
         /\ Candidate(w) => RoleOf(w) = "candidate"
         /\ Kept(w) => RoleOf(w) = "kept"
         /\ ~Kept(w) /\ (w \in retiring \/ Leaving(w)) => RoleOf(w) = "draining"
         /\ proc[w] # "unborn" /\ ~Candidate(w) /\ ~Kept(w) /\ w \notin retiring /\ ~Leaving(w)
              => RoleOf(w) = "dismissed"

LEMMA RoleIs == Typed /\ Order /\ Healthy => RoleFacts
<1> SUFFICES ASSUME Typed, Order, Healthy, NEW w \in Worker
             PROVE  /\ w = current => RoleOf(w) = "current"
                    /\ w # current =>
                         /\ proc[w] = "unborn" => RoleOf(w) = "unborn"
                         /\ Candidate(w) => RoleOf(w) = "candidate"
                         /\ Kept(w) => RoleOf(w) = "kept"
                         /\ ~Kept(w) /\ (w \in retiring \/ Leaving(w)) => RoleOf(w) = "draining"
                         /\ proc[w] # "unborn" /\ ~Candidate(w) /\ ~Kept(w) /\ w \notin retiring
                              /\ ~Leaving(w) => RoleOf(w) = "dismissed"
  BY DEF RoleFacts
<1>1. told[current] = {}
  BY DEF Order, Untold, Healthy
<1>. QED
  BY <1>1, OneRole DEF RoleOf

LEMMA RoleIsNext == (Typed /\ Order /\ Healthy)' => RoleFacts'
  BY RoleIs, PTL

\* where the promises are made
Proper == Typed /\ Order /\ Healthy

\* a worker whose circumstances do not change stays in its role
LEMMA Still ==
  ASSUME Proper, Proper', NEW w \in Worker,
         w = current <=> w = current',
         w # current => /\ proc[w] = "unborn" <=> proc'[w] = "unborn"
                        /\ Candidate(w) <=> Candidate(w)'
                        /\ Kept(w) <=> Kept(w)'
                        /\ w \in retiring \/ Leaving(w) <=> w \in retiring' \/ Leaving(w)'
  PROVE  RoleOf(w)' = RoleOf(w)
<1>1. RoleFacts /\ RoleFacts'
  BY RoleIs, RoleIsNext DEF Proper
<1>. QED
  BY <1>1 DEF RoleFacts

\* a step that only moves a thread along changes no role
LEMMA Quiet ==
  ASSUME Proper, Proper', NEW w \in Worker,
         current' = current, candidate' = candidate, retiring' = retiring, previous' = previous,
         proc'[w] = "unborn" <=> proc[w] = "unborn",
         \A i \in Job : Holding(i)' <=> Holding(i),
         \A i \in Job : /\ pc'[i] = "relist" <=> pc[i] = "relist"
                        /\ pc[i] = "relist" => rejected'[i] = rejected[i],
         rescue' = rescue \/ (rescue.at \notin {"check", "swap", "list"}
                               /\ rescue'.at \notin {"check", "swap", "list"})
  PROVE  RoleOf(w)' = RoleOf(w)
<1>1. Candidate(w)' <=> Candidate(w)
  BY DEF Candidate
<1>2. Kept(w)' <=> Kept(w)
  BY DEF Kept
<1>3. Leaving(w)' <=> Leaving(w)
  BY DEF Leaving
<1>. QED
  BY <1>1, <1>2, <1>3, Still
LEMMA BuildRoles ==
  ASSUME Proper, Proper', NEW j \in Job, Build(j), NEW v \in Worker
  PROVE  RoleOf(v)' = RoleOf(v)
<1>1. \E next \in {"detach", "kill"} : pc' = [pc EXCEPT ![j] = next]
  BY DEF Build, Goto, Fail
<1>2. UNCHANGED <<current, candidate, retiring, previous, proc, rescue>>
  BY DEF Build, At, Goto, Fail, procVars, listVars, jobVars, recVars, envVars
<1>3. \A i \in Job : Holding(i)' <=> Holding(i)
  BY <1>1, <1>2 DEF Proper, Typed, TypeOK, Holding, Order, Updates, UpdateAt, Before, Build, At,
     Goto, Fail, procVars, listVars, jobVars, recVars, envVars
<1>4. \A i \in Job :
        /\ pc'[i] = "relist" <=> pc[i] = "relist"
        /\ pc[i] = "relist" => rejected'[i] = rejected[i]
  BY <1>1, <1>2 DEF Proper, Typed, TypeOK, Build, At, Goto, Fail, procVars, listVars, jobVars,
     recVars, envVars
<1>. QED
  BY <1>2, <1>3, <1>4, Quiet

LEMMA DetachRoles ==
  ASSUME Proper, Proper', NEW j \in Job, Detach(j), NEW v \in Worker
  PROVE  RoleOf(v)' = RoleOf(v)
<1>1. \E next \in {"publish", "preserve", "kill"} : pc' = [pc EXCEPT ![j] = next]
  BY DEF Detach, Goto, Fail
<1>2. UNCHANGED <<current, candidate, retiring, previous, proc, rescue>>
  BY DEF Detach, At, Goto, Fail, procVars, listVars, connVars, recVars, envVars
<1>3. \A i \in Job : Holding(i)' <=> Holding(i)
  BY <1>1, <1>2 DEF Proper, Typed, TypeOK, Holding, Order, Updates, UpdateAt, Before, Detach, At,
     Goto, Fail, procVars, listVars, connVars, recVars, envVars
<1>4. \A i \in Job :
        /\ pc'[i] = "relist" <=> pc[i] = "relist"
        /\ pc[i] = "relist" => rejected'[i] = rejected[i]
  BY <1>1, <1>2 DEF Proper, Typed, TypeOK, Detach, At, Goto, Fail, procVars, listVars, connVars,
     recVars, envVars
<1>. QED
  BY <1>2, <1>3, <1>4, Quiet

LEMMA PublishRoles ==
  ASSUME Proper, Proper', NEW j \in Job, Publish(j), NEW v \in Worker
  PROVE  RoleOf(v)' = RoleOf(v)
<1>1. \E next \in {"window", "kill"} : pc' = [pc EXCEPT ![j] = next]
  BY DEF Publish, Goto, Fail
<1>2. UNCHANGED <<current, candidate, retiring, previous, proc, rescue>>
  BY DEF Publish, At, Goto, Fail, Persisted, procVars, listVars, jobVars, recVars, envVars
<1>3. \A i \in Job : Holding(i)' <=> Holding(i)
  BY <1>1, <1>2 DEF Proper, Typed, TypeOK, Holding, Publish, At, Goto, Fail, Persisted, procVars,
     listVars, jobVars, recVars, envVars
<1>4. \A i \in Job :
        /\ pc'[i] = "relist" <=> pc[i] = "relist"
        /\ pc[i] = "relist" => rejected'[i] = rejected[i]
  BY <1>1, <1>2 DEF Proper, Typed, TypeOK, Publish, At, Goto, Fail, Persisted, procVars, listVars,
     jobVars, recVars, envVars
<1>. QED
  BY <1>2, <1>3, <1>4, Quiet

LEMMA WindowRoles ==
  ASSUME Proper, Proper', NEW j \in Job, Window(j), NEW v \in Worker
  PROVE  RoleOf(v)' = RoleOf(v)
<1>1. \E next \in {"budget", "kill"} : pc' = [pc EXCEPT ![j] = next]
  BY DEF Window, Goto, Fail
<1>2. UNCHANGED <<current, candidate, retiring, previous, proc, rescue>>
  BY DEF Window, At, Goto, Fail, procVars, listVars, jobVars, connVars, recVars, envVars
<1>3. \A i \in Job : Holding(i)' <=> Holding(i)
  BY <1>1, <1>2 DEF Proper, Typed, TypeOK, Holding, Window, At, Goto, Fail, procVars, listVars,
     jobVars, connVars, recVars, envVars
<1>4. \A i \in Job :
        /\ pc'[i] = "relist" <=> pc[i] = "relist"
        /\ pc[i] = "relist" => rejected'[i] = rejected[i]
  BY <1>1, <1>2 DEF Proper, Typed, TypeOK, Window, At, Goto, Fail, procVars, listVars, jobVars,
     connVars, recVars, envVars
<1>. QED
  BY <1>2, <1>3, <1>4, Quiet

LEMMA BudgetRoles ==
  ASSUME Proper, Proper', NEW j \in Job, Budget(j), NEW v \in Worker
  PROVE  RoleOf(v)' = RoleOf(v)
<1>1. UNCHANGED <<current, candidate, retiring, previous, proc, rescue>>
  BY DEF Budget, At, Goto, procVars, listVars, jobVars, connVars, localVars, envVars
<1>2. \A i \in Job : Holding(i)' <=> Holding(i)
  BY <1>1 DEF Proper, Typed, TypeOK, Holding, Budget, At, Goto, procVars, listVars, jobVars,
     connVars, localVars, envVars
<1>3. \A i \in Job :
        /\ pc'[i] = "relist" <=> pc[i] = "relist"
        /\ pc[i] = "relist" => rejected'[i] = rejected[i]
  BY <1>1 DEF Proper, Typed, TypeOK, Budget, At, Goto, procVars, listVars, jobVars, connVars,
     localVars, envVars
<1>. QED
  BY <1>1, <1>2, <1>3, Quiet

LEMMA RejectRoles ==
  ASSUME Proper, Proper', NEW j \in Job, Reject(j), NEW v \in Worker
  PROVE  RoleOf(v)' = RoleOf(v)
<1>1. UNCHANGED <<current, candidate, retiring, previous, proc, rescue>>
  BY DEF Reject, At, Goto, procVars, listVars, jobVars, connVars, recVars, envVars
<1>2. \A i \in Job : Holding(i)' <=> Holding(i)
  BY <1>1 DEF Proper, Typed, TypeOK, Holding, Reject, At, Goto, procVars, listVars, jobVars,
     connVars, recVars, envVars
<1>3. \A i \in Job :
        /\ pc'[i] = "relist" <=> pc[i] = "relist"
        /\ pc[i] = "relist" => rejected'[i] = rejected[i]
  BY <1>1 DEF Proper, Typed, TypeOK, Reject, At, Goto, procVars, listVars, jobVars, connVars,
     recVars, envVars
<1>. QED
  BY <1>1, <1>2, <1>3, Quiet

LEMMA UnpublishRoles ==
  ASSUME Proper, Proper', NEW j \in Job, Unpublish(j), NEW v \in Worker
  PROVE  RoleOf(v)' = RoleOf(v)
<1>1. UNCHANGED <<current, candidate, retiring, previous, proc, rescue>>
  BY DEF Unpublish, At, Goto, Persisted, procVars, listVars, localVars, recVars, envVars
<1>2. \A i \in Job : Holding(i)' <=> Holding(i)
  BY <1>1 DEF Proper, Typed, TypeOK, Holding, Unpublish, At, Goto, Persisted, procVars, listVars,
     localVars, recVars, envVars
<1>3. \A i \in Job :
        /\ pc'[i] = "relist" <=> pc[i] = "relist"
        /\ pc[i] = "relist" => rejected'[i] = rejected[i]
  BY <1>1 DEF Proper, Typed, TypeOK, Unpublish, At, Goto, Persisted, procVars, listVars, localVars,
     recVars, envVars
<1>. QED
  BY <1>1, <1>2, <1>3, Quiet

LEMMA TellRoles ==
  ASSUME Proper, Proper', NEW j \in Job, Tell(j), NEW v \in Worker
  PROVE  RoleOf(v)' = RoleOf(v)
<1>1. UNCHANGED <<current, candidate, retiring, previous, proc, rescue>>
  BY DEF Tell, At, Goto, Telling, listVars, jobVars, connVars, localVars, recVars, envVars
<1>2. \A i \in Job : Holding(i)' <=> Holding(i)
  BY <1>1 DEF Proper, Typed, TypeOK, Holding, Tell, At, Goto, Telling, listVars, jobVars, connVars,
     localVars, recVars, envVars
<1>3. \A i \in Job :
        /\ pc'[i] = "relist" <=> pc[i] = "relist"
        /\ pc[i] = "relist" => rejected'[i] = rejected[i]
  BY <1>1 DEF Proper, Typed, TypeOK, Tell, At, Goto, Telling, listVars, jobVars, connVars,
     localVars, recVars, envVars
<1>. QED
  BY <1>1, <1>2, <1>3, Quiet

LEMMA ReportRoles ==
  ASSUME Proper, Proper', NEW j \in Job, Report(j), NEW v \in Worker
  PROVE  RoleOf(v)' = RoleOf(v)
<1>1. UNCHANGED <<current, candidate, retiring, previous, proc, rescue>>
  BY DEF Report, At, Goto, procVars, listVars, connVars, localVars, recVars, envVars
<1>2. \A i \in Job : Holding(i)' <=> Holding(i)
  BY <1>1 DEF Proper, Typed, TypeOK, Holding, Report, At, Goto, procVars, listVars, connVars,
     localVars, recVars, envVars
<1>3. \A i \in Job :
        /\ pc'[i] = "relist" <=> pc[i] = "relist"
        /\ pc[i] = "relist" => rejected'[i] = rejected[i]
  BY <1>1 DEF Proper, Typed, TypeOK, Report, At, Goto, procVars, listVars, connVars, localVars,
     recVars, envVars
<1>. QED
  BY <1>1, <1>2, <1>3, Quiet

LEMMA DoneRoles ==
  ASSUME Proper, Proper', NEW j \in Job, Done(j), NEW v \in Worker
  PROVE  RoleOf(v)' = RoleOf(v)
<1>1. UNCHANGED <<current, candidate, retiring, previous, proc, rescue>>
  BY DEF Done, At, Goto, procVars, listVars, connVars, localVars, recVars, envVars
<1>2. \A i \in Job : Holding(i)' <=> Holding(i)
  BY <1>1 DEF Proper, Typed, TypeOK, Holding, Done, At, Goto, procVars, listVars, connVars,
     localVars, recVars, envVars
<1>3. \A i \in Job :
        /\ pc'[i] = "relist" <=> pc[i] = "relist"
        /\ pc[i] = "relist" => rejected'[i] = rejected[i]
  BY <1>1 DEF Proper, Typed, TypeOK, Done, At, Goto, procVars, listVars, connVars, localVars,
     recVars, envVars
<1>. QED
  BY <1>1, <1>2, <1>3, Quiet

LEMMA LookRoles ==
  ASSUME Proper, Proper', NEW k \in Job \cup {Poller}, Look(k), NEW v \in Worker
  PROVE  RoleOf(v)' = RoleOf(v)
<1>1. UNCHANGED <<current, candidate, retiring, previous, proc, rescue>>
  BY DEF Look, Goto, procVars, listVars, jobVars, connVars, localVars, recVars, envVars
<1>2. \A i \in Job : Holding(i)' <=> Holding(i)
  BY <1>1 DEF Proper, Typed, TypeOK, Holding, Look, Goto, procVars, listVars, jobVars, connVars,
     localVars, recVars, envVars
<1>3. \A i \in Job :
        /\ pc'[i] = "relist" <=> pc[i] = "relist"
        /\ pc[i] = "relist" => rejected'[i] = rejected[i]
  BY <1>1 DEF Proper, Typed, TypeOK, Look, Goto, procVars, listVars, jobVars, connVars, localVars,
     recVars, envVars
<1>. QED
  BY <1>1, <1>2, <1>3, Quiet

LEMMA AskRoles ==
  ASSUME Proper, Proper', NEW a \in Asker, NEW j \in Job, NEW chosen \in Requests, Ask(a, j, chosen), NEW v \in Worker
  PROVE  RoleOf(v)' = RoleOf(v)
<1>1. UNCHANGED <<current, candidate, retiring, previous, proc, rescue>>
  BY DEF Ask, procVars, listVars, connVars, localVars, recVars, envVars
<1>2. \A i \in Job : Holding(i)' <=> Holding(i)
  BY <1>1 DEF Proper, Typed, TypeOK, Holding, Ask, procVars, listVars, connVars, localVars, recVars,
     envVars
<1>3. \A i \in Job :
        /\ pc'[i] = "relist" <=> pc[i] = "relist"
        /\ pc[i] = "relist" => rejected'[i] = rejected[i]
  BY <1>1 DEF Proper, Typed, TypeOK, Ask, procVars, listVars, connVars, localVars, recVars, envVars
<1>. QED
  BY <1>1, <1>2, <1>3, Quiet

LEMMA QueueRoles ==
  ASSUME Proper, Proper', NEW a \in Asker, Queue(a), NEW v \in Worker
  PROVE  RoleOf(v)' = RoleOf(v)
<1>1. UNCHANGED <<current, candidate, retiring, previous, proc, rescue>>
  BY DEF Queue, Orderly, procVars, listVars, connVars, localVars, envVars
<1>2. \A i \in Job : Holding(i)' <=> Holding(i)
  BY <1>1 DEF Proper, Typed, TypeOK, Holding, Order, Asked, Updates, UpdateAt, Before, Queue,
     Orderly, procVars, listVars, connVars, localVars, envVars
<1>3. \A i \in Job :
        /\ pc'[i] = "relist" <=> pc[i] = "relist"
        /\ pc[i] = "relist" => rejected'[i] = rejected[i]
  BY <1>1 DEF Proper, Order, Asked, Queue, Orderly, procVars, listVars, connVars, localVars, envVars
<1>. QED
  BY <1>1, <1>2, <1>3, Quiet

LEMMA ChooseRoles ==
  ASSUME Proper, Proper', NEW c \in Client, Choose(c), NEW v \in Worker
  PROVE  RoleOf(v)' = RoleOf(v)
<1>1. UNCHANGED <<current, candidate, retiring, previous, proc, rescue>>
  BY DEF Choose, ClientAt, jobVars, connVars, localVars, recVars
<1>2. \A i \in Job : Holding(i)' <=> Holding(i)
  BY <1>1 DEF Proper, Typed, TypeOK, Holding, Choose, ClientAt, jobVars, connVars, localVars,
     recVars
<1>3. \A i \in Job :
        /\ pc'[i] = "relist" <=> pc[i] = "relist"
        /\ pc[i] = "relist" => rejected'[i] = rejected[i]
  BY <1>1 DEF Proper, Typed, TypeOK, Choose, ClientAt, jobVars, connVars, localVars, recVars
<1>. QED
  BY <1>1, <1>2, <1>3, Quiet

LEMMA CountRoles ==
  ASSUME Proper, Proper', NEW c \in Client, Count(c), NEW v \in Worker
  PROVE  RoleOf(v)' = RoleOf(v)
<1>1. UNCHANGED <<current, candidate, retiring, previous, proc, rescue>>
  BY DEF Count, ClientAt, jobVars, connVars, localVars, recVars
<1>2. \A i \in Job : Holding(i)' <=> Holding(i)
  BY <1>1 DEF Proper, Typed, TypeOK, Holding, Count, ClientAt, jobVars, connVars, localVars, recVars
<1>3. \A i \in Job :
        /\ pc'[i] = "relist" <=> pc[i] = "relist"
        /\ pc[i] = "relist" => rejected'[i] = rejected[i]
  BY <1>1 DEF Proper, Typed, TypeOK, Count, ClientAt, jobVars, connVars, localVars, recVars
<1>. QED
  BY <1>1, <1>2, <1>3, Quiet

LEMMA FinishRoles ==
  ASSUME Proper, Proper', NEW c \in Client, Finish(c), NEW v \in Worker
  PROVE  RoleOf(v)' = RoleOf(v)
<1>1. UNCHANGED <<current, candidate, retiring, previous, proc, rescue>>
  BY DEF Finish, ClientAt, jobVars, connVars, localVars, recVars
<1>2. \A i \in Job : Holding(i)' <=> Holding(i)
  BY <1>1 DEF Proper, Typed, TypeOK, Holding, Finish, ClientAt, jobVars, connVars, localVars,
     recVars
<1>3. \A i \in Job :
        /\ pc'[i] = "relist" <=> pc[i] = "relist"
        /\ pc[i] = "relist" => rejected'[i] = rejected[i]
  BY <1>1 DEF Proper, Typed, TypeOK, Finish, ClientAt, jobVars, connVars, localVars, recVars
<1>. QED
  BY <1>1, <1>2, <1>3, Quiet

LEMMA CloseRoles ==
  ASSUME Proper, Proper', Close, NEW v \in Worker
  PROVE  RoleOf(v)' = RoleOf(v)
<1>1. UNCHANGED <<current, candidate, retiring, previous, proc, rescue>>
  BY DEF Close, ShutdownStep, procVars, listVars, jobVars, connVars, localVars, recVars
<1>2. \A i \in Job : Holding(i)' <=> Holding(i)
  BY <1>1 DEF Proper, Typed, TypeOK, Holding, Close, ShutdownStep, procVars, listVars, jobVars,
     connVars, localVars, recVars
<1>3. \A i \in Job :
        /\ pc'[i] = "relist" <=> pc[i] = "relist"
        /\ pc[i] = "relist" => rejected'[i] = rejected[i]
  BY <1>1 DEF Proper, Typed, TypeOK, Close, ShutdownStep, procVars, listVars, jobVars, connVars,
     localVars, recVars
<1>. QED
  BY <1>1, <1>2, <1>3, Quiet

LEMMA CrashRoles ==
  ASSUME Proper, Proper', NEW w \in Worker, Crash(w), NEW v \in Worker
  PROVE  RoleOf(v)' = RoleOf(v)
<1>1. UNCHANGED <<current, candidate, retiring, previous, rescue>>
  BY DEF Crash, WorkerChanges, listVars, jobVars, connVars, localVars, recVars
<1>2. \A i \in Job : Holding(i)' <=> Holding(i)
  BY <1>1 DEF Proper, Typed, TypeOK, Holding, Crash, WorkerChanges, listVars, jobVars, connVars,
     localVars, recVars
<1>3. \A i \in Job :
        /\ pc'[i] = "relist" <=> pc[i] = "relist"
        /\ pc[i] = "relist" => rejected'[i] = rejected[i]
  BY <1>1 DEF Proper, Typed, TypeOK, Crash, WorkerChanges, listVars, jobVars, connVars, localVars,
     recVars
<1>4. proc'[v] = "unborn" <=> proc[v] = "unborn"
  BY DEF Proper, Typed, TypeOK, Crash, WorkerChanges, listVars, jobVars, connVars, localVars,
     recVars
<1>. QED
  BY <1>1, <1>2, <1>3, <1>4, Quiet

LEMMA ExitRoles ==
  ASSUME Proper, Proper', NEW w \in Worker, Exit(w), NEW v \in Worker
  PROVE  RoleOf(v)' = RoleOf(v)
<1>1. UNCHANGED <<current, candidate, retiring, previous, rescue>>
  BY DEF Exit, WorkerChanges, listVars, jobVars, connVars, localVars, recVars
<1>2. \A i \in Job : Holding(i)' <=> Holding(i)
  BY <1>1 DEF Proper, Typed, TypeOK, Holding, Exit, WorkerChanges, listVars, jobVars, connVars,
     localVars, recVars
<1>3. \A i \in Job :
        /\ pc'[i] = "relist" <=> pc[i] = "relist"
        /\ pc[i] = "relist" => rejected'[i] = rejected[i]
  BY <1>1 DEF Proper, Typed, TypeOK, Exit, WorkerChanges, listVars, jobVars, connVars, localVars,
     recVars
<1>4. proc'[v] = "unborn" <=> proc[v] = "unborn"
  BY DEF Proper, Typed, TypeOK, Exit, WorkerChanges, listVars, jobVars, connVars, localVars, recVars
<1>. QED
  BY <1>1, <1>2, <1>3, <1>4, Quiet

LEMMA DecideRoles ==
  ASSUME Proper, Proper', NEW k \in Job \cup {Poller}, Decide(k), NEW v \in Worker
  PROVE  RoleOf(v)' = RoleOf(v)
<1>1. \A i \in Job : pc'[i] # pc[i] => i = k /\ pc[i] = "decide" /\ pc'[i] = "over"
  BY DEF Typed, TypeOK, Order, Looking, Decide, Goto, Proper
<1>2. UNCHANGED <<current, candidate, retiring, previous, proc>>
  BY DEF Decide, Goto, MayRecover, procVars, listVars, jobVars, connVars, localVars, recVars,
     envVars
<1>3. \A i \in Job : Holding(i)' <=> Holding(i)
  BY <1>1, <1>2 DEF Proper, Typed, TypeOK, Holding, Decide, Goto, MayRecover, procVars, listVars,
     jobVars, connVars, localVars, recVars, envVars
<1>4. \A i \in Job :
        /\ pc'[i] = "relist" <=> pc[i] = "relist"
        /\ pc[i] = "relist" => rejected'[i] = rejected[i]
  BY <1>1, <1>2 DEF Proper, Typed, TypeOK, Decide, Goto, MayRecover, procVars, listVars, jobVars,
     connVars, localVars, recVars, envVars
<1>5. rescue' = rescue
      \/ (rescue.at \notin {"check", "swap", "list"}
          /\ rescue'.at \notin {"check", "swap", "list"})
  BY DEF Proper, Order, OneAtATime, MayRecover, Decide, Goto, MayRecover, procVars, listVars,
     jobVars, connVars, localVars, recVars, envVars
<1>. QED
  BY <1>2, <1>3, <1>4, <1>5, Quiet

LEMMA RescueEndsRoles ==
  ASSUME Proper, Proper', RescueEnds, NEW v \in Worker
  PROVE  RoleOf(v)' = RoleOf(v)
<1>1. UNCHANGED <<current, candidate, retiring, previous, proc>>
  BY DEF RescueEnds, procVars, listVars, jobVars, connVars, localVars, envVars
<1>2. \A i \in Job : Holding(i)' <=> Holding(i)
  BY <1>1 DEF Proper, Typed, TypeOK, Holding, RescueEnds, procVars, listVars, jobVars, connVars,
     localVars, envVars
<1>3. \A i \in Job :
        /\ pc'[i] = "relist" <=> pc[i] = "relist"
        /\ pc[i] = "relist" => rejected'[i] = rejected[i]
  BY <1>1 DEF Proper, Typed, TypeOK, RescueEnds, procVars, listVars, jobVars, connVars, localVars,
     envVars
<1>4. rescue' = rescue
      \/ (rescue.at \notin {"check", "swap", "list"}
          /\ rescue'.at \notin {"check", "swap", "list"})
  BY DEF Proper, RescueEnds, procVars, listVars, jobVars, connVars, localVars, envVars
<1>. QED
  BY <1>1, <1>2, <1>3, <1>4, Quiet

SameRoles == \A v \in Worker : RoleOf(v)' = RoleOf(v)

Turns(w, from, to) ==
  /\ RoleOf(w) = from /\ RoleOf(w)' = to
  /\ \A v \in Worker : v # w => RoleOf(v)' = RoleOf(v)

Exchanges(out, after, in, prior) ==
  /\ RoleOf(out) = "current" /\ RoleOf(out)' = after
  /\ RoleOf(in) = prior /\ RoleOf(in)' = "current"
  /\ \A v \in Worker : v # out /\ v # in => RoleOf(v)' = RoleOf(v)

LEMMA BothFacts ==
  ASSUME Proper, Proper'
  PROVE  RoleFacts /\ RoleFacts'
  BY RoleIs, RoleIsNext DEF Proper

LEMMA BeginRoles ==
  ASSUME Proper, Proper', NEW j \in Job, Begin(j)
  PROVE  SameRoles \/ \E w \in Worker : Turns(w, "unborn", "candidate")
<1>1. \E next \in {"build", "kill"} : pc' = [pc EXCEPT ![j] = next]
  BY DEF Begin, Goto, Fail
<1>2. UNCHANGED <<current, retiring, previous, rejected, rescue>>
  BY DEF Begin, listVars, recVars
<1>3. /\ previous[j] = NoWorker /\ candidate[j] = NoWorker
  BY DEF Proper, Order, Updates, UpdateAt, Candidates, Before, Begin, At
<1>4. \A i \in Job : Holding(i)' <=> Holding(i)
  BY <1>1, <1>2, <1>3 DEF Proper, Typed, TypeOK, Holding
<1>5. \A i \in Job : pc'[i] = "relist" <=> pc[i] = "relist"
  BY <1>1 DEF Proper, Typed, TypeOK, Begin, At
<1>6. CASE UNCHANGED <<proc, candidate>>
  BY <1>2, <1>4, <1>5, <1>6, Quiet DEF SameRoles
<1>7. ASSUME NEW w \in Worker, proc[w] = "unborn", proc' = [proc EXCEPT ![w] = "running"],
             candidate' = [candidate EXCEPT ![j] = w]
      PROVE  Turns(w, "unborn", "candidate")
  <2>1. w # current
    BY <1>7 DEF Proper, Order, Unborn
  <2>2. Candidate(w)'
    BY <1>7 DEF Candidate, Proper, Typed, TypeOK
  <2>3. RoleOf(w) = "unborn" /\ RoleOf(w)' = "candidate"
    BY <1>2, <1>7, <2>1, <2>2, BothFacts DEF RoleFacts
  <2>4. ASSUME NEW v \in Worker, v # w PROVE RoleOf(v)' = RoleOf(v)
    <3>1. Candidate(v)' <=> Candidate(v)
      BY <1>2, <1>3, <1>7, <2>4, RolloverConstants DEF Candidate, Proper, Typed, TypeOK
    <3>2. Kept(v)' <=> Kept(v)
      BY <1>2, <1>4 DEF Kept
    <3>3. Leaving(v)' <=> Leaving(v)
      BY <1>2, <1>5 DEF Leaving
    <3>4. proc'[v] = proc[v]
      BY <1>7, <2>4 DEF Proper, Typed, TypeOK
    <3>. QED
      BY <1>2, <3>1, <3>2, <3>3, <3>4, Still
  <2>. QED
    BY <2>3, <2>4 DEF Turns
<1>. QED
  BY <1>6, <1>7 DEF Begin, Fail

LEMMA PreserveRoles ==
  ASSUME Proper, Proper', NEW j \in Job, Preserve(j)
  PROVE  SameRoles
<1>1. /\ pc[j] = "preserve" /\ pc' = [pc EXCEPT ![j] = "swap"]
      /\ previous' = [previous EXCEPT ![j] = current]
      /\ UNCHANGED <<proc, current, retiring, rejected, candidate, rescue>>
  BY DEF Preserve, At, Goto, procVars, recVars
<1>2. ASSUME NEW v \in Worker PROVE RoleOf(v)' = RoleOf(v)
  <2>1. Candidate(v)' <=> Candidate(v)
    BY <1>1 DEF Candidate
  <2>2. v # current => (Kept(v)' <=> Kept(v))
    BY <1>1 DEF Kept, Holding, Proper, Typed, TypeOK
  <2>3. Leaving(v)' <=> Leaving(v)
    BY <1>1 DEF Leaving, Proper, Typed, TypeOK
  <2>. QED
    BY <1>1, <2>1, <2>2, <2>3, Still
<1>. QED
  BY <1>2 DEF SameRoles

LEMMA SwapRoles ==
  ASSUME Proper, Proper', NEW j \in Job, Swap(j)
  PROVE  \E old, w \in Worker : Exchanges(old, "kept", w, "candidate")
<1>1. /\ pc[j] = "swap" /\ pc' = [pc EXCEPT ![j] = "list"] /\ current' = candidate[j]
      /\ candidate' = [candidate EXCEPT ![j] = NoWorker]
      /\ UNCHANGED <<proc, retiring, previous, rejected, rescue>>
  BY DEF Swap, At, Goto, procVars, recVars
<1>2. /\ candidate[j] \in Worker /\ candidate[j] # current /\ previous[j] = current /\ current \in Worker
  BY <1>1, RolloverConstants DEF Proper, Typed, TypeOK, LocalsSet, Order, Candidates, Unserved,
     Updates, UpdateAt
<1>3. PICK old \in Worker, w \in Worker : old = current /\ w = candidate[j]
  BY <1>2
<1>4. RoleOf(old) = "current" /\ RoleOf(w) = "candidate"
  BY <1>2, <1>3, BothFacts DEF RoleFacts, Candidate
<1>5. Kept(old)' /\ RoleOf(w)' = "current" /\ RoleOf(old)' = "kept"
  <2>1. Kept(old)'
    BY <1>1, <1>2, <1>3, RolloverConstants DEF Holding, Kept, Proper, Typed, TypeOK
  <2>. QED
    BY <1>1, <1>2, <1>3, <2>1, BothFacts DEF RoleFacts
<1>6. ASSUME NEW v \in Worker, v # old, v # w PROVE RoleOf(v)' = RoleOf(v)
  <2>1. Candidate(v)' <=> Candidate(v)
    BY <1>1, <1>3, <1>6, RolloverConstants DEF Candidate, Proper, Typed, TypeOK
  <2>2. Kept(v)' <=> Kept(v)
    BY <1>1, <1>2, <1>3, <1>6 DEF Kept, Holding, Proper, Typed, TypeOK
  <2>3. Leaving(v)' <=> Leaving(v)
    BY <1>1 DEF Leaving, Proper, Typed, TypeOK
  <2>. QED
    BY <1>1, <1>3, <1>6, <2>1, <2>2, <2>3, Still
<1>. QED
  BY <1>4, <1>5, <1>6 DEF Exchanges

LEMMA ListRoles ==
  ASSUME Proper, Proper', NEW j \in Job, List(j)
  PROVE  SameRoles
<1>1. /\ pc[j] = "list" /\ pc' = [pc EXCEPT ![j] = "publish"] /\ retiring' = retiring \cup {previous[j]}
      /\ UNCHANGED <<proc, current, previous, rejected, candidate, rescue>>
  BY DEF List, At, Goto, procVars, localVars, recVars
<1>2. ASSUME NEW v \in Worker PROVE RoleOf(v)' = RoleOf(v)
  <2>1. Candidate(v)' <=> Candidate(v)
    BY <1>1 DEF Candidate
  <2>2. Kept(v)' <=> Kept(v)
    BY <1>1 DEF Kept, Holding, Proper, Typed, TypeOK
  <2>3. Leaving(v)' <=> Leaving(v)
    BY <1>1 DEF Leaving, Proper, Typed, TypeOK
  <2>4. v = previous[j] => Kept(v)
    BY <1>1, RolloverConstants DEF Kept, Holding, Proper, Typed, TypeOK
  <2>5. CASE v = previous[j] /\ v # current
    BY <1>1, <2>2, <2>4, <2>5, BothFacts DEF RoleFacts
  <2>6. CASE v # previous[j] \/ v = current
    BY <1>1, <2>1, <2>2, <2>3, <2>6, Still
  <2>. QED
    BY <2>5, <2>6
<1>. QED
  BY <1>2 DEF SameRoles

LEMMA KillRoles ==
  ASSUME Proper, Proper', NEW j \in Job, KillCandidate(j)
  PROVE  SameRoles \/ \E w \in Worker : Turns(w, "candidate", "dismissed")
<1>1. /\ pc[j] = "kill" /\ \E next \in {"unpublish", "reject"} : pc' = [pc EXCEPT ![j] = next]
      /\ candidate' = [candidate EXCEPT ![j] = NoWorker]
      /\ proc' = IF candidate[j] = NoWorker THEN proc ELSE [proc EXCEPT ![candidate[j]] = "exited"]
      /\ UNCHANGED <<current, retiring, previous, rejected, rescue>>
  BY DEF KillCandidate, At, Goto, listVars, recVars
<1>2. (\A i \in Job : Holding(i)' <=> Holding(i)) /\ \A i \in Job : pc'[i] = "relist" <=> pc[i] = "relist"
  BY <1>1 DEF Holding, Proper, Typed, TypeOK
<1>3. ASSUME candidate[j] = NoWorker PROVE SameRoles
  <2>1. candidate' = candidate /\ proc' = proc
    BY <1>1, <1>3 DEF Proper, Typed, TypeOK
  <2>. QED
    BY <1>1, <1>2, <2>1, Quiet DEF SameRoles
<1>4. ASSUME NEW w \in Worker, w = candidate[j] PROVE Turns(w, "candidate", "dismissed")
  <2>1. Candidate(w) /\ w # current /\ ~Kept(w) /\ w \notin retiring /\ ~Leaving(w)
    BY <1>4, OneRole DEF Candidate, Proper
  <2>2. Active(j)
    BY <1>1 DEF Active, Updating
  <2>3. ~Candidate(w)'
    BY <1>1, <1>4, <2>2, OneUpdate, RolloverConstants DEF Candidate, Proper, Typed, TypeOK
  <2>4. ~Kept(w)' /\ ~Leaving(w)'
    BY <1>1, <1>2, <2>1 DEF Kept, Leaving
  <2>5. proc'[w] = "exited"
    BY <1>1, <1>4, RolloverConstants DEF Proper, Typed, TypeOK
  <2>6. RoleOf(w) = "candidate" /\ RoleOf(w)' = "dismissed"
    BY <1>1, <2>1, <2>3, <2>4, <2>5, BothFacts DEF RoleFacts
  <2>7. ASSUME NEW v \in Worker, v # w PROVE RoleOf(v)' = RoleOf(v)
    <3>1. Candidate(v)' <=> Candidate(v)
      BY <1>1, <1>4, <2>7, RolloverConstants DEF Candidate, Proper, Typed, TypeOK
    <3>2. Kept(v)' <=> Kept(v)
      BY <1>1, <1>2 DEF Kept
    <3>3. Leaving(v)' <=> Leaving(v)
      BY <1>1, <1>2 DEF Leaving
    <3>4. proc'[v] = proc[v]
      BY <1>1, <1>4, <2>7 DEF Proper, Typed, TypeOK
    <3>. QED
      BY <1>1, <3>1, <3>2, <3>3, <3>4, Still
  <2>. QED
    BY <2>6, <2>7 DEF Turns
<1>. QED
  BY <1>3, <1>4 DEF Proper, Typed, TypeOK, OrNone

LEMMA RestoreRoles ==
  ASSUME Proper, Proper', NEW j \in Job, Restore(j)
  PROVE  \E bad, w \in Worker : Exchanges(bad, "draining", w, "kept")
<1>1. /\ pc[j] = "restore" /\ pc' = [pc EXCEPT ![j] = "relist"] /\ current' = previous[j]
      /\ UNCHANGED <<proc, retiring, previous, rejected, candidate, rescue>>
  BY DEF Restore, At, Goto, procVars, localVars, recVars
<1>2. /\ previous[j] \in Worker /\ previous[j] # current /\ rejected[j] = current /\ current \in Worker
  BY <1>1, RolloverConstants DEF Proper, Typed, TypeOK, LocalsSet, Order, Replaced, Updates,
     UpdateAt
<1>3. PICK bad \in Worker, w \in Worker : bad = current /\ w = previous[j]
  BY <1>2
<1>4. \A i \in Job : Holding(i)' <=> Holding(i)
  BY <1>1 DEF Holding, Proper, Typed, TypeOK
<1>5. RoleOf(bad) = "current" /\ RoleOf(w) = "kept"
  <2>1. Kept(w)
    BY <1>1, <1>2, <1>3, RolloverConstants DEF Kept, Holding
  <2>. QED
    BY <1>2, <1>3, <2>1, BothFacts DEF RoleFacts
<1>6. RoleOf(w)' = "current" /\ RoleOf(bad)' = "draining"
  <2>1. Active(j)
    BY <1>1 DEF Active, Updating
  <2>2. ~Kept(bad)'
    BY <1>1, <1>2, <1>3, <1>4, <2>1, OneUpdate DEF Kept, Holding, Active, Updating, Proper
  <2>3. Leaving(bad)'
    BY <1>1, <1>2, <1>3 DEF Leaving, Proper, Typed, TypeOK
  <2>. QED
    BY <1>1, <1>2, <1>3, <2>2, <2>3, BothFacts DEF RoleFacts
<1>7. ASSUME NEW v \in Worker, v # bad, v # w PROVE RoleOf(v)' = RoleOf(v)
  <2>1. Candidate(v)' <=> Candidate(v)
    BY <1>1 DEF Candidate
  <2>2. Kept(v)' <=> Kept(v)
    BY <1>1, <1>4 DEF Kept
  <2>3. Leaving(v)' <=> Leaving(v)
    BY <1>1, <1>2, <1>3, <1>7 DEF Leaving, Proper, Typed, TypeOK
  <2>. QED
    BY <1>1, <1>3, <1>7, <2>1, <2>2, <2>3, Still
<1>. QED
  BY <1>5, <1>6, <1>7 DEF Exchanges

LEMMA RelistRoles ==
  ASSUME Proper, Proper', NEW j \in Job, Relist(j)
  PROVE  SameRoles
<1>1. /\ pc[j] = "relist" /\ pc' = [pc EXCEPT ![j] = "discard"]
      /\ retiring' = (retiring \ {previous[j]}) \cup {rejected[j]}
      /\ UNCHANGED <<proc, current, previous, rejected, candidate, rescue>>
  BY DEF Relist, At, Goto, localVars, recVars
<1>2. previous[j] = current
  BY <1>1, RolloverConstants DEF Proper, Typed, LocalsSet, Order, Updates, UpdateAt, PutBack
<1>3. ASSUME NEW v \in Worker PROVE RoleOf(v)' = RoleOf(v)
  <2>1. Candidate(v)' <=> Candidate(v)
    BY <1>1 DEF Candidate
  <2>2. Kept(v)' <=> Kept(v)
    BY <1>1 DEF Kept, Holding, Proper, Typed, TypeOK
  <2>3. v # current => (v \in retiring \/ Leaving(v) <=> v \in retiring' \/ Leaving(v)')
    <3>1. \A i \in Job : i # j => pc[i] # "relist"
      BY <1>1, OneUpdate DEF Active, Updating, Proper
    <3>2. rescue.at # "list"
      BY <1>1, OneUpdate DEF Active, Updating, Proper
    <3>. QED
      BY <1>1, <1>2, <3>1, <3>2 DEF Leaving, Proper, Typed, TypeOK
  <2>. QED
    BY <1>1, <2>1, <2>2, <2>3, Still
<1>. QED
  BY <1>3 DEF SameRoles

LEMMA ReleaseRoles ==
  ASSUME Proper, Proper', NEW j \in Job, Release(j)
  PROVE  SameRoles \/ \E w \in Worker : Turns(w, "kept", "draining")
<1>1. /\ pc[j] = "release" /\ \E next \in {"report", "tell"} : pc' = [pc EXCEPT ![j] = next]
      /\ UNCHANGED <<proc, current, retiring, previous, rejected, candidate, rescue>>
  BY DEF Release, At, Goto, procVars, localVars, recVars
<1>2. \A i \in Job : i # j => (Holding(i)' <=> Holding(i)) /\ ~Holding(i)
  BY <1>1, OneUpdate DEF Holding, Active, Updating, Proper, Typed, TypeOK
<1>3. ~Holding(j)'
  BY <1>1 DEF Holding, Proper, Typed, TypeOK
<1>4. ASSUME NEW v \in Worker, v # current => v # previous[j] PROVE RoleOf(v)' = RoleOf(v)
  <2>1. Candidate(v)' <=> Candidate(v)
    BY <1>1 DEF Candidate
  <2>2. v # current => (Kept(v)' <=> Kept(v))
    BY <1>1, <1>2, <1>4 DEF Kept
  <2>3. Leaving(v)' <=> Leaving(v)
    BY <1>1 DEF Leaving, Proper, Typed, TypeOK
  <2>. QED
    BY <1>1, <2>1, <2>2, <2>3, Still
<1>5. ASSUME NEW w \in Worker, w = previous[j], w # current PROVE Turns(w, "kept", "draining")
  <2>1. w # NoWorker
    BY RolloverConstants
  <2>2. outcome[j] /\ w \in retiring
    BY <1>1, <1>5, <2>1 DEF Proper, Order, Waiting, Updates, UpdateAt, Ending
  <2>3. Kept(w) /\ ~Kept(w)'
    BY <1>1, <1>2, <1>3, <1>5, <2>1 DEF Kept, Holding
  <2>4. RoleOf(w) = "kept" /\ RoleOf(w)' = "draining"
    BY <1>1, <1>5, <2>2, <2>3, BothFacts DEF RoleFacts
  <2>5. \A v \in Worker : v # w => RoleOf(v)' = RoleOf(v)
    BY <1>4, <1>5
  <2>. QED
    BY <2>4, <2>5 DEF Turns
<1>6. CASE previous[j] = NoWorker \/ previous[j] = current
  BY <1>4, <1>6, RolloverConstants DEF SameRoles
<1>. QED
  BY <1>5, <1>6 DEF Proper, Typed, TypeOK, OrNone

\* a retirement dismisses a worker that drains, or nobody
LEMMA RetireRoles ==
  ASSUME Proper, Proper', NEW x, Retire(x),
         proc' = proc, current' = current, candidate' = candidate, previous' = previous,
         rejected' = rejected,
         \A i \in Job : Holding(i)' <=> Holding(i),
         \A i \in Job : pc'[i] = "relist" <=> pc[i] = "relist",
         rescue' = rescue \/ (rescue.at \notin {"check", "swap", "list"}
                               /\ rescue'.at \notin {"check", "swap", "list"})
  PROVE  SameRoles \/ \E w \in Worker : Turns(w, "draining", "dismissed")
<1>1. ASSUME retiring' = retiring PROVE SameRoles
  BY <1>1, Quiet DEF SameRoles
<1>2. ASSUME NEW w \in Worker, w \in retiring, w \notin preserved, retiring' = retiring \ {w}
      PROVE  SameRoles \/ Turns(w, "draining", "dismissed")
  <2>1. ~Kept(w)
    BY <1>2 DEF Kept, Proper, Order, Updates, UpdateAt
  <2>2. w # current
    <3>1. ASSUME NEW i \in Job, pc[i] = "relist", previous[i] = current PROVE current \in preserved
      BY <3>1, RolloverConstants DEF Proper, Order, Updates, UpdateAt, Holding, Typed, TypeOK
    <3>. QED
      BY <1>2, <3>1 DEF Proper, Order, Listed
  <2>3. ~Candidate(w) /\ proc[w] # "unborn"
    BY <1>2, OneRole DEF Proper
  <2>4. \A v \in Worker : /\ Candidate(v)' <=> Candidate(v)
                          /\ Kept(v)' <=> Kept(v)
                          /\ Leaving(v)' <=> Leaving(v)
    BY DEF Candidate, Kept, Leaving
  <2>5. \A v \in Worker : v # w => RoleOf(v)' = RoleOf(v)
    BY <1>2, <2>4, Still
  <2>6. RoleOf(w) = "draining"
    BY <1>2, <2>1, <2>2, BothFacts DEF RoleFacts
  <2>7. IF Leaving(w) THEN RoleOf(w)' = "draining" ELSE RoleOf(w)' = "dismissed"
    BY <1>2, <2>1, <2>2, <2>3, <2>4, BothFacts DEF RoleFacts
  <2>. QED
    BY <2>5, <2>6, <2>7 DEF SameRoles, Turns
<1>. QED
  BY <1>1, <1>2 DEF Retire, Proper, Typed, TypeOK

LEMMA DiscardRoles ==
  ASSUME Proper, Proper', NEW j \in Job, Discard(j)
  PROVE  SameRoles \/ \E w \in Worker : Turns(w, "draining", "dismissed")
<1>1. /\ Retire(rejected[j]) /\ pc[j] = "discard" /\ pc' = [pc EXCEPT ![j] = "unpublish"]
      /\ UNCHANGED <<proc, current, candidate, previous, rejected, rescue>>
  BY DEF Discard, At, Goto, localVars, recVars
<1>2. \A i \in Job : (Holding(i)' <=> Holding(i)) /\ (pc'[i] = "relist" <=> pc[i] = "relist")
  BY <1>1 DEF Holding, Proper, Typed, TypeOK
<1>. QED
  BY <1>1, <1>2, RetireRoles

LEMMA DropRoles ==
  ASSUME Proper, Proper', NEW j \in Job, Drop(j)
  PROVE  SameRoles \/ \E w \in Worker : Turns(w, "draining", "dismissed")
<1>1. /\ Retire(previous[j]) /\ pc[j] = "drop" /\ pc' = [pc EXCEPT ![j] = "report"]
      /\ UNCHANGED <<proc, current, candidate, previous, rejected, rescue>>
  BY DEF Drop, At, Goto, localVars, recVars
<1>2. \A i \in Job : (Holding(i)' <=> Holding(i)) /\ (pc'[i] = "relist" <=> pc[i] = "relist")
  BY <1>1 DEF Holding, Proper, Typed, TypeOK
<1>. QED
  BY <1>1, <1>2, RetireRoles

LEMMA LeaveRoles ==
  ASSUME Proper, Proper', NEW c \in Client, Leave(c)
  PROVE  SameRoles \/ \E w \in Worker : Turns(w, "draining", "dismissed")
<1>1. Retire(client[c].on) /\ UNCHANGED <<proc, pc, current, candidate, previous, rejected, rescue>>
  BY DEF Leave, ClientAt, localVars, recVars
<1>2. \A i \in Job : Holding(i)' <=> Holding(i)
  BY <1>1 DEF Holding
<1>. QED
  BY <1>1, <1>2, RetireRoles

LEMMA RescueRetiresRoles ==
  ASSUME Proper, Proper', RescueRetires
  PROVE  SameRoles \/ \E w \in Worker : Turns(w, "draining", "dismissed")
<1>1. /\ Retire(rescue.previous) /\ UNCHANGED <<proc, pc, current, candidate, previous, rejected>>
      /\ rescue.at = "retire" /\ rescue'.at = "end"
  BY DEF RescueRetires, localVars, Proper, Typed, TypeOK
<1>2. \A i \in Job : Holding(i)' <=> Holding(i)
  BY <1>1 DEF Holding
<1>. QED
  BY <1>1, <1>2, RetireRoles

\* where only the recovery moves, jobs stay as they are
LEMMA RescueStepRoles ==
  ASSUME Proper, Proper', NEW v \in Worker,
         pc' = pc, previous' = previous, rejected' = rejected, candidate' = candidate,
         v = current <=> v = current',
         proc'[v] = "unborn" <=> proc[v] = "unborn",
         (rescue.next = v /\ rescue.at \in {"check", "swap"})
            <=> (rescue'.next = v /\ rescue'.at \in {"check", "swap"}),
         v \in retiring \/ (rescue.at = "list" /\ rescue.previous = v)
            <=> v \in retiring' \/ (rescue'.at = "list" /\ rescue'.previous = v)
  PROVE  RoleOf(v)' = RoleOf(v)
<1>1. Candidate(v)' <=> Candidate(v)
  BY DEF Candidate
<1>2. Kept(v)' <=> Kept(v)
  BY DEF Kept, Holding
<1>3. v \in retiring \/ Leaving(v) <=> v \in retiring' \/ Leaving(v)'
  BY DEF Leaving
<1>. QED
  BY <1>1, <1>2, <1>3, Still

LEMMA RescueStartsRoles ==
  ASSUME Proper, Proper', RescueStarts
  PROVE  SameRoles \/ \E w \in Worker : Turns(w, "unborn", "candidate")
<1>1. rescue.at = "start" /\ UNCHANGED <<pc, previous, rejected, candidate, current, retiring>>
  BY DEF RescueStarts, localVars, listVars
<1>2. ASSUME proc' = proc, rescue'.at = "end" PROVE SameRoles
  BY <1>1, <1>2, RescueStepRoles DEF SameRoles
<1>3. ASSUME NEW w \in Worker, proc[w] = "unborn", proc' = [proc EXCEPT ![w] = "running"],
             rescue'.at = "check", rescue'.next = w
      PROVE  Turns(w, "unborn", "candidate")
  <2>1. w # current
    BY <1>3 DEF Proper, Order, Unborn
  <2>2. Candidate(w)'
    BY <1>3 DEF Candidate
  <2>3. RoleOf(w) = "unborn" /\ RoleOf(w)' = "candidate"
    BY <1>1, <1>3, <2>1, <2>2, BothFacts DEF RoleFacts
  <2>4. ASSUME NEW v \in Worker, v # w PROVE RoleOf(v)' = RoleOf(v)
    <3>1. proc'[v] = proc[v]
      BY <1>3, <2>4 DEF Proper, Typed, TypeOK
    <3>. QED
      BY <1>1, <1>3, <2>4, <3>1, RescueStepRoles
  <2>. QED
    BY <2>3, <2>4 DEF Turns
<1>. QED
  BY <1>2, <1>3 DEF RescueStarts, Proper, Typed, TypeOK

LEMMA RescueChecksRoles ==
  ASSUME Proper, Proper', RescueChecks
  PROVE  SameRoles \/ \E w \in Worker : Turns(w, "candidate", "dismissed")
<1>1. rescue.at = "check" /\ UNCHANGED <<pc, previous, rejected, candidate, current, retiring>>
  BY DEF RescueChecks, localVars, listVars
<1>2. ASSUME proc' = proc, rescue'.at = "swap", rescue'.next = rescue.next PROVE SameRoles
  BY <1>1, <1>2, RescueStepRoles DEF SameRoles
<1>3. ASSUME NEW w \in Worker, w = rescue.next, proc' = [proc EXCEPT ![w] = "exited"], rescue'.at = "end"
      PROVE  Turns(w, "candidate", "dismissed")
  <2>1. Candidate(w) /\ w # current /\ ~Kept(w) /\ w \notin retiring /\ ~Leaving(w)
    BY <1>1, <1>3, OneRole DEF Candidate, Proper
  <2>2. \A i \in Job : candidate[i] # w
    <3>1. \A i \in Job : ~Active(i)
      BY <1>1, RolloverConstants DEF Proper, Order, OneAtATime
    <3>. QED
      BY <3>1, RolloverConstants DEF Proper, Order, Candidates, Active, Updating
  <2>3. ~Candidate(w)' /\ ~Kept(w)' /\ ~Leaving(w)'
    BY <1>1, <1>3, <2>1, <2>2 DEF Candidate, Kept, Holding, Leaving
  <2>4. proc'[w] = "exited"
    BY <1>3 DEF Proper, Typed, TypeOK
  <2>5. RoleOf(w) = "candidate" /\ RoleOf(w)' = "dismissed"
    BY <1>1, <2>1, <2>3, <2>4, BothFacts DEF RoleFacts
  <2>6. ASSUME NEW v \in Worker, v # w PROVE RoleOf(v)' = RoleOf(v)
    <3>1. proc'[v] = proc[v]
      BY <1>3, <2>6 DEF Proper, Typed, TypeOK
    <3>. QED
      BY <1>1, <1>3, <2>6, <3>1, RescueStepRoles
  <2>. QED
    BY <2>5, <2>6 DEF Turns
<1>4. rescue.next \in Worker
  BY <1>1 DEF Proper, Typed, LocalsSet
<1>. QED
  BY <1>2, <1>3, <1>4 DEF RescueChecks, Proper, Typed, TypeOK

LEMMA RescueSwapsRoles ==
  ASSUME Proper, Proper', RescueSwaps
  PROVE  \E dead, w \in Worker : Exchanges(dead, "draining", w, "candidate")
<1>1. /\ rescue.at = "swap" /\ rescue' = [rescue EXCEPT !.at = "list"] /\ current' = rescue.next
      /\ UNCHANGED <<pc, proc, previous, rejected, candidate, retiring>>
  BY DEF RescueSwaps, localVars, procVars
<1>2. /\ rescue.next \in Worker /\ rescue.previous \in Worker
      /\ current = rescue.previous /\ rescue.next # rescue.previous
  BY <1>1 DEF Proper, Typed, LocalsSet, Order, Rescued, Candidates
<1>3. PICK dead \in Worker, w \in Worker : dead = rescue.previous /\ w = rescue.next
  BY <1>2
<1>4. rescue'.at = "list" /\ rescue'.previous = dead /\ rescue'.next = w
  BY <1>1, <1>3 DEF Proper, Typed, TypeOK
<1>5. RoleOf(dead) = "current" /\ RoleOf(w) = "candidate"
  BY <1>1, <1>2, <1>3, BothFacts DEF RoleFacts, Candidate
<1>6. ~Kept(dead)'
  <2>1. \A i \in Job : ~Active(i)
    BY <1>1, RolloverConstants DEF Proper, Order, OneAtATime
  <2>. QED
    BY <1>1, <2>1 DEF Kept, Holding, Active, Updating
<1>7. Leaving(dead)'
  BY <1>4 DEF Leaving
<1>8. RoleOf(w)' = "current" /\ RoleOf(dead)' = "draining"
  BY <1>1, <1>2, <1>3, <1>6, <1>7, BothFacts DEF RoleFacts
<1>9. ASSUME NEW v \in Worker, v # dead, v # w PROVE RoleOf(v)' = RoleOf(v)
  BY <1>1, <1>2, <1>3, <1>4, <1>9, RescueStepRoles
<1>. QED
  BY <1>5, <1>8, <1>9 DEF Exchanges

LEMMA RescueListsRoles ==
  ASSUME Proper, Proper', RescueLists
  PROVE  SameRoles
<1>1. /\ rescue.at = "list" /\ rescue'.at = "retire" /\ retiring' = retiring \cup {rescue.previous}
      /\ UNCHANGED <<pc, proc, current, previous, rejected, candidate>>
  BY DEF RescueLists, localVars, procVars, Proper, Typed, TypeOK
<1>2. ASSUME NEW v \in Worker PROVE RoleOf(v)' = RoleOf(v)
  BY <1>1, RescueStepRoles
<1>. QED
  BY <1>2 DEF SameRoles

\* what a step does to the roles while the supervisor is healthy
Moves ==
  \/ SameRoles
  \/ \E w \in Worker : \/ Turns(w, "unborn", "candidate") \/ Turns(w, "candidate", "dismissed")
                       \/ Turns(w, "kept", "draining") \/ Turns(w, "draining", "dismissed")
  \/ \E out, in \in Worker : \/ Exchanges(out, "kept", in, "candidate")
                             \/ Exchanges(out, "draining", in, "kept")
                             \/ Exchanges(out, "draining", in, "candidate")

LEMMA StepRoles ==
  ASSUME Proper, Proper', [Next]_vars
  PROVE  Moves
<1>1. ASSUME NEW j \in Job, Perform(j) PROVE Moves
  <2>1. CASE Begin(j) \/ KillCandidate(j) \/ Release(j) \/ Discard(j) \/ Drop(j)
    BY <2>1, BeginRoles, KillRoles, ReleaseRoles, DiscardRoles, DropRoles DEF Moves
  <2>2. CASE Swap(j) \/ Restore(j)
    BY <2>2, SwapRoles, RestoreRoles DEF Moves
  <2>3. CASE Preserve(j) \/ List(j) \/ Relist(j)
    BY <2>3, PreserveRoles, ListRoles, RelistRoles DEF Moves
  <2>4. CASE Build(j) \/ Detach(j) \/ Publish(j) \/ Window(j) \/ Budget(j)
    BY <2>4, BuildRoles, DetachRoles, PublishRoles, WindowRoles, BudgetRoles DEF Moves, SameRoles
  <2>5. CASE Reject(j) \/ Unpublish(j) \/ Tell(j) \/ Report(j) \/ Done(j)
    BY <2>5, RejectRoles, UnpublishRoles, TellRoles, ReportRoles, DoneRoles DEF Moves, SameRoles
  <2>. QED
    BY <1>1, <2>1, <2>2, <2>3, <2>4, <2>5 DEF Perform
<1>2. ASSUME NEW k \in Job \cup {Poller}, Look(k) \/ Decide(k) PROVE Moves
  BY <1>2, LookRoles, DecideRoles DEF Moves, SameRoles
<1>3. CASE Rescue
  <2>1. CASE RescueStarts \/ RescueChecks \/ RescueRetires
    BY <2>1, RescueStartsRoles, RescueChecksRoles, RescueRetiresRoles DEF Moves
  <2>2. CASE RescueSwaps \/ RescueLists \/ RescueEnds
    BY <2>2, RescueSwapsRoles, RescueListsRoles, RescueEndsRoles DEF Moves, SameRoles
  <2>. QED
    BY <1>3, <2>1, <2>2 DEF Rescue
<1>4. ASSUME NEW c \in Client, Forward(c) PROVE Moves
  BY <1>4, ChooseRoles, CountRoles, FinishRoles, LeaveRoles DEF Forward, Moves, SameRoles
<1>5. ASSUME NEW w \in Worker, Crash(w) \/ Exit(w) PROVE Moves
  BY <1>5, CrashRoles, ExitRoles DEF Moves, SameRoles
<1>6. CASE Close
  BY <1>6, CloseRoles DEF Moves, SameRoles
<1>7. ~Sweep /\ ~Gone
  BY DEF Proper, Healthy, Swept, Sweep, Gone, ShutdownStep
<1>8. ASSUME NEW a \in Asker, Queue(a) PROVE Moves
  BY <1>8, QueueRoles DEF Moves, SameRoles
<1>9. ASSUME NEW a \in Asker, NEW j \in Job, NEW chosen \in Requests, Ask(a, j, chosen) PROVE Moves
  BY <1>9, AskRoles DEF Moves, SameRoles
<1>10. CASE UNCHANGED vars
  <2>1. UNCHANGED <<pc, proc, previous, rejected, candidate, current, retiring, rescue>>
    BY <1>10 DEF vars, procVars, listVars, localVars, recVars
  <2>2. \A v \in Worker : RoleOf(v)' = RoleOf(v)
    BY <2>1, RescueStepRoles
  <2>. QED
    BY <2>2 DEF Moves, SameRoles
<1>. QED
  BY <1>1, <1>2, <1>3, <1>4, <1>5, <1>6, <1>7, <1>8, <1>9, <1>10 DEF Next

\* a supervisor that swept its workers is not asked for the promise again
LEMMA StaysSwept ==
  ASSUME [Next]_vars, Swept
  PROVE  Swept'
<1>1. CASE supervisor' = supervisor
  BY <1>1 DEF Swept
<1>2. ASSUME NEW j \in Job, Perform(j) PROVE supervisor' = supervisor
  BY <1>2 DEF Perform, Begin, Build, Detach, Preserve, Swap, List, Publish, Window, Budget,
     KillCandidate,
     Reject, Restore, Relist, Discard, Unpublish, Release, Tell, Drop, Report, Done, envVars
<1>3. ASSUME NEW k \in Job \cup {Poller}, Look(k) \/ Decide(k) PROVE supervisor' = supervisor
  BY <1>3 DEF Look, Decide, envVars
<1>4. CASE Rescue
  BY <1>1, <1>4 DEF Rescue, RescueStarts, RescueChecks, RescueSwaps, RescueLists, RescueRetires,
     RescueEnds, envVars
<1>5. ASSUME NEW c \in Client, Forward(c) PROVE supervisor' = supervisor
  BY <1>5 DEF Forward, Choose, Count, Finish, Leave, ClientAt
<1>6. ASSUME NEW w \in Worker, Crash(w) \/ Exit(w) PROVE supervisor' = supervisor
  BY <1>6 DEF Crash, Exit, WorkerChanges
<1>7. ASSUME NEW a \in Asker, Queue(a) PROVE supervisor' = supervisor
  BY <1>7 DEF Queue, envVars
<1>8. ASSUME NEW a \in Asker, NEW j \in Job, NEW chosen \in Requests, Ask(a, j, chosen)
      PROVE  supervisor' = supervisor
  BY <1>8 DEF Ask, envVars
<1>9. CASE Close \/ Sweep \/ Gone
  BY <1>9 DEF Close, Sweep, Gone, ShutdownStep, Swept
<1>10. CASE UNCHANGED vars
  BY <1>1, <1>10 DEF vars, envVars
<1>. QED
  BY <1>1, <1>2, <1>3, <1>4, <1>5, <1>6, <1>7, <1>8, <1>9, <1>10 DEF Next

RoleMap == [w \in Worker |-> IF Healthy THEN RoleOf(w) ELSE "dismissed"]

LEMMA RoleTyped == \A w \in Worker : RoleOf(w) \in Roles!Role
  BY DEF RoleOf, Roles!Role

\* While replacements come one at a time, each step of an update, of a recovery
\* and of a request is one of the moves WorkerRoles allows, or none: exactly one
\* worker is current, one that was replaced comes back only before its switch
\* is final, and one that was dismissed never serves again.
THEOREM RolesAreImplemented == Spec => ImplementsRoles
<1>1. Init => Roles!Init
  <2> SUFFICES ASSUME Init PROVE Roles!Init
    OBVIOUS
  <2>1. Proper /\ current = FirstWorker /\ \A w \in Worker : w # FirstWorker => proc[w] = "unborn"
    BY InitTyped, InitOrder DEF Init, Proper, Healthy, Orderly, Swept
  <2>2. \A w \in Worker : RoleOf(w) = IF w = FirstWorker THEN "current" ELSE "unborn"
    BY <2>1, RoleIs DEF Proper, RoleFacts
  <2>3. Healthy = TRUE
    BY <2>1 DEF Proper
  <2>. QED
    BY <2>2, <2>3 DEF Roles!Init
<1>2. ASSUME Typed, Typed', OrderInv, OrderInv', [Next]_vars
      PROVE  [Roles!Next]_<<RoleMap, Healthy>>
  <2>1. CASE ~Healthy
    <3>1. ~Healthy'
      BY <1>2, <2>1, StaysSwept, StaysEntangled DEF Healthy, Orderly
    <3>2. RoleMap' = RoleMap
      BY <2>1, <3>1 DEF RoleMap
    <3>3. Healthy' = Healthy
      BY <2>1, <3>1 DEF Healthy
    <3>. QED
      BY <3>2, <3>3
  <2>2. CASE Healthy /\ ~Healthy'
    <3>1. Roles!Fail
      BY <2>2 DEF Roles!Fail, Roles!Role
    <3>. QED
      BY <3>1 DEF Roles!Next
  <2>3. CASE Healthy /\ Healthy'
    <3>1. Moves
      BY <1>2, <2>3, StepRoles DEF Proper, OrderInv, Healthy
    <3>2. CASE SameRoles
      BY <2>3, <3>2 DEF SameRoles, RoleMap
    <3>3. ASSUME NEW w \in Worker, NEW from, NEW to, Turns(w, from, to) PROVE Roles!Turn(w, from, to)
      BY <2>3, <3>3 DEF Turns, Roles!Turn
    <3>4. ASSUME NEW out \in Worker, NEW in \in Worker, NEW after, NEW prior,
                 Exchanges(out, after, in, prior)
          PROVE  Roles!Exchange(out, after, in, prior)
      BY <2>3, <3>4 DEF Exchanges, Roles!Exchange
    <3>. QED
      BY <3>1, <3>2, <3>3, <3>4 DEF Moves, Roles!Next, Roles!Start, Roles!Discard, Roles!Commit,
         Roles!Dismiss, Roles!Promote, Roles!Restore, Roles!Replace
  <2>. QED
    BY <2>1, <2>2, <2>3
<1>. QED
  BY <1>1, <1>2, OrderKept, PTL DEF Spec, ImplementsRoles, Roles!Spec, RoleMap

=============================================================================
