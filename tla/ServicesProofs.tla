--------------------------- MODULE ServicesProofs ---------------------------
(***************************************************************************)
(* Proofs about the parts of MCServices, for every number of starters,     *)
(* clients, processes, desktops and events.  Each part has an inductive    *)
(* invariant of its own; a step of another part leaves it alone.           *)
(***************************************************************************)
EXTENDS MCServices, FiniteSetTheorems, SequenceTheorems, TLAPS

-----------------------------------------------------------------------------
\* ServiceStart: who starts, and who is started, has the lock.

StartTyped ==
  /\ starter \in [Starter -> {"idle", "take", "write", "look", "judge", "reclaim", "under", "spawn", "hand",
                              "wait", "drop", "found", "attached", "refused", "dead"}]
  /\ service \in [Starter -> {"none", "starting", "bound", "serving", "idle", "leaving", "gone"}]
  /\ lock \in [file : Starter \cup {Past, Nobody}, pid : Start!Process \cup {Past, Nobody}]
  /\ descriptor \in Starter \cup {Past, Nobody}
  /\ attached \in [Starter -> Starter \cup {Nobody}]
  /\ lost \in BOOLEAN

\* A published descriptor leads to a service that serves; who is attached is nowhere else.
Published == descriptor \in Starter => service[descriptor] \in {"serving", "idle"}
AttachedOnly == \A c \in Starter : attached[c] # Nobody => starter[c] = "attached"

\* Between taking the lock and handing it over a starter's name is in it; then its child's is,
\* until the child serves; and while a child is on its way nobody is published.
Starts(c) == service[c] \in {"starting", "bound"}
LockNames(c) ==
  /\ starter[c] \in {"write", "under", "spawn", "hand"} => lock.file = c
  /\ starter[c] = "write" => lock.pid = Nobody
  /\ starter[c] \in {"under", "spawn", "hand"} => lock.pid = c
  /\ Starts(c) => /\ lock.file = c /\ (lock.pid = Start!Child(c) \/ starter[c] = "hand")
                  /\ starter[c] \in {"hand", "wait", "refused", "dead"}
  /\ starter[c] = "spawn" \/ Starts(c) => descriptor \notin Starter
  /\ service[c] \in {"serving", "idle"} => descriptor = c

StartInv ==
  /\ StartTyped /\ Published /\ AttachedOnly
  /\ ~lost => \A c \in Starter : LockNames(c)

LEMMA StartBegins ==
  ASSUME Start!StartInit
  PROVE  StartInv
<1>. USE ServicesConstants DEF Start!StartInit, Start!NoLock
<1>1. StartTyped
  <2>1. lock \in [file : Starter \cup {Past, Nobody}, pid : Start!Process \cup {Past, Nobody}]
    <3>1. CASE lock = [file |-> Nobody, pid |-> Nobody]
      BY <3>1
    <3>2. CASE lock = [file |-> Past, pid |-> Past]
      BY <3>2
    <3>. QED
      BY <3>1, <3>2
  <2>2. descriptor \in Starter \cup {Past, Nobody} /\ lost \in BOOLEAN
    BY Zenon
  <2>3. attached \in [Starter -> Starter \cup {Nobody}]
    BY Zenon
  <2>. QED
    BY <2>1, <2>2, <2>3 DEF StartTyped
<1>2. Published /\ AttachedOnly
  BY DEF Published, AttachedOnly
<1>3. \A c \in Starter : LockNames(c)
  BY DEF LockNames, Starts
<1>. QED
  BY <1>1, <1>2, <1>3 DEF StartInv

\* Whoever is discovered is published, and the other way round.
LEMMA DiscoveredIsPublished ==
  ASSUME StartInv
  PROVE  Start!Discovered <=> descriptor \in Starter
BY DEF StartInv, StartTyped, Published, Start!Discovered

\* No orphaned lock is one that names somebody who starts, or a child on its way.
LEMMA StartingIsNoOrphan ==
  ASSUME StartInv, ~lost, NEW c \in Starter, Start!Orphaned,
         starter[c] \in {"write", "under", "spawn", "hand"} \/ Starts(c)
  PROVE  FALSE
<1>1. LockNames(c)
  BY DEF StartInv
<1>2. lock.pid # c \/ starter[c] = "dead"
  BY DEF Start!Orphaned, Start!Alive
<1>3. lock.pid # Start!Child(c) \/ ~Starts(c)
  BY DEF Start!Orphaned, Start!Alive, Starts
<1>. QED
  BY <1>1, <1>2, <1>3 DEF LockNames, Start!Orphaned

LEMMA StartTypedStep ==
  ASSUME StartTyped, NEW c \in Starter, Start!StarterStep(c) \/ Start!Dies(c) \/ Start!Detaches(c) \/ Start!ServiceStep(c)
  PROVE  StartTyped'
<1>. USE DEF StartTyped, Start!Goes, Start!Ready, Start!Becomes, Start!NoLock, Start!Process
<1>1. CASE Start!Asks(c)
  BY <1>1 DEF Start!Asks
<1>2. CASE Start!Creates(c)
  BY <1>2 DEF Start!Creates
<1>3. CASE Start!Writes(c)
  BY <1>3 DEF Start!Writes
<1>4. CASE Start!Looks(c)
  BY <1>4 DEF Start!Looks
<1>5. CASE Start!Judges(c)
  BY <1>5 DEF Start!Judges
<1>6. CASE Start!Reclaims(c)
  BY <1>6 DEF Start!Reclaims, Start!Removes
<1>7. CASE Start!AsksAgain(c)
  BY <1>7 DEF Start!AsksAgain
<1>8. CASE Start!Spawns(c)
  BY <1>8 DEF Start!Spawns
<1>9. CASE Start!Hands(c)
  BY <1>9 DEF Start!Hands
<1>10. CASE Start!Waits(c)
  BY <1>10 DEF Start!Waits
<1>11. CASE Start!Drops(c)
  BY <1>11 DEF Start!Drops, Start!Removes
<1>12. CASE Start!Attaches(c)
  BY <1>12 DEF Start!Attaches, Start!Discovered
<1>13. CASE Start!Dies(c)
  BY <1>13 DEF Start!Dies
<1>14. CASE Start!Detaches(c)
  BY <1>14 DEF Start!Detaches
<1>15. CASE Start!Begins(c)
  BY <1>15 DEF Start!Begins
<1>16. CASE Start!Publishes(c)
  BY <1>16 DEF Start!Publishes
<1>17. CASE Start!Idles(c)
  BY <1>17 DEF Start!Idles
<1>18. CASE Start!Forgets(c)
  BY <1>18 DEF Start!Forgets
<1>19. CASE Start!Exits(c)
  BY <1>19 DEF Start!Exits
<1>. QED
  BY <1>1, <1>2, <1>3, <1>4, <1>5, <1>6, <1>7, <1>8, <1>9, <1>10, <1>11, <1>12, <1>13, <1>14, <1>15, <1>16,
     <1>17, <1>18, <1>19 DEF Start!StarterStep, Start!ServiceStep

\* A lock that is removed without anything being lost was nobody's who starts.
LEMMA RemovedIsNobodys ==
  ASSUME StartInv, NEW c \in Starter, Start!Removes(c), ~lost', starter[c] \in {"reclaim", "drop"},
         NEW d \in Starter
  PROVE  starter[d] \notin {"write", "under", "spawn", "hand"} /\ ~Starts(d)
<1>1. ~lost /\ (lock = Start!NoLock \/ lock.file = c \/ Start!Orphaned)
  BY Zenon DEF Start!Removes
<1>2. LockNames(c) /\ LockNames(d)
  BY <1>1 DEF StartInv
<1>3. CASE lock = Start!NoLock
  BY <1>2, <1>3, ServicesConstants DEF LockNames, Start!NoLock
<1>4. CASE lock.file = c
  BY <1>2, <1>4 DEF LockNames
<1>5. CASE Start!Orphaned
  BY <1>1, <1>5, StartingIsNoOrphan
<1>. QED
  BY <1>1, <1>3, <1>4, <1>5

LEMMA StarterSteps ==
  ASSUME StartInv, NEW c \in Starter, Start!StarterStep(c) \/ Start!Dies(c) \/ Start!Detaches(c), ~lost'
  PROVE  ~lost /\ \A d \in Starter : LockNames(d)'
<1>. USE DEF Start!Goes, Start!Ready, StartTyped, LockNames, Starts
<1>0. ~lost
  BY Zenon DEF Start!StarterStep, Start!Asks, Start!Creates, Start!Writes, Start!Looks, Start!Judges, Start!Reclaims,
     Start!Removes, Start!AsksAgain, Start!Spawns, Start!Hands, Start!Waits, Start!Drops, Start!Attaches,
     Start!Dies, Start!Detaches
<1>. SUFFICES ASSUME NEW d \in Starter PROVE LockNames(d)'
  BY <1>0
<1>n. StartTyped /\ LockNames(c) /\ LockNames(d)
  BY <1>0 DEF StartInv
<1>1. CASE Start!Asks(c)
  BY <1>1, <1>n DEF Start!Asks
<1>2. CASE Start!Creates(c)
  BY <1>2, <1>n, ServicesConstants DEF Start!Creates, Start!NoLock
<1>3. CASE Start!Writes(c)
  BY <1>3, <1>n DEF Start!Writes
<1>4. CASE Start!Looks(c)
  BY <1>4, <1>n DEF Start!Looks
<1>5. CASE Start!Judges(c)
  BY <1>5, <1>n DEF Start!Judges
<1>6. CASE Start!Reclaims(c)
  <2>1. starter[c] = "reclaim" /\ Start!Removes(c)
    BY <1>6 DEF Start!Reclaims
  <2>2. starter[d] \notin {"write", "under", "spawn", "hand"} /\ ~Starts(d)
    BY <2>1, RemovedIsNobodys
  <2>. QED
    BY <1>6, <2>2, <1>n DEF Start!Reclaims
<1>7. CASE Start!AsksAgain(c)
  BY <1>7, <1>n, DiscoveredIsPublished DEF Start!AsksAgain
<1>8. CASE Start!Spawns(c)
  BY <1>8, <1>n DEF Start!Spawns
<1>9. CASE Start!Hands(c)
  BY <1>9, <1>n, ServicesConstants DEF Start!Hands, Start!NoLock
<1>10. CASE Start!Waits(c)
  <2>1. ~Starts(c) \/ (Start!Alive(Start!Child(c)) /\ ~Start!Discovered)
    BY <1>n, DiscoveredIsPublished DEF Start!Alive
  <2>. QED
    BY <1>10, <2>1, <1>n DEF Start!Waits
<1>11. CASE Start!Drops(c)
  <2>1. starter[c] = "drop" /\ Start!Removes(c)
    BY <1>11 DEF Start!Drops
  <2>2. starter[d] \notin {"write", "under", "spawn", "hand"} /\ ~Starts(d)
    BY <2>1, RemovedIsNobodys
  <2>. QED
    BY <1>11, <2>2, <1>n DEF Start!Drops
<1>12. CASE Start!Attaches(c)
  BY <1>12, <1>n DEF Start!Attaches
<1>13. CASE Start!Dies(c)
  <2>1. starter[c] # "hand"
    BY <1>13, Zenon DEF Start!Dies
  <2>. QED
    BY <1>13, <2>1, <1>n DEF Start!Dies
<1>14. CASE Start!Detaches(c)
  BY <1>14, <1>n DEF Start!Detaches
<1>. QED
  BY <1>1, <1>2, <1>3, <1>4, <1>5, <1>6, <1>7, <1>8, <1>9, <1>10, <1>11, <1>12, <1>13, <1>14 DEF Start!StarterStep

LEMMA ServiceSteps ==
  ASSUME StartInv, NEW c \in Starter, Start!ServiceStep(c), ~lost'
  PROVE  \A d \in Starter : LockNames(d)'
<1>. USE DEF Start!Becomes, StartTyped, LockNames, Starts
<1>. SUFFICES ASSUME NEW d \in Starter PROVE LockNames(d)'
  OBVIOUS
<1>0. ~lost
  BY DEF Start!ServiceStep, Start!Begins, Start!Publishes, Start!Idles, Start!Forgets, Start!Exits
<1>n. StartTyped /\ LockNames(c) /\ LockNames(d)
  BY <1>0 DEF StartInv
<1>1. CASE Start!Begins(c)
  BY <1>1, <1>n DEF Start!Begins
<1>2. CASE Start!Publishes(c)
  BY <1>2, <1>n DEF Start!Publishes
<1>3. CASE Start!Idles(c)
  BY <1>3, <1>n DEF Start!Idles
<1>4. CASE Start!Forgets(c)
  BY <1>4, <1>n, ServicesConstants DEF Start!Forgets
<1>5. CASE Start!Exits(c)
  <2>1. attached[d] = c => starter[d] = "attached"
    BY ServicesConstants DEF StartInv, AttachedOnly
  <2>. QED
    BY <1>5, <1>n, <2>1 DEF Start!Exits
<1>. QED
  BY <1>1, <1>2, <1>3, <1>4, <1>5 DEF Start!ServiceStep

LEMMA PublishedStep ==
  ASSUME StartInv, NEW c \in Starter, Start!StarterStep(c) \/ Start!Dies(c) \/ Start!Detaches(c) \/ Start!ServiceStep(c)
  PROVE  Published'
<1>. USE DEF StartInv, StartTyped, Published, Start!Becomes
<1>1. CASE Start!Spawns(c)
  BY <1>1 DEF Start!Spawns
<1>2. CASE Start!ServiceStep(c)
  BY <1>2, ServicesConstants DEF Start!ServiceStep, Start!Begins, Start!Publishes, Start!Idles, Start!Forgets, Start!Exits
<1>3. CASE (Start!StarterStep(c) /\ ~Start!Spawns(c)) \/ Start!Dies(c) \/ Start!Detaches(c)
  <2>1. UNCHANGED <<service, descriptor>>
    BY <1>3 DEF Start!StarterStep, Start!Asks, Start!Creates, Start!Writes, Start!Looks, Start!Judges, Start!Reclaims,
       Start!AsksAgain, Start!Hands, Start!Waits, Start!Drops, Start!Attaches, Start!Dies, Start!Detaches
  <2>. QED
    BY <2>1
<1>. QED
  BY <1>1, <1>2, <1>3

LEMMA AttachedStep ==
  ASSUME StartInv, NEW c \in Starter, Start!StarterStep(c) \/ Start!Dies(c) \/ Start!Detaches(c) \/ Start!ServiceStep(c)
  PROVE  AttachedOnly'
<1>. USE DEF StartInv, StartTyped, AttachedOnly, Start!Goes, Start!Ready
<1>1. CASE Start!Attaches(c)
  BY <1>1 DEF Start!Attaches
<1>2. CASE Start!Detaches(c)
  BY <1>2 DEF Start!Detaches
<1>3. CASE Start!Exits(c)
  BY <1>3, ServicesConstants DEF Start!Exits
<1>4. CASE Start!StarterStep(c) /\ ~Start!Attaches(c)
  <2>1. attached' = attached /\ starter[c] # "attached"
        /\ \A d \in Starter : d # c => starter'[d] = starter[d]
    BY <1>4 DEF Start!StarterStep, Start!Asks, Start!Creates, Start!Writes, Start!Looks, Start!Judges, Start!Reclaims,
       Start!AsksAgain, Start!Spawns, Start!Hands, Start!Waits, Start!Drops
  <2>. QED
    BY <2>1
<1>5. CASE Start!Dies(c)
  BY <1>5 DEF Start!Dies
<1>6. CASE Start!ServiceStep(c) /\ ~Start!Exits(c)
  BY <1>6 DEF Start!ServiceStep, Start!Begins, Start!Publishes, Start!Idles, Start!Forgets
<1>. QED
  BY <1>1, <1>2, <1>3, <1>4, <1>5, <1>6

LEMMA StartStep ==
  ASSUME StartInv, Start!StartNext
  PROVE  StartInv'
<1>. PICK c \in Starter : Start!StarterStep(c) \/ Start!Dies(c) \/ Start!Detaches(c) \/ Start!ServiceStep(c)
  BY DEF Start!StartNext
<1>1. StartTyped'
  BY StartTypedStep DEF StartInv
<1>2. Published' /\ AttachedOnly'
  BY PublishedStep, AttachedStep
<1>3. ~lost' => (\A d \in Starter : LockNames(d))'
  BY StarterSteps, ServiceSteps
<1>. QED
  BY <1>1, <1>2, <1>3 DEF StartInv

LEMMA StartElsewhere ==
  ASSUME StartInv, UNCHANGED start
  PROVE  StartInv'
BY DEF StartInv, StartTyped, Published, AttachedOnly, LockNames, Starts, start

LEMMA OneOfThemServes ==
  ASSUME StartInv
  PROVE  OneServingUnlessLost
<1>. SUFFICES ASSUME ~lost
     PROVE  Start!OneServing /\ \A s \in Starter : service[s] = "serving" => descriptor = s
  BY DEF OneServingUnlessLost, Start!OneServingUnlessLost
<1>1. \A s \in Starter : Start!Serving(s) => descriptor = s
  BY DEF StartInv, LockNames, Start!Serving
<1>. DEFINE S == {s \in Starter : Start!Serving(s)}
<1>2. S = {} \/ S = {descriptor}
  BY <1>1
<1>3. Cardinality(S) <= 1
  <2>1. Cardinality({}) = 0 /\ Cardinality({descriptor}) = 1
    BY FS_EmptySet, FS_Singleton
  <2>. QED
    BY <1>2, <2>1
<1>4. Start!Cardinality(S) = Cardinality(S)
  BY DEF Start!Cardinality, Cardinality
<1>. QED
  BY <1>1, <1>3, <1>4 DEF Start!OneServing, Start!Serving

\* A directory is served by one service, the one its descriptor leads to, unless a lock was taken
\* from somebody who was starting (descriptor.rs, ensure(); service.rs, serve()).
THEOREM OneServes == Spec => []OneServingUnlessLost
<1>1. Init => StartInv
  BY StartBegins DEF Init
<1>2. StartInv /\ [Next]_vars => StartInv'
  <2>. SUFFICES ASSUME StartInv, [Next]_vars PROVE StartInv'
    OBVIOUS
  <2>1. CASE OfStart
    BY <2>1, StartStep DEF OfStart
  <2>2. CASE UNCHANGED start
    BY <2>2, StartElsewhere
  <2>. QED
    BY <2>1, <2>2 DEF Next, OfStore, OfReplace, OfLetters, OfWindow, OfDrafts, vars
<1>3. StartInv => OneServingUnlessLost
  BY OneOfThemServes
<1>. QED
  BY <1>1, <1>2, <1>3, PTL DEF Spec

-----------------------------------------------------------------------------
\* StoreService: what is said last is the newest, and the file is behind no answer.

Phase == {"away", "greeting", "opening", "attached", "asking", "served"}
ThreadState == {"free", "join", "say", "reply", "look", "rename"}
Threads == [at : ThreadState, changed : BOOLEAN, says : Store!States, base : Store!Edit \cup {Nothing}]
Lines   == [greets : BOOLEAN, answers : BOOLEAN, state : Store!States]
Clients == [at : Phase, for : Store!Requests \cup Store!States \cup {Nothing}]

StoreTyped ==
  /\ state \in Store!States /\ disk \in Store!States /\ thread \in [Client -> Threads]
  /\ joined \subseteq Client /\ line \in [Client -> Seq(Lines)] /\ client \in [Client -> Clients]
  /\ view \in [Client -> Store!States \cup {Nothing}] /\ overtaken \in BOOLEAN
  /\ \A c \in Client : /\ client[c].at = "asking" => client[c].for \in Store!Requests
                       /\ client[c].at = "opening" => client[c].for \in Store!States

\* A client is greeted by the first line it gets, joins with that line, and holds no state before.
Greeted(c) ==
  /\ client[c].at = "away" => thread[c].at = "free" /\ c \notin joined /\ line[c] = <<>> /\ view[c] = Nothing
  /\ thread[c].at = "join" => client[c].at = "greeting" /\ c \notin joined /\ line[c] = <<>>
  /\ client[c].at = "greeting" =>
       /\ view[c] = Nothing
       /\ \/ thread[c].at = "join"
          \/ c \in joined /\ thread[c].at = "free" /\ line[c] # <<>> /\ line[c][1].greets
  /\ client[c].at \notin {"away", "greeting"} => c \in joined
  /\ thread[c].at \notin {"free", "join"} => client[c].at \notin {"away", "greeting"}
  /\ \A i \in DOMAIN line[c] : line[c][i].greets => i = 1 /\ client[c].at = "greeting"

\* The state that a client comes to with the last line on its way.
Newest(c) ==
  IF line[c] # <<>> THEN line[c][Len(line[c])].state
  ELSE IF client[c].at = "opening" /\ view[c] = Nothing THEN client[c].for ELSE view[c]

\* It is the service's, or a thread is about to say the service's.
ToBeSaid == \E d \in Client : thread[d].at = "say" /\ thread[d].changed /\ thread[d].says = state
StoreInv ==
  /\ StoreTyped /\ \A c \in Client : Greeted(c)
  /\ ~overtaken => ToBeSaid \/ \A c \in joined : Newest(c) = state

LEMMA StoreBegins ==
  ASSUME Store!StoreInit
  PROVE  StoreInv
<1>. USE ServicesConstants DEF Store!StoreInit, Store!Quiet
<1>0. Store!Fresh \in Store!States
  BY DEF Store!Fresh, Store!States
<1>. PICK known \in {Nothing, Unbound} : state = [Store!Fresh EXCEPT !.root = known]
  OBVIOUS
<1>1. Store!Fresh \in Store!States /\ state \in Store!States /\ disk = state
  BY <1>0 DEF Store!States
<1>2. StoreTyped
  <2>1. state \in Store!States /\ disk \in Store!States /\ joined \subseteq Client /\ overtaken \in BOOLEAN
    BY <1>1
  <2>2. thread \in [Client -> Threads]
    <3>1. [at |-> "free", changed |-> FALSE, says |-> Store!Fresh, base |-> Nothing] \in Threads
      BY <1>1 DEF Threads, ThreadState
    <3>. QED
      BY <3>1
  <2>3. client \in [Client -> Clients] /\ \A c \in Client : client[c].at = "away"
    BY DEF Clients, Phase
  <2>4. line \in [Client -> Seq(Lines)] /\ view \in [Client -> Store!States \cup {Nothing}]
    OBVIOUS
  <2>. QED
    BY <2>1, <2>2, <2>3, <2>4 DEF StoreTyped
<1>3. \A c \in Client : Greeted(c)
  BY DEF Greeted
<1>. QED
  BY <1>2, <1>3 DEF StoreInv

\* What a call makes of a state is a state, unless it is refused.
LEMMA DispatchedIsState ==
  ASSUME NEW s \in Store!States, NEW r \in Store!Requests, r.kind # "save", Store!Dispatched(s, r) # Nothing
  PROVE  Store!Dispatched(s, r) \in Store!States
<1>. USE DEF Store!Requests, Store!States, Store!Dispatched, Store!Refusal
<1>1. CASE r.kind = "root"
  BY <1>1 DEF Store!AddRoot
<1>2. CASE r.kind = "draft"
  BY <1>2 DEF Store!PutDraft
<1>3. CASE r.kind = "discard"
  BY <1>3 DEF Store!DiscardDraft
<1>4. CASE r.kind = "layout"
  BY <1>4 DEF Store!SaveLayout
<1>5. CASE r.kind = "prefer"
  BY <1>5 DEF Store!Preferences
<1>6. CASE r.kind = "talk"
  <2>. DEFINE o == Store!Others(s.talks, r.to)
  <2>. DEFINE next == <<r.to>> \o o
  <2>. DEFINE n == IF Len(next) > TalkLimit THEN TalkLimit ELSE Len(next)
  <2>1. r.to \in Talk /\ s.talks \in Seq(Talk)
    BY <1>6
  <2>2. o \in Seq(Talk)
    BY <2>1 DEF Store!Others, Store!RemoveAt
  <2>3. next \in Seq(Talk) /\ n \in Nat /\ n <= Len(next)
    BY <2>1, <2>2, ServicesConstants
  <2>4. SubSeq(next, 1, n) \in Seq(Talk)
    <3>. HIDE DEF next, n
    <3>. QED
      BY <2>3
  <2>5. Store!Dispatched(s, r) = [s EXCEPT !.talks = SubSeq(next, 1, n)]
    BY <1>6 DEF Store!RecordConversation
  <2>. HIDE DEF next, n
  <2>. QED
    BY <2>4, <2>5
<1>. QED
  BY <1>1, <1>2, <1>3, <1>4, <1>5, <1>6

\* A call is over under the lock: its thread is to say the state it made, changed or not.
Told(c) ==
  \E t \in Threads :
    /\ thread' = [thread EXCEPT ![c] = t] /\ t.at = "say" /\ t.says = state' /\ (t.changed <=> state' # state)
    /\ state' \in Store!States /\ disk' \in {disk, state'}

LEMMA RefusedIsTold ==
  ASSUME StoreTyped, NEW c \in Client, Store!Refuses(c)
  PROVE  Told(c)
<1>. DEFINE t == [Store!Quiet EXCEPT !.at = "say", !.says = state]
<1>1. t \in Threads /\ t.at = "say" /\ t.says = state /\ t.changed = FALSE
  BY DEF StoreTyped, Store!Quiet, Threads, ThreadState
<1>2. thread' = [thread EXCEPT ![c] = t] /\ state' = state /\ disk' = disk
  BY DEF Store!Refuses
<1>. HIDE DEF t
<1>. QED
  BY <1>1, <1>2 DEF Told, StoreTyped

LEMMA TellingIsTold ==
  ASSUME StoreTyped, NEW c \in Client, NEW next \in Store!States, Store!Telling(c, next), disk' \in {disk, next}
  PROVE  Told(c)
<1>. DEFINE t == [at |-> "say", changed |-> next # state, says |-> next, base |-> Nothing]
<1>1. t \in Threads /\ t.at = "say" /\ t.says = next
  BY DEF Threads, ThreadState
<1>2. t.changed <=> next # state
  OBVIOUS
<1>3. thread' = [thread EXCEPT ![c] = t] /\ state' = next
  BY DEF Store!Telling
<1>. HIDE DEF t
<1>. QED
  BY <1>1, <1>2, <1>3 DEF Told

LEMMA DoneIsTold ==
  ASSUME StoreTyped, NEW c \in Client, NEW r \in Store!Requests, r.kind # "save", Store!Does(c, r) \/ Store!Knows(c)
  PROVE  Told(c)
<1>. DEFINE next == Store!Dispatched(state, r)
<1>1. state \in Store!States /\ (next # Nothing => next \in Store!States)
  BY DispatchedIsState DEF StoreTyped
<1>2. Store!Knows(c) \/ IF next = Nothing THEN Store!Refuses(c) ELSE Store!Answers(c, r, next)
  BY DEF Store!Does, Store!Refusal
<1>. HIDE DEF next
<1>3. CASE Store!Knows(c)
  BY <1>1, <1>3, TellingIsTold DEF Store!Knows
<1>4. CASE next = Nothing /\ Store!Refuses(c)
  BY <1>4, RefusedIsTold
<1>5. CASE next # Nothing /\ Store!Answers(c, r, next)
  BY <1>1, <1>5, TellingIsTold DEF Store!Answers
<1>. QED
  BY <1>2, <1>3, <1>4, <1>5

LEMMA ServedIsTold ==
  ASSUME StoreTyped, NEW c \in Client, Store!Serves(c)
  PROVE  Told(c)
<1>1. client[c].for \in Store!Requests /\ client[c].for.kind # "save"
  BY DEF StoreTyped, Store!Serves
<1>2. Store!Does(c, client[c].for) \/ Store!Knows(c)
  BY DEF Store!Serves
<1>. QED
  BY <1>1, <1>2, DoneIsTold

LEMMA RenamedIsTold ==
  ASSUME StoreTyped, NEW c \in Client, Store!SaveRenames(c)
  PROVE  Told(c)
<1>1. [kind |-> "discard", to |-> Nothing] \in Store!Requests
  BY DEF Store!Requests
<1>. QED
  BY <1>1, DoneIsTold DEF Store!SaveRenames

\* A step of a call under the lock: it goes on with a save, or is over.
Works(c) ==
  /\ UNCHANGED <<joined, line, view, overtaken>>
  /\ \/ client' = client /\ thread[c].at \in {"look", "rename"}
     \/ client[c].at = "asking" /\ thread[c].at = "free" /\ client' = [client EXCEPT ![c].at = "served"]
  /\ \/ Told(c)
     \/ /\ UNCHANGED <<state, disk>>
        /\ \E t \in Threads : thread' = [thread EXCEPT ![c] = t] /\ t.at \in {"look", "rename"}

LEMMA CallWorks ==
  ASSUME StoreTyped, NEW c \in Client,
         Store!Serves(c) \/ Store!SaveReads(c) \/ Store!SaveLooks(c) \/ Store!SaveRenames(c) \/ Store!SaveFails(c)
  PROVE  Works(c)
<1>1. CASE Store!Serves(c)
  BY <1>1, ServedIsTold DEF Store!Serves, Works
<1>2. CASE Store!SaveRenames(c)
  BY <1>2, RenamedIsTold DEF Store!SaveRenames, Works
<1>3. CASE Store!SaveFails(c)
  BY <1>3, RefusedIsTold DEF Store!SaveFails, Works
<1>4. CASE Store!SaveReads(c)
  <2>. DEFINE base == client[c].for.to
  <2>. DEFINE t == [Store!Quiet EXCEPT !.at = "look", !.base = base]
  <2>1. base \in Store!Edit
    BY <1>4 DEF Store!SaveReads, StoreTyped, Store!Requests
  <2>2. Store!Fresh \in Store!States
    BY DEF Store!Fresh, Store!States
  <2>3. t \in Threads /\ t.at = "look"
    BY <2>1, <2>2 DEF Store!Quiet, Threads, ThreadState
  <2>4. Store!Refuses(c) \/ (thread' = [thread EXCEPT ![c] = t] /\ UNCHANGED <<state, disk>>)
    BY <1>4 DEF Store!SaveReads
  <2>. HIDE DEF t, base
  <2>5. Told(c) \/ (UNCHANGED <<state, disk>> /\ \E u \in Threads :
           thread' = [thread EXCEPT ![c] = u] /\ u.at \in {"look", "rename"})
    BY <2>3, <2>4, RefusedIsTold
  <2>. QED
    BY <1>4, <2>5 DEF Store!SaveReads, Works
<1>5. CASE Store!SaveLooks(c)
  <2>. DEFINE t == [thread[c] EXCEPT !.at = "rename"]
  <2>1. t \in Threads /\ t.at = "rename"
    BY DEF StoreTyped, Threads, ThreadState
  <2>2. Store!Refuses(c) \/ (thread' = [thread EXCEPT ![c] = t] /\ UNCHANGED <<state, disk>>)
    BY <1>5 DEF Store!SaveLooks
  <2>. HIDE DEF t
  <2>3. Told(c) \/ (UNCHANGED <<state, disk>> /\ \E u \in Threads :
           thread' = [thread EXCEPT ![c] = u] /\ u.at \in {"look", "rename"})
    BY <2>1, <2>2, RefusedIsTold
  <2>. QED
    BY <1>5, <2>3 DEF Store!SaveLooks, Works
<1>. QED
  BY <1>1, <1>2, <1>3, <1>4, <1>5

LEMMA WorksClients ==
  ASSUME StoreTyped, NEW c \in Client, Works(c)
  PROVE  /\ client' \in [Client -> Clients]
         /\ \A d \in Client : d # c => client'[d] = client[d]
         /\ \/ client'[c] = client[c] /\ thread[c].at \in {"look", "rename"}
            \/ client[c].at = "asking" /\ client'[c].at = "served"
<1>1. CASE client' = client /\ thread[c].at \in {"look", "rename"}
  BY <1>1 DEF StoreTyped
<1>2. CASE client[c].at = "asking" /\ client' = [client EXCEPT ![c].at = "served"]
  <2>. DEFINE to == [client[c] EXCEPT !.at = "served"]
  <2>1. to \in Clients /\ to.at = "served"
    BY DEF StoreTyped, Clients, Phase
  <2>2. client' = [client EXCEPT ![c] = to]
    BY <1>2
  <2>. HIDE DEF to
  <2>. QED
    BY <1>2, <2>1, <2>2 DEF StoreTyped
<1>. QED
  BY <1>1, <1>2 DEF Works

LEMMA WorksTyped ==
  ASSUME StoreTyped, NEW c \in Client, Works(c)
  PROVE  StoreTyped'
<1>1. state' \in Store!States /\ disk' \in Store!States /\ thread' \in [Client -> Threads]
  BY DEF Works, Told, StoreTyped
<1>2. /\ client' \in [Client -> Clients]
      /\ \A d \in Client : client'[d] = client[d] \/ client'[d].at = "served"
  BY WorksClients
<1>. QED
  BY <1>1, <1>2 DEF Works, StoreTyped

LEMMA WorksGreeted ==
  ASSUME StoreInv, NEW c \in Client, Works(c)
  PROVE  \A d \in Client : Greeted(d)'
<1>. SUFFICES ASSUME NEW d \in Client PROVE Greeted(d)'
  OBVIOUS
<1>. PICK t \in Threads : thread' = [thread EXCEPT ![c] = t] /\ t.at \in {"say", "look", "rename"}
  BY DEF Works, Told
<1>1. Greeted(c) /\ Greeted(d) /\ StoreTyped
  BY DEF StoreInv
<1>2. UNCHANGED <<joined, line, view>>
  BY DEF Works
<1>3. /\ \A e \in Client : e # c => client'[e] = client[e]
      /\ \/ client'[c] = client[c] /\ thread[c].at \notin {"free", "join"}
         \/ client[c].at = "asking" /\ client'[c].at = "served"
  BY <1>1, WorksClients
<1>4. CASE d = c
  BY <1>1, <1>2, <1>3, <1>4 DEF Greeted, StoreTyped
<1>5. CASE d # c
  BY <1>1, <1>2, <1>3, <1>5 DEF Greeted, StoreTyped
<1>. QED
  BY <1>4, <1>5

LEMMA WorksNewest ==
  ASSUME StoreInv, NEW c \in Client, Works(c), ~overtaken
  PROVE  (ToBeSaid \/ \A d \in joined : Newest(d) = state)'
<1>1. UNCHANGED <<joined, line, view>>
  BY DEF Works
<1>2. \A d \in Client : client'[d] = client[d] \/ (client[d].at = "asking" /\ client'[d].at = "served")
  BY WorksClients DEF StoreInv
<1>3. \A d \in joined : Newest(d)' = Newest(d)
  BY <1>1, <1>2 DEF Newest, StoreInv, StoreTyped
<1>. PICK t \in Threads : thread' = [thread EXCEPT ![c] = t] /\ (t.at = "say" => (t.changed <=> state' # state) /\ t.says = state')
                           /\ (t.at # "say" => state' = state)
  BY DEF Works, Told
<1>4. CASE state' # state
  <2>1. t.at = "say" /\ t.changed /\ t.says = state' /\ thread'[c] = t
    BY <1>4 DEF StoreInv, StoreTyped
  <2>. QED
    BY <2>1 DEF ToBeSaid
<1>5. CASE state' = state
  <2>1. CASE ToBeSaid
    <3>1. PICK d \in Client : thread[d].at = "say" /\ thread[d].changed /\ thread[d].says = state
      BY <2>1 DEF ToBeSaid
    <3>2. d # c
      BY <3>1 DEF StoreInv, StoreTyped, Works
    <3>. QED
      BY <3>1, <3>2, <1>5 DEF ToBeSaid, StoreInv, StoreTyped
  <2>2. CASE \A d \in joined : Newest(d) = state
    BY <2>2, <1>1, <1>3, <1>5
  <2>. QED
    BY <2>1, <2>2 DEF StoreInv
<1>. QED
  BY <1>4, <1>5

\* A client's own steps, and the lines of its thread.

LEMMA LinesAre ==
  ASSUME StoreTyped, NEW c \in Client, line[c] # <<>>
  PROVE  /\ Head(line[c]) \in Lines /\ Head(line[c]) = line[c][1]
         /\ Tail(line[c]) \in Seq(Lines) /\ Len(Tail(line[c])) = Len(line[c]) - 1 /\ Len(line[c]) \in Nat \ {0}
         /\ \A i \in 1 .. Len(line[c]) - 1 : Tail(line[c])[i] = line[c][i + 1]
         /\ Len(line[c]) = 1 <=> Tail(line[c]) = <<>>
<1>. DEFINE q == line[c]
<1>1. q \in Seq(Lines)
  BY DEF StoreTyped
<1>. HIDE DEF q
<1>2. q # <<>>
  BY DEF q
<1>3. Len(q) \in Nat \ {0} /\ Head(q) = q[1] /\ q[1] \in Lines
  BY <1>1, <1>2
<1>4. Tail(q) \in Seq(Lines) /\ Len(Tail(q)) = Len(q) - 1
  BY <1>1, <1>2
<1>5. \A i \in 1 .. Len(q) - 1 : Tail(q)[i] = q[i + 1]
  BY <1>1, <1>2
<1>6. Len(q) = 1 <=> Tail(q) = <<>>
  BY <1>3, <1>4
<1>. QED
  BY <1>3, <1>4, <1>5, <1>6 DEF q

\* A line that is put at the end of another.
LEMMA LastIsNew ==
  ASSUME NEW q \in Seq(Lines), NEW l \in Lines
  PROVE  /\ Append(q, l) \in Seq(Lines) /\ Append(q, l) # <<>> /\ Len(Append(q, l)) = Len(q) + 1
         /\ Append(q, l)[Len(Append(q, l))] = l
         /\ \A i \in DOMAIN Append(q, l) : (Append(q, l)[i] = l /\ i = Len(q) + 1) \/ (i \in DOMAIN q /\ Append(q, l)[i] = q[i])
         /\ q # <<>> => Append(q, l)[1] = q[1]
OBVIOUS

\* A step of a thread that puts one line on the way to some of the clients.
LEMMA ThreadStays ==
  ASSUME StoreTyped, NEW c \in Client, NEW at \in ThreadState
  PROVE  [thread EXCEPT ![c].at = at] \in [Client -> Threads]
<1>. DEFINE t == [thread[c] EXCEPT !.at = at]
<1>1. t \in Threads
  BY DEF StoreTyped, Threads
<1>2. [thread EXCEPT ![c].at = at] = [thread EXCEPT ![c] = t]
  OBVIOUS
<1>. HIDE DEF t
<1>. QED
  BY <1>1, <1>2 DEF StoreTyped

LEMMA QuietIsThread == Store!Quiet \in Threads
<1>1. Store!Fresh \in Store!States
  BY ServicesConstants DEF Store!Fresh, Store!States
<1>. QED
  BY <1>1 DEF Store!Quiet, Threads, ThreadState

LEMMA GreetsSafe ==
  ASSUME StoreInv, NEW c \in Client, Store!Greets(c)
  PROVE  StoreInv'
<1>. DEFINE t == [Store!Quiet EXCEPT !.at = "join", !.says = state]
<1>. DEFINE to == [client[c] EXCEPT !.at = "greeting"]
<1>1. StoreTyped /\ \A d \in Client : Greeted(d)
  BY DEF StoreInv
<1>2. t \in Threads /\ t.at = "join" /\ to \in Clients /\ to.at = "greeting"
  BY <1>1, QuietIsThread DEF StoreTyped, Threads, ThreadState, Clients, Phase
<1>3. /\ thread' = [thread EXCEPT ![c] = t] /\ client' = [client EXCEPT ![c] = to]
      /\ client[c].at = "away" /\ UNCHANGED <<state, disk, joined, line, view, overtaken>>
  BY DEF Store!Greets, Store!At
<1>. HIDE DEF t, to
<1>4. thread'[c].at = "join" /\ client'[c].at = "greeting" /\ thread[c].at = "free"
      /\ \A d \in Client : d # c => thread'[d] = thread[d] /\ client'[d] = client[d]
  BY <1>1, <1>2, <1>3 DEF StoreTyped, Greeted
<1>5. StoreTyped'
  <2>1. thread' \in [Client -> Threads] /\ client' \in [Client -> Clients]
    BY <1>1, <1>2, <1>3 DEF StoreTyped
  <2>. QED
    BY <1>1, <1>3, <1>4, <2>1 DEF StoreTyped
<1>6. \A d \in Client : Greeted(d)'
  BY <1>1, <1>3, <1>4 DEF Greeted, StoreTyped
<1>7. ToBeSaid => ToBeSaid'
  BY <1>3, <1>4 DEF ToBeSaid
<1>8. \A d \in joined : Newest(d)' = Newest(d)
  BY <1>1, <1>3, <1>4 DEF Newest, StoreTyped, Greeted
<1>. QED
  BY <1>3, <1>5, <1>6, <1>7, <1>8 DEF StoreInv

LEMMA AsksSafe ==
  ASSUME StoreInv, NEW c \in Client, Store!Asks(c)
  PROVE  StoreInv'
<1>1. StoreTyped /\ \A d \in Client : Greeted(d)
  BY DEF StoreInv
<1>. PICK r \in Store!Requests : client' = [client EXCEPT ![c] = [at |-> "asking", for |-> r]]
  BY DEF Store!Asks
<1>. DEFINE to == [at |-> "asking", for |-> r]
<1>2. to \in Clients /\ to.at = "asking" /\ to.for = r /\ client' = [client EXCEPT ![c] = to]
  BY DEF Clients, Phase
<1>3. client[c].at = "attached" /\ UNCHANGED <<state, disk, thread, joined, line, view, overtaken>>
  BY DEF Store!Asks
<1>. HIDE DEF to
<1>4. client'[c].at = "asking" /\ client'[c].for = r /\ \A d \in Client : d # c => client'[d] = client[d]
  BY <1>1, <1>2 DEF StoreTyped
<1>5. StoreTyped'
  <2>1. client' \in [Client -> Clients]
    BY <1>1, <1>2 DEF StoreTyped
  <2>. QED
    BY <1>1, <1>3, <1>4, <2>1 DEF StoreTyped
<1>6. \A d \in Client : Greeted(d)'
  BY <1>1, <1>3, <1>4 DEF Greeted, StoreTyped
<1>7. ToBeSaid => ToBeSaid'
  BY <1>3 DEF ToBeSaid
<1>8. \A d \in joined : Newest(d)' = Newest(d)
  BY <1>1, <1>3, <1>4 DEF Newest, StoreTyped
<1>. QED
  BY <1>3, <1>5, <1>6, <1>7, <1>8 DEF StoreInv

LEMMA OpensSafe ==
  ASSUME StoreInv, NEW c \in Client, Store!Opens(c)
  PROVE  StoreInv'
<1>1. StoreTyped /\ \A d \in Client : Greeted(d)
  BY DEF StoreInv
<1>. DEFINE to == [at |-> "attached", for |-> Nothing]
<1>2. to \in Clients /\ to.at = "attached" /\ client' = [client EXCEPT ![c] = to]
  BY DEF Clients, Phase, Store!Opens
<1>3. /\ client[c].at = "opening" /\ view' = [view EXCEPT ![c] = client[c].for]
      /\ UNCHANGED <<state, disk, thread, joined, line>>
      /\ overtaken' \in BOOLEAN /\ (~overtaken' => ~overtaken /\ view[c] \in {Nothing, client[c].for})
  BY <1>1, Zenon DEF Store!Opens, StoreTyped
<1>. HIDE DEF to
<1>4. client'[c].at = "attached" /\ \A d \in Client : d # c => client'[d] = client[d] /\ view'[d] = view[d]
  BY <1>1, <1>2, <1>3 DEF StoreTyped
<1>5. StoreTyped' /\ client[c].for # Nothing /\ view'[c] = client[c].for
  <2>1. client[c].for \in Store!States /\ client[c].for # Nothing
    BY <1>1, <1>3, ServicesConstants DEF StoreTyped
  <2>2. client' \in [Client -> Clients] /\ view' \in [Client -> Store!States \cup {Nothing}]
    BY <1>1, <1>2, <1>3, <2>1 DEF StoreTyped
  <2>. QED
    BY <1>1, <1>3, <1>4, <2>1, <2>2 DEF StoreTyped
<1>6. \A d \in Client : Greeted(d)'
  BY <1>1, <1>3, <1>4 DEF Greeted, StoreTyped
<1>7. ToBeSaid => ToBeSaid'
  BY <1>3 DEF ToBeSaid
<1>8. ~overtaken' => \A d \in joined : Newest(d)' = Newest(d)
  BY <1>1, <1>3, <1>4, <1>5 DEF Newest, StoreTyped
<1>. QED
  BY <1>3, <1>5, <1>6, <1>7, <1>8 DEF StoreInv

LEMMA JoinsSafe ==
  ASSUME StoreInv, NEW c \in Client, Store!Joins(c)
  PROVE  StoreInv'
<1>1. StoreTyped /\ \A d \in Client : Greeted(d)
  BY DEF StoreInv
<1>. DEFINE l == [greets |-> TRUE, answers |-> FALSE, state |-> thread[c].says]
<1>. DEFINE q == Append(line[c], l)
<1>2. l \in Lines /\ l.greets /\ l.state = thread[c].says
  BY <1>1 DEF StoreTyped, Threads, Lines
<1>3. /\ thread[c].at = "join" /\ joined' = joined \cup {c} /\ line' = [line EXCEPT ![c] = q]
      /\ thread' = [thread EXCEPT ![c] = Store!Quiet] /\ UNCHANGED <<state, disk, client, view>>
      /\ overtaken' \in BOOLEAN /\ (~overtaken' => ~overtaken /\ thread[c].says = state)
  BY <1>1, Zenon DEF Store!Joins, StoreTyped
<1>4. line[c] = <<>> /\ client[c].at = "greeting" /\ c \notin joined
  BY <1>1, <1>3 DEF Greeted
<1>. HIDE DEF l
<1>5. q \in Seq(Lines) /\ q # <<>> /\ Len(q) = 1 /\ q[1] = l /\ DOMAIN q = {1}
  BY <1>2, <1>4
<1>. HIDE DEF q
<1>6. /\ line'[c] = q /\ thread'[c] = Store!Quiet
      /\ \A d \in Client : d # c => line'[d] = line[d] /\ thread'[d] = thread[d]
  BY <1>1, <1>3 DEF StoreTyped
<1>7. StoreTyped'
  <2>1. thread' \in [Client -> Threads] /\ line' \in [Client -> Seq(Lines)]
    BY <1>1, <1>3, <1>5, QuietIsThread DEF StoreTyped
  <2>. QED
    BY <1>1, <1>3, <2>1 DEF StoreTyped
<1>8. Greeted(c)'
  BY <1>1, <1>2, <1>3, <1>4, <1>5, <1>6 DEF Greeted, Store!Quiet
<1>9. \A d \in Client : d # c => Greeted(d)'
  BY <1>1, <1>3, <1>6 DEF Greeted
<1>10. ToBeSaid => ToBeSaid'
  BY <1>3, <1>6 DEF ToBeSaid
<1>11. \A d \in joined : Newest(d)' = Newest(d)
  BY <1>1, <1>3, <1>4, <1>6 DEF Newest, StoreTyped
<1>12. ~overtaken' => Newest(c)' = state'
  BY <1>2, <1>3, <1>5, <1>6 DEF Newest
<1>. QED
  BY <1>3, <1>7, <1>8, <1>9, <1>10, <1>11, <1>12 DEF StoreInv

LEMMA ReadsSafe ==
  ASSUME StoreInv, NEW c \in Client, Store!Reads(c)
  PROVE  StoreInv'
<1>1. StoreTyped /\ \A d \in Client : Greeted(d)
  BY DEF StoreInv
<1>. DEFINE l == Head(line[c])
<1>. DEFINE q == Tail(line[c])
<1>2. /\ line[c] # <<>> /\ line' = [line EXCEPT ![c] = q]
      /\ UNCHANGED <<state, disk, thread, joined, overtaken>>
      /\ view' = IF l.greets THEN view ELSE [view EXCEPT ![c] = l.state]
      /\ client' = IF l.greets THEN [client EXCEPT ![c] = [at |-> "opening", for |-> l.state]]
                   ELSE IF l.answers THEN [client EXCEPT ![c] = [at |-> "attached", for |-> Nothing]]
                   ELSE client
  BY DEF Store!Reads
<1>3. /\ l \in Lines /\ l = line[c][1] /\ q \in Seq(Lines) /\ Len(q) = Len(line[c]) - 1 /\ Len(line[c]) \in Nat \ {0}
      /\ \A i \in 1 .. Len(line[c]) - 1 : q[i] = line[c][i + 1]
      /\ Len(line[c]) = 1 <=> q = <<>>
  BY <1>1, <1>2, LinesAre
<1>. HIDE DEF l, q
<1>4. l.state \in Store!States /\ l.state # Nothing /\ l.greets \in BOOLEAN
  BY <1>3, ServicesConstants DEF Lines
<1>5. line'[c] = q /\ \A d \in Client : d # c => line'[d] = line[d]
  BY <1>1, <1>2 DEF StoreTyped
<1>6. 1 \in DOMAIN line[c] /\ DOMAIN q = 1 .. Len(q) /\ DOMAIN line[c] = 1 .. Len(line[c])
  BY <1>1, <1>3 DEF StoreTyped
<1>7. \A i \in DOMAIN q : q[i] = line[c][i + 1] /\ i + 1 \in DOMAIN line[c] /\ i + 1 # 1
  BY <1>3, <1>6
<1>8. \A i \in DOMAIN q : ~q[i].greets
  BY <1>1, <1>7 DEF Greeted
<1>9. l.greets <=> client[c].at = "greeting"
  <2>1. l.greets => client[c].at = "greeting"
    BY <1>1, <1>3, <1>6 DEF Greeted
  <2>2. client[c].at = "greeting" => thread[c].at # "join" /\ line[c][1].greets
    BY <1>1, <1>2 DEF Greeted
  <2>. QED
    BY <2>1, <2>2, <1>3
<1>10. c \in joined /\ client[c].at # "away" /\ thread[c].at # "join"
  BY <1>1, <1>2, <1>9 DEF Greeted
<1>11. /\ client' \in [Client -> Clients] /\ view' \in [Client -> Store!States \cup {Nothing}]
       /\ \A d \in Client : d # c => client'[d] = client[d] /\ view'[d] = view[d]
       /\ l.greets => client'[c].at = "opening" /\ client'[c].for = l.state /\ view'[c] = view[c]
       /\ ~l.greets => /\ view'[c] = l.state
                       /\ client'[c] = client[c] \/ client'[c].at = "attached"
  <2>1. [at |-> "opening", for |-> l.state] \in Clients /\ [at |-> "attached", for |-> Nothing] \in Clients
    BY <1>4 DEF Clients, Phase
  <2>2. CASE l.greets
    BY <1>1, <1>2, <2>1, <2>2 DEF StoreTyped
  <2>3. CASE ~l.greets /\ l.answers
    BY <1>1, <1>2, <1>4, <2>1, <2>3 DEF StoreTyped
  <2>4. CASE ~l.greets /\ ~l.answers
    BY <1>1, <1>2, <1>4, <2>4 DEF StoreTyped
  <2>. QED
    BY <2>2, <2>3, <2>4
<1>12. StoreTyped'
  <2>1. line' \in [Client -> Seq(Lines)]
    BY <1>1, <1>2, <1>3 DEF StoreTyped
  <2>2. \A d \in Client : /\ client'[d].at = "asking" => client'[d].for \in Store!Requests
                          /\ client'[d].at = "opening" => client'[d].for \in Store!States
    BY <1>1, <1>4, <1>11 DEF StoreTyped
  <2>. QED
    BY <1>1, <1>2, <1>11, <2>1, <2>2 DEF StoreTyped
<1>13. Greeted(c)'
  <2>1. client'[c].at \notin {"away", "greeting"}
    BY <1>9, <1>10, <1>11
  <2>. QED
    BY <2>1, <1>2, <1>5, <1>8, <1>10 DEF Greeted
<1>14. \A d \in Client : d # c => Greeted(d)'
  BY <1>1, <1>2, <1>5, <1>11 DEF Greeted
<1>15. ToBeSaid => ToBeSaid'
  BY <1>2 DEF ToBeSaid
<1>16. Newest(c)' = Newest(c)
  <2>1. CASE Len(line[c]) = 1
    <3>1. Newest(c) = l.state /\ line'[c] = <<>>
      BY <2>1, <1>2, <1>3, <1>5 DEF Newest
    <3>2. l.greets => view[c] = Nothing
      BY <1>1, <1>9 DEF Greeted
    <3>. QED
      BY <3>1, <3>2, <1>4, <1>11 DEF Newest
  <2>2. CASE Len(line[c]) # 1
    <3>1. Len(q) \in 1 .. Len(line[c]) - 1 /\ Len(q) + 1 = Len(line[c]) /\ q # <<>>
      BY <2>2, <1>3
    <3>2. q[Len(q)] = line[c][Len(line[c])]
      BY <3>1, <1>3
    <3>. QED
      BY <3>1, <3>2, <1>2, <1>5 DEF Newest
  <2>. QED
    BY <2>1, <2>2
<1>17. \A d \in joined : Newest(d)' = Newest(d)
  BY <1>1, <1>5, <1>11, <1>16 DEF Newest, StoreTyped
<1>. QED
  BY <1>2, <1>12, <1>13, <1>14, <1>15, <1>17 DEF StoreInv

\* A thread that says or answers with its state puts it at the end of the lines of those it tells.
LEMMA ToldLines ==
  ASSUME StoreInv, NEW c \in Client, NEW l \in Lines, ~l.greets, l.state = thread[c].says,
         NEW to \in SUBSET Client, to \subseteq joined,
         thread[c].at \in {"say", "reply"},
         line' = [d \in Client |-> IF d \in to THEN Append(line[d], l) ELSE line[d]],
         thread' \in [Client -> Threads], thread'[c].at \in {"reply", "free"},
         \A d \in Client : d # c => thread'[d] = thread[d],
         UNCHANGED <<state, disk, joined, client, view>>,
         overtaken' \in BOOLEAN, ~overtaken' => ~overtaken /\ (to # {} => l.state = state),
         thread[c].at = "say" => to = joined \/ (to = {} /\ ~thread[c].changed)
  PROVE  StoreInv'
<1>1. StoreTyped /\ \A d \in Client : Greeted(d)
  BY DEF StoreInv
<1>2. \A d \in Client :
        /\ Append(line[d], l) \in Seq(Lines) /\ Append(line[d], l) # <<>>
        /\ Append(line[d], l)[Len(Append(line[d], l))] = l
        /\ \A i \in DOMAIN Append(line[d], l) : \/ Append(line[d], l)[i] = l /\ i = Len(line[d]) + 1
                                                \/ i \in DOMAIN line[d] /\ Append(line[d], l)[i] = line[d][i]
        /\ line[d] # <<>> => Append(line[d], l)[1] = line[d][1]
  BY <1>1, LastIsNew DEF StoreTyped
<1>3. StoreTyped'
  <2>1. line' \in [Client -> Seq(Lines)]
    BY <1>1, <1>2 DEF StoreTyped
  <2>. QED
    BY <1>1, <2>1 DEF StoreTyped
<1>4. \A d \in Client : Greeted(d)'
  <2>. SUFFICES ASSUME NEW d \in Client PROVE Greeted(d)'
    OBVIOUS
  <2>1. d \in to => client[d].at # "away" /\ thread[d].at # "join"
    BY <1>1 DEF Greeted
  <2>2. client[c].at \notin {"away", "greeting"} /\ c \in joined
    BY <1>1 DEF Greeted
  <2>3. \A i \in DOMAIN line'[d] : line'[d][i].greets => i \in DOMAIN line[d] /\ line[d][i].greets
    BY <1>2
  <2>4. line[d] # <<>> => line'[d] # <<>> /\ line'[d][1] = line[d][1]
    BY <1>2
  <2>5. d \notin to => line'[d] = line[d]
    OBVIOUS
  <2>6. thread'[d] = thread[d] \/ d = c
    OBVIOUS
  <2>. QED
    BY <1>1, <2>1, <2>2, <2>3, <2>4, <2>5, <2>6 DEF Greeted
<1>5. \A d \in joined : Newest(d)' = IF d \in to THEN l.state ELSE Newest(d)
  BY <1>1, <1>2 DEF Newest, StoreTyped
<1>6. ASSUME ~overtaken' PROVE (ToBeSaid \/ \A d \in joined : Newest(d) = state)'
  <2>1. ~overtaken /\ (to # {} => l.state = state)
    BY <1>6
  <2>2. CASE \A d \in joined : Newest(d) = state
    BY <2>1, <2>2, <1>5
  <2>3. CASE ToBeSaid
    <3>1. PICK d \in Client : thread[d].at = "say" /\ thread[d].changed /\ thread[d].says = state
      BY <2>3 DEF ToBeSaid
    <3>2. CASE d = c
      BY <3>1, <3>2, <2>1, <1>5
    <3>3. CASE d # c
      BY <3>1, <3>3 DEF ToBeSaid
    <3>. QED
      BY <3>2, <3>3
  <2>. QED
    BY <2>1, <2>2, <2>3 DEF StoreInv
<1>. QED
  BY <1>3, <1>4, <1>6 DEF StoreInv

LEMMA SaysSafe ==
  ASSUME StoreInv, NEW c \in Client, Store!Says(c)
  PROVE  StoreInv'
<1>1. StoreTyped /\ Greeted(c)
  BY DEF StoreInv
<1>. DEFINE l == [greets |-> FALSE, answers |-> FALSE, state |-> thread[c].says]
<1>. DEFINE to == IF thread[c].changed THEN joined ELSE {}
<1>2. l \in Lines /\ ~l.greets /\ l.state = thread[c].says
  BY <1>1 DEF StoreTyped, Threads, Lines
<1>3. line' = [d \in Client |-> IF d \in to THEN Append(line[d], l) ELSE line[d]]
  BY <1>1 DEF Store!Says, StoreTyped
<1>4. /\ thread' \in [Client -> Threads] /\ thread'[c].at = "reply"
      /\ \A d \in Client : d # c => thread'[d] = thread[d]
  <2>1. thread' = [thread EXCEPT ![c].at = "reply"]
    BY DEF Store!Says
  <2>2. "reply" \in ThreadState
    BY DEF ThreadState
  <2>. QED
    BY <2>1, <2>2, <1>1, ThreadStays DEF StoreTyped, Threads
<1>5. /\ thread[c].at = "say" /\ UNCHANGED <<state, disk, joined, client, view>>
      /\ overtaken' \in BOOLEAN /\ (~overtaken' => ~overtaken /\ ~(thread[c].changed /\ thread[c].says # state))
  BY <1>1, Zenon DEF Store!Says, StoreTyped
<1>6. to \in SUBSET Client /\ to \subseteq joined
  BY <1>1 DEF StoreTyped
<1>7. ~overtaken' => ~overtaken /\ (to # {} => l.state = state)
  BY <1>2, <1>5
<1>8. to = joined \/ (to = {} /\ ~thread[c].changed)
  OBVIOUS
<1>. HIDE DEF l, to
<1>. QED
  BY <1>2, <1>3, <1>4, <1>5, <1>6, <1>7, <1>8, ToldLines

LEMMA RepliesSafe ==
  ASSUME StoreInv, NEW c \in Client, Store!Replies(c)
  PROVE  StoreInv'
<1>1. StoreTyped /\ Greeted(c)
  BY DEF StoreInv
<1>. DEFINE l == [greets |-> FALSE, answers |-> TRUE, state |-> thread[c].says]
<1>. DEFINE to == {c}
<1>2. l \in Lines /\ ~l.greets /\ l.state = thread[c].says
  BY <1>1 DEF StoreTyped, Threads, Lines
<1>3. line' = [d \in Client |-> IF d \in to THEN Append(line[d], l) ELSE line[d]]
  BY <1>1 DEF Store!Replies, StoreTyped
<1>4. /\ thread' \in [Client -> Threads] /\ thread'[c].at = "free"
      /\ \A d \in Client : d # c => thread'[d] = thread[d]
  <2>1. thread' = [thread EXCEPT ![c] = Store!Quiet] /\ Store!Quiet.at = "free"
    BY DEF Store!Replies, Store!Quiet
  <2>. QED
    BY <2>1, <1>1, QuietIsThread DEF StoreTyped
<1>5. /\ thread[c].at = "reply" /\ UNCHANGED <<state, disk, joined, client, view>>
      /\ overtaken' \in BOOLEAN /\ (~overtaken' => ~overtaken /\ thread[c].says = state)
  BY <1>1, Zenon DEF Store!Replies, StoreTyped
<1>6. to \in SUBSET Client /\ to \subseteq joined
  BY <1>1, <1>5 DEF Greeted
<1>7. ~overtaken' => ~overtaken /\ (to # {} => l.state = state)
  BY <1>2, <1>5
<1>. HIDE DEF l, to
<1>. QED
  BY <1>2, <1>3, <1>4, <1>5, <1>6, <1>7, ToldLines

LEMMA WorksSafe ==
  ASSUME StoreInv, NEW c \in Client, Works(c)
  PROVE  StoreInv'
<1>1. StoreTyped'
  BY WorksTyped DEF StoreInv
<1>2. (\A d \in Client : Greeted(d))'
  BY WorksGreeted DEF Works
<1>3. ~overtaken' => (ToBeSaid \/ \A d \in joined : Newest(d) = state)'
  BY WorksNewest DEF Works
<1>. QED
  BY <1>1, <1>2, <1>3 DEF StoreInv

LEMMA RestartsSafe ==
  ASSUME StoreInv, Store!Restarts
  PROVE  StoreInv'
<1>1. StoreTyped
  BY DEF StoreInv
<1>2. /\ state' = disk /\ disk' = disk /\ joined' = {} /\ overtaken' = FALSE
      /\ thread' = [c \in Client |-> Store!Quiet] /\ line' = [c \in Client |-> <<>>]
      /\ client' = [c \in Client |-> [at |-> "away", for |-> Nothing]] /\ view' = [c \in Client |-> Nothing]
  BY DEF Store!Restarts
<1>3. thread' \in [Client -> Threads] /\ \A c \in Client : thread'[c].at = "free"
  BY <1>2, QuietIsThread DEF Store!Quiet
<1>4. client' \in [Client -> Clients] /\ \A c \in Client : client'[c].at = "away"
  BY <1>2 DEF Clients, Phase
<1>5. line' \in [Client -> Seq(Lines)] /\ view' \in [Client -> Store!States \cup {Nothing}]
  BY <1>2
<1>6. StoreTyped'
  BY <1>1, <1>2, <1>3, <1>4, <1>5 DEF StoreTyped
<1>7. \A c \in Client : Greeted(c)'
  BY <1>2, <1>3, <1>4 DEF Greeted
<1>. QED
  BY <1>2, <1>6, <1>7 DEF StoreInv

LEMMA StoreElsewhere ==
  ASSUME StoreInv, UNCHANGED <<state, disk, thread, joined, line, client, view, overtaken>>
  PROVE  StoreInv'
<1>1. StoreTyped'
  BY DEF StoreInv, StoreTyped
<1>2. \A c \in Client : Greeted(c)'
  BY DEF StoreInv, Greeted
<1>3. (ToBeSaid' <=> ToBeSaid) /\ \A c \in joined : Newest(c)' = Newest(c)
  BY DEF ToBeSaid, Newest
<1>. QED
  BY <1>1, <1>2, <1>3 DEF StoreInv

LEMMA StoreStep ==
  ASSUME StoreInv, Store!StoreNext
  PROVE  StoreInv'
<1>1. CASE Store!Edits
  BY <1>1, StoreElsewhere DEF Store!Edits
<1>2. CASE Store!Restarts
  BY <1>2, RestartsSafe
<1>3. CASE \E c \in Client : Store!Greets(c) \/ Store!Asks(c) \/ Store!Reads(c) \/ Store!Opens(c) \/ Store!ThreadStep(c)
  <2>. PICK c \in Client : Store!Greets(c) \/ Store!Asks(c) \/ Store!Reads(c) \/ Store!Opens(c) \/ Store!ThreadStep(c)
    BY <1>3
  <2>1. StoreTyped
    BY DEF StoreInv
  <2>2. CASE Store!Serves(c) \/ Store!SaveReads(c) \/ Store!SaveLooks(c) \/ Store!SaveRenames(c) \/ Store!SaveFails(c)
    BY <2>1, <2>2, CallWorks, WorksSafe
  <2>. QED
    BY <2>2, GreetsSafe, AsksSafe, ReadsSafe, OpensSafe, JoinsSafe, SaysSafe, RepliesSafe DEF Store!ThreadStep
<1>. QED
  BY <1>1, <1>2, <1>3 DEF Store!StoreNext

LEMMA ViewsAgree ==
  ASSUME StoreInv
  PROVE  ViewsAgreeInOrder
<1>. SUFFICES ASSUME ~overtaken, NEW c \in joined, line[c] = <<>>, client[c].at = "attached",
                     \A d \in Client : thread[d].at \notin {"say", "reply"}
     PROVE  view[c] = state
  BY DEF ViewsAgreeInOrder, Store!ViewsAgreeInOrder
<1>1. ~ToBeSaid
  BY DEF ToBeSaid
<1>. QED
  BY <1>1 DEF StoreInv, Newest

\* With nothing on its way every client holds the store's state, unless an older state was said,
\* answered or taken up after a newer one (service.rs, the emitter and read_answers()).
THEOREM ViewsCatchUp == Spec => []ViewsAgreeInOrder
<1>1. Init => StoreInv
  BY StoreBegins DEF Init
<1>2. StoreInv /\ [Next]_vars => StoreInv'
  <2>. SUFFICES ASSUME StoreInv, [Next]_vars PROVE StoreInv'
    OBVIOUS
  <2>1. CASE OfStore
    BY <2>1, StoreStep DEF OfStore
  <2>2. CASE UNCHANGED store
    BY <2>2, StoreElsewhere DEF store
  <2>. QED
    BY <2>1, <2>2 DEF Next, OfStart, OfReplace, OfLetters, OfWindow, OfDrafts, vars
<1>3. StoreInv => ViewsAgreeInOrder
  BY ViewsAgree
<1>. QED
  BY <1>1, <1>2, <1>3, PTL DEF Spec

\* What was answered as done stays in the file: a list of conversations names each once, and what
\* precedes one that was answered as done was recorded after it.
Once(q) == \A i, j \in 1 .. Len(q) : q[i] = q[j] => i = j
Outlived(since) == Cardinality(since) >= TalkLimit
Follows(q, since, t) ==
  \/ since[t] = Nothing \/ Outlived(since[t])
  \/ \E i \in 1 .. Len(q) : q[i] = t /\ \A j \in 1 .. i - 1 : q[j] \in since[t]
Fits(s, o) ==
  /\ s.root \in o.root /\ s.draft \in o.draft /\ s.layout \in o.layout /\ o.prefers \subseteq s.prefers
  /\ Once(s.talks) /\ Len(s.talks) <= TalkLimit /\ \A t \in Talk : Follows(s.talks, o.since, t)
Since == {f \in [Talk -> (SUBSET Talk) \cup {Nothing}] : \A t \in Talk : f[t] # Nothing => IsFiniteSet(f[t])}
Promises == [root : SUBSET (Declaration \cup {Unbound, Nothing}), draft : SUBSET (Store!Edit \cup {Nothing}),
             layout : SUBSET (Layout \cup {Nothing}), prefers : SUBSET Preference, since : Since]
KeptInv == owed \in Promises /\ Fits(state, owed) /\ Fits(disk, owed)

LEMMA KeptBegins ==
  ASSUME Store!StoreInit
  PROVE  KeptInv
<1>. PICK known \in {Nothing, Unbound} : state = [Store!Fresh EXCEPT !.root = known]
  BY DEF Store!StoreInit
<1>1. /\ disk = state /\ state.root \in {Nothing, Unbound} /\ state.draft = Nothing /\ state.layout = Nothing
      /\ state.talks = <<>> /\ state.prefers = {}
  BY DEF Store!StoreInit, Store!Fresh
<1>2. owed = [root |-> {state.root}, draft |-> {Nothing}, layout |-> {Nothing}, prefers |-> {},
              since |-> [t \in Talk |-> Nothing]]
  BY DEF Store!StoreInit
<1>3. [t \in Talk |-> Nothing] \in Since
  BY DEF Since
<1>4. owed \in Promises
  BY <1>1, <1>2, <1>3 DEF Promises
<1>5. Fits(state, owed)
  BY <1>1, <1>2, ServicesConstants DEF Fits, Once, Follows
<1>. QED
  BY <1>1, <1>4, <1>5 DEF KeptInv

\* A conversation is put first, and the others stay in their order.
HasFirst(next, q, t) ==
  /\ next \in Seq(Talk) /\ Len(next) \in Nat \ {0} /\ next[1] = t /\ Once(next)
  /\ \A i \in 1 .. Len(q) : q[i] # t =>
       \E k \in 1 .. Len(next) : /\ next[k] = q[i]
                                 /\ \A j \in 1 .. k - 1 : next[j] = t \/ \E m \in 1 .. i - 1 : next[j] = q[m]

LEMMA PutFirst ==
  ASSUME NEW q \in Seq(Talk), NEW t \in Talk, Once(q)
  PROVE  HasFirst(<<t>> \o Store!Others(q, t), q, t)
<1>. DEFINE o == Store!Others(q, t)
<1>. DEFINE next == <<t>> \o o
<1>. SUFFICES HasFirst(next, q, t)
  OBVIOUS
<1>. DEFINE gone == CHOOSE i \in DOMAIN q : q[i] = t
<1>1. CASE \E i \in DOMAIN q : q[i] = t
  <2>1. gone \in 1 .. Len(q) /\ q[gone] = t /\ Len(q) \in Nat
    BY <1>1
  <2>2. o = SubSeq(q, 1, gone - 1) \o SubSeq(q, gone + 1, Len(q))
    BY <1>1 DEF Store!Others, Store!RemoveAt
  <2>. HIDE DEF gone, o
  <2>. DEFINE front == SubSeq(q, 1, gone - 1)
  <2>. DEFINE back == SubSeq(q, gone + 1, Len(q))
  <2>3. front \in Seq(Talk) /\ Len(front) = gone - 1 /\ \A k \in 1 .. gone - 1 : front[k] = q[k]
    BY <2>1
  <2>4. back \in Seq(Talk) /\ Len(back) = Len(q) - gone /\ \A k \in 1 .. Len(q) - gone : back[k] = q[gone + k]
    BY <2>1
  <2>. HIDE DEF front, back
  <2>5. o \in Seq(Talk) /\ Len(o) = Len(q) - 1 /\ \A k \in 1 .. Len(q) - 1 : o[k] = IF k < gone THEN q[k] ELSE q[k + 1]
    <3>1. o = front \o back
      BY <2>2 DEF front, back
    <3>2. /\ o \in Seq(Talk) /\ Len(o) = Len(q) - 1
          /\ \A k \in 1 .. Len(o) : o[k] = IF k <= Len(front) THEN front[k] ELSE back[k - Len(front)]
      BY <3>1, <2>1, <2>3, <2>4
    <3>3. ASSUME NEW k \in 1 .. Len(q) - 1, k >= gone
          PROVE  back[k - (gone - 1)] = q[k + 1]
      <4>1. k - (gone - 1) \in 1 .. Len(q) - gone /\ gone + (k - (gone - 1)) = k + 1
        BY <2>1, <3>3
      <4>. QED
        BY <4>1, <2>4
    <3>. QED
      <4>1. ASSUME NEW k \in 1 .. Len(q) - 1
            PROVE  o[k] = IF k < gone THEN q[k] ELSE q[k + 1]
        <5>1. CASE k < gone
          BY <5>1, <3>2, <2>1, <2>3
        <5>2. CASE k >= gone
          BY <5>2, <3>2, <3>3, <2>1, <2>3
        <5>. QED
          BY <5>1, <5>2, <2>1
      <4>. QED
        BY <4>1, <3>2
  <2>6. next \in Seq(Talk) /\ Len(next) = Len(q) /\ next[1] = t /\ \A k \in 2 .. Len(q) : next[k] = o[k - 1]
    BY <2>1, <2>5
  <2>. HIDE DEF next
  <2>7. \A k \in 1 .. Len(q) : next[k] = IF k = 1 THEN t ELSE IF k <= gone THEN q[k - 1] ELSE q[k]
    <3>1. ASSUME NEW k \in 2 .. Len(q)
          PROVE  next[k] = IF k <= gone THEN q[k - 1] ELSE q[k]
      <4>1. k - 1 \in 1 .. Len(q) - 1 /\ next[k] = o[k - 1]
        BY <3>1, <2>1, <2>6
      <4>. QED
        BY <4>1, <2>5, <2>1
    <3>. QED
      BY <3>1, <2>1, <2>6
  <2>8. Once(next)
    <3>. DEFINE at(k) == IF k = 1 THEN gone ELSE IF k <= gone THEN k - 1 ELSE k
    <3>1. \A k \in 1 .. Len(q) : at(k) \in 1 .. Len(q) /\ next[k] = q[at(k)]
      BY <2>1, <2>7
    <3>2. \A i, j \in 1 .. Len(q) : at(i) = at(j) => i = j
      BY <2>1
    <3>. HIDE DEF at
    <3>. QED
      BY <3>1, <3>2, <2>6 DEF Once
  <2>9. ASSUME NEW i \in 1 .. Len(q), q[i] # t
        PROVE  \E k \in 1 .. Len(next) : /\ next[k] = q[i]
                                         /\ \A j \in 1 .. k - 1 : next[j] = t \/ \E m \in 1 .. i - 1 : next[j] = q[m]
    <3>1. i # gone
      BY <2>1, <2>9
    <3>. DEFINE k == IF i < gone THEN i + 1 ELSE i
    <3>2. k \in 1 .. Len(next) /\ next[k] = q[i]
      BY <2>1, <2>6, <2>7, <3>1
    <3>3. ASSUME NEW j \in 1 .. k - 1
          PROVE  next[j] = t \/ \E m \in 1 .. i - 1 : next[j] = q[m]
      <4>1. j \in 1 .. Len(q)
        BY <3>2, <2>6, <2>1
      <4>2. next[j] = IF j = 1 THEN t ELSE IF j <= gone THEN q[j - 1] ELSE q[j]
        BY <4>1, <2>7
      <4>3. CASE j = 1
        BY <4>2, <4>3
      <4>4. CASE j # 1 /\ j <= gone
        <5>1. j - 1 \in 1 .. i - 1
          BY <4>4, <3>1, <2>1
        <5>. QED
          BY <4>2, <4>4, <5>1
      <4>5. CASE j > gone
        <5>1. j \in 1 .. i - 1
          BY <4>5, <3>1, <2>1
        <5>. QED
          BY <4>2, <4>5, <5>1, <2>1
      <4>. QED
        BY <4>3, <4>4, <4>5, <2>1
    <3>. HIDE DEF k
    <3>. QED
      BY <3>2, <3>3
  <2>. QED
    BY <2>1, <2>6, <2>8, <2>9 DEF HasFirst
<1>2. CASE ~ \E i \in DOMAIN q : q[i] = t
  <2>1. o = q /\ Len(q) \in Nat /\ \A i \in 1 .. Len(q) : q[i] # t
    BY <1>2 DEF Store!Others
  <2>. HIDE DEF o, gone
  <2>2. next \in Seq(Talk) /\ Len(next) = Len(q) + 1 /\ next[1] = t /\ \A k \in 1 .. Len(q) : next[k + 1] = q[k]
    BY <2>1
  <2>. HIDE DEF next
  <2>3. Once(next)
    <3>1. \A k \in 1 .. Len(next) : (k = 1 /\ next[k] = t) \/ (k - 1 \in 1 .. Len(q) /\ next[k] = q[k - 1])
      <4>. SUFFICES ASSUME NEW k \in 1 .. Len(next), k # 1 PROVE k - 1 \in 1 .. Len(q) /\ next[k] = q[k - 1]
        BY <2>2
      <4>1. k - 1 \in 1 .. Len(q) /\ (k - 1) + 1 = k
        BY <2>1, <2>2
      <4>. QED
        BY <4>1, <2>2
    <3>2. \A k \in 1 .. Len(q) : q[k] # t
      BY <2>1
    <3>. QED
      BY <2>1, <2>2, <3>1, <3>2 DEF Once
  <2>4. ASSUME NEW i \in 1 .. Len(q), q[i] # t
        PROVE  \E k \in 1 .. Len(next) : /\ next[k] = q[i]
                                         /\ \A j \in 1 .. k - 1 : next[j] = t \/ \E m \in 1 .. i - 1 : next[j] = q[m]
    <3>1. i + 1 \in 1 .. Len(next) /\ next[i + 1] = q[i]
      BY <2>1, <2>2
    <3>2. ASSUME NEW j \in 1 .. (i + 1) - 1
          PROVE  next[j] = t \/ \E m \in 1 .. i - 1 : next[j] = q[m]
      <4>1. CASE j = 1
        BY <4>1, <2>2
      <4>2. CASE j # 1
        <5>0. j - 1 \in 1 .. i - 1 /\ j - 1 \in 1 .. Len(q) /\ (j - 1) + 1 = j
          BY <4>2, <2>1
        <5>1. j - 1 \in 1 .. i - 1 /\ next[j] = q[j - 1]
          BY <5>0, <2>2
        <5>. QED
          BY <5>1
      <4>. QED
        BY <4>1, <4>2
    <3>. QED
      BY <3>1, <3>2
  <2>. QED
    BY <2>1, <2>2, <2>3, <2>4 DEF HasFirst
<1>. QED
  BY <1>1, <1>2

\* What was recorded after a conversation only grows as others are.
LEMMA SinceGrows ==
  ASSUME NEW since \in Since, NEW t \in Talk, NEW done \in BOOLEAN
  PROVE  /\ Store!Recorded(since, t, done) \in Since
         /\ Store!Recorded(since, t, done)[t] = IF done THEN {} ELSE since[t]
         /\ \A u \in Talk \ {t} : /\ since[u] = Nothing => Store!Recorded(since, t, done)[u] = Nothing
                                  /\ since[u] # Nothing => Store!Recorded(since, t, done)[u] = since[u] \cup {t}
         /\ \A u \in Talk \ {t} : since[u] # Nothing /\ Outlived(since[u]) => Outlived(Store!Recorded(since, t, done)[u])
<1>. DEFINE next == Store!Recorded(since, t, done)
<1>1. since \in [Talk -> (SUBSET Talk) \cup {Nothing}] /\ \A u \in Talk : since[u] # Nothing => IsFiniteSet(since[u])
  BY DEF Since
<1>2. \A u \in Talk : next[u] = IF u = t THEN IF done THEN {} ELSE since[u]
                               ELSE IF since[u] = Nothing THEN Nothing ELSE since[u] \cup {t}
  BY DEF Store!Recorded
<1>3. next \in [Talk -> (SUBSET Talk) \cup {Nothing}]
  <2>1. ASSUME NEW u \in Talk
        PROVE  next[u] \in (SUBSET Talk) \cup {Nothing}
    <3>1. since[u] = Nothing \/ (since[u] \subseteq Talk /\ since[u] \cup {t} \in SUBSET Talk)
      BY <1>1
    <3>2. {} \in (SUBSET Talk) \cup {Nothing} /\ since[u] \in (SUBSET Talk) \cup {Nothing}
      BY <1>1
    <3>. HIDE DEF next
    <3>. QED
      BY <1>2, <3>1, <3>2
  <2>2. next = [u \in Talk |-> next[u]]
    BY DEF Store!Recorded
  <2>. HIDE DEF next
  <2>. QED
    BY <2>1, <2>2
<1>4. ASSUME NEW u \in Talk, next[u] # Nothing
      PROVE  IsFiniteSet(next[u])
  <2>1. since[u] # Nothing => IsFiniteSet(since[u]) /\ IsFiniteSet(since[u] \cup {t})
    BY <1>1, FS_AddElement
  <2>2. IsFiniteSet({})
    BY FS_EmptySet
  <2>. QED
    BY <1>2, <1>4, <2>1, <2>2
<1>5. ASSUME NEW u \in Talk \ {t}, since[u] # Nothing, Outlived(since[u])
      PROVE  Outlived(next[u])
  <2>1. /\ IsFiniteSet(since[u]) /\ Cardinality(since[u]) \in Nat
        /\ Cardinality(since[u] \cup {t}) = IF t \in since[u] THEN Cardinality(since[u]) ELSE Cardinality(since[u]) + 1
    BY <1>1, <1>5, FS_AddElement, FS_CardinalityType
  <2>2. next[u] = since[u] \cup {t}
    BY <1>2, <1>5
  <2>. QED
    BY <1>5, <2>1, <2>2, ServicesConstants DEF Outlived
<1>. HIDE DEF next
<1>6. next \in Since
  BY <1>3, <1>4 DEF Since
<1>. QED
  BY <1>2, <1>5, <1>6 DEF next

\* As many distinct conversations came after one as precede it.
LEMMA OutlivedBy ==
  ASSUME NEW q \in Seq(Talk), Once(q), TalkLimit \in 1 .. Len(q), NEW S, IsFiniteSet(S),
         \A j \in 1 .. TalkLimit : q[j] \in S
  PROVE  Outlived(S)
<1>. DEFINE f == [j \in 1 .. TalkLimit |-> q[j]]
<1>1. TalkLimit \in Nat /\ Len(q) \in Nat
  BY ServicesConstants
<1>2. \A i, j \in 1 .. TalkLimit : f[i] = f[j] => i = j
  BY <1>1 DEF Once
<1>3. f \in Injection(1 .. TalkLimit, S)
  BY <1>2 DEF Injection, IsInjective
<1>. HIDE DEF f
<1>4. Cardinality(1 .. TalkLimit) <= Cardinality(S)
  BY <1>3, FS_Injection
<1>5. Cardinality(1 .. TalkLimit) = TalkLimit
  BY <1>1, FS_Interval
<1>. QED
  BY <1>4, <1>5 DEF Outlived

\* A list a conversation is recorded in still has those that were answered as done.
LEMMA RecordFollows ==
  ASSUME NEW q \in Seq(Talk), NEW t \in Talk, Once(q), NEW since \in Since, NEW done \in BOOLEAN,
         \A u \in Talk : Follows(q, since, u)
  PROVE  LET next == <<t>> \o Store!Others(q, t)
             cut == SubSeq(next, 1, IF Len(next) > TalkLimit THEN TalkLimit ELSE Len(next)) IN
         /\ Once(cut) /\ Len(cut) <= TalkLimit
         /\ \A u \in Talk : Follows(cut, Store!Recorded(since, t, done), u)
<1>. DEFINE next == <<t>> \o Store!Others(q, t)
<1>. DEFINE n == IF Len(next) > TalkLimit THEN TalkLimit ELSE Len(next)
<1>. DEFINE cut == SubSeq(next, 1, n)
<1>. DEFINE after == Store!Recorded(since, t, done)
<1>1. /\ next \in Seq(Talk) /\ Len(next) \in Nat \ {0} /\ next[1] = t /\ Once(next)
      /\ \A i \in 1 .. Len(q) : q[i] # t =>
           \E k \in 1 .. Len(next) : /\ next[k] = q[i]
                                     /\ \A j \in 1 .. k - 1 : next[j] = t \/ \E m \in 1 .. i - 1 : next[j] = q[m]
  BY PutFirst DEF HasFirst
<1>. HIDE DEF next
<1>2. TalkLimit \in Nat \ {0} /\ n \in Nat \ {0} /\ n <= Len(next) /\ n <= TalkLimit
  BY <1>1, ServicesConstants
<1>3. n = TalkLimit \/ n = Len(next)
  OBVIOUS
<1>. HIDE DEF n
<1>4. Len(cut) = n /\ \A i \in 1 .. n : cut[i] = next[i]
  BY <1>1, <1>2
<1>. HIDE DEF cut
<1>5. Once(cut) /\ Len(cut) <= TalkLimit
  BY <1>1, <1>2, <1>4 DEF Once
<1>6. /\ after \in Since /\ after[t] = (IF done THEN {} ELSE since[t])
      /\ \A u \in Talk \ {t} : /\ since[u] = Nothing => after[u] = Nothing
                               /\ since[u] # Nothing => after[u] = since[u] \cup {t}
                               /\ since[u] # Nothing /\ Outlived(since[u]) => Outlived(after[u])
  BY SinceGrows
<1>. HIDE DEF after
<1>7. Follows(cut, after, t)
  BY <1>1, <1>2, <1>4 DEF Follows
<1>8. ASSUME NEW u \in Talk \ {t}
      PROVE  Follows(cut, after, u)
  <2>1. CASE since[u] = Nothing
    BY <2>1, <1>6 DEF Follows
  <2>2. CASE since[u] # Nothing /\ Outlived(since[u])
    BY <2>2, <1>6 DEF Follows
  <2>3. CASE since[u] # Nothing /\ ~Outlived(since[u])
    <3>. PICK i \in 1 .. Len(q) : q[i] = u /\ \A j \in 1 .. i - 1 : q[j] \in since[u]
      BY <2>3 DEF Follows
    <3>. PICK k \in 1 .. Len(next) : /\ next[k] = u
                                     /\ \A j \in 1 .. k - 1 : next[j] = t \/ \E m \in 1 .. i - 1 : next[j] = q[m]
      BY <1>1
    <3>1. after[u] = since[u] \cup {t}
      BY <2>3, <1>6
    <3>2. \A j \in 1 .. k - 1 : next[j] \in after[u]
      BY <3>1
    <3>3. CASE k <= n
      <4>1. k \in 1 .. Len(cut) /\ cut[k] = u /\ \A j \in 1 .. k - 1 : cut[j] \in after[u]
        BY <3>2, <3>3, <1>2, <1>4
      <4>. QED
        BY <4>1 DEF Follows
    <3>4. CASE k > n
      <4>1. n = TalkLimit /\ TalkLimit \in 1 .. Len(next) /\ \A j \in 1 .. TalkLimit : next[j] \in after[u]
        BY <3>2, <3>4, <1>1, <1>2, <1>3
      <4>2. after[u] = Nothing \/ IsFiniteSet(after[u])
        BY <1>6 DEF Since
      <4>. QED
        BY <4>1, <4>2, <1>1, OutlivedBy DEF Follows
    <3>. QED
      BY <3>3, <3>4, <1>1, <1>2
  <2>. QED
    BY <2>1, <2>2, <2>3
<1>. QED
  BY <1>5, <1>7, <1>8 DEF cut, after, n, next
\* What a request makes of a state fits what is then owed, and so does a state it did not change
\* when it failed.
LEMMA RequestFits ==
  ASSUME NEW o \in Promises, owed = o, NEW s \in Store!States, Fits(s, o), NEW r \in Store!Requests, NEW done \in BOOLEAN,
         Store!Owes(r, done), NEW next \in Store!States,
         r.kind # "save", next = Store!Dispatched(s, r), next # Nothing, r.kind = "root" => next # s
  PROVE  /\ owed' \in Promises /\ Fits(next, owed')
         /\ \A d \in Store!States : Fits(d, o) /\ ~done => Fits(d, owed')
<1>. USE DEF Store!Refusal
<1>0. /\ o.root \subseteq Declaration \cup {Unbound, Nothing} /\ o.draft \subseteq Store!Edit \cup {Nothing}
      /\ o.layout \subseteq Layout \cup {Nothing} /\ o.prefers \subseteq Preference /\ o.since \in Since
      /\ o = [root |-> o.root, draft |-> o.draft, layout |-> o.layout, prefers |-> o.prefers, since |-> o.since]
  BY DEF Promises
<1>1. CASE r.kind = "root"
  <2>. DEFINE set == IF done THEN {r.to} ELSE o.root \cup {r.to}
  <2>1. owed' = [o EXCEPT !.root = set]
    BY <1>1 DEF Store!Owes, Store!Settled
  <2>2. next = [s EXCEPT !.root = r.to] /\ r.to \in Declaration \cup {Unbound}
    BY <1>1 DEF Store!Dispatched, Store!AddRoot, Store!Requests
  <2>3. set \in SUBSET (Declaration \cup {Unbound, Nothing}) /\ r.to \in set /\ (~done => o.root \subseteq set)
    BY <1>0, <2>2
  <2>. HIDE DEF set
  <2>4. owed' \in Promises
    BY <1>0, <2>1, <2>3 DEF Promises
  <2>5. Fits(next, owed')
    BY <2>1, <2>2, <2>3 DEF Fits, Promises, Store!States
  <2>6. \A d \in Store!States : Fits(d, o) /\ ~done => Fits(d, owed')
    BY <2>1, <2>3 DEF Fits, Promises
  <2>. QED
    BY <2>4, <2>5, <2>6
<1>2. CASE r.kind \in {"draft", "discard"}
  <2>. DEFINE to == IF r.kind = "draft" THEN r.to ELSE Nothing
  <2>. DEFINE set == IF done THEN {to} ELSE o.draft \cup {to}
  <2>1. owed' = [o EXCEPT !.draft = set]
    BY <1>2 DEF Store!Owes, Store!Settled
  <2>2. next = [s EXCEPT !.draft = to] /\ to \in Store!Edit \cup {Nothing}
    BY <1>2 DEF Store!Dispatched, Store!PutDraft, Store!DiscardDraft, Store!Requests
  <2>. HIDE DEF to
  <2>3. set \in SUBSET (Store!Edit \cup {Nothing}) /\ to \in set /\ (~done => o.draft \subseteq set)
    BY <1>0, <2>2
  <2>. HIDE DEF set
  <2>4. owed' \in Promises
    BY <1>0, <2>1, <2>3 DEF Promises
  <2>5. Fits(next, owed')
    BY <2>1, <2>2, <2>3 DEF Fits, Promises, Store!States
  <2>6. \A d \in Store!States : Fits(d, o) /\ ~done => Fits(d, owed')
    BY <2>1, <2>3 DEF Fits, Promises
  <2>. QED
    BY <2>4, <2>5, <2>6
<1>3. CASE r.kind = "layout"
  <2>. DEFINE set == IF done THEN {r.to} ELSE o.layout \cup {r.to}
  <2>1. owed' = [o EXCEPT !.layout = set]
    BY <1>3 DEF Store!Owes, Store!Settled
  <2>2. next = [s EXCEPT !.layout = r.to] /\ r.to \in Layout
    BY <1>3 DEF Store!Dispatched, Store!SaveLayout, Store!Requests
  <2>3. set \in SUBSET (Layout \cup {Nothing}) /\ r.to \in set /\ (~done => o.layout \subseteq set)
    BY <1>0, <2>2
  <2>. HIDE DEF set
  <2>4. owed' \in Promises
    BY <1>0, <2>1, <2>3 DEF Promises
  <2>5. Fits(next, owed')
    BY <2>1, <2>2, <2>3 DEF Fits, Promises, Store!States
  <2>6. \A d \in Store!States : Fits(d, o) /\ ~done => Fits(d, owed')
    BY <2>1, <2>3 DEF Fits, Promises
  <2>. QED
    BY <2>4, <2>5, <2>6
<1>4. CASE r.kind = "prefer"
  <2>. DEFINE set == IF done THEN o.prefers \cup {r.to} ELSE o.prefers
  <2>1. owed' = [o EXCEPT !.prefers = set]
    BY <1>4 DEF Store!Owes
  <2>2. next = [s EXCEPT !.prefers = s.prefers \cup {r.to}] /\ r.to \in Preference
    BY <1>4 DEF Store!Dispatched, Store!Preferences, Store!Requests
  <2>3. set \in SUBSET Preference /\ set \subseteq o.prefers \cup {r.to} /\ (~done => set = o.prefers)
    BY <1>0, <2>2
  <2>. HIDE DEF set
  <2>4. owed' \in Promises
    BY <1>0, <2>1, <2>3 DEF Promises
  <2>5. Fits(next, owed')
    BY <2>1, <2>2, <2>3 DEF Fits, Promises, Store!States
  <2>6. \A d \in Store!States : Fits(d, o) /\ ~done => Fits(d, owed')
    BY <2>1, <2>3 DEF Fits, Promises
  <2>. QED
    BY <2>4, <2>5, <2>6
<1>5. CASE r.kind = "talk"
  <2>. DEFINE after == Store!Recorded(o.since, r.to, done)
  <2>. DEFINE list == <<r.to>> \o Store!Others(s.talks, r.to)
  <2>. DEFINE cut == SubSeq(list, 1, IF Len(list) > TalkLimit THEN TalkLimit ELSE Len(list))
  <2>1. owed' = [o EXCEPT !.since = after] /\ r.to \in Talk
    BY <1>5 DEF Store!Owes, Store!Requests
  <2>2. next = [s EXCEPT !.talks = cut]
    BY <1>5 DEF Store!Dispatched, Store!RecordConversation
  <2>3. s.talks \in Seq(Talk) /\ Once(s.talks) /\ \A u \in Talk : Follows(s.talks, o.since, u)
    BY DEF Fits, Store!States
  <2>4. Once(cut) /\ Len(cut) <= TalkLimit /\ \A u \in Talk : Follows(cut, after, u)
    BY <1>0, <2>1, <2>3, RecordFollows
  <2>5. /\ after \in Since /\ after[r.to] = (IF done THEN {} ELSE o.since[r.to])
        /\ \A u \in Talk \ {r.to} : /\ o.since[u] = Nothing => after[u] = Nothing
                                    /\ o.since[u] # Nothing => after[u] = o.since[u] \cup {r.to}
                                    /\ o.since[u] # Nothing /\ Outlived(o.since[u]) => Outlived(after[u])
    BY <1>0, <2>1, SinceGrows
  <2>. HIDE DEF after, list, cut
  <2>6. owed' \in Promises
    BY <1>0, <2>1, <2>5 DEF Promises
  <2>7. Fits(next, owed')
    BY <2>1, <2>2, <2>4 DEF Fits, Promises, Store!States
  <2>8. ASSUME NEW d \in Store!States, Fits(d, o), ~done
        PROVE  Fits(d, owed')
    <3>1. ASSUME NEW u \in Talk
          PROVE  Follows(d.talks, after, u)
      <4>0. Follows(d.talks, o.since, u)
        BY <2>8 DEF Fits
      <4>1. CASE u = r.to
        BY <4>0, <4>1, <2>5, <2>8 DEF Follows
      <4>2. CASE u # r.to
        <5>1. CASE o.since[u] = Nothing \/ Outlived(o.since[u])
          BY <5>1, <4>2, <2>5 DEF Follows
        <5>2. CASE o.since[u] # Nothing /\ ~Outlived(o.since[u])
          BY <5>2, <4>0, <4>2, <2>5 DEF Follows
        <5>. QED
          BY <5>1, <5>2
      <4>. QED
        BY <4>1, <4>2
    <3>. QED
      BY <3>1, <2>1, <2>8 DEF Fits, Promises
  <2>. QED
    BY <2>6, <2>7, <2>8
<1>. QED
  BY <1>1, <1>2, <1>3, <1>4, <1>5 DEF Store!Requests

LEMMA DoesKeep ==
  ASSUME StoreTyped, KeptInv, NEW c \in Client, NEW r \in Store!Requests, r.kind # "save",
         r.kind = "root" => Store!Dispatched(state, r) # state, Store!Does(c, r)
  PROVE  KeptInv'
<1>. DEFINE next == Store!Dispatched(state, r)
<1>1. next # Nothing => next \in Store!States
  BY DispatchedIsState DEF StoreTyped
<1>2. IF next = Nothing THEN Store!Refuses(c) ELSE Store!Answers(c, r, next)
  BY DEF Store!Does, Store!Refusal
<1>. HIDE DEF next
<1>3. CASE next = Nothing
  BY <1>2, <1>3 DEF Store!Refuses, KeptInv
<1>4. CASE next # Nothing
  <2>1. state' = next /\ \E done \in BOOLEAN : Store!Owes(r, done) /\ disk' = IF done THEN next ELSE disk
    BY <1>2, <1>4 DEF Store!Answers, Store!Telling
  <2>. PICK done \in BOOLEAN : Store!Owes(r, done) /\ disk' = IF done THEN next ELSE disk
    BY <2>1
  <2>2. owed' \in Promises /\ Fits(next, owed') /\ (~done => Fits(disk, owed'))
    BY <1>1, <1>4, RequestFits DEF KeptInv, StoreTyped, next
  <2>. QED
    BY <2>1, <2>2 DEF KeptInv
<1>. QED
  BY <1>3, <1>4

LEMMA PromisesStay ==
  ASSUME KeptInv, UNCHANGED owed, state' \in {state, disk}, disk' = disk
  PROVE  KeptInv'
BY DEF KeptInv

LEMMA StoreKeeps ==
  ASSUME StoreInv, KeptInv, Store!StoreNext
  PROVE  KeptInv'
<1>1. StoreTyped
  BY DEF StoreInv
<1>2. CASE Store!Edits \/ Store!Restarts
  BY <1>2, PromisesStay DEF Store!Edits, Store!Restarts
<1>3. CASE \E c \in Client : Store!Greets(c) \/ Store!Asks(c) \/ Store!Reads(c) \/ Store!Opens(c) \/ Store!ThreadStep(c)
  <2>. PICK c \in Client : Store!Greets(c) \/ Store!Asks(c) \/ Store!Reads(c) \/ Store!Opens(c) \/ Store!ThreadStep(c)
    BY <1>3
  <2>1. CASE Store!Serves(c)
    <3>. DEFINE r == client[c].for
    <3>1. r \in Store!Requests /\ r.kind # "save"
      BY <1>1, <2>1 DEF StoreTyped, Store!Serves
    <3>2. Store!Knows(c) \/ ((r.kind = "root" => Store!Dispatched(state, r) # state) /\ Store!Does(c, r))
      BY <2>1 DEF Store!Serves
    <3>3. CASE Store!Knows(c)
      BY <3>3, PromisesStay DEF Store!Knows, Store!Telling
    <3>. QED
      BY <1>1, <3>1, <3>2, <3>3, DoesKeep
  <2>2. CASE Store!SaveRenames(c)
    <3>1. [kind |-> "discard", to |-> Nothing] \in Store!Requests
      BY DEF Store!Requests
    <3>. QED
      BY <1>1, <2>2, <3>1, DoesKeep DEF Store!SaveRenames
  <2>3. CASE Store!SaveReads(c) \/ Store!SaveLooks(c) \/ Store!SaveFails(c)
    BY <2>3, PromisesStay DEF Store!SaveReads, Store!SaveLooks, Store!SaveFails, Store!Refuses
  <2>4. CASE Store!Greets(c) \/ Store!Asks(c) \/ Store!Reads(c) \/ Store!Opens(c)
    BY <2>4, PromisesStay DEF Store!Greets, Store!Asks, Store!Reads, Store!Opens
  <2>5. CASE Store!Joins(c) \/ Store!Says(c) \/ Store!Replies(c)
    BY <2>5, PromisesStay DEF Store!Joins, Store!Says, Store!Replies
  <2>. QED
    BY <2>1, <2>2, <2>3, <2>4, <2>5 DEF Store!ThreadStep
<1>. QED
  BY <1>2, <1>3 DEF Store!StoreNext

\* What a client was answered as done is in workspace.json until the same part was asked for again,
\* whatever fails, ends or is asked for meanwhile (store.rs, persist, add_root, record_conversation).
THEOREM DoneIsKept == Spec => []KeepsWhatWasDone
<1>1. Init => StoreInv /\ KeptInv
  BY StoreBegins, KeptBegins DEF Init
<1>2. StoreInv /\ KeptInv /\ [Next]_vars => StoreInv' /\ KeptInv'
  <2>. SUFFICES ASSUME StoreInv, KeptInv, [Next]_vars PROVE StoreInv' /\ KeptInv'
    OBVIOUS
  <2>1. CASE OfStore
    BY <2>1, StoreStep, StoreKeeps DEF OfStore
  <2>2. CASE UNCHANGED store
    BY <2>2, StoreElsewhere, PromisesStay DEF store
  <2>. QED
    BY <2>1, <2>2 DEF Next, OfStart, OfReplace, OfLetters, OfWindow, OfDrafts, vars
<1>3. StoreInv /\ KeptInv => KeepsWhatWasDone
  <2>. SUFFICES ASSUME StoreInv, KeptInv PROVE KeepsWhatWasDone
    OBVIOUS
  <2>1. ASSUME NEW t \in Talk
        PROVE  Store!TalkKept(t)
    <3>1. Follows(disk.talks, owed.since, t) /\ disk.talks \in Seq(Talk)
      BY DEF KeptInv, Fits, StoreInv, StoreTyped, Store!States
    <3>2. DOMAIN disk.talks = 1 .. Len(disk.talks)
      BY <3>1
    <3>3. \/ owed.since[t] = Nothing \/ Cardinality(owed.since[t]) >= TalkLimit
          \/ \E i \in 1 .. Len(disk.talks) : disk.talks[i] = t
      BY <3>1, Zenon DEF Follows, Outlived
    <3>4. Store!Cardinality(owed.since[t]) = Cardinality(owed.since[t])
      BY DEF Store!Cardinality, Cardinality
    <3>. QED
      BY <3>2, <3>3, <3>4 DEF Store!TalkKept
  <2>. QED
    BY <2>1 DEF KeptInv, Fits, KeepsWhatWasDone, Store!KeepsWhatWasDone
<1>. QED
  BY <1>1, <1>2, <1>3, PTL DEF Spec
-----------------------------------------------------------------------------
\* DesktopDrafts: what was typed is in the file or in the draft by the time its desktop knows it.

Requests == [op : {"load", "draft", "save", "discard"}, text : Int, revision : Nat, base : Int]
Replies  == [op : {"load", "draft", "save", "discard"}, ok : BOOLEAN, revision : Nat, text : Int, base : Int,
             drafted : BOOLEAN]
Tabs     == [pc : {"shut", "open", "closing", "gone"}, text : Int, revision : Nat, saved : Int, checkpoint : Int,
             flight : BOOLEAN, discarding : BOOLEAN, version : Int, mine : BOOLEAN]

DraftTyped ==
  /\ tab \in [Editor -> Tabs] /\ outgoing \in [Editor -> Seq(Requests)] /\ heard \in [Editor -> Seq(Replies)]
  /\ late \in SUBSET [by : Editor, request : Requests]
  /\ text \in Int /\ draft \in [text : Int, base : Int, by : Editor \cup {Drafts!NoText}] /\ typed \in Nat

\* A text that is made is new.
MadeBefore ==
  /\ text <= typed /\ draft.text <= typed /\ \A l \in late : l.request.text <= typed
  /\ \A w \in Editor : /\ tab[w].text <= typed
                       /\ \A i \in DOMAIN outgoing[w] : outgoing[w][i].text <= typed
                       /\ \A i \in DOMAIN heard[w] : heard[w][i].text <= typed

\* What a request says of the revision that is shown is what is shown; later revisions are not said.
TellsTrue(w) ==
  /\ \A i \in DOMAIN outgoing[w] : outgoing[w][i].op \in {"draft", "save"} =>
       /\ outgoing[w][i].revision <= tab[w].revision
       /\ outgoing[w][i].revision = tab[w].revision => outgoing[w][i].text = tab[w].text
  /\ \A i \in DOMAIN heard[w] : heard[w][i].ok /\ heard[w][i].op \in {"draft", "save"} =>
       heard[w][i].revision <= tab[w].revision
  /\ tab[w].checkpoint <= tab[w].revision /\ tab[w].saved <= tab[w].revision

\* Behind a draft of a text there are only requests that say the same.
DraftOf(r, x)  == r.op = "draft" /\ r.text = x
SaysOnly(r, x) == r.op # "discard" /\ (r.op \in {"draft", "save"} => r.text = x)
AllSay(w, x)   == \A i \in DOMAIN outgoing[w] : SaysOnly(outgoing[w][i], x)
InOrder(w, x)  ==
  /\ \A i, j \in DOMAIN outgoing[w] : i < j /\ DraftOf(outgoing[w][i], x) => SaysOnly(outgoing[w][j], x)
  /\ \A l \in late : l.by = w /\ DraftOf(l.request, x) => AllSay(w, x)

\* What the desktop takes for saved or drafted is.
Done(a, op) == a.ok /\ a.op = op
Learned(w, op) == \E i \in DOMAIN heard[w] : Done(heard[w][i], op) /\ heard[w][i].revision = tab[w].revision
KnowsTrue(w, x) ==
  /\ tab[w].saved = tab[w].revision \/ Learned(w, "save") => x \in kept
  /\ tab[w].checkpoint = tab[w].revision \/ Learned(w, "draft") => x \in kept \/ draft.text = x
  /\ text = x => x \in kept

\* A text that is not in the file yet is another desktop's only by its draft, and there it was
\* loaded and neither changed nor sent as a draft.
Unseen(v, x) ==
  /\ draft.text # x => tab[v].text # x /\ \A i \in DOMAIN heard[v] : heard[v][i].text # x
  /\ \A i \in DOMAIN outgoing[v] : ~DraftOf(outgoing[v][i], x)
  /\ \A l \in late : l.by = v => ~DraftOf(l.request, x)
Writes(a) == Done(a, "draft") \/ Done(a, "save")
OnlyLoaded(v, x) ==
  /\ tab[v].text = x => /\ tab[v].revision = 0 /\ tab[v].checkpoint = 0
                        /\ \A i \in DOMAIN heard[v] : ~Writes(heard[v][i])
  /\ \A i, j \in DOMAIN heard[v] : i < j /\ heard[v][i].text = x => ~Writes(heard[v][j])

Mine(w, x) ==
  /\ tab[w].revision >= 1 /\ x >= 1 /\ InOrder(w, x) /\ KnowsTrue(w, x)
  /\ x \notin kept =>
       /\ draft.text = x => draft.by = w /\ AllSay(w, x)
       /\ \A v \in Editor \ {w} : Unseen(v, x) /\ OnlyLoaded(v, x)

DraftInv ==
  /\ DraftTyped /\ MadeBefore
  /\ \A w \in Editor : w \notin crossed => TellsTrue(w) /\ (tab[w].mine => Mine(w, tab[w].text))

LEMMA DraftsBegin ==
  ASSUME Drafts!DraftInit
  PROVE  DraftInv
<1>. USE DEF Drafts!DraftInit, Drafts!NoText, Drafts!Shut, Drafts!NoDraft
<1>1. Drafts!Shut \in Tabs
  BY DEF Tabs
<1>2. DraftTyped
  <2>1. draft \in [text : Int, base : Int, by : Editor \cup {Drafts!NoText}]
    OBVIOUS
  <2>2. tab \in [Editor -> Tabs]
    BY <1>1
  <2>. QED
    BY <2>1, <2>2 DEF DraftTyped
<1>3. MadeBefore
  BY DEF MadeBefore
<1>4. \A w \in Editor : TellsTrue(w) /\ ~tab[w].mine
  BY DEF TellsTrue
<1>. QED
  BY <1>2, <1>3, <1>4 DEF DraftInv

\* A line or a list of answers that gets longer.
Grown(q, old, new) ==
  \A j \in DOMAIN q : \/ q[j] \in new
                      \/ j \in DOMAIN old /\ q[j] = old[j] /\ \A i \in DOMAIN q : i < j => i \in DOMAIN old /\ q[i] = old[i]

\* A desktop that asks for something, or is closed or not: its text and what it knows of it stay.
LEMMA AskedSafe ==
  ASSUME DraftInv, NEW w \in Editor, NEW q \in Seq(Requests), NEW N \in SUBSET Requests,
         outgoing' = [outgoing EXCEPT ![w] = q], Grown(q, outgoing[w], N),
         NEW to \in Tabs, tab' = [tab EXCEPT ![w] = to],
         to.text = tab[w].text, to.revision = tab[w].revision, to.saved = tab[w].saved,
         to.checkpoint = tab[w].checkpoint,
         to.mine => tab[w].mine /\ \A r \in N : SaysOnly(r, tab[w].text),
         \A r \in N : r.op \in {"draft", "save"} => r.text = tab[w].text /\ r.revision = tab[w].revision,
         \A r \in N : r.text <= typed /\ (r.op = "draft" => tab[w].checkpoint # tab[w].revision),
         UNCHANGED <<heard, late, text, draft, typed, kept, crossed>>
  PROVE  DraftInv'
<1>1. DraftTyped /\ MadeBefore
  BY DEF DraftInv
<1>2. DraftTyped'
  BY <1>1 DEF DraftTyped
<1>3. /\ outgoing'[w] = q /\ tab'[w] = to
      /\ \A v \in Editor : v # w => outgoing'[v] = outgoing[v] /\ tab'[v] = tab[v]
      /\ \A v \in Editor : /\ tab'[v].text = tab[v].text /\ tab'[v].revision = tab[v].revision
                           /\ tab'[v].saved = tab[v].saved /\ tab'[v].checkpoint = tab[v].checkpoint
  BY <1>1 DEF DraftTyped
<1>4. MadeBefore'
  BY <1>1, <1>3 DEF MadeBefore, Grown
<1>5. ASSUME NEW u \in Editor, u \notin crossed PROVE TellsTrue(u)'
  <2>1. TellsTrue(u)
    BY <1>5 DEF DraftInv
  <2>2. \A i \in DOMAIN outgoing'[u] : outgoing'[u][i].op \in {"draft", "save"} =>
          /\ outgoing'[u][i].revision <= tab[u].revision
          /\ outgoing'[u][i].revision = tab[u].revision => outgoing'[u][i].text = tab[u].text
    <3>1. CASE u = w
      <4>. SUFFICES ASSUME NEW i \in DOMAIN q, q[i].op \in {"draft", "save"}
           PROVE  q[i].revision <= tab[w].revision /\ (q[i].revision = tab[w].revision => q[i].text = tab[w].text)
        BY <1>3, <3>1
      <4>1. tab[w].revision \in Nat
        BY <1>1 DEF DraftTyped, Tabs
      <4>2. CASE q[i] \in N
        BY <4>1, <4>2
      <4>3. CASE i \in DOMAIN outgoing[w] /\ q[i] = outgoing[w][i]
        BY <2>1, <3>1, <4>3 DEF TellsTrue
      <4>. QED
        BY <4>2, <4>3 DEF Grown
    <3>2. CASE u # w
      BY <1>3, <2>1, <3>2 DEF TellsTrue
    <3>. QED
      BY <3>1, <3>2
  <2>. QED
    BY <1>3, <2>1, <2>2 DEF TellsTrue
<1>6. ASSUME NEW u \in Editor, u \notin crossed, tab'[u].mine PROVE Mine(u, tab[u].text)'
  <2>. DEFINE x == tab[u].text
  <2>1. Mine(u, x)
    BY <1>3, <1>6 DEF DraftInv
  <2>2. AllSay(u, x) => AllSay(u, x)'
    BY <1>3, <1>6 DEF AllSay, Grown
  <2>3. InOrder(u, x)'
    <3>1. \A i, j \in DOMAIN outgoing'[u] : i < j /\ DraftOf(outgoing'[u][i], x) => SaysOnly(outgoing'[u][j], x)
      BY <2>1, <1>3, <1>6 DEF Mine, InOrder, Grown
    <3>. QED
      BY <2>1, <2>2, <3>1 DEF Mine, InOrder
  <2>4. KnowsTrue(u, x)'
    BY <2>1, <1>3 DEF Mine, KnowsTrue, Learned
  <2>5. ASSUME x \notin kept, NEW v \in Editor \ {u} PROVE Unseen(v, x)' /\ OnlyLoaded(v, x)'
    <3>1. Unseen(v, x) /\ OnlyLoaded(v, x)
      BY <2>1, <2>5 DEF Mine
    <3>2. OnlyLoaded(v, x)'
      BY <3>1, <1>3 DEF OnlyLoaded
    <3>3. \A i \in DOMAIN outgoing'[v] : ~DraftOf(outgoing'[v][i], x)
      BY <3>1, <1>3 DEF Unseen, OnlyLoaded, DraftOf, Grown
    <3>. QED
      BY <3>1, <3>2, <3>3, <1>3 DEF Unseen
  <2>. QED
    BY <2>1, <2>2, <2>3, <2>4, <2>5, <1>3 DEF Mine
<1>. QED
  BY <1>2, <1>3, <1>4, <1>5, <1>6 DEF DraftInv

LEMMA TextsAreInts ==
  ASSUME DraftTyped
  PROVE  /\ text \in Int /\ draft.text \in Int /\ \A l \in late : l.request \in Requests /\ l.request.text \in Int
         /\ \A v \in Editor :
              /\ tab[v].text \in Int /\ tab[v].checkpoint \in Int /\ tab[v].saved \in Int /\ tab[v].revision \in Nat
              /\ \A i \in DOMAIN outgoing[v] : outgoing[v][i].text \in Int /\ outgoing[v][i].revision \in Nat
              /\ \A i \in DOMAIN heard[v] : heard[v][i].text \in Int /\ heard[v][i].revision \in Nat
<1>1. \A v \in Editor : /\ \A i \in DOMAIN outgoing[v] : outgoing[v][i] \in Requests
                        /\ \A i \in DOMAIN heard[v] : heard[v][i] \in Replies
  BY DEF DraftTyped
<1>2. \A r \in Requests : r.text \in Int /\ r.revision \in Nat
  BY DEF Requests
<1>3. \A a \in Replies : a.text \in Int /\ a.revision \in Nat
  BY DEF Replies
<1>4. \A t \in Tabs : t.text \in Int /\ t.checkpoint \in Int /\ t.saved \in Int /\ t.revision \in Nat
  BY DEF Tabs
<1>. QED
  BY <1>1, <1>2, <1>3, <1>4 DEF DraftTyped

LEMMA SaidIs ==
  ASSUME DraftInv, NEW w \in Editor, NEW op \in {"load", "draft", "save", "discard"}
  PROVE  /\ Drafts!Said(w, op) \in Requests /\ Drafts!Said(w, op).op = op
         /\ op \in {"draft", "save"} => Drafts!Said(w, op).text = tab[w].text /\ Drafts!Said(w, op).revision = tab[w].revision
         /\ op \notin {"draft", "save"} => Drafts!Said(w, op).text = -1
BY DEF DraftInv, DraftTyped, Tabs, Requests, Drafts!Said, Drafts!NoText

\* What an editor holds is a tab.
LEMMA TabOf ==
  ASSUME DraftTyped, NEW w \in Editor
  PROVE  tab[w] \in Tabs
BY DEF DraftTyped

LEMMA OpensSafely ==
  ASSUME DraftInv, NEW w \in Editor, Drafts!Opens(w)
  PROVE  DraftInv'
<1>. DEFINE to == [tab[w] EXCEPT !.pc = "open"]
<1>. DEFINE r == Drafts!Said(w, "load")
<1>. DEFINE q == <<r>>
<1>1. DraftTyped
  BY DEF DraftInv
<1>2. r \in Requests /\ r.op = "load" /\ r.text = -1
  BY SaidIs
<1>3. /\ to \in Tabs /\ to.text = tab[w].text /\ to.revision = tab[w].revision /\ to.saved = tab[w].saved
      /\ to.checkpoint = tab[w].checkpoint /\ to.mine = tab[w].mine
  BY <1>1, TabOf DEF Tabs
<1>4. /\ tab' = [tab EXCEPT ![w] = to] /\ outgoing' = [outgoing EXCEPT ![w] = q]
      /\ UNCHANGED <<heard, late, text, draft, typed, kept, crossed>>
  BY DEF Drafts!Opens
<1>. HIDE DEF to, r
<1>5. q \in Seq(Requests) /\ Grown(q, outgoing[w], {r}) /\ {r} \in SUBSET Requests
  BY <1>2 DEF Grown
<1>6. /\ \A s \in {r} : SaysOnly(s, tab[w].text) /\ s.op \notin {"draft", "save"} /\ s.text <= typed
  BY <1>1, <1>2 DEF SaysOnly, DraftTyped
<1>. HIDE DEF q
<1>. QED
  BY <1>3, <1>4, <1>5, <1>6, AskedSafe

\* Requests put behind the ones that are there.
LEMMA GrowsBy ==
  ASSUME NEW q \in Seq(Requests), NEW N \in SUBSET Requests, NEW s \in Seq(N)
  PROVE  q \o s \in Seq(Requests) /\ Grown(q \o s, q, N)
<1>1. s \in Seq(Requests)
  OBVIOUS
<1>2. q \o s \in Seq(Requests) /\ Len(q \o s) = Len(q) + Len(s)
  BY <1>1
<1>3. \A i \in 1 .. Len(q) + Len(s) : (q \o s)[i] = IF i <= Len(q) THEN q[i] ELSE s[i - Len(q)]
  BY <1>1
<1>4. \A i \in DOMAIN (q \o s) : IF i <= Len(q) THEN i \in DOMAIN q /\ (q \o s)[i] = q[i] ELSE (q \o s)[i] \in N
  BY <1>2, <1>3
<1>5. DOMAIN (q \o s) = 1 .. Len(q) + Len(s)
  BY <1>2
<1>. QED
  BY <1>2, <1>4, <1>5 DEF Grown

LEMMA SendsSafe ==
  ASSUME DraftInv, NEW w \in Editor, NEW ops \in {<<>>, <<"save">>}, Drafts!Sends(w, ops),
         UNCHANGED <<heard, late, text, draft, typed, kept, crossed>>
  PROVE  DraftInv'
<1>. DEFINE needs == Drafts!NeedsDraft(w)
<1>. DEFINE all == (IF needs THEN <<"draft">> ELSE <<>>) \o ops
<1>. DEFINE n == IF Len(all) <= Slots - Drafts!Pending(w) THEN Len(all) ELSE Slots - Drafts!Pending(w)
<1>. DEFINE s == [i \in 1 .. n |-> Drafts!Said(w, all[i])]
<1>. DEFINE N == {Drafts!Said(w, op) : op \in {o \in {"draft", "save"} : o = "draft" => needs}}
<1>. DEFINE f == tab[w].flight \/ (needs /\ n > 0)
<1>. DEFINE to == [tab[w] EXCEPT !.flight = f]
<1>1. DraftTyped /\ MadeBefore
  BY DEF DraftInv
<1>2. /\ all \in Seq({o \in {"draft", "save"} : o = "draft" => needs}) /\ Len(all) \in Nat
  <2>. DEFINE O == {o \in {"draft", "save"} : o = "draft" => needs}
  <2>. HIDE DEF needs
  <2>1. CASE needs
    <3>. DEFINE first == <<"draft">>
    <3>1. "draft" \in O /\ "save" \in O
      BY <2>1
    <3>. HIDE DEF O
    <3>2. first \in Seq(O) /\ <<"save">> \in Seq(O) /\ <<>> \in Seq(O)
      BY <3>1
    <3>3. all = first \o ops
      BY <2>1
    <3>. HIDE DEF first
    <3>4. ops \in Seq(O)
      BY <3>2
    <3>. QED
      BY <3>2, <3>3, <3>4 DEF O
  <2>2. CASE ~needs
    <3>1. "save" \in O
      BY <2>2
    <3>. HIDE DEF O
    <3>2. <<"save">> \in Seq(O) /\ <<>> \in Seq(O)
      BY <3>1
    <3>4. ops \in Seq(O)
      BY <3>2
    <3>3. all = <<>> \o ops
      BY <2>2
    <3>. QED
      BY <3>2, <3>3, <3>4 DEF O
  <2>. QED
    BY <2>1, <2>2
<1>3. Drafts!Pending(w) \in Nat
  BY <1>1 DEF Drafts!Pending, DraftTyped
<1>4. outgoing' = [outgoing EXCEPT ![w] = outgoing[w] \o s] /\ tab' = [tab EXCEPT ![w] = to]
  BY DEF Drafts!Sends
<1>5. /\ to \in Tabs /\ to.text = tab[w].text /\ to.revision = tab[w].revision /\ to.saved = tab[w].saved
      /\ to.checkpoint = tab[w].checkpoint /\ to.mine = tab[w].mine
  <2>. HIDE DEF n, needs
  <2>1. f \in BOOLEAN
    BY <1>1, Zenon DEF DraftTyped, Tabs
  <2>. HIDE DEF f
  <2>. QED
    BY <1>1, <2>1, TabOf DEF Tabs
<1>6. n \in Int /\ n <= Len(all)
  <2>. HIDE DEF all
  <2>. QED
    BY <1>2, <1>3, ServicesConstants
<1>. HIDE DEF to, f
<1>7. s \in Seq(N)
  <2>. DEFINE m == IF n < 0 THEN 0 ELSE n
  <2>. HIDE DEF n, all, N
  <2>1. m \in Nat /\ 1 .. n = 1 .. m
    BY <1>6
  <2>2. \A i \in 1 .. m : s[i] \in N
    <3>. SUFFICES ASSUME NEW i \in 1 .. m PROVE Drafts!Said(w, all[i]) \in N
      BY <2>1
    <3>1. i \in 1 .. Len(all)
      BY <1>2, <1>6, <2>1
    <3>2. all[i] \in {o \in {"draft", "save"} : o = "draft" => needs}
      BY <1>2, <3>1
    <3>. QED
      BY <3>2 DEF N
  <2>. QED
    <3>1. s = [i \in 1 .. m |-> s[i]]
      BY <2>1
    <3>. HIDE DEF s, m
    <3>2. s \in [1 .. m -> N]
      BY <2>2, <3>1
    <3>. QED
      BY <2>1, <3>2
<1>8. N \in SUBSET Requests
  BY SaidIs
<1>9. \A r \in N : /\ SaysOnly(r, tab[w].text) /\ r.text = tab[w].text /\ r.revision = tab[w].revision
                   /\ r.text <= typed /\ (r.op = "draft" => tab[w].checkpoint # tab[w].revision)
  <2>. SUFFICES ASSUME NEW op \in {"draft", "save"}, op = "draft" => needs
       PROVE  LET r == Drafts!Said(w, op) IN
              /\ SaysOnly(r, tab[w].text) /\ r.text = tab[w].text /\ r.revision = tab[w].revision
              /\ r.text <= typed /\ (r.op = "draft" => tab[w].checkpoint # tab[w].revision)
    OBVIOUS
  <2>. QED
    BY <1>1, SaidIs DEF SaysOnly, MadeBefore, Drafts!NeedsDraft
<1>. HIDE DEF N, s
<1>10. outgoing[w] \o s \in Seq(Requests) /\ Grown(outgoing[w] \o s, outgoing[w], N)
  <2>1. outgoing[w] \in Seq(Requests)
    BY <1>1 DEF DraftTyped
  <2>. QED
    BY <2>1, <1>7, <1>8, GrowsBy
<1>. DEFINE q == outgoing[w] \o s
<1>. HIDE DEF q
<1>11. q \in Seq(Requests) /\ Grown(q, outgoing[w], N) /\ outgoing' = [outgoing EXCEPT ![w] = q]
  BY <1>4, <1>10 DEF q
<1>12. to.mine => tab[w].mine /\ \A r \in N : SaysOnly(r, tab[w].text)
  BY <1>5, <1>9
<1>13. /\ \A r \in N : r.op \in {"draft", "save"} => r.text = tab[w].text /\ r.revision = tab[w].revision
       /\ \A r \in N : r.text <= typed /\ (r.op = "draft" => tab[w].checkpoint # tab[w].revision)
  BY <1>9
<1>. QED
  BY <1>4, <1>5, <1>8, <1>11, <1>12, <1>13, AskedSafe

LEMMA DiscardsSafe ==
  ASSUME DraftInv, NEW w \in Editor, Drafts!Discards(w)
  PROVE  DraftInv'
<1>. DEFINE d == Drafts!Pending(w) < Slots
<1>. DEFINE to == [tab[w] EXCEPT !.discarding = d, !.mine = FALSE]
<1>. DEFINE r == Drafts!Said(w, "discard")
<1>. DEFINE q == IF Drafts!Pending(w) < Slots THEN outgoing[w] \o <<r>> ELSE outgoing[w]
<1>1. DraftTyped
  BY DEF DraftInv
<1>2. r \in Requests /\ r.op = "discard" /\ r.text = -1
  BY SaidIs
<1>3. /\ to \in Tabs /\ to.text = tab[w].text /\ to.revision = tab[w].revision /\ to.saved = tab[w].saved
      /\ to.checkpoint = tab[w].checkpoint /\ ~to.mine
  <2>1. CASE d
    <3>1. d = TRUE
      BY <2>1, Zenon
    <3>. HIDE DEF d
    <3>. QED
      BY <1>1, <3>1, TabOf DEF Tabs
  <2>2. CASE ~d
    <3>3. Drafts!Pending(w) \in Nat
      BY <1>1 DEF Drafts!Pending, DraftTyped
    <3>1. d = FALSE
      BY <2>2, <3>3, ServicesConstants
    <3>. HIDE DEF d
    <3>. QED
      BY <1>1, <3>1, TabOf DEF Tabs
  <2>. QED
    BY <2>1, <2>2
<1>4. tab' = [tab EXCEPT ![w] = to] /\ UNCHANGED <<heard, late, text, draft, typed, kept, crossed>>
  BY DEF Drafts!Discards
<1>. HIDE DEF to, r
<1>5. outgoing' = [outgoing EXCEPT ![w] = q]
  <2>1. outgoing[w] \in Seq(Requests)
    BY <1>1 DEF DraftTyped
  <2>2. Append(outgoing[w], r) = outgoing[w] \o <<r>>
    BY <1>2, <2>1, AppendIsConcat
  <2>. QED
    BY <2>2 DEF Drafts!Discards, r
<1>6. q \in Seq(Requests) /\ Grown(q, outgoing[w], {r}) /\ {r} \in SUBSET Requests
  <2>1. outgoing[w] \in Seq(Requests) /\ <<r>> \in Seq({r}) /\ {r} \in SUBSET Requests
    BY <1>1, <1>2 DEF DraftTyped
  <2>2. CASE Drafts!Pending(w) < Slots
    BY <2>1, <2>2, GrowsBy
  <2>3. CASE ~(Drafts!Pending(w) < Slots)
    BY <2>1, <2>3 DEF Grown
  <2>. QED
    BY <2>1, <2>2, <2>3
<1>7. \A s \in {r} : s.op \notin {"draft", "save"} /\ s.text <= typed
  BY <1>1, <1>2 DEF DraftTyped
<1>. HIDE DEF q
<1>. QED
  BY <1>3, <1>4, <1>5, <1>6, <1>7, AskedSafe

\* A desktop that asks for nothing.
LEMMA ShownSafe ==
  ASSUME DraftInv, NEW w \in Editor, UNCHANGED outgoing, NEW to \in Tabs, tab' = [tab EXCEPT ![w] = to],
         to.text = tab[w].text, to.revision = tab[w].revision, to.saved = tab[w].saved,
         to.checkpoint = tab[w].checkpoint, to.mine = tab[w].mine,
         UNCHANGED <<heard, late, text, draft, typed, kept, crossed>>
  PROVE  DraftInv'
<1>. DEFINE q == outgoing[w]
<1>1. q \in Seq(Requests) /\ outgoing' = [outgoing EXCEPT ![w] = q]
  BY DEF DraftInv, DraftTyped
<1>2. Grown(q, outgoing[w], {})
  BY DEF Grown
<1>. HIDE DEF q
<1>. DEFINE N == {}
<1>3. N \in SUBSET Requests /\ Grown(q, outgoing[w], N) /\ \A r \in N : FALSE
  BY <1>2
<1>. HIDE DEF N
<1>. QED
  BY <1>1, <1>3, AskedSafe

\* A tab that is closed, stays or goes.
LEMMA ClosesSafe ==
  ASSUME DraftInv, NEW w \in Editor, Drafts!Closes(w) \/ Drafts!StaysOpen(w)
  PROVE  DraftInv'
<1>. PICK pc \in {"closing", "open"} : tab' = [tab EXCEPT ![w].pc = pc]
  BY DEF Drafts!Closes, Drafts!StaysOpen
<1>1. DraftTyped
  BY DEF DraftInv
<1>. DEFINE at == [tab[w] EXCEPT !.pc = pc]
<1>2. /\ at \in Tabs /\ at.text = tab[w].text /\ at.revision = tab[w].revision /\ at.saved = tab[w].saved
      /\ at.checkpoint = tab[w].checkpoint /\ at.mine = tab[w].mine
  BY <1>1, TabOf DEF Tabs
<1>3. /\ tab' = [tab EXCEPT ![w] = at]
      /\ UNCHANGED <<outgoing, heard, late, text, draft, typed, kept, crossed>>
  BY <1>1 DEF Drafts!Closes, Drafts!StaysOpen, DraftTyped
<1>. HIDE DEF at
<1>. QED
  BY <1>2, <1>3, ShownSafe

LEMMA QuitsSafe ==
  ASSUME DraftInv, NEW w \in Editor, Drafts!Quits(w)
  PROVE  DraftInv'
<1>1. DraftTyped /\ MadeBefore
  BY DEF DraftInv
<1>2. UNCHANGED <<outgoing, heard, late, text, draft, typed, kept, crossed>>
  BY DEF Drafts!Quits
<1>3. CASE Drafts!Unkept(tab[w])
  <2>. DEFINE at == [tab[w] EXCEPT !.pc = "open"]
  <2>1. /\ at \in Tabs /\ at.text = tab[w].text /\ at.revision = tab[w].revision /\ at.saved = tab[w].saved
        /\ at.checkpoint = tab[w].checkpoint /\ at.mine = tab[w].mine
    BY <1>1, TabOf DEF Tabs
  <2>2. tab' = [tab EXCEPT ![w] = at]
    BY <1>1, <1>3 DEF Drafts!Quits, DraftTyped
  <2>. HIDE DEF at
  <2>. QED
    BY <1>2, <2>1, <2>2, ShownSafe
<1>4. CASE ~Drafts!Unkept(tab[w])
  <2>. DEFINE to == [Drafts!Shut EXCEPT !.pc = "gone"]
  <2>1. to \in Tabs /\ to.text = -1 /\ ~to.mine /\ to.revision = 0 /\ to.saved = 0 /\ to.checkpoint = 0
    <3>. DEFINE none == Drafts!Shut
    <3>1. /\ none \in Tabs /\ none.text = -1 /\ ~none.mine /\ none.revision = 0 /\ none.saved = 0
          /\ none.checkpoint = 0
      BY DEF Drafts!Shut, Drafts!NoText, Tabs
    <3>2. to = [none EXCEPT !.pc = "gone"]
      OBVIOUS
    <3>. HIDE DEF none, to
    <3>. QED
      BY <3>1, <3>2 DEF Tabs
  <2>2. tab' = [tab EXCEPT ![w] = to]
    BY <1>4 DEF Drafts!Quits
  <2>3. outgoing[w] = <<>> /\ heard[w] = <<>>
    BY <1>1 DEF Drafts!Quits, Drafts!Pending, DraftTyped
  <2>. HIDE DEF to
  <2>4. tab'[w] = to /\ \A v \in Editor : v # w => tab'[v] = tab[v]
    BY <1>1, <2>2 DEF DraftTyped
  <2>5. DraftTyped' /\ MadeBefore'
    BY <1>1, <1>2, <2>1, <2>2, <2>4 DEF DraftTyped, MadeBefore
  <2>6. ASSUME NEW u \in Editor, u \notin crossed PROVE TellsTrue(u)'
    BY <1>2, <2>1, <2>3, <2>4, <2>6 DEF DraftInv, TellsTrue
  <2>7. ASSUME NEW u \in Editor, u \notin crossed, tab'[u].mine
        PROVE  \E x \in Int : x = tab'[u].text /\ Mine(u, x)'
    <3>. PICK x \in Int : x = tab[u].text
      BY <1>1, TextsAreInts
    <3>1. Mine(u, x) /\ u # w /\ tab'[u].text = x
      BY <2>1, <2>4, <2>7 DEF DraftInv
    <3>2. InOrder(u, x)' /\ KnowsTrue(u, x)' /\ (AllSay(u, x) => AllSay(u, x)')
      BY <3>1, <1>2, <2>4 DEF Mine, InOrder, AllSay, KnowsTrue, Learned
    <3>3. ASSUME x \notin kept, NEW v \in Editor \ {u} PROVE Unseen(v, x)' /\ OnlyLoaded(v, x)'
      <4>1. Unseen(v, x) /\ OnlyLoaded(v, x) /\ x >= 1
        BY <3>1, <3>3 DEF Mine
      <4>2. CASE v = w
        <5>1. tab'[w].text # x
          BY <4>1, <2>1, <2>4
        <5>. QED
          BY <5>1, <4>1, <4>2, <1>2, <2>3 DEF Unseen, OnlyLoaded
      <4>3. CASE v # w
        BY <4>1, <4>3, <1>2, <2>4 DEF Unseen, OnlyLoaded
      <4>. QED
        BY <4>2, <4>3
    <3>. QED
      BY <3>1, <3>2, <3>3, <1>2, <2>4 DEF Mine
  <2>. QED
    BY <1>2, <2>5, <2>6, <2>7 DEF DraftInv
<1>. QED
  BY <1>3, <1>4

LEMMA TypesSafe ==
  ASSUME DraftInv, NEW w \in Editor, Drafts!Types(w)
  PROVE  DraftInv'
<1>1. DraftTyped /\ MadeBefore
  BY DEF DraftInv
<1>. DEFINE to == [tab[w] EXCEPT !.text = typed + 1, !.revision = @ + 1, !.mine = TRUE]
<1>5. typed \in Nat /\ tab[w].revision \in Nat
  BY <1>1 DEF DraftTyped, Tabs
<1>2. /\ to \in Tabs /\ to.text = typed + 1 /\ to.mine /\ to.revision = tab[w].revision + 1
      /\ to.saved = tab[w].saved /\ to.checkpoint = tab[w].checkpoint
  <2>. DEFINE n == typed + 1
  <2>. DEFINE k == tab[w].revision + 1
  <2>1. n \in Int /\ k \in Nat /\ tab[w] \in Tabs
    BY <1>1, <1>5 DEF DraftTyped
  <2>2. to = [tab[w] EXCEPT !.text = n, !.revision = k, !.mine = TRUE]
    OBVIOUS
  <2>. HIDE DEF n, k, to
  <2>3. to \in Tabs /\ to.text = n /\ to.mine /\ to.revision = k /\ to.saved = tab[w].saved
        /\ to.checkpoint = tab[w].checkpoint
    BY <2>1, <2>2 DEF Tabs
  <2>. QED
    BY <2>3 DEF n, k
<1>3. /\ tab' = [tab EXCEPT ![w] = to] /\ typed' = typed + 1
      /\ UNCHANGED <<outgoing, heard, late, text, draft, kept, crossed>>
  BY DEF Drafts!Types
<1>. HIDE DEF to
<1>4. tab'[w] = to /\ \A v \in Editor : v # w => tab'[v] = tab[v]
  BY <1>1, <1>3 DEF DraftTyped
<1>6. DraftTyped'
  BY <1>1, <1>2, <1>3, <1>5 DEF DraftTyped
<1>10. /\ text \in Int /\ draft.text \in Int /\ \A l \in late : l.request.text \in Int
       /\ \A v \in Editor : /\ tab[v].text \in Int
                            /\ \A i \in DOMAIN outgoing[v] : outgoing[v][i].text \in Int
                            /\ \A i \in DOMAIN heard[v] : heard[v][i].text \in Int /\ heard[v][i].revision \in Nat
  BY <1>1, TextsAreInts
<1>7. MadeBefore'
  BY <1>1, <1>2, <1>3, <1>4, <1>5, <1>10 DEF MadeBefore
<1>8. ASSUME NEW u \in Editor, u \notin crossed PROVE TellsTrue(u)'
  <2>1. TellsTrue(u)
    BY <1>8 DEF DraftInv
  <2>2. CASE u = w
    <3>1. /\ \A i \in DOMAIN outgoing[w] : outgoing[w][i].revision \in Nat
          /\ \A i \in DOMAIN heard[w] : heard[w][i].revision \in Nat
          /\ tab[w].checkpoint \in Int /\ tab[w].saved \in Int
      BY <1>1, TextsAreInts
    <3>. QED
      BY <2>1, <2>2, <3>1, <1>2, <1>3, <1>4, <1>5 DEF TellsTrue
  <2>3. CASE u # w
    BY <2>1, <2>3, <1>3, <1>4 DEF TellsTrue
  <2>. QED
    BY <2>2, <2>3
<1>9. ASSUME NEW u \in Editor, u \notin crossed, tab'[u].mine PROVE \E x \in Int : tab'[u].text = x /\ Mine(u, x)'
  <2>1. CASE u = w
    <3>. PICK x \in Int : x = typed + 1
      BY <1>5
    <3>1. /\ ~(text = x) /\ ~(draft.text = x) /\ \A l \in late : ~(l.request.text = x)
          /\ \A v \in Editor : /\ v # w => ~(tab[v].text = x)
                               /\ \A i \in DOMAIN outgoing[v] : ~(outgoing[v][i].text = x)
                               /\ \A i \in DOMAIN heard[v] : ~(heard[v][i].text = x)
      BY <1>1, <1>5, <1>10 DEF MadeBefore
    <3>2. InOrder(w, x)'
      BY <3>1, <1>3 DEF InOrder, DraftOf
    <3>3. KnowsTrue(w, x)'
      <4>1. TellsTrue(w)
        BY <1>9, <2>1 DEF DraftInv
      <4>2. \A i \in DOMAIN heard[w] : heard[w][i].revision \in Nat
        BY <1>10
      <4>3. tab[w].checkpoint \in Int /\ tab[w].saved \in Int
        BY <1>1 DEF DraftTyped, Tabs
      <4>4. to.saved # to.revision /\ to.checkpoint # to.revision
        BY <4>1, <4>3, <1>2, <1>5 DEF TellsTrue
      <4>5. ~Learned(w, "save")' /\ ~Learned(w, "draft")'
        BY <4>1, <4>2, <1>2, <1>3, <1>4, <1>5 DEF Learned, TellsTrue, Done
      <4>. QED
        BY <4>4, <4>5, <3>1, <1>3, <1>4 DEF KnowsTrue
    <3>4. \A v \in Editor \ {w} : Unseen(v, x)' /\ OnlyLoaded(v, x)'
      BY <3>1, <1>3, <1>4 DEF Unseen, OnlyLoaded, DraftOf
    <3>5. x = typed + 1 /\ tab'[w].text = x
      BY <1>2, <1>4
    <3>6. Mine(w, x)'
      BY <3>1, <3>2, <3>3, <3>4, <3>5, <1>2, <1>3, <1>4, <1>5 DEF Mine
    <3>. QED
      BY <2>1, <3>5, <3>6, <1>2, <1>4
  <2>2. CASE u # w
    <3>. PICK x \in Int : x = tab[u].text
      BY <1>10
    <3>1. Mine(u, x) /\ x <= typed /\ tab'[u].text = x
      BY <1>1, <1>4, <1>9, <2>2 DEF DraftInv, MadeBefore
    <3>2. InOrder(u, x)' /\ KnowsTrue(u, x)' /\ (AllSay(u, x) => AllSay(u, x)')
      BY <3>1, <2>2, <1>3, <1>4 DEF Mine, InOrder, AllSay, KnowsTrue, Learned
    <3>3. ASSUME x \notin kept, NEW v \in Editor \ {u} PROVE Unseen(v, x)' /\ OnlyLoaded(v, x)'
      <4>1. Unseen(v, x) /\ OnlyLoaded(v, x)
        BY <3>1, <3>3 DEF Mine
      <4>2. tab'[v] = tab[v] \/ tab'[v].text # x
        BY <3>1, <1>2, <1>4, <1>5
      <4>. QED
        BY <4>1, <4>2, <1>3 DEF Unseen, OnlyLoaded
    <3>. QED
      BY <3>1, <3>2, <3>3, <2>2, <1>3, <1>4 DEF Mine
  <2>. QED
    BY <2>1, <2>2
<1>. QED
  BY <1>3, <1>6, <1>7, <1>8, <1>9 DEF DraftInv

\* What is behind the first of a sequence.
LEMMA TailIs ==
  ASSUME NEW S, NEW s \in Seq(S), s # <<>>
  PROVE  /\ Tail(s) \in Seq(S) /\ Head(s) \in S /\ Head(s) = s[1] /\ 1 \in DOMAIN s
         /\ \A i \in DOMAIN Tail(s) : i \in Nat /\ 1 < i + 1 /\ i + 1 \in DOMAIN s /\ Tail(s)[i] = s[i + 1]
<1>. DEFINE h == Tail(s)
<1>1. h \in Seq(S) /\ Len(h) = Len(s) - 1 /\ Head(s) \in S /\ \A i \in 1 .. Len(h) : h[i] = s[i + 1]
  BY HeadTailProperties
<1>2. Len(s) \in Nat \ {0}
  BY EmptySeq
<1>3. DOMAIN s = 1 .. Len(s) /\ Head(s) = s[1]
  BY <1>2
<1>. HIDE DEF h
<1>4. DOMAIN h = 1 .. Len(h)
  BY <1>1
<1>5. 1 \in DOMAIN s
  BY <1>2, <1>3
<1>6. \A i \in DOMAIN h : i \in Nat /\ 1 < i + 1 /\ i + 1 \in DOMAIN s /\ h[i] = s[i + 1]
  BY <1>1, <1>2, <1>3, <1>4
<1>. QED
  BY <1>1, <1>3, <1>5, <1>6 DEF h

\* What is left of a sequence when the first of it is taken.
LEMMA TailSteps ==
  ASSUME NEW S, NEW s \in Seq(S), s # <<>>
  PROVE  /\ \A i \in DOMAIN Tail(s) : \E j \in DOMAIN s : Tail(s)[i] = s[j] /\ 1 < j
         /\ \A i, j \in DOMAIN Tail(s) : i < j =>
              \E k, l \in DOMAIN s : k < l /\ Tail(s)[i] = s[k] /\ Tail(s)[j] = s[l]
<1>. DEFINE h == Tail(s)
<1>1. \A i \in DOMAIN h : i \in Nat /\ 1 < i + 1 /\ i + 1 \in DOMAIN s /\ h[i] = s[i + 1]
  BY TailIs
<1>. HIDE DEF h
<1>2. ASSUME NEW i \in DOMAIN h PROVE \E j \in DOMAIN s : h[i] = s[j] /\ 1 < j
  BY <1>1
<1>3. ASSUME NEW i \in DOMAIN h, NEW j \in DOMAIN h, i < j
      PROVE  \E k, l \in DOMAIN s : k < l /\ h[i] = s[k] /\ h[j] = s[l]
  <2>1. i \in Nat /\ j \in Nat
    BY <1>1
  <2>2. i + 1 < j + 1
    BY <1>3, <2>1
  <2>. QED
    BY <1>1, <2>2
<1>. QED
  BY <1>2, <1>3 DEF h

LEMMA HeardTail ==
  ASSUME DraftTyped, NEW w \in Editor, heard[w] # <<>>, heard' = [heard EXCEPT ![w] = Tail(heard[w])],
         NEW v \in Editor
  PROVE  /\ \A i \in DOMAIN heard'[v] : \E j \in DOMAIN heard[v] : heard'[v][i] = heard[v][j] /\ (v = w => 1 < j)
         /\ \A i, j \in DOMAIN heard'[v] : i < j =>
              \E k, l \in DOMAIN heard[v] : k < l /\ heard'[v][i] = heard[v][k] /\ heard'[v][j] = heard[v][l]
<1>1. CASE v = w
  <2>. PICK s \in Seq(Replies) : s = heard[v]
    BY DEF DraftTyped
  <2>1. s # <<>>
    BY <1>1
  <2>2. /\ \A i \in DOMAIN Tail(s) : \E j \in DOMAIN s : Tail(s)[i] = s[j] /\ 1 < j
        /\ \A i, j \in DOMAIN Tail(s) : i < j =>
             \E k, l \in DOMAIN s : k < l /\ Tail(s)[i] = s[k] /\ Tail(s)[j] = s[l]
    BY <2>1, TailSteps
  <2>. DEFINE t == Tail(s)
  <2>3. heard'[v] = t /\ heard[v] = s
    BY <1>1 DEF DraftTyped
  <2>. HIDE DEF t
  <2>4. /\ \A i \in DOMAIN t : \E j \in DOMAIN s : t[i] = s[j] /\ (v = w => 1 < j)
        /\ \A i, j \in DOMAIN t : i < j => \E k, l \in DOMAIN s : k < l /\ t[i] = s[k] /\ t[j] = s[l]
    BY <2>2 DEF t
  <2>5. \A i \in DOMAIN heard'[v] : \E j \in DOMAIN heard[v] : heard'[v][i] = heard[v][j] /\ (v = w => 1 < j)
    BY <2>3, <2>4
  <2>6. ASSUME NEW i \in DOMAIN heard'[v], NEW j \in DOMAIN heard'[v], i < j
        PROVE  \E k, l \in DOMAIN heard[v] : k < l /\ heard'[v][i] = heard[v][k] /\ heard'[v][j] = heard[v][l]
    <3>1. i \in DOMAIN t /\ j \in DOMAIN t
      BY <2>3
    <3>. PICK k \in DOMAIN s, l \in DOMAIN s : k < l /\ t[i] = s[k] /\ t[j] = s[l]
      BY <2>4, <2>6, <3>1
    <3>. QED
      BY <2>3
  <2>. QED
    BY <2>5, <2>6
<1>2. CASE v # w
  <2>1. heard'[v] = heard[v]
    BY <1>2 DEF DraftTyped
  <2>. QED
    BY <1>2, <2>1
<1>. QED
  BY <1>1, <1>2

\* A sequence with one more behind it.
LEMMA AppendSteps ==
  ASSUME NEW S, NEW s \in Seq(S), NEW a \in S, NEW h, h = Append(s, a)
  PROVE  /\ h \in Seq(S)
         /\ \A i \in DOMAIN h : (i \in DOMAIN s /\ h[i] = s[i]) \/ (h[i] = a /\ \A j \in DOMAIN h : ~(i < j))
<1>1. h \in Seq(S) /\ DOMAIN h = 1 .. Len(s) + 1 /\ DOMAIN s = 1 .. Len(s) /\ Len(s) \in Nat
  OBVIOUS
<1>2. h[Len(s) + 1] = a /\ \A i \in 1 .. Len(s) : h[i] = s[i]
  OBVIOUS
<1>3. ASSUME NEW i \in DOMAIN h
      PROVE  (i \in DOMAIN s /\ h[i] = s[i]) \/ (h[i] = a /\ \A j \in DOMAIN h : ~(i < j))
  <2>1. CASE i = Len(s) + 1
    BY <1>1, <1>2, <2>1
  <2>2. CASE i # Len(s) + 1
    <3>1. i \in 1 .. Len(s)
      BY <1>1, <2>2
    <3>. QED
      BY <1>1, <1>2, <3>1
  <2>. QED
    BY <2>1, <2>2
<1>. QED
  BY <1>1, <1>3

LEMMA LoadedStays ==
  ASSUME NEW v \in Editor, NEW x, OnlyLoaded(v, x),
         \A i, j \in DOMAIN heard'[v] : i < j =>
           \E k, l \in DOMAIN heard[v] : k < l /\ heard'[v][i] = heard[v][k] /\ heard'[v][j] = heard[v][l]
  PROVE  \A i, j \in DOMAIN heard'[v] : i < j /\ heard'[v][i].text = x => ~Writes(heard'[v][j])
BY DEF OnlyLoaded

\* A desktop that takes up an answer: what it knows then, it was told.
LEMMA LearnsSafe ==
  ASSUME DraftInv, NEW w \in Editor, heard[w] # <<>>, NEW a, a = Head(heard[w]),
         NEW h, h = Tail(heard[w]), heard' = [heard EXCEPT ![w] = h],
         NEW q \in Seq(Requests), outgoing' = [outgoing EXCEPT ![w] = q],
         NEW N \in SUBSET Requests, Grown(q, outgoing[w], N), \A r \in N : r.op = "load" /\ r.text <= typed,
         NEW to \in Tabs, tab' = [tab EXCEPT ![w] = to],
         to.text = tab[w].text, to.revision = tab[w].revision, to.mine = tab[w].mine,
         to.saved = tab[w].saved \/ (Done(a, "save") /\ to.saved = a.revision),
         \/ to.checkpoint = tab[w].checkpoint
         \/ (Done(a, "draft") /\ to.checkpoint = a.revision)
         \/ (Done(a, "save") /\ to.checkpoint = -1),
         UNCHANGED <<late, text, draft, typed, kept, crossed>>
  PROVE  DraftInv'
<1>1. DraftTyped /\ MadeBefore
  BY DEF DraftInv
<1>2. heard[w] \in Seq(Replies)
  BY <1>1 DEF DraftTyped
<1>3. /\ h \in Seq(Replies) /\ a = heard[w][1] /\ 1 \in DOMAIN heard[w]
      /\ \A i \in DOMAIN h : i \in Nat /\ i + 1 \in DOMAIN heard[w] /\ h[i] = heard[w][i + 1]
  BY <1>2, TailIs
<1>4. /\ outgoing'[w] = q /\ heard'[w] = h /\ tab'[w] = to
      /\ \A v \in Editor : v # w => outgoing'[v] = outgoing[v] /\ tab'[v] = tab[v] /\ heard'[v] = heard[v]
      /\ \A v \in Editor : /\ tab'[v].text = tab[v].text /\ tab'[v].revision = tab[v].revision
                           /\ tab'[v].mine = tab[v].mine
  BY <1>1 DEF DraftTyped
<1>5. \A v \in Editor : \A i \in DOMAIN heard'[v] :
        \E j \in DOMAIN heard[v] : heard'[v][i] = heard[v][j] /\ (v = w => 1 < j)
  BY <1>1, HeardTail
<1>6. \A v \in Editor : \A i, j \in DOMAIN heard'[v] : i < j =>
        \E k, l \in DOMAIN heard[v] : k < l /\ heard'[v][i] = heard[v][k] /\ heard'[v][j] = heard[v][l]
  BY <1>1, HeardTail, ZenonT(30)
<1>7. DraftTyped'
  BY <1>1, <1>3 DEF DraftTyped
<1>8. MadeBefore'
  BY <1>1, <1>4, <1>5 DEF MadeBefore, Grown
<1>9. ASSUME NEW u \in Editor, u \notin crossed PROVE TellsTrue(u)'
  <2>1. TellsTrue(u) /\ tab[u].revision \in Nat
    BY <1>1, <1>9, TextsAreInts DEF DraftInv
  <2>2. \A i \in DOMAIN outgoing'[u] : outgoing'[u][i].op \in {"draft", "save"} =>
          /\ outgoing'[u][i].revision <= tab[u].revision
          /\ outgoing'[u][i].revision = tab[u].revision => outgoing'[u][i].text = tab[u].text
    BY <2>1, <1>4 DEF TellsTrue, Grown
  <2>3. \A i \in DOMAIN heard'[u] : heard'[u][i].ok /\ heard'[u][i].op \in {"draft", "save"} =>
          heard'[u][i].revision <= tab[u].revision
    BY <2>1, <1>5 DEF TellsTrue
  <2>4. tab'[u].checkpoint <= tab[u].revision /\ tab'[u].saved <= tab[u].revision
    BY <2>1, <1>3, <1>4 DEF TellsTrue, Done
  <2>. QED
    BY <2>2, <2>3, <2>4, <1>4 DEF TellsTrue
<1>10. ASSUME NEW u \in Editor, u \notin crossed, tab'[u].mine
       PROVE  \E x \in Int : x = tab'[u].text /\ Mine(u, x)'
  <2>. PICK x \in Int : x = tab[u].text
    BY <1>1, TextsAreInts
  <2>1. Mine(u, x) /\ tab'[u].text = x
    BY <1>4, <1>10 DEF DraftInv
  <2>2. AllSay(u, x) => AllSay(u, x)'
    BY <1>4 DEF AllSay, Grown, SaysOnly
  <2>3. InOrder(u, x)'
    <3>1. \A i, j \in DOMAIN outgoing'[u] : i < j /\ DraftOf(outgoing'[u][i], x) => SaysOnly(outgoing'[u][j], x)
      BY <2>1, <1>4, SMTT(20) DEF Mine, InOrder, Grown, SaysOnly, DraftOf
    <3>. QED
      BY <2>1, <2>2, <3>1 DEF Mine, InOrder
  <2>4. KnowsTrue(u, x)'
    <3>1. (Learned(u, "save")' => Learned(u, "save")) /\ (Learned(u, "draft")' => Learned(u, "draft"))
      <4>. SUFFICES ASSUME NEW op, NEW i \in DOMAIN heard'[u], Done(heard'[u][i], op), heard'[u][i].revision = tab[u].revision
           PROVE  Learned(u, op)
        <5>1. /\ Learned(u, "save")' <=> \E i \in DOMAIN heard'[u] : Done(heard'[u][i], "save") /\ heard'[u][i].revision = tab[u].revision
              /\ Learned(u, "draft")' <=> \E i \in DOMAIN heard'[u] : Done(heard'[u][i], "draft") /\ heard'[u][i].revision = tab[u].revision
          BY <1>4 DEF Learned, Done
        <5>. QED
          BY <5>1
      <4>. PICK j \in DOMAIN heard[u] : heard'[u][i] = heard[u][j]
        BY <1>5
      <4>. QED
        BY DEF Learned
    <3>4. \A op : u = w /\ Done(a, op) /\ a.revision = tab[u].revision => Learned(u, op)
      BY <1>3 DEF Learned
    <3>2. tab'[u].saved = tab[u].revision => tab[u].saved = tab[u].revision \/ Learned(u, "save")
      BY <3>4, <1>4
    <3>3. tab'[u].checkpoint = tab[u].revision => tab[u].checkpoint = tab[u].revision \/ Learned(u, "draft")
      <4>1. tab[u].revision # -1
        BY <1>1, TextsAreInts
      <4>. QED
        BY <4>1, <3>4, <1>4
    <3>. QED
      BY <3>1, <3>2, <3>3, <2>1, <1>4 DEF Mine, KnowsTrue
  <2>5. ASSUME x \notin kept, NEW v \in Editor \ {u} PROVE Unseen(v, x)' /\ OnlyLoaded(v, x)'
    <3>1. Unseen(v, x) /\ OnlyLoaded(v, x)
      BY <2>1, <2>5 DEF Mine
    <3>2. \A i \in DOMAIN outgoing'[v] : ~DraftOf(outgoing'[v][i], x)
      BY <3>1, <1>4 DEF Unseen, DraftOf, Grown
    <3>3. Unseen(v, x)'
      BY <3>1, <3>2, <1>4, <1>5 DEF Unseen
    <3>4. \A i, j \in DOMAIN heard'[v] : i < j /\ heard'[v][i].text = x => ~Writes(heard'[v][j])
      BY <3>1, <1>6, LoadedStays
    <3>5. tab'[v].text = x => /\ tab'[v].revision = 0 /\ tab'[v].checkpoint = 0
                              /\ \A i \in DOMAIN heard'[v] : ~Writes(heard'[v][i])
      <4>1. tab[v].text = x /\ v = w => ~Writes(a)
        BY <3>1, <1>3 DEF OnlyLoaded
      <4>2. tab[v].text = x => tab'[v].checkpoint = tab[v].checkpoint
        BY <4>1, <1>4 DEF Writes
      <4>. QED
        BY <3>1, <4>2, <1>4, <1>5 DEF OnlyLoaded
    <3>. QED
      BY <3>3, <3>4, <3>5 DEF OnlyLoaded
  <2>. QED
    BY <2>1, <2>2, <2>3, <2>4, <2>5, <1>4 DEF Mine
<1>. QED
  BY <1>7, <1>8, <1>9, <1>10 DEF DraftInv

\* A load that is taken up replaces what the desktop shows.
LEMMA LoadsSafe ==
  ASSUME DraftInv, NEW w \in Editor, heard[w] # <<>>, NEW a, a = Head(heard[w]),
         NEW h, h = Tail(heard[w]), heard' = [heard EXCEPT ![w] = h],
         NEW to \in Tabs, tab' = [tab EXCEPT ![w] = to],
         to.text = a.text, to.revision = 0, ~to.mine, to.saved <= 0, to.checkpoint = 0,
         crossed \subseteq crossed', crossed' \subseteq crossed \cup {w},
         w \notin crossed' => \A op \in {"draft", "save"} : ~Drafts!Asking(w, op),
         UNCHANGED <<outgoing, late, text, draft, typed, kept>>
  PROVE  DraftInv'
<1>1. DraftTyped /\ MadeBefore
  BY DEF DraftInv
<1>2. heard[w] \in Seq(Replies)
  BY <1>1 DEF DraftTyped
<1>3. /\ h \in Seq(Replies) /\ a = heard[w][1] /\ 1 \in DOMAIN heard[w]
      /\ \A i \in DOMAIN h : i \in Nat /\ i + 1 \in DOMAIN heard[w] /\ h[i] = heard[w][i + 1] /\ 1 < i + 1
  BY <1>2, TailIs
<1>4. /\ heard'[w] = h /\ tab'[w] = to
      /\ \A v \in Editor : v # w => tab'[v] = tab[v] /\ heard'[v] = heard[v]
  BY <1>1 DEF DraftTyped
<1>5. \A v \in Editor : \A i \in DOMAIN heard'[v] :
        \E j \in DOMAIN heard[v] : heard'[v][i] = heard[v][j] /\ (v = w => 1 < j)
  BY <1>1, HeardTail
<1>6. \A v \in Editor : \A i, j \in DOMAIN heard'[v] : i < j =>
        \E k, l \in DOMAIN heard[v] : k < l /\ heard'[v][i] = heard[v][k] /\ heard'[v][j] = heard[v][l]
  BY <1>1, HeardTail, ZenonT(30)
<1>7. DraftTyped'
  BY <1>1, <1>3 DEF DraftTyped
<1>8. MadeBefore'
  BY <1>1, <1>3, <1>4, <1>5 DEF MadeBefore
<1>9. ASSUME NEW u \in Editor, u \notin crossed' PROVE TellsTrue(u)'
  <2>1. TellsTrue(u)
    BY <1>9 DEF DraftInv
  <2>2. CASE u = w
    <3>1. /\ \A i \in DOMAIN outgoing[w] : outgoing[w][i].op \notin {"draft", "save"}
          /\ \A i \in DOMAIN heard[w] : heard[w][i].op \notin {"draft", "save"}
      BY <1>9, <2>2 DEF Drafts!Asking, Drafts!Elements
    <3>. QED
      BY <3>1, <2>2, <1>4, <1>5 DEF TellsTrue
  <2>3. CASE u # w
    BY <2>1, <2>3, <1>4 DEF TellsTrue
  <2>. QED
    BY <2>2, <2>3
<1>10. ASSUME NEW u \in Editor, u \notin crossed', tab'[u].mine
       PROVE  \E x \in Int : x = tab'[u].text /\ Mine(u, x)'
  <2>. PICK x \in Int : x = tab[u].text
    BY <1>1, TextsAreInts
  <2>1. Mine(u, x) /\ tab'[u] = tab[u] /\ heard'[u] = heard[u]
    BY <1>4, <1>10 DEF DraftInv
  <2>2. InOrder(u, x)' /\ KnowsTrue(u, x)' /\ (AllSay(u, x) => AllSay(u, x)')
    BY <2>1 DEF Mine, InOrder, AllSay, KnowsTrue, Learned
  <2>3. ASSUME x \notin kept, NEW v \in Editor \ {u} PROVE Unseen(v, x)' /\ OnlyLoaded(v, x)'
    <3>1. Unseen(v, x) /\ OnlyLoaded(v, x)
      BY <2>1, <2>3 DEF Mine
    <3>2. Unseen(v, x)'
      BY <3>1, <1>3, <1>4, <1>5 DEF Unseen
    <3>3. \A i, j \in DOMAIN heard'[v] : i < j /\ heard'[v][i].text = x => ~Writes(heard'[v][j])
      BY <3>1, <1>6, LoadedStays
    <3>4. tab'[v].text = x => /\ tab'[v].revision = 0 /\ tab'[v].checkpoint = 0
                              /\ \A i \in DOMAIN heard'[v] : ~Writes(heard'[v][i])
      <4>1. CASE v = w
        <5>1. a.text = x => \A j \in DOMAIN heard[w] : 1 < j => ~Writes(heard[w][j])
          BY <3>1, <4>1, <1>3 DEF OnlyLoaded
        <5>. QED
          BY <4>1, <5>1, <1>4, <1>5
      <4>2. CASE v # w
        BY <3>1, <4>2, <1>4 DEF OnlyLoaded
      <4>. QED
        BY <4>1, <4>2
    <3>. QED
      BY <3>2, <3>3, <3>4 DEF OnlyLoaded
  <2>. QED
    BY <2>1, <2>2, <2>3 DEF Mine
<1>. QED
  BY <1>7, <1>8, <1>9, <1>10 DEF DraftInv

LEMMA HearsSafe ==
  ASSUME DraftInv, NEW w \in Editor, Drafts!Hears(w)
  PROVE  DraftInv'
<1>. DEFINE a == Head(heard[w])
<1>. DEFINE h == Tail(heard[w])
<1>. DEFINE t == tab[w]
<1>1. DraftTyped
  BY DEF DraftInv
<1>2. /\ t \in Tabs /\ heard[w] # <<>> /\ outgoing[w] \in Seq(Requests) /\ a \in Replies
      /\ heard' = [heard EXCEPT ![w] = h] /\ UNCHANGED <<late, text, draft, typed, kept>>
  <2>1. t \in Tabs /\ outgoing[w] \in Seq(Requests) /\ heard[w] \in Seq(Replies)
    BY <1>1 DEF DraftTyped
  <2>2. /\ heard[w] # <<>> /\ heard' = [heard EXCEPT ![w] = h] /\ UNCHANGED <<late, text, draft, typed, kept>>
    BY DEF Drafts!Hears
  <2>. QED
    BY <2>1, <2>2
<1>3. /\ tab' = [tab EXCEPT ![w] = CASE ~a.ok -> Drafts!Failed(t, a)
                                     [] a.ok /\ a.op = "load" -> Drafts!Loaded(t, a)
                                     [] a.ok /\ a.op = "save" -> Drafts!Saved(t, a)
                                     [] a.ok /\ a.op = "draft" -> Drafts!Drafted(t, a)
                                     [] OTHER -> t]
      /\ outgoing' = [outgoing EXCEPT ![w] = IF a.ok /\ a.op = "discard"
                                             THEN Append(outgoing[w], Drafts!Said(w, "load")) ELSE outgoing[w]]
      /\ crossed' = crossed \cup {v \in {w} : a.ok /\ a.op = "load" /\ (Drafts!Asking(w, "save") \/ Drafts!Asking(w, "draft"))}
  BY DEF Drafts!Hears
<1>. DEFINE N == {r \in Requests : r.op = "load" /\ r.text = -1}
<1>4. N \in SUBSET Requests /\ \A r \in N : r.op = "load" /\ r.text <= typed
  BY <1>1 DEF DraftTyped
<1>5. (a.ok /\ a.op = "load") \/ crossed' = crossed
  BY <1>3
<1>6. (a.ok /\ a.op = "discard") \/ outgoing' = [outgoing EXCEPT ![w] = outgoing[w]]
  BY <1>3
<1>7. Grown(outgoing[w], outgoing[w], N)
  BY DEF Grown
<1>8. CASE ~a.ok
  <2>. DEFINE to == Drafts!Failed(t, a)
  <2>1. tab' = [tab EXCEPT ![w] = to]
    BY <1>3, <1>8
  <2>2. /\ to \in Tabs /\ to.text = t.text /\ to.revision = t.revision /\ to.mine = t.mine /\ to.saved = t.saved
        /\ to.checkpoint = t.checkpoint
    <3>. DEFINE f == t.flight /\ a.op # "draft"
    <3>. DEFINE pc == IF t.pc = "closing" THEN "open" ELSE t.pc
    <3>1. f \in BOOLEAN /\ pc \in {"shut", "open", "closing", "gone"}
      <4>1. f \in BOOLEAN
        BY Zenon
      <4>. QED
        BY <1>2, <4>1 DEF Tabs
    <3>2. to = [t EXCEPT !.flight = f, !.discarding = FALSE, !.pc = pc]
      BY DEF Drafts!Failed
    <3>. HIDE DEF f, pc, to, t
    <3>. QED
      BY <1>2, <3>1, <3>2 DEF Tabs
  <2>. HIDE DEF a, h, t, to, N
  <2>. QED
    BY <1>2, <1>4, <1>5, <1>6, <1>7, <1>8, <2>1, <2>2, LearnsSafe DEF a, h, t
<1>9. CASE a.ok /\ a.op = "load"
  <2>. DEFINE to == Drafts!Loaded(t, a)
  <2>1. tab' = [tab EXCEPT ![w] = to]
    BY <1>3, <1>9
  <2>2. /\ to \in Tabs /\ to.text = a.text /\ to.revision = 0 /\ ~to.mine /\ to.saved <= 0 /\ to.checkpoint = 0
    <3>. DEFINE s == IF a.drafted THEN -1 ELSE 0
    <3>. DEFINE x == a.text
    <3>. DEFINE b == a.base
    <3>. DEFINE z == 0
    <3>1. s \in Int /\ s <= 0 /\ x \in Int /\ b \in Int /\ t \in Tabs /\ z \in Nat /\ z \in Int
      BY <1>2 DEF Replies
    <3>2. to = [t EXCEPT !.text = x, !.revision = z, !.saved = s, !.checkpoint = z,
                         !.version = b, !.discarding = FALSE, !.mine = FALSE]
      BY DEF Drafts!Loaded
    <3>. HIDE DEF s, x, b, z, to, t
    <3>3. to \in Tabs
      BY <3>1, <3>2 DEF Tabs
    <3>4. to.text = x /\ to.revision = z /\ ~to.mine /\ to.saved = s /\ to.checkpoint = z
      BY <3>1, <3>2 DEF Tabs
    <3>. QED
      BY <3>1, <3>3, <3>4 DEF x, z
  <2>3. /\ outgoing' = outgoing
        /\ w \notin crossed' => \A op \in {"draft", "save"} : ~Drafts!Asking(w, op)
        /\ crossed \subseteq crossed' /\ crossed' \subseteq crossed \cup {w}
    BY <1>1, <1>3, <1>9 DEF DraftTyped
  <2>. HIDE DEF a, h, t, to
  <2>. QED
    BY <1>2, <2>1, <2>2, <2>3, LoadsSafe DEF a, h
<1>10. CASE a.ok /\ a.op = "save"
  <2>. DEFINE to == Drafts!Saved(t, a)
  <2>1. tab' = [tab EXCEPT ![w] = to]
    BY <1>3, <1>10
  <2>2. /\ to \in Tabs /\ to.text = t.text /\ to.revision = t.revision /\ to.mine = t.mine /\ to.saved = a.revision
        /\ to.checkpoint = t.checkpoint \/ to.checkpoint = -1
    <3>. DEFINE c == IF a.revision = t.revision THEN t.checkpoint ELSE -1
    <3>. DEFINE n == a.revision
    <3>. DEFINE b == a.base
    <3>1. c \in Int /\ (c = t.checkpoint \/ c = -1) /\ n \in Int /\ b \in Int /\ t \in Tabs
      BY <1>2 DEF Replies, Tabs
    <3>2. to = [t EXCEPT !.version = b, !.saved = n, !.checkpoint = c]
      BY DEF Drafts!Saved
    <3>. HIDE DEF c, n, b, to, t
    <3>3. /\ to \in Tabs /\ to.text = t.text /\ to.revision = t.revision /\ to.mine = t.mine /\ to.saved = n
          /\ to.checkpoint = c
      <4>1. to \in Tabs
        BY <3>1, <3>2 DEF Tabs
      <4>. QED
        BY <3>1, <3>2, <4>1 DEF Tabs
    <3>. QED
      BY <3>1, <3>3 DEF n
  <2>. HIDE DEF a, h, t, to, N
  <2>. QED
    BY <1>2, <1>4, <1>5, <1>6, <1>7, <1>10, <2>1, <2>2, LearnsSafe DEF a, h, t, Done
<1>11. CASE a.ok /\ a.op = "draft"
  <2>. DEFINE to == Drafts!Drafted(t, a)
  <2>1. tab' = [tab EXCEPT ![w] = to]
    BY <1>3, <1>11
  <2>2. /\ to \in Tabs /\ to.text = t.text /\ to.revision = t.revision /\ to.mine = t.mine /\ to.saved = t.saved
        /\ to.checkpoint = a.revision
    <3>. DEFINE n == a.revision
    <3>1. n \in Int /\ t \in Tabs
      BY <1>2 DEF Replies
    <3>2. to = [t EXCEPT !.checkpoint = n, !.flight = FALSE]
      BY DEF Drafts!Drafted
    <3>. HIDE DEF n, to, t
    <3>3. /\ to \in Tabs /\ to.text = t.text /\ to.revision = t.revision /\ to.mine = t.mine /\ to.saved = t.saved
          /\ to.checkpoint = n
      <4>1. to \in Tabs
        BY <3>1, <3>2 DEF Tabs
      <4>. QED
        BY <3>1, <3>2, <4>1 DEF Tabs
    <3>. QED
      BY <3>3 DEF n
  <2>. HIDE DEF a, h, t, to, N
  <2>. QED
    BY <1>2, <1>4, <1>5, <1>6, <1>7, <1>11, <2>1, <2>2, LearnsSafe DEF a, h, t, Done
<1>12. CASE a.ok /\ a.op = "discard"
  <2>. DEFINE r == Drafts!Said(w, "load")
  <2>. DEFINE s == <<r>>
  <2>. DEFINE old == outgoing[w]
  <2>. DEFINE q == old \o s
  <2>1. r \in N
    BY SaidIs
  <2>. HIDE DEF r, N
  <2>2. s \in Seq(N) /\ old \in Seq(Requests) /\ Append(old, r) = old \o s
    <3>. HIDE DEF old
    <3>1. old \in Seq(Requests) /\ r \in Requests
      BY <1>2, <1>4, <2>1 DEF old
    <3>. QED
      BY <3>1, <2>1, AppendIsConcat
  <2>. HIDE DEF s
  <2>3. q \in Seq(Requests) /\ Grown(q, old, N)
    BY <1>4, <2>2, GrowsBy
  <2>4. outgoing' = [outgoing EXCEPT ![w] = q]
    BY <1>3, <1>12, <2>2 DEF r
  <2>5. tab' = [tab EXCEPT ![w] = t]
    BY <1>3, <1>12
  <2>. HIDE DEF a, h, t, q
  <2>. QED
    BY <1>2, <1>4, <1>5, <1>12, <2>3, <2>4, <2>5, LearnsSafe DEF a, h, t, old
<1>13. a.op \in {"load", "draft", "save", "discard"} /\ a.ok \in BOOLEAN
  BY <1>2 DEF Replies
<1>. QED
  BY <1>8, <1>9, <1>10, <1>11, <1>12, <1>13, Zenon

\* What a request that is performed, or not, does to a text a desktop keeps.
Fares(u, x) ==
  /\ x \in kept => x \in kept'
  /\ text' = x => x \in kept'
  /\ x \notin kept' /\ draft.text = x => draft'.text = x
  /\ x \notin kept' /\ draft'.text = x => draft'.by = u

LEMMA PerformsTyped ==
  ASSUME DraftInv, NEW w \in Editor, NEW r \in Requests, r.text <= typed, Drafts!Performs(w, r)
  PROVE  /\ text' \in Int /\ draft' \in [text : Int, base : Int, by : Editor \cup {Drafts!NoText}]
         /\ text' <= typed /\ draft'.text <= typed
<1>1. DraftTyped /\ MadeBefore
  BY DEF DraftInv
<1>2. r.text \in Int /\ r.base \in Int
  BY DEF Requests
<1>3. text' = r.text \/ text' = text
  BY DEF Drafts!Performs
<1>4. text' \in Int /\ text' <= typed
  BY <1>1, <1>2, <1>3 DEF DraftTyped, MadeBefore
<1>5. draft' = [text |-> r.text, base |-> r.base, by |-> w] \/ draft' = Drafts!NoDraft \/ draft' = draft
  BY DEF Drafts!Performs
<1>6. CASE draft' = [text |-> r.text, base |-> r.base, by |-> w]
  BY <1>2, <1>4, <1>6
<1>7. CASE draft' = Drafts!NoDraft
  BY <1>1, <1>4, <1>7 DEF Drafts!NoDraft, Drafts!NoText, DraftTyped
<1>8. CASE draft' = draft
  BY <1>1, <1>4, <1>8 DEF DraftTyped, MadeBefore
<1>. QED
  BY <1>5, <1>6, <1>7, <1>8

LEMMA PerformsFares ==
  ASSUME DraftInv, NEW w \in Editor, NEW r \in Requests, Drafts!Performs(w, r), UNCHANGED tab,
         NEW u \in Editor, NEW x \in Int, x = tab[u].text, Mine(u, x),
         x \notin kept' /\ draft.text = x => draft'.text = x,
         DraftOf(r, x) /\ x \notin kept => u = w
  PROVE  Fares(u, x) /\ (x \notin kept' /\ draft'.text = x => draft.text = x \/ (u = w /\ DraftOf(r, x)))
<1>1. (x \in kept => x \in kept') /\ (text' = x => x \in kept')
  BY DEF Drafts!Performs
<1>2. x \notin kept => (draft.text = x => draft.by = u) /\ x >= 1
  BY DEF Mine
<1>3. ASSUME x \notin kept', draft'.text = x
      PROVE  draft'.by = u /\ (draft.text = x \/ (u = w /\ DraftOf(r, x)))
  <2>1. \/ r.op = "draft" /\ draft' = [text |-> r.text, base |-> r.base, by |-> w]
        \/ draft' = Drafts!NoDraft
        \/ draft' = draft
    BY DEF Drafts!Performs
  <2>2. CASE r.op = "draft" /\ draft' = [text |-> r.text, base |-> r.base, by |-> w]
    BY <1>1, <1>3, <2>2 DEF DraftOf
  <2>3. CASE draft' = Drafts!NoDraft
    BY <1>1, <1>2, <1>3, <2>3 DEF Drafts!NoDraft, Drafts!NoText
  <2>4. CASE draft' = draft
    BY <1>1, <1>2, <1>3, <2>4
  <2>. QED
    BY <2>1, <2>2, <2>3, <2>4
<1>. QED
  BY <1>1, <1>3 DEF Fares

\* What a desktop is answered, beside what it keeps: another's answer shows its text only from its
\* draft and tells of no change then; its own tells of what was performed.
Tells(w, r, a, u, x) ==
  /\ x \notin kept' /\ u # w => /\ a.text = x => draft.text = x
                                /\ Writes(a) => draft.text # x
  /\ u = w /\ Done(a, "save") /\ r.text = x => x \in kept'
  /\ u = w /\ Done(a, "draft") /\ r.text = x => x \in kept' \/ draft'.text = x

LEMMA LineTail ==
  ASSUME DraftTyped, NEW w \in Editor, outgoing[w] # <<>>, outgoing' = [outgoing EXCEPT ![w] = Tail(outgoing[w])],
         NEW v \in Editor
  PROVE  /\ \A i \in DOMAIN outgoing'[v] : \E j \in DOMAIN outgoing[v] : outgoing'[v][i] = outgoing[v][j] /\ (v = w => 1 < j)
         /\ \A i, j \in DOMAIN outgoing'[v] : i < j =>
              \E k, l \in DOMAIN outgoing[v] : k < l /\ outgoing'[v][i] = outgoing[v][k] /\ outgoing'[v][j] = outgoing[v][l]
<1>1. CASE v = w
  <2>. PICK s \in Seq(Requests) : s = outgoing[v]
    BY DEF DraftTyped
  <2>1. s # <<>>
    BY <1>1
  <2>2. /\ \A i \in DOMAIN Tail(s) : \E j \in DOMAIN s : Tail(s)[i] = s[j] /\ 1 < j
        /\ \A i, j \in DOMAIN Tail(s) : i < j =>
             \E k, l \in DOMAIN s : k < l /\ Tail(s)[i] = s[k] /\ Tail(s)[j] = s[l]
    BY <2>1, TailSteps
  <2>. DEFINE t == Tail(s)
  <2>3. outgoing'[v] = t /\ outgoing[v] = s
    BY <1>1 DEF DraftTyped
  <2>. HIDE DEF t
  <2>4. /\ \A i \in DOMAIN t : \E j \in DOMAIN s : t[i] = s[j] /\ (v = w => 1 < j)
        /\ \A i, j \in DOMAIN t : i < j => \E k, l \in DOMAIN s : k < l /\ t[i] = s[k] /\ t[j] = s[l]
    BY <2>2 DEF t
  <2>5. \A i \in DOMAIN outgoing'[v] : \E j \in DOMAIN outgoing[v] : outgoing'[v][i] = outgoing[v][j] /\ (v = w => 1 < j)
    BY <2>3, <2>4
  <2>6. ASSUME NEW i \in DOMAIN outgoing'[v], NEW j \in DOMAIN outgoing'[v], i < j
        PROVE  \E k, l \in DOMAIN outgoing[v] : k < l /\ outgoing'[v][i] = outgoing[v][k] /\ outgoing'[v][j] = outgoing[v][l]
    <3>1. i \in DOMAIN t /\ j \in DOMAIN t
      BY <2>3
    <3>. PICK k \in DOMAIN s, l \in DOMAIN s : k < l /\ t[i] = s[k] /\ t[j] = s[l]
      BY <2>4, <2>6, <3>1
    <3>. QED
      BY <2>3
  <2>. QED
    BY <2>5, <2>6
<1>2. CASE v # w
  <2>1. outgoing'[v] = outgoing[v]
    BY <1>2 DEF DraftTyped
  <2>. QED
    BY <1>2, <2>1
<1>. QED
  BY <1>1, <1>2

\* The first request of a line is answered.
LEMMA AnsweredSafe ==
  ASSUME DraftInv, NEW w \in Editor, outgoing[w] # <<>>, NEW r, r = Head(outgoing[w]), NEW a \in Replies,
         outgoing' = [outgoing EXCEPT ![w] = Tail(outgoing[w])],
         heard' = [heard EXCEPT ![w] = Append(heard[w], a)],
         late' \in SUBSET (late \cup {[by |-> w, request |-> r]}),
         UNCHANGED <<tab, typed>>, crossed \subseteq crossed',
         text' \in Int, draft' \in [text : Int, base : Int, by : Editor \cup {Drafts!NoText}],
         text' <= typed, draft'.text <= typed, a.text <= typed,
         a.ok /\ a.op \in {"draft", "save"} => a.op = r.op /\ a.revision = r.revision,
         \A u \in Editor, x \in Int : u \notin crossed' /\ x = tab[u].text /\ Mine(u, x) =>
           /\ Fares(u, x) /\ Tells(w, r, a, u, x)
           /\ x \notin kept' /\ draft'.text = x => draft.text = x \/ (u = w /\ DraftOf(r, x))
  PROVE  DraftInv'
<1>1. DraftTyped /\ MadeBefore
  BY DEF DraftInv
<1>. DEFINE q == Tail(outgoing[w])
<1>. DEFINE h == Append(heard[w], a)
<1>2. outgoing[w] \in Seq(Requests) /\ heard[w] \in Seq(Replies)
  BY <1>1 DEF DraftTyped
<1>3. r \in Requests /\ 1 \in DOMAIN outgoing[w] /\ r = outgoing[w][1] /\ q \in Seq(Requests)
  BY <1>2, TailIs
<1>4. /\ outgoing'[w] = q /\ heard'[w] = h
      /\ \A v \in Editor : v # w => outgoing'[v] = outgoing[v] /\ heard'[v] = heard[v]
  BY <1>1 DEF DraftTyped
<1>5. /\ h \in Seq(Replies)
      /\ \A i \in DOMAIN h : (i \in DOMAIN heard[w] /\ h[i] = heard[w][i]) \/ (h[i] = a /\ \A j \in DOMAIN h : ~(i < j))
  BY <1>2, AppendSteps
<1>6. \A v \in Editor : \A i \in DOMAIN outgoing'[v] :
        \E j \in DOMAIN outgoing[v] : outgoing'[v][i] = outgoing[v][j] /\ (v = w => 1 < j)
  BY <1>1, LineTail
<1>7. \A v \in Editor : \A i, j \in DOMAIN outgoing'[v] : i < j =>
        \E k, l \in DOMAIN outgoing[v] : k < l /\ outgoing'[v][i] = outgoing[v][k] /\ outgoing'[v][j] = outgoing[v][l]
  BY <1>1, LineTail
<1>. HIDE DEF q, h
<1>8. \A v \in Editor : \A i \in DOMAIN heard'[v] :
        \/ i \in DOMAIN heard[v] /\ heard'[v][i] = heard[v][i]
        \/ v = w /\ heard'[v][i] = a /\ \A j \in DOMAIN heard'[v] : ~(i < j)
  BY <1>4, <1>5
<1>9. DraftTyped'
  <2>1. late' \in SUBSET [by : Editor, request : Requests]
    BY <1>1, <1>3 DEF DraftTyped
  <2>2. outgoing' \in [Editor -> Seq(Requests)] /\ heard' \in [Editor -> Seq(Replies)]
    BY <1>1, <1>3, <1>5 DEF DraftTyped, q, h
  <2>. QED
    BY <1>1, <2>1, <2>2 DEF DraftTyped
<1>10. MadeBefore'
  <2>1. r.text <= typed
    BY <1>1, <1>3 DEF MadeBefore
  <2>2. \A l \in late' : l.request.text <= typed
    BY <1>1, <2>1 DEF MadeBefore
  <2>. QED
    BY <1>1, <2>2, <1>6, <1>8 DEF MadeBefore
<1>11. ASSUME NEW u \in Editor, u \notin crossed' PROVE TellsTrue(u)'
  <2>1. TellsTrue(u)
    BY <1>11 DEF DraftInv
  <2>2. \A i \in DOMAIN outgoing'[u] : outgoing'[u][i].op \in {"draft", "save"} =>
          /\ outgoing'[u][i].revision <= tab[u].revision
          /\ outgoing'[u][i].revision = tab[u].revision => outgoing'[u][i].text = tab[u].text
    BY <2>1, <1>6 DEF TellsTrue
  <2>3. \A i \in DOMAIN heard'[u] : heard'[u][i].ok /\ heard'[u][i].op \in {"draft", "save"} =>
          heard'[u][i].revision <= tab[u].revision
    BY <2>1, <1>3, <1>8 DEF TellsTrue
  <2>. QED
    BY <2>1, <2>2, <2>3 DEF TellsTrue
<1>12. ASSUME NEW u \in Editor, u \notin crossed', tab'[u].mine
       PROVE  \E x \in Int : x = tab'[u].text /\ Mine(u, x)'
  <2>. PICK x \in Int : x = tab[u].text
    BY <1>1, TextsAreInts
  <2>1. Mine(u, x)
    BY <1>12 DEF DraftInv
  <2>2. /\ Fares(u, x) /\ Tells(w, r, a, u, x)
        /\ x \notin kept' /\ draft'.text = x => draft.text = x \/ (u = w /\ DraftOf(r, x))
    BY <1>12, <2>1
  <2>3. AllSay(u, x) => AllSay(u, x)'
    BY <1>6 DEF AllSay
  <2>4. u = w /\ DraftOf(r, x) => AllSay(w, x)'
    <3>. SUFFICES ASSUME u = w, DraftOf(r, x), NEW i \in DOMAIN outgoing'[w]
         PROVE  SaysOnly(outgoing'[w][i], x)
      BY DEF AllSay
    <3>1. \A j \in DOMAIN outgoing[w] : 1 < j => SaysOnly(outgoing[w][j], x)
      BY <2>1, <1>3 DEF Mine, InOrder
    <3>. QED
      BY <3>1, <1>6
  <2>5. InOrder(u, x)'
    <3>1. ASSUME NEW i \in DOMAIN outgoing'[u], NEW j \in DOMAIN outgoing'[u], i < j, DraftOf(outgoing'[u][i], x)
          PROVE  SaysOnly(outgoing'[u][j], x)
      <4>1. PICK k \in DOMAIN outgoing[u], l \in DOMAIN outgoing[u] :
              k < l /\ outgoing'[u][i] = outgoing[u][k] /\ outgoing'[u][j] = outgoing[u][l]
        BY <1>7, <3>1
      <4>. QED
        BY <2>1, <3>1, <4>1 DEF Mine, InOrder
    <3>2. \A l \in late' : l.by = u /\ DraftOf(l.request, x) => AllSay(u, x)'
      BY <2>1, <2>3, <2>4 DEF Mine, InOrder
    <3>. QED
      BY <3>1, <3>2 DEF InOrder, DraftOf, SaysOnly
  <2>6. KnowsTrue(u, x)'
    <3>1. x \in kept \/ draft.text = x => x \in kept' \/ draft'.text = x
      BY <2>2 DEF Fares
    <3>2. TellsTrue(u) /\ (u = w => (r.op \in {"draft", "save"} /\ r.revision = tab[u].revision => r.text = x))
      BY <1>3, <1>12 DEF DraftInv, TellsTrue
    <3>3. Learned(u, "save")' => x \in kept'
      <4>. SUFFICES ASSUME NEW i \in DOMAIN heard'[u], Done(heard'[u][i], "save"), heard'[u][i].revision = tab[u].revision
           PROVE  x \in kept'
        BY DEF Learned, Done
      <4>1. CASE i \in DOMAIN heard[u] /\ heard'[u][i] = heard[u][i]
        BY <4>1, <2>1, <2>2 DEF Mine, KnowsTrue, Learned, Fares
      <4>2. CASE u = w /\ heard'[u][i] = a
        BY <4>2, <2>2, <3>2 DEF Tells, Done
      <4>. QED
        BY <4>1, <4>2, <1>8
    <3>4. Learned(u, "draft")' => x \in kept' \/ draft'.text = x
      <4>. SUFFICES ASSUME NEW i \in DOMAIN heard'[u], Done(heard'[u][i], "draft"), heard'[u][i].revision = tab[u].revision
           PROVE  x \in kept' \/ draft'.text = x
        BY DEF Learned, Done
      <4>1. CASE i \in DOMAIN heard[u] /\ heard'[u][i] = heard[u][i]
        BY <4>1, <2>1, <3>1 DEF Mine, KnowsTrue, Learned
      <4>2. CASE u = w /\ heard'[u][i] = a
        BY <4>2, <2>2, <3>2 DEF Tells, Done
      <4>. QED
        BY <4>1, <4>2, <1>8
    <3>. QED
      BY <2>1, <2>2, <3>1, <3>3, <3>4 DEF Mine, KnowsTrue, Fares
  <2>7. x \notin kept' /\ draft'.text = x => draft'.by = u /\ AllSay(u, x)'
    BY <2>1, <2>2, <2>3, <2>4 DEF Mine, Fares
  <2>8. ASSUME x \notin kept', NEW v \in Editor \ {u} PROVE Unseen(v, x)' /\ OnlyLoaded(v, x)'
    <3>1. /\ Unseen(v, x) /\ OnlyLoaded(v, x)
          /\ draft.text = x => draft'.text = x
      BY <2>1, <2>2, <2>8 DEF Mine, Fares
    <3>2. v = w => (a.text = x => draft.text = x) /\ (Writes(a) => draft.text # x)
      BY <2>2, <2>8 DEF Tells
    <3>3. \A i \in DOMAIN outgoing'[v] : ~DraftOf(outgoing'[v][i], x)
      BY <3>1, <1>6 DEF Unseen
    <3>4. \A l \in late' : l.by = v => ~DraftOf(l.request, x)
      <4>1. w = v => ~DraftOf(r, x)
        BY <3>1, <1>3 DEF Unseen
      <4>. QED
        BY <3>1, <4>1 DEF Unseen
    <3>5. draft'.text # x => tab[v].text # x /\ \A i \in DOMAIN heard'[v] : heard'[v][i].text # x
      BY <3>1, <3>2, <1>8 DEF Unseen
    <3>6. Unseen(v, x)'
      BY <3>3, <3>4, <3>5 DEF Unseen, DraftOf
    <3>7. tab[v].text = x => \A i \in DOMAIN heard'[v] : ~Writes(heard'[v][i])
      <4>1. tab[v].text = x => draft.text = x
        BY <3>1 DEF Unseen
      <4>. QED
        BY <4>1, <3>1, <3>2, <1>8 DEF OnlyLoaded
    <3>8. ASSUME NEW i \in DOMAIN heard'[v], NEW j \in DOMAIN heard'[v], i < j, heard'[v][i].text = x
          PROVE  ~Writes(heard'[v][j])
      <4>1. i \in DOMAIN heard[v] /\ heard'[v][i] = heard[v][i]
        BY <3>8, <1>8
      <4>2. draft.text = x
        BY <3>1, <3>8, <4>1 DEF Unseen
      <4>3. CASE j \in DOMAIN heard[v] /\ heard'[v][j] = heard[v][j]
        BY <3>1, <3>8, <4>1, <4>3 DEF OnlyLoaded
      <4>4. CASE v = w /\ heard'[v][j] = a
        BY <3>2, <4>2, <4>4
      <4>. QED
        BY <4>3, <4>4, <1>8
    <3>9. OnlyLoaded(v, x)'
      BY <3>1, <3>7, <3>8 DEF OnlyLoaded, Writes, Done
    <3>. QED
      BY <3>6, <3>9
  <2>. QED
    BY <2>1, <2>5, <2>6, <2>7, <2>8 DEF Mine
<1>. QED
  BY <1>9, <1>10, <1>11, <1>12 DEF DraftInv

LEMMA KeptStays ==
  ASSUME NEW w, NEW r, Drafts!Performs(w, r), UNCHANGED tab, NEW u \in Editor, NEW x, x = tab[u].text
  PROVE  (x \in kept => x \in kept') /\ (text' = x => x \in kept')
BY DEF Drafts!Performs

\* The first request of a line, performed: it takes no text that its desktop does not know to be taken.
LEMMA ServesFares ==
  ASSUME DraftInv, NEW w \in Editor, outgoing[w] # <<>>, NEW r, r = Head(outgoing[w]), Drafts!Performs(w, r),
         UNCHANGED tab, NEW u \in Editor, u \notin Drafts!TakenFrom(w, r),
         NEW x \in Int, x = tab[u].text, Mine(u, x)
  PROVE  /\ Fares(u, x) /\ (x \notin kept' /\ draft'.text = x => draft.text = x \/ (u = w /\ DraftOf(r, x)))
         /\ DraftOf(r, x) /\ x \notin kept => u = w
<1>1. r \in Requests /\ 1 \in DOMAIN outgoing[w] /\ r = outgoing[w][1]
  BY TailIs DEF DraftInv, DraftTyped
<1>2. ASSUME DraftOf(r, x), x \notin kept PROVE u = w
  BY <1>1, <1>2 DEF Mine, Unseen
<1>3. (x \in kept => x \in kept') /\ (text' = x => x \in kept')
  BY KeptStays
<1>4. ASSUME x \notin kept', draft.text = x PROVE draft'.text = x
  <2>1. draft.by = u /\ AllSay(u, x)
    BY <1>3, <1>4 DEF Mine
  <2>2. CASE u # w
    BY <1>4, <2>1, <2>2 DEF Drafts!TakenFrom
  <2>3. CASE u = w
    <3>1. SaysOnly(r, x)
      BY <1>1, <2>1, <2>3 DEF AllSay
    <3>2. r.op = "save" => Drafts!Refuses(r)
      BY <1>3, <1>4, <3>1 DEF Drafts!Performs, SaysOnly
    <3>3. r.op # "discard" /\ (r.op = "draft" => r.text = x)
      BY <3>1 DEF SaysOnly
    <3>. QED
      BY <1>4, <3>2, <3>3 DEF Drafts!Performs
  <2>. QED
    BY <2>2, <2>3
<1>. QED
  BY <1>1, <1>2, <1>4, PerformsFares

LEMMA AnswerIs ==
  ASSUME DraftInv, NEW r \in Requests, r.text <= typed, NEW ok \in BOOLEAN
  PROVE  LET a == Drafts!Answer(r, ok) IN
         /\ a \in Replies /\ a.op = r.op /\ a.ok = ok /\ (ok => a.revision = r.revision) /\ a.text <= typed
         /\ a.text \in {-1, text, draft.text} /\ (~ok => a.text = -1)
<1>. DEFINE s == IF ~ok THEN Drafts!Shown(Drafts!NoText, Drafts!NoText, FALSE)
                 ELSE IF r.op # "load" THEN Drafts!Shown(Drafts!NoText, r.text, FALSE)
                 ELSE IF draft = Drafts!NoDraft THEN Drafts!Shown(text, text, FALSE)
                 ELSE Drafts!Shown(draft.text, draft.base, TRUE)
<1>. DEFINE n == IF ok THEN r.revision ELSE 0
<1>. DEFINE a == Drafts!Answer(r, ok)
<1>1. a = [op |-> r.op, ok |-> ok, revision |-> n, text |-> s.text, base |-> s.base, drafted |-> s.drafted]
  BY DEF Drafts!Answer
<1>2. /\ text \in Int /\ draft.text \in Int /\ draft.base \in Int /\ text <= typed /\ draft.text <= typed /\ typed \in Nat
  BY DEF DraftInv, DraftTyped, MadeBefore
<1>3. r.op \in {"load", "draft", "save", "discard"} /\ n \in Nat /\ (ok => n = r.revision) /\ r.text \in Int
  BY DEF Requests
<1>4. /\ s.text \in Int /\ s.base \in Int /\ s.drafted \in BOOLEAN /\ s.text \in {-1, text, draft.text} /\ s.text <= typed
      /\ ~ok => s.text = -1
  <2>5. \/ s = [text |-> -1, base |-> -1, drafted |-> FALSE]
        \/ ok /\ s = [text |-> -1, base |-> r.text, drafted |-> FALSE]
        \/ ok /\ s = [text |-> text, base |-> text, drafted |-> FALSE]
        \/ ok /\ s = [text |-> draft.text, base |-> draft.base, drafted |-> TRUE]
    BY DEF Drafts!Shown, Drafts!NoText
  <2>6. ~ok => s = [text |-> -1, base |-> -1, drafted |-> FALSE]
    BY DEF Drafts!Shown, Drafts!NoText
  <2>. HIDE DEF s
  <2>1. CASE s = [text |-> -1, base |-> -1, drafted |-> FALSE]
    BY <1>2, <2>1
  <2>2. CASE ok /\ s = [text |-> -1, base |-> r.text, drafted |-> FALSE]
    BY <1>2, <1>3, <2>2
  <2>3. CASE ok /\ s = [text |-> text, base |-> text, drafted |-> FALSE]
    BY <1>2, <2>3
  <2>4. CASE ok /\ s = [text |-> draft.text, base |-> draft.base, drafted |-> TRUE]
    BY <1>2, <2>4
  <2>. QED
    BY <2>1, <2>2, <2>3, <2>4, <2>5
<1>. HIDE DEF s, n, a
<1>5. a \in Replies
  BY <1>1, <1>3, <1>4 DEF Replies
<1>6. a.op = r.op /\ a.ok = ok /\ a.revision = n /\ a.text = s.text
  BY <1>1
<1>. QED
  BY <1>3, <1>4, <1>5, <1>6 DEF a

LEMMA ServesSafe ==
  ASSUME DraftInv, NEW w \in Editor, Drafts!Serves(w)
  PROVE  DraftInv'
<1>. DEFINE r == Head(outgoing[w])
<1>. DEFINE ok == ~Drafts!Refuses(r)
<1>. DEFINE a == Drafts!Answer(r, ok)
<1>1. /\ outgoing[w] # <<>> /\ Drafts!Performs(w, r)
      /\ heard' = [heard EXCEPT ![w] = Append(heard[w], a)] /\ outgoing' = [outgoing EXCEPT ![w] = Tail(outgoing[w])]
      /\ crossed' = crossed \cup Drafts!TakenFrom(w, r) /\ UNCHANGED <<tab, late, typed>>
  BY DEF Drafts!Serves, Drafts!Answers
<1>2. r \in Requests /\ r.text <= typed
  <2>1. r \in Requests /\ 1 \in DOMAIN outgoing[w] /\ r = outgoing[w][1]
    BY <1>1, TailIs DEF DraftInv, DraftTyped
  <2>. QED
    BY <2>1 DEF DraftInv, MadeBefore
<1>3. ok \in BOOLEAN
  BY DEF Drafts!Refuses
<1>4. /\ text' \in Int /\ draft' \in [text : Int, base : Int, by : Editor \cup {Drafts!NoText}]
      /\ text' <= typed /\ draft'.text <= typed
  BY <1>1, <1>2, PerformsTyped
<1>5. /\ a \in Replies /\ a.op = r.op /\ a.ok = ok /\ (ok => a.revision = r.revision) /\ a.text <= typed
      /\ a.text \in {-1, text, draft.text}
  <2>. HIDE DEF r, ok
  <2>. QED
    BY <1>2, <1>3, AnswerIs
<1>6. ASSUME NEW u \in Editor, NEW x \in Int, u \notin crossed', x = tab[u].text, Mine(u, x)
      PROVE  /\ Fares(u, x) /\ Tells(w, r, a, u, x)
             /\ x \notin kept' /\ draft'.text = x => draft.text = x \/ (u = w /\ DraftOf(r, x))
  <2>. HIDE DEF r, a
  <2>1. u \notin Drafts!TakenFrom(w, r)
    BY <1>1, <1>6
  <2>2. /\ Fares(u, x) /\ (x \notin kept' /\ draft'.text = x => draft.text = x \/ (u = w /\ DraftOf(r, x)))
        /\ DraftOf(r, x) /\ x \notin kept => u = w
    BY <1>1, <1>6, <2>1, ServesFares DEF r
  <2>3. x >= 1 /\ (text = x => x \in kept)
    BY <1>6 DEF Mine, KnowsTrue
  <2>4. /\ a.ok /\ r.op = "draft" => draft'.text = r.text
        /\ a.ok /\ r.op = "save" => text' = r.text /\ draft'.text = -1
    BY <1>1, <1>5 DEF Drafts!Performs, Drafts!NoDraft, Drafts!NoText
  <2>5. Tells(w, r, a, u, x)
    <3>1. ASSUME x \notin kept', u # w PROVE (a.text = x => draft.text = x) /\ (Writes(a) => draft.text # x)
      <4>1. x \notin kept /\ (draft.text = x => draft'.text = x)
        BY <2>2, <3>1 DEF Fares
      <4>2. a.text = x => draft.text = x
        BY <1>5, <2>3, <4>1
      <4>3. Writes(a) => draft.text # x
        BY <1>5, <2>2, <2>3, <2>4, <3>1, <4>1 DEF Writes, Done, DraftOf
      <4>. QED
        BY <4>2, <4>3
    <3>2. Done(a, "save") /\ r.text = x => x \in kept'
      BY <1>5, <2>2, <2>4 DEF Done, Fares
    <3>3. Done(a, "draft") /\ r.text = x => draft'.text = x
      BY <1>5, <2>4 DEF Done
    <3>. QED
      BY <3>1, <3>2, <3>3 DEF Tells
  <2>. QED
    BY <2>2, <2>5
<1>. HIDE DEF a, ok
<1>. QED
  BY <1>1, <1>4, <1>5, <1>6, AnsweredSafe

\* A request that was given up is not answered, whatever becomes of it.
LEMMA TimesOutSafe ==
  ASSUME DraftInv, NEW w \in Editor, Drafts!TimesOut(w)
  PROVE  DraftInv'
<1>. DEFINE r == Head(outgoing[w])
<1>. DEFINE a == Drafts!Answer(r, FALSE)
<1>1. /\ outgoing[w] # <<>> /\ UNCHANGED <<tab, typed>>
      /\ heard' = [heard EXCEPT ![w] = Append(heard[w], a)] /\ outgoing' = [outgoing EXCEPT ![w] = Tail(outgoing[w])]
  BY DEF Drafts!TimesOut, Drafts!Answers
<1>2. \/ late' = late /\ Drafts!Performs(w, r) /\ crossed' = crossed \cup Drafts!TakenFrom(w, r)
      \/ late' \in SUBSET (late \cup {[by |-> w, request |-> r]}) /\ UNCHANGED <<text, draft, kept, crossed>>
  BY DEF Drafts!TimesOut
<1>3. r \in Requests /\ r.text <= typed
  <2>1. r \in Requests /\ 1 \in DOMAIN outgoing[w] /\ r = outgoing[w][1]
    BY <1>1, TailIs DEF DraftInv, DraftTyped
  <2>. QED
    BY <2>1 DEF DraftInv, MadeBefore
<1>4. a \in Replies /\ a.op = r.op /\ ~a.ok /\ a.text = -1 /\ a.text <= typed
  <2>. HIDE DEF r
  <2>. QED
    BY <1>3, AnswerIs
<1>5. \A u \in Editor, x \in Int : Mine(u, x) => Tells(w, r, a, u, x)
  <2>. HIDE DEF a, r
  <2>. QED
    BY <1>4 DEF Tells, Writes, Done, Mine
<1>6. CASE late' = late /\ Drafts!Performs(w, r) /\ crossed' = crossed \cup Drafts!TakenFrom(w, r)
  <2>1. /\ text' \in Int /\ draft' \in [text : Int, base : Int, by : Editor \cup {Drafts!NoText}]
        /\ text' <= typed /\ draft'.text <= typed
    BY <1>3, <1>6, PerformsTyped
  <2>2. ASSUME NEW u \in Editor, NEW x \in Int, u \notin crossed', x = tab[u].text, Mine(u, x)
        PROVE  /\ Fares(u, x) /\ Tells(w, r, a, u, x)
               /\ x \notin kept' /\ draft'.text = x => draft.text = x \/ (u = w /\ DraftOf(r, x))
    BY <1>1, <1>5, <1>6, <2>2, ServesFares
  <2>. HIDE DEF a
  <2>. QED
    BY <1>1, <1>4, <1>6, <2>1, <2>2, AnsweredSafe
<1>7. CASE late' \in SUBSET (late \cup {[by |-> w, request |-> r]}) /\ UNCHANGED <<text, draft, kept, crossed>>
  <2>1. /\ text' \in Int /\ draft' \in [text : Int, base : Int, by : Editor \cup {Drafts!NoText}]
        /\ text' <= typed /\ draft'.text <= typed
    BY <1>7 DEF DraftInv, DraftTyped, MadeBefore
  <2>2. ASSUME NEW u \in Editor, NEW x \in Int, u \notin crossed', x = tab[u].text, Mine(u, x)
        PROVE  /\ Fares(u, x) /\ Tells(w, r, a, u, x)
               /\ x \notin kept' /\ draft'.text = x => draft.text = x \/ (u = w /\ DraftOf(r, x))
    BY <1>5, <1>7, <2>2 DEF Fares, Mine, KnowsTrue
  <2>. HIDE DEF a
  <2>. QED
    BY <1>1, <1>4, <1>7, <2>1, <2>2, AnsweredSafe
<1>. QED
  BY <1>2, <1>6, <1>7

LEMMA ServesLateSafe ==
  ASSUME DraftInv, Drafts!ServesLate
  PROVE  DraftInv'
<1>1. DraftTyped /\ MadeBefore
  BY DEF DraftInv
<1>. PICK l \in late : /\ Drafts!Performs(l.by, l.request) /\ late' = late \ {l}
                       /\ crossed' = crossed \cup Drafts!TakenFrom(l.by, l.request)
                                             \cup {v \in {l.by} : draft.by = v /\ draft'.text # draft.text}
  BY DEF Drafts!ServesLate
<1>2. UNCHANGED <<tab, outgoing, heard, typed>>
  BY DEF Drafts!ServesLate
<1>. DEFINE w == l.by
<1>. DEFINE r == l.request
<1>3. w \in Editor /\ r \in Requests /\ r.text <= typed
  BY <1>1 DEF DraftTyped, MadeBefore
<1>4. /\ text' \in Int /\ draft' \in [text : Int, base : Int, by : Editor \cup {Drafts!NoText}]
      /\ text' <= typed /\ draft'.text <= typed
  BY <1>3, PerformsTyped
<1>5. DraftTyped' /\ MadeBefore'
  BY <1>1, <1>2, <1>4 DEF DraftTyped, MadeBefore
<1>6. ASSUME NEW u \in Editor, u \notin crossed' PROVE TellsTrue(u)'
  BY <1>2, <1>6 DEF DraftInv, TellsTrue
<1>7. ASSUME NEW u \in Editor, u \notin crossed', tab'[u].mine
      PROVE  \E x \in Int : x = tab'[u].text /\ Mine(u, x)'
  <2>. PICK x \in Int : x = tab[u].text
    BY <1>1, TextsAreInts
  <2>1. Mine(u, x)
    BY <1>2, <1>7 DEF DraftInv
  <2>2. (x \in kept => x \in kept') /\ (text' = x => x \in kept')
    BY <1>2, KeptStays
  <2>3. ASSUME x \notin kept', draft.text = x PROVE draft'.text = x
    <3>1. draft.by = u
      BY <2>1, <2>2, <2>3 DEF Mine
    <3>. QED
      BY <1>7, <2>3, <3>1 DEF Drafts!TakenFrom
  <2>4. DraftOf(r, x) /\ x \notin kept => u = w
    BY <1>3, <2>1 DEF Mine, Unseen
  <2>5. Fares(u, x) /\ (x \notin kept' /\ draft'.text = x => draft.text = x \/ (u = w /\ DraftOf(r, x)))
    <3>. HIDE DEF w, r
    <3>1. Drafts!Performs(w, r)
      BY DEF w, r
    <3>. QED
      BY <1>2, <1>3, <2>1, <2>3, <2>4, <3>1, PerformsFares
  <2>6. (AllSay(u, x) => AllSay(u, x)') /\ (u = w /\ DraftOf(r, x) => AllSay(u, x)')
    BY <1>2, <2>1 DEF AllSay, Mine, InOrder
  <2>7. InOrder(u, x)'
    BY <1>2, <2>1, <2>6 DEF Mine, InOrder
  <2>8. KnowsTrue(u, x)'
    <3>1. (Learned(u, "save")' <=> Learned(u, "save")) /\ (Learned(u, "draft")' <=> Learned(u, "draft"))
      BY <1>2 DEF Learned
    <3>. QED
      BY <1>2, <2>1, <2>5, <3>1 DEF Mine, KnowsTrue, Fares
  <2>9. x \notin kept' /\ draft'.text = x => draft'.by = u /\ AllSay(u, x)'
    BY <2>1, <2>2, <2>5, <2>6 DEF Mine, Fares
  <2>10. ASSUME x \notin kept', NEW v \in Editor \ {u} PROVE Unseen(v, x)' /\ OnlyLoaded(v, x)'
    <3>1. Unseen(v, x) /\ OnlyLoaded(v, x)
      BY <2>1, <2>2, <2>10 DEF Mine
    <3>2. Unseen(v, x)'
      BY <1>2, <2>3, <2>10, <3>1 DEF Unseen
    <3>3. OnlyLoaded(v, x)'
      BY <1>2, <3>1 DEF OnlyLoaded
    <3>. QED
      BY <3>2, <3>3
  <2>. QED
    BY <1>2, <2>1, <2>7, <2>8, <2>9, <2>10 DEF Mine
<1>. QED
  BY <1>5, <1>6, <1>7 DEF DraftInv

\* Somebody else's text is a new one.
LEMMA OutsideSafe ==
  ASSUME DraftInv, Drafts!Outside
  PROVE  DraftInv'
<1>1. DraftTyped /\ MadeBefore
  BY DEF DraftInv
<1>2. text' = typed + 1 /\ typed' = typed + 1 /\ UNCHANGED <<tab, outgoing, heard, late, draft, kept, crossed>>
  BY DEF Drafts!Outside
<1>3. typed \in Nat
  BY <1>1 DEF DraftTyped
<1>4. DraftTyped'
  BY <1>1, <1>2, <1>3 DEF DraftTyped
<1>5. MadeBefore'
  BY <1>1, <1>2, <1>3, TextsAreInts DEF MadeBefore
<1>6. ASSUME NEW u \in Editor, u \notin crossed' PROVE TellsTrue(u)'
  BY <1>2, <1>6 DEF DraftInv, TellsTrue
<1>7. ASSUME NEW u \in Editor, u \notin crossed', tab'[u].mine
      PROVE  \E x \in Int : x = tab'[u].text /\ Mine(u, x)'
  <2>. PICK x \in Int : x = tab[u].text
    BY <1>1, TextsAreInts
  <2>1. Mine(u, x) /\ x <= typed
    BY <1>1, <1>2, <1>7 DEF DraftInv, MadeBefore
  <2>2. text' # x
    BY <1>2, <1>3, <2>1
  <2>3. InOrder(u, x)' /\ (AllSay(u, x) => AllSay(u, x)')
    BY <1>2, <2>1 DEF Mine, InOrder, AllSay
  <2>4. KnowsTrue(u, x)'
    <3>1. (Learned(u, "save")' <=> Learned(u, "save")) /\ (Learned(u, "draft")' <=> Learned(u, "draft"))
      BY <1>2 DEF Learned
    <3>. QED
      BY <1>2, <2>1, <2>2, <3>1 DEF Mine, KnowsTrue
  <2>5. ASSUME NEW v \in Editor, Unseen(v, x), OnlyLoaded(v, x) PROVE Unseen(v, x)' /\ OnlyLoaded(v, x)'
    BY <1>2, <2>5 DEF Unseen, OnlyLoaded
  <2>. QED
    BY <1>2, <2>1, <2>3, <2>4, <2>5 DEF Mine
<1>. QED
  BY <1>4, <1>5, <1>6, <1>7 DEF DraftInv

\* A step of another part.
LEMMA DraftsElsewhere ==
  ASSUME DraftInv, UNCHANGED drafts
  PROVE  DraftInv'
<1>1. UNCHANGED <<tab, outgoing, heard, late, text, draft, typed, kept, crossed>>
  BY DEF drafts
<1>2. DraftTyped' /\ MadeBefore'
  BY <1>1 DEF DraftInv, DraftTyped, MadeBefore
<1>3. ASSUME NEW u \in Editor, u \notin crossed' PROVE TellsTrue(u)'
  BY <1>1, <1>3 DEF DraftInv, TellsTrue
<1>4. ASSUME NEW u \in Editor, u \notin crossed', tab'[u].mine PROVE Mine(u, tab[u].text)'
  <2>. PICK x \in Int : x = tab[u].text
    BY TextsAreInts DEF DraftInv
  <2>1. Mine(u, x)
    BY <1>1, <1>4 DEF DraftInv
  <2>2. InOrder(u, x)' /\ (AllSay(u, x) => AllSay(u, x)') /\ KnowsTrue(u, x)'
    BY <1>1, <2>1 DEF Mine, InOrder, AllSay, KnowsTrue, Learned
  <2>3. ASSUME NEW v \in Editor, Unseen(v, x), OnlyLoaded(v, x) PROVE Unseen(v, x)' /\ OnlyLoaded(v, x)'
    BY <1>1, <2>3 DEF Unseen, OnlyLoaded
  <2>4. Mine(u, x)'
    BY <1>1, <2>1, <2>2, <2>3 DEF Mine
  <2>. QED
    BY <1>1, <2>4
<1>. QED
  BY <1>2, <1>3, <1>4 DEF DraftInv

LEMMA DraftStep ==
  ASSUME DraftInv, Drafts!DraftNext
  PROVE  DraftInv'
<1>1. ASSUME NEW w \in Editor, Drafts!Saves(w) PROVE DraftInv'
  <2>. DEFINE ops == <<"save">>
  <2>1. /\ Drafts!Sends(w, ops) /\ ops \in {<<>>, <<"save">>}
        /\ UNCHANGED <<heard, late, text, draft, typed, kept, crossed>>
    BY <1>1 DEF Drafts!Saves
  <2>. HIDE DEF ops
  <2>. QED
    BY <2>1, SendsSafe
<1>2. ASSUME NEW w \in Editor, Drafts!Ticks(w) PROVE DraftInv'
  <2>. DEFINE ops == <<>>
  <2>1. /\ Drafts!Sends(w, ops) /\ ops \in {<<>>, <<"save">>}
        /\ UNCHANGED <<heard, late, text, draft, typed, kept, crossed>>
    BY <1>2 DEF Drafts!Ticks
  <2>. HIDE DEF ops
  <2>. QED
    BY <2>1, SendsSafe
<1>. QED
  BY <1>1, <1>2, OpensSafely, TypesSafe, DiscardsSafe, ClosesSafe, QuitsSafe, HearsSafe, ServesSafe, TimesOutSafe,
     ServesLateSafe, OutsideSafe DEF Drafts!DraftNext

\* Who goes knows where the text is.
LEMMA QuitKeeps ==
  ASSUME DraftInv, Drafts!DraftNext, NEW w \in Editor, tab[w].pc # "gone", tab'[w].pc = "gone", w \notin crossed
  PROVE  Drafts!Left(w)
<1>1. DraftTyped
  BY DEF DraftInv
<1>2. Drafts!Quits(w) /\ ~Drafts!Unkept(tab[w])
  <2>1. ASSUME NEW v \in Editor, Drafts!Quits(v) PROVE Drafts!Quits(w)
    BY <1>1, <2>1 DEF Drafts!Quits, DraftTyped
  <2>2. ASSUME NEW v \in Editor, ~Drafts!Quits(v),
               \/ Drafts!Opens(v) \/ Drafts!Types(v) \/ Drafts!Saves(v) \/ Drafts!Discards(v) \/ Drafts!Closes(v)
               \/ Drafts!Ticks(v) \/ Drafts!StaysOpen(v) \/ Drafts!Hears(v) \/ Drafts!Serves(v) \/ Drafts!TimesOut(v)
        PROVE  FALSE
    <3>1. CASE Drafts!Opens(v) \/ Drafts!Types(v) \/ Drafts!Discards(v) \/ Drafts!Closes(v) \/ Drafts!StaysOpen(v)
      <4>1. PICK pc \in {"open", "closing", tab[w].pc} : tab'[w].pc = pc
        <5>1. CASE Drafts!Types(v) \/ Drafts!Discards(v)
          <6>1. tab'[w].pc = tab[w].pc
            <7>. DEFINE d == Drafts!Pending(v) < Slots
            <7>. DEFINE n == typed + 1
            <7>. DEFINE k == tab[v].revision + 1
            <7>1. \/ tab' = [tab EXCEPT ![v].discarding = d, ![v].mine = FALSE]
                  \/ tab' = [tab EXCEPT ![v].text = n, ![v].revision = k, ![v].mine = TRUE]
              BY <5>1 DEF Drafts!Types, Drafts!Discards
            <7>. HIDE DEF d, n, k
            <7>2. CASE tab' = [tab EXCEPT ![v].discarding = d, ![v].mine = FALSE]
              BY <1>1, <7>2 DEF DraftTyped, Tabs
            <7>3. CASE tab' = [tab EXCEPT ![v].text = n, ![v].revision = k, ![v].mine = TRUE]
              BY <1>1, <7>3 DEF DraftTyped, Tabs
            <7>. QED
              BY <7>1, <7>2, <7>3
          <6>. QED
            BY <6>1
        <5>2. CASE Drafts!Opens(v) \/ Drafts!StaysOpen(v)
          <6>1. tab' = [tab EXCEPT ![v].pc = "open"]
            BY <5>2 DEF Drafts!Opens, Drafts!StaysOpen
          <6>. QED
            BY <1>1, <6>1 DEF DraftTyped, Tabs
        <5>3. CASE Drafts!Closes(v)
          <6>1. tab' = [tab EXCEPT ![v].pc = "closing"]
            BY <5>3 DEF Drafts!Closes
          <6>. QED
            BY <1>1, <6>1 DEF DraftTyped, Tabs
        <5>. QED
          BY <3>1, <5>1, <5>2, <5>3
      <4>. QED
        BY <4>1
    <3>2. CASE Drafts!Saves(v) \/ Drafts!Ticks(v)
      <4>1. Drafts!Sends(v, <<"save">>) \/ Drafts!Sends(v, <<>>)
        BY <3>2 DEF Drafts!Saves, Drafts!Ticks
      <4>2. ASSUME NEW ops, Drafts!Sends(v, ops) PROVE tab'[w].pc = tab[w].pc
        <5>. DEFINE all == (IF Drafts!NeedsDraft(v) THEN <<"draft">> ELSE <<>>) \o ops
        <5>. DEFINE n == IF Len(all) <= Slots - Drafts!Pending(v) THEN Len(all) ELSE Slots - Drafts!Pending(v)
        <5>. DEFINE f == tab[v].flight \/ (Drafts!NeedsDraft(v) /\ n > 0)
        <5>1. tab' = [tab EXCEPT ![v].flight = f]
          BY <4>2 DEF Drafts!Sends
        <5>. HIDE DEF f
        <5>. QED
          BY <1>1, <5>1 DEF DraftTyped, Tabs
      <4>. QED
        BY <4>1, <4>2
    <3>3. CASE Drafts!Serves(v) \/ Drafts!TimesOut(v)
      BY <3>3 DEF Drafts!Serves, Drafts!TimesOut
    <3>4. CASE Drafts!Hears(v)
      BY <1>1, <3>4 DEF Drafts!Hears, Drafts!Failed, Drafts!Loaded, Drafts!Saved, Drafts!Drafted, DraftTyped, Tabs
    <3>. QED
      BY <2>2, <3>1, <3>2, <3>3, <3>4
  <2>3. Drafts!Quits(w)
    BY <2>1, <2>2 DEF Drafts!DraftNext, Drafts!ServesLate, Drafts!Outside
  <2>. QED
    BY <1>1, <2>3 DEF Drafts!Quits, DraftTyped
<1>3. tab[w].saved = tab[w].revision \/ tab[w].checkpoint = tab[w].revision \/ tab[w].text = -1
  BY <1>2 DEF Drafts!Unkept, Drafts!Dirty, Drafts!NoText
<1>4. ASSUME tab[w].mine PROVE tab[w].text \in kept \cup {draft.text}
  <2>1. Mine(w, tab[w].text)
    BY <1>4 DEF DraftInv
  <2>. QED
    BY <1>3, <2>1 DEF Mine, KnowsTrue
<1>. QED
  BY <1>4 DEF Drafts!Left

\* QuitLosesNothing: a desktop that goes leaves what was typed in it, and not discarded, in the file
\* or in the draft, unless its draft was taken as the module says (app.c, re_app_quit and response).
THEOREM NothingIsLost == Spec => QuitLosesNothing
<1>1. Init => DraftInv
  BY DraftsBegin DEF Init
<1>2. DraftInv /\ [Next]_vars => DraftInv'
  <2>. SUFFICES ASSUME DraftInv, [Next]_vars PROVE DraftInv'
    OBVIOUS
  <2>1. CASE OfDrafts
    BY <2>1, DraftStep DEF OfDrafts
  <2>2. CASE UNCHANGED drafts
    BY <2>2, DraftsElsewhere
  <2>. QED
    BY <2>1, <2>2 DEF Next, OfStart, OfStore, OfReplace, OfLetters, OfWindow, vars
<1>3. DraftInv /\ [Next]_vars =>
        [\A w \in Editor : tab[w].pc # "gone" /\ tab'[w].pc = "gone" /\ w \notin crossed => Drafts!Left(w)]_(Drafts!draftVars)
  <2>. SUFFICES ASSUME DraftInv, [Next]_vars
       PROVE  \/ \A w \in Editor : tab[w].pc # "gone" /\ tab'[w].pc = "gone" /\ w \notin crossed => Drafts!Left(w)
              \/ UNCHANGED drafts
    BY DEF Drafts!draftVars, drafts
  <2>1. CASE OfDrafts
    BY <2>1, QuitKeeps DEF OfDrafts
  <2>. QED
    BY <2>1 DEF Next, OfStart, OfStore, OfReplace, OfLetters, OfWindow, vars
<1>4. Spec => [][\A w \in Editor : tab[w].pc # "gone" /\ tab'[w].pc = "gone" /\ w \notin crossed => Drafts!Left(w)]_(Drafts!draftVars)
  BY <1>1, <1>2, <1>3, PTL DEF Spec
<1>. QED
  BY <1>4 DEF QuitLosesNothing, Drafts!QuitLosesNothing
=============================================================================
