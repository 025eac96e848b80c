---------------------------- MODULE ServiceStart ----------------------------
(***************************************************************************)
(* Starting the one service of a state directory, and its going away again *)
(* (red-core: descriptor.rs, service.rs).  A caller that finds nobody      *)
(* serving takes a lock file, starts a child and hands the lock to it; a   *)
(* service publishes its descriptor, serves, and removes it when nobody    *)
(* has been attached for a while.  Every look at the descriptor or at the  *)
(* lock is a step of its own, and so is every change of them.              *)
(***************************************************************************)
EXTENDS Naturals, FiniteSets

CONSTANTS
  Starter,      \* processes that want the service; the service one starts has its name
  Past,         \* a starter, or a service, of an earlier time
  Nobody,       \* a lock that is not written yet, no lock, no descriptor
  MaxDeaths     \* bound: starters that die before they are done

VARIABLES
  starter,      \* where each caller of ensure() is
  lock,         \* the lock file: who created it and which process it names
  service,      \* the child of each starter
  descriptor,   \* the service the descriptor names
  client,       \* the service each starter is attached to
  lost          \* history: a lock was taken from somebody who was starting

startVars == <<starter, lock, service, descriptor, client, lost>>

NoLock == [file |-> Nobody, pid |-> Nobody]
Child(c) == <<"service", c>>
Process  == Starter \cup {Child(c) : c \in Starter}

StartInit ==
  /\ starter = [c \in Starter |-> "idle"]
  /\ lock \in {NoLock, [file |-> Past, pid |-> Past]}
  /\ service = [c \in Starter |-> "none"] /\ descriptor \in {Nobody, Past}
  /\ client = [c \in Starter |-> Nobody] /\ lost = FALSE

Serving(s) == service[s] \in {"serving", "idle"}
Alive(p) ==
  \/ p \in Starter /\ starter[p] # "dead"
  \/ \E c \in Starter : p = Child(c) /\ service[c] \notin {"none", "gone"}

\* already_serving(): the descriptor is read and its port asked; a port answers until its process ends.
Discovered == descriptor \in Starter /\ service[descriptor] \notin {"none", "starting", "gone"}

Goes(c, at)  == starter' = [starter EXCEPT ![c] = at]
Ready(c)     == starter' = [starter EXCEPT ![c] = "found"]

-----------------------------------------------------------------------------
\* ensure(): the lock is created, or its owner looked at.

Asks(c) ==
  /\ starter[c] = "idle"
  /\ IF Discovered THEN Ready(c) ELSE Goes(c, "take")
  /\ UNCHANGED <<lock, service, descriptor, client, lost>>

Creates(c) ==
  /\ starter[c] = "take"
  /\ IF lock = NoLock THEN lock' = [file |-> c, pid |-> Nobody] /\ Goes(c, "write")
     ELSE lock' = lock /\ Goes(c, "look")
  /\ UNCHANGED <<service, descriptor, client, lost>>

\* Through the open file: a lock removed meanwhile stays removed.
Writes(c) ==
  /\ starter[c] = "write"
  /\ lock' = IF lock.file = c THEN [lock EXCEPT !.pid = c] ELSE lock
  /\ Goes(c, "under")
  /\ UNCHANGED <<service, descriptor, client, lost>>

Looks(c) ==
  /\ starter[c] = "look"
  /\ IF Discovered THEN Ready(c) ELSE Goes(c, "judge")
  /\ UNCHANGED <<lock, service, descriptor, client, lost>>

\* Only a lock that names a process which is gone is nobody's.
Orphaned == lock # NoLock /\ lock.pid # Nobody /\ ~Alive(lock.pid)
Judges(c) ==
  /\ starter[c] = "judge"
  /\ \/ lock = NoLock /\ Goes(c, "take")
     \/ Orphaned /\ Goes(c, "reclaim")
     \/ lock # NoLock /\ ~Orphaned /\ (Goes(c, "take") \/ Goes(c, "refused"))
  /\ UNCHANGED <<lock, service, descriptor, client, lost>>

\* Removing the lock removes whatever has that name by now.
Removes(c) ==
  /\ lost' = (lost \/ (lock # NoLock /\ lock.file # c /\ ~Orphaned))
  /\ lock' = NoLock

Reclaims(c) ==
  /\ starter[c] = "reclaim" /\ Removes(c) /\ Goes(c, "take")
  /\ UNCHANGED <<service, descriptor, client>>

-----------------------------------------------------------------------------
\* under_lock(): asked again, a child started, the lock handed to it.

AsksAgain(c) ==
  /\ starter[c] = "under"
  /\ Goes(c, IF Discovered THEN "drop" ELSE "spawn")
  /\ UNCHANGED <<lock, service, descriptor, client, lost>>

Spawns(c) ==
  /\ starter[c] = "spawn"
  /\ \/ /\ service[c] = "none"
        /\ service' = [service EXCEPT ![c] = "starting"] /\ Goes(c, "hand")
     \/ service' = service /\ Goes(c, "drop")
  /\ UNCHANGED <<lock, descriptor, client, lost>>

Hands(c) ==
  /\ starter[c] = "hand"
  /\ lock' = [file |-> IF lock = NoLock THEN c ELSE lock.file, pid |-> Child(c)]
  /\ Goes(c, "wait")
  /\ UNCHANGED <<service, descriptor, client, lost>>

\* Mutant: a starter that waited long enough removes the lock of a child that still starts.
WaitsAndDrops(c) ==
  /\ starter[c] = "wait" /\ Goes(c, "drop")
  /\ UNCHANGED <<lock, service, descriptor, client, lost>>

\* The child ended or published; or it is slow, and keeps the lock.  One that crashed counts as
\* slow while its starter runs, for nobody waits for it (service.rs:203).
Waits(c) ==
  /\ starter[c] = "wait"
  /\ \/ (~Alive(Child(c)) \/ Discovered) /\ Goes(c, "drop")
     \/ Alive(Child(c)) /\ ~Discovered /\ Goes(c, "refused")
  /\ UNCHANGED <<lock, service, descriptor, client, lost>>

Drops(c) ==
  /\ starter[c] = "drop" /\ Removes(c)
  /\ IF Discovered THEN Ready(c) ELSE Goes(c, "refused")
  /\ UNCHANGED <<service, descriptor, client>>

\* A starter that dies between the spawn and the rewrite leaves a lock that names nobody alive.
Dies(c) ==
  /\ starter[c] \notin {"idle", "found", "attached", "refused", "dead"}
  /\ Cardinality({d \in Starter : starter[d] = "dead"}) < MaxDeaths
  /\ lost' = (lost \/ starter[c] = "hand")
  /\ Goes(c, "dead")
  /\ UNCHANGED <<lock, service, descriptor, client>>

-----------------------------------------------------------------------------
\* serve(): a port, the descriptor, and the reaper.

Becomes(s, at) == service' = [service EXCEPT ![s] = at]

Begins(s) ==
  /\ service[s] = "starting"
  /\ Becomes(s, IF Discovered THEN "gone" ELSE "bound")
  /\ UNCHANGED <<starter, lock, descriptor, client, lost>>

Publishes(s) ==
  /\ service[s] = "bound"
  /\ Becomes(s, "serving") /\ descriptor' = s
  /\ UNCHANGED <<starter, lock, client, lost>>

\* A client that found the descriptor connects, if its service is there by then.
Attaches(c) ==
  /\ starter[c] = "found"
  /\ IF Discovered THEN Goes(c, "attached") /\ client' = [client EXCEPT ![c] = descriptor]
     ELSE Goes(c, "idle") /\ client' = client
  /\ UNCHANGED <<lock, service, descriptor, lost>>

Detaches(c) ==
  /\ starter[c] = "attached"
  /\ client' = [client EXCEPT ![c] = Nobody] /\ Goes(c, "refused")
  /\ UNCHANGED <<lock, service, descriptor, lost>>

\* reap_when_idle(): nobody attached, nothing held, for long enough.
Idles(s) ==
  /\ service[s] = "serving" /\ \A c \in Starter : client[c] # s
  /\ Becomes(s, "idle")
  /\ UNCHANGED <<starter, lock, descriptor, client, lost>>

\* forget_descriptor(): only its own.
Forgets(s) ==
  /\ service[s] = "idle"
  /\ Becomes(s, "leaving") /\ descriptor' = IF descriptor = s THEN Nobody ELSE descriptor
  /\ UNCHANGED <<starter, lock, client, lost>>

Exits(s) ==
  /\ service[s] = "leaving"
  /\ Becomes(s, "gone")
  /\ client' = [c \in Starter |-> IF client[c] = s THEN Nobody ELSE client[c]]
  /\ starter' = [c \in Starter |-> IF client[c] = s THEN "idle" ELSE starter[c]]
  /\ UNCHANGED <<lock, descriptor, lost>>

StarterStep(c) ==
  \/ Asks(c) \/ Creates(c) \/ Writes(c) \/ Looks(c) \/ Judges(c) \/ Reclaims(c) \/ AsksAgain(c)
  \/ Spawns(c) \/ Hands(c) \/ Waits(c) \/ Drops(c) \/ Attaches(c)
ServiceStep(s) == Begins(s) \/ Publishes(s) \/ Idles(s) \/ Forgets(s) \/ Exits(s)
StartNext ==
  \E c \in Starter : StarterStep(c) \/ Dies(c) \/ Detaches(c) \/ ServiceStep(c)

-----------------------------------------------------------------------------
StartTypeOK ==
  /\ lock.file \in Starter \cup {Past, Nobody} /\ lock.pid \in Process \cup {Past, Nobody}
  /\ descriptor \in Starter \cup {Past, Nobody} /\ \A c \in Starter : client[c] \in Starter \cup {Nobody}

\* A directory is never served by two services, unless a lock was taken from somebody starting;
\* and the one that serves it is the one its descriptor leads to.
OneServing == Cardinality({s \in Starter : Serving(s)}) <= 1
OneServingUnlessLost ==
  ~lost => OneServing /\ \A s \in Starter : service[s] = "serving" => descriptor = s

StartSpec == StartInit /\ [][StartNext]_startVars
=============================================================================
