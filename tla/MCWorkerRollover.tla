-------------------------- MODULE MCWorkerRollover --------------------------
(* Small instances of WorkerRollover for TLC.                              *)
EXTENDS WorkerRolloverRefinement, TLC

\* workers that were never started are interchangeable, and so are the jobs
MCSymmetry == Permutations(Worker \ {FirstWorker}) \cup Permutations(Job)

\* what is conditional on Orderly or on ~Swept need not be followed beyond them
MCFollowed == Orderly /\ ~Swept

\* What the liveness run follows: an update beside a forwarded request and a death; two deaths
\* beside an update; two updates.  Workers, jobs and askers that are alike come in turn, which no
\* symmetry set may say where liveness is checked.
MCLive ==
  LET started == {j \in Job : pc[j] # "none"}
      born    == {w \in Worker : proc[w] # "unborn"}
      second  == CHOOSE w \in Worker \ {FirstWorker} : TRUE
      quiet   == \A c \in Client : client[c].at = "idle"
  IN /\ started # {} => (CHOOSE j \in Job : TRUE) \in started
     /\ started # Job => asking[CHOOSE a \in Asker : TRUE] = NoJob
     /\ Cardinality(born) > 1 => second \in born
     /\ \/ Cardinality(started) <= 1 /\ Cardinality(born) <= 2 /\ crashes <= 1
        \/ Cardinality(started) <= 1 /\ quiet /\ supervisor = "up"
        \/ Cardinality(born) <= 2 /\ quiet /\ supervisor = "up" /\ crashes = 0

=============================================================================
