------------------------------ MODULE WorkerRoles ------------------------------
(***************************************************************************)
(* What the supervisor promises about its workers while they are replaced  *)
(* one at a time and it is not being stopped: exactly one worker is        *)
(* current; a worker that an update replaced may come back only while its  *)
(* switch is not final; one that retires, or was dismissed, never serves   *)
(* again.                                                                  *)
(***************************************************************************)
CONSTANTS Worker, FirstWorker

VARIABLES role, healthy

Role == {"unborn", "candidate", "current", "kept", "draining", "dismissed"}

Init == /\ role = [w \in Worker |-> IF w = FirstWorker THEN "current" ELSE "unborn"]
        /\ healthy = TRUE

\* one worker goes from one role to another
Turn(w, from, to) ==
  /\ healthy /\ healthy' = healthy
  /\ role[w] = from /\ role' = [role EXCEPT ![w] = to]

\* two of them change places in one step
Exchange(out, after, in, before) ==
  /\ healthy /\ healthy' = healthy
  /\ role[out] = "current" /\ role[in] = before
  /\ role' = [role EXCEPT ![out] = after, ![in] = "current"]

Start(w)        == Turn(w, "unborn", "candidate")
Discard(w)      == Turn(w, "candidate", "dismissed")
Commit(w)       == Turn(w, "kept", "draining")
Dismiss(w)      == Turn(w, "draining", "dismissed")
Promote(old, w) == Exchange(old, "kept", w, "candidate")
Restore(bad, w) == Exchange(bad, "draining", w, "kept")
Replace(dead, w) == Exchange(dead, "draining", w, "candidate")

\* two replacements overlapped, or the supervisor closed its workers: no promise left
Fail == healthy' = FALSE /\ role' \in [Worker -> Role]

Next ==
  \/ \E w \in Worker : Start(w) \/ Discard(w) \/ Commit(w) \/ Dismiss(w)
  \/ \E old, w \in Worker : Promote(old, w) \/ Restore(old, w) \/ Replace(old, w)
  \/ Fail

Spec == Init /\ [][Next]_<<role, healthy>>
=============================================================================
