------------------------ MODULE WorkerRolloverRefinement ------------------------
(***************************************************************************)
(* WorkerRollover implements WorkerRoles: the role of a worker is read off *)
(* the supervisor's lists and the locals of the update that holds it.      *)
(***************************************************************************)
EXTENDS WorkerRollover

\* between the preserve and the release, an update may put the worker back
Kept(w) == \E j \in Job : Holding(j) /\ previous[j] = w

\* out of the way, and about to join the list of retiring workers
Leaving(w) ==
  \/ \E j \in Job : pc[j] = "relist" /\ rejected[j] = w
  \/ rescue.at = "list" /\ rescue.previous = w

Candidate(w) == (\E j \in Job : candidate[j] = w) \/ (rescue.next = w /\ rescue.at \in {"check", "swap"})

RoleOf(w) ==
  CASE w = current /\ told[w] = {}     -> "current"
    [] w # current /\ proc[w] = "unborn" -> "unborn"
    [] w # current /\ Candidate(w)       -> "candidate"
    [] w # current /\ Kept(w)            -> "kept"
    [] w # current /\ ~Kept(w) /\ (w \in retiring \/ Leaving(w)) -> "draining"
    [] OTHER                            -> "dismissed"

Healthy == Orderly /\ ~Swept

Roles == INSTANCE WorkerRoles WITH
  role <- [w \in Worker |-> IF Healthy THEN RoleOf(w) ELSE "dismissed"],
  healthy <- Healthy

\* While replacements come one at a time, each step of an update or a recovery
\* is one of the moves WorkerRoles allows: one current worker at every moment,
\* a replaced worker comes back only before its switch is final, and one that
\* was dismissed never serves again (update.rs order 3, finish_retirement,
\* put_back, recover).
ImplementsRoles == Roles!Spec
=============================================================================
