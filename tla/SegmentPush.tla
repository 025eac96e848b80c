----------------------------- MODULE SegmentPush -----------------------------
(***************************************************************************)
(* How a desktop's status bar follows the token of its project             *)
(* (red_worker.rs, red-core desktops.rs, the editor's token.c).  A worker  *)
(* attaches to the ledger once, when it starts.  A frame of the ledger     *)
(* only names the project: a task asks for the segment and pushes it, and  *)
(* so does a desktop's own task when it registers or acts on the token.    *)
(* What one task asked for it pushes a step later, so pushes overtake.  A  *)
(* call of the ledger that fails ends its task, and nobody asks again.     *)
(***************************************************************************)
EXTENDS Naturals

CONSTANTS
  Desktop,      \* desktops of one project
  First,        \* the sequence of the ledger's last token frame at the start: 0, none yet
  MaxMoves,     \* bound: token transitions
  MaxFails,     \* bound: calls of the ledger that fail
  MaxWorkers    \* bound: replacements of the worker

VARIABLES
  moves,        \* the ledger: the sequence of its last token frame
  workers,      \* replacements so far
  wants,        \* frames the worker's reader has named and the task has not taken up
  bound,        \* the desktops registered with the worker in service
  pushing,      \* each task's segment: asked for and not pushed yet
  shown,        \* the sequence each status bar shows
  fails,        \* calls that failed
  missed        \* history: the last transition when a segment of this desktop was last lost

segmentVars == <<moves, workers, wants, bound, pushing, shown, fails, missed>>

Follower == "wants"                      \* the task that takes up what the reader names
Task     == Desktop \cup {Follower}
Quiet    == [at |-> 0, busy |-> FALSE, owed |-> FALSE, to |-> {}]
Owed(to) == [Quiet EXCEPT !.owed = TRUE, !.to = to]

SegmentInit ==
  /\ moves = First /\ workers = 0 /\ wants = 0 /\ bound = {}
  /\ pushing = [t \in Task |-> Quiet]
  /\ shown = [d \in Desktop |-> 0]
  /\ fails = 0 /\ missed = [d \in Desktop |-> 0]

-----------------------------------------------------------------------------
\* A transition of the ledger: the frame reaches the worker's reader and is queued.
Moves == moves < First + MaxMoves /\ moves' = moves + 1 /\ wants' = wants + 1

AgentMoves == Moves /\ UNCHANGED <<workers, bound, pushing, shown, fails, missed>>

\* A registration, on a socket of the desktop's own; the push follows it on that task.
Registers(d) ==
  /\ d \notin bound
  /\ bound' = bound \cup {d}
  /\ pushing' = [pushing EXCEPT ![d] = Owed({d})]
  /\ UNCHANGED <<moves, workers, wants, shown, fails, missed>>

\* desktop_token(): only a registered desktop acts, and its task pushes to all when it did.
ActsOnToken(d) ==
  /\ d \in bound /\ pushing[d] = Quiet
  /\ Moves
  /\ pushing' = [pushing EXCEPT ![d] = Owed(Desktop)]
  /\ UNCHANGED <<workers, bound, shown, fails, missed>>

\* The reader's queue, one project at a time.
TakesUp ==
  /\ wants > 0 /\ pushing[Follower] = Quiet
  /\ wants' = wants - 1
  /\ pushing' = [pushing EXCEPT ![Follower] = Owed(Desktop)]
  /\ UNCHANGED <<moves, workers, bound, shown, fails, missed>>

\* push_segment(), first half: the ledger answers with the segment as it is now.
Asks(t) ==
  /\ pushing[t].owed
  /\ pushing' = [pushing EXCEPT ![t].at = moves, ![t].busy = TRUE, ![t].owed = FALSE]
  /\ UNCHANGED <<moves, workers, wants, bound, shown, fails, missed>>

\* The call fails: the task ends and says nothing, to the desktops or to anybody.
AskFails(t) ==
  /\ pushing[t].owed /\ fails < MaxFails
  /\ fails' = fails + 1
  /\ missed' = [d \in Desktop |-> IF d \in bound \cap pushing[t].to THEN moves ELSE missed[d]]
  /\ pushing' = [pushing EXCEPT ![t] = Quiet]
  /\ UNCHANGED <<moves, workers, wants, bound, shown>>

\* Mutant: whatever arrives last is shown.
AdoptsLast(held, told) == told

\* The status bar keeps what it shows when a lower sequence arrives; 0 is no sequence, and a
\* segment from before the project's first transition is shown over any.
Adopts(held, told) == IF held # 0 /\ told # 0 /\ told < held THEN held ELSE told

\* push_segment(), second half: to whoever is bound to the project by now.
Pushes(t) ==
  /\ pushing[t].busy
  /\ shown' = [d \in Desktop |-> IF d \in bound \cap pushing[t].to
                                THEN Adopts(shown[d], pushing[t].at)
                                ELSE shown[d]]
  /\ missed' = [d \in Desktop |-> IF d \in bound \cap pushing[t].to /\ shown[d] # 0 /\ pushing[t].at = 0
                                 THEN moves ELSE missed[d]]
  /\ pushing' = [pushing EXCEPT ![t] = Quiet]
  /\ UNCHANGED <<moves, workers, wants, bound, fails>>

\* A replaced worker takes its queue, its tasks and its registrations with it; a desktop
\* that lost its socket forgets the segment it was told.
Replaced ==
  /\ workers < MaxWorkers
  /\ workers' = workers + 1
  /\ wants' = 0 /\ bound' = {} /\ pushing' = [t \in Task |-> Quiet]
  /\ shown' = [d \in Desktop |-> 0] /\ missed' = [d \in Desktop |-> 0]
  /\ UNCHANGED <<moves, fails>>

SegmentNext ==
  \/ AgentMoves \/ TakesUp \/ Replaced
  \/ \E d \in Desktop : Registers(d) \/ ActsOnToken(d)
  \/ \E t \in Task : Asks(t) \/ AskFails(t) \/ Pushes(t)

\* The runtime's tasks run; a desktop that lost its socket comes back.
SegmentFairness ==
  /\ WF_segmentVars(TakesUp)
  /\ \A t \in Task : WF_segmentVars(Asks(t) \/ Pushes(t))
  /\ \A d \in Desktop : WF_segmentVars(Registers(d))

SegmentSpec == SegmentInit /\ [][SegmentNext]_segmentVars /\ SegmentFairness
-----------------------------------------------------------------------------
SegmentTypeOK ==
  /\ moves \in First..First + MaxMoves /\ workers \in 0..MaxWorkers /\ wants \in 0..MaxMoves
  /\ bound \subseteq Desktop
  /\ pushing \in [Task -> [at : 0..First + MaxMoves, busy : BOOLEAN, owed : BOOLEAN,
                         to : SUBSET Desktop]]
  /\ shown \in [Desktop -> 0..First + MaxMoves]
  /\ fails \in 0..MaxFails /\ missed \in [Desktop -> 0..First + MaxMoves]

\* Whatever order the pushes arrive in and however often the worker is replaced, every
\* status bar comes to show the ledger's last transition without ever asking for it.  Excused
\* is one whose segment was lost after that transition: the call of the ledger failed, which
\* nobody makes again, or a segment from before the first transition came after it.
StatusBarsCatchUp == <>[](\A d \in Desktop : shown[d] = moves \/ missed[d] = moves)
=============================================================================
