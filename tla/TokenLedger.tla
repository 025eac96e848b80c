---------------------------- MODULE TokenLedger ----------------------------
(***************************************************************************)
(* The project token (red-token: ledger.rs, tokens.rs, red_token_serve.rs).*)
(* One agent holds a project's token.  Another may contest it: the holder  *)
(* or the person at the desktop answers, or the token goes to the          *)
(* contester at the deadline.  The service keeps the ledger in memory and  *)
(* in token.json, may be reaped or die at any time, and reads the file     *)
(* when it is next asked.                                                  *)
(*                                                                         *)
(* Every call holds the service's lock from its settle() to its answer, so *)
(* it is one step; the file is written inside it and a write may be lost.  *)
(* Labels, reasons, the history ring and the feed's numbers are left out.  *)
(***************************************************************************)
EXTENDS Naturals, FiniteSets

CONSTANTS
  Agent, Pid,         \* agent sessions; process ids, each used once
  NoAgent, NoPid,     \* "none"; NoPid also for a caller that names no process
  Unseen,             \* the ledger's registry has no such agent
  Windows,            \* the windows the preference may be set to
  MaxTime, MaxContests, MaxLostWrites   \* bounds: the clock, the contests minted, the writes lost

ASSUME LedgerConstants ==
  /\ NoAgent \notin Agent /\ NoPid \notin Pid
  /\ Unseen \notin Pid \cup {NoPid}
  /\ Windows \subseteq Nat \ {0} /\ Windows # {}
  /\ MaxTime \in Nat /\ MaxContests \in Nat /\ MaxLostWrites \in Nat

VARIABLES
  ledger,     \* Ledger.state: holder, contest, cooldown, identities
  disk,       \* token.json
  opened,     \* the service runs and has opened this root
  window,     \* the tokenWindowMs preference
  now,
  minted,     \* contests minted so far: the newest id
  process,    \* each process: not started, alive or dead
  run,        \* the process each agent's session names when it calls
  shown,      \* the open contest as the desktop last saw it
  claimed,    \* the last token.claimed frame
  lost,       \* writes lost so far
  told,       \* history: until when each agent was last told it may not contest
  answered    \* history: the contests that were resolved

callVars  == <<ledger, disk, lost, answered, claimed>>
worldVars == <<window, now, process, run, shown>>
vars == <<callVars, opened, minted, told, worldVars>>

OrNoOne   == Agent \cup {NoAgent}
OrNoPid   == Pid \cup {NoPid}
Free      == [agent |-> NoAgent, pid |-> NoPid]
NoContest == [id |-> 0, agent |-> NoAgent, pid |-> NoPid, openedAt |-> 0, window |-> 0, deadline |-> 0]

\* a cooldown of 0 is an agent that has none
Nothing == [holder |-> Free, contest |-> NoContest, cooldown |-> [a \in Agent |-> 0],
            known |-> [a \in Agent |-> Unseen]]

Init ==
  /\ ledger = Nothing /\ disk = Nothing /\ opened = FALSE
  /\ window \in Windows /\ now = 1 /\ minted = 0
  /\ process = [p \in Pid |-> "unborn"] /\ run = [a \in Agent |-> NoPid]
  /\ shown = NoContest /\ lost = 0
  /\ claimed = [kind |-> "none", contest |-> 0, agent |-> NoAgent]
  /\ told = [a \in Agent |-> 0] /\ answered = {}

-----------------------------------------------------------------------------
(* The ledger's own functions *)

\* Contester::holding: the holder a contester becomes
Holding(contest) == [agent |-> contest.agent, pid |-> contest.pid]

\* gone(): the holder named a process and it is not alive
Gone(holder) == holder.pid # NoPid /\ process[holder.pid] # "alive"

\* mutant: a deadline moves with the preference
DueByPreference(l) == l.contest # NoContest /\ l.contest.openedAt + window <= now

Due(l) == l.contest # NoContest /\ l.contest.deadline <= now

\* mutant: a deadline is settled only against somebody
SettledAgainstHolder(l) ==
  LET passed == Due(l) /\ l.holder # Free IN
  [l EXCEPT !.cooldown = [a \in Agent |-> IF l.cooldown[a] > now THEN l.cooldown[a] ELSE 0],
            !.contest = IF passed THEN NoContest ELSE l.contest,
            !.holder = IF passed THEN Holding(l.contest) ELSE l.holder]

\* settle(): cooldowns that ended go, and a contest whose deadline passed takes the token
Settled(l) ==
  [l EXCEPT !.cooldown = [a \in Agent |-> IF l.cooldown[a] > now THEN l.cooldown[a] ELSE 0],
            !.contest = IF Due(l) THEN NoContest ELSE l.contest,
            !.holder = IF Due(l) THEN Holding(l.contest) ELSE l.holder]

\* seen(): the caller's process is noted, also on the token it holds
Seen(l, a) ==
  [l EXCEPT !.known[a] = run[a],
            !.holder = IF l.holder.agent = a /\ run[a] # NoPid
                       THEN [agent |-> a, pid |-> run[a]] ELSE l.holder]

\* settle_rejection(): the contest is closed; a refusal costs the window it ran on
Until(contest) == now + contest.window

\* mutant: a refusal is charged to the holder
ChargedHolder(l) == [l EXCEPT !.contest = NoContest, !.cooldown[l.holder.agent] = Until(l.contest)]
Charged(l)  == [l EXCEPT !.contest = NoContest, !.cooldown[l.contest.agent] = Until(l.contest)]
Answered(l) == [l EXCEPT !.contest = NoContest]
Given(l, holder) == [l EXCEPT !.holder = holder, !.contest = NoContest]

-----------------------------------------------------------------------------
(* What a call leaves in memory and in the file: settle() writes when it   *)
(* changed something, the call writes when it says so, and a write may be  *)
(* lost.  Whoever calls, a deadline that passed is settled first.          *)

settled == Settled(ledger)

Remembers(final) ==
  /\ opened
  /\ ledger' = final
  /\ answered' = IF final.contest # ledger.contest /\ ledger.contest # NoContest
                 THEN answered \cup {ledger.contest.id} ELSE answered

\* the file is left as one of the states written, or as it was
Writes(earlier, last) ==
  /\ disk' \in {disk, last} \cup earlier
  /\ lost' = IF disk' = last THEN lost ELSE lost + 1
  /\ lost' <= MaxLostWrites

\* the call's own persist(), after settle()'s
Persists(final) == Remembers(final) /\ Writes({settled} \ {ledger}, final)

\* a call that does not persist
Unwritten(final) ==
  /\ Remembers(final)
  /\ IF settled = ledger THEN UNCHANGED <<disk, lost>> ELSE Writes({}, settled)

\* the token.claimed frame of the call, or the one settle() said
Claims(kind, id, agent) == claimed' = [kind |-> kind, contest |-> id, agent |-> agent]
ClaimsByDeadline ==
  IF Due(ledger) THEN Claims("deadline", ledger.contest.id, ledger.contest.agent)
                 ELSE UNCHANGED claimed

Quiet == ClaimsByDeadline /\ UNCHANGED <<opened, minted, told, worldVars>>

-----------------------------------------------------------------------------
(* An agent's calls *)

CanCall(a) == IF run[a] = NoPid THEN TRUE ELSE process[run[a]] = "alive"
Caller(a)  == [agent |-> a, pid |-> run[a]]
noted(a)   == Seen(settled, a)
Holds(a)   == settled.holder.agent = a

\* gate, callerStatus: settle, note the caller, persist
Gate(a) == CanCall(a) /\ Persists(noted(a)) /\ Quiet

\* contest() by the holder, and by an agent that may not: answered, or refused unwritten
ContestHeld(a) == CanCall(a) /\ Holds(a) /\ Persists(noted(a)) /\ Quiet

MayContest(a) ==
  CanCall(a) /\ ~Holds(a) /\ settled.cooldown[a] <= now /\ settled.contest = NoContest

ContestRefused(a) == CanCall(a) /\ ~Holds(a) /\ ~MayContest(a) /\ Unwritten(noted(a)) /\ Quiet

Takeable == settled.holder = Free \/ Gone(settled.holder)

\* a token nobody holds, or whose holder's process is gone, is claimed at once
ContestClaims(a) ==
  /\ MayContest(a) /\ Takeable
  /\ Persists([noted(a) EXCEPT !.holder = Caller(a)])
  /\ Claims(IF settled.holder = Free THEN "agent" ELSE "holder-gone", 0, a)
  /\ UNCHANGED <<opened, minted, told, worldVars>>

ContestOpens(a) ==
  /\ MayContest(a) /\ ~Takeable
  /\ minted < MaxContests /\ now + window <= MaxTime
  /\ minted' = minted + 1
  /\ Persists([noted(a) EXCEPT !.contest =
       [id |-> minted + 1, agent |-> a, pid |-> run[a], openedAt |-> now, window |-> window,
        deadline |-> now + window]])
  /\ ClaimsByDeadline
  /\ UNCHANGED <<opened, told, worldVars>>

\* mutant: a refusal is left to a later call to write
RefusesUnwritten(l) ==
  /\ l.contest # NoContest
  /\ Unwritten(Charged(l))
  /\ told' = [told EXCEPT ![l.contest.agent] = Until(l.contest)]
  /\ ClaimsByDeadline
  /\ UNCHANGED <<opened, minted, worldVars>>

\* settle_rejection() with a cooldown, for the holder and for the desktop
Refuses(l) ==
  /\ l.contest # NoContest
  /\ Persists(Charged(l))
  /\ told' = [told EXCEPT ![l.contest.agent] = Until(l.contest)]
  /\ ClaimsByDeadline
  /\ UNCHANGED <<opened, minted, worldVars>>

Reject(a) == CanCall(a) /\ Holds(a) /\ Refuses(noted(a))

RejectRefused(a) ==
  /\ CanCall(a) /\ (settled.contest = NoContest \/ ~Holds(a))
  /\ Unwritten(noted(a)) /\ Quiet

\* a release under an open contest is that contest answered
ReleaseTo(a) ==
  /\ CanCall(a) /\ Holds(a) /\ settled.contest # NoContest
  /\ Persists(Given(noted(a), Holding(settled.contest)))
  /\ Claims("release", settled.contest.id, settled.contest.agent)
  /\ UNCHANGED <<opened, minted, told, worldVars>>

Release(a) ==
  /\ CanCall(a) /\ Holds(a) /\ settled.contest = NoContest
  /\ Persists([noted(a) EXCEPT !.holder = Free]) /\ Quiet

ReleaseRefused(a) == CanCall(a) /\ ~Holds(a) /\ Unwritten(noted(a)) /\ Quiet

-----------------------------------------------------------------------------
(* The desktop's calls: the person there is never gated *)

\* a frame, and with it the status, reaches the desktop some time later
Show ==
  /\ opened /\ shown' = ledger.contest
  /\ UNCHANGED <<callVars, opened, minted, told, window, now, process, run>>

\* the contest the desktop names is still the open one
NamesOpen == shown.id # 0 /\ settled.contest.id = shown.id

DesktopRejects == NamesOpen /\ Refuses(settled)

DesktopGrants ==
  /\ NamesOpen
  /\ Persists(Given(settled, Holding(settled.contest)))
  /\ Claims("desktop", settled.contest.id, settled.contest.agent)
  /\ UNCHANGED <<opened, minted, told, worldVars>>

\* any other answer of the desktop's is refused, and only settle() is left of it
DesktopRefused == Unwritten(settled) /\ Quiet

\* mutant: an open contest is left running against the holder the desktop chose
AssignLeavesContest(a) ==
  /\ \E pid \in IF ledger.known[a] = Unseen THEN OrNoPid ELSE {ledger.known[a]} :
       Persists([settled EXCEPT !.holder = [agent |-> a, pid |-> pid]])
  /\ Claims("desktop", 0, a)
  /\ UNCHANGED <<opened, minted, told, worldVars>>

\* the token goes to the agent the desktop names, as the registry knows it or as the
\* conversation the caller looked up says; an open contest is answered and not charged
Assign(a) ==
  /\ \E pid \in IF ledger.known[a] = Unseen THEN OrNoPid ELSE {ledger.known[a]} :
       LET final == Given(settled, [agent |-> a, pid |-> pid]) IN
       /\ Remembers(final)
       /\ Writes(({settled} \ {ledger}) \cup
                 (IF settled.contest = NoContest THEN {} ELSE {Answered(settled)}), final)
  /\ Claims("desktop", 0, a)
  /\ UNCHANGED <<opened, minted, told, worldVars>>

\* revoke and free: the token is let go, an open contest stays open
DesktopFrees ==
  /\ settled.holder # Free
  /\ Persists([settled EXCEPT !.holder = Free]) /\ Quiet

SetWindow(w) ==
  /\ w # window /\ window' = w
  /\ UNCHANGED <<callVars, opened, minted, told, now, process, run, shown>>

-----------------------------------------------------------------------------
(* The service: its sweep, the notes it writes for others, its end and its start *)

\* settle_when_deadlines_pass, over the roots this process opened
Sweep == Unwritten(settled) /\ Quiet

\* persist after a frame of the worker's or the host's
Persist ==
  /\ opened /\ Writes({}, ledger)
  /\ UNCHANGED <<ledger, answered, claimed, opened, minted, told, worldVars>>

\* reaped when idle, or killed: what the next process reads is the file
Restart ==
  /\ opened /\ opened' = FALSE /\ ledger' = disk
  /\ UNCHANGED <<disk, lost, answered, claimed, minted, told, worldVars>>

Open ==
  /\ ~opened /\ opened' = TRUE
  /\ UNCHANGED <<callVars, minted, told, worldVars>>

-----------------------------------------------------------------------------
(* The world: the clock, and the processes sessions run in *)

Tick ==
  /\ now < MaxTime /\ now' = now + 1
  /\ UNCHANGED <<callVars, opened, minted, told, window, process, run, shown>>

\* a session ends, or is resumed in a fresh process
Ends(a, p) ==
  /\ run[a] = p /\ process[p] = "alive"
  /\ process' = [process EXCEPT ![p] = "dead"]
  /\ UNCHANGED <<callVars, opened, minted, told, window, now, run, shown>>

Resumes(a, p) ==
  /\ process[p] = "unborn" /\ (run[a] # NoPid => process[run[a]] = "dead")
  /\ process' = [process EXCEPT ![p] = "alive"]
  /\ run' = [run EXCEPT ![a] = p]
  /\ UNCHANGED <<callVars, opened, minted, told, window, now, shown>>

-----------------------------------------------------------------------------
Contests(a) == ContestHeld(a) \/ ContestRefused(a) \/ ContestClaims(a) \/ ContestOpens(a)
Answers(a)  == Reject(a) \/ RejectRefused(a) \/ ReleaseTo(a) \/ Release(a) \/ ReleaseRefused(a)
Desktop     == Show \/ DesktopRejects \/ DesktopGrants \/ DesktopRefused \/ DesktopFrees

Next ==
  \/ \E a \in Agent : Gate(a) \/ Contests(a) \/ Answers(a) \/ Assign(a)
  \/ \E a \in Agent, p \in Pid : Ends(a, p) \/ Resumes(a, p)
  \/ Desktop
  \/ \E w \in Windows : SetWindow(w)
  \/ Sweep \/ Persist \/ Restart \/ Open \/ Tick

Spec == Init /\ [][Next]_vars

\* The clock goes on and the sweep runs every quarter of a second.  Nobody has
\* to call, and the service may stay down.
Fairness == WF_vars(Tick) /\ WF_vars(Sweep)
FairSpec == Spec /\ Fairness

-----------------------------------------------------------------------------
Holders  == [agent : OrNoOne, pid : OrNoPid]
Contested == [id : Nat, agent : OrNoOne, pid : OrNoPid, openedAt : Nat, window : Nat, deadline : Nat]
Ledgers  == [holder : Holders, contest : Contested, cooldown : [Agent -> Nat],
             known : [Agent -> OrNoPid \cup {Unseen}]]

Frames   == [kind : {"none", "deadline", "agent", "holder-gone", "release", "desktop"},
             contest : Nat, agent : OrNoOne]

TypeOK ==
  /\ ledger \in Ledgers /\ disk \in Ledgers /\ opened \in BOOLEAN
  /\ window \in Windows /\ now \in Nat /\ minted \in Nat
  /\ process \in [Pid -> {"unborn", "alive", "dead"}] /\ run \in [Agent -> OrNoPid]
  /\ shown \in Contested
  /\ claimed \in Frames
  /\ lost \in 0..MaxLostWrites
  /\ told \in [Agent -> Nat] /\ answered \subseteq Nat

-----------------------------------------------------------------------------
(* Safety *)

\* Nobody contests a token it holds: the agent that would be given the token
\* at the deadline is never the one that has it, in memory or in the file.
ContestHasOtherHolder ==
  \A l \in {ledger, disk} : l.contest # NoContest => l.contest.agent # l.holder.agent

\* A contest that was resolved is not open again, also not for the process
\* that reads the file next, as long as no write was lost (persist()).
AnsweredStaysAnswered ==
  lost = 0 => \A l \in {ledger, disk} : l.contest.id \notin answered

\* An agent that was told until when it may not contest has no contest opened
\* before then, restarts of the service between included (settle_rejection).
NoContestDuringCooldown ==
  lost = 0 => \A l \in {ledger, disk} :
    l.contest # NoContest => told[l.contest.agent] <= l.contest.openedAt

\* Time takes the token only from a holder that had the whole window the
\* contest was opened under, whatever the preference became since.
NoticeBeforeLoss ==
  [][claimed' # claimed /\ claimed'.kind = "deadline" =>
       /\ ledger.contest.id = claimed'.contest
       /\ ledger.contest.openedAt + ledger.contest.window <= now]_vars

\* Liveness under FairSpec: a contest does not stay open for ever, unless the
\* service stops and nobody asks it again.
OpenContestResolves ==
  \A c \in 1..MaxContests : opened /\ ledger.contest.id = c ~> ~opened \/ ledger.contest.id # c

-----------------------------------------------------------------------------
(* What the source says of itself and the code does not keep *)

\* ledger.rs: a contester does not wait out a window for a token nobody holds.
FreeTokenHasNoContest == ledger.contest # NoContest => ledger.holder # Free

=============================================================================
