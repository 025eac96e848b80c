-------------------------- MODULE WorkspaceLaunch --------------------------
(***************************************************************************)
(* The launcher (red-launch): it builds the desktop under a lock, makes    *)
(* sure a host runs, decides against one look at the host's state what the *)
(* desktop opens with, starts what is missing and runs the desktop.  That  *)
(* asks the update supervisor for a window first (editor: bootstrap.c,     *)
(* red-launch bootstrap) and opens one of its own if it gets none.         *)
(***************************************************************************)
EXTENDS Naturals

CONSTANTS
  Launcher,     \* runs of the launcher
  Wish,         \* what one may be asked for: [headless, replace, handoff, agent, game]
  Plain,        \* the agent of a launcher that names none, and nobody's preference
  Nobody,       \* no lock, no owner, no session
  MaxEnds,      \* bound: times the host ends or is replaced, and sessions that end
  MaxReloads,   \* bound: desktops that detach to be rebuilt
  MaxKills      \* bound: launchers that are killed

VARIABLES
  at,           \* where each launcher is, what it was asked for and what it has seen and opened
  lock,         \* build.lock: who created it, and whom it names
  host,         \* the instance that serves; 0 is none
  sessions,     \* the sessions that run
  preferred,    \* the preferred agent
  count,        \* ends, reloads and kills so far, and the ids given out
  robbed, together  \* history

launchVars == <<at, lock, host, sessions, preferred, count, robbed, together>>

NoLock == [by |-> Nobody, names |-> Nobody]
Opened == [terminal |-> Nobody, agent |-> Nobody, game |-> Nobody]
Idle   == [pc |-> "idle", wish |-> CHOOSE w \in Wish : TRUE, host |-> 0, sees |-> {}, prefers |-> Plain,
           opened |-> Opened, again |-> FALSE]

LaunchInit ==
  /\ at = [l \in Launcher |-> Idle] /\ lock = NoLock /\ host \in {0, 1} /\ sessions = {} /\ preferred = Plain
  /\ count = [ends |-> 0, reloads |-> 0, kills |-> 0, ids |-> 0]
  /\ robbed = FALSE /\ together = FALSE

Goes(l, pc) == at' = [at EXCEPT ![l].pc = pc]
Gone(l)     == at' = [at EXCEPT ![l] = [Idle EXCEPT !.pc = "gone"]]
builtVars   == <<host, sessions, preferred, count, together>>

-----------------------------------------------------------------------------
\* workspace() and build().

Starts(l) ==
  /\ at[l].pc = "idle"
  /\ \E w \in Wish : at' = [at EXCEPT ![l].wish = w, ![l].pc = IF w.headless THEN "ensure" ELSE "lock"]
  /\ UNCHANGED <<lock, host, sessions, preferred, count, robbed, together>>

TakesLock(l) ==
  /\ at[l].pc = "lock"
  /\ IF lock = NoLock THEN lock' = [by |-> l, names |-> Nobody] /\ Goes(l, "name")
     ELSE lock' = lock /\ Goes(l, "judge")
  /\ UNCHANGED <<builtVars, robbed>>

NamesItself(l) ==
  /\ at[l].pc = "name" /\ Goes(l, "build")
  /\ lock' = IF lock.by = l THEN [lock EXCEPT !.names = l] ELSE lock
  /\ UNCHANGED <<builtVars, robbed>>

\* Mutant: a lock that is not named yet is nobody's.
OwnerlessUnnamed == lock # NoLock /\ (lock.names # Nobody => at[lock.names].pc = "gone")

\* An owner that is gone is nobody's; one that is not named yet, or lives, is waited for.
Ownerless == lock.names # Nobody /\ at[lock.names].pc = "gone"
Judges(l) ==
  /\ at[l].pc = "judge" /\ lock' = lock
  /\ \/ Ownerless /\ Goes(l, "reclaim")
     \/ ~Ownerless /\ Goes(l, "lock")
     \/ lock # NoLock /\ ~Ownerless /\ Gone(l)
  /\ UNCHANGED <<builtVars, robbed>>

\* The lock that is removed is the one with that name by now.
Removes(l) == lock' = NoLock /\ robbed' = (robbed \/ (lock # NoLock /\ lock.by # l /\ ~Ownerless))
Reclaims(l) == at[l].pc = "reclaim" /\ Removes(l) /\ Goes(l, "lock") /\ UNCHANGED builtVars

\* A desktop that detached is run again without another look at the host.
Builds(l) ==
  /\ at[l].pc = "build" /\ Removes(l)
  /\ Goes(l, IF at[l].again THEN "run" ELSE "ensure") \/ Gone(l)
  /\ UNCHANGED builtVars

\* A lock whose owner was killed before it was named blocks every later build.
Killed(l) ==
  /\ at[l].pc \notin {"idle", "gone"} /\ count.kills < MaxKills
  /\ count' = [count EXCEPT !.kills = @ + 1] /\ Gone(l)
  /\ UNCHANGED <<lock, host, sessions, preferred, robbed, together>>

-----------------------------------------------------------------------------
\* The host: replaced if that was asked for, and started if none serves.

Ensures(l) ==
  /\ at[l].pc = "ensure"
  /\ LET anew == host = 0 \/ (at[l].wish.replace /\ count.ends < MaxEnds) IN
     /\ host' = IF anew THEN host + count.ends + 1 ELSE host
     /\ sessions' \in IF anew /\ host # 0 THEN SUBSET sessions ELSE {sessions}
     /\ count' = [count EXCEPT !.ends = IF anew /\ host # 0 THEN @ + 1 ELSE @]
     /\ at' = [at EXCEPT ![l].host = host', ![l].pc = IF at[l].wish.headless THEN "watch" ELSE "look"]
  /\ UNCHANGED <<lock, preferred, robbed, together>>

\* headless(): until it is told to leave, or the host it started with is no more.
Watches(l) ==
  /\ at[l].pc = "watch" /\ Gone(l)
  /\ UNCHANGED <<lock, builtVars, robbed>>

HostEnds ==
  /\ host # 0 /\ count.ends < MaxEnds
  /\ host' = 0 /\ sessions' \in SUBSET sessions /\ count' = [count EXCEPT !.ends = @ + 1]
  /\ UNCHANGED <<at, lock, preferred, robbed, together>>

SessionEnds ==
  /\ count.ends < MaxEnds /\ count' = [count EXCEPT !.ends = @ + 1]
  /\ \E s \in sessions : sessions' = sessions \ {s}
  /\ UNCHANGED <<at, lock, host, preferred, robbed, together>>

-----------------------------------------------------------------------------
\* open_workspace(): one look, and what it showed to be missing.

Deciding == {"terminal", "agent", "game"}
Answered(l, pc) == at[l].pc = pc /\ at[l].host = host
LooksAtHost(l) ==
  /\ Answered(l, "look")
  /\ at' = [at EXCEPT ![l].sees = sessions, ![l].prefers = preferred, ![l].pc = "terminal"]
  /\ together' = (together \/ \E o \in Launcher \ {l} : at[o].pc \in Deciding)
  /\ UNCHANGED <<lock, host, sessions, preferred, count, robbed>>

\* The session of `known` the desktop opens with, or one that is started.
OpensWith(l, slot, known, new, next) ==
  /\ count' = [count EXCEPT !.ids = IF known = {} THEN @ + 1 ELSE @]
  /\ sessions' = IF known = {} THEN sessions \cup {[new EXCEPT !.id = count.ids + 1]} ELSE sessions
  /\ \E s \in (IF known = {} THEN {[new EXCEPT !.id = count.ids + 1]} ELSE known) :
       at' = [at EXCEPT ![l].opened[slot] = s.id, ![l].pc = next]

Session(kind, agent, handoff) == [id |-> 0, kind |-> kind, agent |-> agent, handoff |-> handoff]

OpensTerminal(l) ==
  /\ Answered(l, "terminal")
  /\ OpensWith(l, "terminal", {s \in at[l].sees : s.kind = "terminal"}, Session("terminal", Plain, FALSE), "agent")
  /\ UNCHANGED <<lock, host, preferred, robbed, together>>

AgentOf(l) == IF at[l].wish.agent = Plain THEN at[l].prefers ELSE at[l].wish.agent

\* A conversation that is handed over is another one, for every launcher.
RunningAgent(l) ==
  IF at[l].wish.handoff THEN {}
  ELSE {s \in at[l].sees : s.kind = "agent" /\ s.agent = AgentOf(l) /\ ~s.handoff}

\* The preference is written by a request of its own, a moment before the agent's.  What --no-agent
\* or a launch without a project leaves out of this is not modelled.
OpensAgent(l) ==
  /\ Answered(l, "agent")
  /\ preferred' = IF at[l].wish.agent = Plain THEN preferred ELSE at[l].wish.agent
  /\ OpensWith(l, "agent", RunningAgent(l), Session("agent", AgentOf(l), at[l].wish.handoff),
               IF at[l].wish.game THEN "game" ELSE "run")
  /\ UNCHANGED <<lock, host, robbed, together>>

\* The host gives the game that runs, or starts it.
OpensGame(l) ==
  /\ Answered(l, "game")
  /\ OpensWith(l, "game", {s \in sessions : s.kind = "game"}, Session("game", Plain, FALSE), "run")
  /\ UNCHANGED <<lock, host, preferred, robbed, together>>

\* Any request is refused, or its host is no longer there.
Refused(l) ==
  /\ at[l].pc \in Deciding \cup {"look"} /\ Gone(l)
  /\ UNCHANGED <<lock, builtVars, robbed>>

-----------------------------------------------------------------------------
\* run_desktop(), and bootstrap in the desktop it runs.

\* The desktop that asked for it ends when the supervisor shows a window, and its launcher with it.
\* Refused, without a supervisor, or with no answer in its time, it opens a window of its own.
Runs(l) ==
  /\ at[l].pc = "run" /\ (Gone(l) \/ Goes(l, "desktop"))
  /\ UNCHANGED <<lock, builtVars, robbed>>

\* The desktop ends, with the launcher, or detaches and is built and run again.
Ends(l) ==
  /\ at[l].pc = "desktop"
  /\ \/ Gone(l) /\ count' = count
     \/ /\ count.reloads < MaxReloads /\ count' = [count EXCEPT !.reloads = @ + 1]
        /\ at' = [at EXCEPT ![l].pc = "lock", ![l].again = TRUE]
  /\ UNCHANGED <<lock, host, sessions, preferred, robbed, together>>

LaunchNext ==
  \/ \E l \in Launcher :
       \/ Starts(l) \/ TakesLock(l) \/ NamesItself(l) \/ Judges(l) \/ Reclaims(l) \/ Builds(l) \/ Killed(l)
       \/ Ensures(l) \/ Watches(l) \/ LooksAtHost(l) \/ OpensTerminal(l) \/ OpensAgent(l) \/ OpensGame(l)
       \/ Refused(l) \/ Runs(l) \/ Ends(l)
  \/ HostEnds \/ SessionEnds

-----------------------------------------------------------------------------
LaunchTypeOK ==
  /\ lock.by \in Launcher \cup {Nobody} /\ lock.names \in Launcher \cup {Nobody}
  /\ \A s \in sessions : s.id \in 1 .. count.ids

\* Two launchers do not build over each other, unless a lock was taken from its owner (build).
BuildsAlone ==
  ~robbed => \A l, o \in Launcher : at[l].pc = "build" /\ at[o].pc = "build" => l = o

\* A launcher on a workspace that is open reattaches: of terminals, and of each agent that was not
\* handed a conversation, one runs, unless two launchers decided together (open_workspace).
Own(kind, agent) == {s \in sessions : s.kind = kind /\ s.agent = agent /\ ~s.handoff}
SecondReattaches == ~together => \A s \in sessions : ~s.handoff => Own(s.kind, s.agent) = {s}

\* The two together: launchers do not get in each other's way.
LaunchersShare == BuildsAlone /\ SecondReattaches

LaunchSpec == LaunchInit /\ [][LaunchNext]_launchVars
=============================================================================
