---------------------------- MODULE OpeningProofs ----------------------------
(***************************************************************************)
(* Proofs about the parts of MCOpening, for every number of launchers,     *)
(* requests, relays, panes, conversations and agents.  Each part has an    *)
(* inductive invariant of its own; a step of another part leaves it alone. *)
(***************************************************************************)
EXTENDS MCOpening, Integers, FiniteSetTheorems, TLAPS

-----------------------------------------------------------------------------
\* WorkspaceLaunch: who builds holds the lock, and who decides has seen what runs.

Agents   == {Plain, "named"}
Sessions == [id : Nat, kind : {"terminal", "agent", "game"}, agent : Agents, handoff : BOOLEAN]
Shown    == Nat \cup {Nobody}
Places   == {"idle", "lock", "name", "judge", "reclaim", "build", "ensure", "watch", "look",
             "terminal", "agent", "game", "run", "desktop", "gone"}
Runners  ==
  [pc : Places, wish : MCWish, host : Nat, sees : SUBSET Sessions, prefers : Agents,
   opened : [terminal : Shown, agent : Shown, game : Shown], again : BOOLEAN]
Counts   == [ends : Nat, reloads : Nat, kills : Nat, ids : Nat]

LaunchTyped ==
  /\ at \in [Launcher -> Runners] /\ host \in Nat /\ sessions \subseteq Sessions /\ preferred \in Agents
  /\ count \in Counts
  /\ lock \in [by : Launcher \cup {Nobody}, names : Launcher \cup {Nobody}]

\* Who builds, or is about to, has the lock, and the name in it is its owner's.
BuilderLocks ==
  /\ lock.names # Nobody => lock.names = lock.by
  /\ ~robbed => \A l \in Launcher : at[l].pc \in {"name", "build"} => lock.by = l

\* One launcher decides, and what it has not opened yet and has not seen does not run.
DeciderSees ==
  ~together =>
    /\ \A l, o \in Launcher : at[l].pc \in Launch!Deciding /\ at[o].pc \in Launch!Deciding => l = o
    /\ \A l \in Launcher : \A s \in sessions :
         /\ at[l].pc = "terminal" => s \in at[l].sees
         /\ at[l].pc = "agent" /\ s.kind = "agent" => s \in at[l].sees

OneOfEach == ~together => \A s \in sessions : ~s.handoff => Launch!Own(s.kind, s.agent) = {s}

LaunchInv == LaunchTyped /\ BuilderLocks /\ DeciderSees /\ OneOfEach

LEMMA WishTyped == Launch!Idle \in Runners /\ [Launch!Idle EXCEPT !.pc = "gone"] \in Runners
<1>. DEFINE w == CHOOSE x \in MCWish : TRUE
<1>1. w \in MCWish
  BY DEF MCWish
<1>. HIDE DEF w
<1>2. Launch!Idle = [pc |-> "idle", wish |-> w, host |-> 0, sees |-> {}, prefers |-> Plain,
                     opened |-> Launch!Opened, again |-> FALSE]
  BY DEF Launch!Idle, w
<1>3. Launch!Opened \in [terminal : Shown, agent : Shown, game : Shown]
  BY DEF Launch!Opened, Shown
<1>4. Launch!Idle \in Runners
  BY <1>1, <1>2, <1>3 DEF Runners, Places, Agents
<1>. QED
  BY <1>4 DEF Runners, Places

LEMMA LaunchStarts ==
  ASSUME Launch!LaunchInit, host \in {0, 1}
  PROVE  LaunchInv
<1>1. LaunchTyped
  BY WishTyped DEF Launch!LaunchInit, LaunchTyped, Launch!NoLock, Agents, Counts
<1>2. \A l \in Launcher : at[l].pc = "idle"
  BY DEF Launch!LaunchInit, Launch!Idle
<1>3. lock.names = Nobody /\ sessions = {}
  BY DEF Launch!LaunchInit, Launch!NoLock
<1>. QED
  BY <1>1, <1>2, <1>3 DEF LaunchInv, BuilderLocks, DeciderSees, OneOfEach, Launch!Deciding

\* A launcher goes on, or is gone: the others are where they were.
LEMMA GoesOn ==
  ASSUME LaunchTyped, NEW l \in Launcher, NEW pc \in Places, Launch!Goes(l, pc)
  PROVE  /\ at' \in [Launcher -> Runners] /\ at'[l].pc = pc /\ at'[l].sees = at[l].sees
         /\ \A o \in Launcher \ {l} : at'[o] = at[o]
BY DEF Launch!Goes, LaunchTyped, Runners

LEMMA IsGone ==
  ASSUME LaunchTyped, NEW l \in Launcher, Launch!Gone(l)
  PROVE  /\ at' \in [Launcher -> Runners] /\ at'[l].pc = "gone"
         /\ \A o \in Launcher \ {l} : at'[o] = at[o]
<1>1. [Launch!Idle EXCEPT !.pc = "gone"].pc = "gone"
  BY DEF Launch!Idle
<1>. QED
  BY <1>1, WishTyped DEF Launch!Gone, LaunchTyped

\* Nobody comes to decide or to build, and no session starts.
LEMMA NobodyDecides ==
  ASSUME LaunchInv, sessions' \subseteq sessions, together' = together,
         \A o \in Launcher : at'[o].pc \in Launch!Deciding => at'[o] = at[o]
  PROVE  DeciderSees' /\ OneOfEach'
<1>1. DeciderSees'
  BY DEF LaunchInv, DeciderSees, Launch!Deciding
<1>2. ASSUME NEW s \in sessions', ~s.handoff, ~together
      PROVE  Launch!Own(s.kind, s.agent)' = {s}
  <2>1. Launch!Own(s.kind, s.agent) = {s}
    BY <1>2 DEF LaunchInv, OneOfEach
  <2>2. s \in Launch!Own(s.kind, s.agent)' /\ Launch!Own(s.kind, s.agent)' \subseteq Launch!Own(s.kind, s.agent)
    BY <1>2 DEF Launch!Own
  <2>. QED
    BY <2>1, <2>2
<1>. QED
  BY <1>1, <1>2 DEF OneOfEach

LEMMA NobodyBuilds ==
  ASSUME LaunchInv, lock' = lock, robbed' = robbed,
         \A o \in Launcher : at'[o].pc \in {"name", "build"} => at[o].pc \in {"name", "build"}
  PROVE  BuilderLocks'
BY DEF LaunchInv, BuilderLocks

LEMMA StartsStep ==
  ASSUME LaunchInv, NEW l \in Launcher, Launch!Starts(l)
  PROVE  LaunchInv'
<1>1. PICK w \in MCWish : at' = [at EXCEPT ![l].wish = w, ![l].pc = IF w.headless THEN "ensure" ELSE "lock"]
  BY DEF Launch!Starts
<1>. DEFINE to == [at[l] EXCEPT !.wish = w, !.pc = IF w.headless THEN "ensure" ELSE "lock"]
<1>7. at \in [Launcher -> Runners] /\ at[l] \in Runners
  BY DEF LaunchInv, LaunchTyped
<1>8. at' = [at EXCEPT ![l] = to]
  BY <1>1, <1>7
<1>9. to \in Runners /\ to.pc \in {"ensure", "lock"}
  BY <1>7 DEF Runners, Places
<1>. HIDE DEF to
<1>2. /\ at' \in [Launcher -> Runners] /\ at'[l].pc \in {"ensure", "lock"}
      /\ \A o \in Launcher \ {l} : at'[o] = at[o]
  BY <1>7, <1>8, <1>9
<1>3. UNCHANGED <<lock, host, sessions, preferred, count, robbed, together>>
  BY DEF Launch!Starts
<1>4. LaunchTyped'
  BY <1>2, <1>3 DEF LaunchInv, LaunchTyped
<1>5. DeciderSees' /\ OneOfEach'
  BY <1>2, <1>3, NobodyDecides DEF Launch!Deciding
<1>6. BuilderLocks'
  BY <1>2, <1>3, NobodyBuilds
<1>. QED
  BY <1>4, <1>5, <1>6 DEF LaunchInv

\* The steps after which a launcher neither decides nor builds, and which leave all else alone.
LEMMA RestingStep ==
  ASSUME LaunchInv, NEW l \in Launcher,
         Launch!Judges(l) \/ Launch!Watches(l) \/ Launch!Refused(l) \/ Launch!Runs(l)
  PROVE  LaunchInv'
<1>. USE DEF Places
<1>0. LaunchTyped
  BY DEF LaunchInv
<1>1. \/ Launch!Gone(l) \/ Launch!Goes(l, "reclaim") \/ Launch!Goes(l, "lock") \/ Launch!Goes(l, "desktop")
  BY DEF Launch!Judges, Launch!Watches, Launch!Refused, Launch!Runs
<1>2. /\ at' \in [Launcher -> Runners] /\ at'[l].pc \in {"gone", "reclaim", "lock", "desktop"}
      /\ \A o \in Launcher \ {l} : at'[o] = at[o]
  BY <1>0, <1>1, IsGone, GoesOn
<1>3. UNCHANGED <<lock, host, sessions, preferred, count, robbed, together>>
  BY DEF Launch!Judges, Launch!Watches, Launch!Refused, Launch!Runs, Launch!builtVars
<1>4. LaunchTyped'
  BY <1>0, <1>2, <1>3 DEF LaunchTyped
<1>5. DeciderSees' /\ OneOfEach'
  BY <1>2, <1>3, NobodyDecides DEF Launch!Deciding
<1>6. BuilderLocks'
  BY <1>2, <1>3, NobodyBuilds
<1>. QED
  BY <1>4, <1>5, <1>6 DEF LaunchInv

LEMMA TakesLockStep ==
  ASSUME LaunchInv, NEW l \in Launcher, Launch!TakesLock(l)
  PROVE  LaunchInv'
<1>. USE DEF Places
<1>0. LaunchTyped
  BY DEF LaunchInv
<1>1. /\ at' \in [Launcher -> Runners] /\ at'[l].pc \in {"name", "judge"}
      /\ \A o \in Launcher \ {l} : at'[o] = at[o]
  BY <1>0, GoesOn DEF Launch!TakesLock
<1>2. UNCHANGED <<host, sessions, preferred, count, robbed, together>>
  BY DEF Launch!TakesLock, Launch!builtVars
<1>3. DeciderSees' /\ OneOfEach'
  BY <1>1, <1>2, NobodyDecides DEF Launch!Deciding
<1>4. CASE lock = Launch!NoLock
  <2>1. lock' = [by |-> l, names |-> Nobody] /\ lock.by = Nobody
    BY <1>4 DEF Launch!TakesLock, Launch!NoLock
  <2>2. LaunchTyped'
    BY <1>0, <1>1, <1>2, <2>1 DEF LaunchTyped
  <2>3. ~robbed => \A o \in Launcher : at[o].pc \notin {"name", "build"}
    BY <2>1, OpeningConstants DEF LaunchInv, BuilderLocks
  <2>4. BuilderLocks'
    BY <1>1, <1>2, <2>1, <2>3 DEF BuilderLocks
  <2>. QED
    BY <1>3, <2>2, <2>4 DEF LaunchInv
<1>5. CASE lock # Launch!NoLock
  <2>1. lock' = lock /\ Launch!Goes(l, "judge")
    BY <1>5 DEF Launch!TakesLock
  <2>2. at'[l].pc = "judge"
    BY <1>0, <2>1, GoesOn
  <2>3. LaunchTyped' /\ BuilderLocks'
    BY <1>0, <1>1, <1>2, <2>1, <2>2, NobodyBuilds DEF LaunchTyped
  <2>. QED
    BY <1>3, <2>3 DEF LaunchInv
<1>. QED
  BY <1>4, <1>5

LEMMA NamesItselfStep ==
  ASSUME LaunchInv, NEW l \in Launcher, Launch!NamesItself(l)
  PROVE  LaunchInv'
<1>. USE DEF Places
<1>0. LaunchTyped
  BY DEF LaunchInv
<1>1. /\ at' \in [Launcher -> Runners] /\ at'[l].pc = "build" /\ at[l].pc = "name"
      /\ \A o \in Launcher \ {l} : at'[o] = at[o]
  BY <1>0, GoesOn DEF Launch!NamesItself
<1>2. UNCHANGED <<host, sessions, preferred, count, robbed, together>>
  BY DEF Launch!NamesItself, Launch!builtVars
<1>3. DeciderSees' /\ OneOfEach'
  BY <1>1, <1>2, NobodyDecides DEF Launch!Deciding
<1>4. /\ lock' \in [by : Launcher \cup {Nobody}, names : Launcher \cup {Nobody}]
      /\ lock'.by = lock.by /\ (lock'.names # Nobody => lock'.names = lock'.by)
  BY DEF Launch!NamesItself, LaunchInv, LaunchTyped, BuilderLocks
<1>5. LaunchTyped'
  BY <1>0, <1>1, <1>2, <1>4 DEF LaunchTyped
<1>6. BuilderLocks'
  BY <1>1, <1>2, <1>4 DEF LaunchInv, BuilderLocks
<1>. QED
  BY <1>3, <1>5, <1>6 DEF LaunchInv

\* A lock that is removed is nobody's, or its owner's or a dead owner's, or was taken.
LEMMA RemovesLock ==
  ASSUME LaunchInv, NEW l \in Launcher, Launch!Removes(l),
         at'[l].pc \notin {"name", "build"}, \A o \in Launcher \ {l} : at'[o] = at[o]
  PROVE  BuilderLocks' /\ lock' \in [by : Launcher \cup {Nobody}, names : Launcher \cup {Nobody}]
<1>1. lock' = [by |-> Nobody, names |-> Nobody]
  BY DEF Launch!Removes, Launch!NoLock
<1>2. ~robbed' => ~robbed /\ (lock.by = Nobody \/ lock.by = l \/ Launch!Ownerless)
  <2>1. ~robbed' => ~robbed /\ (lock = Launch!NoLock \/ lock.by = l \/ Launch!Ownerless)
    BY Zenon DEF Launch!Removes
  <2>. QED
    BY <2>1 DEF Launch!NoLock
<1>3. Launch!Ownerless => at[lock.by].pc = "gone"
  BY DEF Launch!Ownerless, LaunchInv, BuilderLocks
<1>4. ASSUME ~robbed', NEW o \in Launcher PROVE at'[o].pc \notin {"name", "build"}
  BY <1>2, <1>3, <1>4, OpeningConstants DEF LaunchInv, BuilderLocks
<1>. QED
  BY <1>1, <1>4 DEF BuilderLocks

LEMMA RemovingStep ==
  ASSUME LaunchInv, NEW l \in Launcher, Launch!Reclaims(l) \/ Launch!Builds(l)
  PROVE  LaunchInv'
<1>. USE DEF Places
<1>0. LaunchTyped
  BY DEF LaunchInv
<1>1. \/ Launch!Gone(l) \/ Launch!Goes(l, "lock") \/ Launch!Goes(l, "run") \/ Launch!Goes(l, "ensure")
  BY DEF Launch!Reclaims, Launch!Builds
<1>2. /\ at' \in [Launcher -> Runners] /\ at'[l].pc \in {"gone", "lock", "run", "ensure"}
      /\ \A o \in Launcher \ {l} : at'[o] = at[o]
  BY <1>0, <1>1, IsGone, GoesOn
<1>3. UNCHANGED <<host, sessions, preferred, count, together>>
  BY DEF Launch!Reclaims, Launch!Builds, Launch!builtVars
<1>4. BuilderLocks' /\ lock' \in [by : Launcher \cup {Nobody}, names : Launcher \cup {Nobody}]
  BY <1>2, RemovesLock DEF Launch!Reclaims, Launch!Builds
<1>5. LaunchTyped'
  BY <1>0, <1>2, <1>3, <1>4 DEF LaunchTyped
<1>6. DeciderSees' /\ OneOfEach'
  BY <1>2, <1>3, NobodyDecides DEF Launch!Deciding
<1>. QED
  BY <1>4, <1>5, <1>6 DEF LaunchInv

LEMMA KilledStep ==
  ASSUME LaunchInv, NEW l \in Launcher, Launch!Killed(l)
  PROVE  LaunchInv'
<1>0. LaunchTyped
  BY DEF LaunchInv
<1>1. /\ at' \in [Launcher -> Runners] /\ at'[l].pc = "gone" /\ \A o \in Launcher \ {l} : at'[o] = at[o]
  BY <1>0, IsGone DEF Launch!Killed
<1>2. UNCHANGED <<lock, host, sessions, preferred, robbed, together>> /\ count' \in Counts
  BY <1>0 DEF Launch!Killed, LaunchTyped, Counts
<1>3. LaunchTyped'
  BY <1>0, <1>1, <1>2 DEF LaunchTyped
<1>4. DeciderSees' /\ OneOfEach'
  BY <1>1, <1>2, NobodyDecides DEF Launch!Deciding
<1>5. BuilderLocks'
  BY <1>1, <1>2, NobodyBuilds
<1>. QED
  BY <1>3, <1>4, <1>5 DEF LaunchInv

LEMMA EnsuresStep ==
  ASSUME LaunchInv, NEW l \in Launcher, Launch!Ensures(l)
  PROVE  LaunchInv'
<1>0. LaunchTyped
  BY DEF LaunchInv
<1>1. host' \in Nat /\ count' \in Counts /\ sessions' \subseteq sessions
  BY <1>0 DEF Launch!Ensures, LaunchTyped, Counts
<1>2. PICK h \in Nat : h = host'
  BY <1>1
<1>. DEFINE to == [at[l] EXCEPT !.host = h, !.pc = IF at[l].wish.headless THEN "watch" ELSE "look"]
<1>3. at \in [Launcher -> Runners] /\ at[l] \in Runners
  BY <1>0 DEF LaunchTyped
<1>4. at' = [at EXCEPT ![l] = to]
  BY <1>2, <1>3 DEF Launch!Ensures
<1>5. to \in Runners /\ to.pc \in {"watch", "look"}
  BY <1>3 DEF Runners, Places
<1>. HIDE DEF to
<1>6. /\ at' \in [Launcher -> Runners] /\ at'[l].pc \in {"watch", "look"}
      /\ \A o \in Launcher \ {l} : at'[o] = at[o]
  BY <1>3, <1>4, <1>5
<1>7. UNCHANGED <<lock, preferred, robbed, together>>
  BY DEF Launch!Ensures
<1>8. LaunchTyped'
  BY <1>0, <1>1, <1>6, <1>7 DEF LaunchTyped
<1>9. DeciderSees' /\ OneOfEach'
  BY <1>1, <1>6, <1>7, NobodyDecides DEF Launch!Deciding
<1>10. BuilderLocks'
  BY <1>6, <1>7, NobodyBuilds
<1>. QED
  BY <1>8, <1>9, <1>10 DEF LaunchInv

LEMMA WorldStep ==
  ASSUME LaunchInv, Launch!HostEnds \/ Launch!SessionEnds
  PROVE  LaunchInv'
<1>1. /\ UNCHANGED <<at, lock, preferred, robbed, together>>
      /\ host' \in Nat /\ count' \in Counts /\ sessions' \subseteq sessions
  BY DEF Launch!HostEnds, Launch!SessionEnds, LaunchInv, LaunchTyped, Counts
<1>2. LaunchTyped'
  BY <1>1 DEF LaunchInv, LaunchTyped
<1>3. DeciderSees' /\ OneOfEach'
  BY <1>1, NobodyDecides
<1>4. BuilderLocks'
  BY <1>1, NobodyBuilds
<1>. QED
  BY <1>2, <1>3, <1>4 DEF LaunchInv

LEMMA EndsStep ==
  ASSUME LaunchInv, NEW l \in Launcher, Launch!Ends(l)
  PROVE  LaunchInv'
<1>0. LaunchTyped
  BY DEF LaunchInv
<1>1. \/ Launch!Gone(l) /\ count' = count
      \/ /\ count' = [count EXCEPT !.reloads = @ + 1]
         /\ at' = [at EXCEPT ![l].pc = "lock", ![l].again = TRUE]
  BY DEF Launch!Ends
<1>2. /\ at' \in [Launcher -> Runners] /\ at'[l].pc \in {"gone", "lock"}
      /\ (\A o \in Launcher \ {l} : at'[o] = at[o]) /\ count' \in Counts
  <2>1. CASE Launch!Gone(l) /\ count' = count
    BY <1>0, <2>1, IsGone DEF LaunchTyped
  <2>2. CASE count' = [count EXCEPT !.reloads = @ + 1] /\ at' = [at EXCEPT ![l].pc = "lock", ![l].again = TRUE]
    <3>. DEFINE to == [at[l] EXCEPT !.pc = "lock", !.again = TRUE]
    <3>1. at \in [Launcher -> Runners] /\ at[l] \in Runners /\ count' \in Counts
      BY <1>0, <2>2 DEF LaunchTyped, Counts
    <3>2. at' = [at EXCEPT ![l] = to]
      BY <2>2, <3>1
    <3>3. to \in Runners /\ to.pc = "lock"
      BY <3>1 DEF Runners, Places
    <3>. HIDE DEF to
    <3>. QED
      BY <3>1, <3>2, <3>3
  <2>. QED
    BY <1>1, <2>1, <2>2
<1>3. UNCHANGED <<lock, host, sessions, preferred, robbed, together>>
  BY DEF Launch!Ends
<1>4. LaunchTyped'
  BY <1>0, <1>2, <1>3 DEF LaunchTyped
<1>5. DeciderSees' /\ OneOfEach'
  BY <1>2, <1>3, NobodyDecides DEF Launch!Deciding
<1>6. BuilderLocks'
  BY <1>2, <1>3, NobodyBuilds
<1>. QED
  BY <1>4, <1>5, <1>6 DEF LaunchInv

LEMMA LooksStep ==
  ASSUME LaunchInv, NEW l \in Launcher, Launch!LooksAtHost(l)
  PROVE  LaunchInv'
<1>0. LaunchTyped
  BY DEF LaunchInv
<1>. DEFINE to == [at[l] EXCEPT !.sees = sessions, !.prefers = preferred, !.pc = "terminal"]
<1>1. at \in [Launcher -> Runners] /\ at[l] \in Runners /\ sessions \subseteq Sessions /\ preferred \in Agents
  BY <1>0 DEF LaunchTyped
<1>2. at' = [at EXCEPT ![l] = to]
  BY <1>1 DEF Launch!LooksAtHost
<1>3. to \in Runners /\ to.pc = "terminal" /\ to.sees = sessions
  BY <1>1 DEF Runners, Places
<1>. HIDE DEF to
<1>4. /\ at' \in [Launcher -> Runners] /\ at'[l].pc = "terminal" /\ at'[l].sees = sessions
      /\ \A o \in Launcher \ {l} : at'[o] = at[o]
  BY <1>1, <1>2, <1>3
<1>5. UNCHANGED <<lock, host, sessions, preferred, count, robbed>>
  BY DEF Launch!LooksAtHost
<1>6. LaunchTyped'
  BY <1>0, <1>4, <1>5 DEF LaunchTyped
<1>7. BuilderLocks'
  BY <1>4, <1>5, NobodyBuilds
<1>8. ~together' => ~together /\ \A o \in Launcher \ {l} : at[o].pc \notin Launch!Deciding
  BY Zenon DEF Launch!LooksAtHost
<1>9. OneOfEach'
  BY <1>5, <1>8 DEF LaunchInv, OneOfEach, Launch!Own
<1>10. DeciderSees'
  BY <1>4, <1>5, <1>8 DEF LaunchInv, DeciderSees, Launch!Deciding
<1>. QED
  BY <1>6, <1>7, <1>9, <1>10 DEF LaunchInv

LEMMA Wishes == ASSUME NEW w \in MCWish PROVE w.handoff \in BOOLEAN /\ w.agent \in Agents
<1>1. w.handoff = TRUE \/ w.handoff = FALSE
  BY DEF MCWish
<1>2. w.agent \in Agents
  BY DEF MCWish, Agents
<1>. QED
  BY <1>1, <1>2

LEMMA NewOfItsKind ==
  ASSUME LaunchInv, NEW n \in Sessions, sessions' = sessions \cup {n}, together' = together,
         ~together => n.handoff \/ \A s \in sessions : s.handoff \/ s.kind # n.kind \/ s.agent # n.agent
  PROVE  OneOfEach'
<1>1. ASSUME NEW s \in sessions', ~s.handoff, ~together
      PROVE  Launch!Own(s.kind, s.agent)' = {s}
  <2>1. CASE s = n
    BY <1>1, <2>1 DEF Launch!Own
  <2>2. CASE s # n
    <3>1. s \in sessions /\ (n.handoff \/ n.kind # s.kind \/ n.agent # s.agent)
      BY <1>1, <2>2
    <3>2. Launch!Own(s.kind, s.agent) = {s}
      BY <1>1, <3>1 DEF LaunchInv, OneOfEach
    <3>3. Launch!Own(s.kind, s.agent)' = Launch!Own(s.kind, s.agent)
      BY <3>1 DEF Launch!Own
    <3>. QED
      BY <3>2, <3>3
  <2>. QED
    BY <2>1, <2>2
<1>. QED
  BY <1>1 DEF OneOfEach

\* What a launcher opens with is a session it knows, or the one it starts.
LEMMA Opens ==
  ASSUME LaunchTyped, NEW known \in SUBSET Sessions, NEW new \in Sessions,
         count' = [count EXCEPT !.ids = IF known = {} THEN @ + 1 ELSE @],
         sessions' = IF known = {} THEN sessions \cup {[new EXCEPT !.id = count.ids + 1]} ELSE sessions
  PROVE  /\ count' \in Counts /\ sessions' \subseteq Sessions
         /\ (IF known = {} THEN {[new EXCEPT !.id = count.ids + 1]} ELSE known) \subseteq Sessions
         /\ \/ known # {} /\ sessions' = sessions
            \/ \E n \in Sessions : /\ known = {} /\ sessions' = sessions \cup {n}
                                   /\ n.kind = new.kind /\ n.agent = new.agent /\ n.handoff = new.handoff
<1>1. PICK i \in Nat : i = count.ids + 1
  BY DEF LaunchTyped, Counts
<1>. DEFINE n == [new EXCEPT !.id = i]
<1>2. n \in Sessions /\ n.kind = new.kind /\ n.agent = new.agent /\ n.handoff = new.handoff
  BY DEF Sessions
<1>3. [new EXCEPT !.id = count.ids + 1] = n
  BY <1>1
<1>. HIDE DEF n
<1>4. count' \in Counts
  BY DEF LaunchTyped, Counts
<1>. QED
  BY <1>2, <1>3, <1>4 DEF LaunchTyped

LEMMA OpensTerminalStep ==
  ASSUME LaunchInv, NEW l \in Launcher, Launch!OpensTerminal(l)
  PROVE  LaunchInv'
<1>0. LaunchTyped
  BY DEF LaunchInv
<1>. DEFINE known == {s \in at[l].sees : s.kind = "terminal"}
            new   == Launch!Session("terminal", Plain, FALSE)
<1>1. at \in [Launcher -> Runners] /\ at[l] \in Runners /\ at[l].pc = "terminal"
  BY <1>0 DEF LaunchTyped, Launch!OpensTerminal, Launch!Answered
<1>2. known \in SUBSET Sessions
  BY <1>1 DEF Runners
<1>3. new \in Sessions /\ new.kind = "terminal"
  BY DEF Launch!Session, Sessions, Agents
<1>4. /\ count' = [count EXCEPT !.ids = IF known = {} THEN @ + 1 ELSE @]
      /\ sessions' = IF known = {} THEN sessions \cup {[new EXCEPT !.id = count.ids + 1]} ELSE sessions
      /\ \E s \in (IF known = {} THEN {[new EXCEPT !.id = count.ids + 1]} ELSE known) :
           at' = [at EXCEPT ![l].opened["terminal"] = s.id, ![l].pc = "agent"]
  BY DEF Launch!OpensTerminal, Launch!OpensWith
<1>. HIDE DEF known, new
<1>5. /\ count' \in Counts /\ sessions' \subseteq Sessions
      /\ \/ known # {} /\ sessions' = sessions
         \/ \E n \in Sessions : known = {} /\ sessions' = sessions \cup {n} /\ n.kind = "terminal"
      /\ \E i \in Nat : at' = [at EXCEPT ![l].opened["terminal"] = i, ![l].pc = "agent"]
  <2>1. /\ count' \in Counts /\ sessions' \subseteq Sessions
        /\ (IF known = {} THEN {[new EXCEPT !.id = count.ids + 1]} ELSE known) \subseteq Sessions
        /\ \/ known # {} /\ sessions' = sessions
           \/ \E n \in Sessions : /\ known = {} /\ sessions' = sessions \cup {n}
                                  /\ n.kind = new.kind /\ n.agent = new.agent /\ n.handoff = new.handoff
    BY <1>0, <1>2, <1>3, <1>4, Opens
  <2>2. \A s \in Sessions : s.id \in Nat
    BY DEF Sessions
  <2>3. \E i \in Nat : at' = [at EXCEPT ![l].opened["terminal"] = i, ![l].pc = "agent"]
    BY <1>4, <2>1, <2>2
  <2>. QED
    BY <1>3, <2>1, <2>3
<1>6. /\ at' \in [Launcher -> Runners] /\ at'[l].pc = "agent" /\ at'[l].sees = at[l].sees
      /\ \A o \in Launcher \ {l} : at'[o] = at[o]
  <2>1. PICK i \in Nat : at' = [at EXCEPT ![l].opened["terminal"] = i, ![l].pc = "agent"]
    BY <1>5
  <2>. DEFINE to == [at[l] EXCEPT !.opened["terminal"] = i, !.pc = "agent"]
  <2>2. at' = [at EXCEPT ![l] = to]
    BY <1>1, <2>1
  <2>3. to \in Runners /\ to.pc = "agent" /\ to.sees = at[l].sees
    BY <1>1 DEF Runners, Places, Shown
  <2>. HIDE DEF to
  <2>. QED
    BY <1>1, <2>2, <2>3
<1>7. UNCHANGED <<lock, host, preferred, robbed, together>>
  BY DEF Launch!OpensTerminal
<1>8. LaunchTyped'
  BY <1>0, <1>5, <1>6, <1>7 DEF LaunchTyped
<1>9. BuilderLocks'
  BY <1>6, <1>7, NobodyBuilds
<1>10. ~together => /\ \A s \in sessions : s \in at[l].sees
                    /\ \A o \in Launcher \ {l} : at[o].pc \notin Launch!Deciding
  BY <1>1 DEF LaunchInv, DeciderSees, Launch!Deciding
<1>11. OneOfEach'
  <2>1. CASE sessions' = sessions
    BY <1>7, <2>1 DEF LaunchInv, OneOfEach, Launch!Own
  <2>2. CASE \E n \in Sessions : known = {} /\ sessions' = sessions \cup {n} /\ n.kind = "terminal"
    <3>1. PICK n \in Sessions : known = {} /\ sessions' = sessions \cup {n} /\ n.kind = "terminal"
      BY <2>2
    <3>2. ~together => \A s \in sessions : s.kind # n.kind
      BY <1>10, <3>1 DEF known
    <3>. QED
      BY <1>7, <3>1, <3>2, NewOfItsKind
  <2>. QED
    BY <1>5, <2>1, <2>2
<1>12. DeciderSees'
  <2>1. \A s \in sessions' : s.kind = "agent" => s \in sessions
    BY <1>5
  <2>. QED
    BY <1>6, <1>7, <1>10, <2>1 DEF DeciderSees, Launch!Deciding
<1>. QED
  BY <1>8, <1>9, <1>11, <1>12 DEF LaunchInv

LEMMA OpensAgentStep ==
  ASSUME LaunchInv, NEW l \in Launcher, Launch!OpensAgent(l)
  PROVE  LaunchInv'
<1>0. LaunchTyped
  BY DEF LaunchInv
<1>. DEFINE known == Launch!RunningAgent(l)
            new   == Launch!Session("agent", Launch!AgentOf(l), at[l].wish.handoff)
            onward  == IF at[l].wish.game THEN "game" ELSE "run"
<1>1. at \in [Launcher -> Runners] /\ at[l] \in Runners /\ at[l].pc = "agent"
  BY <1>0 DEF LaunchTyped, Launch!OpensAgent, Launch!Answered
<1>2. known \in SUBSET Sessions
  BY <1>1 DEF Runners, Launch!RunningAgent
<1>3. new \in Sessions /\ new.kind = "agent" /\ new.agent = Launch!AgentOf(l) /\ new.handoff = at[l].wish.handoff
  <2>1. at[l].wish \in MCWish /\ at[l].prefers \in Agents
    BY <1>1 DEF Runners
  <2>2. at[l].wish.handoff \in BOOLEAN /\ at[l].wish.agent \in Agents
    BY <2>1, Wishes
  <2>3. Launch!AgentOf(l) \in Agents
    BY <2>1, <2>2 DEF Launch!AgentOf
  <2>. QED
    BY <2>2, <2>3 DEF Launch!Session, Sessions
<1>4. /\ count' = [count EXCEPT !.ids = IF known = {} THEN @ + 1 ELSE @]
      /\ sessions' = IF known = {} THEN sessions \cup {[new EXCEPT !.id = count.ids + 1]} ELSE sessions
      /\ \E s \in (IF known = {} THEN {[new EXCEPT !.id = count.ids + 1]} ELSE known) :
           at' = [at EXCEPT ![l].opened["agent"] = s.id, ![l].pc = onward]
  BY DEF Launch!OpensAgent, Launch!OpensWith
<1>13. onward \in {"game", "run"}
  OBVIOUS
<1>. HIDE DEF known, new, onward
<1>5. /\ count' \in Counts /\ sessions' \subseteq Sessions
      /\ \/ known # {} /\ sessions' = sessions
         \/ \E n \in Sessions : known = {} /\ sessions' = sessions \cup {n} /\ n.kind = "agent" /\ n.agent = Launch!AgentOf(l) /\ n.handoff = at[l].wish.handoff
      /\ \E i \in Nat : at' = [at EXCEPT ![l].opened["agent"] = i, ![l].pc = onward]
  <2>1. /\ count' \in Counts /\ sessions' \subseteq Sessions
        /\ (IF known = {} THEN {[new EXCEPT !.id = count.ids + 1]} ELSE known) \subseteq Sessions
        /\ \/ known # {} /\ sessions' = sessions
           \/ \E n \in Sessions : /\ known = {} /\ sessions' = sessions \cup {n}
                                  /\ n.kind = new.kind /\ n.agent = new.agent /\ n.handoff = new.handoff
    BY <1>0, <1>2, <1>3, <1>4, Opens
  <2>2. \A s \in Sessions : s.id \in Nat
    BY DEF Sessions
  <2>3. \E i \in Nat : at' = [at EXCEPT ![l].opened["agent"] = i, ![l].pc = onward]
    BY <1>4, <2>1, <2>2
  <2>. QED
    BY <1>3, <2>1, <2>3
<1>6. /\ at' \in [Launcher -> Runners] /\ at'[l].pc = onward /\ at'[l].sees = at[l].sees
      /\ \A o \in Launcher \ {l} : at'[o] = at[o]
  <2>1. PICK i \in Nat : at' = [at EXCEPT ![l].opened["agent"] = i, ![l].pc = onward]
    BY <1>5
  <2>. DEFINE to == [at[l] EXCEPT !.opened["agent"] = i, !.pc = onward]
  <2>2. at' = [at EXCEPT ![l] = to]
    BY <1>1, <2>1
  <2>3. to \in Runners /\ to.pc = onward /\ to.sees = at[l].sees
    BY <1>13, <1>1 DEF Runners, Places, Shown
  <2>. HIDE DEF to
  <2>. QED
    BY <1>1, <2>2, <2>3
<1>7. UNCHANGED <<lock, host, robbed, together>> /\ preferred' \in Agents
  <2>1. at[l].wish \in MCWish /\ preferred \in Agents
    BY <1>0, <1>1 DEF Runners, LaunchTyped
  <2>2. at[l].wish.agent \in Agents
    BY <2>1 DEF MCWish, Agents
  <2>. QED
    BY <2>1, <2>2 DEF Launch!OpensAgent
<1>8. LaunchTyped'
  BY <1>0, <1>5, <1>6, <1>7 DEF LaunchTyped
<1>9. BuilderLocks'
  BY <1>13, <1>6, <1>7, NobodyBuilds
<1>10. ~together => /\ \A s \in sessions : s.kind = "agent" => s \in at[l].sees
                    /\ \A o \in Launcher \ {l} : at[o].pc \notin Launch!Deciding
  BY <1>1 DEF LaunchInv, DeciderSees, Launch!Deciding
<1>11. OneOfEach'
  <2>1. CASE sessions' = sessions
    BY <1>7, <2>1 DEF LaunchInv, OneOfEach, Launch!Own
  <2>2. CASE \E n \in Sessions : known = {} /\ sessions' = sessions \cup {n} /\ n.kind = "agent" /\ n.agent = Launch!AgentOf(l) /\ n.handoff = at[l].wish.handoff
    <3>1. PICK n \in Sessions : known = {} /\ sessions' = sessions \cup {n} /\ n.kind = "agent" /\ n.agent = Launch!AgentOf(l) /\ n.handoff = at[l].wish.handoff
      BY <2>2
    <3>2. ~together => n.handoff \/ \A s \in sessions : s.handoff \/ s.kind # n.kind \/ s.agent # n.agent
      BY <1>10, <3>1 DEF known, Launch!RunningAgent
    <3>. QED
      BY <1>7, <3>1, <3>2, NewOfItsKind
  <2>. QED
    BY <1>5, <2>1, <2>2
<1>12. DeciderSees'
  BY <1>13, <1>6, <1>7, <1>10 DEF DeciderSees, Launch!Deciding
<1>. QED
  BY <1>8, <1>9, <1>11, <1>12 DEF LaunchInv

LEMMA OpensGameStep ==
  ASSUME LaunchInv, NEW l \in Launcher, Launch!OpensGame(l)
  PROVE  LaunchInv'
<1>0. LaunchTyped
  BY DEF LaunchInv
<1>. DEFINE known == {s \in sessions : s.kind = "game"}
            new   == Launch!Session("game", Plain, FALSE)
<1>1. at \in [Launcher -> Runners] /\ at[l] \in Runners /\ at[l].pc = "game"
  BY <1>0 DEF LaunchTyped, Launch!OpensGame, Launch!Answered
<1>2. known \in SUBSET Sessions
  BY <1>0 DEF LaunchTyped
<1>3. new \in Sessions /\ new.kind = "game"
  BY DEF Launch!Session, Sessions, Agents
<1>4. /\ count' = [count EXCEPT !.ids = IF known = {} THEN @ + 1 ELSE @]
      /\ sessions' = IF known = {} THEN sessions \cup {[new EXCEPT !.id = count.ids + 1]} ELSE sessions
      /\ \E s \in (IF known = {} THEN {[new EXCEPT !.id = count.ids + 1]} ELSE known) :
           at' = [at EXCEPT ![l].opened["game"] = s.id, ![l].pc = "run"]
  BY DEF Launch!OpensGame, Launch!OpensWith
<1>. HIDE DEF known, new
<1>5. /\ count' \in Counts /\ sessions' \subseteq Sessions
      /\ \/ known # {} /\ sessions' = sessions
         \/ \E n \in Sessions : known = {} /\ sessions' = sessions \cup {n} /\ n.kind = "game"
      /\ \E i \in Nat : at' = [at EXCEPT ![l].opened["game"] = i, ![l].pc = "run"]
  <2>1. /\ count' \in Counts /\ sessions' \subseteq Sessions
        /\ (IF known = {} THEN {[new EXCEPT !.id = count.ids + 1]} ELSE known) \subseteq Sessions
        /\ \/ known # {} /\ sessions' = sessions
           \/ \E n \in Sessions : /\ known = {} /\ sessions' = sessions \cup {n}
                                  /\ n.kind = new.kind /\ n.agent = new.agent /\ n.handoff = new.handoff
    BY <1>0, <1>2, <1>3, <1>4, Opens
  <2>2. \A s \in Sessions : s.id \in Nat
    BY DEF Sessions
  <2>3. \E i \in Nat : at' = [at EXCEPT ![l].opened["game"] = i, ![l].pc = "run"]
    BY <1>4, <2>1, <2>2
  <2>. QED
    BY <1>3, <2>1, <2>3
<1>6. /\ at' \in [Launcher -> Runners] /\ at'[l].pc = "run" /\ at'[l].sees = at[l].sees
      /\ \A o \in Launcher \ {l} : at'[o] = at[o]
  <2>1. PICK i \in Nat : at' = [at EXCEPT ![l].opened["game"] = i, ![l].pc = "run"]
    BY <1>5
  <2>. DEFINE to == [at[l] EXCEPT !.opened["game"] = i, !.pc = "run"]
  <2>2. at' = [at EXCEPT ![l] = to]
    BY <1>1, <2>1
  <2>3. to \in Runners /\ to.pc = "run" /\ to.sees = at[l].sees
    BY <1>1 DEF Runners, Places, Shown
  <2>. HIDE DEF to
  <2>. QED
    BY <1>1, <2>2, <2>3
<1>7. UNCHANGED <<lock, host, preferred, robbed, together>>
  BY DEF Launch!OpensGame
<1>8. LaunchTyped'
  BY <1>0, <1>5, <1>6, <1>7 DEF LaunchTyped
<1>9. BuilderLocks'
  BY <1>6, <1>7, NobodyBuilds
<1>10. ~together => \A o \in Launcher \ {l} : at[o].pc \notin Launch!Deciding
  BY <1>1 DEF LaunchInv, DeciderSees, Launch!Deciding
<1>11. OneOfEach'
  <2>1. CASE sessions' = sessions
    BY <1>7, <2>1 DEF LaunchInv, OneOfEach, Launch!Own
  <2>2. CASE \E n \in Sessions : known = {} /\ sessions' = sessions \cup {n} /\ n.kind = "game"
    <3>1. PICK n \in Sessions : known = {} /\ sessions' = sessions \cup {n} /\ n.kind = "game"
      BY <2>2
    <3>2. ~together => \A s \in sessions : s.kind # n.kind
      BY <3>1 DEF known
    <3>. QED
      BY <1>7, <3>1, <3>2, NewOfItsKind
  <2>. QED
    BY <1>5, <2>1, <2>2
<1>12. DeciderSees'
  BY <1>6, <1>7, <1>10 DEF DeciderSees, Launch!Deciding
<1>. QED
  BY <1>8, <1>9, <1>11, <1>12 DEF LaunchInv

LEMMA LaunchStep ==
  ASSUME LaunchInv, Launch!LaunchNext
  PROVE  LaunchInv'
<1>1. CASE \E l \in Launcher :
             \/ Launch!Starts(l) \/ Launch!TakesLock(l) \/ Launch!NamesItself(l) \/ Launch!Judges(l)
             \/ Launch!Reclaims(l) \/ Launch!Builds(l) \/ Launch!Killed(l) \/ Launch!Ensures(l)
             \/ Launch!Watches(l) \/ Launch!LooksAtHost(l) \/ Launch!OpensTerminal(l) \/ Launch!OpensAgent(l)
             \/ Launch!OpensGame(l) \/ Launch!Refused(l) \/ Launch!Runs(l) \/ Launch!Ends(l)
  BY <1>1, StartsStep, TakesLockStep, NamesItselfStep, RestingStep, RemovingStep, KilledStep, EnsuresStep,
     LooksStep, OpensTerminalStep, OpensAgentStep, OpensGameStep, EndsStep
<1>. QED
  BY <1>1, WorldStep DEF Launch!LaunchNext

LEMMA LaunchElsewhere ==
  ASSUME LaunchInv, UNCHANGED launch
  PROVE  LaunchInv'
BY DEF launch, LaunchInv, LaunchTyped, BuilderLocks, DeciderSees, OneOfEach, Launch!Own

\* Launchers do not build over each other unless a lock was taken from its owner, and one on a
\* workspace that is open starts no second terminal or agent unless two decided together
\* (build, open_workspace).
THEOREM LaunchersKeepApart == AnySpec => []LaunchersShare
<1>1. AnyInit => LaunchInv
  <2>1. AnyInit => Launch!LaunchInit /\ host \in {0, 1}
    BY DEF AnyInit, Launch!LaunchInit
  <2>. QED
    BY <2>1, LaunchStarts
<1>2. LaunchInv /\ [AnyNext]_<<part, vars, launch, control, talk, tools>> => LaunchInv'
  <2>1. CASE OfLaunch
    BY <2>1, LaunchStep DEF OfLaunch
  <2>2. CASE UNCHANGED launch
    BY <2>2, LaunchElsewhere
  <2>. QED
    BY <2>1, <2>2 DEF AnyNext, OfFeed, OfControl, OfTalk, OfTools
<1>3. LaunchInv => LaunchersShare
  <2>1. LaunchInv => Launch!BuildsAlone
    BY DEF LaunchInv, BuilderLocks, Launch!BuildsAlone
  <2>2. LaunchInv => Launch!SecondReattaches
    BY DEF LaunchInv, OneOfEach, Launch!SecondReattaches
  <2>. QED
    BY <2>1, <2>2 DEF LaunchersShare, Launch!LaunchersShare
<1>. QED
  BY <1>1, <1>2, <1>3, PTL DEF AnySpec

-----------------------------------------------------------------------------
\* WindowControl: who an answer belongs to, and who hears that the window is gone.

Outcomes == {"none", "answer", "silent", "exited", "tooMuch", "broken", "closed", "unfinished"}
Asker    == Request \cup {Nobody}
Asking   == [pc : {"idle", "say", "wait", "told", "exit", "over"}, id : Int, got : Outcomes, about : Asker]
Asked    == [id : Int, of : Asker]
Spoken     == [is : {"none", "answer", "note", "tooMuch", "end"}, id : Int, of : Asker]

ControlTyped ==
  /\ request \in [Request -> Asking] /\ next \in Int
  /\ input \in Seq(Asked) /\ output \in Seq(Spoken) /\ ear \in Spoken
  /\ desk \in [runs : BOOLEAN, code : {0, 1}]
  /\ relay \in [Relay -> [pc : {"off", "on", "gone"}, heard : SUBSET Int]] /\ lines \in Nat
  /\ listener \in Relay \cup {Nobody} /\ deafened \in [latest : Relay \cup {Nobody}, is : BOOLEAN]

\* No two requests have an id, and one that asks or waits has one that is pending.
IdsApart ==
  /\ next < 0
  /\ \A r \in Request : /\ request[r].pc = "idle" => request[r].id = 0
                        /\ request[r].id # 0 => next < request[r].id /\ request[r].id < 0
                        /\ request[r].pc \in {"say", "wait"} => request[r].id # 0 /\ request[r].id \in pending
  /\ \A r, s \in Request : request[r].id # 0 /\ request[r].id = request[s].id => r = s

\* A line is the other speaker's, or of the request whose id it has.
Owned(l) == l.id > 0 \/ (l.of \in Request /\ request[l.of].id = l.id /\ l.id # 0)
LinesOwned ==
  /\ \A i \in DOMAIN input : Owned(input[i])
  /\ \A i \in DOMAIN output : output[i].is = "answer" => Owned(output[i])
  /\ ear = Control!NoLine \/ (ear.is = "answer" /\ Owned(ear))

AnswersMatch == \A r \in Request : request[r].got = "answer" => request[r].about = r

\* Who waits on a window that is gone has the end of its stream before it.
EndIsComing ==
  ~desk.runs => \/ \A r \in Request : request[r].pc # "wait"
                \/ \E i \in DOMAIN output : output[i].is = "end"

\* The relay that attached last is the one that listens, unless it was deafened.
LatestListens ==
  ~deafened.is /\ desk.runs /\ Control!Attached => listener = deafened.latest

ControlInv ==
  /\ ControlTyped /\ IdsApart /\ LinesOwned /\ AnswersMatch /\ EndIsComing /\ LatestListens
  /\ Control!RelayHears

LEMMA ControlStarts ==
  ASSUME Control!ControlInit
  PROVE  ControlInv
<1>1. ControlTyped
  BY DEF Control!ControlInit, ControlTyped, Control!NoLine, Asking, Spoken, Asker, Outcomes
<1>2. \A r \in Request : request[r].pc = "idle" /\ request[r].id = 0 /\ request[r].got = "none"
  BY DEF Control!ControlInit
<1>3. /\ next = -1 /\ input = <<>> /\ output = <<>> /\ ear = Control!NoLine /\ desk.runs
      /\ deafened.latest = Nobody /\ unheard = {}
  BY DEF Control!ControlInit
<1>4. IdsApart /\ AnswersMatch
  BY <1>2, <1>3 DEF IdsApart, AnswersMatch
<1>5. LinesOwned
  BY <1>3 DEF LinesOwned
<1>6. EndIsComing /\ LatestListens /\ Control!RelayHears
  BY <1>3 DEF EndIsComing, LatestListens, Control!RelayHears, Control!Attached
<1>. QED
  BY <1>1, <1>4, <1>5, <1>6 DEF ControlInv

\* What a request comes to leaves its id, and the others, alone.
LEMMA ComesTo ==
  ASSUME ControlTyped, NEW r \in Request, NEW what \in Outcomes, NEW about \in Asker,
         Control!Comes(r, what, about)
  PROVE  /\ request' \in [Request -> Asking]
         /\ request'[r].id = request[r].id /\ request'[r].got = what /\ request'[r].about = about
         /\ request'[r].pc \in {"exit", "over"}
         /\ \A s \in Request \ {r} : request'[s] = request[s]
BY DEF Control!Comes, ControlTyped, Asking

\* Who is told has its id, and the others are as they were.
IsTold(r, ids) == request[r].pc \in {"say", "wait"} /\ request[r].id \in ids \cap pending
LEMMA SettledTo ==
  ASSUME ControlTyped, NEW ids, NEW what \in Outcomes, Control!Settled(ids, what)
  PROVE  /\ request' \in [Request -> Asking] /\ pending' = pending \ ids
         /\ \A r \in Request :
              IF IsTold(r, ids)
              THEN /\ request'[r].id = request[r].id /\ request'[r].got = what /\ request'[r].pc = "told"
                   /\ request'[r].about = IF what = "answer" THEN ear.of ELSE Nobody
              ELSE request'[r] = request[r]
<1>. DEFINE who == IF what = "answer" THEN ear.of ELSE Nobody
            to(r) == [request[r] EXCEPT !.pc = "told", !.got = what, !.about = who]
<1>1. pending' = pending \ ids /\ request' = [r \in Request |-> IF IsTold(r, ids) THEN to(r) ELSE request[r]]
  BY DEF Control!Settled, IsTold
<1>2. who \in Asker
  BY DEF ControlTyped, Spoken, Asker
<1>. HIDE DEF who
<1>3. ASSUME NEW r \in Request
      PROVE  /\ request[r] \in Asking /\ to(r) \in Asking
             /\ to(r).id = request[r].id /\ to(r).got = what /\ to(r).pc = "told" /\ to(r).about = who
  BY <1>2 DEF ControlTyped, Asking
<1>. HIDE DEF to
<1>4. request' \in [Request -> Asking]
  BY <1>1, <1>3
<1>. QED
  BY <1>1, <1>3, <1>4 DEF who

\* Lines keep their owner while no request is given another id.
LEMMA StaysOwned ==
  ASSUME NEW l, Owned(l), \A r \in Request : request[r].id # 0 => request'[r].id = request[r].id
  PROVE  l.id > 0 \/ (l.of \in Request /\ request'[l.of].id = l.id /\ l.id # 0)
BY DEF Owned

LEMMA TailsOf ==
  ASSUME NEW S, NEW s \in Seq(S), s # <<>>
  PROVE  /\ Tail(s) \in Seq(S) /\ Head(s) \in S /\ Head(s) = s[1] /\ 1 \in DOMAIN s
         /\ \A i \in DOMAIN Tail(s) : i + 1 \in DOMAIN s /\ Tail(s)[i] = s[i + 1]
         /\ \A i \in DOMAIN s : i # 1 => i - 1 \in DOMAIN Tail(s) /\ Tail(s)[i - 1] = s[i]
OBVIOUS

LEMMA AppendsTo ==
  ASSUME NEW S, NEW s \in Seq(S), NEW x \in S
  PROVE  /\ Append(s, x) \in Seq(S)
         /\ \A i \in DOMAIN Append(s, x) : Append(s, x)[i] = x \/ (i \in DOMAIN s /\ Append(s, x)[i] = s[i])
         /\ \A i \in DOMAIN s : i \in DOMAIN Append(s, x) /\ Append(s, x)[i] = s[i]
         /\ Len(s) + 1 \in DOMAIN Append(s, x) /\ Append(s, x)[Len(s) + 1] = x
OBVIOUS

\* One request goes on, and nobody else.
LEMMA OneRequest ==
  ASSUME ControlInv, NEW r \in Request,
         request' \in [Request -> Asking], \A s \in Request \ {r} : request'[s] = request[s],
         request'[r].id = request[r].id, request'[r].pc # "idle",
         request'[r].pc \in {"say", "wait"} => request[r].pc = "say" /\ desk.runs /\ pending' = pending,
         request'[r].got = "answer" => request'[r].about = r,
         pending' = pending \/ pending' = pending \ {request[r].id},
         input' = input \/ (input' = Append(input, [id |-> request[r].id, of |-> r]) /\ request[r].id # 0),
         UNCHANGED <<next, desk, ear, output, listener, relay, lines, deafened, unheard>>
  PROVE  ControlInv'
<1>1. ControlTyped'
  <2>1. [id |-> request[r].id, of |-> r] \in Asked
    BY DEF ControlInv, ControlTyped, Asking, Asked, Asker
  <2>2. input \in Seq(Asked)
    BY DEF ControlInv, ControlTyped
  <2>3. Append(input, [id |-> request[r].id, of |-> r]) \in Seq(Asked)
    BY <2>1, <2>2, AppendsTo
  <2>4. input' \in Seq(Asked)
    BY <2>2, <2>3
  <2>. QED
    BY <2>4 DEF ControlInv, ControlTyped
<1>2. IdsApart'
  BY DEF ControlInv, IdsApart
<1>3. LinesOwned'
  <2>1. \A s \in Request : request'[s].id = request[s].id
    OBVIOUS
  <2>2. \A i \in DOMAIN input' : Owned(input[i])'
    <3>1. CASE input' = input
      BY <2>1, <3>1 DEF ControlInv, LinesOwned, Owned
    <3>2. CASE input' = Append(input, [id |-> request[r].id, of |-> r]) /\ request[r].id # 0
      <4>. DEFINE l == [id |-> request[r].id, of |-> r]
      <4>1. l \in Asked /\ l.id = request[r].id /\ l.of = r
        BY DEF ControlInv, ControlTyped, Asking, Asked, Asker
      <4>. HIDE DEF l
      <4>2. input' = Append(input, l) /\ input \in Seq(Asked)
        BY <3>2 DEF l, ControlInv, ControlTyped
      <4>3. \A i \in DOMAIN input' : input'[i] = l \/ (i \in DOMAIN input /\ input'[i] = input[i])
        BY <4>1, <4>2, AppendsTo
      <4>. QED
        BY <2>1, <3>2, <4>1, <4>3 DEF ControlInv, LinesOwned, Owned
    <3>. QED
      BY <3>1, <3>2
  <2>. QED
    BY <2>1, <2>2 DEF ControlInv, LinesOwned, Owned
<1>4. AnswersMatch'
  BY DEF ControlInv, AnswersMatch
<1>5. EndIsComing'
  BY DEF ControlInv, EndIsComing
<1>6. LatestListens' /\ Control!RelayHears'
  BY DEF ControlInv, LatestListens, Control!RelayHears, Control!Attached
<1>. QED
  BY <1>1, <1>2, <1>3, <1>4, <1>5, <1>6 DEF ControlInv

LEMMA AskStep ==
  ASSUME ControlInv, NEW r \in Request, Control!Ask(r)
  PROVE  ControlInv'
<1>. USE DEF ControlInv
<1>0. ControlTyped /\ next \in Int /\ next < 0 /\ request[r].pc = "idle" /\ request[r].id = 0
  BY DEF ControlTyped, IdsApart, Control!Ask
<1>1. UNCHANGED <<input, desk, ear, output, listener, relay, lines, deafened, unheard>>
  BY DEF Control!Ask, Control!readerVars, Control!relayVars
<1>2. /\ request' \in [Request -> Asking] /\ request'[r].pc = "say" /\ request'[r].id = next
      /\ request'[r].got = request[r].got /\ request'[r].about = request[r].about
      /\ \A s \in Request \ {r} : request'[s] = request[s]
  <2>. DEFINE to == [request[r] EXCEPT !.pc = "say", !.id = next]
  <2>1. request \in [Request -> Asking] /\ request[r] \in Asking
    BY <1>0 DEF ControlTyped
  <2>2. request' = [request EXCEPT ![r] = to]
    BY <2>1 DEF Control!Ask, Control!Number
  <2>3. /\ to \in Asking /\ to.pc = "say" /\ to.id = next
        /\ to.got = request[r].got /\ to.about = request[r].about
    BY <1>0, <2>1 DEF Asking
  <2>. HIDE DEF to
  <2>. QED
    BY <2>1, <2>2, <2>3
<1>3. next' = next - 1 /\ pending' = pending \cup {next}
  BY DEF Control!Ask, Control!Number
<1>4. ControlTyped'
  BY <1>0, <1>1, <1>2, <1>3 DEF ControlTyped
<1>5. IdsApart'
  <2>1. \A s \in Request : request[s].id \in Int
    BY <1>0 DEF ControlTyped, Asking
  <2>. QED
    BY <1>0, <1>2, <1>3, <2>1 DEF IdsApart
<1>6. LinesOwned'
  BY <1>0, <1>1, <1>2 DEF LinesOwned, Owned
<1>7. AnswersMatch'
  BY <1>2 DEF AnswersMatch
<1>8. EndIsComing'
  BY <1>1, <1>2 DEF EndIsComing
<1>9. LatestListens' /\ Control!RelayHears'
  BY <1>1 DEF LatestListens, Control!RelayHears, Control!Attached
<1>. QED
  BY <1>4, <1>5, <1>6, <1>7, <1>8, <1>9

\* The steps of one request after it has its number.
LEMMA RequestStep ==
  ASSUME ControlInv, NEW r \in Request,
         \/ Control!Refuse(r) \/ Control!Say(r) \/ Control!Hear(r) \/ Control!GiveUp(r) \/ Control!Exited(r)
  PROVE  ControlInv'
<1>0. ControlTyped /\ request \in [Request -> Asking] /\ request[r] \in Asking
  BY DEF ControlInv, ControlTyped
<1>1. UNCHANGED <<next, desk, ear, output, listener, relay, lines, deafened, unheard>>
  BY DEF Control!Refuse, Control!Say, Control!Hear, Control!GiveUp, Control!Exited,
         Control!readerVars, Control!relayVars
<1>2. Nobody \in Asker
  BY DEF Asker
<1>3. CASE Control!Refuse(r)
  <2>1. /\ request' \in [Request -> Asking] /\ (\A s \in Request \ {r} : request'[s] = request[s])
        /\ request'[r].id = request[r].id /\ request'[r].pc = "over"
        /\ request'[r].got = request[r].got /\ request'[r].about = request[r].about
    BY <1>0, <1>3 DEF Control!Refuse, Asking
  <2>2. input' = input /\ pending' = pending
    BY <1>3 DEF Control!Refuse
  <2>. QED
    BY <1>1, <2>1, <2>2, OneRequest DEF ControlInv, AnswersMatch
<1>4. CASE Control!Say(r) /\ desk.runs
  <2>1. /\ request' \in [Request -> Asking] /\ (\A s \in Request \ {r} : request'[s] = request[s])
        /\ request'[r].id = request[r].id /\ request'[r].pc = "wait" /\ request[r].pc = "say"
        /\ request'[r].got = request[r].got /\ request'[r].about = request[r].about
    <3>1. request[r].pc = "say" /\ request' = [request EXCEPT ![r].pc = "wait"]
      BY <1>0, <1>4 DEF Control!Say
    <3>. QED
      BY <1>0, <3>1 DEF Asking
  <2>2. input' = Append(input, [id |-> request[r].id, of |-> r]) /\ pending' = pending
    BY <1>4 DEF Control!Say
  <2>3. request[r].id # 0
    BY <2>1 DEF ControlInv, IdsApart
  <2>. QED
    BY <1>1, <1>4, <2>1, <2>2, <2>3, OneRequest DEF ControlInv, AnswersMatch
<1>5. CASE Control!Say(r) /\ ~desk.runs
  <2>1. /\ request' \in [Request -> Asking] /\ (\A s \in Request \ {r} : request'[s] = request[s])
        /\ request'[r].id = request[r].id /\ request'[r].pc \in {"exit", "over"} /\ request'[r].got = "broken"
    BY <1>0, <1>2, <1>5, ComesTo DEF Control!Say, Outcomes
  <2>2. input' = input /\ pending' = pending \ {request[r].id}
    BY <1>5 DEF Control!Say
  <2>. QED
    BY <1>1, <2>1, <2>2, OneRequest
<1>6. CASE Control!Hear(r)
  <2>1. request[r].got \in Outcomes /\ request[r].about \in Asker
    BY <1>0 DEF Asking
  <2>2. /\ request' \in [Request -> Asking] /\ (\A s \in Request \ {r} : request'[s] = request[s])
        /\ request'[r].id = request[r].id /\ request'[r].pc \in {"exit", "over"}
        /\ request'[r].got = request[r].got /\ request'[r].about = request[r].about
    BY <1>0, <1>6, <2>1, ComesTo DEF Control!Hear
  <2>3. input' = input /\ pending' = pending
    BY <1>6 DEF Control!Hear
  <2>. QED
    BY <1>1, <2>2, <2>3, OneRequest DEF ControlInv, AnswersMatch
<1>7. CASE Control!GiveUp(r)
  <2>1. /\ request' \in [Request -> Asking] /\ (\A s \in Request \ {r} : request'[s] = request[s])
        /\ request'[r].id = request[r].id /\ request'[r].pc \in {"exit", "over"} /\ request'[r].got = "silent"
    BY <1>0, <1>2, <1>7, ComesTo DEF Control!GiveUp, Outcomes
  <2>2. input' = input /\ pending' = pending \ {request[r].id}
    BY <1>7 DEF Control!GiveUp
  <2>. QED
    BY <1>1, <2>1, <2>2, OneRequest
<1>8. CASE Control!Exited(r)
  <2>1. PICK got \in {"closed", "unfinished"} : request' = [request EXCEPT ![r].pc = "over", ![r].got = got]
    BY <1>8 DEF Control!Exited
  <2>2. /\ request' \in [Request -> Asking] /\ (\A s \in Request \ {r} : request'[s] = request[s])
        /\ request'[r].id = request[r].id /\ request'[r].pc = "over" /\ request'[r].got # "answer"
    <3>. DEFINE to == [request[r] EXCEPT !.pc = "over", !.got = got]
    <3>1. request' = [request EXCEPT ![r] = to]
      BY <1>0, <2>1
    <3>2. to \in Asking /\ to.id = request[r].id /\ to.pc = "over" /\ to.got # "answer"
      BY <1>0 DEF Asking, Outcomes
    <3>. HIDE DEF to
    <3>. QED
      BY <1>0, <3>1, <3>2
  <2>3. input' = input /\ pending' = pending
    BY <1>8 DEF Control!Exited
  <2>. QED
    BY <1>1, <2>2, <2>3, OneRequest
<1>. QED
  BY <1>3, <1>4, <1>5, <1>6, <1>7, <1>8

LEMMA WindowStep ==
  ASSUME ControlInv, Control!WindowAnswers \/ Control!WindowNotes \/ Control!WindowEnds
  PROVE  ControlInv'
<1>0. ControlTyped /\ input \in Seq(Asked) /\ output \in Seq(Spoken)
  BY DEF ControlInv, ControlTyped
<1>1. UNCHANGED <<request, next, pending, ear, closing, listener, relay, lines, deafened, unheard>>
  BY DEF Control!WindowAnswers, Control!WindowNotes, Control!WindowEnds, Control!relayVars
<1>2. \E l \in Spoken :
        /\ output' = Append(output, l)
        /\ l.is = "answer" => Owned(l)
        /\ \/ desk' = desk /\ (input' = input \/ (input # <<>> /\ input' = Tail(input)))
           \/ input' = <<>> /\ ~desk'.runs /\ l.is = "end" /\ desk' \in [runs : BOOLEAN, code : {0, 1}]
  <2>1. CASE Control!WindowAnswers
    <3>. DEFINE l == [is |-> "answer", id |-> Head(input).id, of |-> Head(input).of]
    <3>1. input # <<>> /\ input' = Tail(input) /\ output' = Append(output, l) /\ desk' = desk
      BY <2>1 DEF Control!WindowAnswers
    <3>2. Head(input) \in Asked /\ Owned(Head(input))
      BY <1>0, <3>1, TailsOf DEF ControlInv, LinesOwned
    <3>3. l \in Spoken /\ Owned(l)
      BY <3>2 DEF Asked, Spoken, Owned
    <3>. QED
      BY <3>1, <3>3
  <2>2. CASE Control!WindowNotes
    <3>1. PICK is \in {"note", "tooMuch"} : output' = Append(output, [Control!NoLine EXCEPT !.is = is])
      BY <2>2 DEF Control!WindowNotes
    <3>. DEFINE l == [Control!NoLine EXCEPT !.is = is]
    <3>2. l \in Spoken /\ l.is = is
      BY DEF Control!NoLine, Spoken, Asker
    <3>. QED
      BY <2>2, <3>1, <3>2 DEF Control!WindowNotes
  <2>3. CASE Control!WindowEnds
    <3>. DEFINE l == [Control!NoLine EXCEPT !.is = "end"]
    <3>1. l \in Spoken /\ l.is = "end"
      BY DEF Control!NoLine, Spoken, Asker
    <3>2. desk' \in [runs : BOOLEAN, code : {0, 1}] /\ ~desk'.runs
      BY <1>0, <2>3 DEF Control!WindowEnds, ControlTyped
    <3>. QED
      BY <2>3, <3>1, <3>2 DEF Control!WindowEnds
  <2>. QED
    BY <2>1, <2>2, <2>3
<1>3. PICK l \in Spoken :
        /\ output' = Append(output, l)
        /\ l.is = "answer" => Owned(l)
        /\ \/ desk' = desk /\ (input' = input \/ (input # <<>> /\ input' = Tail(input)))
           \/ input' = <<>> /\ ~desk'.runs /\ l.is = "end" /\ desk' \in [runs : BOOLEAN, code : {0, 1}]
  BY <1>2
<1>4. /\ output' \in Seq(Spoken) /\ Len(output) + 1 \in DOMAIN output' /\ output'[Len(output) + 1] = l
      /\ \A i \in DOMAIN output' : output'[i] = l \/ (i \in DOMAIN output /\ output'[i] = output[i])
      /\ \A i \in DOMAIN output : i \in DOMAIN output' /\ output'[i] = output[i]
  BY <1>0, <1>3, AppendsTo
<1>5. /\ input' \in Seq(Asked)
      /\ \A i \in DOMAIN input' : \E k \in DOMAIN input : input'[i] = input[k]
  <2>1. CASE input' = input
    BY <1>0, <2>1
  <2>2. CASE input # <<>> /\ input' = Tail(input)
    BY <1>0, <2>2, TailsOf
  <2>3. CASE input' = <<>>
    BY <2>3
  <2>. QED
    BY <1>3, <2>1, <2>2, <2>3
<1>6. ControlTyped'
  BY <1>0, <1>1, <1>3, <1>4, <1>5 DEF ControlTyped
<1>7. IdsApart' /\ AnswersMatch'
  BY <1>1 DEF ControlInv, IdsApart, AnswersMatch
<1>8. LinesOwned'
  <2>1. \A i \in DOMAIN input' : Owned(input[i])'
    BY <1>1, <1>5 DEF ControlInv, LinesOwned, Owned
  <2>2. \A i \in DOMAIN output' : output'[i].is = "answer" => Owned(output[i])'
    BY <1>1, <1>3, <1>4 DEF ControlInv, LinesOwned, Owned
  <2>. QED
    BY <1>1, <2>1, <2>2 DEF ControlInv, LinesOwned, Owned
<1>9. EndIsComing'
  BY <1>1, <1>3, <1>4 DEF ControlInv, EndIsComing
<1>10. LatestListens' /\ Control!RelayHears'
  BY <1>1, <1>3 DEF ControlInv, LatestListens, Control!RelayHears, Control!Attached
<1>. QED
  BY <1>6, <1>7, <1>8, <1>9, <1>10 DEF ControlInv

\* Whoever is told of an answer is told of its own.
LEMMA TellsTheAsker ==
  ASSUME ControlInv, NEW ids, NEW what \in Outcomes, Control!Settled(ids, what), next' = next,
         what = "answer" => ids = {ear.id} /\ Owned(ear)
  PROVE  /\ request' \in [Request -> Asking] /\ IdsApart' /\ AnswersMatch'
         /\ \A r \in Request : /\ request'[r].id = request[r].id
                               /\ request'[r].pc \in {"say", "wait"} => request'[r] = request[r]
                               /\ pending \subseteq ids => request'[r].pc # "wait"
<1>0. ControlTyped /\ request \in [Request -> Asking]
  BY DEF ControlInv, ControlTyped
<1>1. /\ request' \in [Request -> Asking] /\ pending' = pending \ ids
      /\ \A r \in Request :
           IF IsTold(r, ids)
           THEN /\ request'[r].id = request[r].id /\ request'[r].got = what /\ request'[r].pc = "told"
                /\ request'[r].about = IF what = "answer" THEN ear.of ELSE Nobody
           ELSE request'[r] = request[r]
  BY <1>0, SettledTo
<1>2. \A r \in Request : /\ request'[r].id = request[r].id
                         /\ request'[r].pc \in {"say", "wait"} => request'[r] = request[r] /\ ~IsTold(r, ids)
                         /\ request'[r].pc = "idle" => request'[r] = request[r]
  BY <1>1
<1>3. IdsApart'
  BY <1>1, <1>2 DEF ControlInv, IdsApart, IsTold
<1>4. ASSUME NEW r \in Request, request'[r].got = "answer" PROVE request'[r].about = r
  <2>1. CASE IsTold(r, ids)
    <3>1. what = "answer" /\ request'[r].about = ear.of /\ request[r].id = ear.id /\ request[r].id < 0
      BY <1>1, <1>4, <2>1 DEF IsTold, ControlInv, IdsApart
    <3>2. ear.of \in Request /\ request[ear.of].id = ear.id
      BY <1>0, <3>1 DEF Owned, ControlTyped, Spoken, Asking
    <3>. QED
      BY <3>1, <3>2 DEF ControlInv, IdsApart
  <2>2. CASE ~IsTold(r, ids)
    BY <1>1, <1>4, <2>2 DEF ControlInv, AnswersMatch
  <2>. QED
    BY <2>1, <2>2
<1>5. \A r \in Request : pending \subseteq ids => request'[r].pc # "wait"
  BY <1>2 DEF ControlInv, IdsApart, IsTold
<1>. QED
  BY <1>1, <1>2, <1>3, <1>4, <1>5 DEF AnswersMatch

LEMMA ReadsStep ==
  ASSUME ControlInv, Control!Reads
  PROVE  ControlInv'
<1>0. ControlTyped /\ output \in Seq(Spoken)
  BY DEF ControlInv, ControlTyped
<1>1. /\ UNCHANGED <<next, input, desk, closing, listener, lines, notes, deafened>>
      /\ ear = Control!NoLine /\ output # <<>> /\ output' = Tail(output)
  BY DEF Control!Reads
<1>. DEFINE l == Head(output)
<1>2. /\ output' \in Seq(Spoken) /\ l \in Spoken /\ l = output[1] /\ 1 \in DOMAIN output
      /\ \A i \in DOMAIN output' : i + 1 \in DOMAIN output /\ output'[i] = output[i + 1]
      /\ \A i \in DOMAIN output : i # 1 => i - 1 \in DOMAIN output' /\ output'[i - 1] = output[i]
  BY <1>0, <1>1, TailsOf
<1>3. l = Control!Line
  BY DEF Control!Line
<1>. HIDE DEF l
<1>4. l.is = "answer" => Owned(l)
  BY <1>2 DEF ControlInv, LinesOwned
<1>5. LinesOwned' /\ ear' \in Spoken
  <2>1. ASSUME \A r \in Request : request'[r].id = request[r].id, ear' = ear \/ (l.is = "answer" /\ ear' = l)
        PROVE  LinesOwned' /\ ear' \in Spoken
    <3>1. \A i \in DOMAIN input' : Owned(input[i])'
      BY <1>1, <2>1 DEF ControlInv, LinesOwned, Owned
    <3>2. \A i \in DOMAIN output' : output'[i].is = "answer" => Owned(output[i])'
      BY <1>2, <2>1 DEF ControlInv, LinesOwned, Owned
    <3>3. ear' = Control!NoLine \/ (ear'.is = "answer" /\ Owned(ear)')
      BY <1>1, <1>4, <2>1 DEF Owned
    <3>4. ear' \in Spoken
      BY <1>0, <1>2, <2>1 DEF ControlTyped
    <3>. QED
      BY <3>1, <3>2, <3>3, <3>4 DEF LinesOwned
  <2>2. CASE request' = request
    BY <1>3, <2>1, <2>2 DEF Control!Reads
  <2>3. CASE request' # request
    <3>1. ear' = ear /\ \E what \in {"tooMuch", "exited"} : Control!Settled(pending, what)
      BY <1>3, <2>3 DEF Control!Reads
    <3>2. \A r \in Request : request'[r].id = request[r].id
      BY <1>0, <3>1, SettledTo DEF Outcomes
    <3>. QED
      BY <2>1, <3>1, <3>2
  <2>. QED
    BY <2>2, <2>3
<1>6. CASE l.is \notin {"tooMuch", "end"}
  <2>1. request' = request /\ pending' = pending
    BY <1>3, <1>6 DEF Control!Reads
  <2>2. /\ relay' = relay \/ (listener # Nobody /\ relay' = [relay EXCEPT ![listener].heard = @ \cup {l.id}])
        /\ \/ unheard' = unheard
           \/ listener = Nobody /\ desk.runs /\ Control!Attached
    BY <1>3, <1>6 DEF Control!Reads, Control!Overheard
  <2>3. /\ relay' \in [Relay -> [pc : {"off", "on", "gone"}, heard : SUBSET Int]]
        /\ \A k \in Relay : relay'[k].pc = relay[k].pc
    <3>1. relay \in [Relay -> [pc : {"off", "on", "gone"}, heard : SUBSET Int]] /\ l.id \in Int
      BY <1>0, <1>2 DEF ControlTyped, Spoken
    <3>2. CASE relay' = relay
      BY <3>1, <3>2
    <3>3. CASE listener \in Relay /\ relay' = [relay EXCEPT ![listener].heard = @ \cup {l.id}]
      BY <3>1, <3>3
    <3>. QED
      BY <1>0, <2>2, <3>2, <3>3 DEF ControlTyped
  <2>4. ControlTyped' /\ IdsApart' /\ AnswersMatch'
    BY <1>0, <1>1, <1>2, <1>5, <2>1, <2>3 DEF ControlTyped, ControlInv, IdsApart, AnswersMatch
  <2>5. EndIsComing'
    BY <1>1, <1>2, <1>6, <2>1 DEF ControlInv, EndIsComing
  <2>6. LatestListens'
    BY <1>0, <1>1, <2>3 DEF ControlInv, ControlTyped, LatestListens, Control!Attached
  <2>7. Control!RelayHears'
    BY <1>1, <2>2 DEF ControlInv, LatestListens, Control!RelayHears, Control!Attached
  <2>. QED
    BY <1>5, <2>4, <2>5, <2>6, <2>7 DEF ControlInv
<1>7. CASE l.is \in {"tooMuch", "end"}
  <2>1. PICK what \in {"tooMuch", "exited"} : Control!Settled(pending, what) /\ UNCHANGED <<ear, relay, unheard>>
    BY <1>3, <1>7 DEF Control!Reads
  <2>2. /\ request' \in [Request -> Asking] /\ IdsApart' /\ AnswersMatch'
        /\ \A r \in Request : request'[r].pc # "wait"
    BY <1>1, <2>1, TellsTheAsker DEF Outcomes
  <2>3. ControlTyped'
    BY <1>0, <1>1, <1>2, <1>5, <2>1, <2>2 DEF ControlTyped
  <2>4. EndIsComing'
    BY <2>2 DEF EndIsComing
  <2>5. LatestListens' /\ Control!RelayHears'
    BY <1>1, <2>1 DEF ControlInv, LatestListens, Control!RelayHears, Control!Attached
  <2>. QED
    BY <1>5, <2>2, <2>3, <2>4, <2>5 DEF ControlInv
<1>. QED
  BY <1>6, <1>7

\* The answer that was claimed, and the end of the window, are told.
LEMMA TellingStep ==
  ASSUME ControlInv, Control!Settles \/ Control!Ended
  PROVE  ControlInv'
<1>0. ControlTyped
  BY DEF ControlInv, ControlTyped
<1>1. /\ UNCHANGED <<next, input, desk, output, closing, relay, lines, notes, deafened, unheard>>
      /\ ear' \in Spoken /\ (ear' = ear \/ ear' = Control!NoLine) /\ (listener' = listener \/ (~desk.runs /\ listener' = Nobody))
  BY <1>0 DEF Control!Settles, Control!Ended, Control!relayVars, Control!readerVars, Control!NoLine, ControlTyped,
              Spoken, Asker
<1>3. /\ request' \in [Request -> Asking] /\ IdsApart' /\ AnswersMatch'
      /\ \A r \in Request : /\ request'[r].id = request[r].id
                            /\ request'[r].pc = "wait" => request'[r] = request[r]
  <2>1. next' = next
    BY <1>1
  <2>2. CASE Control!Settles
    <3>1. Control!Settled({ear.id}, "answer") /\ Owned(ear)
      BY <2>2 DEF Control!Settles, ControlInv, LinesOwned
    <3>. QED
      BY <2>1, <3>1, TellsTheAsker DEF Outcomes
  <2>3. CASE Control!Ended
    <3>1. Control!Settled(pending, "exited")
      BY <2>3 DEF Control!Ended
    <3>. QED
      BY <2>1, <3>1, TellsTheAsker DEF Outcomes
  <2>. QED
    BY <2>2, <2>3
<1>4. ControlTyped'
  BY <1>0, <1>1, <1>3 DEF ControlTyped
<1>5. LinesOwned'
  <2>1. \A i \in DOMAIN input' : Owned(input[i])'
    BY <1>1, <1>3 DEF ControlInv, LinesOwned, Owned
  <2>2. \A i \in DOMAIN output' : output'[i].is = "answer" => Owned(output[i])'
    BY <1>1, <1>3 DEF ControlInv, LinesOwned, Owned
  <2>3. ear' = Control!NoLine \/ (ear'.is = "answer" /\ Owned(ear)')
    BY <1>1, <1>3 DEF ControlInv, LinesOwned, Owned
  <2>. QED
    BY <2>1, <2>2, <2>3 DEF LinesOwned
<1>6. EndIsComing'
  BY <1>1, <1>3 DEF ControlInv, EndIsComing
<1>7. LatestListens' /\ Control!RelayHears'
  BY <1>1 DEF ControlInv, LatestListens, Control!RelayHears, Control!Attached
<1>. QED
  BY <1>3, <1>4, <1>5, <1>6, <1>7 DEF ControlInv

LEMMA RelayStep ==
  ASSUME ControlInv, NEW k \in Relay, Control!Attach(k) \/ Control!Relays(k) \/ Control!Detach(k)
  PROVE  ControlInv'
<1>0. ControlTyped /\ input \in Seq(Asked) /\ relay \in [Relay -> [pc : {"off", "on", "gone"}, heard : SUBSET Int]]
  BY DEF ControlInv, ControlTyped
<1>1. UNCHANGED <<request, next, pending, desk, ear, output, closing, notes, unheard>>
  BY DEF Control!Attach, Control!Relays, Control!Detach, Control!readerVars
<1>2. IdsApart' /\ AnswersMatch' /\ EndIsComing'
  BY <1>1 DEF ControlInv, IdsApart, AnswersMatch, EndIsComing
<1>3. CASE Control!Attach(k)
  <2>1. /\ relay' \in [Relay -> [pc : {"off", "on", "gone"}, heard : SUBSET Int]]
        /\ deafened' \in [latest : Relay \cup {Nobody}, is : BOOLEAN]
        /\ deafened'.latest = k /\ deafened'.is = deafened.is
    BY <1>0, <1>3 DEF Control!Attach, ControlTyped
  <2>2. ControlTyped' /\ LinesOwned'
    BY <1>0, <1>1, <1>3, <2>1 DEF Control!Attach, ControlTyped, ControlInv, LinesOwned, Owned
  <2>3. LatestListens' /\ Control!RelayHears'
    BY <1>1, <1>3, <2>1 DEF Control!Attach, ControlInv, LatestListens, Control!RelayHears
  <2>. QED
    BY <1>2, <2>2, <2>3 DEF ControlInv
<1>4. CASE Control!Relays(k)
  <2>. DEFINE l == [id |-> lines + 1, of |-> Nobody]
  <2>1. l \in Asked /\ l.id > 0 /\ lines' \in Nat
    BY <1>0, <1>4 DEF Control!Relays, ControlTyped, Asked, Asker
  <2>2. input' = Append(input, l) /\ UNCHANGED <<listener, relay, deafened>>
    BY <1>4 DEF Control!Relays
  <2>. HIDE DEF l
  <2>3. /\ input' \in Seq(Asked)
        /\ \A i \in DOMAIN input' : input'[i] = l \/ (i \in DOMAIN input /\ input'[i] = input[i])
    BY <1>0, <2>1, <2>2, AppendsTo
  <2>4. ControlTyped' /\ LatestListens' /\ Control!RelayHears'
    BY <1>0, <1>1, <2>1, <2>2, <2>3
       DEF ControlTyped, ControlInv, LatestListens, Control!RelayHears, Control!Attached
  <2>5. \A i \in DOMAIN input' : Owned(input[i])'
    BY <1>1, <2>1, <2>3 DEF ControlInv, LinesOwned, Owned
  <2>6. LinesOwned'
    BY <1>1, <2>5 DEF ControlInv, LinesOwned, Owned
  <2>. QED
    BY <1>2, <2>4, <2>6 DEF ControlInv
<1>5. CASE Control!Detach(k)
  <2>1. /\ relay' \in [Relay -> [pc : {"off", "on", "gone"}, heard : SUBSET Int]] /\ relay'[k].pc = "gone"
        /\ (\A o \in Relay \ {k} : relay'[o] = relay[o])
    BY <1>0, <1>5 DEF Control!Detach
  <2>2. /\ listener' = Nobody /\ UNCHANGED <<input, lines>> /\ relay[k].pc = "on"
        /\ deafened' = [deafened EXCEPT !.is = @ \/ listener # k]
    BY <1>5 DEF Control!Detach
  <2>3. /\ deafened' \in [latest : Relay \cup {Nobody}, is : BOOLEAN] /\ deafened'.latest = deafened.latest
        /\ (~deafened'.is => ~deafened.is /\ listener = k) /\ (deafened.is => deafened'.is)
    BY <1>0, <2>2 DEF ControlTyped
  <2>4. ControlTyped' /\ LinesOwned' /\ Control!RelayHears'
    BY <1>0, <1>1, <2>1, <2>2, <2>3 DEF ControlTyped, ControlInv, LinesOwned, Owned, Control!RelayHears
  <2>5. LatestListens'
    BY <1>0, <1>1, <2>1, <2>2, <2>3 DEF ControlTyped, ControlInv, LatestListens, Control!Attached
  <2>. QED
    BY <1>2, <2>4, <2>5 DEF ControlInv
<1>. QED
  BY <1>3, <1>4, <1>5

LEMMA ControlStep ==
  ASSUME ControlInv, Control!ControlNext
  PROVE  ControlInv'
BY AskStep, RequestStep, WindowStep, ReadsStep, TellingStep, RelayStep DEF Control!ControlNext

LEMMA ControlElsewhere ==
  ASSUME ControlInv, UNCHANGED control
  PROVE  ControlInv'
<1>. USE DEF control, ControlInv
<1>1. ControlTyped' /\ IdsApart' /\ AnswersMatch' /\ EndIsComing'
  BY DEF ControlTyped, IdsApart, AnswersMatch, EndIsComing
<1>2. LinesOwned'
  BY DEF LinesOwned, Owned
<1>3. LatestListens' /\ Control!RelayHears'
  BY DEF LatestListens, Control!RelayHears, Control!Attached
<1>. QED
  BY <1>1, <1>2, <1>3

\* An answer is to the question that was asked, nobody waits on a window that is gone, and what it
\* says to another speaker is heard (asking, settle_all, the reading thread, overhear).
THEOREM SpeakersKeepApart == AnySpec => []ControlKeepsApart
<1>1. AnyInit => ControlInv
  BY ControlStarts DEF AnyInit
<1>2. ControlInv /\ [AnyNext]_<<part, vars, launch, control, talk, tools>> => ControlInv'
  <2>1. CASE OfControl
    BY <2>1, ControlStep DEF OfControl
  <2>2. CASE UNCHANGED control
    BY <2>2, ControlElsewhere
  <2>. QED
    BY <2>1, <2>2 DEF AnyNext, OfFeed, OfLaunch, OfTalk, OfTools
<1>3. ControlInv => ControlKeepsApart
  <2>1. ControlInv => Control!AnswersItsAsker
    BY DEF ControlInv, AnswersMatch, Control!AnswersItsAsker
  <2>2. ControlInv => Control!NobodyWaitsOnTheGone
    BY DEF ControlInv, EndIsComing, Control!NobodyWaitsOnTheGone
  <2>. QED
    BY <2>1, <2>2 DEF ControlInv, ControlKeepsApart, Control!ControlKeepsApart
<1>. QED
  BY <1>1, <1>2, <1>3, PTL DEF AnySpec

-----------------------------------------------------------------------------
\* AgentConversation: what a launch carries to its CLI is what it reported.

Conversation == Id \cup {None}
Panes ==
  [pc : {"none", "choose", "launch", "report", "start", "runs"}, env : Conversation, resume : BOOLEAN,
   args : Talk!OwnArgs, named : Conversation, told : Conversation]

TalkTyped ==
  /\ recipe \in [starts : BOOLEAN, reports : BOOLEAN]
  /\ pane \in [Pane -> Panes] /\ record \in [Pane -> Conversation] /\ cli \in [Pane -> Conversation]
  /\ been \in [Pane -> SUBSET Id] /\ remembered \subseteq Id /\ hooks \subseteq [pane : Pane, says : Id]

\* A conversation that is reported is the one the CLI is started in.
CarriesOn(p) ==
  pane[p].pc \in {"report", "start"} =>
    /\ pane[p].args = "names" => pane[p].named \in Id
    /\ pane[p].env # None => IF pane[p].args = "names" THEN pane[p].named = pane[p].env
                             ELSE pane[p].args # "opaque" /\ pane[p].told = pane[p].env

RecordCarried(p) == pane[p].pc = "start" /\ p \notin amiss => record[p] = pane[p].env

\* Hooks report conversations the CLI was in, and it was in the one it is in.
HooksWereIn ==
  /\ \A h \in hooks : pane[h.pane].pc = "runs" /\ h.says \in been[h.pane]
  /\ \A p \in Pane : pane[p].pc = "runs" => cli[p] \in been[p]

NamesWhatRan(p) ==
  pane[p].pc = "runs" /\ p \notin amiss =>
    /\ record[p] \in been[p] \cup {None}
    /\ recipe.reports /\ (\A h \in hooks : h.pane # p) => record[p] = cli[p]

TalkInv ==
  /\ TalkTyped /\ HooksWereIn
  /\ \A p \in Pane : CarriesOn(p) /\ RecordCarried(p) /\ NamesWhatRan(p)

LEMMA TalkStarts ==
  ASSUME Talk!ConversationInit
  PROVE  TalkInv
<1>1. Talk!NoPane \in Panes /\ Talk!NoPane.pc = "none"
  BY DEF Talk!NoPane, Panes, Conversation, Talk!OwnArgs
<1>2. TalkTyped
  BY <1>1 DEF Talk!ConversationInit, TalkTyped, Conversation
<1>3. \A p \in Pane : pane[p].pc = "none"
  BY <1>1 DEF Talk!ConversationInit
<1>. QED
  BY <1>2, <1>3 DEF Talk!ConversationInit, TalkInv, HooksWereIn, CarriesOn, RecordCarried, NamesWhatRan

\* Panes a step is not about are as they were.
LEMMA OtherPanes ==
  ASSUME TalkInv, NEW p \in Pane, recipe' = recipe,
         \A q \in Pane \ {p} : /\ pane'[q] = pane[q] /\ record'[q] = record[q] /\ cli'[q] = cli[q]
                              /\ been'[q] = been[q] /\ (q \in amiss' <=> q \in amiss),
         \A h \in hooks \cup hooks' : h.pane # p => h \in hooks /\ h \in hooks',
         CarriesOn(p)', RecordCarried(p)', NamesWhatRan(p)',
         \A h \in hooks' : h.pane = p => pane'[p].pc = "runs" /\ h.says \in been'[p],
         pane'[p].pc = "runs" => cli'[p] \in been'[p],
         TalkTyped'
  PROVE  TalkInv'
<1>1. HooksWereIn'
  BY DEF TalkInv, HooksWereIn, TalkTyped
<1>2. ASSUME NEW q \in Pane, q # p
      PROVE  CarriesOn(q)' /\ RecordCarried(q)' /\ NamesWhatRan(q)'
  <2>1. CarriesOn(q) /\ RecordCarried(q) /\ NamesWhatRan(q)
    BY DEF TalkInv
  <2>2. CarriesOn(q)' /\ RecordCarried(q)'
    BY <1>2, <2>1 DEF CarriesOn, RecordCarried
  <2>3. (\A h \in hooks' : h.pane # q) => \A h \in hooks : h.pane # q
    BY <1>2
  <2>4. NamesWhatRan(q)'
    BY <1>2, <2>1, <2>3 DEF NamesWhatRan
  <2>. QED
    BY <2>2, <2>4
<1>. QED
  BY <1>1, <1>2 DEF TalkInv

LEMMA ComposesTo ==
  ASSUME TalkInv, NEW p \in Pane, NEW asked \in Conversation, NEW resume \in BOOLEAN, NEW args \in Talk!OwnArgs,
         Talk!Composes(p, asked, resume, args)
  PROVE  /\ pane' \in [Pane -> Panes] /\ pane'[p].pc \in {"choose", "launch"}
         /\ \A q \in Pane \ {p} : pane'[q] = pane[q] /\ record'[q] = record[q]
         /\ record' \in [Pane -> Conversation] /\ remembered' \subseteq Id
<1>1. PICK minted \in Conversation :
        /\ record' = [record EXCEPT ![p] = Talk!Claims(asked, minted)]
        /\ remembered' = remembered \cup ({Talk!Claims(asked, minted)} \ {None})
        /\ pane' = [pane EXCEPT ![p] = [Talk!NoPane EXCEPT
                       !.pc = IF asked = None /\ args = "none" THEN "choose" ELSE "launch",
                       !.env = Talk!Claims(asked, minted),
                       !.resume = resume /\ Talk!Claims(asked, minted) # None, !.args = args]]
  BY DEF Talk!Composes, Talk!Fresh, Conversation
<1>. DEFINE claim == Talk!Claims(asked, minted)
            to == [Talk!NoPane EXCEPT !.pc = IF asked = None /\ args = "none" THEN "choose" ELSE "launch",
                                      !.env = claim, !.resume = resume /\ claim # None, !.args = args]
<1>2. claim \in Conversation
  BY DEF Talk!Claims, Conversation
<1>3. record' = [record EXCEPT ![p] = claim] /\ remembered' = remembered \cup ({claim} \ {None})
  BY <1>1
<1>. HIDE DEF claim
<1>4. to \in Panes /\ to.pc \in {"choose", "launch"}
  BY <1>2 DEF Talk!NoPane, Panes, Conversation
<1>5. pane' = [pane EXCEPT ![p] = to]
  BY <1>1 DEF claim
<1>. HIDE DEF to
<1>. QED
  BY <1>2, <1>3, <1>4, <1>5 DEF TalkInv, TalkTyped, Conversation

LEMMA SpawnsStep ==
  ASSUME TalkInv, NEW p \in Pane, Talk!Spawns(p)
  PROVE  TalkInv'
<1>1. PICK asked \in Conversation, resume \in BOOLEAN, args \in Talk!OwnArgs : Talk!Composes(p, asked, resume, args)
  BY DEF Talk!Spawns, TalkInv, TalkTyped, Conversation
<1>2. /\ pane' \in [Pane -> Panes] /\ pane'[p].pc \in {"choose", "launch"}
      /\ \A q \in Pane \ {p} : pane'[q] = pane[q] /\ record'[q] = record[q]
      /\ record' \in [Pane -> Conversation] /\ remembered' \subseteq Id
  BY <1>1, ComposesTo
<1>3. UNCHANGED <<recipe, cli, context, hooks, moves, drops, been, amiss>> /\ pane[p].pc = "none"
  BY DEF Talk!Spawns, Talk!cliVars
<1>4. \A h \in hooks : h.pane # p
  BY <1>3 DEF TalkInv, HooksWereIn
<1>5. TalkTyped'
  BY <1>2, <1>3 DEF TalkInv, TalkTyped
<1>6. CarriesOn(p)' /\ RecordCarried(p)' /\ NamesWhatRan(p)'
  BY <1>2 DEF CarriesOn, RecordCarried, NamesWhatRan
<1>. QED
  BY <1>2, <1>3, <1>4, <1>5, <1>6, OtherPanes

LEMMA RestartsStep ==
  ASSUME TalkInv, NEW p \in Pane, Talk!Restarts(p)
  PROVE  TalkInv'
<1>1. Talk!Composes(p, record[p], TRUE, "none") /\ record[p] \in Conversation /\ "none" \in Talk!OwnArgs
  BY DEF Talk!Restarts, TalkInv, TalkTyped, Talk!OwnArgs
<1>2. /\ pane' \in [Pane -> Panes] /\ pane'[p].pc \in {"choose", "launch"}
      /\ \A q \in Pane \ {p} : pane'[q] = pane[q] /\ record'[q] = record[q]
      /\ record' \in [Pane -> Conversation] /\ remembered' \subseteq Id
  BY <1>1, ComposesTo
<1>3. /\ UNCHANGED <<recipe, context, moves, drops, been, amiss>>
      /\ hooks' = {h \in hooks : h.pane # p} /\ cli' = [cli EXCEPT ![p] = None]
  BY DEF Talk!Restarts
<1>4. cli' \in [Pane -> Conversation] /\ \A q \in Pane \ {p} : cli'[q] = cli[q]
  BY <1>3 DEF TalkInv, TalkTyped, Conversation
<1>5. TalkTyped'
  BY <1>2, <1>3, <1>4 DEF TalkInv, TalkTyped
<1>6. CarriesOn(p)' /\ RecordCarried(p)' /\ NamesWhatRan(p)'
  BY <1>2 DEF CarriesOn, RecordCarried, NamesWhatRan
<1>. QED
  BY <1>2, <1>3, <1>4, <1>5, <1>6, OtherPanes

LEMMA ChoosesStep ==
  ASSUME TalkInv, NEW p \in Pane, Talk!Chooses(p)
  PROVE  TalkInv'
<1>1. UNCHANGED <<recipe, record, remembered, cli, context, hooks, moves, drops, been, used, amiss>> /\ pane[p].pc = "choose"
  BY DEF Talk!Chooses, Talk!cliVars
<1>2. pane \in [Pane -> Panes] /\ pane[p] \in Panes /\ remembered \subseteq Id
  BY DEF TalkInv, TalkTyped
<1>3. /\ pane' \in [Pane -> Panes] /\ pane'[p].pc = "launch"
      /\ \A q \in Pane \ {p} : pane'[q] = pane[q]
  <2>1. CASE pane' = [pane EXCEPT ![p].pc = "launch"]
    BY <1>2, <2>1 DEF Panes
  <2>2. CASE pane' # [pane EXCEPT ![p].pc = "launch"]
    <3>1. PICK c \in Id : pane' = [pane EXCEPT ![p].pc = "launch", ![p].env = c, ![p].resume = TRUE]
      BY <1>2, <2>2 DEF Talk!Chooses
    <3>. DEFINE to == [pane[p] EXCEPT !.pc = "launch", !.env = c, !.resume = TRUE]
    <3>2. pane' = [pane EXCEPT ![p] = to]
      BY <1>2, <3>1
    <3>3. to \in Panes /\ to.pc = "launch"
      BY <1>2 DEF Panes, Conversation
    <3>. HIDE DEF to
    <3>. QED
      BY <1>2, <3>2, <3>3
  <2>. QED
    BY <2>1, <2>2
<1>4. \A h \in hooks : h.pane # p
  BY <1>1 DEF TalkInv, HooksWereIn
<1>5. TalkTyped'
  BY <1>1, <1>3 DEF TalkInv, TalkTyped
<1>6. CarriesOn(p)' /\ RecordCarried(p)' /\ NamesWhatRan(p)'
  BY <1>3 DEF CarriesOn, RecordCarried, NamesWhatRan
<1>. QED
  BY <1>1, <1>3, <1>4, <1>5, <1>6, OtherPanes

\* What a launch decides: it reports only what it tells its CLI, or what its CLI was told by the person.
LEMMA DecidesStep ==
  ASSUME TalkInv, NEW p \in Pane, Talk!Decides(p)
  PROVE  TalkInv'
<1>1. /\ UNCHANGED <<recipe, record, remembered, cli, hooks, moves, drops, been, amiss>> /\ pane[p].pc = "launch"
      /\ pane \in [Pane -> Panes] /\ pane[p] \in Panes /\ recipe.starts \in BOOLEAN
  BY DEF Talk!Decides, TalkInv, TalkTyped
<1>2. PICK own \in (IF pane[p].args = "names" THEN Id ELSE {None}) :
        \E agentId \in (IF Talk!Identity(p, own).id = None THEN Talk!Fresh ELSE {Talk!Identity(p, own).id}) :
          Talk!Plans(p, own, Talk!Identity(p, own), agentId)
  BY DEF Talk!Decides
<1>. DEFINE identity == Talk!Identity(p, own)
<1>3. PICK agentId \in (IF identity.id = None THEN Talk!Fresh ELSE {identity.id}) :
        Talk!Plans(p, own, identity, agentId)
  BY <1>2
<1>. DEFINE env  == IF Talk!Known(identity) THEN agentId ELSE None
            told == Talk!Told(p, identity, agentId)
            to   == [pane[p] EXCEPT !.pc = "report", !.named = own, !.env = env, !.told = told]
<1>4. pane' = [pane EXCEPT ![p] = to]
  BY <1>1, <1>3 DEF Talk!Plans
<1>5. own \in Conversation /\ agentId \in Id /\ identity.id \in Conversation
  BY <1>1, OpeningConstants DEF Talk!Identity, Talk!Fresh, Panes, Conversation
<1>6. env \in Conversation /\ told \in Conversation
  BY <1>5 DEF Talk!Told, Conversation
<1>7. env # None => IF pane[p].args = "names" THEN own = env ELSE pane[p].args # "opaque" /\ told = env
  <2>1. CASE pane[p].args = "names"
    BY <1>3, <2>1, OpeningConstants DEF Talk!Identity, Talk!Known
  <2>2. CASE pane[p].args = "opaque"
    BY <2>2 DEF Talk!Identity, Talk!Known
  <2>3. CASE pane[p].args \notin {"names", "opaque"}
    BY <2>3 DEF Talk!Identity, Talk!Known, Talk!Told
  <2>. QED
    BY <2>1, <2>2, <2>3
<1>. HIDE DEF env, told, identity
<1>8. /\ to \in Panes /\ to.pc = "report" /\ to.env = env /\ to.told = told /\ to.named = own
      /\ to.args = pane[p].args
  BY <1>1, <1>5, <1>6 DEF Panes
<1>. HIDE DEF to
<1>9. /\ pane' \in [Pane -> Panes] /\ pane'[p] = to /\ \A q \in Pane \ {p} : pane'[q] = pane[q]
  BY <1>1, <1>4, <1>8
<1>10. \A h \in hooks : h.pane # p
  BY <1>1 DEF TalkInv, HooksWereIn
<1>11. TalkTyped'
  BY <1>1, <1>9 DEF TalkInv, TalkTyped
<1>12. CarriesOn(p)' /\ RecordCarried(p)' /\ NamesWhatRan(p)'
  BY <1>7, <1>8, <1>9 DEF CarriesOn, RecordCarried, NamesWhatRan
<1>. QED
  BY <1>1, <1>8, <1>9, <1>10, <1>11, <1>12, OtherPanes

LEMMA ReportsStep ==
  ASSUME TalkInv, NEW p \in Pane, Talk!Reports(p)
  PROVE  TalkInv'
<1>1. /\ UNCHANGED <<recipe, cli, context, hooks, moves, been>> /\ pane[p].pc = "report"
      /\ pane \in [Pane -> Panes] /\ record \in [Pane -> Conversation] /\ remembered \subseteq Id
      /\ pane' = [pane EXCEPT ![p].pc = "start"]
  BY DEF Talk!Reports, TalkInv, TalkTyped
<1>2. /\ pane' \in [Pane -> Panes] /\ pane'[p].pc = "start" /\ \A q \in Pane \ {p} : pane'[q] = pane[q]
      /\ pane'[p].env = pane[p].env /\ pane'[p].args = pane[p].args /\ pane'[p].told = pane[p].told
      /\ pane'[p].named = pane[p].named
  BY <1>1 DEF Panes
<1>3. /\ record' \in [Pane -> Conversation] /\ remembered' \subseteq Id
      /\ \A q \in Pane \ {p} : record'[q] = record[q] /\ (q \in amiss' <=> q \in amiss)
      /\ p \notin amiss' => record'[p] = pane[p].env
  <2>1. pane[p].env \in Conversation
    BY <1>1 DEF Panes
  <2>. QED
    BY <1>1, <2>1 DEF Talk!Reports, Talk!Recorded, Conversation
<1>4. \A h \in hooks : h.pane # p
  BY <1>1 DEF TalkInv, HooksWereIn
<1>5. TalkTyped'
  BY <1>1, <1>2, <1>3 DEF TalkInv, TalkTyped
<1>6. CarriesOn(p)
  BY DEF TalkInv
<1>7. CarriesOn(p)' /\ RecordCarried(p)' /\ NamesWhatRan(p)'
  BY <1>1, <1>2, <1>3, <1>6 DEF CarriesOn, RecordCarried, NamesWhatRan
<1>. QED
  BY <1>1, <1>2, <1>3, <1>4, <1>5, <1>7, OtherPanes

\* A CLI that enters a conversation says so, if it reports.
LEMMA EntersOne ==
  ASSUME TalkInv, NEW p \in Pane, NEW c \in Id, Talk!Enters(p, c)
  PROVE  /\ cli' \in [Pane -> Conversation] /\ cli'[p] = c /\ c \in been'[p]
         /\ been' \in [Pane -> SUBSET Id] /\ been[p] \subseteq been'[p]
         /\ \A q \in Pane \ {p} : cli'[q] = cli[q] /\ been'[q] = been[q]
         /\ hooks' \subseteq [pane : Pane, says : Id] /\ hooks \subseteq hooks'
         /\ \A h \in hooks' : h \in hooks \/ (h.pane = p /\ h.says = c)
         /\ recipe.reports => \E h \in hooks' : h.pane = p
<1>1. [pane |-> p, says |-> c] \in [pane : Pane, says : Id]
  OBVIOUS
<1>2. been' \in [Pane -> SUBSET Id] /\ c \in been'[p] /\ been[p] \subseteq been'[p]
  BY DEF Talk!Enters, TalkInv, TalkTyped
<1>3. /\ cli' \in [Pane -> Conversation] /\ cli'[p] = c
      /\ \A q \in Pane \ {p} : cli'[q] = cli[q] /\ been'[q] = been[q]
  BY DEF Talk!Enters, TalkInv, TalkTyped, Conversation
<1>. DEFINE new == [pane |-> p, says |-> c]
<1>4. hooks' = (IF recipe.reports THEN hooks \cup {new} ELSE hooks) /\ hooks \subseteq [pane : Pane, says : Id]
  BY DEF Talk!Enters, TalkInv, TalkTyped
<1>5. new \in [pane : Pane, says : Id] /\ new.pane = p /\ new.says = c
  OBVIOUS
<1>. HIDE DEF new
<1>6. /\ hooks' \subseteq [pane : Pane, says : Id] /\ hooks \subseteq hooks'
      /\ \A h \in hooks' : h \in hooks \/ (h.pane = p /\ h.says = c)
      /\ recipe.reports => \E h \in hooks' : h.pane = p
  BY <1>4, <1>5
<1>. QED
  BY <1>2, <1>3, <1>6

LEMMA StartsCliStep ==
  ASSUME TalkInv, NEW p \in Pane, Talk!StartsCli(p)
  PROVE  TalkInv'
<1>1. /\ UNCHANGED <<recipe, record, remembered, context, moves, drops, amiss>> /\ pane[p].pc = "start"
      /\ pane \in [Pane -> Panes] /\ pane[p] \in Panes /\ remembered \subseteq Id
      /\ pane' = [pane EXCEPT ![p].pc = "runs"] /\ CarriesOn(p) /\ RecordCarried(p)
  BY DEF Talk!StartsCli, TalkInv, TalkTyped
<1>2. PICK c \in (IF pane[p].args = "names" THEN {pane[p].named}
                  ELSE IF pane[p].args = "opaque" THEN Talk!Fresh \cup remembered
                  ELSE IF pane[p].told # None THEN {pane[p].told} ELSE Talk!Fresh) : Talk!Enters(p, c)
  BY DEF Talk!StartsCli
<1>3. pane[p].args = "names" => pane[p].named \in Id
  BY <1>1 DEF CarriesOn
<1>4. c \in Id
  BY <1>1, <1>2, <1>3 DEF Panes, Conversation, Talk!Fresh
<1>5. p \notin amiss => record[p] \in {c, None}
  BY <1>1, <1>2 DEF CarriesOn, RecordCarried
<1>6. /\ cli' \in [Pane -> Conversation] /\ cli'[p] = c /\ c \in been'[p]
      /\ been' \in [Pane -> SUBSET Id] /\ been[p] \subseteq been'[p]
      /\ \A q \in Pane \ {p} : cli'[q] = cli[q] /\ been'[q] = been[q]
      /\ hooks' \subseteq [pane : Pane, says : Id] /\ hooks \subseteq hooks'
      /\ \A h \in hooks' : h \in hooks \/ (h.pane = p /\ h.says = c)
      /\ recipe.reports => \E h \in hooks' : h.pane = p
  BY <1>2, <1>4, EntersOne
<1>7. pane' \in [Pane -> Panes] /\ pane'[p].pc = "runs" /\ \A q \in Pane \ {p} : pane'[q] = pane[q]
  BY <1>1 DEF Panes
<1>8. \A h \in hooks : h.pane # p
  BY <1>1 DEF TalkInv, HooksWereIn
<1>9. TalkTyped'
  BY <1>1, <1>6, <1>7 DEF TalkInv, TalkTyped
<1>10. CarriesOn(p)' /\ RecordCarried(p)' /\ NamesWhatRan(p)'
  BY <1>1, <1>5, <1>6, <1>7 DEF CarriesOn, RecordCarried, NamesWhatRan
<1>. QED
  BY <1>1, <1>6, <1>7, <1>8, <1>9, <1>10, OtherPanes

LEMMA MovesStep ==
  ASSUME TalkInv, NEW p \in Pane, Talk!Moves(p)
  PROVE  TalkInv'
<1>1. /\ UNCHANGED <<recipe, pane, record, remembered, context, drops, amiss>> /\ pane[p].pc = "runs"
      /\ remembered \subseteq Id
  BY DEF Talk!Moves, TalkInv, TalkTyped
<1>2. PICK c \in Id : Talk!Enters(p, c)
  BY <1>1 DEF Talk!Moves, Talk!Fresh
<1>3. /\ cli' \in [Pane -> Conversation] /\ cli'[p] = c /\ c \in been'[p]
      /\ been' \in [Pane -> SUBSET Id] /\ been[p] \subseteq been'[p]
      /\ \A q \in Pane \ {p} : cli'[q] = cli[q] /\ been'[q] = been[q]
      /\ hooks' \subseteq [pane : Pane, says : Id] /\ hooks \subseteq hooks'
      /\ \A h \in hooks' : h \in hooks \/ (h.pane = p /\ h.says = c)
      /\ recipe.reports => \E h \in hooks' : h.pane = p
  BY <1>2, EntersOne
<1>4. TalkTyped'
  BY <1>1, <1>3 DEF TalkInv, TalkTyped
<1>5. NamesWhatRan(p)
  BY DEF TalkInv
<1>6. CarriesOn(p)' /\ RecordCarried(p)' /\ NamesWhatRan(p)'
  BY <1>1, <1>3, <1>5 DEF CarriesOn, RecordCarried, NamesWhatRan
<1>7. \A h \in hooks' : h.pane = p => h.says \in been'[p]
  BY <1>3 DEF TalkInv, HooksWereIn
<1>. QED
  BY <1>1, <1>3, <1>4, <1>6, <1>7, OtherPanes

LEMMA HookStep ==
  ASSUME TalkInv, NEW h \in hooks, Talk!HookReports(h)
  PROVE  TalkInv'
<1>. DEFINE p == h.pane
<1>1. /\ UNCHANGED <<recipe, pane, cli, moves, been>> /\ hooks' = hooks \ {h}
      /\ p \in Pane /\ h.says \in Id /\ h.says \in been[p] /\ pane[p].pc = "runs"
  BY DEF Talk!HookReports, TalkInv, TalkTyped, HooksWereIn
<1>2. /\ record' \in [Pane -> Conversation] /\ remembered' \subseteq Id
      /\ \A q \in Pane \ {p} : record'[q] = record[q] /\ (q \in amiss' <=> q \in amiss)
      /\ p \notin amiss' => record'[p] = h.says /\ h.says = cli[p]
  BY <1>1 DEF Talk!HookReports, Talk!Recorded, TalkInv, TalkTyped, Conversation
<1>. HIDE DEF p
<1>3. TalkTyped'
  BY <1>1, <1>2 DEF TalkInv, TalkTyped
<1>4. CarriesOn(p)' /\ RecordCarried(p)' /\ NamesWhatRan(p)'
  BY <1>1, <1>2 DEF CarriesOn, RecordCarried, NamesWhatRan
<1>5. \A g \in hooks \cup hooks' : g.pane # p => g \in hooks /\ g \in hooks'
  BY <1>1 DEF p
<1>6. /\ \A g \in hooks' : g.pane = p => pane'[p].pc = "runs" /\ g.says \in been'[p]
      /\ cli'[p] \in been'[p]
  BY <1>1 DEF TalkInv, HooksWereIn
<1>. QED
  BY <1>1, <1>2, <1>3, <1>4, <1>5, <1>6, OtherPanes

LEMMA EndsPane ==
  ASSUME TalkInv, NEW p \in Pane, Talk!Ends(p)
  PROVE  TalkInv'
<1>1. /\ UNCHANGED <<recipe, remembered, context, used, moves, drops>>
      /\ pane' = [pane EXCEPT ![p] = Talk!NoPane] /\ record' = [record EXCEPT ![p] = None]
      /\ cli' = [cli EXCEPT ![p] = None] /\ been' = [been EXCEPT ![p] = {}]
      /\ hooks' = {h \in hooks : h.pane # p} /\ amiss' = amiss \ {p}
  BY DEF Talk!Ends
<1>2. Talk!NoPane \in Panes /\ Talk!NoPane.pc = "none"
  BY DEF Talk!NoPane, Panes, Conversation, Talk!OwnArgs
<1>3. /\ pane' \in [Pane -> Panes] /\ record' \in [Pane -> Conversation] /\ cli' \in [Pane -> Conversation]
      /\ been' \in [Pane -> SUBSET Id] /\ pane'[p].pc = "none"
      /\ \A q \in Pane \ {p} : /\ pane'[q] = pane[q] /\ record'[q] = record[q] /\ cli'[q] = cli[q]
                               /\ been'[q] = been[q]
  BY <1>1, <1>2 DEF TalkInv, TalkTyped, Conversation
<1>4. TalkTyped'
  BY <1>1, <1>3 DEF TalkInv, TalkTyped
<1>5. CarriesOn(p)' /\ RecordCarried(p)' /\ NamesWhatRan(p)'
  BY <1>3 DEF CarriesOn, RecordCarried, NamesWhatRan
<1>. QED
  BY <1>1, <1>3, <1>4, <1>5, OtherPanes

LEMMA TalkStep ==
  ASSUME TalkInv, Talk!ConversationNext
  PROVE  TalkInv'
BY SpawnsStep, ChoosesStep, DecidesStep, ReportsStep, StartsCliStep, MovesStep, RestartsStep, EndsPane, HookStep
   DEF Talk!ConversationNext

LEMMA TalkElsewhere ==
  ASSUME TalkInv, UNCHANGED talk
  PROVE  TalkInv'
BY DEF talk, TalkInv, TalkTyped, HooksWereIn, CarriesOn, RecordCarried, NamesWhatRan

\* The conversation a pane is recorded with, and resumed in, is one its CLI was in, and the one it is
\* in once it said so, unless a report was lost or came late (launch_plan, report_session).
THEOREM RecordsAreTrue == AnySpec => []RecordNamesWhatRan
<1>1. AnyInit => TalkInv
  BY TalkStarts DEF AnyInit
<1>2. TalkInv /\ [AnyNext]_<<part, vars, launch, control, talk, tools>> => TalkInv'
  <2>1. CASE OfTalk
    BY <2>1, TalkStep DEF OfTalk
  <2>2. CASE UNCHANGED talk
    BY <2>2, TalkElsewhere
  <2>. QED
    BY <2>1, <2>2 DEF AnyNext, OfFeed, OfLaunch, OfControl, OfTools
<1>3. TalkInv => RecordNamesWhatRan
  BY DEF TalkInv, NamesWhatRan, RecordNamesWhatRan, Talk!RecordNamesWhatRan
<1>. QED
  BY <1>1, <1>2, <1>3, PTL DEF AnySpec

-----------------------------------------------------------------------------
\* ToolFacade: the worker is what is published, and a request runs as the agent it was sent by.

Steps   == {"idle", "ready", "starts", "ask", "scoped", "gate", "act", "reply", "refuse"}
Handled == [pc : Steps, kind : Tools!Kinds, wants : Nat, as : Agent \cup {None}, again : BOOLEAN]
Process == [process : Nat, of : Nat]

FacadeTyped ==
  /\ published \in Nat /\ writes \in Nat /\ born \in Nat /\ deaths \in Nat
  /\ worker \in Process /\ loop \in Handled
  /\ watcher \in [pc : {"begins", "rests", "waits", "starts"}, seen : Nat, wants : Nat]
  /\ watcher.seen <= writes
  /\ reads \in [list : Nat \cup {None}, told : BOOLEAN] /\ names \in Agent
  /\ failed \in BOOLEAN /\ blind \in BOOLEAN /\ silent \in BOOLEAN

\* The facade is the request's or the watcher's, or nobody's.
FacadeLocked ==
  /\ held = "watcher" <=> watcher.pc = "starts"
  /\ held = "loop" <=> loop.pc # "idle"

\* While nothing was published that the watcher has not seen, what runs and what is started is
\* what is published.
IsPublished ==
  /\ worker.process # 0 => worker.of = published
  /\ loop.pc = "starts" => loop.wants = published
  /\ watcher.pc = "starts" => watcher.wants = published
WatcherKnows ==
  ~blind =>
    /\ watcher.pc = "begins" => IsPublished
    /\ watcher.pc = "rests" /\ watcher.seen = writes /\ ~failed => IsPublished
    /\ watcher.pc = "starts" /\ watcher.seen = writes => watcher.wants = published

\* A request has run once if its worker has done its part, and once before if that one was replaced.
Once(b) == IF b THEN 1 ELSE 0
RunsAtMost ==
  /\ IsFiniteSet(ran) /\ Cardinality(ran) <= Once(loop.again) + Once(loop.pc = "reply")
  /\ loop.again => deaths > 0
  /\ loop.pc = "idle" => ran = {} /\ ~loop.again

RunsFor ==
  /\ loop.pc # "idle" => names \in amid
  /\ loop.pc \in {"gate", "act"} /\ loop.kind # "plugin" => loop.as \in amid
  /\ \A r \in ran : loop.kind # "plugin" => r.as \in amid

FacadeInv ==
  /\ FacadeTyped /\ FacadeLocked /\ WatcherKnows /\ RunsAtMost /\ RunsFor
  /\ Tools!UpdateCostsNothing /\ Tools!ListIsTold

LEMMA FacadeStarts ==
  ASSUME Tools!FacadeInit
  PROVE  FacadeInv
<1>1. FacadeTyped
  <2>1. loop \in Handled
    BY DEF Tools!FacadeInit, Handled, Steps, Tools!Idle, Tools!Kinds
  <2>2. watcher \in [pc : {"begins", "rests", "waits", "starts"}, seen : Nat, wants : Nat] /\ watcher.seen = 0
    BY DEF Tools!FacadeInit
  <2>3. reads \in [list : Nat \cup {None}, told : BOOLEAN] /\ worker \in Process
    BY DEF Tools!FacadeInit, Process
  <2>4. published \in Nat /\ writes \in Nat /\ born \in Nat /\ deaths \in Nat /\ names \in Agent /\ writes = 0
    BY DEF Tools!FacadeInit
  <2>5. failed \in BOOLEAN /\ blind \in BOOLEAN /\ silent \in BOOLEAN
    BY Zenon DEF Tools!FacadeInit
  <2>. QED
    BY <2>1, <2>2, <2>3, <2>4, <2>5 DEF FacadeTyped
<1>2. /\ worker = [process |-> 1, of |-> 0] /\ published = 0 /\ ran = {} /\ deaths = 0 /\ alive = {1}
      /\ loop.pc = "idle" /\ loop.again = FALSE /\ watcher.pc = "begins" /\ held = "nobody" /\ reads.list = None
  BY DEF Tools!FacadeInit, Tools!Idle
<1>3. FacadeLocked /\ WatcherKnows /\ RunsFor
  BY <1>2 DEF FacadeLocked, WatcherKnows, RunsFor, IsPublished
<1>4. RunsAtMost
  BY <1>2, FS_EmptySet DEF RunsAtMost, Once
<1>5. Tools!UpdateCostsNothing /\ Tools!ListIsTold
  BY <1>2 DEF Tools!UpdateCostsNothing, Tools!ListIsTold
<1>. QED
  BY <1>1, <1>3, <1>4, <1>5 DEF FacadeInv

LEMMA PublishesStep ==
  ASSUME FacadeInv, Tools!Publishes
  PROVE  FacadeInv'
<1>1. /\ UNCHANGED <<worker, alive, born, held, loop, watcher, reads, names, ran, deaths, silent, amid>>
      /\ writes' = writes + 1 /\ published' \in Nat /\ failed' = FALSE
  BY DEF Tools!Publishes, FacadeInv, FacadeTyped
<1>2. blind' \in BOOLEAN /\ (~blind' => ~blind /\ watcher.pc # "begins")
  BY Zenon DEF Tools!Publishes
<1>3. FacadeTyped'
  <2>1. writes' \in Nat /\ watcher'.seen <= writes'
    BY <1>1 DEF FacadeInv, FacadeTyped
  <2>2. failed' \in BOOLEAN
    BY <1>1, Zenon
  <2>. QED
    BY <1>1, <1>2, <2>1, <2>2 DEF FacadeInv, FacadeTyped
<1>4. WatcherKnows'
  BY <1>1, <1>2 DEF FacadeInv, FacadeTyped, WatcherKnows
<1>. QED
  BY <1>1, <1>3, <1>4 DEF FacadeInv, FacadeLocked, RunsAtMost, RunsFor, Tools!UpdateCostsNothing, Tools!ListIsTold

LEMMA WorldChanges ==
  ASSUME FacadeInv, Tools!Dies \/ Tools!Changes
  PROVE  FacadeInv'
<1>1. CASE Tools!Dies
  <2>1. /\ UNCHANGED <<published, writes, worker, born, held, loop, watcher, reads, names, ran, failed, blind, silent, amid>>
        /\ deaths' \in Nat /\ deaths' > 0
    BY <1>1 DEF Tools!Dies, Tools!descriptorVars, Tools!historyVars, FacadeInv, FacadeTyped
  <2>2. FacadeTyped' /\ FacadeLocked' /\ WatcherKnows'
    BY <2>1 DEF FacadeInv, FacadeTyped, FacadeLocked, WatcherKnows, IsPublished
  <2>3. RunsAtMost' /\ RunsFor'
    BY <2>1 DEF FacadeInv, RunsAtMost, RunsFor
  <2>. QED
    BY <2>1, <2>2, <2>3 DEF FacadeInv, Tools!UpdateCostsNothing, Tools!ListIsTold
<1>2. CASE Tools!Changes
  <2>1. /\ UNCHANGED <<published, writes, worker, alive, born, held, loop, watcher, reads, ran, deaths, failed, blind, silent>>
        /\ names' \in Agent /\ amid' = IF loop.pc = "idle" THEN amid ELSE amid \cup {names'}
    BY <1>2 DEF Tools!Changes, Tools!descriptorVars, Tools!historyVars
  <2>2. FacadeTyped' /\ FacadeLocked' /\ WatcherKnows'
    BY <2>1 DEF FacadeInv, FacadeTyped, FacadeLocked, WatcherKnows, IsPublished
  <2>3. RunsAtMost' /\ RunsFor'
    BY <2>1 DEF FacadeInv, RunsAtMost, RunsFor
  <2>. QED
    BY <2>1, <2>2, <2>3 DEF FacadeInv, Tools!UpdateCostsNothing, Tools!ListIsTold
<1>. QED
  BY <1>1, <1>2

\* ready(): what runs is what was declared, or its candidate failed and what there was is kept.
LEMMA Readied ==
  ASSUME FacadeInv, NEW wants \in Nat, deaths' = deaths,
         \/ Tools!Current(wants) /\ Tools!Settled
         \/ Tools!Swaps(wants)
         \/ Tools!KeepsPrevious
  PROVE  /\ worker' \in Process /\ born' \in Nat /\ reads' \in [list : Nat \cup {None}, told : BOOLEAN]
         /\ failed' \in BOOLEAN /\ silent' \in BOOLEAN
         /\ failed' = TRUE \/ (failed' = failed /\ worker'.of = wants)
         /\ worker' = worker \/ worker'.of = wants
         /\ Tools!UpdateCostsNothing' /\ Tools!ListIsTold'
<1>0. FacadeTyped /\ Tools!UpdateCostsNothing /\ Tools!ListIsTold
  BY DEF FacadeInv
<1>1. CASE Tools!Current(wants) /\ Tools!Settled
  BY <1>0, <1>1 DEF Tools!Settled, Tools!Current, FacadeTyped, Tools!UpdateCostsNothing, Tools!ListIsTold
<1>2. CASE Tools!KeepsPrevious
  <2>1. UNCHANGED <<worker, alive, born, reads, silent>> /\ failed' = TRUE
    BY <1>2 DEF Tools!KeepsPrevious, Tools!Kept
  <2>. QED
    BY <1>0, <2>1 DEF FacadeTyped, Tools!UpdateCostsNothing, Tools!ListIsTold
<1>3. CASE Tools!Swaps(wants)
  <2>1. /\ born' = born + 1 /\ worker' = [process |-> born + 1, of |-> wants]
        /\ alive' = (alive \ {worker.process}) \cup {born + 1} /\ failed' = failed
        /\ reads' = IF worker.process # 0 THEN [reads EXCEPT !.told = TRUE] ELSE reads
    BY <1>3 DEF Tools!Swaps
  <2>2. silent' \in BOOLEAN /\ (worker.process = 0 => silent')
    BY <1>3, Zenon DEF Tools!Swaps
  <2>3. worker' \in Process /\ born' \in Nat /\ worker'.of = wants /\ worker'.process = born + 1
    BY <1>0, <2>1 DEF FacadeTyped, Process
  <2>4. /\ reads' \in [list : Nat \cup {None}, told : BOOLEAN]
        /\ reads'.list = reads.list /\ (worker.process # 0 => reads'.told)
    BY <1>0, <2>1 DEF FacadeTyped
  <2>5. Tools!UpdateCostsNothing'
    BY <1>0, <2>1, <2>3 DEF Tools!UpdateCostsNothing
  <2>6. Tools!ListIsTold'
    BY <2>2, <2>4 DEF Tools!ListIsTold
  <2>. QED
    BY <1>0, <2>1, <2>2, <2>3, <2>4, <2>5, <2>6 DEF FacadeTyped
<1>. QED
  BY <1>1, <1>2, <1>3

LEMMA WatcherStep ==
  ASSUME FacadeInv, Tools!Begins \/ Tools!Looks \/ Tools!WatcherReads
  PROVE  FacadeInv'
<1>0. FacadeTyped
  BY DEF FacadeInv
<1>1. UNCHANGED <<published, writes, worker, alive, born, loop, reads, names, ran, deaths, failed, blind, silent, amid>>
  BY DEF Tools!Begins, Tools!Looks, Tools!WatcherReads, Tools!descriptorVars, Tools!historyVars
<1>2. /\ watcher' \in [pc : {"begins", "rests", "waits", "starts"}, seen : Nat, wants : Nat]
      /\ watcher'.seen <= writes
  <2>. PICK now \in Nat : now = writes
    BY <1>0 DEF FacadeTyped
  <2>0. /\ watcher \in [pc : {"begins", "rests", "waits", "starts"}, seen : Nat, wants : Nat]
        /\ watcher.seen <= now /\ published \in Nat
    BY <1>0 DEF FacadeTyped
  <2>1. CASE watcher' = [watcher EXCEPT !.pc = "rests", !.seen = now]
    <3>. DEFINE to == [watcher EXCEPT !.pc = "rests", !.seen = now]
    <3>1. to \in [pc : {"begins", "rests", "waits", "starts"}, seen : Nat, wants : Nat] /\ to.seen = now
      BY <2>0
    <3>. QED
      BY <2>1, <3>1
  <2>2. CASE watcher' = [watcher EXCEPT !.pc = "waits", !.seen = now]
    <3>. DEFINE to == [watcher EXCEPT !.pc = "waits", !.seen = now]
    <3>1. to \in [pc : {"begins", "rests", "waits", "starts"}, seen : Nat, wants : Nat] /\ to.seen = now
      BY <2>0
    <3>. QED
      BY <2>2, <3>1
  <2>3. CASE watcher' = [watcher EXCEPT !.pc = "starts", !.wants = published]
    BY <2>0, <2>3
  <2>. QED
    BY <2>1, <2>2, <2>3 DEF Tools!Begins, Tools!Looks, Tools!WatcherReads
<1>3. FacadeTyped'
  BY <1>0, <1>1, <1>2 DEF FacadeTyped
<1>4. RunsAtMost' /\ RunsFor' /\ Tools!UpdateCostsNothing' /\ Tools!ListIsTold'
  BY <1>1 DEF FacadeInv, RunsAtMost, RunsFor, Tools!UpdateCostsNothing, Tools!ListIsTold
<1>5. CASE Tools!Begins
  <2>1. watcher.pc = "begins" /\ watcher'.pc = "rests" /\ held' = held
    BY <1>0, <1>5 DEF Tools!Begins, FacadeTyped
  <2>2. FacadeLocked' /\ WatcherKnows'
    BY <1>1, <2>1 DEF FacadeInv, FacadeLocked, WatcherKnows, IsPublished
  <2>. QED
    BY <1>3, <1>4, <2>2 DEF FacadeInv
<1>6. CASE Tools!Looks
  <2>1. watcher.pc = "rests" /\ watcher'.pc = "waits" /\ held' = held
    BY <1>0, <1>6 DEF Tools!Looks, FacadeTyped
  <2>2. FacadeLocked' /\ WatcherKnows'
    BY <1>1, <2>1 DEF FacadeInv, FacadeLocked, WatcherKnows
  <2>. QED
    BY <1>3, <1>4, <2>2 DEF FacadeInv
<1>7. CASE Tools!WatcherReads
  <2>1. watcher'.pc = "starts" /\ held' = "watcher" /\ held = "nobody" /\ watcher'.wants = published
    BY <1>0, <1>7 DEF Tools!WatcherReads, FacadeTyped
  <2>2. FacadeLocked' /\ WatcherKnows'
    BY <1>1, <2>1 DEF FacadeInv, FacadeLocked, WatcherKnows
  <2>. QED
    BY <1>3, <1>4, <2>2 DEF FacadeInv
<1>. QED
  BY <1>5, <1>6, <1>7

LEMMA WatcherReadies ==
  ASSUME FacadeInv, Tools!WatcherStarts
  PROVE  FacadeInv'
<1>0. FacadeTyped /\ watcher.wants \in Nat
  BY DEF FacadeInv, FacadeTyped
<1>1. UNCHANGED <<published, writes, loop, names, ran, deaths, blind, amid>> /\ watcher.pc = "starts" /\ held' = "nobody"
  BY DEF Tools!WatcherStarts, Tools!descriptorVars
<1>2. /\ watcher' \in [pc : {"begins", "rests", "waits", "starts"}, seen : Nat, wants : Nat]
      /\ watcher'.seen = watcher.seen /\ watcher'.pc = "rests"
  BY <1>0 DEF Tools!WatcherStarts, FacadeTyped
<1>3. /\ worker' \in Process /\ born' \in Nat /\ reads' \in [list : Nat \cup {None}, told : BOOLEAN]
      /\ failed' \in BOOLEAN /\ silent' \in BOOLEAN
      /\ failed' = TRUE \/ (failed' = failed /\ worker'.of = watcher.wants)
      /\ Tools!UpdateCostsNothing' /\ Tools!ListIsTold'
  BY <1>0, <1>1, Readied DEF Tools!WatcherStarts
<1>4. FacadeTyped'
  BY <1>0, <1>1, <1>2, <1>3 DEF FacadeTyped
<1>5. loop.pc = "idle"
  BY <1>1 DEF FacadeInv, FacadeLocked
<1>6. FacadeLocked'
  BY <1>1, <1>2, <1>5 DEF FacadeLocked
<1>7. WatcherKnows'
  BY <1>1, <1>2, <1>3, <1>5 DEF FacadeInv, WatcherKnows, IsPublished
<1>8. RunsAtMost' /\ RunsFor'
  BY <1>1 DEF FacadeInv, RunsAtMost, RunsFor
<1>. QED
  BY <1>3, <1>4, <1>6, <1>7, <1>8 DEF FacadeInv

\* A request that was answered is none, and the next one starts anew.
LEMMA AnsweredTo ==
  ASSUME FacadeInv, Tools!Answered
  PROVE  /\ loop' \in Handled /\ loop'.pc = "idle" /\ held' = "nobody" /\ (loop.pc # "idle" => FacadeLocked' \/ watcher' # watcher)
         /\ (deaths' = deaths => RunsAtMost') /\ RunsFor'
<1>1. loop' = Tools!Idle /\ held' = "nobody" /\ ran' = {}
  BY DEF Tools!Answered
<1>2. loop' \in Handled /\ loop'.pc = "idle" /\ loop'.again = FALSE
  BY <1>1 DEF Tools!Idle, Handled, Steps, Tools!Kinds
<1>3. RunsAtMost'
  BY <1>1, <1>2, FS_EmptySet DEF RunsAtMost, Once
<1>4. RunsFor'
  BY <1>1, <1>2 DEF RunsFor
<1>5. loop.pc # "idle" => FacadeLocked' \/ watcher' # watcher
  BY <1>1, <1>2 DEF FacadeInv, FacadeLocked
<1>. QED
  BY <1>1, <1>2, <1>3, <1>4, <1>5

\* A request that goes on has run as often as before.
LEMMA GoesTo ==
  ASSUME FacadeInv, NEW pc \in Steps \ {"idle"}, Tools!Goes(pc), loop.pc # "idle", loop.pc # "reply" \/ pc = "reply",
         deaths' = deaths, names' = names,
         pc \in {"gate", "act"} /\ loop.kind # "plugin" => loop.as \in amid
  PROVE  /\ loop' \in Handled /\ loop'.pc = pc /\ loop'.kind = loop.kind /\ held' = held
         /\ RunsAtMost' /\ RunsFor'
<1>1. loop' = [loop EXCEPT !.pc = pc, !.wants = 0] /\ UNCHANGED <<held, ran, amid>> /\ loop \in Handled
  BY DEF Tools!Goes, FacadeInv, FacadeTyped
<1>2. /\ loop' \in Handled /\ loop'.pc = pc /\ loop'.kind = loop.kind /\ loop'.as = loop.as
      /\ loop'.again = loop.again
  BY <1>1 DEF Handled
<1>3. Once(loop.pc = "reply") <= Once(pc = "reply") /\ Once(pc = "reply") \in Nat /\ Once(loop.pc = "reply") \in Nat
  BY DEF Once
<1>4. RunsAtMost'
  <2>1. Cardinality(ran) \in Nat /\ Once(loop.again) \in Nat
    BY FS_CardinalityType DEF FacadeInv, RunsAtMost, Once
  <2>2. Cardinality(ran) <= Once(loop.again) + Once(pc = "reply")
    BY <1>3, <2>1 DEF FacadeInv, RunsAtMost
  <2>. QED
    BY <1>1, <1>2, <2>2 DEF FacadeInv, RunsAtMost
<1>5. RunsFor'
  BY <1>1, <1>2 DEF FacadeInv, RunsFor
<1>. QED
  BY <1>1, <1>2, <1>4, <1>5

LEMMA SendsStep ==
  ASSUME FacadeInv, Tools!Sends
  PROVE  FacadeInv'
<1>1. /\ UNCHANGED <<published, writes, worker, alive, born, watcher, reads, names, deaths, failed, blind, silent>>
      /\ loop.pc = "idle" /\ held = "nobody" /\ held' = "loop" /\ ran' = {} /\ amid' = {names}
  BY DEF Tools!Sends, Tools!descriptorVars, Tools!historyVars
<1>2. loop' \in Handled /\ loop'.pc = "ready" /\ loop'.again = FALSE
  <2>1. PICK kind \in Tools!Kinds : loop' = [Tools!Idle EXCEPT !.pc = "ready", !.kind = kind]
    BY DEF Tools!Sends
  <2>. QED
    BY <2>1 DEF Tools!Idle, Handled, Steps
<1>3. FacadeTyped'
  BY <1>1, <1>2 DEF FacadeInv, FacadeTyped
<1>4. FacadeLocked' /\ WatcherKnows'
  BY <1>1, <1>2 DEF FacadeInv, FacadeLocked, WatcherKnows, IsPublished
<1>5. RunsAtMost'
  BY <1>1, <1>2, FS_EmptySet DEF RunsAtMost, Once
<1>6. RunsFor' /\ Tools!UpdateCostsNothing' /\ Tools!ListIsTold'
  BY <1>1, <1>2 DEF FacadeInv, RunsFor, Tools!UpdateCostsNothing, Tools!ListIsTold
<1>. QED
  BY <1>3, <1>4, <1>5, <1>6 DEF FacadeInv

LEMMA LoopReads ==
  ASSUME FacadeInv, Tools!Reads
  PROVE  FacadeInv'
<1>1. /\ UNCHANGED <<published, writes, worker, alive, born, held, watcher, reads, names, ran, deaths, failed, blind,
                     silent, amid>>
      /\ loop.pc = "ready" /\ loop \in Handled /\ published \in Nat
  BY DEF Tools!Reads, Tools!descriptorVars, Tools!historyVars, FacadeInv, FacadeTyped
<1>2. /\ loop' \in Handled /\ loop'.pc = "starts" /\ loop'.wants = published /\ loop'.again = loop.again
      /\ loop'.kind = loop.kind
  BY <1>1 DEF Tools!Reads, Handled, Steps
<1>3. FacadeTyped'
  BY <1>1, <1>2 DEF FacadeInv, FacadeTyped
<1>4. FacadeLocked' /\ WatcherKnows'
  BY <1>1, <1>2 DEF FacadeInv, FacadeLocked, WatcherKnows, IsPublished
<1>5. RunsAtMost' /\ RunsFor' /\ Tools!UpdateCostsNothing' /\ Tools!ListIsTold'
  BY <1>1, <1>2 DEF FacadeInv, RunsAtMost, RunsFor, Once, Tools!UpdateCostsNothing, Tools!ListIsTold
<1>. QED
  BY <1>3, <1>4, <1>5 DEF FacadeInv

LEMMA LoopReadies ==
  ASSUME FacadeInv, Tools!Starts
  PROVE  FacadeInv'
<1>0. FacadeTyped /\ loop.wants \in Nat
  BY DEF FacadeInv, FacadeTyped, Handled
<1>1. UNCHANGED <<published, writes, watcher, names, deaths, blind>> /\ loop.pc = "starts"
  BY DEF Tools!Starts, Tools!descriptorVars
<1>2. /\ worker' \in Process /\ born' \in Nat /\ reads' \in [list : Nat \cup {None}, told : BOOLEAN]
      /\ failed' \in BOOLEAN /\ silent' \in BOOLEAN
      /\ failed' = TRUE \/ (failed' = failed /\ worker'.of = loop.wants)
      /\ worker' = worker \/ worker'.of = loop.wants
      /\ Tools!UpdateCostsNothing' /\ Tools!ListIsTold'
  BY <1>0, <1>1, Readied DEF Tools!Starts
<1>3. \/ Tools!Goes("ask")
      \/ Tools!Answered
  BY DEF Tools!Starts
<1>4. /\ loop' \in Handled /\ loop'.pc \in {"ask", "idle"}
      /\ held' = IF loop'.pc = "idle" THEN "nobody" ELSE held
      /\ RunsAtMost' /\ RunsFor'
  <2>1. CASE Tools!Goes("ask")
    BY <1>1, <2>1, GoesTo DEF Steps
  <2>2. CASE Tools!Answered
    BY <1>1, <2>2, AnsweredTo
  <2>. QED
    BY <1>3, <2>1, <2>2
<1>5. FacadeTyped'
  BY <1>0, <1>1, <1>2, <1>4 DEF FacadeTyped
<1>6. FacadeLocked'
  BY <1>1, <1>4 DEF FacadeInv, FacadeLocked
<1>7. WatcherKnows'
  BY <1>1, <1>2, <1>4 DEF FacadeInv, FacadeLocked, WatcherKnows, IsPublished
<1>. QED
  BY <1>2, <1>4, <1>5, <1>6, <1>7 DEF FacadeInv

\* A worker that is gone before anything else failed is a worker that died.
LEMMA BrokenStep ==
  ASSUME FacadeInv, Tools!Broken
  PROVE  FacadeInv'
<1>0. FacadeTyped
  BY DEF FacadeInv
<1>1. /\ UNCHANGED <<published, writes, alive, born, watcher, names, deaths, failed, blind, reads, silent>>
      /\ loop.pc \in {"ask", "scoped", "gate", "act", "reply", "refuse"} /\ worker.process \notin alive
  BY DEF Tools!Broken, Tools!workspaceVars, Tools!descriptorVars, Tools!Runs
<1>2. deaths > 0
  BY <1>0, <1>1 DEF FacadeInv, FacadeTyped, Tools!UpdateCostsNothing
<1>3. Tools!UpdateCostsNothing'
  BY <1>1, <1>2 DEF Tools!UpdateCostsNothing
<1>4. CASE Tools!Answered /\ worker' = worker
  <2>1. loop' \in Handled /\ loop'.pc = "idle" /\ held' = "nobody" /\ RunsAtMost' /\ RunsFor'
    BY <1>1, <1>4, AnsweredTo
  <2>2. FacadeTyped' /\ FacadeLocked' /\ WatcherKnows' /\ Tools!ListIsTold'
    BY <1>0, <1>1, <1>4, <2>1
       DEF FacadeInv, FacadeTyped, FacadeLocked, WatcherKnows, IsPublished, Tools!ListIsTold
  <2>. QED
    BY <1>3, <2>1, <2>2 DEF FacadeInv
<1>5. CASE /\ ~loop.again /\ worker' = Tools!NoWorker
           /\ loop' = [loop EXCEPT !.pc = "ready", !.as = None, !.again = TRUE]
           /\ UNCHANGED <<held, ran, amid>>
  <2>1. worker' \in Process /\ worker'.process = 0
    BY <1>5 DEF Tools!NoWorker, Process
  <2>2. loop \in Handled
    BY <1>0 DEF FacadeTyped
  <2>. DEFINE to == [loop EXCEPT !.pc = "ready", !.as = None, !.again = TRUE]
  <2>3. to \in Handled /\ to.pc = "ready" /\ to.again = TRUE /\ to.kind = loop.kind
    BY <2>2 DEF Handled, Steps
  <2>4. loop' = to
    BY <1>5
  <2>. HIDE DEF to
  <2>5. FacadeTyped' /\ FacadeLocked' /\ WatcherKnows' /\ Tools!ListIsTold'
    BY <1>0, <1>1, <1>5, <2>1, <2>3, <2>4
       DEF FacadeInv, FacadeTyped, FacadeLocked, WatcherKnows, IsPublished, Tools!ListIsTold
  <2>6. RunsAtMost'
    <3>1. Cardinality(ran) \in Nat /\ IsFiniteSet(ran)
      BY FS_CardinalityType DEF FacadeInv, RunsAtMost
    <3>2. Cardinality(ran) <= 1
      BY <1>5, <3>1 DEF FacadeInv, RunsAtMost, Once
    <3>. QED
      BY <1>1, <1>2, <1>5, <2>3, <2>4, <3>1, <3>2 DEF RunsAtMost, Once
  <2>7. RunsFor'
    BY <1>1, <1>5, <2>3, <2>4 DEF FacadeInv, RunsFor
  <2>. QED
    BY <1>3, <2>5, <2>6, <2>7 DEF FacadeInv
<1>. QED
  BY <1>4, <1>5 DEF Tools!Broken

LEMMA AnswersStep ==
  ASSUME FacadeInv, Tools!Asks \/ Tools!Gates
  PROVE  FacadeInv'
<1>0. FacadeTyped /\ loop \in Handled
  BY DEF FacadeInv, FacadeTyped
<1>1. /\ UNCHANGED <<published, writes, worker, alive, born, watcher, names, deaths, failed, blind, reads, silent>>
      /\ loop.pc \in {"ask", "gate"}
  BY DEF Tools!Asks, Tools!Gates, Tools!workspaceVars, Tools!descriptorVars
<1>2. \E pc \in {"reply", "act", "scoped", "refuse"} :
        Tools!Goes(pc) /\ (pc = "act" => loop.pc = "gate" \/ loop.kind = "plugin")
  <2>1. CASE Tools!Asks
    <3>1. loop.kind = "list" => Tools!Goes("reply")
      BY <2>1 DEF Tools!Asks
    <3>2. loop.kind = "plugin" => Tools!Goes("act")
      BY <2>1 DEF Tools!Asks
    <3>3. loop.kind \notin {"list", "plugin"} => Tools!Goes("scoped")
      BY <2>1 DEF Tools!Asks
    <3>. QED
      BY <3>1, <3>2, <3>3
  <2>2. CASE Tools!Gates
    BY <2>2 DEF Tools!Gates
  <2>. QED
    BY <2>1, <2>2
<1>3. PICK pc \in {"reply", "act", "scoped", "refuse"} :
        Tools!Goes(pc) /\ (pc = "act" => loop.pc = "gate" \/ loop.kind = "plugin")
  BY <1>2
<1>4. pc = "act" /\ loop.kind # "plugin" => loop.as \in amid
  BY <1>3 DEF FacadeInv, RunsFor
<1>5. loop' \in Handled /\ loop'.pc = pc /\ held' = held /\ RunsAtMost' /\ RunsFor'
  BY <1>1, <1>3, <1>4, GoesTo DEF Steps
<1>6. FacadeTyped' /\ FacadeLocked' /\ WatcherKnows'
  BY <1>0, <1>1, <1>5 DEF FacadeInv, FacadeTyped, FacadeLocked, WatcherKnows, IsPublished
<1>. QED
  BY <1>1, <1>5, <1>6 DEF FacadeInv, Tools!UpdateCostsNothing, Tools!ListIsTold

LEMMA ScopesStep ==
  ASSUME FacadeInv, Tools!Scopes
  PROVE  FacadeInv'
<1>0. FacadeTyped /\ loop \in Handled /\ names \in Agent
  BY DEF FacadeInv, FacadeTyped
<1>1. /\ UNCHANGED <<published, writes, worker, alive, born, watcher, names, deaths, failed, blind, reads, silent>>
      /\ loop.pc = "scoped"
  BY DEF Tools!Scopes, Tools!workspaceVars, Tools!descriptorVars
<1>2. /\ loop' \in Handled /\ loop'.pc \in {"gate", "act", "refuse"} /\ held' = held
      /\ RunsAtMost' /\ RunsFor'
  <2>1. CASE Tools!Goes("refuse")
    BY <1>1, <2>1, GoesTo DEF Steps
  <2>2. CASE /\ loop' = [loop EXCEPT !.as = names, !.pc = IF loop.kind = "gated" THEN "gate" ELSE "act"]
             /\ UNCHANGED <<held, ran, amid>>
    <3>. DEFINE to == [loop EXCEPT !.as = names, !.pc = IF loop.kind = "gated" THEN "gate" ELSE "act"]
    <3>1. /\ to \in Handled /\ to.pc \in {"gate", "act"} /\ to.as = names /\ to.again = loop.again
          /\ to.kind = loop.kind
      BY <1>0 DEF Handled, Steps
    <3>2. loop' = to
      BY <2>2
    <3>. HIDE DEF to
    <3>3. RunsAtMost'
      BY <1>1, <2>2, <3>1, <3>2 DEF FacadeInv, RunsAtMost, Once
    <3>4. RunsFor'
      BY <1>1, <2>2, <3>1, <3>2 DEF FacadeInv, RunsFor
    <3>. QED
      BY <2>2, <3>1, <3>2, <3>3, <3>4
  <2>. QED
    BY <2>1, <2>2 DEF Tools!Scopes
<1>3. FacadeTyped' /\ FacadeLocked' /\ WatcherKnows'
  BY <1>0, <1>1, <1>2 DEF FacadeInv, FacadeTyped, FacadeLocked, WatcherKnows, IsPublished
<1>. QED
  BY <1>1, <1>2, <1>3 DEF FacadeInv, Tools!UpdateCostsNothing, Tools!ListIsTold

LEMMA ActsStep ==
  ASSUME FacadeInv, Tools!Acts
  PROVE  FacadeInv'
<1>0. FacadeTyped /\ loop \in Handled
  BY DEF FacadeInv, FacadeTyped
<1>1. /\ UNCHANGED <<published, writes, worker, alive, born, held, watcher, names, deaths, failed, blind, reads,
                     silent, amid>>
      /\ loop.pc = "act" /\ loop' = [loop EXCEPT !.pc = "reply"]
      /\ ran' = ran \cup {[by |-> worker.process, as |-> loop.as]}
  BY DEF Tools!Acts, Tools!workspaceVars, Tools!descriptorVars
<1>2. /\ loop' \in Handled /\ loop'.pc = "reply" /\ loop'.again = loop.again
      /\ loop'.kind = loop.kind
  BY <1>0, <1>1 DEF Handled, Steps
<1>3. FacadeTyped' /\ FacadeLocked' /\ WatcherKnows'
  BY <1>0, <1>1, <1>2 DEF FacadeInv, FacadeTyped, FacadeLocked, WatcherKnows, IsPublished
<1>4. RunsAtMost'
  <2>. DEFINE r == [by |-> worker.process, as |-> loop.as]
  <2>1. IsFiniteSet(ran) /\ Cardinality(ran) <= Once(loop.again) + 0
    BY <1>1 DEF FacadeInv, RunsAtMost, Once
  <2>2. Cardinality(ran) \in Nat /\ Once(loop.again) \in Nat
    BY <2>1, FS_CardinalityType DEF Once
  <2>. HIDE DEF r
  <2>3. IsFiniteSet(ran \cup {r}) /\ Cardinality(ran \cup {r}) <= Cardinality(ran) + 1
    BY <2>1, <2>2, FS_AddElement
  <2>4. Cardinality(ran \cup {r}) \in Nat
    BY <2>3, FS_CardinalityType
  <2>5. ran' = ran \cup {r}
    BY <1>1 DEF r
  <2>6. Cardinality(ran') <= Once(loop.again) + 1
    BY <2>1, <2>2, <2>3, <2>4, <2>5
  <2>. QED
    BY <1>1, <1>2, <2>3, <2>5, <2>6 DEF FacadeInv, RunsAtMost, Once
<1>5. RunsFor'
  BY <1>1, <1>2 DEF FacadeInv, RunsFor
<1>. QED
  BY <1>1, <1>3, <1>4, <1>5 DEF FacadeInv, Tools!UpdateCostsNothing, Tools!ListIsTold

LEMMA RepliesStep ==
  ASSUME FacadeInv, Tools!Replies
  PROVE  FacadeInv'
<1>0. FacadeTyped
  BY DEF FacadeInv
<1>1. /\ UNCHANGED <<published, writes, worker, alive, born, watcher, names, deaths, failed, blind>>
      /\ loop.pc \in {"reply", "refuse"} /\ Tools!Answered
      /\ \/ reads' = [list |-> worker.of, told |-> FALSE] /\ silent' = FALSE
         \/ UNCHANGED <<reads, silent>>
  BY DEF Tools!Replies, Tools!workspaceVars, Tools!descriptorVars
<1>2. loop' \in Handled /\ loop'.pc = "idle" /\ held' = "nobody" /\ RunsAtMost' /\ RunsFor'
  BY <1>1, AnsweredTo
<1>3. reads' \in [list : Nat \cup {None}, told : BOOLEAN] /\ silent' \in BOOLEAN /\ Tools!ListIsTold'
  <2>1. CASE reads' = [list |-> worker.of, told |-> FALSE] /\ silent' = FALSE
    BY <1>0, <1>1, <2>1 DEF FacadeTyped, Process, Tools!ListIsTold
  <2>2. CASE UNCHANGED <<reads, silent>>
    BY <1>0, <1>1, <2>2 DEF FacadeTyped, FacadeInv, Tools!ListIsTold
  <2>. QED
    BY <1>1, <2>1, <2>2
<1>4. FacadeTyped' /\ FacadeLocked' /\ WatcherKnows'
  BY <1>0, <1>1, <1>2, <1>3 DEF FacadeInv, FacadeTyped, FacadeLocked, WatcherKnows, IsPublished
<1>. QED
  BY <1>1, <1>2, <1>3, <1>4 DEF FacadeInv, Tools!UpdateCostsNothing

LEMMA FacadeStep ==
  ASSUME FacadeInv, Tools!FacadeNext
  PROVE  FacadeInv'
BY PublishesStep, WorldChanges, WatcherStep, WatcherReadies, SendsStep, LoopReads, LoopReadies, BrokenStep,
   AnswersStep, ScopesStep, ActsStep, RepliesStep
   DEF Tools!FacadeNext

LEMMA FacadeElsewhere ==
  ASSUME FacadeInv, UNCHANGED tools
  PROVE  FacadeInv'
<1>. USE DEF tools, FacadeInv
<1>1. FacadeTyped' /\ FacadeLocked' /\ WatcherKnows'
  BY DEF FacadeTyped, FacadeLocked, WatcherKnows, IsPublished
<1>2. RunsAtMost' /\ RunsFor' /\ Tools!UpdateCostsNothing' /\ Tools!ListIsTold'
  BY DEF RunsAtMost, RunsFor, Tools!UpdateCostsNothing, Tools!ListIsTold
<1>. QED
  BY <1>1, <1>2

LEMMA FacadeHolds ==
  ASSUME FacadeInv
  PROVE  Tools!ToolsStay
<1>1. Tools!QuietIsCurrent
  BY DEF FacadeInv, WatcherKnows, IsPublished, Tools!QuietIsCurrent
<1>2. Tools!Cardinality(ran) <= 1 + deaths
  <2>1. Cardinality(ran) \in Nat /\ deaths \in Nat
    BY FS_CardinalityType DEF FacadeInv, RunsAtMost, FacadeTyped
  <2>2. Cardinality(ran) <= 1 + deaths
    BY <2>1 DEF FacadeInv, RunsAtMost, Once
  <2>3. Tools!Cardinality(ran) = Cardinality(ran)
    BY DEF Tools!Cardinality, Cardinality
  <2>. QED
    BY <2>2, <2>3
<1>3. Tools!RunsAsItself
  BY <1>2 DEF FacadeInv, RunsFor, Tools!RunsAsItself
<1>. QED
  BY <1>1, <1>3 DEF FacadeInv, Tools!ToolsStay

\* An agent keeps its tools over every update that fails, is brought to what is published and told,
\* and a call runs once for each worker that had it, as the agent its context names (ready, serve,
\* ask_once, scoped_state).
THEOREM ToolsAreKept == AnySpec => []ToolsStay
<1>1. AnyInit => FacadeInv
  BY FacadeStarts DEF AnyInit
<1>2. FacadeInv /\ [AnyNext]_<<part, vars, launch, control, talk, tools>> => FacadeInv'
  <2>1. CASE OfTools
    BY <2>1, FacadeStep DEF OfTools
  <2>2. CASE UNCHANGED tools
    BY <2>2, FacadeElsewhere
  <2>. QED
    BY <2>1, <2>2 DEF AnyNext, OfFeed, OfLaunch, OfControl, OfTalk
<1>3. FacadeInv => ToolsStay
  BY FacadeHolds DEF ToolsStay
<1>. QED
  BY <1>1, <1>2, <1>3, PTL DEF AnySpec
=============================================================================
