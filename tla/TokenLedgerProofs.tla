------------------------- MODULE TokenLedgerProofs -------------------------
(***************************************************************************)
(* Proofs about TokenLedger, for every number of agents, processes,        *)
(* windows, contests, lost writes and for every length of time.            *)
(***************************************************************************)
EXTENDS TokenLedger, TLAPS

\* what is true of every ledger, in memory or in the file
Sound(l, m) ==
  /\ l \in Ledgers
  /\ l.contest = NoContest \/ (/\ l.contest.id \in 1..m
                               /\ l.contest.agent \in Agent
                               /\ l.contest.agent # l.holder.agent)
  /\ l.contest.deadline = l.contest.openedAt + l.contest.window

LEMMA WindowsAreNumbers == \A w \in Windows : w \in Nat
  BY LedgerConstants

LEMMA FreeTyped == Free \in Holders
  BY DEF Free, Holders, OrNoOne, OrNoPid

LEMMA NoContestTyped == NoContest \in Contested
  BY DEF NoContest, Contested, OrNoOne, OrNoPid

LEMMA NothingSound == ASSUME NEW m \in Nat PROVE Sound(Nothing, m)
<1>1. Nothing \in Ledgers
  BY FreeTyped, NoContestTyped DEF Nothing, Ledgers
<1>. QED
  BY <1>1 DEF Sound, Nothing, NoContest

LEMMA HoldingTyped ==
  ASSUME NEW c \in Contested PROVE Holding(c) \in Holders /\ Holding(c).agent = c.agent
  BY DEF Contested, Holding, Holders

LEMMA SettledSound ==
  ASSUME NEW m \in Nat, NEW l, Sound(l, m), now \in Nat
  PROVE  Sound(Settled(l), m)
<1>. DEFINE d == [a \in Agent |-> IF l.cooldown[a] > now THEN l.cooldown[a] ELSE 0]
            c == IF Due(l) THEN NoContest ELSE l.contest
            h == IF Due(l) THEN Holding(l.contest) ELSE l.holder
<1>1. d \in [Agent -> Nat]
  BY DEF Sound, Ledgers
<1>2. c \in Contested /\ h \in Holders
  BY NoContestTyped, HoldingTyped DEF Sound, Ledgers
<1>3. /\ c = NoContest \/ (c.id \in 1..m /\ c.agent \in Agent /\ c.agent # h.agent)
      /\ c.deadline = c.openedAt + c.window
  BY DEF Sound, NoContest
<1>4. l \in Ledgers /\ Settled(l) = [l EXCEPT !.cooldown = d, !.contest = c, !.holder = h]
  BY DEF Settled, Sound
<1>. HIDE DEF d, c, h
<1>5. Settled(l) \in Ledgers /\ Settled(l).contest = c /\ Settled(l).holder = h
  BY <1>1, <1>2, <1>4 DEF Ledgers
<1>. QED
  BY <1>3, <1>5 DEF Sound

LEMMA SeenSound ==
  ASSUME NEW m \in Nat, NEW l, Sound(l, m), run \in [Agent -> OrNoPid], NEW a \in Agent
  PROVE  /\ Sound(Seen(l, a), m)
         /\ Seen(l, a).holder.agent = l.holder.agent
         /\ Seen(l, a).contest = l.contest /\ Seen(l, a).cooldown = l.cooldown
<1>. DEFINE h == IF l.holder.agent = a /\ run[a] # NoPid
                 THEN [agent |-> a, pid |-> run[a]] ELSE l.holder
<1>1. h \in Holders /\ h.agent = l.holder.agent
  BY DEF Sound, Ledgers, Holders, OrNoOne, OrNoPid
<1>2. l \in Ledgers /\ Seen(l, a) = [l EXCEPT !.known[a] = run[a], !.holder = h]
  BY DEF Seen, Sound
<1>. HIDE DEF h
<1>3. Seen(l, a) \in Ledgers
  <2>1. [l.known EXCEPT ![a] = run[a]] \in [Agent -> OrNoPid \cup {Unseen}]
    BY DEF Sound, Ledgers
  <2>. QED
    BY <1>1, <1>2, <2>1 DEF Ledgers
<1>4. /\ Seen(l, a).holder = h
      /\ Seen(l, a).contest = l.contest /\ Seen(l, a).cooldown = l.cooldown
  BY <1>2 DEF Ledgers
<1>. QED
  BY <1>1, <1>3, <1>4 DEF Sound

LEMMA GivenSound ==
  ASSUME NEW m \in Nat, NEW l, Sound(l, m), NEW h \in Holders
  PROVE  /\ Sound(Given(l, h), m)
         /\ Given(l, h).contest = NoContest /\ Given(l, h).cooldown = l.cooldown
<1>1. /\ Given(l, h) \in Ledgers
      /\ Given(l, h).contest = NoContest /\ Given(l, h).cooldown = l.cooldown
  BY NoContestTyped DEF Sound, Given, Ledgers
<1>. QED
  BY <1>1 DEF Sound, NoContest

LEMMA AnsweredSound ==
  ASSUME NEW m \in Nat, NEW l, Sound(l, m)
  PROVE  /\ Sound(Answered(l), m)
         /\ Answered(l).contest = NoContest /\ Answered(l).cooldown = l.cooldown
<1>1. /\ Answered(l) \in Ledgers
      /\ Answered(l).contest = NoContest /\ Answered(l).cooldown = l.cooldown
  BY NoContestTyped DEF Sound, Answered, Ledgers
<1>. QED
  BY <1>1 DEF Sound, NoContest

LEMMA ChargedSound ==
  ASSUME NEW m \in Nat, NEW l, Sound(l, m), now \in Nat, l.contest # NoContest
  PROVE  /\ Sound(Charged(l), m) /\ Charged(l).contest = NoContest
         /\ Charged(l).cooldown = [l.cooldown EXCEPT ![l.contest.agent] = Until(l.contest)]
         /\ Until(l.contest) \in Nat
<1>1. Until(l.contest) \in Nat
  BY DEF Until, Contested, Sound, Ledgers
<1>2. /\ Charged(l) \in Ledgers /\ Charged(l).contest = NoContest
      /\ Charged(l).cooldown = [l.cooldown EXCEPT ![l.contest.agent] = Until(l.contest)]
  BY <1>1, NoContestTyped DEF Sound, Charged, Ledgers
<1>. QED
  BY <1>1, <1>2 DEF Sound, NoContest

\* Only the holder changes, and not to the contester.
LEMMA HolderSound ==
  ASSUME NEW m \in Nat, NEW l, Sound(l, m), NEW h \in Holders,
         l.contest = NoContest \/ h.agent # l.contest.agent
  PROVE  /\ Sound([l EXCEPT !.holder = h], m)
         /\ [l EXCEPT !.holder = h].contest = l.contest
         /\ [l EXCEPT !.holder = h].cooldown = l.cooldown
<1>. DEFINE x == [l EXCEPT !.holder = h]
<1>1. x \in Ledgers /\ x.holder = h /\ x.contest = l.contest /\ x.cooldown = l.cooldown
  BY DEF Sound, Ledgers
<1>. QED
  BY <1>1 DEF Sound

LEMMA OpensSound ==
  ASSUME NEW m \in Nat, NEW l, Sound(l, m), NEW c \in Contested, c.id = m + 1, c.agent \in Agent,
         c.agent # l.holder.agent, c.deadline = c.openedAt + c.window
  PROVE  /\ Sound([l EXCEPT !.contest = c], m + 1)
         /\ [l EXCEPT !.contest = c].contest = c
         /\ [l EXCEPT !.contest = c].cooldown = l.cooldown
<1>. DEFINE x == [l EXCEPT !.contest = c]
<1>1. x \in Ledgers /\ x.holder = l.holder /\ x.contest = c /\ x.cooldown = l.cooldown
  BY DEF Sound, Ledgers
<1>. HIDE DEF x
<1>2. Sound(x, m + 1)
  BY <1>1 DEF Sound
<1>. QED
  BY <1>1, <1>2 DEF x

LEMMA SoundLater ==
  ASSUME NEW m \in Nat, NEW l, Sound(l, m)
  PROVE  Sound(l, m + 1)
  BY DEF Sound

-----------------------------------------------------------------------------
(* The inductive invariant *)

\* what an agent was told holds of a ledger: no contest of its own before
\* then, and a cooldown that runs until then
Calm(l) ==
  /\ l.contest # NoContest => told[l.contest.agent] <= l.contest.openedAt
  /\ \A a \in Agent : told[a] <= now \/ l.cooldown[a] = told[a]

Lasting(l) == l.contest.id \notin answered /\ Calm(l)

Inv ==
  /\ TypeOK /\ Sound(ledger, minted) /\ Sound(disk, minted)
  /\ answered \subseteq 1..minted
  /\ lost = 0 => Lasting(ledger) /\ Lasting(disk)

LEMMA ClaimsTyped ==
  ASSUME Inv, ClaimsByDeadline
  PROVE  claimed' \in Frames
<1>1. ledger.contest \in Contested
  BY DEF Inv, TypeOK, Ledgers
<1>. QED
  BY <1>1 DEF Inv, TypeOK, ClaimsByDeadline, Claims, Contested, Frames

LEMMA SettledKeeps ==
  ASSUME Inv
  PROVE  /\ Sound(settled, minted)
         /\ settled.contest \in {ledger.contest, NoContest}
         /\ settled.contest # NoContest => settled.contest.id >= 1
         /\ Calm(ledger) => Calm(settled)
<1>1. Sound(settled, minted)
  BY SettledSound DEF Inv, TypeOK, settled
<1>2. settled.contest = IF Due(ledger) THEN NoContest ELSE ledger.contest
  BY DEF Inv, TypeOK, Ledgers, settled, Settled
<1>3. settled.cooldown = [a \in Agent |-> IF ledger.cooldown[a] > now THEN ledger.cooldown[a] ELSE 0]
  BY DEF Inv, TypeOK, Ledgers, settled, Settled
<1>4. Calm(ledger) => Calm(settled)
  BY <1>2, <1>3 DEF Inv, TypeOK, Ledgers, Calm
<1>5. settled.contest # NoContest => settled.contest.id >= 1
  BY <1>1 DEF Sound, Inv, TypeOK
<1>. QED
  BY <1>1, <1>2, <1>4, <1>5

\* What a call that persists leaves, when its final ledger is sound.
LEMMA PersistsKeeps ==
  ASSUME Inv, NEW final, NEW m \in {minted, minted + 1}, Sound(final, m), Persists(final),
         final.contest \in {settled.contest, NoContest} \/ final.contest.id = minted + 1
  PROVE  /\ Sound(ledger', m) /\ Sound(disk', m)
         /\ lost' \in 0..MaxLostWrites /\ answered' \subseteq 1..m
         /\ lost' = 0 => lost = 0 /\ ledger' = final /\ disk' = final
                         /\ final.contest.id \notin answered'
<1>1. minted \in Nat /\ m \in Nat /\ lost \in Nat /\ MaxLostWrites \in Nat
  BY LedgerConstants DEF Inv, TypeOK
<1>2. Sound(settled, m) /\ Sound(disk, m)
  BY <1>1, SettledKeeps, SoundLater DEF Inv
<1>3. ledger' = final /\ disk' \in {disk, settled, final}
  BY DEF Persists, Remembers, Writes
<1>4. lost' \in 0..MaxLostWrites /\ (lost' = 0 => lost = 0 /\ disk' = final)
  BY <1>1 DEF Persists, Writes
<1>5. ledger.contest = NoContest \/ ledger.contest.id \in 1..minted
  BY DEF Inv, Sound
<1>6. answered' \subseteq 1..m
  <2>1. answered \subseteq 1..minted /\ 1..minted \subseteq 1..m
    BY <1>1 DEF Inv
  <2>. QED
    BY <1>5, <2>1 DEF Persists, Remembers
<1>7. ASSUME lost = 0 PROVE final.contest.id \notin answered'
  <2>1. answered \subseteq 1..minted /\ ledger.contest.id \notin answered
    BY <1>7 DEF Inv, Lasting
  <2>2. answered' = IF final.contest # ledger.contest /\ ledger.contest # NoContest
                    THEN answered \cup {ledger.contest.id} ELSE answered
    BY DEF Persists, Remembers
  <2>3. CASE final.contest = ledger.contest
    BY <2>1, <2>2, <2>3
  <2>4. CASE final.contest = NoContest
    <3>1. final.contest.id = 0
      BY <2>4 DEF NoContest
    <3>. QED
      BY <1>1, <1>5, <2>1, <2>2, <3>1
  <2>5. CASE final.contest.id = minted + 1
    BY <1>1, <1>5, <2>1, <2>2, <2>5
  <2>. QED
    BY <2>3, <2>4, <2>5, SettledKeeps
<1>. QED
  BY <1>2, <1>3, <1>4, <1>6, <1>7

\* What a call that does not persist leaves: settle() may have written.
LEMMA UnwrittenKeeps ==
  ASSUME Inv, NEW final, Sound(final, minted), Unwritten(final),
         final.contest = settled.contest, final.cooldown = settled.cooldown
  PROVE  /\ Sound(ledger', minted) /\ Sound(disk', minted)
         /\ lost' \in 0..MaxLostWrites /\ answered' \subseteq 1..minted
         /\ lost' = 0 => /\ lost = 0 /\ ledger' = final
                         /\ ledger'.contest.id \notin answered' /\ disk'.contest.id \notin answered'
                         /\ Calm(ledger') /\ Calm(disk')
<1>1. minted \in Nat /\ lost \in Nat /\ MaxLostWrites \in Nat /\ lost \in 0..MaxLostWrites
  BY LedgerConstants DEF Inv, TypeOK
<1>2. Sound(settled, minted) /\ Sound(disk, minted)
  BY SettledKeeps DEF Inv
<1>3. ledger' = final /\ disk' \in {disk, settled}
  BY DEF Unwritten, Remembers, Writes
<1>4. lost' \in 0..MaxLostWrites /\ (lost' = 0 => lost = 0)
      /\ (lost' = 0 => disk' = settled \/ (settled = ledger /\ disk' = disk))
  BY <1>1 DEF Unwritten, Writes
<1>5. ledger.contest = NoContest \/ ledger.contest.id \in 1..minted
  BY DEF Inv, Sound
<1>6. answered' = IF final.contest # ledger.contest /\ ledger.contest # NoContest
                  THEN answered \cup {ledger.contest.id} ELSE answered
  BY DEF Unwritten, Remembers
<1>7. answered' \subseteq 1..minted
  BY <1>5, <1>6 DEF Inv
<1>8. ASSUME lost' = 0
      PROVE  ledger'.contest.id \notin answered' /\ disk'.contest.id \notin answered'
  <2>1. answered \subseteq 1..minted /\ ledger.contest.id \notin answered /\ disk.contest.id \notin answered
    BY <1>4, <1>8 DEF Inv, Lasting
  <2>2. CASE settled.contest = ledger.contest
    BY <1>3, <1>4, <1>6, <1>8, <2>1, <2>2
  <2>3. CASE settled.contest = NoContest /\ settled.contest # ledger.contest
    <3>1. disk' = settled
      BY <1>4, <1>8, <2>3
    <3>2. settled.contest.id = 0
      BY <2>3 DEF NoContest
    <3>. QED
      BY <1>1, <1>3, <1>7, <3>1, <3>2
  <2>. QED
    BY <2>2, <2>3, SettledKeeps
<1>9. ASSUME lost' = 0 PROVE Calm(ledger') /\ Calm(disk')
  <2>1. Calm(ledger) /\ Calm(disk)
    BY <1>4, <1>9 DEF Inv, Lasting
  <2>2. Calm(settled)
    BY <2>1, SettledKeeps
  <2>3. Calm(final)
    BY <2>2 DEF Calm
  <2>. QED
    BY <1>3, <2>1, <2>2, <2>3
<1>. QED
  BY <1>2, <1>3, <1>4, <1>7, <1>8, <1>9

-----------------------------------------------------------------------------
(* The calls *)

LEMMA PersistedInv ==
  ASSUME Inv, NEW final, Sound(final, minted), Persists(final),
         final.contest \in {settled.contest, NoContest}, Calm(ledger) => Calm(final),
         claimed' \in Frames, UNCHANGED <<opened, minted, told, worldVars>>
  PROVE  Inv'
<1>1. /\ Sound(ledger', minted) /\ Sound(disk', minted)
      /\ lost' \in 0..MaxLostWrites /\ answered' \subseteq 1..minted
      /\ lost' = 0 => lost = 0 /\ ledger' = final /\ disk' = final
                      /\ final.contest.id \notin answered'
  BY PersistsKeeps
<1>2. Sound(ledger, minted)' /\ Sound(disk, minted)' /\ (answered \subseteq 1..minted)'
  BY <1>1 DEF Sound
<1>3. TypeOK'
  BY <1>1, <1>2 DEF Inv, TypeOK, worldVars, Sound
<1>4. ASSUME lost' = 0 PROVE Lasting(ledger)' /\ Lasting(disk)'
  <2>1. Calm(final)
    BY <1>1, <1>4 DEF Inv, Lasting
  <2>. QED
    BY <1>1, <1>4, <2>1 DEF Lasting, Calm, worldVars
<1>. QED
  BY <1>2, <1>3, <1>4 DEF Inv

LEMMA UnwrittenInv ==
  ASSUME Inv, NEW final, Sound(final, minted), Unwritten(final),
         final.contest = settled.contest, final.cooldown = settled.cooldown, Quiet
  PROVE  Inv'
<1>1. /\ Sound(ledger', minted) /\ Sound(disk', minted)
      /\ lost' \in 0..MaxLostWrites /\ answered' \subseteq 1..minted
      /\ lost' = 0 => /\ lost = 0 /\ ledger' = final
                      /\ ledger'.contest.id \notin answered' /\ disk'.contest.id \notin answered'
                      /\ Calm(ledger') /\ Calm(disk')
  BY UnwrittenKeeps
<1>2. Sound(ledger, minted)' /\ Sound(disk, minted)' /\ (answered \subseteq 1..minted)'
  BY <1>1 DEF Sound, Quiet
<1>3. claimed' \in Frames
  BY ClaimsTyped DEF Quiet
<1>4. TypeOK'
  BY <1>1, <1>2, <1>3 DEF Inv, TypeOK, worldVars, Sound, Quiet
<1>5. ASSUME lost' = 0 PROVE Lasting(ledger)' /\ Lasting(disk)'
  BY <1>1, <1>5 DEF Lasting, Calm, worldVars, Quiet
<1>. QED
  BY <1>2, <1>4, <1>5 DEF Inv

LEMMA NotedSound ==
  ASSUME Inv, NEW a \in Agent
  PROVE  /\ Sound(noted(a), minted) /\ noted(a).contest = settled.contest
         /\ noted(a).cooldown = settled.cooldown /\ noted(a).holder.agent = settled.holder.agent
         /\ Calm(ledger) => Calm(noted(a))
<1>1. /\ Sound(noted(a), minted) /\ noted(a).contest = settled.contest
      /\ noted(a).cooldown = settled.cooldown /\ noted(a).holder.agent = settled.holder.agent
  BY SettledKeeps, SeenSound DEF Inv, TypeOK, noted
<1>. QED
  BY <1>1, SettledKeeps DEF Calm

LEMMA CallerTyped ==
  ASSUME Inv, NEW a \in Agent
  PROVE  Caller(a) \in Holders /\ Caller(a).agent = a
  BY DEF Inv, TypeOK, Caller, Holders, OrNoOne

LEMMA GateInv == ASSUME Inv, NEW a \in Agent, Gate(a) \/ ContestHeld(a) PROVE Inv'
<1>1. claimed' \in Frames
  BY ClaimsTyped DEF Gate, ContestHeld, Quiet
<1>. QED
  BY <1>1, NotedSound, PersistedInv DEF Gate, ContestHeld, Quiet

LEMMA RefusedInv ==
  ASSUME Inv, NEW a \in Agent, ContestRefused(a) \/ RejectRefused(a) \/ ReleaseRefused(a)
  PROVE  Inv'
  BY NotedSound, UnwrittenInv DEF ContestRefused, RejectRefused, ReleaseRefused

LEMMA SweepInv == ASSUME Inv, Sweep \/ DesktopRefused PROVE Inv'
  BY SettledKeeps, UnwrittenInv DEF Sweep, DesktopRefused

LEMMA ContestClaimsInv == ASSUME Inv, NEW a \in Agent, ContestClaims(a) PROVE Inv'
<1>. DEFINE final == [noted(a) EXCEPT !.holder = Caller(a)]
<1>1. settled.contest = NoContest /\ noted(a).contest = NoContest
  BY NotedSound DEF ContestClaims, MayContest
<1>2. /\ Sound(final, minted) /\ final.contest = NoContest
      /\ final.cooldown = noted(a).cooldown
  BY <1>1, NotedSound, CallerTyped, HolderSound DEF Inv, TypeOK
<1>3. Calm(ledger) => Calm(final)
  BY <1>1, <1>2, NotedSound DEF Calm
<1>4. claimed' \in Frames
  BY DEF ContestClaims, Claims, Frames, OrNoOne
<1>5. Persists(final) /\ UNCHANGED <<opened, minted, told, worldVars>>
  BY DEF ContestClaims
<1>. HIDE DEF final
<1>. QED
  BY <1>2, <1>3, <1>4, <1>5, PersistedInv

LEMMA ReleaseInv == ASSUME Inv, NEW a \in Agent, Release(a) PROVE Inv'
<1>. DEFINE final == [noted(a) EXCEPT !.holder = Free]
<1>1. settled.contest = NoContest /\ noted(a).contest = NoContest
  BY NotedSound DEF Release
<1>2. /\ Sound(final, minted) /\ final.contest = NoContest
      /\ final.cooldown = noted(a).cooldown
  BY <1>1, NotedSound, FreeTyped, HolderSound DEF Inv, TypeOK
<1>3. Calm(ledger) => Calm(final)
  BY <1>1, <1>2, NotedSound DEF Calm
<1>4. claimed' \in Frames
  BY ClaimsTyped DEF Release, Quiet
<1>5. Persists(final) /\ UNCHANGED <<opened, minted, told, worldVars>>
  BY DEF Release, Quiet
<1>. HIDE DEF final
<1>. QED
  BY <1>2, <1>3, <1>4, <1>5, PersistedInv

\* the token goes to the contester: by a release, and by the desktop's grant
LEMMA GivesInv ==
  ASSUME Inv, NEW l, Sound(l, minted), l.contest = settled.contest, l.cooldown = settled.cooldown,
         settled.contest # NoContest, Persists(Given(l, Holding(settled.contest))),
         NEW kind \in {"release", "desktop"},
         Claims(kind, settled.contest.id, settled.contest.agent),
         UNCHANGED <<opened, minted, told, worldVars>>
  PROVE  Inv'
<1>. DEFINE final == Given(l, Holding(settled.contest))
<1>1. settled.contest \in Contested
  BY SettledKeeps DEF Sound, Ledgers
<1>2. /\ Sound(final, minted) /\ final.contest = NoContest
      /\ final.cooldown = settled.cooldown
  BY <1>1, HoldingTyped, GivenSound DEF Inv, TypeOK
<1>3. Calm(ledger) => Calm(final)
  BY <1>2, SettledKeeps DEF Calm
<1>4. claimed' \in Frames
  BY <1>1 DEF Claims, Frames, Contested
<1>. HIDE DEF final
<1>5. Persists(final)
  BY DEF final
<1>. QED
  BY <1>2, <1>3, <1>4, <1>5, PersistedInv

LEMMA ReleaseToInv == ASSUME Inv, NEW a \in Agent, ReleaseTo(a) PROVE Inv'
  BY NotedSound, GivesInv DEF ReleaseTo

LEMMA DesktopGrantsInv == ASSUME Inv, DesktopGrants PROVE Inv'
<1>1. settled.contest # NoContest
  BY DEF DesktopGrants, NamesOpen, NoContest
<1>. QED
  BY <1>1, SettledKeeps, GivesInv DEF DesktopGrants

LEMMA DesktopFreesInv == ASSUME Inv, DesktopFrees PROVE Inv'
<1>. DEFINE final == [settled EXCEPT !.holder = Free]
<1>1. settled.contest = NoContest \/ Free.agent # settled.contest.agent
  BY SettledKeeps, LedgerConstants DEF Sound, Free
<1>2. /\ Sound(final, minted) /\ final.contest = settled.contest
      /\ final.cooldown = settled.cooldown
  BY <1>1, SettledKeeps, FreeTyped, HolderSound DEF Inv, TypeOK
<1>3. Calm(ledger) => Calm(final)
  BY <1>2, SettledKeeps DEF Calm
<1>4. claimed' \in Frames
  BY ClaimsTyped DEF DesktopFrees, Quiet
<1>5. Persists(final) /\ UNCHANGED <<opened, minted, told, worldVars>>
  BY DEF DesktopFrees, Quiet
<1>. HIDE DEF final
<1>. QED
  BY <1>2, <1>3, <1>4, <1>5, PersistedInv

\* a contest is opened, against somebody else, by an agent whose wait is over
LEMMA ContestOpensInv == ASSUME Inv, NEW a \in Agent, ContestOpens(a) PROVE Inv'
<1>. DEFINE c == [id |-> minted + 1, agent |-> a, pid |-> run[a], openedAt |-> now,
                  window |-> window, deadline |-> now + window]
            final == [noted(a) EXCEPT !.contest = c]
<1>1. /\ c \in Contested /\ c.id = minted + 1 /\ c.agent = a /\ c # NoContest
      /\ c.deadline = c.openedAt + c.window
  BY LedgerConstants DEF Inv, TypeOK, Contested, OrNoOne, NoContest
<1>2. a # noted(a).holder.agent
  BY NotedSound DEF ContestOpens, MayContest, Holds
<1>. HIDE DEF c
<1>3. /\ Sound(final, minted + 1) /\ final.contest = c
      /\ final.cooldown = noted(a).cooldown
  BY <1>1, <1>2, NotedSound, OpensSound DEF Inv, TypeOK
<1>4. Persists(final) /\ minted' = minted + 1 /\ UNCHANGED <<opened, told, worldVars>>
  BY DEF ContestOpens, c
<1>5. /\ Sound(ledger', minted + 1) /\ Sound(disk', minted + 1)
      /\ lost' \in 0..MaxLostWrites /\ answered' \subseteq 1..(minted + 1)
      /\ lost' = 0 => lost = 0 /\ ledger' = final /\ disk' = final
                      /\ final.contest.id \notin answered'
  BY <1>1, <1>3, <1>4, PersistsKeeps
<1>6. Sound(ledger, minted)' /\ Sound(disk, minted)' /\ (answered \subseteq 1..minted)'
  BY <1>4, <1>5 DEF Sound
<1>7. claimed' \in Frames
  BY ClaimsTyped DEF ContestOpens
<1>8. TypeOK'
  BY <1>4, <1>5, <1>6, <1>7 DEF Inv, TypeOK, worldVars, Sound
<1>9. ASSUME lost' = 0 PROVE Lasting(ledger)' /\ Lasting(disk)'
  <2>1. Calm(ledger)
    BY <1>5, <1>9 DEF Inv, Lasting
  <2>2. told[a] <= now
    <3>1. settled.cooldown[a] <= now
      BY DEF ContestOpens, MayContest
    <3>. QED
      BY <2>1, <3>1, SettledKeeps DEF Calm
  <2>3. told[final.contest.agent] <= final.contest.openedAt
    BY <1>1, <1>3, <2>2 DEF c
  <2>4. \A b \in Agent : told[b] <= now \/ final.cooldown[b] = told[b]
    BY <1>3, <2>1, NotedSound DEF Calm
  <2>. QED
    BY <1>4, <1>5, <1>9, <2>3, <2>4 DEF Lasting, Calm, worldVars
<1>. QED
  BY <1>6, <1>8, <1>9 DEF Inv

\* a refusal charges the contester and says until when
LEMMA RefusesInv ==
  ASSUME Inv, NEW l, Sound(l, minted), l.contest = settled.contest, l.cooldown = settled.cooldown,
         Refuses(l)
  PROVE  Inv'
<1>. DEFINE final == Charged(l)
            x == l.contest.agent
<1>1. /\ Sound(final, minted) /\ final.contest = NoContest
      /\ final.cooldown = [l.cooldown EXCEPT ![x] = Until(l.contest)]
      /\ Until(l.contest) \in Nat
  BY ChargedSound DEF Inv, TypeOK, Refuses
<1>2. x \in Agent
  BY DEF Refuses, Sound
<1>3. /\ Persists(final) /\ told' = [told EXCEPT ![x] = Until(l.contest)]
      /\ UNCHANGED <<opened, minted, worldVars>>
  BY DEF Refuses
<1>4. claimed' \in Frames
  BY ClaimsTyped DEF Refuses
<1>. HIDE DEF final, x
<1>5. /\ Sound(ledger', minted) /\ Sound(disk', minted)
      /\ lost' \in 0..MaxLostWrites /\ answered' \subseteq 1..minted
      /\ lost' = 0 => lost = 0 /\ ledger' = final /\ disk' = final
                      /\ final.contest.id \notin answered'
  BY <1>1, <1>3, PersistsKeeps
<1>6. Sound(ledger, minted)' /\ Sound(disk, minted)' /\ (answered \subseteq 1..minted)'
  BY <1>3, <1>5 DEF Sound
<1>7. TypeOK'
  <2>1. told' \in [Agent -> Nat]
    BY <1>1, <1>3 DEF Inv, TypeOK
  <2>. QED
    BY <2>1, <1>3, <1>4, <1>5, <1>6 DEF Inv, TypeOK, worldVars, Sound
<1>8. ASSUME lost' = 0 PROVE Lasting(ledger)' /\ Lasting(disk)'
  <2>1. Calm(settled)
    BY <1>5, <1>8, SettledKeeps DEF Inv, Lasting
  <2>2. \A b \in Agent : told'[b] <= now \/ final.cooldown[b] = told'[b]
    <3>. TAKE b \in Agent
    <3>1. told \in [Agent -> Nat] /\ l.cooldown \in [Agent -> Nat]
      BY DEF Inv, TypeOK, Sound, Ledgers
    <3>2. CASE b = x
      BY <1>1, <1>2, <1>3, <3>1, <3>2
    <3>3. CASE b # x
      BY <1>1, <1>2, <1>3, <2>1, <3>1, <3>3 DEF Calm
    <3>. QED
      BY <3>2, <3>3
  <2>. QED
    BY <1>1, <1>3, <1>5, <1>8, <2>2 DEF Lasting, Calm, worldVars
<1>. QED
  BY <1>6, <1>7, <1>8 DEF Inv

LEMMA RejectInv == ASSUME Inv, (\E a \in Agent : Reject(a)) \/ DesktopRejects PROVE Inv'
<1>1. ASSUME NEW a \in Agent, Reject(a) PROVE Inv'
  BY <1>1, NotedSound, RefusesInv DEF Reject
<1>2. ASSUME DesktopRejects PROVE Inv'
  BY <1>2, SettledKeeps, RefusesInv DEF DesktopRejects
<1>. QED
  BY <1>1, <1>2

\* an assignment may leave the file where only the contest was answered
LEMMA AssignInv == ASSUME Inv, NEW a \in Agent, Assign(a) PROVE Inv'
<1>1. PICK pid \in OrNoPid :
        LET final == Given(settled, [agent |-> a, pid |-> pid]) IN
        /\ Remembers(final)
        /\ Writes(({settled} \ {ledger}) \cup
                  (IF settled.contest = NoContest THEN {} ELSE {Answered(settled)}), final)
  BY DEF Assign, Inv, TypeOK, Ledgers
<1>. DEFINE final == Given(settled, [agent |-> a, pid |-> pid])
<1>2. [agent |-> a, pid |-> pid] \in Holders
  BY DEF Holders, OrNoOne
<1>3. /\ Sound(final, minted) /\ final.contest = NoContest
      /\ final.cooldown = settled.cooldown
  BY <1>2, SettledKeeps, GivenSound DEF Inv, TypeOK
<1>4. Sound(Answered(settled), minted) /\ Sound(settled, minted) /\ Sound(disk, minted)
  BY SettledKeeps, AnsweredSound DEF Inv, TypeOK
<1>5. Remembers(final) /\ disk' \in {disk, settled, Answered(settled), final}
  BY <1>1 DEF Writes
<1>6. lost' \in 0..MaxLostWrites /\ (lost' = 0 => lost = 0 /\ disk' = final)
  BY <1>1, LedgerConstants DEF Writes, Inv, TypeOK
<1>. HIDE DEF final
<1>7. Sound(ledger', minted) /\ Sound(disk', minted)
  BY <1>3, <1>4, <1>5 DEF Remembers
<1>8. UNCHANGED <<opened, minted, told, worldVars>> /\ claimed' \in Frames
  BY DEF Assign, Claims, Frames, OrNoOne
<1>9. answered' \subseteq 1..minted
  BY <1>5 DEF Remembers, Inv, Sound
<1>10. Sound(ledger, minted)' /\ Sound(disk, minted)' /\ (answered \subseteq 1..minted)'
  BY <1>7, <1>8, <1>9 DEF Sound
<1>11. TypeOK'
  BY <1>6, <1>8, <1>9, <1>10 DEF Inv, TypeOK, worldVars, Sound
<1>12. ASSUME lost' = 0 PROVE Lasting(ledger)' /\ Lasting(disk)'
  <2>1. Calm(settled)
    BY <1>6, <1>12, SettledKeeps DEF Inv, Lasting
  <2>2. final.contest.id \notin answered'
    BY <1>3, <1>9 DEF NoContest
  <2>3. ledger' = final /\ disk' = final
    BY <1>5, <1>6, <1>12 DEF Remembers
  <2>. QED
    BY <1>3, <1>8, <2>1, <2>2, <2>3 DEF Lasting, Calm, worldVars
<1>. QED
  BY <1>10, <1>11, <1>12 DEF Inv

-----------------------------------------------------------------------------
(* The service and the world *)

LEMMA PersistInv == ASSUME Inv, Persist PROVE Inv'
<1>1. ledger' = ledger /\ disk' \in {disk, ledger}
  BY DEF Persist, Writes
<1>2. lost' \in 0..MaxLostWrites /\ (lost' = 0 => lost = 0)
  BY LedgerConstants DEF Persist, Writes, Inv, TypeOK
<1>3. UNCHANGED <<answered, claimed, opened, minted, told, worldVars>>
  BY DEF Persist
<1>4. Sound(ledger, minted)' /\ Sound(disk, minted)'
  BY <1>1, <1>3 DEF Sound, Inv
<1>5. TypeOK'
  BY <1>2, <1>3, <1>4 DEF Inv, TypeOK, worldVars, Sound
<1>6. ASSUME lost' = 0 PROVE Lasting(ledger)' /\ Lasting(disk)'
  BY <1>1, <1>2, <1>3, <1>6 DEF Inv, Lasting, Calm, worldVars
<1>. QED
  BY <1>3, <1>4, <1>5, <1>6 DEF Inv

LEMMA RestartInv == ASSUME Inv, Restart PROVE Inv'
<1>1. Sound(ledger, minted)' /\ Sound(disk, minted)'
  BY DEF Restart, Sound, Inv
<1>2. TypeOK'
  BY <1>1 DEF Inv, TypeOK, Restart, worldVars, Sound
<1>3. ASSUME lost' = 0 PROVE Lasting(ledger)' /\ Lasting(disk)'
  BY <1>3 DEF Inv, Restart, Lasting, Calm, worldVars
<1>. QED
  BY <1>1, <1>2, <1>3 DEF Inv, Restart

\* steps that leave what the service knows alone; the clock may only go on
LEMMA WorldInv ==
  ASSUME Inv, UNCHANGED <<callVars, minted, told>>, now' \in Nat, now <= now',
         opened' \in BOOLEAN, window' \in Windows, shown' \in Contested,
         process' \in [Pid -> {"unborn", "alive", "dead"}], run' \in [Agent -> OrNoPid]
  PROVE  Inv'
<1>1. Sound(ledger, minted)' /\ Sound(disk, minted)'
  BY DEF Sound, Inv, callVars
<1>2. TypeOK'
  BY DEF Inv, TypeOK, callVars
<1>3. ASSUME lost' = 0 PROVE Lasting(ledger)' /\ Lasting(disk)'
  BY <1>3 DEF Inv, Lasting, Calm, callVars, TypeOK
<1>. QED
  BY <1>1, <1>2, <1>3 DEF Inv, callVars

LEMMA InitInv == Init => Inv
<1>. SUFFICES ASSUME Init PROVE Inv
  OBVIOUS
<1>1. Sound(ledger, minted) /\ Sound(disk, minted)
  BY NothingSound DEF Init
<1>2. shown \in Contested /\ claimed \in Frames
  BY NoContestTyped DEF Init, Frames, OrNoOne
<1>3. TypeOK
  <2>1. process \in [Pid -> {"unborn", "alive", "dead"}] /\ run \in [Agent -> OrNoPid]
    BY DEF Init, OrNoPid
  <2>2. told \in [Agent -> Nat] /\ lost \in 0..MaxLostWrites /\ window \in Windows
    BY LedgerConstants DEF Init
  <2>. QED
    BY <1>1, <1>2, <2>1, <2>2 DEF Init, TypeOK, Sound
<1>4. Lasting(ledger) /\ Lasting(disk)
  BY DEF Init, Lasting, Calm, Nothing
<1>. QED
  BY <1>1, <1>3, <1>4 DEF Inv, Init

LEMMA StepInv == Inv /\ [Next]_vars => Inv'
<1>. SUFFICES ASSUME Inv, [Next]_vars PROVE Inv'
  OBVIOUS
<1>1. ASSUME NEW a \in Agent, Gate(a) \/ Contests(a) \/ Answers(a) \/ Assign(a) PROVE Inv'
  <2>1. CASE Gate(a) \/ ContestHeld(a)
    BY <2>1, GateInv
  <2>2. CASE ContestRefused(a) \/ RejectRefused(a) \/ ReleaseRefused(a)
    BY <2>2, RefusedInv
  <2>3. CASE ContestClaims(a) \/ ContestOpens(a)
    BY <2>3, ContestClaimsInv, ContestOpensInv
  <2>4. CASE Reject(a) \/ ReleaseTo(a) \/ Release(a) \/ Assign(a)
    BY <2>4, RejectInv, ReleaseToInv, ReleaseInv, AssignInv
  <2>. QED
    BY <1>1, <2>1, <2>2, <2>3, <2>4 DEF Contests, Answers
<1>2. ASSUME NEW a \in Agent, NEW p \in Pid, Ends(a, p) PROVE Inv'
  <2>1. process' \in [Pid -> {"unborn", "alive", "dead"}]
    BY <1>2 DEF Ends, Inv, TypeOK
  <2>. QED
    BY <1>2, <2>1, WorldInv DEF Ends, Inv, TypeOK
<1>3. ASSUME NEW a \in Agent, NEW p \in Pid, Resumes(a, p) PROVE Inv'
  <2>1. run' \in [Agent -> OrNoPid] /\ process' \in [Pid -> {"unborn", "alive", "dead"}]
    BY <1>3 DEF Resumes, Inv, TypeOK, OrNoPid
  <2>. QED
    BY <1>3, <2>1, WorldInv DEF Resumes, Inv, TypeOK
<1>4. ASSUME Show PROVE Inv'
  BY <1>4, WorldInv DEF Show, Inv, TypeOK, Ledgers
<1>5. ASSUME DesktopRejects \/ DesktopGrants \/ DesktopRefused \/ DesktopFrees PROVE Inv'
  BY <1>5, RejectInv, DesktopGrantsInv, SweepInv, DesktopFreesInv
<1>6. ASSUME NEW w \in Windows, SetWindow(w) PROVE Inv'
  BY <1>6, WorldInv DEF SetWindow, Inv, TypeOK
<1>7. ASSUME Sweep \/ Persist \/ Restart PROVE Inv'
  BY <1>7, SweepInv, PersistInv, RestartInv
<1>8. ASSUME Open \/ Tick PROVE Inv'
  <2>1. CASE Open
    BY <2>1, WorldInv DEF Open, Inv, TypeOK, worldVars
  <2>2. CASE Tick
    BY <2>2, WorldInv DEF Tick, Inv, TypeOK
  <2>. QED
    BY <1>8, <2>1, <2>2
<1>9. ASSUME UNCHANGED vars PROVE Inv'
  BY <1>9, WorldInv DEF vars, Inv, TypeOK, worldVars
<1>. QED
  BY <1>1, <1>2, <1>3, <1>4, <1>5, <1>6, <1>7, <1>8, <1>9 DEF Next, Desktop

-----------------------------------------------------------------------------
LEMMA Invariant == Spec => []Inv
<1>. QED
  BY InitInv, StepInv, PTL DEF Spec

\* Every field of the ledger, in memory and in the file, keeps its type.
THEOREM LedgerTyped == Spec => []TypeOK
<1>1. Inv => TypeOK
  BY DEF Inv
<1>. QED
  BY <1>1, Invariant, PTL

\* Nobody contests the token it holds, in memory or in token.json, whatever
\* writes were lost and however often the service was restarted.
THEOREM ContestHasOtherHolderHolds == Spec => []ContestHasOtherHolder
<1>1. Inv => ContestHasOtherHolder
  BY DEF Inv, Sound, ContestHasOtherHolder
<1>. QED
  BY <1>1, Invariant, PTL

\* A contest that was resolved is never open again, restarts included, as
\* long as no write was lost.
THEOREM AnsweredStaysAnsweredHolds == Spec => []AnsweredStaysAnswered
<1>1. Inv => AnsweredStaysAnswered
  BY DEF Inv, Lasting, AnsweredStaysAnswered
<1>. QED
  BY <1>1, Invariant, PTL

\* No contest is opened by an agent before the time it was told to wait for,
\* restarts included, as long as no write was lost.
THEOREM NoContestDuringCooldownHolds == Spec => []NoContestDuringCooldown
<1>1. Inv => NoContestDuringCooldown
  BY DEF Inv, Lasting, Calm, NoContestDuringCooldown
<1>. QED
  BY <1>1, Invariant, PTL

\* Time takes the token only after the whole window its contest was opened
\* under, whatever the preference became in between.
THEOREM NoticeBeforeLossHolds == Spec => NoticeBeforeLoss
<1>. DEFINE Notice == claimed' # claimed /\ claimed'.kind = "deadline" =>
                        /\ ledger.contest.id = claimed'.contest
                        /\ ledger.contest.openedAt + ledger.contest.window <= now
<1>1. Inv /\ [Next]_vars => [Notice]_vars
  <2>. SUFFICES ASSUME Inv, Next, claimed' # claimed, claimed'.kind = "deadline"
                PROVE  Notice
    OBVIOUS
  <2>1. ClaimsByDeadline => Notice
    BY DEF ClaimsByDeadline, Claims, Due, Inv, Sound
  <2>2. ASSUME NEW kind \in {"agent", "holder-gone", "release", "desktop"}, NEW id, NEW a,
               Claims(kind, id, a)
        PROVE  FALSE
    BY <2>2 DEF Claims
  <2>3. ASSUME NEW a \in Agent, Gate(a) \/ Contests(a) \/ Answers(a) PROVE Notice
    BY <2>1, <2>2, <2>3 DEF Gate, Contests, Answers, ContestHeld, ContestRefused, ContestClaims,
       ContestOpens, Reject, RejectRefused, Refuses, ReleaseTo, Release, ReleaseRefused, Quiet
  <2>4. ASSUME NEW a \in Agent, Assign(a) PROVE Notice
    BY <2>2, <2>4 DEF Assign, callVars
  <2>5. ASSUME Desktop PROVE Notice
    BY <2>1, <2>2, <2>5 DEF Desktop, Show, DesktopRejects, DesktopGrants, DesktopRefused,
       DesktopFrees, Refuses, Quiet, callVars
  <2>6. ASSUME Sweep \/ Persist \/ Restart \/ Open \/ Tick PROVE Notice
    BY <2>1, <2>6 DEF Sweep, Persist, Restart, Open, Tick, Quiet, callVars
  <2>7. ASSUME (\E a \in Agent, p \in Pid : Ends(a, p) \/ Resumes(a, p)) \/ \E w \in Windows : SetWindow(w)
        PROVE  Notice
    BY <2>7 DEF Ends, Resumes, SetWindow, callVars
  <2>. QED
    BY <2>3, <2>4, <2>5, <2>6, <2>7 DEF Next
<1>. QED
  BY <1>1, Invariant, PTL DEF Spec, NoticeBeforeLoss

=============================================================================
