----------------------------- MODULE ProbeCache -----------------------------
(***************************************************************************)
(* What a workspace remembers of things it must ask elsewhere: whether a   *)
(* device answers (red-project: devices.rs) and the list of a tracker on   *)
(* another server (red-project: tracker_remote.rs, tracker.rs).  Both keep *)
(* an answer for a while, stamped with the moment it was asked for, and    *)
(* ask again when told to.  A device's answer also outlives its process in *)
(* a file.  Asking takes time, and others ask meanwhile: nobody waits for  *)
(* anybody's answer.                                                       *)
(*                                                                         *)
(* Time goes in ticks of one lifetime: an entry is good until the next.    *)
(***************************************************************************)
EXTENDS Naturals

CONSTANTS
  Process,     \* processes that hold a cache
  Call,        \* questions
  Refreshing,  \* those that were told to ask again
  Listing,     \* those about the tracker's list, the others about the device
  Never,       \* no entry
  MaxClock, MaxChange   \* bounds: ticks, and changes of what is asked about

VARIABLES
  call,        \* each question; `saw` is history: what was true when it was asked
  entry,       \* each process: what it remembers, of the device and of the list
  loaded,      \* processes that have read the file
  file,        \* the kept answer about the device
  clock,
  truth,       \* how often what is asked about has changed
  lastTrue     \* history: when each answer was last true
probeVars == <<call, entry, loaded, file, clock, truth, lastTrue>>

NoCall == [pc |-> "idle", in |-> Never, now |-> 0, answer |-> 0, saw |-> 0]
About(c) == IF c \in Listing THEN "list" ELSE "device"

ProbeInit ==
  /\ call = [c \in Call |-> NoCall] /\ entry = [p \in Process |-> [device |-> Never, list |-> Never]]
  /\ loaded = {} /\ file = Never /\ clock = 1 /\ truth = 0
  /\ lastTrue = [v \in 0..MaxChange |-> IF v = 0 THEN 1 ELSE 0]

Good(e, now) == e # Never /\ e.at = now
Remembered(c) == entry[call[c].in][About(c)]
Remember(c, e) == entry' = [entry EXCEPT ![call[c].in][About(c)] = e]
Rest == UNCHANGED <<clock, truth, lastTrue>>

\* kept_at(): a process starts with what the last one kept.
Load(p) ==
  /\ p \notin loaded /\ loaded' = loaded \cup {p}
  /\ entry' = [entry EXCEPT ![p].device = file] /\ UNCHANGED <<call, file>> /\ Rest

\* keep(): it leaves behind what is still good, over whatever another has left meanwhile.
Keep(p) ==
  /\ p \in loaded
  /\ file' = IF Good(entry[p].device, clock) THEN entry[p].device ELSE Never
  /\ UNCHANGED <<call, entry, loaded>> /\ Rest

Ask(c, p) ==
  /\ call[c].pc = "idle" /\ p \in loaded
  /\ call' = [call EXCEPT ![c] = [NoCall EXCEPT !.pc = "asked", !.in = p, !.now = clock, !.saw = truth]]
  /\ UNCHANGED <<entry, loaded, file>> /\ Rest

\* A question about a device that was told to ask again forgets the entry, once, and looks after.
Forgets(c) ==
  /\ call[c].pc = "asked" /\ c \in Refreshing \ Listing
  /\ call' = [call EXCEPT ![c].pc = "forgot"] /\ Remember(c, Never) /\ UNCHANGED <<loaded, file>> /\ Rest

Looks(c) == IF c \in Refreshing \ Listing THEN call[c].pc = "forgot" ELSE call[c].pc = "asked"

\* Mutant: a list is looked for although it is to be asked for again.
MayUseAny(c) == Good(Remembered(c), clock)

\* A list that is to be asked for again is dropped and not looked for.
MayUse(c) == Good(Remembered(c), clock) /\ ~(c \in Listing /\ c \in Refreshing)

\* `now` is taken a moment before the look; the two are one here, and the question is asked then.
Cached(c) ==
  /\ Looks(c) /\ MayUse(c)
  /\ call' = [call EXCEPT ![c].pc = "answered", ![c].now = clock, ![c].answer = Remembered(c).value]
  /\ UNCHANGED <<entry, loaded, file>> /\ Rest

Miss(c) ==
  /\ Looks(c) /\ ~MayUse(c) /\ call' = [call EXCEPT ![c].pc = "asking", ![c].now = clock]
  /\ IF c \in Listing /\ c \in Refreshing THEN Remember(c, Never) ELSE UNCHANGED entry
  /\ UNCHANGED <<loaded, file>> /\ Rest

\* The device, or the server, says what is true now.
Probed(c) ==
  /\ call[c].pc = "asking" /\ call' = [call EXCEPT ![c].pc = "probed", ![c].answer = truth]
  /\ UNCHANGED <<entry, loaded, file>> /\ Rest

\* Mutant: an answer is good from the moment it is remembered.
StampLate(c) == clock

Stamp(c) == call[c].now

Put(c) ==
  /\ call[c].pc = "probed" /\ call' = [call EXCEPT ![c].pc = "answered"]
  /\ Remember(c, [at |-> Stamp(c), value |-> call[c].answer]) /\ UNCHANGED <<loaded, file>> /\ Rest

Tick ==
  /\ clock < MaxClock /\ clock' = clock + 1 /\ lastTrue' = [lastTrue EXCEPT ![truth] = clock + 1]
  /\ UNCHANGED <<call, entry, loaded, file, truth>>

Change ==
  /\ truth < MaxChange /\ truth' = truth + 1 /\ lastTrue' = [lastTrue EXCEPT ![truth + 1] = clock]
  /\ UNCHANGED <<call, entry, loaded, file, clock>>

ProbeNext ==
  \/ \E p \in Process : Load(p) \/ Keep(p) \/ \E c \in Call : Ask(c, p)
  \/ \E c \in Call : Forgets(c) \/ Cached(c) \/ Miss(c) \/ Probed(c) \/ Put(c)
  \/ Tick \/ Change
ProbeSpec == ProbeInit /\ [][ProbeNext]_probeVars

(***************************************************************************)
(* Properties                                                              *)
(***************************************************************************)
\* Whatever is answered was true in the lifetime before it was asked for, however slow the probe
\* it comes from was and whichever process took it.
AnswerIsRecent == \A c \in Call : call[c].pc = "answered" => lastTrue[call[c].answer] >= call[c].now

\* A list that is asked for again is as the server had it after the question.
RefreshIsNew ==
  \A c \in Refreshing \cap Listing : call[c].pc = "answered" => call[c].answer >= call[c].saw

\* Both, of every question that is answered from a cache.
AnswersAreFresh == AnswerIsRecent /\ RefreshIsNew

\* devices.rs:205 says of a device what holds of a list: pressing Refresh must not show the answer
\* it was to bypass.
RefreshAsksAgain == \A c \in Refreshing : call[c].pc = "answered" => call[c].answer >= call[c].saw
=============================================================================
