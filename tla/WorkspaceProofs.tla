--------------------------- MODULE WorkspaceProofs ---------------------------
(***************************************************************************)
(* Proofs about the parts of MCWorkspace, for every number of sign-ins,    *)
(* readers, ports, processes, questions, workers, documents and panes.     *)
(* Each part has an inductive invariant of its own; a step of another part *)
(* leaves it alone.                                                        *)
(***************************************************************************)
EXTENDS MCWorkspace, FiniteSetTheorems, SequenceTheorems, TLAPS

-----------------------------------------------------------------------------
\* TrackerGrant: who may yet write the stored grant is expected to.

\* A port that Bind can choose, or none.
Registered == {0} \cup {CHOOSE p \in S : \A q \in S : p <= q : S \in SUBSET (1..Ports)}

Flows == [pc : {"idle", "begun", "bound", "listening", "reading", "silent", "exchanging", "granted", "closed"},
          port : Registered]
Signers == SignIn \cup {"earlier"}
Readings == [pc : {"idle", "refreshing", "refreshed", "done"}, grant : Signers \cup {None}]

GrantTyped ==
  /\ flow \in [SignIn -> Flows] /\ reading \in [Reader -> Readings]
  /\ file \in Signers \cup {None}

\* A sign-in that is not expected rests, and a refresh is of a grant that is.
OthersRest    == \A s \in SignIn : s \notin expected => Grant!AtRest(s)
RefreshesKnown == \A r \in Grant!InRefresh : reading[r].grant \in expected
GrantInv == GrantTyped /\ OthersRest /\ RefreshesKnown /\ Grant!SignedOutUnlessRaced

LEMMA GrantStarts ==
  ASSUME Grant!GrantInit
  PROVE  GrantInv
<1>1. Grant!NoFlow \in Flows /\ [pc |-> "idle", grant |-> None] \in Readings
  BY DEF Grant!NoFlow, Flows, Readings, Registered
<1>2. GrantTyped
  BY <1>1 DEF Grant!GrantInit, GrantTyped, Signers
<1>3. OthersRest /\ RefreshesKnown /\ Grant!SignedOutUnlessRaced
  BY DEF Grant!GrantInit, OthersRest, RefreshesKnown, Grant!SignedOutUnlessRaced, Grant!AtRest, Grant!InRefresh,
         Grant!NoFlow
<1>. QED
  BY <1>2, <1>3 DEF GrantInv

LEMMA Binds ==
  ASSUME NEW s \in SignIn, Grant!Bind(s), GrantTyped
  PROVE  flow' \in [SignIn -> Flows]
<1>1. CASE Grant!Free = {}
  BY <1>1 DEF Grant!Bind, GrantTyped, Flows
<1>2. CASE Grant!Free # {}
  <2>. DEFINE p == CHOOSE p \in Grant!Free : \A q \in Grant!Free : p <= q
  <2>1. Grant!Free \in SUBSET (1..Ports)
    BY DEF Grant!Free
  <2>2. p \in Registered
    BY <2>1 DEF Registered
  <2>3. flow' = [flow EXCEPT ![s].pc = "bound", ![s].port = p]
    BY <1>2 DEF Grant!Bind
  <2>. HIDE DEF p
  <2>. QED
    BY <2>2, <2>3 DEF GrantTyped, Flows
<1>. QED
  BY <1>1, <1>2

\* What a sign-in's step is to the others, to the readers and to the file.
LEMMA SignInStep ==
  ASSUME GrantTyped, NEW s \in SignIn,
         \/ Grant!Begin(s) \/ Grant!Bind(s) \/ Grant!Hold(s) \/ Grant!Accepts(s) \/ Grant!Comes(s)
         \/ Grant!Exchange(s) \/ Grant!Stores(s) \/ Grant!Fails(s) \/ Grant!Woken(s) \/ Grant!Deadline(s)
  PROVE  /\ flow' \in [SignIn -> Flows] /\ \A t \in SignIn : t # s => flow'[t] = flow[t]
         /\ ended \subseteq ended' /\ reading' = reading
         /\ file' = file \/ (file' = s /\ ~Grant!AtRest(s))
         /\ expected' = expected \/ expected' = expected \cup {s}
         /\ s \in expected' \/ ~Grant!AtRest(s) \/ Grant!AtRest(s)'
<1>. USE DEF GrantTyped
<1>0. 0 \in Registered
  BY DEF Registered
<1>1. CASE Grant!Begin(s)
  <2>1. flow' \in [SignIn -> Flows] /\ \A t \in SignIn : t # s => flow'[t] = flow[t]
    BY <1>1 DEF Grant!Begin, Flows
  <2>. QED
    BY <1>1, <2>1 DEF Grant!Begin, Grant!Cancels
<1>2. CASE Grant!Bind(s)
  <2>1. flow' \in [SignIn -> Flows] /\ \A t \in SignIn : t # s => flow'[t] = flow[t]
    BY <1>2, Binds DEF Grant!Bind
  <2>. QED
    BY <1>2, <2>1 DEF Grant!Bind, Grant!AtRest
<1>3. CASE Grant!Hold(s) \/ Grant!Accepts(s) \/ Grant!Refused(s) \/ Grant!Code(s) \/ Grant!Exchange(s)
  <2>1. PICK pc \in {"listening", "reading", "silent", "exchanging", "granted"} : flow' = [flow EXCEPT ![s].pc = pc]
    BY <1>3 DEF Grant!Hold, Grant!Accepts, Grant!Refused, Grant!Code, Grant!Exchange
  <2>2. flow' \in [SignIn -> Flows] /\ \A t \in SignIn : t # s => flow'[t] = flow[t]
    BY <2>1 DEF Flows
  <2>3. ~Grant!AtRest(s)
    BY <1>3 DEF Grant!Hold, Grant!Accepts, Grant!Refused, Grant!Code, Grant!Exchange, Grant!Asked, Grant!AtRest
  <2>. QED
    BY <1>3, <2>2, <2>3 DEF Grant!Hold, Grant!Accepts, Grant!Refused, Grant!Code, Grant!Exchange
<1>4. CASE Grant!Declined(s) \/ Grant!Stores(s) \/ Grant!Fails(s) \/ Grant!Woken(s)
  <2>1. flow' = [flow EXCEPT ![s].pc = "closed", ![s].port = 0]
    BY <1>4 DEF Grant!Declined, Grant!Stores, Grant!Fails, Grant!Woken, Grant!Closed
  <2>2. /\ flow' \in [SignIn -> Flows] /\ \A t \in SignIn : t # s => flow'[t] = flow[t]
        /\ flow'[s].pc = "closed"
    BY <1>0, <2>1 DEF Flows
  <2>3. Grant!AtRest(s)'
    BY <2>2 DEF Grant!AtRest
  <2>. QED
    BY <1>4, <2>2, <2>3 DEF Grant!Declined, Grant!Stores, Grant!Fails, Grant!Woken, Grant!AtRest
<1>5. CASE Grant!Deadline(s)
  BY <1>5 DEF Grant!Deadline, Grant!AtRest
<1>. QED
  BY <1>1, <1>2, <1>3, <1>4, <1>5 DEF Grant!Comes

LEMMA SignInSafe ==
  ASSUME GrantInv, NEW s \in SignIn,
         \/ Grant!Begin(s) \/ Grant!Bind(s) \/ Grant!Hold(s) \/ Grant!Accepts(s) \/ Grant!Comes(s)
         \/ Grant!Exchange(s) \/ Grant!Stores(s) \/ Grant!Fails(s) \/ Grant!Woken(s) \/ Grant!Deadline(s)
  PROVE  GrantInv'
<1>1. /\ flow' \in [SignIn -> Flows] /\ \A t \in SignIn : t # s => flow'[t] = flow[t]
      /\ ended \subseteq ended' /\ reading' = reading
      /\ file' = file \/ (file' = s /\ ~Grant!AtRest(s))
      /\ expected' = expected \/ expected' = expected \cup {s}
      /\ s \in expected' \/ ~Grant!AtRest(s) \/ Grant!AtRest(s)'
  BY SignInStep DEF GrantInv
<1>2. GrantTyped'
  BY <1>1 DEF GrantInv, GrantTyped, Signers
<1>3. OthersRest'
  <2>1. \A t \in SignIn : t # s /\ Grant!AtRest(t) => Grant!AtRest(t)'
    BY <1>1 DEF Grant!AtRest
  <2>. QED
    BY <1>1, <2>1 DEF GrantInv, OthersRest
<1>4. RefreshesKnown'
  <2>1. Grant!InRefresh' = Grant!InRefresh
    BY <1>1 DEF Grant!InRefresh
  <2>. QED
    BY <1>1, <2>1 DEF GrantInv, RefreshesKnown
<1>5. Grant!SignedOutUnlessRaced'
  BY <1>1 DEF GrantInv, OthersRest, Grant!SignedOutUnlessRaced
<1>. QED
  BY <1>2, <1>3, <1>4, <1>5 DEF GrantInv

LEMMA SignOutSafe ==
  ASSUME GrantInv, NEW o \in SignOut, Grant!Leave(o) \/ Grant!Forget(o)
  PROVE  GrantInv'
<1>1. UNCHANGED <<flow, reading>> /\ ended \subseteq ended'
  BY DEF Grant!Leave, Grant!Forget, Grant!Cancels
<1>2. Grant!InRefresh' = Grant!InRefresh /\ \A s \in SignIn : Grant!AtRest(s) => Grant!AtRest(s)'
  BY <1>1 DEF Grant!InRefresh, Grant!AtRest
<1>3. \/ file' = file /\ expected' = expected
      \/ file' = None /\ expected' = {s \in SignIn : ~Grant!AtRest(s)} \cup {reading[r].grant : r \in Grant!InRefresh}
  BY DEF Grant!Leave, Grant!Forget
<1>4. GrantTyped'
  BY <1>1, <1>3 DEF GrantInv, GrantTyped
<1>5. OthersRest' /\ RefreshesKnown' /\ Grant!SignedOutUnlessRaced'
  BY <1>1, <1>2, <1>3 DEF GrantInv, OthersRest, RefreshesKnown, Grant!SignedOutUnlessRaced
<1>. QED
  BY <1>4, <1>5 DEF GrantInv

LEMMA ReaderSafe ==
  ASSUME GrantInv, NEW r \in Reader, Grant!Read(r) \/ Grant!Refresh(r) \/ Grant!WriteBack(r)
  PROVE  GrantInv'
<1>. USE DEF GrantInv, GrantTyped
<1>1. UNCHANGED <<flow, ended, expected>>
  BY DEF Grant!Read, Grant!Refresh, Grant!WriteBack
<1>2. OthersRest'
  BY <1>1 DEF OthersRest, Grant!AtRest
<1>3. /\ reading' \in [Reader -> Readings] /\ \A q \in Reader : q # r => reading'[q] = reading[q]
      /\ r \in Grant!InRefresh' => reading'[r].grant \in expected
  <2>1. CASE Grant!Read(r)
    <3>1. PICK pc \in {"done", "refreshing"} :
            /\ reading' = [reading EXCEPT ![r] = [pc |-> pc, grant |-> file]]
            /\ file = None => pc = "done"
      BY <2>1 DEF Grant!Read
    <3>. QED
      BY <3>1 DEF Readings, Grant!InRefresh, Grant!SignedOutUnlessRaced
  <2>2. CASE Grant!Refresh(r)
    <3>1. PICK pc \in {"refreshed", "done"} : reading' = [reading EXCEPT ![r].pc = pc]
      BY <2>2 DEF Grant!Refresh
    <3>2. r \in Grant!InRefresh
      BY <2>2 DEF Grant!Refresh, Grant!InRefresh
    <3>. QED
      BY <3>1, <3>2 DEF Readings, RefreshesKnown
  <2>3. CASE Grant!WriteBack(r)
    BY <2>3 DEF Grant!WriteBack, Readings, Grant!InRefresh
  <2>. QED
    BY <2>1, <2>2, <2>3
<1>4. RefreshesKnown'
  BY <1>1, <1>3 DEF RefreshesKnown, Grant!InRefresh
<1>5. file' = file \/ (r \in Grant!InRefresh /\ file' = reading[r].grant)
  BY DEF Grant!Read, Grant!Refresh, Grant!WriteBack, Grant!InRefresh
<1>6. file' \in Signers \cup {None} /\ Grant!SignedOutUnlessRaced'
  BY <1>1, <1>5 DEF RefreshesKnown, Grant!SignedOutUnlessRaced, Readings
<1>. QED
  BY <1>1, <1>2, <1>3, <1>4, <1>6

LEMMA GrantUntouched ==
  ASSUME GrantInv, UNCHANGED grant
  PROVE  GrantInv'
BY DEF grant, GrantInv, GrantTyped, OthersRest, RefreshesKnown, Grant!AtRest, Grant!InRefresh, Grant!SignedOutUnlessRaced

\* What is stored once a sign-out emptied the file is the grant of a sign-in that began after it or
\* was being served, yet to be cancelled or being refreshed while it was emptied, however many
\* sign-ins are replaced, listeners woken late and readers slow (TrackerGrant; signin.rs,
\* tracker_auth.rs).
THEOREM SignedOutStays == AnySpec => []SignedOutUnlessRaced
<1>1. AnyInit => GrantInv
  BY GrantStarts DEF AnyInit
<1>2. GrantInv /\ [AnyNext]_all => GrantInv'
  <2>. SUFFICES ASSUME GrantInv, [AnyNext]_all PROVE GrantInv'
    OBVIOUS
  <2>1. CASE OfGrant
    BY <2>1, SignInSafe, SignOutSafe, ReaderSafe DEF OfGrant, Grant!GrantNext
  <2>2. CASE UNCHANGED grant
    BY <2>2, GrantUntouched
  <2>3. OfGrant \/ UNCHANGED grant
    BY DEF AnyNext, all, OfTokens, OfGames, OfGrant, OfProbes, OfLsp, OfEditor
  <2>. QED
    BY <2>1, <2>2, <2>3
<1>3. GrantInv => SignedOutUnlessRaced
  BY DEF GrantInv, SignedOutUnlessRaced
<1>. QED
  BY <1>1, <1>2, <1>3, PTL DEF AnySpec
-----------------------------------------------------------------------------
\* ProbeCache: what is remembered was true until the moment it is stamped with, or later.

Values  == 0..MaxChange
Entries == {Never} \cup [at : Nat, value : Values]
Caches  == [device : Entries, list : Entries]
Questions ==
  [pc : {"idle", "asked", "forgot", "asking", "probed", "answered"},
   in : Process \cup {Never}, now : Nat, answer : Values, saw : Values]

ProbesTyped ==
  /\ clock \in Nat /\ truth \in Values /\ lastTrue \in [Values -> Nat]
  /\ entry \in [Process -> Caches] /\ kept \in Entries
  /\ question \in [Question -> Questions]
  /\ \A c \in Question : question[c].pc # "idle" => question[c].in \in Process

TruthKnown == lastTrue[truth] = clock /\ \A v \in Values : lastTrue[v] <= clock

Recent(e) == e # Never => lastTrue[e.value] >= e.at
EntriesRecent == Recent(kept) /\ \A p \in Process : Recent(entry[p].device) /\ Recent(entry[p].list)

QuestionsRecent ==
  \A c \in Question :
    /\ question[c].saw <= truth
    /\ question[c].pc = "asking" => question[c].now <= clock
    /\ question[c].pc \in {"probed", "answered"} => lastTrue[question[c].answer] >= question[c].now
    /\ question[c].pc \in {"probed", "answered"} /\ c \in Refreshing /\ c \in Listing
         => question[c].answer >= question[c].saw

ProbeInv == ProbesTyped /\ TruthKnown /\ EntriesRecent /\ QuestionsRecent

LEMMA ProbesStart ==
  ASSUME Probes!ProbeInit
  PROVE  ProbeInv
<1>. USE DEF Probes!ProbeInit
<1>0. 0 \in Values /\ Never \in Entries
  BY WorkspaceConstants DEF Values, Entries
<1>1. [pc |-> "idle", in |-> Never, now |-> 0, answer |-> 0, saw |-> 0] \in Questions
  BY <1>0 DEF Questions
<1>2. [device |-> Never, list |-> Never] \in Caches
  BY <1>0 DEF Caches
<1>3. ProbesTyped
  BY <1>0, <1>1, <1>2 DEF ProbesTyped, Probes!NoCall, Values
<1>4. TruthKnown
  BY <1>0 DEF TruthKnown, Values
<1>5. EntriesRecent
  BY DEF EntriesRecent, Recent
<1>6. QuestionsRecent
  BY DEF QuestionsRecent, Probes!NoCall
<1>. QED
  BY <1>3, <1>4, <1>5, <1>6 DEF ProbeInv

\* The cache of a process takes up an entry.
TakesUp(p, a, e) == entry' = [entry EXCEPT ![p][a] = e]

LEMMA CacheMoves ==
  ASSUME NEW p \in Process, NEW f \in Caches, Recent(f.device), Recent(f.list),
         ProbesTyped, EntriesRecent, kept' = kept, lastTrue' = lastTrue,
         entry' = [entry EXCEPT ![p] = f]
  PROVE  entry' \in [Process -> Caches] /\ EntriesRecent'
<1>1. entry' \in [Process -> Caches]
  BY DEF ProbesTyped
<1>2. entry'[p] = f /\ \A q \in Process : q # p => entry'[q] = entry[q]
  BY DEF ProbesTyped
<1>3. ASSUME NEW q \in Process PROVE Recent(entry'[q].device) /\ Recent(entry'[q].list)
  BY <1>2 DEF EntriesRecent
<1>. QED
  BY <1>1, <1>3 DEF EntriesRecent, Recent

LEMMA EntryRemembered ==
  ASSUME NEW p \in Process, NEW a \in {"device", "list"}, NEW e \in Entries, Recent(e),
         ProbesTyped, EntriesRecent, kept' = kept, lastTrue' = lastTrue, TakesUp(p, a, e)
  PROVE  entry' \in [Process -> Caches] /\ EntriesRecent'
<1>1. entry[p] \in Caches /\ Recent(entry[p].device) /\ Recent(entry[p].list)
  BY DEF ProbesTyped, EntriesRecent
<1>2. CASE a = "device"
  <2>1. PICK f \in Caches : f = [entry[p] EXCEPT !.device = e]
    BY <1>1 DEF Caches
  <2>2. f.device = e /\ f.list = entry[p].list
    BY <1>1, <2>1 DEF Caches
  <2>3. entry' = [entry EXCEPT ![p] = f]
    BY <1>2, <2>1 DEF TakesUp, ProbesTyped
  <2>. QED
    BY <1>1, <2>2, <2>3, CacheMoves
<1>3. CASE a = "list"
  <2>1. PICK f \in Caches : f = [entry[p] EXCEPT !.list = e]
    BY <1>1 DEF Caches
  <2>2. f.list = e /\ f.device = entry[p].device
    BY <1>1, <2>1 DEF Caches
  <2>3. entry' = [entry EXCEPT ![p] = f]
    BY <1>3, <2>1 DEF TakesUp, ProbesTyped
  <2>. QED
    BY <1>1, <2>2, <2>3, CacheMoves
<1>. QED
  BY <1>2, <1>3

\* One question moves on.
LEMMA QuestionMoves ==
  ASSUME NEW c \in Question, NEW k \in Questions, ProbesTyped, QuestionsRecent,
         question' = [question EXCEPT ![c] = k], UNCHANGED <<clock, truth, lastTrue>>,
         k.pc # "idle" => k.in \in Process, k.saw <= truth,
         k.pc = "asking" => k.now <= clock,
         k.pc \in {"probed", "answered"} => lastTrue[k.answer] >= k.now,
         k.pc \in {"probed", "answered"} /\ c \in Refreshing /\ c \in Listing => k.answer >= k.saw
  PROVE  /\ question' \in [Question -> Questions]
         /\ \A d \in Question : question'[d].pc # "idle" => question'[d].in \in Process
         /\ QuestionsRecent'
<1>1. question' \in [Question -> Questions]
  BY DEF ProbesTyped
<1>2. question'[c] = k /\ \A d \in Question : d # c => question'[d] = question[d]
  BY DEF ProbesTyped
<1>3. \A d \in Question : question'[d].pc # "idle" => question'[d].in \in Process
  BY <1>2 DEF ProbesTyped
<1>4. QuestionsRecent'
  BY <1>2 DEF QuestionsRecent
<1>. QED
  BY <1>1, <1>3, <1>4

LEMMA ProbeGoesOn ==
  ASSUME ProbeInv, NEW c \in Question,
         \/ Probes!Forgets(c) \/ Probes!Cached(c) \/ Probes!Miss(c) \/ Probes!Probed(c) \/ Probes!Put(c)
  PROVE  ProbeInv'
<1>. USE DEF ProbeInv
<1>0. /\ question[c] \in Questions /\ Probes!About(c) \in {"device", "list"}
      /\ question[c].pc # "idle" => question[c].in \in Process
  BY DEF ProbesTyped, Probes!About
<1>1. Never \in Entries /\ Recent(Never)
  BY DEF Entries, Recent
<1>2. CASE Probes!Forgets(c)
  <2>1. PICK k \in Questions : k = [question[c] EXCEPT !.pc = "forgot"]
    BY <1>0 DEF Questions
  <2>2. /\ k.pc = "forgot" /\ k.in = question[c].in /\ k.saw = question[c].saw
    BY <1>0, <2>1 DEF Questions
  <2>3. question' = [question EXCEPT ![c] = k] /\ UNCHANGED <<clock, truth, lastTrue, kept>>
    BY <1>2, <2>1 DEF Probes!Forgets, Probes!Rest, ProbesTyped
  <2>4. TakesUp(question[c].in, Probes!About(c), Never) /\ question[c].in \in Process
    BY <1>0, <1>2 DEF Probes!Forgets, Probes!Remember, TakesUp
  <2>5. entry' \in [Process -> Caches] /\ EntriesRecent'
    BY <1>0, <1>1, <2>3, <2>4, EntryRemembered
  <2>6. k.saw <= truth /\ (k.pc # "idle" => k.in \in Process)
    BY <2>2, <2>4 DEF QuestionsRecent
  <2>7. /\ question' \in [Question -> Questions] /\ QuestionsRecent'
        /\ \A d \in Question : question'[d].pc # "idle" => question'[d].in \in Process
    BY <2>2, <2>3, <2>6, QuestionMoves
  <2>. QED
    BY <2>3, <2>5, <2>7 DEF ProbesTyped, TruthKnown
<1>3. CASE Probes!Cached(c)
  <2>0. question[c].pc # "idle" /\ question[c].in \in Process
    BY <1>0, <1>3 DEF Probes!Cached, Probes!Looks
  <2>. DEFINE e == Probes!Remembered(c)
  <2>1. e \in Entries /\ e # Never /\ e.at = clock /\ Recent(e) /\ ~(c \in Listing /\ c \in Refreshing)
    <3>1. e \in {entry[question[c].in].device, entry[question[c].in].list}
      BY <1>0, <2>0 DEF Probes!Remembered, Probes!About, ProbesTyped, Caches
    <3>2. Recent(e) /\ e \in Entries
      BY <2>0, <3>1 DEF EntriesRecent, ProbesTyped, Caches
    <3>. QED
      BY <1>3, <3>2 DEF Probes!Cached, Probes!MayUse, Probes!Good
  <2>2. PICK v \in Values : v = e.value
    BY <2>1 DEF Entries
  <2>3. lastTrue[v] >= clock
    BY <2>1, <2>2 DEF Recent
  <2>4. PICK k \in Questions : k = [question[c] EXCEPT !.pc = "answered", !.now = clock, !.answer = v]
    BY <1>0 DEF Questions, ProbesTyped
  <2>5. k.pc = "answered" /\ k.now = clock /\ k.answer = v /\ k.in = question[c].in /\ k.saw = question[c].saw
    BY <1>0, <2>4 DEF Questions
  <2>6. question' = [question EXCEPT ![c] = k] /\ UNCHANGED <<clock, truth, lastTrue, kept, entry>>
    BY <1>3, <2>2, <2>4 DEF Probes!Cached, Probes!Rest, ProbesTyped
  <2>7. k.saw <= truth
    BY <2>5 DEF QuestionsRecent
  <2>8. /\ question' \in [Question -> Questions] /\ QuestionsRecent'
        /\ \A d \in Question : question'[d].pc # "idle" => question'[d].in \in Process
    <3>1. k.in \in Process /\ lastTrue[k.answer] >= k.now /\ k.pc # "asking"
      BY <2>0, <2>3, <2>5
    <3>. QED
      BY <2>1, <2>6, <2>7, <3>1, QuestionMoves
  <2>. QED
    BY <2>6, <2>8 DEF ProbesTyped, TruthKnown, EntriesRecent, Recent
<1>4. CASE Probes!Miss(c)
  <2>0. question[c].pc # "idle" /\ question[c].in \in Process
    BY <1>0, <1>4 DEF Probes!Miss, Probes!Looks
  <2>1. PICK k \in Questions : k = [question[c] EXCEPT !.pc = "asking", !.now = clock]
    BY <1>0 DEF Questions, ProbesTyped
  <2>2. k.pc = "asking" /\ k.now = clock /\ k.in = question[c].in /\ k.saw = question[c].saw
    BY <1>0, <2>1 DEF Questions
  <2>3. question' = [question EXCEPT ![c] = k] /\ UNCHANGED <<clock, truth, lastTrue, kept>>
    BY <1>4, <2>1 DEF Probes!Miss, Probes!Rest, ProbesTyped
  <2>4. k.saw <= truth /\ k.now <= clock
    BY <2>2 DEF QuestionsRecent, ProbesTyped
  <2>5. /\ question' \in [Question -> Questions] /\ QuestionsRecent'
        /\ \A d \in Question : question'[d].pc # "idle" => question'[d].in \in Process
    BY <2>0, <2>2, <2>3, <2>4, QuestionMoves
  <2>6. entry' \in [Process -> Caches] /\ EntriesRecent'
    <3>1. CASE c \in Listing /\ c \in Refreshing
      <4>1. TakesUp(question[c].in, Probes!About(c), Never)
        BY <1>4, <3>1 DEF Probes!Miss, Probes!Remember, TakesUp
      <4>. QED
        BY <1>0, <1>1, <2>0, <2>3, <4>1, EntryRemembered
    <3>2. CASE ~(c \in Listing /\ c \in Refreshing)
      BY <1>4, <2>3, <3>2 DEF Probes!Miss, EntriesRecent, Recent, ProbesTyped
    <3>. QED
      BY <3>1, <3>2
  <2>. QED
    BY <2>3, <2>5, <2>6 DEF ProbesTyped, TruthKnown
<1>5. CASE Probes!Probed(c)
  <2>0. question[c].pc = "asking" /\ question[c].in \in Process /\ question[c].now <= clock
    BY <1>0, <1>5 DEF Probes!Probed, QuestionsRecent
  <2>1. PICK k \in Questions : k = [question[c] EXCEPT !.pc = "probed", !.answer = truth]
    BY <1>0 DEF Questions, ProbesTyped
  <2>2. /\ k.pc = "probed" /\ k.now = question[c].now /\ k.in = question[c].in /\ k.saw = question[c].saw
        /\ k.answer = truth
    BY <1>0, <2>1 DEF Questions
  <2>3. question' = [question EXCEPT ![c] = k] /\ UNCHANGED <<clock, truth, lastTrue, kept, entry>>
    BY <1>5, <2>1 DEF Probes!Probed, Probes!Rest, ProbesTyped
  <2>4. k.saw <= truth /\ lastTrue[k.answer] >= k.now /\ k.answer >= k.saw
    BY <1>0, <2>0, <2>2 DEF QuestionsRecent, TruthKnown, ProbesTyped, Values, Questions
  <2>5. /\ question' \in [Question -> Questions] /\ QuestionsRecent'
        /\ \A d \in Question : question'[d].pc # "idle" => question'[d].in \in Process
    BY <2>0, <2>2, <2>3, <2>4, QuestionMoves
  <2>. QED
    BY <2>3, <2>5 DEF ProbesTyped, TruthKnown, EntriesRecent, Recent
<1>6. CASE Probes!Put(c)
  <2>0. question[c].pc = "probed" /\ question[c].in \in Process
    BY <1>0, <1>6 DEF Probes!Put
  <2>1. PICK k \in Questions : k = [question[c] EXCEPT !.pc = "answered"]
    BY <1>0 DEF Questions
  <2>2. /\ k.pc = "answered" /\ k.now = question[c].now /\ k.in = question[c].in /\ k.saw = question[c].saw
        /\ k.answer = question[c].answer
    BY <1>0, <2>1 DEF Questions
  <2>3. question' = [question EXCEPT ![c] = k] /\ UNCHANGED <<clock, truth, lastTrue, kept>>
    BY <1>6, <2>1 DEF Probes!Put, Probes!Rest, ProbesTyped
  <2>4. /\ k.saw <= truth /\ lastTrue[k.answer] >= k.now
        /\ c \in Refreshing /\ c \in Listing => k.answer >= k.saw
    BY <2>0, <2>2 DEF QuestionsRecent
  <2>5. /\ question' \in [Question -> Questions] /\ QuestionsRecent'
        /\ \A d \in Question : question'[d].pc # "idle" => question'[d].in \in Process
    BY <2>0, <2>2, <2>3, <2>4, QuestionMoves
  <2>6. PICK e \in Entries : e = [at |-> question[c].now, value |-> question[c].answer]
    BY <1>0 DEF Entries, Questions
  <2>7. Recent(e)
    BY <2>2, <2>4, <2>6 DEF Recent
  <2>8. TakesUp(question[c].in, Probes!About(c), e)
    BY <1>6, <2>6 DEF Probes!Put, Probes!Remember, Probes!Stamp, TakesUp
  <2>9. entry' \in [Process -> Caches] /\ EntriesRecent'
    BY <1>0, <2>0, <2>3, <2>7, <2>8, EntryRemembered
  <2>. QED
    BY <2>3, <2>5, <2>9 DEF ProbesTyped, TruthKnown
<1>. QED
  BY <1>2, <1>3, <1>4, <1>5, <1>6

\* What was once true until some moment stays so.
LEMMA ProbeTimeGoesOn ==
  ASSUME ProbeInv, Probes!Tick \/ Probes!Change
  PROVE  ProbeInv'
<1>. USE DEF ProbeInv
<1>0. UNCHANGED <<entry, kept, question>>
  BY DEF Probes!Tick, Probes!Change
<1>1. /\ clock' \in Nat /\ clock' >= clock /\ truth' \in Values /\ truth' >= truth
      /\ lastTrue' \in [Values -> Nat] /\ TruthKnown'
      /\ \A v \in Values : lastTrue'[v] >= lastTrue[v]
  <2>1. CASE Probes!Tick
    <3>1. clock' = clock + 1 /\ clock' \in Nat /\ truth' = truth
      BY <2>1 DEF Probes!Tick, ProbesTyped
    <3>2. lastTrue' = [lastTrue EXCEPT ![truth] = clock']
      BY <2>1, <3>1 DEF Probes!Tick
    <3>3. lastTrue' \in [Values -> Nat] /\ lastTrue'[truth] = clock'
      BY <3>1, <3>2 DEF ProbesTyped
    <3>4. \A v \in Values : lastTrue[v] <= lastTrue'[v] /\ lastTrue'[v] <= clock'
      BY <3>1, <3>2 DEF ProbesTyped, TruthKnown
    <3>. QED
      BY <3>1, <3>3, <3>4 DEF TruthKnown, ProbesTyped, Values
  <2>2. CASE Probes!Change
    <3>1. clock' = clock /\ truth' = truth + 1 /\ truth' \in Values
      BY <2>2, WorkspaceConstants DEF Probes!Change, ProbesTyped, Values
    <3>2. lastTrue' = [lastTrue EXCEPT ![truth'] = clock]
      BY <2>2, <3>1 DEF Probes!Change
    <3>3. lastTrue' \in [Values -> Nat] /\ lastTrue'[truth'] = clock
      BY <3>1, <3>2 DEF ProbesTyped
    <3>4. \A v \in Values : lastTrue[v] <= lastTrue'[v] /\ lastTrue'[v] <= clock
      BY <3>1, <3>2 DEF ProbesTyped, TruthKnown
    <3>. QED
      BY <3>1, <3>3, <3>4 DEF TruthKnown, ProbesTyped, Values
  <2>. QED
    BY <2>1, <2>2
<1>2. ProbesTyped'
  BY <1>0, <1>1 DEF ProbesTyped
<1>3. ASSUME NEW e \in Entries, Recent(e) PROVE Recent(e)'
  BY <1>1, <1>3 DEF Recent, Entries, ProbesTyped
<1>4. EntriesRecent'
  BY <1>0, <1>3 DEF EntriesRecent, ProbesTyped, Caches
<1>5. QuestionsRecent'
  <2>. SUFFICES ASSUME NEW c \in Question
       PROVE /\ question[c].saw <= truth'
             /\ question[c].pc = "asking" => question[c].now <= clock'
             /\ question[c].pc \in {"probed", "answered"} => lastTrue'[question[c].answer] >= question[c].now
    BY <1>0 DEF QuestionsRecent
  <2>1. question[c] \in Questions
    BY DEF ProbesTyped
  <2>2. question[c].saw \in Nat /\ question[c].now \in Nat /\ question[c].answer \in Values /\ truth \in Nat
    BY <2>1 DEF Questions, Values, ProbesTyped
  <2>3. lastTrue[question[c].answer] \in Nat /\ lastTrue'[question[c].answer] \in Nat
    BY <1>1, <2>2 DEF ProbesTyped
  <2>. QED
    BY <1>1, <2>2, <2>3 DEF QuestionsRecent, ProbesTyped, Values
<1>. QED
  BY <1>1, <1>2, <1>4, <1>5

LEMMA ProbeStep ==
  ASSUME ProbeInv, Probes!ProbeNext
  PROVE  ProbeInv'
<1>. USE DEF ProbeInv
<1>1. ASSUME NEW p \in Process, Probes!Load(p) PROVE ProbeInv'
  <2>1. PICK e \in Entries : e = kept
    BY DEF ProbesTyped
  <2>2. Recent(e) /\ UNCHANGED <<kept, lastTrue, clock, truth, question>>
    BY <1>1, <2>1 DEF Probes!Load, Probes!Rest, EntriesRecent
  <2>3. TakesUp(p, "device", e)
    BY <1>1, <2>1 DEF Probes!Load, TakesUp
  <2>4. entry' \in [Process -> Caches] /\ EntriesRecent'
    BY <2>2, <2>3, EntryRemembered
  <2>. QED
    BY <2>2, <2>4 DEF ProbesTyped, TruthKnown, QuestionsRecent
<1>2. ASSUME NEW p \in Process, Probes!Keep(p) PROVE ProbeInv'
  <2>1. kept' \in {Never, entry[p].device} /\ UNCHANGED <<entry, lastTrue, clock, truth, question>>
    BY <1>2 DEF Probes!Keep, Probes!Rest
  <2>2. kept' \in Entries
    BY <2>1 DEF ProbesTyped, Caches, Entries
  <2>. QED
    BY <2>1, <2>2 DEF ProbesTyped, TruthKnown, QuestionsRecent, EntriesRecent, Recent
<1>3. ASSUME NEW p \in Process, NEW c \in Question, Probes!Ask(c, p) PROVE ProbeInv'
  <2>1. 0 \in Values
    BY WorkspaceConstants DEF Values
  <2>2. PICK k \in Questions : k = [Probes!NoCall EXCEPT !.pc = "asked", !.in = p, !.now = clock, !.saw = truth]
    BY <2>1 DEF Questions, ProbesTyped, Probes!NoCall
  <2>3. question' = [question EXCEPT ![c] = k] /\ UNCHANGED <<entry, kept, clock, truth, lastTrue>>
    BY <1>3, <2>2 DEF Probes!Ask, Probes!Rest
  <2>4. k.pc = "asked" /\ k.in \in Process /\ k.saw = truth
    BY <2>2 DEF Probes!NoCall
  <2>5. k.saw <= truth
    BY <2>4 DEF ProbesTyped, Values
  <2>6. /\ question' \in [Question -> Questions] /\ QuestionsRecent'
        /\ \A d \in Question : question'[d].pc # "idle" => question'[d].in \in Process
    BY <2>3, <2>4, <2>5, QuestionMoves
  <2>. QED
    BY <2>3, <2>6 DEF ProbesTyped, TruthKnown, EntriesRecent, Recent
<1>. QED
  BY <1>1, <1>2, <1>3, ProbeGoesOn, ProbeTimeGoesOn DEF Probes!ProbeNext

\* What is answered out of a cache was true in the lifetime before the question, and a list that is
\* asked for again is as its server had it after the question, however probes overtake each other,
\* in one process or in several that share the file (ProbeCache; devices.rs, tracker_remote.rs).
THEOREM CachedAnswersAreFresh == AnySpec => []AnswersAreFresh
<1>1. AnyInit => ProbeInv
  BY ProbesStart DEF AnyInit
<1>2. ProbeInv /\ [AnyNext]_all => ProbeInv'
  <2>. SUFFICES ASSUME ProbeInv, [AnyNext]_all PROVE ProbeInv'
    OBVIOUS
  <2>1. CASE OfProbes
    BY <2>1, ProbeStep DEF OfProbes
  <2>2. CASE UNCHANGED probes
    BY <2>2 DEF probes, ProbeInv, ProbesTyped, TruthKnown, EntriesRecent, Recent, QuestionsRecent
  <2>3. OfProbes \/ UNCHANGED probes
    BY DEF AnyNext, all, OfTokens, OfGames, OfGrant, OfProbes, OfLsp, OfEditor
  <2>. QED
    BY <2>1, <2>2, <2>3
<1>3. ProbeInv => AnswersAreFresh
  BY WorkspaceConstants
     DEF ProbeInv, QuestionsRecent, AnswersAreFresh, Probes!AnswersAreFresh, Probes!AnswerIsRecent,
         Probes!RefreshIsNew
<1>. QED
  BY <1>1, <1>2, <1>3, PTL DEF AnySpec
-----------------------------------------------------------------------------
\* EditorBridge: who listens has its lock, and a lock is of who listens.

PortNames   == {"ours", "theirs"}
PortOfIde == [w \in Ide |-> IF w = Alone THEN "theirs" ELSE "ours"]
Stages  == {"off", "sweep", "retake", "bound", "serving", "unlinked", "unpublished", "shut", "killed"}

BridgeTyped ==
  /\ serves \in [Ide -> {"off", "up", "replaced", "gone"}]
  /\ bridge \in [Ide -> Stages \cup PortNames] /\ closing \in [Ide -> BOOLEAN]
  /\ holder \in [PortNames -> Ide \cup {None}] /\ lockFile \in [PortNames -> Ide \cup {None}]

\* Who has a port, and who has a lock.
HasPort(w) == bridge[w] \in {"bound", "serving", "unlinked"}
HoldersKnown ==
  /\ \A w \in Ide : HasPort(w) => holder[PortOfIde[w]] = w
  /\ \A p \in PortNames : holder[p] # None => HasPort(holder[p]) /\ PortOfIde[holder[p]] = p
LocksKnown ==
  \A p \in PortNames : lockFile[p] # None =>
    /\ PortOfIde[lockFile[p]] = p
    /\ bridge[lockFile[p]] \in {"serving", "killed"}

\* A worker that is up or was replaced has a bridge, and one that ended has told it so.
WorkersKnown ==
  \A w \in Ide : /\ serves[w] = "off" => bridge[w] = "off"
                 /\ serves[w] = "gone" => closing[w]

ServersLocked == \A w \in Ide \ swept : bridge[w] = "serving" /\ ~closing[w] => lockFile[PortOfIde[w]] = w

BridgeInv == BridgeTyped /\ HoldersKnown /\ LocksKnown /\ WorkersKnown /\ ServersLocked
LEMMA BridgeStarts ==
  ASSUME BridgeInv, NEW w \in Ide, Bridge!Starts(w)
  PROVE  BridgeInv'
<1>. USE DEF BridgeInv, BridgeTyped
<1>1. BridgeTyped'
  BY DEF Bridge!Starts, Bridge!Goes, Bridge!Settles, Stages, PortNames
<1>2. HoldersKnown'
  BY WorkspaceConstants DEF Bridge!Starts, Bridge!Goes, Bridge!Settles, HoldersKnown, WorkersKnown, HasPort, PortOfIde, PortNames
<1>3. LocksKnown'
  BY WorkspaceConstants DEF Bridge!Starts, Bridge!Goes, Bridge!Settles, LocksKnown, WorkersKnown, HoldersKnown, HasPort, PortOfIde, PortNames
<1>4. WorkersKnown'
  BY DEF Bridge!Starts, Bridge!Goes, Bridge!Settles, WorkersKnown, PortNames
<1>5. ServersLocked'
  BY WorkspaceConstants DEF Bridge!Starts, Bridge!Goes, Bridge!Settles, ServersLocked, LocksKnown, HoldersKnown, HasPort, PortOfIde, PortNames
<1>. QED
  BY <1>1, <1>2, <1>3, <1>4, <1>5

LEMMA BridgeReplaced ==
  ASSUME BridgeInv, NEW w \in Ide, Bridge!Replaced(w)
  PROVE  BridgeInv'
<1>. USE DEF BridgeInv, BridgeTyped
<1>1. BridgeTyped'
  BY DEF Bridge!Replaced, Bridge!Goes, Bridge!Settles, Stages, PortNames
<1>2. HoldersKnown'
  BY WorkspaceConstants DEF Bridge!Replaced, Bridge!Goes, Bridge!Settles, HoldersKnown, WorkersKnown, HasPort, PortOfIde, PortNames
<1>3. LocksKnown'
  BY WorkspaceConstants DEF Bridge!Replaced, Bridge!Goes, Bridge!Settles, LocksKnown, WorkersKnown, HoldersKnown, HasPort, PortOfIde, PortNames
<1>4. WorkersKnown'
  BY DEF Bridge!Replaced, Bridge!Goes, Bridge!Settles, WorkersKnown, PortNames
<1>5. ServersLocked'
  BY WorkspaceConstants DEF Bridge!Replaced, Bridge!Goes, Bridge!Settles, ServersLocked, LocksKnown, HoldersKnown, HasPort, PortOfIde, PortNames
<1>. QED
  BY <1>1, <1>2, <1>3, <1>4, <1>5

LEMMA BridgeEnds ==
  ASSUME BridgeInv, NEW w \in Ide, Bridge!Ends(w)
  PROVE  BridgeInv'
<1>. USE DEF BridgeInv, BridgeTyped
<1>1. BridgeTyped'
  BY DEF Bridge!Ends, Bridge!Alive, Bridge!Goes, Bridge!Settles, Stages, PortNames
<1>2. HoldersKnown'
  BY WorkspaceConstants DEF Bridge!Ends, Bridge!Alive, Bridge!Goes, Bridge!Settles, HoldersKnown, WorkersKnown, HasPort, PortOfIde, PortNames
<1>3. LocksKnown'
  BY WorkspaceConstants DEF Bridge!Ends, Bridge!Alive, Bridge!Goes, Bridge!Settles, LocksKnown, WorkersKnown, HoldersKnown, HasPort, PortOfIde, PortNames
<1>4. WorkersKnown'
  BY DEF Bridge!Ends, Bridge!Alive, Bridge!Goes, Bridge!Settles, WorkersKnown, PortNames
<1>5. ServersLocked'
  BY WorkspaceConstants DEF Bridge!Ends, Bridge!Alive, Bridge!Goes, Bridge!Settles, ServersLocked, LocksKnown, HoldersKnown, HasPort, PortOfIde, PortNames
<1>. QED
  BY <1>1, <1>2, <1>3, <1>4, <1>5

LEMMA BridgeKilled ==
  ASSUME BridgeInv, NEW w \in Ide, Bridge!Killed(w)
  PROVE  BridgeInv'
<1>. USE DEF BridgeInv, BridgeTyped
<1>1. BridgeTyped'
  BY DEF Bridge!Killed, Bridge!Frees, Bridge!Goes, Bridge!Settles, Stages, PortNames
<1>2. HoldersKnown'
  BY WorkspaceConstants DEF Bridge!Killed, Bridge!Frees, Bridge!Goes, Bridge!Settles, HoldersKnown, WorkersKnown, HasPort, PortOfIde, PortNames
<1>3. LocksKnown'
  BY WorkspaceConstants DEF Bridge!Killed, Bridge!Frees, Bridge!Goes, Bridge!Settles, LocksKnown, WorkersKnown, HoldersKnown, HasPort, PortOfIde, PortNames
<1>4. WorkersKnown'
  BY DEF Bridge!Killed, Bridge!Frees, Bridge!Goes, Bridge!Settles, WorkersKnown, PortNames
<1>5. ServersLocked'
  BY WorkspaceConstants DEF Bridge!Killed, Bridge!Frees, Bridge!Goes, Bridge!Settles, ServersLocked, LocksKnown, HoldersKnown, HasPort, PortOfIde, PortNames
<1>. QED
  BY <1>1, <1>2, <1>3, <1>4, <1>5

LEMMA BridgeTakes ==
  ASSUME BridgeInv, NEW w \in Ide, Bridge!Takes(w)
  PROVE  BridgeInv'
<1>. USE DEF BridgeInv, BridgeTyped
<1>1. BridgeTyped'
  BY DEF Bridge!Takes, Bridge!Mine, Bridge!Goes, Bridge!Settles, Stages, PortNames
<1>2. HoldersKnown'
  BY WorkspaceConstants DEF Bridge!Takes, Bridge!Mine, Bridge!Goes, Bridge!Settles, HoldersKnown, WorkersKnown, HasPort, PortOfIde, PortNames
<1>3. LocksKnown'
  BY WorkspaceConstants DEF Bridge!Takes, Bridge!Mine, Bridge!Goes, Bridge!Settles, LocksKnown, WorkersKnown, HoldersKnown, HasPort, PortOfIde, PortNames
<1>4. WorkersKnown'
  BY DEF Bridge!Takes, Bridge!Mine, Bridge!Goes, Bridge!Settles, WorkersKnown, PortNames
<1>5. ServersLocked'
  BY WorkspaceConstants DEF Bridge!Takes, Bridge!Mine, Bridge!Goes, Bridge!Settles, ServersLocked, LocksKnown, HoldersKnown, HasPort, PortOfIde, PortNames
<1>. QED
  BY <1>1, <1>2, <1>3, <1>4, <1>5

LEMMA BridgeGivesUp ==
  ASSUME BridgeInv, NEW w \in Ide, Bridge!GivesUp(w)
  PROVE  BridgeInv'
<1>. USE DEF BridgeInv, BridgeTyped
<1>1. BridgeTyped'
  BY DEF Bridge!GivesUp, Bridge!Goes, Bridge!Settles, Stages, PortNames
<1>2. HoldersKnown'
  BY WorkspaceConstants DEF Bridge!GivesUp, Bridge!Goes, Bridge!Settles, HoldersKnown, WorkersKnown, HasPort, PortOfIde, PortNames
<1>3. LocksKnown'
  BY WorkspaceConstants DEF Bridge!GivesUp, Bridge!Goes, Bridge!Settles, LocksKnown, WorkersKnown, HoldersKnown, HasPort, PortOfIde, PortNames
<1>4. WorkersKnown'
  BY DEF Bridge!GivesUp, Bridge!Goes, Bridge!Settles, WorkersKnown, PortNames
<1>5. ServersLocked'
  BY WorkspaceConstants DEF Bridge!GivesUp, Bridge!Goes, Bridge!Settles, ServersLocked, LocksKnown, HoldersKnown, HasPort, PortOfIde, PortNames
<1>. QED
  BY <1>1, <1>2, <1>3, <1>4, <1>5

LEMMA BridgeWrites ==
  ASSUME BridgeInv, NEW w \in Ide, Bridge!Writes(w)
  PROVE  BridgeInv'
<1>. USE DEF BridgeInv, BridgeTyped
<1>1. BridgeTyped'
  BY DEF Bridge!Writes, Bridge!Mine, Bridge!Frees, Bridge!Goes, Bridge!Settles, Stages, PortNames
<1>2. HoldersKnown'
  BY WorkspaceConstants DEF Bridge!Writes, Bridge!Mine, Bridge!Frees, Bridge!Goes, Bridge!Settles, HoldersKnown, WorkersKnown, HasPort, PortOfIde, PortNames
<1>3. LocksKnown'
  BY WorkspaceConstants DEF Bridge!Writes, Bridge!Mine, Bridge!Frees, Bridge!Goes, Bridge!Settles, LocksKnown, WorkersKnown, HoldersKnown, HasPort, PortOfIde, PortNames
<1>4. WorkersKnown'
  BY DEF Bridge!Writes, Bridge!Mine, Bridge!Frees, Bridge!Goes, Bridge!Settles, WorkersKnown, PortNames
<1>5. ServersLocked'
  BY WorkspaceConstants DEF Bridge!Writes, Bridge!Mine, Bridge!Frees, Bridge!Goes, Bridge!Settles, ServersLocked, LocksKnown, HoldersKnown, HasPort, PortOfIde, PortNames
<1>. QED
  BY <1>1, <1>2, <1>3, <1>4, <1>5

LEMMA BridgeUnlinks ==
  ASSUME BridgeInv, NEW w \in Ide, Bridge!Unlinks(w)
  PROVE  BridgeInv'
<1>. USE DEF BridgeInv, BridgeTyped
<1>1. BridgeTyped'
  BY DEF Bridge!Unlinks, Bridge!Mine, Bridge!Goes, Bridge!Settles, Stages, PortNames
<1>2. HoldersKnown'
  BY WorkspaceConstants DEF Bridge!Unlinks, Bridge!Mine, Bridge!Goes, Bridge!Settles, HoldersKnown, WorkersKnown, HasPort, PortOfIde, PortNames
<1>3. LocksKnown'
  BY WorkspaceConstants DEF Bridge!Unlinks, Bridge!Mine, Bridge!Goes, Bridge!Settles, LocksKnown, WorkersKnown, HoldersKnown, HasPort, PortOfIde, PortNames
<1>4. WorkersKnown'
  BY DEF Bridge!Unlinks, Bridge!Mine, Bridge!Goes, Bridge!Settles, WorkersKnown, PortNames
<1>5. ServersLocked'
  BY WorkspaceConstants DEF Bridge!Unlinks, Bridge!Mine, Bridge!Goes, Bridge!Settles, ServersLocked, LocksKnown, HoldersKnown, HasPort, PortOfIde, PortNames
<1>. QED
  BY <1>1, <1>2, <1>3, <1>4, <1>5

LEMMA BridgeReleases ==
  ASSUME BridgeInv, NEW w \in Ide, Bridge!Releases(w)
  PROVE  BridgeInv'
<1>. USE DEF BridgeInv, BridgeTyped
<1>1. BridgeTyped'
  BY DEF Bridge!Releases, Bridge!Frees, Bridge!Goes, Bridge!Settles, Stages, PortNames
<1>2. HoldersKnown'
  BY WorkspaceConstants DEF Bridge!Releases, Bridge!Frees, Bridge!Goes, Bridge!Settles, HoldersKnown, WorkersKnown, HasPort, PortOfIde, PortNames
<1>3. LocksKnown'
  BY WorkspaceConstants DEF Bridge!Releases, Bridge!Frees, Bridge!Goes, Bridge!Settles, LocksKnown, WorkersKnown, HoldersKnown, HasPort, PortOfIde, PortNames
<1>4. WorkersKnown'
  BY DEF Bridge!Releases, Bridge!Frees, Bridge!Goes, Bridge!Settles, WorkersKnown, PortNames
<1>5. ServersLocked'
  BY WorkspaceConstants DEF Bridge!Releases, Bridge!Frees, Bridge!Goes, Bridge!Settles, ServersLocked, LocksKnown, HoldersKnown, HasPort, PortOfIde, PortNames
<1>. QED
  BY <1>1, <1>2, <1>3, <1>4, <1>5

LEMMA BridgeLooks ==
  ASSUME BridgeInv, NEW w \in Ide, NEW p \in PortNames, Bridge!Looks(w, p)
  PROVE  BridgeInv'
<1>. USE DEF BridgeInv, BridgeTyped
<1>0. bridge[w] = "sweep" /\ bridge' \in {bridge, [bridge EXCEPT ![w] = p]}
      /\ UNCHANGED <<serves, closing, holder, lockFile, swept>>
  BY DEF Bridge!Looks, Bridge!Goes
<1>1. BridgeTyped'
  BY <1>0 DEF Stages
<1>2. HoldersKnown'
  BY <1>0 DEF HoldersKnown, HasPort, PortNames
<1>3. LocksKnown'
  BY <1>0 DEF LocksKnown, PortNames
<1>4. WorkersKnown'
  BY <1>0 DEF WorkersKnown, PortNames
<1>5. ServersLocked'
  BY <1>0 DEF ServersLocked, PortNames
<1>. QED
  BY <1>1, <1>2, <1>3, <1>4, <1>5

LEMMA BridgeRemoves ==
  ASSUME BridgeInv, NEW w \in Ide, NEW p \in PortNames, Bridge!Removes(w, p)
  PROVE  BridgeInv'
<1>. USE DEF BridgeInv, BridgeTyped
<1>0. /\ bridge[w] = p /\ bridge' = [bridge EXCEPT ![w] = "sweep"]
      /\ lockFile' = [lockFile EXCEPT ![p] = None]
      /\ UNCHANGED <<serves, closing, holder>>
  BY DEF Bridge!Removes, Bridge!Goes
<1>1. BridgeTyped'
  BY <1>0 DEF Stages
<1>2. HoldersKnown'
  BY <1>0 DEF HoldersKnown, HasPort, PortNames
<1>3. LocksKnown'
  BY <1>0 DEF LocksKnown, PortNames
<1>4. WorkersKnown'
  BY <1>0 DEF WorkersKnown, PortNames
<1>5. ServersLocked'
  <2>. SUFFICES ASSUME NEW v \in Ide \ swept', bridge'[v] = "serving", ~closing'[v]
       PROVE lockFile'[PortOfIde[v]] = v
    BY DEF ServersLocked
  <2>0. PortOfIde[v] \in PortNames
    BY DEF PortOfIde, PortNames
  <2>1. bridge[v] = "serving" /\ ~closing[v] /\ v \notin swept
    BY <1>0 DEF Bridge!Removes, PortNames
  <2>2. lockFile[PortOfIde[v]] = v
    BY <2>1 DEF ServersLocked
  <2>3. CASE PortOfIde[v] = p
    <3>1. serves[v] \in {"up", "replaced"}
      BY <2>1 DEF WorkersKnown
    <3>2. v \in swept'
      BY <2>2, <2>3, <3>1, WorkspaceConstants DEF Bridge!Removes, Bridge!Alive
    <3>. QED
      BY <3>2
  <2>4. CASE PortOfIde[v] # p
    BY <1>0, <2>0, <2>2, <2>4
  <2>. QED
    BY <2>3, <2>4
<1>. QED
  BY <1>1, <1>2, <1>3, <1>4, <1>5

LEMMA BridgeStarted ==
  ASSUME Bridge!BridgeInit
  PROVE  BridgeInv
<1>. USE WorkspaceConstants DEF Bridge!BridgeInit
<1>1. BridgeTyped
  BY DEF BridgeTyped, Stages, PortNames
<1>2. HoldersKnown /\ LocksKnown /\ WorkersKnown /\ ServersLocked
  BY DEF HoldersKnown, HasPort, LocksKnown, WorkersKnown, ServersLocked, PortNames
<1>. QED
  BY <1>1, <1>2 DEF BridgeInv

LEMMA BridgeStep ==
  ASSUME BridgeInv, Bridge!BridgeNext
  PROVE  BridgeInv'
BY BridgeStarts, BridgeReplaced, BridgeEnds, BridgeKilled, BridgeTakes, BridgeGivesUp, BridgeWrites, BridgeUnlinks,
   BridgeReleases, BridgeLooks, BridgeRemoves DEF Bridge!BridgeNext, Bridge!Working, PortNames

LEMMA LocksTellTrue ==
  ASSUME BridgeInv
  PROVE  Bridge!LocksTell
<1>. USE DEF BridgeInv, BridgeTyped
<1>1. \A w \in Ide \ swept : bridge[w] = "serving" /\ ~closing[w] => lockFile[Bridge!Mine(w)] = w
  BY DEF ServersLocked, Bridge!Mine, PortOfIde
<1>2. ASSUME NEW p \in PortNames, lockFile[p] # None, bridge[lockFile[p]] # "killed"
      PROVE  holder[p] = lockFile[p]
  <2>1. lockFile[p] \in Ide /\ bridge[lockFile[p]] = "serving" /\ PortOfIde[lockFile[p]] = p
    BY <1>2 DEF LocksKnown
  <2>. QED
    BY <2>1 DEF HoldersKnown, HasPort
<1>. QED
  BY <1>1, <1>2 DEF Bridge!LocksTell, PortNames
-----------------------------------------------------------------------------
\* LanguageServers: what a server has still to be told, and what of it still stands.

Docs == Doc \cup {CHOOSE d \in Doc : TRUE}
Numbers == 0..MaxStarts
Stations ==
  [pc : {"idle", "look", "spawn", "keep", "ask", "asked", "dropped", "ready", "reopen", "sleep"},
   gen : Numbers, left : SUBSET Docs]
Servers == [state : {"off", "up", "gone"}, init : BOOLEAN, told : SUBSET Docs]
Waiters == [pc : {"off", "take", "wait", "exited", "clear", "name", "done", "passed"}, child : Numbers]
Known ==
  [child : Numbers, stdin : Numbers, generation : Numbers, documents : SUBSET Docs, failures : Nat,
   unavailable : {"none", "missing", "silent", "given up", "exited"}, stopping : BOOLEAN]

LspTyped ==
  /\ asking \in [pc : {"idle", "starting", "open", "tell", "stopping"}, doc : Docs]
  /\ starting \in [Lsp!Thread -> Stations] /\ live \in Known
  /\ child \in [Lsp!Generation -> Servers] /\ waiter \in [Lsp!Generation -> Waiters]
  /\ word \in [Doc -> Numbers] /\ late \in SUBSET Doc

\* Nothing is known of a server that was not started.
Unborn ==
  /\ \A g \in Lsp!Generation : g > live.generation =>
       child[g].state = "off" /\ ~child[g].init /\ waiter[g].pc = "off"
  /\ \A d \in Doc : word[d] <= live.generation

\* The reading thread starts a server for a request, the thread of a server after it has ended.
OneEach ==
  /\ asking.pc # "starting" => starting[0].pc = "idle"
  /\ \A g \in Lsp!Generation : waiter[g].pc # "done" => starting[g].pc = "idle"

\* A document the server does not know of will be told.
Promised(d) ==
  \/ d \in child[live.stdin].told
  \/ asking.pc = "tell" /\ asking.doc = d
  \/ \E t \in Lsp!Thread : starting[t].pc = "ready" \/ (starting[t].pc = "reopen" /\ d \in starting[t].left)
ToldLater ==
  Lsp!Up(live.stdin) /\ child[live.stdin].init => \A d \in live.documents : Promised(d)

\* Who was waited for has ended, and what it said is taken back before the wait is over.
EndedKnown ==
  \A g \in Lsp!Generation :
    waiter[g].child = g /\ waiter[g].pc \in {"exited", "clear", "name", "done"} => child[g].state # "up"
WordsKnown ==
  \A d \in Doc \ late : word[d] # 0 =>
    /\ d \in live.documents
    /\ ~live.stopping /\ waiter[word[d]].child = word[d] => waiter[word[d]].pc \notin {"name", "done"}

LspInv == LspTyped /\ Unborn /\ OneEach /\ ToldLater /\ EndedKnown /\ WordsKnown

LEMMA Counted ==
  /\ 0 \in Lsp!Thread /\ 0 \in Numbers /\ Lsp!Generation \subseteq Lsp!Thread
  /\ \A n : n \in Numbers <=> n = 0 \/ n \in Lsp!Generation
  /\ \A g \in Lsp!Generation : g \in Nat /\ g # 0
BY WorkspaceConstants DEF Lsp!Thread, Lsp!Generation, Numbers

\* What the steps are made of.
Places == {"idle", "look", "spawn", "keep", "ask", "asked", "dropped", "ready", "reopen", "sleep"}

LEMMA ThreadGoes ==
  ASSUME LspTyped, NEW t \in Lsp!Thread, NEW pc \in Places, Lsp!Goes(t, pc)
  PROVE  /\ starting' \in [Lsp!Thread -> Stations]
         /\ starting'[t].pc = pc /\ starting'[t].left = starting[t].left
         /\ \A u \in Lsp!Thread : u # t => starting'[u] = starting[u]
BY DEF LspTyped, Lsp!Goes, Places, Stations

LEMMA ThreadDone ==
  ASSUME LspTyped, NEW t \in Lsp!Thread, Lsp!Done(t)
  PROVE  /\ starting' \in [Lsp!Thread -> Stations]
         /\ starting'[t].pc = "idle" /\ \A u \in Lsp!Thread : u # t => starting'[u] = starting[u]
BY Counted DEF LspTyped, Lsp!Done, Lsp!Idle, Stations

LEMMA ReaderWakes ==
  ASSUME LspTyped, NEW t \in Lsp!Thread, NEW pc \in {"idle", "open"}, Lsp!Wakes(t, pc)
  PROVE  /\ asking' \in [pc : {"idle", "starting", "open", "tell", "stopping"}, doc : Docs]
         /\ t # 0 => asking' = asking
         /\ t = 0 => asking'.pc = pc /\ asking'.doc = asking.doc
BY DEF LspTyped, Lsp!Wakes

LEMMA WaiterAwaits ==
  ASSUME LspTyped, NEW g \in Lsp!Generation, NEW pc \in {"take", "exited", "clear", "name", "done", "passed"},
         Lsp!Awaits(g, pc)
  PROVE  /\ waiter' \in [Lsp!Generation -> Waiters]
         /\ waiter'[g].pc = pc /\ waiter'[g].child = waiter[g].child
         /\ \A h \in Lsp!Generation : h # g => waiter'[h] = waiter[h]
BY DEF LspTyped, Lsp!Awaits, Waiters

LEMMA ServerSays ==
  ASSUME LspTyped, NEW why \in {"missing", "silent", "given up", "exited"}, Lsp!Says(why)
  PROVE  /\ live' \in Known
         /\ live'.child = live.child /\ live'.stdin = live.stdin /\ live'.generation = live.generation
         /\ live'.documents = live.documents /\ live'.stopping = live.stopping
BY DEF LspTyped, Lsp!Says, Known

\* One server changes.
LEMMA ServerMoves ==
  ASSUME LspTyped, NEW g \in Lsp!Generation, NEW s \in Servers, child' = [child EXCEPT ![g] = s]
  PROVE  /\ child' \in [Lsp!Generation -> Servers] /\ child'[g] = s
         /\ \A h \in Lsp!Generation : h # g => child'[h] = child[h]
BY DEF LspTyped

LEMMA ServerTold ==
  ASSUME LspTyped, NEW g \in Numbers, NEW D \in SUBSET Docs, Lsp!Tell(g, D)
  PROVE  /\ child' \in [Lsp!Generation -> Servers]
         /\ Lsp!Up(g) => D \subseteq child'[g].told
         /\ \A h \in Lsp!Generation : /\ child'[h].state = child[h].state /\ child'[h].init = child[h].init
                                      /\ child[h].told \subseteq child'[h].told
<1>1. CASE Lsp!Up(g)
  <2>1. g \in Lsp!Generation /\ child[g] \in Servers
    BY <1>1, Counted DEF Lsp!Up, LspTyped
  <2>2. PICK s \in Servers : s = [child[g] EXCEPT !.told = @ \cup D]
    BY <2>1 DEF Servers
  <2>3. s.state = child[g].state /\ s.init = child[g].init /\ s.told = child[g].told \cup D
    BY <2>1, <2>2 DEF Servers
  <2>4. child' = [child EXCEPT ![g] = s]
    BY <1>1, <2>1, <2>2 DEF Lsp!Tell, LspTyped
  <2>5. /\ child' \in [Lsp!Generation -> Servers] /\ child'[g] = s
        /\ \A h \in Lsp!Generation : h # g => child'[h] = child[h]
    BY <2>1, <2>4, ServerMoves
  <2>. QED
    BY <2>3, <2>5
<1>2. CASE ~Lsp!Up(g)
  BY <1>2 DEF Lsp!Tell, LspTyped
<1>. QED
  BY <1>1, <1>2

\* The five facts are kept by steps that leave what they speak of alone.
LEMMA UnbornKept ==
  ASSUME Unborn, live'.generation = live.generation,
         \A g \in Lsp!Generation : /\ child'[g].state = child[g].state \/ child[g].state # "off"
                                   /\ child'[g].init = child[g].init \/ child[g].state # "off"
                                   /\ waiter'[g].pc = waiter[g].pc \/ waiter[g].pc # "off",
         \A d \in Doc : word'[d] \in {0, word[d]}, live.generation \in Nat
  PROVE  Unborn'
BY DEF Unborn

LEMMA EndedKept ==
  ASSUME EndedKnown,
         \A g \in Lsp!Generation : /\ child[g].state # "up" => child'[g].state # "up"
                                   /\ waiter'[g] = waiter[g]
  PROVE  EndedKnown'
BY DEF EndedKnown

LEMMA WordsKept ==
  ASSUME WordsKnown, late \subseteq late', live.stopping => live'.stopping,
         live.documents \subseteq live'.documents, \A d \in Doc : word'[d] \in {0, word[d]},
         \A d \in Doc : word[d] \in Numbers,
         \A g \in Lsp!Generation : /\ waiter'[g].child = waiter[g].child
                                   /\ waiter'[g].pc \in {"name", "done"} => waiter[g].pc \in {"name", "done"}
  PROVE  WordsKnown'
BY Counted DEF WordsKnown

\* Threads other than those that reopen may move, and a document is told of, not forgotten.
LEMMA ToldKept ==
  ASSUME ToldLater, live'.stdin = live.stdin, live'.documents = live.documents, live.stdin \in Numbers,
         \A g \in Lsp!Generation : /\ child'[g].state = "up" => child[g].state = "up"
                                   /\ child'[g].init = child[g].init
                                   /\ child[g].told \subseteq child'[g].told,
         asking.pc = "tell" => asking'.pc = "tell" /\ asking'.doc = asking.doc,
         \A t \in Lsp!Thread : starting[t].pc \in {"ready", "reopen"} => starting'[t] = starting[t]
  PROVE  ToldLater'
<1>. SUFFICES ASSUME Lsp!Up(live.stdin)', child'[live'.stdin].init, NEW d \in live'.documents
     PROVE  Promised(d)'
  BY DEF ToldLater
<1>1. live.stdin \in Lsp!Generation
  BY Counted DEF Lsp!Up
<1>2. Lsp!Up(live.stdin) /\ child[live.stdin].init /\ d \in live.documents
  BY <1>1 DEF Lsp!Up
<1>3. Promised(d)
  BY <1>2 DEF ToldLater
<1>. QED
  BY <1>1, <1>3 DEF Promised

LEMMA LspFields ==
  ASSUME LspTyped
  PROVE  /\ live.child \in Numbers /\ live.stdin \in Numbers /\ live.generation \in Numbers
         /\ live.generation \in Nat /\ live.documents \in SUBSET Docs /\ live.stopping \in BOOLEAN
         /\ asking.doc \in Docs /\ \A d \in Doc : word[d] \in Numbers
         /\ \A t \in Lsp!Thread : starting[t] \in Stations
         /\ \A g \in Lsp!Generation : child[g] \in Servers /\ waiter[g] \in Waiters
<1>1. /\ live.child \in Numbers /\ live.stdin \in Numbers /\ live.generation \in Numbers
      /\ live.documents \in SUBSET Docs /\ live.stopping \in BOOLEAN
  BY DEF LspTyped, Known
<1>2. live.generation \in Nat
  BY <1>1, Counted
<1>. QED
  BY <1>1, <1>2 DEF LspTyped

-----------------------------------------------------------------------------
\* start(), step by step.

LEMMA LspLooks ==
  ASSUME LspInv, NEW t \in Lsp!Thread, Lsp!Looks(t)
  PROVE  LspInv'
<1>. USE DEF LspInv
<1>1. starting[t].pc = "look" /\ UNCHANGED <<live, child, waiter, word, late>>
  BY DEF Lsp!Looks
<1>2. /\ starting' \in [Lsp!Thread -> Stations] /\ starting'[t].pc \in {"idle", "spawn"}
      /\ \A u \in Lsp!Thread : u # t => starting'[u] = starting[u]
      /\ asking' \in [pc : {"idle", "starting", "open", "tell", "stopping"}, doc : Docs]
      /\ asking' = asking \/ (t = 0 /\ asking'.pc # "starting" /\ starting'[t].pc = "idle")
      /\ starting'[t].pc = "spawn" => asking' = asking
  <2>1. CASE live.child # 0 \/ live.stopping
    <3>1. PICK pc \in {"idle", "open"} : pc = IF live.child # 0 THEN "open" ELSE "idle"
      OBVIOUS
    <3>2. Lsp!Done(t) /\ Lsp!Wakes(t, pc)
      BY <2>1, <3>1 DEF Lsp!Looks
    <3>. QED
      BY <3>2, ThreadDone, ReaderWakes
  <2>2. CASE ~(live.child # 0 \/ live.stopping)
    <3>1. Lsp!Goes(t, "spawn") /\ asking' = asking
      BY <2>2 DEF Lsp!Looks
    <3>. QED
      BY <3>1, ThreadGoes DEF Places, LspTyped
  <2>. QED
    BY <2>1, <2>2
<1>3. LspTyped'
  BY <1>1, <1>2 DEF LspTyped
<1>4. Unborn' /\ EndedKnown' /\ WordsKnown'
  BY <1>1 DEF Unborn, EndedKnown, WordsKnown
<1>5. OneEach'
  BY <1>1, <1>2, Counted DEF OneEach
<1>6. ToldLater'
  <2>1. asking.pc = "tell" => asking'.pc = "tell" /\ asking'.doc = asking.doc
    BY <1>1, <1>2 DEF OneEach
  <2>. QED
    BY <1>1, <1>2, <2>1, LspFields, ToldKept
<1>. QED
  BY <1>3, <1>4, <1>5, <1>6

LEMMA LspSpawns ==
  ASSUME LspInv, NEW t \in Lsp!Thread, Lsp!Spawns(t)
  PROVE  LspInv'
<1>. USE DEF LspInv
<1>0. PICK g \in Lsp!Generation : g = live.generation + 1
  BY LspFields, WorkspaceConstants DEF Lsp!Spawns, Lsp!Generation
<1>1. starting[t].pc = "spawn" /\ UNCHANGED <<asking, word, late>>
  BY DEF Lsp!Spawns
<1>2. /\ live' \in Known /\ live'.generation = g /\ live'.stdin = g /\ live'.documents = live.documents
      /\ live'.stopping = live.stopping
  <2>1. live' = [live EXCEPT !.generation = g, !.stdin = g] /\ g \in Numbers
    BY <1>0, Counted DEF Lsp!Spawns
  <2>. QED
    BY <2>1 DEF LspTyped, Known
<1>3. /\ child' \in [Lsp!Generation -> Servers] /\ ~child'[g].init
      /\ \A h \in Lsp!Generation : h # g => child'[h] = child[h]
  <2>1. child[g] \in Servers /\ ~child[g].init
    BY <1>0, LspFields DEF Unborn
  <2>2. PICK s \in Servers : s = [child[g] EXCEPT !.state = "up"]
    BY <2>1 DEF Servers
  <2>3. ~s.init
    BY <2>1, <2>2 DEF Servers
  <2>4. child' = [child EXCEPT ![g] = s]
    BY <1>0, <2>2 DEF Lsp!Spawns, LspTyped
  <2>. QED
    BY <2>3, <2>4, ServerMoves
<1>4. /\ waiter' \in [Lsp!Generation -> Waiters] /\ waiter'[g].pc = "take"
      /\ \A h \in Lsp!Generation : h # g => waiter'[h] = waiter[h]
  <2>1. Lsp!Awaits(g, "take")
    BY <1>0 DEF Lsp!Spawns
  <2>. QED
    BY <2>1, WaiterAwaits
<1>5. /\ starting' \in [Lsp!Thread -> Stations] /\ starting'[t].pc = "keep"
      /\ \A u \in Lsp!Thread : u # t => starting'[u] = starting[u]
  <2>1. PICK k \in Stations : k = [Lsp!Idle EXCEPT !.pc = "keep", !.gen = g]
    BY <1>0, Counted DEF Stations, Lsp!Idle
  <2>2. k.pc = "keep"
    BY <2>1 DEF Lsp!Idle
  <2>3. starting' = [starting EXCEPT ![t] = k]
    BY <1>0, <2>1 DEF Lsp!Spawns
  <2>. QED
    BY <2>2, <2>3 DEF LspTyped
<1>6. LspTyped'
  BY <1>1, <1>2, <1>3, <1>4, <1>5 DEF LspTyped
<1>7. Unborn'
  <2>1. \A h \in Lsp!Generation : h > g => h > live.generation /\ h # g
    BY <1>0, LspFields, Counted
  <2>2. \A d \in Doc : word'[d] <= g
    BY <1>0, <1>1, LspFields, Counted DEF Unborn
  <2>. QED
    BY <1>2, <1>3, <1>4, <2>1, <2>2 DEF Unborn
<1>8. OneEach'
  <2>1. waiter[g].pc = "off" /\ starting[g].pc = "idle"
    BY <1>0, LspFields DEF Unborn, OneEach
  <2>2. \A u \in Lsp!Thread : u # t => starting'[u] = starting[u]
    BY <1>5
  <2>3. t # g /\ (t \in Lsp!Generation => waiter[t].pc = "done")
    BY <1>1, <2>1 DEF OneEach
  <2>. QED
    BY <1>1, <1>4, <1>5, <2>1, <2>3, Counted DEF OneEach
<1>9. ToldLater'
  BY <1>2, <1>3 DEF ToldLater
<1>10. EndedKnown'
  BY <1>3, <1>4 DEF EndedKnown
<1>11. WordsKnown'
  <2>1. \A d \in Doc : word[d] # g /\ word[d] \in Numbers
    BY <1>0, LspFields, Counted DEF Unborn
  <2>. QED
    BY <1>1, <1>2, <1>4, <2>1, Counted DEF WordsKnown
<1>. QED
  BY <1>6, <1>7, <1>8, <1>9, <1>10, <1>11

\* A start that fails: SpawnFails, Unanswered.
LEMMA LspFails ==
  ASSUME LspInv, NEW t \in Lsp!Thread, Lsp!SpawnFails(t) \/ Lsp!Unanswered(t)
  PROVE  LspInv'
<1>. USE DEF LspInv
<1>1. starting[t].pc \in {"spawn", "asked", "dropped"} /\ UNCHANGED <<child, waiter, word, late>>
  BY DEF Lsp!SpawnFails, Lsp!Unanswered
<1>2. Lsp!Done(t) /\ Lsp!Wakes(t, "idle") /\ (Lsp!Says("missing") \/ Lsp!Says("silent"))
  BY DEF Lsp!SpawnFails, Lsp!Unanswered
<1>3. /\ live' \in Known /\ live'.stdin = live.stdin /\ live'.generation = live.generation
      /\ live'.documents = live.documents /\ live'.stopping = live.stopping
  BY <1>2, ServerSays
<1>4. /\ starting' \in [Lsp!Thread -> Stations] /\ starting'[t].pc = "idle"
      /\ \A u \in Lsp!Thread : u # t => starting'[u] = starting[u]
  BY <1>2, ThreadDone
<1>5. /\ asking' \in [pc : {"idle", "starting", "open", "tell", "stopping"}, doc : Docs]
      /\ IF t = 0 THEN asking'.pc = "idle" ELSE asking' = asking
  BY <1>2, ReaderWakes
<1>6. LspTyped'
  BY <1>1, <1>3, <1>4, <1>5 DEF LspTyped
<1>7. Unborn' /\ EndedKnown' /\ WordsKnown'
  BY <1>1, <1>3 DEF Unborn, EndedKnown, WordsKnown
<1>8. OneEach'
  BY <1>1, <1>4, <1>5, Counted DEF OneEach
<1>9. ToldLater'
  <2>1. asking.pc = "tell" => asking'.pc = "tell" /\ asking'.doc = asking.doc
    BY <1>1, <1>5 DEF OneEach
  <2>. QED
    BY <1>1, <1>3, <1>4, <2>1, LspFields, ToldKept
<1>. QED
  BY <1>6, <1>7, <1>8, <1>9

LEMMA LspKeeps ==
  ASSUME LspInv, NEW t \in Lsp!Thread, Lsp!Keeps(t)
  PROVE  LspInv'
<1>. USE DEF LspInv
<1>1. starting[t].pc = "keep" /\ UNCHANGED <<asking, child, waiter, word, late>>
  BY DEF Lsp!Keeps
<1>2. /\ live' \in Known /\ live'.stdin = live.stdin /\ live'.generation = live.generation
      /\ live'.documents = live.documents /\ live'.stopping = live.stopping
  <2>1. PICK g \in Numbers : g = starting[t].gen
    BY LspFields DEF Stations
  <2>2. live' = [live EXCEPT !.child = g]
    BY <2>1 DEF Lsp!Keeps
  <2>. QED
    BY <2>2 DEF LspTyped, Known
<1>3. /\ starting' \in [Lsp!Thread -> Stations] /\ starting'[t].pc = "ask"
      /\ \A u \in Lsp!Thread : u # t => starting'[u] = starting[u]
  <2>1. Lsp!Goes(t, "ask")
    BY DEF Lsp!Keeps
  <2>. QED
    BY <2>1, ThreadGoes DEF Places
<1>4. LspTyped'
  BY <1>1, <1>2, <1>3 DEF LspTyped
<1>5. Unborn' /\ EndedKnown' /\ WordsKnown'
  BY <1>1, <1>2 DEF Unborn, EndedKnown, WordsKnown
<1>6. OneEach'
  BY <1>1, <1>3, Counted DEF OneEach
<1>7. ToldLater'
  BY <1>1, <1>2, <1>3, LspFields, ToldKept
<1>. QED
  BY <1>4, <1>5, <1>6, <1>7

LEMMA LspInitializes ==
  ASSUME LspInv, NEW t \in Lsp!Thread, Lsp!Initializes(t)
  PROVE  LspInv'
<1>. USE DEF LspInv
<1>1. starting[t].pc = "ask" /\ UNCHANGED <<asking, live, child, waiter, word, late>>
  BY DEF Lsp!Initializes
<1>3. /\ starting' \in [Lsp!Thread -> Stations] /\ starting'[t].pc = "asked"
      /\ \A u \in Lsp!Thread : u # t => starting'[u] = starting[u]
  <2>1. PICK k \in Stations : k = [starting[t] EXCEPT !.pc = "asked", !.gen = live.stdin]
    BY LspFields DEF Stations
  <2>2. k.pc = "asked"
    BY <2>1, LspFields DEF Stations
  <2>3. starting' = [starting EXCEPT ![t] = k]
    BY <2>1 DEF Lsp!Initializes, LspTyped
  <2>. QED
    BY <2>2, <2>3 DEF LspTyped
<1>4. LspTyped'
  BY <1>1, <1>3 DEF LspTyped
<1>5. Unborn' /\ EndedKnown' /\ WordsKnown'
  BY <1>1 DEF Unborn, EndedKnown, WordsKnown
<1>6. OneEach'
  BY <1>1, <1>3, Counted DEF OneEach
<1>7. ToldLater'
  BY <1>1, <1>3, LspFields, ToldKept
<1>. QED
  BY <1>4, <1>5, <1>6, <1>7

LEMMA LspAnswers ==
  ASSUME LspInv, NEW t \in Lsp!Thread, Lsp!Answers(t)
  PROVE  LspInv'
<1>. USE DEF LspInv
<1>1. starting[t].pc = "asked" /\ UNCHANGED <<asking, live, waiter, word, late>>
  BY DEF Lsp!Answers
<1>2. PICK g \in Lsp!Generation : g = starting[t].gen /\ child[g].state # "off"
  <2>1. starting[t].gen \in Numbers
    BY LspFields DEF Stations
  <2>. QED
    BY <2>1, Counted DEF Lsp!Answers
<1>3. /\ starting' \in [Lsp!Thread -> Stations] /\ starting'[t].pc = "ready"
      /\ \A u \in Lsp!Thread : u # t => starting'[u] = starting[u]
  <2>1. Lsp!Goes(t, "ready")
    BY DEF Lsp!Answers
  <2>. QED
    BY <2>1, ThreadGoes DEF Places
<1>4. /\ child' \in [Lsp!Generation -> Servers]
      /\ \A h \in Lsp!Generation : child'[h].state = child[h].state /\ (h # g => child'[h] = child[h])
  <2>1. PICK s \in Servers : s = [child[g] EXCEPT !.init = TRUE]
    BY LspFields DEF Servers
  <2>2. s.state = child[g].state
    BY <2>1, LspFields DEF Servers
  <2>3. child' = [child EXCEPT ![g] = s]
    BY <1>2, <2>1 DEF Lsp!Answers, LspTyped
  <2>. QED
    BY <2>2, <2>3, ServerMoves
<1>5. LspTyped'
  BY <1>1, <1>3, <1>4 DEF LspTyped
<1>6. Unborn'
  BY <1>1, <1>2, <1>4 DEF Unborn
<1>7. OneEach'
  BY <1>1, <1>3, Counted DEF OneEach
<1>8. ToldLater'
  BY <1>3 DEF ToldLater, Promised
<1>9. EndedKnown' /\ WordsKnown'
  BY <1>1, <1>4 DEF EndedKnown, WordsKnown
<1>. QED
  BY <1>5, <1>6, <1>7, <1>8, <1>9

LEMMA LspReady ==
  ASSUME LspInv, NEW t \in Lsp!Thread, Lsp!Ready(t)
  PROVE  LspInv'
<1>. USE DEF LspInv
<1>1. starting[t].pc = "ready" /\ UNCHANGED <<asking, child, waiter, word, late>>
  BY DEF Lsp!Ready
<1>2. /\ live' \in Known /\ live'.stdin = live.stdin /\ live'.generation = live.generation
      /\ live'.documents = live.documents /\ live'.stopping = live.stopping
  BY DEF Lsp!Ready, LspTyped, Known
<1>3. /\ starting' \in [Lsp!Thread -> Stations] /\ starting'[t].pc = "reopen"
      /\ starting'[t].left = live.documents
      /\ \A u \in Lsp!Thread : u # t => starting'[u] = starting[u]
  <2>1. PICK k \in Stations : k = [starting[t] EXCEPT !.pc = "reopen", !.left = live.documents]
    BY LspFields DEF Stations
  <2>2. k.pc = "reopen" /\ k.left = live.documents
    BY <2>1, LspFields DEF Stations
  <2>3. starting' = [starting EXCEPT ![t] = k]
    BY <2>1 DEF Lsp!Ready, LspTyped
  <2>. QED
    BY <2>2, <2>3 DEF LspTyped
<1>4. LspTyped'
  BY <1>1, <1>2, <1>3 DEF LspTyped
<1>5. Unborn' /\ EndedKnown' /\ WordsKnown'
  BY <1>1, <1>2 DEF Unborn, EndedKnown, WordsKnown
<1>6. OneEach'
  BY <1>1, <1>3, Counted DEF OneEach
<1>7. ToldLater'
  BY <1>2, <1>3 DEF ToldLater, Promised
<1>. QED
  BY <1>4, <1>5, <1>6, <1>7

LEMMA LspReopens ==
  ASSUME LspInv, NEW t \in Lsp!Thread, Lsp!Reopens(t)
  PROVE  LspInv'
<1>. USE DEF LspInv
<1>1. starting[t].pc = "reopen" /\ UNCHANGED <<waiter, word, late>>
  BY DEF Lsp!Reopens
<1>2. CASE starting[t].left = {}
  <2>1. Lsp!Done(t) /\ Lsp!Wakes(t, "open") /\ UNCHANGED <<live, child>>
    BY <1>2 DEF Lsp!Reopens
  <2>2. /\ starting' \in [Lsp!Thread -> Stations] /\ starting'[t].pc = "idle"
        /\ \A u \in Lsp!Thread : u # t => starting'[u] = starting[u]
    BY <2>1, ThreadDone
  <2>3. /\ asking' \in [pc : {"idle", "starting", "open", "tell", "stopping"}, doc : Docs]
        /\ IF t = 0 THEN asking'.pc = "open" ELSE asking' = asking
    BY <2>1, ReaderWakes
  <2>4. LspTyped'
    BY <1>1, <2>1, <2>2, <2>3 DEF LspTyped
  <2>5. Unborn' /\ EndedKnown' /\ WordsKnown'
    BY <1>1, <2>1 DEF Unborn, EndedKnown, WordsKnown
  <2>6. OneEach'
    BY <1>1, <2>2, <2>3, Counted DEF OneEach
  <2>7. ToldLater'
    <3>1. asking.pc = "tell" => asking'.pc = "tell" /\ asking'.doc = asking.doc
      BY <1>1, <2>3 DEF OneEach
    <3>. SUFFICES ASSUME Lsp!Up(live.stdin)', child[live.stdin].init, NEW d \in live.documents
         PROVE  Promised(d)'
      BY <2>1 DEF ToldLater
    <3>2. Promised(d)
      BY <2>1 DEF ToldLater, Lsp!Up
    <3>3. \A u \in Lsp!Thread : starting[u].pc = "reopen" /\ d \in starting[u].left => u # t
      BY <1>2
    <3>. QED
      BY <1>1, <2>1, <2>2, <3>1, <3>2, <3>3 DEF Promised
  <2>. QED
    BY <2>4, <2>5, <2>6, <2>7
<1>3. CASE starting[t].left # {}
  <2>0. PICK d \in starting[t].left :
          /\ starting' = [starting EXCEPT ![t].left = @ \ {d}]
          /\ live' = [live EXCEPT !.documents = @ \cup {d}]
          /\ Lsp!Tell(live.stdin, {d}) /\ asking' = asking
    BY <1>3 DEF Lsp!Reopens
  <2>1. d \in Docs /\ starting[t].left \in SUBSET Docs
    BY LspFields DEF Stations
  <2>2. /\ live' \in Known /\ live'.stdin = live.stdin /\ live'.generation = live.generation
        /\ live'.documents = live.documents \cup {d} /\ live'.stopping = live.stopping
    BY <2>0, <2>1 DEF LspTyped, Known
  <2>3. /\ starting' \in [Lsp!Thread -> Stations] /\ starting'[t].pc = "reopen"
        /\ starting'[t].left = starting[t].left \ {d}
        /\ \A u \in Lsp!Thread : u # t => starting'[u] = starting[u]
    <3>1. PICK k \in Stations : k = [starting[t] EXCEPT !.left = @ \ {d}]
      BY <2>1, LspFields DEF Stations
    <3>2. k.pc = "reopen" /\ k.left = starting[t].left \ {d}
      BY <1>1, <3>1, LspFields DEF Stations
    <3>3. starting' = [starting EXCEPT ![t] = k]
      BY <2>0, <3>1 DEF LspTyped
    <3>. QED
      BY <3>2, <3>3 DEF LspTyped
  <2>4. /\ child' \in [Lsp!Generation -> Servers]
        /\ Lsp!Up(live.stdin) => d \in child'[live.stdin].told
        /\ \A h \in Lsp!Generation : /\ child'[h].state = child[h].state /\ child'[h].init = child[h].init
                                     /\ child[h].told \subseteq child'[h].told
    <3>1. live.stdin \in Numbers /\ {d} \in SUBSET Docs
      BY <2>1, LspFields
    <3>. QED
      BY <2>0, <3>1, ServerTold
  <2>5. LspTyped'
    BY <1>1, <2>0, <2>2, <2>3, <2>4 DEF LspTyped
  <2>6. Unborn' /\ EndedKnown'
    BY <1>1, <2>2, <2>4, LspFields, UnbornKept, EndedKept
  <2>7. WordsKnown'
    BY <1>1, <2>2, LspFields, WordsKept
  <2>8. OneEach'
    BY <1>1, <2>0, <2>3, Counted DEF OneEach
  <2>9. ToldLater'
    <3>. SUFFICES ASSUME Lsp!Up(live.stdin)', child'[live.stdin].init, NEW x \in live.documents \cup {d}
         PROVE  Promised(x)'
      BY <2>2 DEF ToldLater
    <3>1. live.stdin \in Lsp!Generation /\ Lsp!Up(live.stdin) /\ child[live.stdin].init
      BY <2>2, <2>4, LspFields, Counted DEF Lsp!Up
    <3>2. CASE x = d
      BY <2>2, <2>4, <3>1, <3>2 DEF Promised
    <3>3. CASE x # d
      <4>1. Promised(x)
        BY <3>1, <3>3 DEF ToldLater
      <4>2. \A u \in Lsp!Thread : starting[u].pc = "reopen" /\ x \in starting[u].left =>
                                  starting'[u].pc = "reopen" /\ x \in starting'[u].left
        BY <1>1, <2>3, <3>3
      <4>3. \A u \in Lsp!Thread : starting[u].pc = "ready" => starting'[u].pc = "ready"
        BY <1>1, <2>3
      <4>. QED
        BY <2>0, <2>2, <2>4, <3>1, <4>1, <4>2, <4>3 DEF Promised
    <3>. QED
      BY <3>2, <3>3
  <2>. QED
    BY <2>5, <2>6, <2>7, <2>8, <2>9
<1>. QED
  BY <1>2, <1>3

-----------------------------------------------------------------------------
\* The requests.

LEMMA LspOpen ==
  ASSUME LspInv, NEW d \in Doc, Lsp!Open(d)
  PROVE  LspInv'
<1>. USE DEF LspInv
<1>1. asking.pc = "idle" /\ UNCHANGED <<live, child, waiter, word, late>>
  BY DEF Lsp!Open
<1>2. asking' = [pc |-> "starting", doc |-> d] /\ d \in Docs
  BY DEF Lsp!Open, Docs
<1>3. /\ starting' \in [Lsp!Thread -> Stations] /\ starting'[0].pc = "look"
      /\ \A u \in Lsp!Thread : u # 0 => starting'[u] = starting[u]
  <2>1. Lsp!Goes(0, "look")
    BY DEF Lsp!Open
  <2>. QED
    BY <2>1, ThreadGoes, Counted DEF Places
<1>4. LspTyped'
  BY <1>1, <1>2, <1>3 DEF LspTyped
<1>5. Unborn' /\ EndedKnown' /\ WordsKnown'
  BY <1>1 DEF Unborn, EndedKnown, WordsKnown
<1>6. OneEach'
  BY <1>1, <1>2, <1>3, Counted DEF OneEach
<1>7. ToldLater'
  <2>1. starting[0].pc = "idle"
    BY <1>1 DEF OneEach
  <2>. QED
    BY <1>1, <1>3, <2>1, LspFields, ToldKept
<1>. QED
  BY <1>4, <1>5, <1>6, <1>7

LEMMA LspRemembers ==
  ASSUME LspInv, Lsp!Remembers
  PROVE  LspInv'
<1>. USE DEF LspInv
<1>1. asking.pc = "open" /\ UNCHANGED <<starting, child, waiter, word, late>>
  BY DEF Lsp!Remembers
<1>2. /\ asking' \in [pc : {"idle", "starting", "open", "tell", "stopping"}, doc : Docs]
      /\ asking'.pc = "tell" /\ asking'.doc = asking.doc
  BY DEF Lsp!Remembers, LspTyped
<1>3. /\ live' \in Known /\ live'.stdin = live.stdin /\ live'.generation = live.generation
      /\ live'.documents = live.documents \cup {asking.doc} /\ live'.stopping = live.stopping
  <2>1. PICK d \in Docs : d = asking.doc
    BY LspFields
  <2>2. live' = [live EXCEPT !.documents = @ \cup {d}]
    BY <2>1 DEF Lsp!Remembers
  <2>. QED
    BY <2>1, <2>2 DEF LspTyped, Known
<1>4. LspTyped'
  BY <1>1, <1>2, <1>3 DEF LspTyped
<1>5. Unborn' /\ EndedKnown'
  BY <1>1, <1>3 DEF Unborn, EndedKnown
<1>6. WordsKnown'
  BY <1>1, <1>3, LspFields, WordsKept
<1>7. OneEach'
  BY <1>1, <1>2 DEF OneEach
<1>8. ToldLater'
  <2>. SUFFICES ASSUME Lsp!Up(live.stdin)', child'[live'.stdin].init, NEW d \in live'.documents
       PROVE  Promised(d)'
    BY DEF ToldLater
  <2>1. CASE d = asking.doc
    BY <1>2, <2>1 DEF Promised
  <2>2. CASE d # asking.doc
    <3>1. Promised(d)
      BY <1>1, <1>3, <2>2 DEF ToldLater, Lsp!Up
    <3>. QED
      BY <1>1, <1>3, <3>1 DEF Promised
  <2>. QED
    BY <2>1, <2>2
<1>. QED
  BY <1>4, <1>5, <1>6, <1>7, <1>8

LEMMA LspTells ==
  ASSUME LspInv, Lsp!Tells
  PROVE  LspInv'
<1>. USE DEF LspInv
<1>1. asking.pc = "tell" /\ UNCHANGED <<starting, live, waiter, word, late>>
  BY DEF Lsp!Tells
<1>2. /\ asking' \in [pc : {"idle", "starting", "open", "tell", "stopping"}, doc : Docs]
      /\ asking'.pc = "idle"
  BY DEF Lsp!Tells, LspTyped
<1>3. /\ child' \in [Lsp!Generation -> Servers]
      /\ Lsp!Up(live.stdin) => asking.doc \in child'[live.stdin].told
      /\ \A h \in Lsp!Generation : /\ child'[h].state = child[h].state /\ child'[h].init = child[h].init
                                   /\ child[h].told \subseteq child'[h].told
  <2>1. live.stdin \in Numbers /\ {asking.doc} \in SUBSET Docs
    BY LspFields
  <2>2. Lsp!Tell(live.stdin, {asking.doc})
    BY DEF Lsp!Tells
  <2>. QED
    BY <2>1, <2>2, ServerTold
<1>4. LspTyped'
  BY <1>1, <1>2, <1>3 DEF LspTyped
<1>5. Unborn' /\ EndedKnown'
  BY <1>1, <1>3, LspFields, UnbornKept, EndedKept
<1>6. WordsKnown'
  BY <1>1 DEF WordsKnown
<1>7. OneEach'
  BY <1>1, <1>2 DEF OneEach
<1>8. ToldLater'
  <2>. SUFFICES ASSUME Lsp!Up(live.stdin)', child'[live'.stdin].init, NEW d \in live'.documents
       PROVE  Promised(d)'
    BY DEF ToldLater
  <2>1. live.stdin \in Lsp!Generation /\ Lsp!Up(live.stdin) /\ child[live.stdin].init
    BY <1>1, <1>3, LspFields, Counted DEF Lsp!Up
  <2>2. Promised(d)
    BY <1>1, <2>1 DEF ToldLater
  <2>. QED
    BY <1>1, <1>3, <2>1, <2>2 DEF Promised
<1>. QED
  BY <1>4, <1>5, <1>6, <1>7, <1>8

LEMMA LspClose ==
  ASSUME LspInv, NEW d \in Doc, Lsp!Close(d)
  PROVE  LspInv'
<1>. USE DEF LspInv
<1>1. asking.pc = "idle" /\ UNCHANGED <<asking, starting, waiter, late>>
  BY DEF Lsp!Close
<1>2. /\ live' \in Known /\ live'.stdin = live.stdin /\ live'.generation = live.generation
      /\ live'.documents = live.documents \ {d} /\ live'.stopping = live.stopping
  BY DEF Lsp!Close, LspTyped, Known
<1>3. /\ word' \in [Doc -> Numbers] /\ word'[d] = 0 /\ \A x \in Doc : x # d => word'[x] = word[x]
  BY Counted DEF Lsp!Close, LspTyped
<1>4. /\ child' \in [Lsp!Generation -> Servers]
      /\ \A h \in Lsp!Generation : /\ child'[h].state = child[h].state /\ child'[h].init = child[h].init
                                   /\ child[h].told \ {d} \subseteq child'[h].told
  <2>1. CASE d \in live.documents /\ Lsp!Up(live.stdin)
    <3>1. PICK g \in Lsp!Generation : g = live.stdin
      BY <2>1, LspFields, Counted DEF Lsp!Up
    <3>2. PICK s \in Servers : s = [child[g] EXCEPT !.told = @ \ {d}]
      BY LspFields DEF Servers
    <3>3. s.state = child[g].state /\ s.init = child[g].init /\ s.told = child[g].told \ {d}
      BY <3>2, LspFields DEF Servers
    <3>4. child' = [child EXCEPT ![g] = s]
      BY <2>1, <3>1, <3>2 DEF Lsp!Close, LspTyped
    <3>5. /\ child' \in [Lsp!Generation -> Servers] /\ child'[g] = s
          /\ \A h \in Lsp!Generation : h # g => child'[h] = child[h]
      BY <3>4, ServerMoves
    <3>. QED
      BY <3>3, <3>5
  <2>2. CASE ~(d \in live.documents /\ Lsp!Up(live.stdin))
    <3>1. child' = child
      BY <2>2 DEF Lsp!Close
    <3>. QED
      BY <3>1 DEF LspTyped
  <2>. QED
    BY <2>1, <2>2
<1>5. LspTyped'
  BY <1>1, <1>2, <1>3, <1>4 DEF LspTyped
<1>6. Unborn'
  BY <1>1, <1>2, <1>3, <1>4, LspFields, UnbornKept
<1>7. EndedKnown'
  BY <1>1, <1>4 DEF EndedKnown
<1>8. WordsKnown'
  <2>. SUFFICES ASSUME NEW x \in Doc \ late, word'[x] # 0
       PROVE /\ x \in live'.documents
             /\ ~live'.stopping /\ waiter'[word'[x]].child = word'[x]
                  => waiter'[word'[x]].pc \notin {"name", "done"}
    BY <1>1 DEF WordsKnown
  <2>1. x # d /\ word'[x] = word[x]
    BY <1>3
  <2>. QED
    BY <1>1, <1>2, <2>1 DEF WordsKnown
<1>9. OneEach'
  BY <1>1 DEF OneEach
<1>10. ToldLater'
  <2>. SUFFICES ASSUME Lsp!Up(live.stdin)', child'[live'.stdin].init, NEW x \in live'.documents
       PROVE  Promised(x)'
    BY DEF ToldLater
  <2>1. live.stdin \in Lsp!Generation /\ Lsp!Up(live.stdin) /\ child[live.stdin].init
    BY <1>2, <1>4, LspFields, Counted DEF Lsp!Up
  <2>2. Promised(x) /\ x # d
    BY <1>2, <2>1 DEF ToldLater
  <2>. QED
    BY <1>1, <1>2, <1>4, <2>1, <2>2 DEF Promised
<1>. QED
  BY <1>5, <1>6, <1>7, <1>8, <1>9, <1>10

LEMMA LspStop ==
  ASSUME LspInv, Lsp!Stop
  PROVE  LspInv'
<1>. USE DEF LspInv
<1>1. asking.pc = "idle" /\ UNCHANGED <<starting, child, waiter, word, late>>
  BY DEF Lsp!Stop
<1>2. /\ live' \in Known /\ live'.stdin = live.stdin /\ live'.generation = live.generation
      /\ live'.documents = live.documents /\ live'.stopping
  BY DEF Lsp!Stop, LspTyped, Known
<1>3. /\ asking' \in [pc : {"idle", "starting", "open", "tell", "stopping"}, doc : Docs]
      /\ asking'.pc \in {"idle", "stopping"}
  BY DEF Lsp!Stop, LspTyped
<1>4. LspTyped'
  BY <1>1, <1>2, <1>3 DEF LspTyped
<1>5. Unborn' /\ EndedKnown' /\ WordsKnown'
  BY <1>1, <1>2 DEF Unborn, EndedKnown, WordsKnown
<1>6. OneEach'
  BY <1>1, <1>3 DEF OneEach
<1>7. ToldLater'
  BY <1>1, <1>2, <1>3, LspFields, ToldKept
<1>. QED
  BY <1>4, <1>5, <1>6, <1>7

LEMMA LspStops ==
  ASSUME LspInv, Lsp!Stops
  PROVE  LspInv'
<1>. USE DEF LspInv
<1>1. asking.pc = "stopping" /\ UNCHANGED <<starting, live, waiter, word, late>>
  BY DEF Lsp!Stops
<1>2. /\ asking' \in [pc : {"idle", "starting", "open", "tell", "stopping"}, doc : Docs]
      /\ asking'.pc = "idle"
  BY DEF Lsp!Stops, LspTyped
<1>3. ASSUME NEW g \in Lsp!Generation
      PROVE  /\ child'[g] \in Servers /\ child'[g].init = child[g].init /\ child'[g].told = child[g].told
             /\ child'[g].state = child[g].state \/ (child[g].state = "up" /\ child'[g].state = "gone")
  <2>1. child'[g] = IF Lsp!Up(g) /\ g \in {live.stdin, live.child}
                    THEN [child[g] EXCEPT !.state = "gone"] ELSE child[g]
    BY DEF Lsp!Stops
  <2>. QED
    BY <2>1, LspFields DEF Servers, Lsp!Up
<1>4. child' \in [Lsp!Generation -> Servers]
  <2>1. child' = [g \in Lsp!Generation |-> child'[g]]
    BY DEF Lsp!Stops
  <2>. QED
    BY <1>3, <2>1
<1>5. LspTyped'
  BY <1>1, <1>2, <1>4 DEF LspTyped
<1>6. Unborn' /\ EndedKnown'
  BY <1>1, <1>3, LspFields, UnbornKept, EndedKept
<1>7. WordsKnown'
  BY <1>1 DEF WordsKnown
<1>8. OneEach'
  BY <1>1, <1>2 DEF OneEach
<1>9. ToldLater'
  BY <1>1, <1>2, <1>3, LspFields, ToldKept
<1>. QED
  BY <1>5, <1>6, <1>7, <1>8, <1>9

-----------------------------------------------------------------------------
\* The server processes, and the threads that wait for them.

LEMMA LspPublishes ==
  ASSUME LspInv, NEW g \in Lsp!Generation, NEW d \in Doc, Lsp!Publishes(g, d)
  PROVE  LspInv'
<1>. USE DEF LspInv
<1>1. /\ waiter[g].pc # "off" /\ UNCHANGED <<asking, starting, live, child, waiter>>
  BY DEF Lsp!Publishes
<1>2. word' \in [Doc -> Numbers] /\ word'[d] = g /\ \A x \in Doc : x # d => word'[x] = word[x]
  BY Counted DEF Lsp!Publishes, LspTyped
<1>3. /\ late' \in SUBSET Doc /\ \A x \in Doc : x # d => (x \in late <=> x \in late')
      /\ d \notin late' => child[g].state = "up" /\ d \in live.documents
  BY Counted DEF Lsp!Publishes, LspTyped, Lsp!Up
<1>4. LspTyped'
  BY <1>1, <1>2, <1>3 DEF LspTyped
<1>5. Unborn'
  <2>1. g <= live.generation
    BY <1>1, LspFields, Counted DEF Unborn
  <2>. QED
    BY <1>1, <1>2, <2>1 DEF Unborn
<1>6. OneEach' /\ EndedKnown'
  BY <1>1 DEF OneEach, EndedKnown
<1>7. ToldLater'
  BY <1>1, LspFields, ToldKept
<1>8. WordsKnown'
  <2>. SUFFICES ASSUME NEW x \in Doc, x \notin late', word'[x] # 0
       PROVE /\ x \in live.documents
             /\ ~live.stopping /\ waiter[word'[x]].child = word'[x]
                  => waiter[word'[x]].pc \notin {"name", "done"}
    BY <1>1 DEF WordsKnown
  <2>1. CASE x = d
    BY <1>2, <1>3, <2>1 DEF EndedKnown
  <2>2. CASE x # d
    BY <1>2, <1>3, <2>2 DEF WordsKnown
  <2>. QED
    BY <2>1, <2>2
<1>. QED
  BY <1>4, <1>5, <1>6, <1>7, <1>8

LEMMA LspClears ==
  ASSUME LspInv, NEW g \in Lsp!Generation, NEW d \in Doc, Lsp!Clears(g, d)
  PROVE  LspInv'
<1>. USE DEF LspInv
<1>1. UNCHANGED <<asking, starting, live, child, waiter, late>>
  BY DEF Lsp!Clears
<1>2. word' \in [Doc -> Numbers] /\ \A x \in Doc : word'[x] \in {0, word[x]}
  BY Counted DEF Lsp!Clears, LspTyped
<1>3. LspTyped'
  BY <1>1, <1>2 DEF LspTyped
<1>4. Unborn'
  BY <1>1, <1>2, LspFields, UnbornKept
<1>5. OneEach' /\ EndedKnown'
  BY <1>1 DEF OneEach, EndedKnown
<1>6. ToldLater'
  BY <1>1, LspFields, ToldKept
<1>7. WordsKnown'
  BY <1>1, <1>2, LspFields, WordsKept
<1>. QED
  BY <1>3, <1>4, <1>5, <1>6, <1>7

LEMMA LspDies ==
  ASSUME LspInv, NEW g \in Lsp!Generation, Lsp!Dies(g)
  PROVE  LspInv'
<1>. USE DEF LspInv
<1>1. UNCHANGED <<asking, starting, live, waiter, word, late>> /\ child[g].state = "up"
  BY DEF Lsp!Dies, Lsp!Up
<1>2. /\ child' \in [Lsp!Generation -> Servers]
      /\ \A h \in Lsp!Generation : /\ child'[h].init = child[h].init /\ child'[h].told = child[h].told
                                   /\ \/ child'[h].state = child[h].state
                                      \/ child[h].state = "up" /\ child'[h].state = "gone"
  <2>1. PICK s \in Servers : s = [child[g] EXCEPT !.state = "gone"]
    BY LspFields DEF Servers
  <2>2. s.state = "gone" /\ s.init = child[g].init /\ s.told = child[g].told
    BY <2>1, LspFields DEF Servers
  <2>3. child' = [child EXCEPT ![g] = s]
    BY <2>1 DEF Lsp!Dies, LspTyped
  <2>4. /\ child' \in [Lsp!Generation -> Servers] /\ child'[g] = s
        /\ \A h \in Lsp!Generation : h # g => child'[h] = child[h]
    BY <2>3, ServerMoves
  <2>. QED
    BY <1>1, <2>2, <2>4
<1>3. LspTyped'
  BY <1>1, <1>2 DEF LspTyped
<1>4. Unborn' /\ EndedKnown'
  BY <1>1, <1>2, LspFields, UnbornKept, EndedKept
<1>5. OneEach' /\ WordsKnown'
  BY <1>1 DEF OneEach, WordsKnown
<1>6. ToldLater'
  BY <1>1, <1>2, LspFields, ToldKept
<1>. QED
  BY <1>3, <1>4, <1>5, <1>6

LEMMA LspTakes ==
  ASSUME LspInv, NEW g \in Lsp!Generation, Lsp!Takes(g)
  PROVE  LspInv'
<1>. USE DEF LspInv
<1>1. waiter[g].pc = "take" /\ UNCHANGED <<asking, starting, child, word, late>>
  BY DEF Lsp!Takes
<1>2. /\ live' \in Known /\ live'.stdin = live.stdin /\ live'.generation = live.generation
      /\ live'.documents = live.documents /\ live'.stopping = live.stopping
  BY Counted DEF Lsp!Takes, LspTyped, Known
<1>3. /\ waiter' \in [Lsp!Generation -> Waiters]
      /\ waiter'[g].pc = "wait" \/ (waiter'[g].pc = "exited" /\ waiter'[g].child = 0)
      /\ \A h \in Lsp!Generation : h # g => waiter'[h] = waiter[h]
  <2>1. PICK k \in Waiters : k = [pc |-> IF live.child = 0 THEN "exited" ELSE "wait", child |-> live.child]
    BY LspFields DEF Waiters
  <2>2. k.pc = "wait" \/ (k.pc = "exited" /\ k.child = 0)
    BY <2>1
  <2>3. waiter' = [waiter EXCEPT ![g] = k]
    BY <2>1 DEF Lsp!Takes
  <2>. QED
    BY <2>2, <2>3 DEF LspTyped
<1>4. LspTyped'
  BY <1>1, <1>2, <1>3 DEF LspTyped
<1>5. Unborn'
  <2>1. \A h \in Lsp!Generation : waiter'[h].pc = waiter[h].pc \/ waiter[h].pc # "off"
    BY <1>1, <1>3
  <2>. QED
    BY <1>1, <1>2, <2>1, LspFields, UnbornKept
<1>6. OneEach'
  BY <1>1, <1>3 DEF OneEach
<1>7. ToldLater'
  BY <1>1, <1>2, LspFields, ToldKept
<1>8. EndedKnown'
  BY <1>1, <1>3, Counted DEF EndedKnown
<1>9. WordsKnown'
  <2>. SUFFICES ASSUME NEW x \in Doc \ late, word[x] # 0
       PROVE /\ x \in live.documents
             /\ ~live.stopping /\ waiter'[word[x]].child = word[x]
                  => waiter'[word[x]].pc \notin {"name", "done"}
    BY <1>1, <1>2 DEF WordsKnown
  <2>1. word[x] \in Lsp!Generation
    BY LspFields, Counted
  <2>. QED
    BY <1>3, <2>1 DEF WordsKnown
<1>. QED
  BY <1>4, <1>5, <1>6, <1>7, <1>8, <1>9

LEMMA LspWaits ==
  ASSUME LspInv, NEW g \in Lsp!Generation, Lsp!Waits(g)
  PROVE  LspInv'
<1>. USE DEF LspInv
<1>1. waiter[g].pc = "wait" /\ UNCHANGED <<asking, starting, live, child, word, late>>
  BY DEF Lsp!Waits
<1>2. /\ waiter' \in [Lsp!Generation -> Waiters] /\ waiter'[g].pc = "exited" /\ waiter'[g].child = waiter[g].child
      /\ \A h \in Lsp!Generation : h # g => waiter'[h] = waiter[h]
  <2>1. Lsp!Awaits(g, "exited")
    BY DEF Lsp!Waits
  <2>. QED
    BY <2>1, WaiterAwaits
<1>3. waiter[g].child = g => child[g].state # "up"
  BY Counted DEF Lsp!Waits, Lsp!Up
<1>4. LspTyped'
  BY <1>1, <1>2 DEF LspTyped
<1>5. Unborn'
  <2>1. \A h \in Lsp!Generation : waiter'[h].pc = waiter[h].pc \/ waiter[h].pc # "off"
    BY <1>1, <1>2
  <2>. QED
    BY <1>1, <2>1, LspFields, UnbornKept
<1>6. OneEach'
  BY <1>1, <1>2 DEF OneEach
<1>7. ToldLater'
  BY <1>1, LspFields, ToldKept
<1>8. EndedKnown'
  BY <1>1, <1>2, <1>3 DEF EndedKnown
<1>9. WordsKnown'
  <2>1. \A h \in Lsp!Generation : /\ waiter'[h].child = waiter[h].child
                                  /\ waiter'[h].pc \in {"name", "done"} => waiter[h].pc \in {"name", "done"}
    BY <1>2
  <2>. QED
    BY <1>1, <2>1, LspFields, WordsKept
<1>. QED
  BY <1>4, <1>5, <1>6, <1>7, <1>8, <1>9

LEMMA LspExited ==
  ASSUME LspInv, NEW g \in Lsp!Generation, Lsp!Exited(g)
  PROVE  LspInv'
<1>. USE DEF LspInv
<1>1. waiter[g].pc = "exited" /\ UNCHANGED <<asking, child, word, late>>
  BY DEF Lsp!Exited
<1>2. CASE live.generation # g
  <2>1. UNCHANGED <<live, starting>> /\ Lsp!Awaits(g, "passed")
    BY <1>2 DEF Lsp!Exited
  <2>2. /\ waiter' \in [Lsp!Generation -> Waiters] /\ waiter'[g].pc = "passed" /\ waiter'[g].child = waiter[g].child
        /\ \A h \in Lsp!Generation : h # g => waiter'[h] = waiter[h]
    BY <2>1, WaiterAwaits
  <2>3. LspTyped'
    BY <1>1, <2>1, <2>2 DEF LspTyped
  <2>4. Unborn'
    <3>1. \A h \in Lsp!Generation : waiter'[h].pc = waiter[h].pc \/ waiter[h].pc # "off"
      BY <1>1, <2>2
    <3>. QED
      BY <1>1, <2>1, <3>1, LspFields, UnbornKept
  <2>5. OneEach' /\ EndedKnown'
    BY <1>1, <2>1, <2>2 DEF OneEach, EndedKnown
  <2>6. ToldLater'
    BY <1>1, <2>1, LspFields, ToldKept
  <2>7. WordsKnown'
    <3>. SUFFICES ASSUME NEW x \in Doc \ late, word[x] # 0
         PROVE /\ x \in live.documents
               /\ ~live.stopping /\ waiter'[word[x]].child = word[x]
                    => waiter'[word[x]].pc \notin {"name", "done"}
      BY <1>1, <2>1 DEF WordsKnown
    <3>1. word[x] \in Lsp!Generation
      BY LspFields, Counted
    <3>. QED
      BY <1>2, <2>2, <3>1 DEF WordsKnown
  <2>. QED
    BY <2>3, <2>4, <2>5, <2>6, <2>7
<1>3. CASE live.generation = g
  <2>1. /\ live' \in Known /\ live'.stdin = 0 /\ live'.generation = live.generation
        /\ live'.documents = live.documents /\ live'.stopping = live.stopping
    <3>0. live.failures \in Nat
      BY DEF LspTyped, Known
    <3>1. PICK n \in Nat : n = IF live.stopping THEN live.failures ELSE live.failures + 1
      BY <3>0
    <3>2. live' = [live EXCEPT !.child = 0, !.stdin = 0, !.failures = n]
      BY <1>3, <3>1 DEF Lsp!Exited
    <3>. QED
      BY <3>2, Counted DEF LspTyped, Known
  <2>2. /\ starting' \in [Lsp!Thread -> Stations]
        /\ \A u \in Lsp!Thread : /\ starting[u].pc = "idle" => starting'[u].pc = "idle"
                                 /\ starting'[u].pc = "idle" => starting[u].pc = "idle"
    <3>1. starting' = [u \in Lsp!Thread |-> IF starting[u].pc = "asked"
                                            THEN [starting[u] EXCEPT !.pc = "dropped"] ELSE starting[u]]
      BY <1>3 DEF Lsp!Exited
    <3>2. \A u \in Lsp!Thread : starting[u].pc = "asked" => [starting[u] EXCEPT !.pc = "dropped"] \in Stations
      BY LspFields DEF Stations
    <3>3. starting' \in [Lsp!Thread -> Stations]
      BY <3>1, <3>2, LspFields
    <3>4. \A u \in Lsp!Thread : [starting[u] EXCEPT !.pc = "dropped"].pc = "dropped"
      BY LspFields DEF Stations
    <3>. QED
      BY <3>1, <3>3, <3>4
  <2>3. /\ waiter' \in [Lsp!Generation -> Waiters] /\ waiter'[g].pc \in {"clear", "done"}
        /\ waiter'[g].pc = "done" => live.stopping
        /\ waiter'[g].child = waiter[g].child
        /\ \A h \in Lsp!Generation : h # g => waiter'[h] = waiter[h]
    <3>1. PICK pc \in {"clear", "done"} : pc = IF live.stopping THEN "done" ELSE "clear"
      OBVIOUS
    <3>2. Lsp!Awaits(g, pc)
      BY <1>3, <3>1 DEF Lsp!Exited
    <3>3. pc \in {"take", "exited", "clear", "name", "done", "passed"}
      OBVIOUS
    <3>. QED
      BY <3>1, <3>2, <3>3, WaiterAwaits
  <2>4. LspTyped'
    BY <1>1, <2>1, <2>2, <2>3 DEF LspTyped
  <2>5. Unborn'
    <3>1. \A h \in Lsp!Generation : waiter'[h].pc = waiter[h].pc \/ waiter[h].pc # "off"
      BY <1>1, <2>3
    <3>. QED
      BY <1>1, <2>1, <3>1, LspFields, UnbornKept
  <2>6. OneEach'
    BY <1>1, <2>2, <2>3, Counted DEF OneEach
  <2>7. ToldLater'
    BY <2>1 DEF ToldLater, Lsp!Up
  <2>8. EndedKnown'
    BY <1>1, <2>3 DEF EndedKnown
  <2>9. WordsKnown'
    <3>. SUFFICES ASSUME NEW x \in Doc \ late, word[x] # 0
         PROVE /\ x \in live.documents
               /\ ~live.stopping /\ waiter'[word[x]].child = word[x]
                    => waiter'[word[x]].pc \notin {"name", "done"}
      BY <1>1, <2>1 DEF WordsKnown
    <3>1. word[x] \in Lsp!Generation
      BY LspFields, Counted
    <3>. QED
      BY <2>3, <3>1 DEF WordsKnown
  <2>. QED
    BY <2>4, <2>5, <2>6, <2>7, <2>8, <2>9
<1>. QED
  BY <1>2, <1>3

\* What a server said that has ended is taken back, but what was said too late.
LEMMA LspClearsWord ==
  ASSUME LspInv, NEW g \in Lsp!Generation, Lsp!ClearsWord(g)
  PROVE  LspInv'
<1>. USE DEF LspInv
<1>1. waiter[g].pc = "clear" /\ UNCHANGED <<asking, starting, live, child, late>>
  BY DEF Lsp!ClearsWord
<1>2. /\ waiter' \in [Lsp!Generation -> Waiters] /\ waiter'[g].pc = "name" /\ waiter'[g].child = waiter[g].child
      /\ \A h \in Lsp!Generation : h # g => waiter'[h] = waiter[h]
  <2>1. Lsp!Awaits(g, "name")
    BY DEF Lsp!ClearsWord
  <2>. QED
    BY <2>1, WaiterAwaits
<1>3. /\ word' = [d \in Doc |-> IF d \in live.documents THEN 0 ELSE word[d]]
  BY DEF Lsp!ClearsWord
<1>4. word' \in [Doc -> Numbers] /\ \A x \in Doc : word'[x] = IF x \in live.documents THEN 0 ELSE word[x]
  BY <1>3, Counted DEF LspTyped
<1>5. LspTyped'
  BY <1>1, <1>2, <1>4 DEF LspTyped
<1>6. Unborn'
  <2>1. \A h \in Lsp!Generation : waiter'[h].pc = waiter[h].pc \/ waiter[h].pc # "off"
    BY <1>1, <1>2
  <2>2. \A x \in Doc : word'[x] \in {0, word[x]}
    BY <1>4
  <2>. QED
    BY <1>1, <2>1, <2>2, LspFields, UnbornKept
<1>7. OneEach' /\ EndedKnown'
  BY <1>1, <1>2 DEF OneEach, EndedKnown
<1>8. ToldLater'
  BY <1>1, LspFields, ToldKept
<1>9. WordsKnown'
  <2>1. ASSUME NEW x \in Doc \ late PROVE word'[x] = 0
    BY <1>4, <2>1 DEF WordsKnown
  <2>. QED
    BY <1>1, <2>1 DEF WordsKnown
<1>. QED
  BY <1>5, <1>6, <1>7, <1>8, <1>9

LEMMA LspNames ==
  ASSUME LspInv, NEW g \in Lsp!Generation, Lsp!Names(g)
  PROVE  LspInv'
<1>. USE DEF LspInv
<1>1. waiter[g].pc = "name" /\ UNCHANGED <<asking, child, word, late>> /\ starting[g].pc = "idle"
  BY DEF Lsp!Names, OneEach
<1>2. /\ waiter' \in [Lsp!Generation -> Waiters] /\ waiter'[g].pc = "done" /\ waiter'[g].child = waiter[g].child
      /\ \A h \in Lsp!Generation : h # g => waiter'[h] = waiter[h]
  <2>1. Lsp!Awaits(g, "done")
    BY DEF Lsp!Names
  <2>. QED
    BY <2>1, WaiterAwaits
<1>3. /\ live' \in Known /\ live'.stdin = live.stdin /\ live'.generation = live.generation
      /\ live'.documents = live.documents /\ live'.stopping = live.stopping
  <2>1. Lsp!Says("given up") \/ Lsp!Says("exited")
    BY DEF Lsp!Names
  <2>. QED
    BY <2>1, ServerSays
<1>4. /\ starting' \in [Lsp!Thread -> Stations] /\ \A u \in Lsp!Thread : u # g => starting'[u] = starting[u]
  <2>1. starting' = starting \/ Lsp!Goes(g, "sleep")
    BY DEF Lsp!Names
  <2>2. CASE starting' = starting
    BY <2>2 DEF LspTyped
  <2>3. CASE Lsp!Goes(g, "sleep")
    BY <2>3, ThreadGoes, Counted DEF Places
  <2>. QED
    BY <2>1, <2>2, <2>3
<1>5. LspTyped'
  BY <1>1, <1>2, <1>3, <1>4 DEF LspTyped
<1>6. Unborn'
  <2>1. \A h \in Lsp!Generation : waiter'[h].pc = waiter[h].pc \/ waiter[h].pc # "off"
    BY <1>1, <1>2
  <2>. QED
    BY <1>1, <1>3, <2>1, LspFields, UnbornKept
<1>7. OneEach'
  BY <1>1, <1>2, <1>4, Counted DEF OneEach
<1>8. ToldLater'
  <2>1. \A u \in Lsp!Thread : starting[u].pc \in {"ready", "reopen"} => starting'[u] = starting[u]
    BY <1>1, <1>4
  <2>. QED
    BY <1>1, <1>3, <2>1, LspFields, ToldKept
<1>9. EndedKnown'
  BY <1>1, <1>2 DEF EndedKnown
<1>10. WordsKnown'
  <2>1. \A h \in Lsp!Generation : /\ waiter'[h].child = waiter[h].child
                                  /\ waiter'[h].pc \in {"name", "done"} => waiter[h].pc \in {"name", "done"}
    BY <1>1, <1>2
  <2>. QED
    BY <1>1, <1>3, <2>1, LspFields, WordsKept
<1>. QED
  BY <1>5, <1>6, <1>7, <1>8, <1>9, <1>10

LEMMA LspPanics ==
  ASSUME LspInv, NEW g \in Lsp!Generation, Lsp!Panics(g)
  PROVE  LspInv'
<1>. USE DEF LspInv
<1>1. waiter[g].pc = "name" /\ UNCHANGED <<asking, starting, live, child, word, late>>
  BY DEF Lsp!Panics
<1>2. /\ waiter' \in [Lsp!Generation -> Waiters] /\ waiter'[g].pc = "done" /\ waiter'[g].child = waiter[g].child
      /\ \A h \in Lsp!Generation : h # g => waiter'[h] = waiter[h]
  <2>1. Lsp!Awaits(g, "done")
    BY DEF Lsp!Panics
  <2>. QED
    BY <2>1, WaiterAwaits
<1>3. LspTyped'
  BY <1>1, <1>2 DEF LspTyped
<1>4. Unborn'
  <2>1. \A h \in Lsp!Generation : waiter'[h].pc = waiter[h].pc \/ waiter[h].pc # "off"
    BY <1>1, <1>2
  <2>. QED
    BY <1>1, <2>1, LspFields, UnbornKept
<1>5. OneEach' /\ EndedKnown'
  BY <1>1, <1>2 DEF OneEach, EndedKnown
<1>6. ToldLater'
  BY <1>1, LspFields, ToldKept
<1>7. WordsKnown'
  <2>1. \A h \in Lsp!Generation : /\ waiter'[h].child = waiter[h].child
                                  /\ waiter'[h].pc \in {"name", "done"} => waiter[h].pc \in {"name", "done"}
    BY <1>1, <1>2
  <2>. QED
    BY <1>1, <2>1, LspFields, WordsKept
<1>. QED
  BY <1>3, <1>4, <1>5, <1>6, <1>7

LEMMA LspRestarts ==
  ASSUME LspInv, NEW g \in Lsp!Generation, Lsp!Restarts(g)
  PROVE  LspInv'
<1>. USE DEF LspInv
<1>0. g \in Lsp!Thread /\ g # 0
  BY Counted
<1>1. starting[g].pc = "sleep" /\ UNCHANGED <<asking, live, child, waiter, word, late>>
  BY DEF Lsp!Restarts
<1>2. /\ starting' \in [Lsp!Thread -> Stations] /\ starting'[g].pc \in {"idle", "look"}
      /\ \A u \in Lsp!Thread : u # g => starting'[u] = starting[u]
  <2>1. Lsp!Done(g) \/ Lsp!Goes(g, "look")
    BY DEF Lsp!Restarts
  <2>. QED
    BY <1>0, <2>1, ThreadDone, ThreadGoes DEF Places
<1>3. LspTyped'
  BY <1>1, <1>2 DEF LspTyped
<1>4. Unborn' /\ EndedKnown' /\ WordsKnown'
  BY <1>1 DEF Unborn, EndedKnown, WordsKnown
<1>5. OneEach'
  BY <1>0, <1>1, <1>2, Counted DEF OneEach
<1>6. ToldLater'
  <2>1. \A u \in Lsp!Thread : starting[u].pc \in {"ready", "reopen"} => starting'[u] = starting[u]
    BY <1>1, <1>2
  <2>. QED
    BY <1>1, <2>1, LspFields, ToldKept
<1>. QED
  BY <1>3, <1>4, <1>5, <1>6

LEMMA LspStarts ==
  ASSUME Lsp!LspInit
  PROVE  LspInv
<1>. USE DEF Lsp!LspInit
<1>1. LspTyped
  <2>1. asking \in [pc : {"idle", "starting", "open", "tell", "stopping"}, doc : Docs]
    BY DEF Docs
  <2>2. starting \in [Lsp!Thread -> Stations]
    BY Counted DEF Lsp!Idle, Stations
  <2>3. live \in Known
    BY Counted DEF Known
  <2>4. child \in [Lsp!Generation -> Servers]
    BY DEF Servers
  <2>5. waiter \in [Lsp!Generation -> Waiters] /\ word \in [Doc -> Numbers] /\ late \in SUBSET Doc
    BY Counted DEF Waiters
  <2>. QED
    BY <2>1, <2>2, <2>3, <2>4, <2>5 DEF LspTyped
<1>2. live.generation = 0 /\ live.stdin = 0
  OBVIOUS
<1>3. Unborn
  BY <1>2 DEF Unborn
<1>4. OneEach
  BY Counted DEF OneEach, Lsp!Idle
<1>5. ToldLater
  BY <1>2 DEF ToldLater, Lsp!Up
<1>6. EndedKnown /\ WordsKnown
  BY DEF EndedKnown, WordsKnown
<1>. QED
  BY <1>1, <1>3, <1>4, <1>5, <1>6 DEF LspInv

LEMMA LspStep ==
  ASSUME LspInv, Lsp!LspNext
  PROVE  LspInv'
<1>1. ASSUME NEW t \in Lsp!Thread, Lsp!Starting(t) PROVE LspInv'
  BY <1>1, LspLooks, LspSpawns, LspFails, LspKeeps, LspInitializes, LspAnswers, LspReady, LspReopens
     DEF Lsp!Starting
<1>2. ASSUME NEW g \in Lsp!Generation, Lsp!Served(g) PROVE LspInv'
  BY <1>2, LspTakes, LspWaits, LspExited, LspClearsWord, LspNames, LspPanics, LspRestarts, LspDies, LspPublishes, LspClears
     DEF Lsp!Served
<1>3. ASSUME NEW d \in Doc, Lsp!Open(d) \/ Lsp!Close(d) PROVE LspInv'
  BY <1>3, LspOpen, LspClose
<1>4. CASE Lsp!Remembers \/ Lsp!Tells \/ Lsp!Stop \/ Lsp!Stops
  BY <1>4, LspRemembers, LspTells, LspStop, LspStops
<1>. QED
  BY <1>1, <1>2, <1>3, <1>4 DEF Lsp!LspNext

LEMMA DocumentsSurviveTrue ==
  ASSUME LspInv
  PROVE  Lsp!DocumentsSurvive
<1>. SUFFICES ASSUME Lsp!Quiet, Lsp!Up(live.stdin), child[live.stdin].init, NEW d \in live.documents
     PROVE  d \in child[live.stdin].told
  BY DEF Lsp!DocumentsSurvive
<1>1. Promised(d)
  BY DEF LspInv, ToldLater
<1>. QED
  BY <1>1 DEF Promised, Lsp!Quiet

LEMMA DeadSayNothingTrue ==
  ASSUME LspInv
  PROVE  Lsp!DeadSayNothing
<1>. SUFFICES ASSUME ~live.stopping, NEW d \in Doc, word[d] # 0,
                     waiter[word[d]] = [pc |-> "done", child |-> word[d]], d \notin late
     PROVE  FALSE
  BY DEF Lsp!DeadSayNothing
<1>1. waiter[word[d]].child = word[d] /\ waiter[word[d]].pc = "done"
  OBVIOUS
<1>. QED
  BY <1>1 DEF LspInv, WordsKnown

\* A language server that comes back is told of every open document and nothing stands of what one
\* said whose end was waited for and not passed over for a later one, but what was found too late,
\* for any number of starts, documents and threads that start it; the lock an
\* agent finds is that of the bridge that listens, for any workers of the workspaces that share the
\* directory, unless a sweep had judged another's (LanguageServers, EditorBridge).
THEOREM EditorsKeepTheirServers == AnySpec => []EditorsAreServed
<1>1. AnyInit => LspInv /\ BridgeInv
  BY LspStarts, BridgeStarted DEF AnyInit
<1>2. LspInv /\ BridgeInv /\ [AnyNext]_all => LspInv' /\ BridgeInv'
  <2>. SUFFICES ASSUME LspInv, BridgeInv, [AnyNext]_all PROVE LspInv' /\ BridgeInv'
    OBVIOUS
  <2>1. Lsp!LspNext => LspInv'
    BY LspStep
  <2>2. UNCHANGED lsp => LspInv'
    BY DEF lsp, LspInv, LspTyped, Unborn, OneEach, ToldLater, Promised, Lsp!Up, EndedKnown, WordsKnown
  <2>3. Bridge!BridgeNext => BridgeInv'
    BY BridgeStep
  <2>4. UNCHANGED editor => BridgeInv'
    BY DEF editor, BridgeInv, BridgeTyped, HoldersKnown, HasPort, LocksKnown, WorkersKnown, ServersLocked
  <2>5. (Lsp!LspNext \/ UNCHANGED lsp) /\ (Bridge!BridgeNext \/ UNCHANGED editor)
    BY DEF AnyNext, all, OfTokens, OfGames, OfGrant, OfProbes, OfLsp, OfEditor
  <2>6. LspInv'
    BY <2>1, <2>2, <2>5
  <2>7. BridgeInv'
    BY <2>3, <2>4, <2>5
  <2>. QED
    BY <2>6, <2>7
<1>3. LspInv /\ BridgeInv => EditorsAreServed
  BY DocumentsSurviveTrue, DeadSayNothingTrue, LocksTellTrue DEF EditorsAreServed
<1>. QED
  BY <1>1, <1>2, <1>3, PTL DEF AnySpec
-----------------------------------------------------------------------------
\* GameFeed: how far what the host says of a game has come, if one worker alone heard of it.

GameKinds == {"started", "ended"}
FramesBy(B) == [kind : GameKinds, pane : Pane, by : B]
Sayings == Pane \X {"running", "ended"}
GameTyped ==
  /\ pane \in [Pane -> {"none", "running", "ended"}]
  /\ wire \in [Worker -> Seq(Sayings)]
  /\ worker \in [Worker -> [pc : {"off", "started", "looked", "inherited"}, linked : BOOLEAN, retired : BOOLEAN,
                            looked : SUBSET Pane, drops : Nat]]
  /\ call = [c \in Pane |-> [pc |-> call[c].pc, at |-> call[c].at, now |-> call[c].now, running |-> call[c].running,
                             answer |-> call[c].answer]]
  /\ open = [w \in Worker |-> [p \in Pane |-> open[w][p]]]
FeedTyped == \E B : ring \in Seq(FramesBy(B)) /\ saying \in [Worker -> Seq(FramesBy(B))]

Unshared == Pane \ (overlapped \cup Device)
Mints == Games!Minting

\* What a worker has not read, and what it has not minted.
ToldOf(w, p, state) == \E i \in DOMAIN wire[w] : wire[w][i] = <<p, state>>
NotTold(w, p)  == ~ToldOf(w, p, "running") /\ ~ToldOf(w, p, "ended")
SaidOf(w, p)   == \E i \in DOMAIN saying[w] : saying[w][i].pane = p
NoFrames(p)    == Games!Of(p, "started") = {} /\ Games!Of(p, "ended") = {}
OnlyStart(p, i) == Games!Of(p, "started") = {i} /\ Games!Of(p, "ended") = {} /\ ring[i].by # None

\* The one worker that follows the feed, and what it has heard of p.
AloneIn(m) == m \in Mints /\ worker[m].linked /\ \A v \in Mints : v # m => worker[v].pc # "inherited"
HeardBy(m, p) == AloneIn(m) /\ \A v \in Mints : v # m => NotTold(v, p)
EndTold(m, p) ==
  \/ pane[p] = "ended" /\ ToldOf(m, p, "ended")
  \/ pane[p] = "running" /\ ~ToldOf(m, p, "ended")
NoneSaid(p)   == \A w \in Worker : ~SaidOf(w, p)
NoneOpen(p)   == \A w \in Worker : open[w][p] = None

Unheard(p) ==
  pane[p] = "none" /\ NoFrames(p) /\ NoneSaid(p) /\ NoneOpen(p) /\ \A w \in Worker : NotTold(w, p)
StartTold(m, p) ==
  HeardBy(m, p) /\ EndTold(m, p) /\ NoFrames(p) /\ NoneSaid(p) /\ NoneOpen(p) /\ ToldOf(m, p, "running")
StartSaid(m, p) ==
  /\ HeardBy(m, p) /\ EndTold(m, p) /\ NoFrames(p)
  /\ open[m][p] # None /\ saying[m] = <<Games!Frame("started", p, open[m][p])>>
  /\ \A w \in Worker : w # m => ~SaidOf(w, p) /\ open[w][p] = None
Runs(p) ==
  /\ pane[p] = "running" /\ NoneSaid(p) /\ \A v \in Mints : ~ToldOf(v, p, "ended")
  /\ \E i \in DOMAIN ring : OnlyStart(p, i) /\ \A v \in Mints : worker[v].pc = "inherited" => open[v][p] = ring[i].by
EndHeard(m, p) ==
  /\ HeardBy(m, p) /\ pane[p] = "ended" /\ NoneSaid(p) /\ ToldOf(m, p, "ended")
  /\ \E i \in DOMAIN ring : OnlyStart(p, i) /\ open[m][p] = ring[i].by
EndSaid(m, p) ==
  /\ HeardBy(m, p) /\ NotTold(m, p) /\ pane[p] = "ended" /\ open[m][p] = None
  /\ \E i \in DOMAIN ring : OnlyStart(p, i) /\ saying[m] = <<Games!Frame("ended", p, ring[i].by)>>
  /\ \A w \in Worker : w # m => ~SaidOf(w, p)
PairMade(p) ==
  /\ pane[p] = "ended" /\ NoneSaid(p) /\ \A v \in Mints : NotTold(v, p) /\ open[v][p] = None
  /\ \E i, j \in DOMAIN ring : /\ Games!Of(p, "started") = {i} /\ Games!Of(p, "ended") = {j}
                               /\ i < j /\ ring[i].by = ring[j].by

Follows(p) ==
  \/ Unheard(p) \/ Runs(p) \/ PairMade(p)
  \/ \E m \in Worker : StartTold(m, p) \/ StartSaid(m, p) \/ EndHeard(m, p) \/ EndSaid(m, p)
PairsFollowed == \A p \in Unshared : Follows(p)

\* The host says an end once and nothing before it is so; that a pane runs it may say again, but
\* not after its end unless the pane is marked.
WiresKnown ==
  \A w \in Worker :
    /\ \A p \in Pane, i, j \in DOMAIN wire[w] : wire[w][i] = <<p, "ended">> /\ wire[w][j] = <<p, "ended">> => i = j
    /\ \A p \in Unshared, i, j \in DOMAIN wire[w] : wire[w][i] = <<p, "running">> /\ wire[w][j] = <<p, "ended">> => i < j
    /\ \A p \in Pane : /\ ToldOf(w, p, "running") => pane[p] # "none"
                       /\ ToldOf(w, p, "ended") => pane[p] = "ended"
Followers ==
  /\ First \in Worker => worker[First].pc = "inherited"
  /\ \A w \in Worker :
       /\ worker[w].linked => worker[w].pc = "inherited"
       /\ worker[w].retired => w = First
       /\ ~worker[w].linked => wire[w] = <<>>
       /\ worker[w].pc # "inherited" => saying[w] = <<>> /\ \A p \in Pane \ Device : open[w][p] = None
       /\ worker[w].pc = "looked" => \A p \in Unshared : pane[p] = "running" => p \in worker[w].looked
CallsKnown ==
  \A c \in Pane : /\ call[c].pc \in {"created", "bound"} => c \in Device
                  /\ call[c].pc \in {"idle", "queued"} => pane[c] = "none"
                  /\ c \in stale => pane[c] # "none"

GameInv == GameTyped /\ FeedTyped /\ WiresKnown /\ Followers /\ CallsKnown /\ PairsFollowed

LEMMA GameBegins ==
  ASSUME Games!GameInit
  PROVE  GameInv
<1>. USE DEF Games!GameInit
<1>1. GameTyped
  <2>1. call = [c \in Pane |-> [pc |-> call[c].pc, at |-> call[c].at, now |-> call[c].now, running |-> call[c].running,
                                answer |-> call[c].answer]]
    <3>1. Games!NoCall = [pc |-> Games!NoCall.pc, at |-> Games!NoCall.at, now |-> Games!NoCall.now,
                          running |-> Games!NoCall.running, answer |-> Games!NoCall.answer]
      BY DEF Games!NoCall
    <3>. QED
      BY <3>1
  <2>2. pane \in [Pane -> {"none", "running", "ended"}] /\ wire \in [Worker -> Seq(Sayings)]
    BY EmptySeq
  <2>3. worker \in [Worker -> [pc : {"off", "started", "looked", "inherited"}, linked : BOOLEAN, retired : BOOLEAN,
                               looked : SUBSET Pane, drops : Nat]]
    OBVIOUS
  <2>4. open = [w \in Worker |-> [p \in Pane |-> open[w][p]]]
    OBVIOUS
  <2>. QED
    BY <2>1, <2>2, <2>3, <2>4 DEF GameTyped
<1>2. FeedTyped
  <2>1. ring \in Seq(FramesBy({})) /\ saying \in [Worker -> Seq(FramesBy({}))]
    BY EmptySeq
  <2>. QED
    BY <2>1 DEF FeedTyped
<1>3. \A w \in Worker : wire[w] = <<>> /\ saying[w] = <<>>
  OBVIOUS
<1>4. \A w \in Worker : DOMAIN wire[w] = {} /\ DOMAIN saying[w] = {}
  BY <1>3
<1>5. DOMAIN ring = {}
  OBVIOUS
<1>6. WiresKnown
  BY <1>4 DEF WiresKnown, ToldOf
<1>7. Followers
  BY DEF Followers
<1>8. CallsKnown
  BY DEF CallsKnown, Games!NoCall
<1>9. PairsFollowed
  BY <1>4, <1>5 DEF PairsFollowed, Follows, Unheard, NoFrames, Games!Of, NoneSaid, SaidOf, NoneOpen, NotTold, ToldOf, Unshared
<1>. QED
  BY <1>1, <1>2, <1>6, <1>7, <1>8, <1>9 DEF GameInv

\* Nothing of p moves: whoever heard of it goes on minting, and who joins has heard of nothing.
LEMMA FollowsStays ==
  ASSUME NEW p \in Pane, Follows(p), pane'[p] = pane[p],
         \A kind \in GameKinds : Games!Of(p, kind)' = Games!Of(p, kind),
         \A i \in DOMAIN ring : i \in DOMAIN ring' /\ ring'[i] = ring[i],
         \A w \in Worker : open'[w][p] = open[w][p],
         \A w \in Worker : (SaidOf(w, p)' <=> SaidOf(w, p)) /\ (SaidOf(w, p) => saying'[w] = saying[w]),
         \A w \in Worker : \A state \in {"running", "ended"} : ToldOf(w, p, state)' => ToldOf(w, p, state),
         \A w \in Mints : \A state \in {"running", "ended"} : w \in Mints' /\ ToldOf(w, p, state) => ToldOf(w, p, state)',
         \A w \in Mints : ~NotTold(w, p) \/ SaidOf(w, p) => w \in Mints' /\ worker'[w].linked = worker[w].linked,
         \A w \in Mints' : w \in Mints \/ (worker'[w].pc # "inherited" /\ open[w][p] = None /\ NotTold(w, p)'),
         \A w \in Mints : worker'[w].pc = "inherited" => worker[w].pc = "inherited"
  PROVE  Follows(p)'
<1>0. Mints \subseteq Worker /\ Mints' \subseteq Worker
  BY DEF Mints, Games!Minting
<1>1. NoFrames(p)' <=> NoFrames(p)
  BY DEF NoFrames, GameKinds
<1>2. \A i \in DOMAIN ring : OnlyStart(p, i) => i \in DOMAIN ring' /\ OnlyStart(p, i)' /\ ring'[i] = ring[i]
  BY DEF OnlyStart, GameKinds
<1>3. \A w \in Worker : NotTold(w, p) => NotTold(w, p)'
  BY DEF NotTold
<1>4. \A m \in Worker : HeardBy(m, p) /\ (~NotTold(m, p) \/ SaidOf(m, p)) => HeardBy(m, p)'
  BY <1>0, <1>3 DEF HeardBy, AloneIn
<1>5. \A m \in Worker : EndTold(m, p) /\ m \in Mints /\ m \in Mints' => EndTold(m, p)'
  BY DEF EndTold
<1>6. NoneSaid(p)' <=> NoneSaid(p)
  BY DEF NoneSaid
<1>7. NoneOpen(p)' <=> NoneOpen(p)
  BY DEF NoneOpen
<1>8. /\ (\A v \in Mints : NotTold(v, p)) => (\A v \in Mints' : NotTold(v, p)')
      /\ (\A v \in Mints : ~ToldOf(v, p, "ended")) => (\A v \in Mints' : ~ToldOf(v, p, "ended")')
  BY <1>0, <1>3 DEF NotTold
<1>9. CASE Unheard(p)
  BY <1>1, <1>3, <1>6, <1>7, <1>9 DEF Follows, Unheard
<1>10. CASE Runs(p)
  <2>1. PICK i \in DOMAIN ring : OnlyStart(p, i) /\ \A v \in Mints : worker[v].pc = "inherited" => open[v][p] = ring[i].by
    BY <1>10 DEF Runs
  <2>2. i \in DOMAIN ring' /\ OnlyStart(p, i)' /\ \A v \in Mints' : worker'[v].pc = "inherited" => open'[v][p] = ring'[i].by
    BY <1>0, <1>2, <2>1
  <2>. QED
    BY <1>6, <1>8, <1>10, <2>2 DEF Follows, Runs
<1>11. CASE PairMade(p)
  <2>1. PICK i \in DOMAIN ring, j \in DOMAIN ring : Games!Of(p, "started") = {i} /\ Games!Of(p, "ended") = {j}
                                                     /\ i < j /\ ring[i].by = ring[j].by
    BY <1>11 DEF PairMade
  <2>2. /\ Games!Of(p, "started")' = {i} /\ Games!Of(p, "ended")' = {j}
        /\ i \in DOMAIN ring' /\ j \in DOMAIN ring' /\ ring'[i].by = ring'[j].by
    BY <2>1 DEF GameKinds
  <2>3. \A v \in Mints' : open'[v][p] = None
    BY <1>0, <1>11 DEF PairMade
  <2>. QED
    BY <1>6, <1>8, <1>11, <2>1, <2>2, <2>3 DEF Follows, PairMade
<1>12. ASSUME NEW m \in Worker, StartTold(m, p) PROVE StartTold(m, p)'
  <2>1. m \in Mints /\ ToldOf(m, p, "running") /\ ~NotTold(m, p)
    BY <1>12 DEF StartTold, HeardBy, AloneIn, NotTold
  <2>2. m \in Mints' /\ ToldOf(m, p, "running")'
    BY <2>1
  <2>. QED
    BY <1>1, <1>4, <1>5, <1>6, <1>7, <1>12, <2>1, <2>2 DEF StartTold
<1>13. ASSUME NEW m \in Worker, StartSaid(m, p) PROVE StartSaid(m, p)'
  <2>1. m \in Mints /\ SaidOf(m, p) /\ saying[m] = <<Games!Frame("started", p, open[m][p])>>
    BY <1>13 DEF StartSaid, HeardBy, AloneIn, SaidOf, Games!Frame
  <2>2. m \in Mints' /\ saying'[m] = <<Games!Frame("started", p, open'[m][p])>>
    <3>1. open'[m][p] = open[m][p] /\ saying'[m] = saying[m]
      BY <2>1
    <3>2. Games!Frame("started", p, open'[m][p]) = Games!Frame("started", p, open[m][p])
      BY <3>1
    <3>. QED
      BY <1>13, <2>1, <3>1, <3>2 DEF StartSaid
  <2>3. \A w \in Worker : w # m => ~SaidOf(w, p)' /\ open'[w][p] = None
    BY <1>13 DEF StartSaid
  <2>4. HeardBy(m, p)' /\ EndTold(m, p)' /\ NoFrames(p)' /\ open'[m][p] # None
    BY <1>1, <1>4, <1>5, <1>13, <2>1, <2>2 DEF StartSaid
  <2>5. Games!Frame("started", p, open'[m][p]) = Games!Frame("started", p, open[m][p])'
    BY DEF Games!Frame
  <2>. QED
    BY <2>2, <2>3, <2>4, <2>5 DEF StartSaid
<1>14. ASSUME NEW m \in Worker, EndHeard(m, p) PROVE EndHeard(m, p)'
  <2>1. m \in Mints /\ ToldOf(m, p, "ended") /\ ~NotTold(m, p)
    BY <1>14 DEF EndHeard, HeardBy, AloneIn, NotTold
  <2>2. m \in Mints' /\ ToldOf(m, p, "ended")'
    BY <1>14, <2>1 DEF EndHeard
  <2>3. PICK i \in DOMAIN ring : OnlyStart(p, i) /\ open[m][p] = ring[i].by
    BY <1>14 DEF EndHeard
  <2>4. i \in DOMAIN ring' /\ OnlyStart(p, i)' /\ open'[m][p] = ring'[i].by
    BY <1>2, <2>3
  <2>. QED
    BY <1>4, <1>6, <1>14, <2>1, <2>2, <2>4 DEF EndHeard
<1>15. ASSUME NEW m \in Worker, EndSaid(m, p) PROVE EndSaid(m, p)'
  <2>1. PICK i \in DOMAIN ring : OnlyStart(p, i) /\ saying[m] = <<Games!Frame("ended", p, ring[i].by)>>
    BY <1>15 DEF EndSaid
  <2>2. m \in Mints /\ SaidOf(m, p)
    BY <1>15, <2>1 DEF EndSaid, HeardBy, AloneIn, SaidOf, Games!Frame
  <2>3. i \in DOMAIN ring' /\ OnlyStart(p, i)' /\ ring'[i] = ring[i] /\ saying'[m] = saying[m]
    BY <1>2, <2>1, <2>2
  <2>4. saying'[m] = <<Games!Frame("ended", p, ring'[i].by)>>
    BY <2>1, <2>3
  <2>5. \A w \in Worker : w # m => ~SaidOf(w, p)'
    BY <1>15 DEF EndSaid
  <2>6. HeardBy(m, p)' /\ NotTold(m, p)' /\ open'[m][p] = None
    BY <1>3, <1>4, <1>15, <2>2 DEF EndSaid
  <2>. QED
    BY <1>15, <2>3, <2>4, <2>5, <2>6 DEF EndSaid, Games!Frame
<1>. QED
  BY <1>9, <1>10, <1>11, <1>12, <1>13, <1>14, <1>15 DEF Follows

\* A sequence of frames stays one when more askers are known.
LEMMA FramesWiden ==
  ASSUME NEW B, NEW C, NEW s \in Seq(FramesBy(B))
  PROVE  s \in Seq(FramesBy(B \cup C))
<1>. DEFINE S == FramesBy(B)
<1>. DEFINE T == FramesBy(B \cup C)
<1>1. S \subseteq T
  BY DEF FramesBy
<1>2. s \in Seq(S)
  OBVIOUS
<1>. HIDE DEF S, T
<1>3. Len(s) \in Nat /\ s \in [1 .. Len(s) -> T]
  BY <1>1, <1>2
<1>4. s \in Seq(T)
  BY <1>3, SeqDef
<1>. QED
  BY <1>4 DEF T

\* One more frame in the feed.
LEMMA RingGrows ==
  ASSUME FeedTyped, NEW f, f.kind \in GameKinds, ring' = Append(ring, f)
  PROVE  \E n \in DOMAIN ring' :
         /\ n \notin DOMAIN ring /\ ring'[n] = f
         /\ \A i \in DOMAIN ring : i < n /\ i \in DOMAIN ring' /\ ring'[i] = ring[i]
         /\ \A p, kind : Games!Of(p, kind)' = Games!Of(p, kind) \cup {i \in {n} : f.pane = p /\ f.kind = kind}
<1>1. PICK B : ring \in Seq(FramesBy(B))
  BY DEF FeedTyped
<1>. DEFINE n == Len(ring) + 1
<1>2. Len(ring) \in Nat /\ DOMAIN ring = 1 .. Len(ring)
  BY <1>1
<1>. DEFINE S == FramesBy(B) \cup {f}
<1>. HIDE DEF FramesBy, S, n
<1>3. ring \in Seq(S)
  <2>1. Len(ring) \in Nat /\ ring \in [1 .. Len(ring) -> S]
    BY <1>1, <1>2 DEF S
  <2>. QED
    BY <2>1, SeqDef
<1>4. /\ DOMAIN ring' = DOMAIN ring \cup {n} /\ n \notin DOMAIN ring /\ ring'[n] = f
      /\ \A i \in DOMAIN ring : i < n /\ ring'[i] = ring[i]
  <2>1. f \in S
    BY DEF S
  <2>2. /\ ring' \in Seq(S) /\ Len(ring') = Len(ring) + 1
        /\ \A i \in 1 .. Len(ring) : ring'[i] = ring[i]
        /\ ring'[Len(ring) + 1] = f
    BY <1>3, <2>1, AppendProperties
  <2>3. DOMAIN ring' = 1 .. (Len(ring) + 1)
    BY <2>2
  <2>. QED
    BY <1>2, <2>2, <2>3 DEF n
<1>5. \A p, kind : Games!Of(p, kind)' = Games!Of(p, kind) \cup {i \in {n} : f.pane = p /\ f.kind = kind}
  BY <1>4 DEF Games!Of
<1>. QED
  BY <1>4, <1>5

\* The head of a sequence, and what is left of it.
LEMMA TailOf ==
  ASSUME NEW S, NEW s \in Seq(S), s # <<>>
  PROVE  /\ Tail(s) \in Seq(S) /\ Head(s) \in S /\ Head(s) = s[1] /\ 1 \in DOMAIN s
         /\ \A i \in DOMAIN Tail(s) : i \in Nat /\ i + 1 # 1 /\ i + 1 \in DOMAIN s /\ Tail(s)[i] = s[i + 1]
         /\ \A i \in DOMAIN s : i \in Nat /\ i >= 1 /\ (i = 1 \/ (i - 1 \in DOMAIN Tail(s) /\ Tail(s)[i - 1] = s[i]))
<1>. DEFINE h == Tail(s)
<1>1. h \in Seq(S) /\ Len(h) = Len(s) - 1 /\ Head(s) \in S /\ \A i \in 1 .. Len(h) : h[i] = s[i + 1]
  BY HeadTailProperties
<1>2. Len(s) \in Nat \ {0}
  BY EmptySeq
<1>3. DOMAIN s = 1 .. Len(s) /\ Head(s) = s[1]
  BY <1>2
<1>. HIDE DEF h
<1>4. DOMAIN h = 1 .. Len(h)
  BY <1>1
<1>5. 1 \in DOMAIN s
  BY <1>2, <1>3
<1>6. \A i \in DOMAIN h : i \in Nat /\ i + 1 # 1 /\ i + 1 \in DOMAIN s /\ h[i] = s[i + 1]
  BY <1>1, <1>2, <1>3, <1>4
<1>7. \A i \in DOMAIN s : i \in Nat /\ i >= 1 /\ (i = 1 \/ (i - 1 \in DOMAIN h /\ h[i - 1] = s[i]))
  <2>. SUFFICES ASSUME NEW i \in DOMAIN s, i # 1 PROVE i - 1 \in DOMAIN h /\ h[i - 1] = s[i]
    BY <1>2, <1>3
  <2>1. i - 1 \in 1 .. Len(h) /\ (i - 1) + 1 = i
    BY <1>1, <1>2, <1>3
  <2>. QED
    BY <1>1, <1>4, <2>1
<1>. QED
  BY <1>1, <1>3, <1>5, <1>6, <1>7 DEF h

\* What a worker has not read gets longer by one announcement.
Longer(w, e) ==
  \E n \in DOMAIN wire'[w] :
     /\ n \notin DOMAIN wire[w] /\ wire'[w][n] = e
     /\ DOMAIN wire'[w] = DOMAIN wire[w] \cup {n}
     /\ \A i \in DOMAIN wire[w] : i < n /\ ~(n < i) /\ wire'[w][i] = wire[w][i]

\* The host tells everyone who follows it.
LEMMA TellIs ==
  ASSUME GameTyped, NEW q \in Pane, NEW state \in {"running", "ended"}, Games!Tell(q, state)
  PROVE  /\ wire' \in [Worker -> Seq(Sayings)]
         /\ \A w \in Worker : ~worker[w].linked => wire'[w] = wire[w]
         /\ \A w \in Worker : worker[w].linked => Longer(w, <<q, state>>)
         /\ \A w \in Worker, p \in Pane, s \in {"running", "ended"} :
              ToldOf(w, p, s)' <=> ToldOf(w, p, s) \/ (worker[w].linked /\ p = q /\ s = state)
<1>1. wire' = [w \in Worker |-> IF worker[w].linked THEN Append(wire[w], <<q, state>>) ELSE wire[w]]
  BY DEF Games!Tell
<1>3. \A w \in Worker : ~worker[w].linked => wire'[w] = wire[w]
  BY <1>1
<1>4. ASSUME NEW w \in Worker, worker[w].linked
      PROVE  wire'[w] \in Seq(Sayings) /\ Longer(w, <<q, state>>)
  <2>1. wire[w] \in Seq(Sayings) /\ <<q, state>> \in Sayings /\ wire'[w] = Append(wire[w], <<q, state>>)
    BY <1>1, <1>4 DEF GameTyped, Sayings
  <2>. DEFINE x == wire[w]
  <2>. DEFINE e == <<q, state>>
  <2>. HIDE DEF x, e
  <2>2. x \in Seq(Sayings) /\ e \in Sayings /\ wire'[w] = Append(x, e)
    BY <2>1 DEF x, e
  <2>3. /\ Append(x, e) \in Seq(Sayings) /\ Len(Append(x, e)) = Len(x) + 1
        /\ \A i \in 1 .. Len(x) : Append(x, e)[i] = x[i]
        /\ Append(x, e)[Len(x) + 1] = e
    BY <2>2, AppendProperties
  <2>4. Len(x) \in Nat /\ DOMAIN x = 1 .. Len(x) /\ DOMAIN Append(x, e) = 1 .. Len(x) + 1
    BY <2>2, <2>3
  <2>5. /\ Len(x) + 1 \in DOMAIN Append(x, e) /\ Len(x) + 1 \notin DOMAIN x
        /\ DOMAIN Append(x, e) = DOMAIN x \cup {Len(x) + 1}
        /\ \A i \in DOMAIN x : i < Len(x) + 1 /\ ~(Len(x) + 1 < i)
    BY <2>4
  <2>. QED
    BY <2>2, <2>3, <2>4, <2>5 DEF x, e, Longer
<1>5. wire' \in [Worker -> Seq(Sayings)]
  BY <1>1, <1>3, <1>4 DEF GameTyped
<1>6. ASSUME NEW w \in Worker, NEW p \in Pane, NEW s \in {"running", "ended"}
      PROVE  ToldOf(w, p, s)' <=> ToldOf(w, p, s) \/ (worker[w].linked /\ p = q /\ s = state)
  <2>1. CASE worker[w].linked
    <3>1. PICK n \in DOMAIN wire'[w] :
                  /\ n \notin DOMAIN wire[w] /\ wire'[w][n] = <<q, state>>
                  /\ DOMAIN wire'[w] = DOMAIN wire[w] \cup {n}
                  /\ \A i \in DOMAIN wire[w] : i < n /\ ~(n < i) /\ wire'[w][i] = wire[w][i]
      BY <1>4, <2>1 DEF Longer
    <3>2. <<q, state>> = <<p, s>> <=> p = q /\ s = state
      OBVIOUS
    <3>. QED
      BY <2>1, <3>1, <3>2 DEF ToldOf
  <2>2. CASE ~worker[w].linked
    BY <1>3, <2>2 DEF ToldOf
  <2>. QED
    BY <2>1, <2>2
<1>. QED
  BY <1>3, <1>4, <1>5, <1>6

\* It says an end once, and that a pane runs after its end only of a pane that is marked.
LEMMA TellKnown ==
  ASSUME GameTyped, WiresKnown, NEW q \in Pane, NEW state \in {"running", "ended"}, Games!Tell(q, state),
         Unshared' \subseteq Unshared, pane'[q] # "none",
         \A p \in Pane : (pane[p] # "none" => pane'[p] # "none") /\ (pane[p] = "ended" => pane'[p] = "ended"),
         state = "ended" => pane[q] # "ended" /\ pane'[q] = "ended",
         state = "running" /\ q \in Unshared' => pane[q] # "ended"
  PROVE  WiresKnown'
<1>1. /\ \A w \in Worker : ~worker[w].linked => wire'[w] = wire[w]
      /\ \A w \in Worker : worker[w].linked => Longer(w, <<q, state>>)
      /\ \A w \in Worker, p \in Pane, s \in {"running", "ended"} :
           ToldOf(w, p, s)' <=> ToldOf(w, p, s) \/ (worker[w].linked /\ p = q /\ s = state)
  BY TellIs
<1>2. ASSUME NEW w \in Worker
      PROVE  /\ \A p \in Pane, i, j \in DOMAIN wire'[w] :
                  wire'[w][i] = <<p, "ended">> /\ wire'[w][j] = <<p, "ended">> => i = j
             /\ \A p \in Unshared', i, j \in DOMAIN wire'[w] :
                  wire'[w][i] = <<p, "running">> /\ wire'[w][j] = <<p, "ended">> => i < j
  <2>1. CASE worker[w].linked
    <3>1. PICK n \in DOMAIN wire'[w] :
                  /\ n \notin DOMAIN wire[w] /\ wire'[w][n] = <<q, state>>
                  /\ DOMAIN wire'[w] = DOMAIN wire[w] \cup {n}
                  /\ \A i \in DOMAIN wire[w] : i < n /\ ~(n < i) /\ wire'[w][i] = wire[w][i]
      BY <1>1, <2>1 DEF Longer
    <3>2. pane[q] # "ended" => \A i \in DOMAIN wire[w] : wire[w][i] # <<q, "ended">>
      BY DEF WiresKnown, ToldOf
    <3>3. ASSUME NEW p \in Pane, NEW i \in DOMAIN wire'[w], NEW j \in DOMAIN wire'[w],
                 wire'[w][i] = <<p, "ended">>, wire'[w][j] = <<p, "ended">>
          PROVE  i = j
      <4>1. CASE i # n /\ j # n
        BY <3>1, <3>3, <4>1 DEF WiresKnown
      <4>2. CASE i = n \/ j = n
        <5>1. p = q /\ state = "ended"
          BY <3>1, <3>3, <4>2
        <5>2. \A l \in DOMAIN wire[w] : wire[w][l] # <<q, "ended">>
          BY <3>2, <5>1
        <5>. QED
          BY <3>1, <3>3, <5>1, <5>2
      <4>. QED
        BY <4>1, <4>2
    <3>4. ASSUME NEW p \in Unshared', NEW i \in DOMAIN wire'[w], NEW j \in DOMAIN wire'[w],
                 wire'[w][i] = <<p, "running">>, wire'[w][j] = <<p, "ended">>
          PROVE  i < j
      <4>1. CASE i # n /\ j # n
        BY <3>1, <3>4, <4>1 DEF WiresKnown
      <4>2. CASE i = n
        <5>1. p = q /\ state = "running" /\ j # n
          BY <3>1, <3>4, <4>2
        <5>2. \A l \in DOMAIN wire[w] : wire[w][l] # <<q, "ended">>
          BY <3>2, <5>1
        <5>. QED
          BY <3>1, <3>4, <5>1, <5>2
      <4>3. CASE i # n /\ j = n
        BY <3>1, <4>3
      <4>. QED
        BY <4>1, <4>2, <4>3
    <3>. QED
      BY <3>3, <3>4
  <2>2. CASE ~worker[w].linked
    BY <1>1, <2>2 DEF WiresKnown
  <2>. QED
    BY <2>1, <2>2
<1>3. \A w \in Worker, p \in Pane : /\ ToldOf(w, p, "running")' => pane'[p] # "none"
                                    /\ ToldOf(w, p, "ended")' => pane'[p] = "ended"
  BY <1>1 DEF WiresKnown
<1>. QED
  BY <1>2, <1>3 DEF WiresKnown

\* A worker reads what it was told first.
LEMMA WireRead ==
  ASSUME GameTyped, WiresKnown, NEW w \in Worker, wire[w] # <<>>, wire' = [wire EXCEPT ![w] = Tail(wire[w])],
         UNCHANGED <<pane, overlapped>>
  PROVE  /\ wire' \in [Worker -> Seq(Sayings)] /\ WiresKnown'
         /\ Head(wire[w]) = wire[w][1] /\ 1 \in DOMAIN wire[w] /\ Head(wire[w]) \in Sayings
         /\ \A v \in Worker : v # w => wire'[v] = wire[v]
         /\ \A v \in Worker : \A p, s : ToldOf(v, p, s)' => ToldOf(v, p, s)
         /\ \A v \in Worker : \A p, s : ToldOf(v, p, s) /\ (v # w \/ Head(wire[w]) # <<p, s>>) => ToldOf(v, p, s)'
         /\ \A p \in Pane : Head(wire[w]) = <<p, "ended">> =>
              ~ToldOf(w, p, "ended")' /\ (p \in Unshared => ~ToldOf(w, p, "running")')
<1>. DEFINE x == wire[w]
<1>1. x \in Seq(Sayings) /\ x # <<>>
  BY DEF GameTyped
<1>. HIDE DEF x
<1>2. /\ Tail(x) \in Seq(Sayings) /\ Head(x) \in Sayings /\ Head(x) = x[1] /\ 1 \in DOMAIN x
      /\ \A i \in DOMAIN Tail(x) : i \in Nat /\ i + 1 # 1 /\ i + 1 \in DOMAIN x /\ Tail(x)[i] = x[i + 1]
      /\ \A i \in DOMAIN x : i \in Nat /\ i >= 1 /\ (i = 1 \/ (i - 1 \in DOMAIN Tail(x) /\ Tail(x)[i - 1] = x[i]))
  BY <1>1, TailOf
<1>3. wire'[w] = Tail(x) /\ wire' \in [Worker -> Seq(Sayings)] /\ \A v \in Worker : v # w => wire'[v] = wire[v]
  BY <1>2 DEF GameTyped, x
<1>4. /\ \A p \in Pane, i, j \in DOMAIN x : x[i] = <<p, "ended">> /\ x[j] = <<p, "ended">> => i = j
      /\ \A p \in Unshared, i, j \in DOMAIN x : x[i] = <<p, "running">> /\ x[j] = <<p, "ended">> => i < j
  BY DEF WiresKnown, x
<1>5. ASSUME NEW p, NEW s, ToldOf(w, p, s)' PROVE \E j \in DOMAIN x : x[j] = <<p, s>> /\ j # 1 /\ j \in Nat /\ j >= 1
  <2>1. PICK i \in DOMAIN Tail(x) : Tail(x)[i] = <<p, s>>
    BY <1>3, <1>5 DEF ToldOf
  <2>2. i + 1 \in DOMAIN x /\ x[i + 1] = <<p, s>> /\ i + 1 # 1
    BY <1>2, <2>1
  <2>. QED
    BY <1>2, <2>2
<1>6. ASSUME NEW p, NEW s, ToldOf(w, p, s), Head(x) # <<p, s>> PROVE ToldOf(w, p, s)'
  <2>1. PICK i \in DOMAIN x : x[i] = <<p, s>>
    BY <1>6 DEF ToldOf, x
  <2>2. i # 1
    BY <1>2, <1>6, <2>1
  <2>3. i - 1 \in DOMAIN Tail(x) /\ Tail(x)[i - 1] = <<p, s>>
    BY <1>2, <2>1, <2>2
  <2>. QED
    BY <1>3, <2>3 DEF ToldOf
<1>7. \A v \in Worker : \A p, s : v # w => (ToldOf(v, p, s)' <=> ToldOf(v, p, s))
  BY <1>3 DEF ToldOf
<1>8. \A v \in Worker : \A p, s : ToldOf(v, p, s)' => ToldOf(v, p, s)
  <2>1. \A p, s : ToldOf(w, p, s)' => ToldOf(w, p, s)
    BY <1>5 DEF ToldOf, x
  <2>. QED
    BY <1>7, <2>1
<1>9. \A v \in Worker : \A p, s : ToldOf(v, p, s) /\ (v # w \/ Head(x) # <<p, s>>) => ToldOf(v, p, s)'
  BY <1>6, <1>7
<1>10. ASSUME NEW p \in Pane, Head(x) = <<p, "ended">>
       PROVE  ~ToldOf(w, p, "ended")' /\ (p \in Unshared => ~ToldOf(w, p, "running")')
  <2>1. 1 \in DOMAIN x /\ x[1] = <<p, "ended">>
    BY <1>2, <1>10
  <2>2. ~ToldOf(w, p, "ended")'
    BY <1>4, <1>5, <2>1
  <2>3. ASSUME p \in Unshared, ToldOf(w, p, "running")' PROVE FALSE
    <3>1. PICK j \in DOMAIN x : x[j] = <<p, "running">> /\ j \in Nat /\ j >= 1
      BY <1>5, <2>3
    <3>2. j < 1
      BY <1>4, <2>1, <2>3, <3>1
    <3>. QED
      BY <3>1, <3>2
  <2>. QED
    BY <2>2, <2>3
<1>11. WiresKnown'
  <2>0. Unshared' = Unshared
    BY DEF Unshared
  <2>1. ASSUME NEW p \in Pane, NEW i \in DOMAIN wire'[w], NEW j \in DOMAIN wire'[w],
               wire'[w][i] = <<p, "ended">>, wire'[w][j] = <<p, "ended">>
        PROVE  i = j
    <3>1. /\ i \in Nat /\ j \in Nat /\ i + 1 \in DOMAIN x /\ j + 1 \in DOMAIN x
          /\ x[i + 1] = <<p, "ended">> /\ x[j + 1] = <<p, "ended">>
      BY <1>2, <1>3, <2>1
    <3>2. i + 1 = j + 1
      BY <1>4, <3>1
    <3>. QED
      BY <3>1, <3>2
  <2>2. ASSUME NEW p \in Unshared, NEW i \in DOMAIN wire'[w], NEW j \in DOMAIN wire'[w],
               wire'[w][i] = <<p, "running">>, wire'[w][j] = <<p, "ended">>
        PROVE  i < j
    <3>1. /\ i \in Nat /\ j \in Nat /\ i + 1 \in DOMAIN x /\ j + 1 \in DOMAIN x
          /\ x[i + 1] = <<p, "running">> /\ x[j + 1] = <<p, "ended">>
      BY <1>2, <1>3, <2>2
    <3>2. i + 1 < j + 1
      BY <1>4, <3>1
    <3>. QED
      BY <3>1, <3>2
  <2>3. \A v \in Worker, p \in Pane : /\ ToldOf(v, p, "running")' => pane'[p] # "none"
                                      /\ ToldOf(v, p, "ended")' => pane'[p] = "ended"
    BY <1>8 DEF WiresKnown
  <2>4. ASSUME NEW v \in Worker
        PROVE  /\ \A p \in Pane, i, j \in DOMAIN wire'[v] :
                    wire'[v][i] = <<p, "ended">> /\ wire'[v][j] = <<p, "ended">> => i = j
               /\ \A p \in Unshared', i, j \in DOMAIN wire'[v] :
                    wire'[v][i] = <<p, "running">> /\ wire'[v][j] = <<p, "ended">> => i < j
    <3>1. CASE v = w
      BY <2>0, <2>1, <2>2, <3>1
    <3>2. CASE v # w
      BY <1>3, <2>0, <3>2 DEF WiresKnown
    <3>. QED
      BY <3>1, <3>2
  <2>. QED
    BY <2>3, <2>4 DEF WiresKnown
<1>. QED
  BY <1>2, <1>3, <1>8, <1>9, <1>10, <1>11 DEF x

LEMMA MintsAre ==
  ASSUME GameInv
  PROVE  /\ \A w \in Worker : w \in Mints <=> worker[w].pc # "off" /\ ~worker[w].retired
         /\ \A w \in Mints : w \in Worker
         /\ \A w \in Worker : worker[w].linked => worker[w].pc = "inherited"
         /\ \A w \in Worker : worker[w].retired => worker[w].pc = "inherited"
         /\ \A w \in Worker : worker[w].pc \notin {"off", "inherited"} => w \in Mints
BY DEF GameInv, Followers, Mints, Games!Minting, Games!Serving

\* One worker alone hears of a pane whose announcement is not shared.
LEMMA OneHears ==
  ASSUME GameInv, NEW q \in Pane, NEW state, Games!Announce(q, state), q \in Unshared'
  PROVE  \E m \in Worker : Mints = {m} /\ worker[m].linked
<1>1. Games!Cardinality(Mints) = 1 /\ \A w \in Mints : worker[w].linked
  BY DEF Games!Announce, Unshared, Mints
<1>2. Cardinality(Mints) = 1
  BY <1>1 DEF Games!Cardinality, Cardinality
<1>3. IsFiniteSet(Mints)
  <2>1. Mints \subseteq Worker
    BY DEF Mints, Games!Minting
  <2>. QED
    BY <2>1, FS_Subset, WorkspaceConstants
<1>4. PICK m : Mints = {m}
  BY <1>2, <1>3, FS_Singleton
<1>. QED
  BY <1>1, <1>4, MintsAre

\* Panes only ever join those that were heard of by another.
LEMMA UnsharedShrinks ==
  ASSUME overlapped \subseteq overlapped'
  PROVE  Unshared' \subseteq Unshared
BY DEF Unshared

\* What the host says of a pane is nothing to the others.
LEMMA TellOthers ==
  ASSUME GameInv, NEW q \in Pane, NEW state \in {"running", "ended"}, Games!Tell(q, state),
         UNCHANGED <<worker, open, saying, ring>>, NEW p \in Pane, p # q, pane'[p] = pane[p], Follows(p)
  PROVE  Follows(p)'
<1>1. Mints' = Mints
  BY DEF Mints, Games!Minting, Games!Serving
<1>2. \A kind \in GameKinds : Games!Of(p, kind)' = Games!Of(p, kind)
  BY DEF Games!Of
<1>3. \A i \in DOMAIN ring : i \in DOMAIN ring' /\ ring'[i] = ring[i]
  OBVIOUS
<1>4. \A w \in Worker : open'[w][p] = open[w][p]
  OBVIOUS
<1>5. \A w \in Worker : (SaidOf(w, p)' <=> SaidOf(w, p)) /\ (SaidOf(w, p) => saying'[w] = saying[w])
  BY DEF SaidOf
<1>6. \A w \in Worker : \A s \in {"running", "ended"} : ToldOf(w, p, s)' <=> ToldOf(w, p, s)
  <2>1. \A w \in Worker, r \in Pane, s \in {"running", "ended"} :
          ToldOf(w, r, s)' <=> ToldOf(w, r, s) \/ (worker[w].linked /\ r = q /\ s = state)
    BY TellIs DEF GameInv
  <2>. QED
    BY <2>1
<1>7. \A w \in Worker : \A s \in {"running", "ended"} : ToldOf(w, p, s)' => ToldOf(w, p, s)
  BY <1>6
<1>8. \A w \in Mints : \A s \in {"running", "ended"} : w \in Mints' /\ ToldOf(w, p, s) => ToldOf(w, p, s)'
  BY <1>6, MintsAre
<1>9. \A w \in Mints : ~NotTold(w, p) \/ SaidOf(w, p) => w \in Mints' /\ worker'[w].linked = worker[w].linked
  BY <1>1
<1>10. \A w \in Mints' : w \in Mints \/ (worker'[w].pc # "inherited" /\ open[w][p] = None /\ NotTold(w, p)')
  BY <1>1
<1>11. \A w \in Mints : worker'[w].pc = "inherited" => worker[w].pc = "inherited"
  OBVIOUS
<1>. QED
  BY <1>2, <1>3, <1>4, <1>5, <1>7, <1>8, <1>9, <1>10, <1>11, FollowsStays

LEMMA TellFollowers ==
  ASSUME GameInv, NEW q \in Pane, NEW state \in {"running", "ended"}, Games!Tell(q, state),
         UNCHANGED <<worker, open, saying, ring>>, Unshared' \subseteq Unshared,
         \A p \in Unshared', w \in Worker : worker[w].pc = "looked" /\ pane'[p] = "running" => pane[p] = "running"
  PROVE  Followers'
<1>1. \A w \in Worker : ~worker[w].linked => wire'[w] = wire[w]
  BY TellIs DEF GameInv
<1>2. ASSUME NEW w \in Worker, worker[w].pc = "looked", NEW p \in Unshared', pane'[p] = "running"
      PROVE  p \in worker[w].looked
  BY <1>2 DEF GameInv, Followers
<1>3. /\ First \in Worker => worker'[First].pc = "inherited"
      /\ \A w \in Worker :
           /\ worker'[w].linked => worker'[w].pc = "inherited"
           /\ worker'[w].retired => w = First
           /\ ~worker'[w].linked => wire'[w] = <<>>
           /\ worker'[w].pc # "inherited" => saying'[w] = <<>> /\ \A p \in Pane \ Device : open'[w][p] = None
  BY <1>1 DEF GameInv, Followers
<1>. QED
  BY <1>2, <1>3 DEF Followers

LEMMA AnnounceSafe ==
  ASSUME GameInv, NEW q \in Pane, NEW state \in {"running", "ended"}, Games!Announce(q, state),
         IF state = "running" THEN pane[q] = "none" ELSE pane[q] = "running",
         UNCHANGED <<worker, open, saying, ring>>
  PROVE  /\ pane' \in [Pane -> {"none", "running", "ended"}] /\ wire' \in [Worker -> Seq(Sayings)]
         /\ pane'[q] = state /\ \A p \in Pane : p # q => pane'[p] = pane[p]
         /\ WiresKnown' /\ Followers' /\ PairsFollowed'
<1>0. Games!Tell(q, state) /\ overlapped \subseteq overlapped' /\ pane' = [pane EXCEPT ![q] = state]
  BY DEF Games!Announce
<1>1. /\ wire' \in [Worker -> Seq(Sayings)]
      /\ \A w \in Worker, p \in Pane, s \in {"running", "ended"} :
           ToldOf(w, p, s)' <=> ToldOf(w, p, s) \/ (worker[w].linked /\ p = q /\ s = state)
  BY <1>0, TellIs DEF GameInv
<1>2. Unshared' \subseteq Unshared
  BY <1>0, UnsharedShrinks
<1>3. Mints' = Mints
  BY DEF Mints, Games!Minting, Games!Serving
<1>4. /\ pane' \in [Pane -> {"none", "running", "ended"}] /\ pane'[q] = state
      /\ \A p \in Pane : p # q => pane'[p] = pane[p]
  BY <1>0 DEF GameInv, GameTyped
<1>5. WiresKnown'
  <2>1. \A p \in Pane : (pane[p] # "none" => pane'[p] # "none") /\ (pane[p] = "ended" => pane'[p] = "ended")
    BY <1>4
  <2>2. pane'[q] # "none" /\ (state = "ended" => pane[q] # "ended" /\ pane'[q] = "ended") /\ pane[q] # "ended"
    BY <1>4
  <2>. QED
    BY <1>0, <1>2, <2>1, <2>2, TellKnown DEF GameInv
<1>6. Followers'
  <2>1. ASSUME NEW w \in Worker, worker[w].pc = "looked", NEW p \in Unshared', pane'[p] = "running"
        PROVE  pane[p] = "running"
    <3>1. CASE p # q
      BY <1>4, <2>1, <3>1 DEF Unshared
    <3>2. CASE p = q
      BY <2>1, <3>2, OneHears, MintsAre
    <3>. QED
      BY <3>1, <3>2
  <2>. QED
    BY <1>0, <1>2, <2>1, TellFollowers
<1>7. ASSUME q \in Unshared', Follows(q) PROVE Follows(q)'
  <2>1. PICK m \in Worker : Mints = {m} /\ worker[m].linked
    BY <1>7, OneHears
  <2>2. AloneIn(m)' /\ \A v \in Mints' : v # m => NotTold(v, q)'
    BY <1>3, <2>1 DEF AloneIn
  <2>3. HeardBy(m, q)'
    BY <2>2 DEF HeardBy
  <2>4. (NoFrames(q)' <=> NoFrames(q)) /\ (NoneSaid(q)' <=> NoneSaid(q)) /\ (NoneOpen(q)' <=> NoneOpen(q))
    BY DEF NoFrames, NoneSaid, NoneOpen, SaidOf, Games!Of
  <2>5. CASE state = "running"
    <3>1. Unheard(q)
      BY <1>7, <2>5 DEF Follows, Unheard, Runs, PairMade, StartTold, StartSaid, EndTold, EndHeard, EndSaid
    <3>2. ~ToldOf(m, q, "ended") /\ NoFrames(q) /\ NoneSaid(q) /\ NoneOpen(q)
      BY <3>1 DEF Unheard, NotTold
    <3>3. ToldOf(m, q, "running")' /\ ~ToldOf(m, q, "ended")'
      BY <1>1, <2>1, <2>5, <3>2
    <3>4. EndTold(m, q)'
      BY <1>4, <2>5, <3>3 DEF EndTold
    <3>5. StartTold(m, q)'
      BY <2>3, <2>4, <3>2, <3>3, <3>4 DEF StartTold
    <3>. QED
      BY <3>5 DEF Follows
  <2>6. CASE state = "ended"
    <3>0. pane[q] = "running" /\ pane'[q] = "ended"
      BY <1>4, <2>6
    <3>1. ToldOf(m, q, "ended")' /\ (ToldOf(m, q, "running")' <=> ToldOf(m, q, "running"))
      BY <1>1, <2>1, <2>6
    <3>2. EndTold(m, q)'
      BY <3>0, <3>1 DEF EndTold
    <3>3. \/ StartTold(m, q) \/ StartSaid(m, q) \/ Runs(q)
      BY <1>7, <2>1, <3>0 DEF Follows, Unheard, PairMade, EndHeard, EndSaid, StartTold, StartSaid, HeardBy, AloneIn
    <3>4. CASE StartTold(m, q)
      <4>1. StartTold(m, q)'
        BY <2>3, <2>4, <3>1, <3>2, <3>4 DEF StartTold
      <4>. QED
        BY <4>1 DEF Follows
    <3>5. CASE StartSaid(m, q)
      <4>1. StartSaid(m, q)'
        BY <2>3, <2>4, <3>1, <3>2, <3>5 DEF StartSaid, SaidOf, Games!Frame
      <4>. QED
        BY <4>1 DEF Follows
    <3>6. CASE Runs(q)
      <4>1. PICK i \in DOMAIN ring : OnlyStart(q, i) /\ \A v \in Mints : worker[v].pc = "inherited" => open[v][q] = ring[i].by
        BY <3>6 DEF Runs
      <4>2. i \in DOMAIN ring' /\ OnlyStart(q, i)' /\ open'[m][q] = ring'[i].by
        BY <2>1, <4>1, MintsAre DEF OnlyStart, Games!Of
      <4>3. NoneSaid(q)
        BY <3>6 DEF Runs
      <4>4. EndHeard(m, q)'
        BY <2>3, <2>4, <3>0, <3>1, <4>2, <4>3 DEF EndHeard
      <4>. QED
        BY <4>4 DEF Follows
    <3>. QED
      BY <3>3, <3>4, <3>5, <3>6
  <2>. QED
    BY <2>5, <2>6
<1>8. PairsFollowed'
  <2>1. ASSUME NEW p \in Unshared' PROVE Follows(p)'
    <3>1. p \in Pane /\ Follows(p)
      BY <1>2, <2>1 DEF GameInv, PairsFollowed, Unshared
    <3>2. CASE p # q
      BY <1>0, <1>4, <3>1, <3>2, TellOthers
    <3>3. CASE p = q
      BY <1>7, <2>1, <3>1, <3>3
    <3>. QED
      BY <3>2, <3>3
  <2>. QED
    BY <2>1 DEF PairsFollowed
<1>. QED
  BY <1>1, <1>4, <1>5, <1>6, <1>8

\* What a step makes of a request.
LEMMA CallSet ==
  ASSUME GameTyped, NEW c \in Pane, NEW r,
         r = [pc |-> r.pc, at |-> r.at, now |-> r.now, running |-> r.running, answer |-> r.answer],
         call' = [call EXCEPT ![c] = r]
  PROVE  /\ call' = [d \in Pane |-> [pc |-> call'[d].pc, at |-> call'[d].at, now |-> call'[d].now, running |-> call'[d].running,
                                     answer |-> call'[d].answer]]
         /\ call'[c] = r /\ \A d \in Pane : d # c => call'[d] = call[d]
<1>1. DOMAIN call = Pane /\ \A d \in Pane : call[d] = [pc |-> call[d].pc, at |-> call[d].at, now |-> call[d].now,
                                                       running |-> call[d].running, answer |-> call[d].answer]
  BY DEF GameTyped
<1>2. call' = [d \in Pane |-> call'[d]] /\ call'[c] = r /\ \A d \in Pane : d # c => call'[d] = call[d]
  BY <1>1
<1>3. \A d \in Pane : call'[d] = [pc |-> call'[d].pc, at |-> call'[d].at, now |-> call'[d].now,
                                  running |-> call'[d].running, answer |-> call'[d].answer]
  BY <1>1, <1>2
<1>. QED
  BY <1>2, <1>3

\* A request that is answered.
LEMMA CallAnswered ==
  ASSUME GameInv, NEW c \in Pane, NEW p, call' = [call EXCEPT ![c].pc = "answered", ![c].answer = p]
  PROVE  \E r : /\ call' = [call EXCEPT ![c] = r] /\ r.pc = "answered"
               /\ r = [pc |-> r.pc, at |-> r.at, now |-> r.now, running |-> r.running, answer |-> r.answer]
<1>. DEFINE x == call[c]
<1>. DEFINE a == [x EXCEPT !.pc = "answered"]
<1>. DEFINE b == [call EXCEPT ![c] = a]
<1>. DEFINE d == [a EXCEPT !.answer = p]
<1>1. call' = [b EXCEPT ![c] = [b[c] EXCEPT !.answer = p]]
  OBVIOUS
<1>2. b[c] = a
  BY DEF GameInv, GameTyped
<1>3. [b EXCEPT ![c] = d] = [call EXCEPT ![c] = d]
  OBVIOUS
<1>4. call' = [call EXCEPT ![c] = d]
  BY <1>1, <1>2, <1>3
<1>5. x = [pc |-> x.pc, at |-> x.at, now |-> x.now, running |-> x.running, answer |-> x.answer]
  BY DEF GameInv, GameTyped
<1>. HIDE DEF b, x
<1>6. a = [pc |-> "answered", at |-> x.at, now |-> x.now, running |-> x.running, answer |-> x.answer]
  BY <1>5
<1>. HIDE DEF a
<1>7. d = [pc |-> "answered", at |-> x.at, now |-> x.now, running |-> x.running, answer |-> p]
  BY <1>6
<1>. HIDE DEF d
<1>8. d = [pc |-> d.pc, at |-> d.at, now |-> d.now, running |-> d.running, answer |-> d.answer] /\ d.pc = "answered"
  BY <1>7
<1>. QED
  BY <1>4, <1>8

\* A request that lands, or whose pane is bound.
LEMMA CallGoesOn ==
  ASSUME GameInv, NEW c \in Pane, call' = [call EXCEPT ![c].pc = "done"] \/ call' = [call EXCEPT ![c].pc = "bound"]
  PROVE  \E r : /\ call' = [call EXCEPT ![c] = r] /\ r.pc \in {"done", "bound"}
               /\ (r.pc = "bound" => call' = [call EXCEPT ![c].pc = "bound"])
               /\ r = [pc |-> r.pc, at |-> r.at, now |-> r.now, running |-> r.running, answer |-> r.answer]
<1>. DEFINE x == call[c]
<1>1. x = [pc |-> x.pc, at |-> x.at, now |-> x.now, running |-> x.running, answer |-> x.answer]
  BY DEF GameInv, GameTyped
<1>. HIDE DEF x
<1>2. CASE call' = [call EXCEPT ![c].pc = "done"]
  <2>. DEFINE a == [x EXCEPT !.pc = "done"]
  <2>1. call' = [call EXCEPT ![c] = a]
    BY <1>2 DEF x
  <2>2. a = [pc |-> "done", at |-> x.at, now |-> x.now, running |-> x.running, answer |-> x.answer]
    BY <1>1
  <2>. HIDE DEF a
  <2>3. a = [pc |-> a.pc, at |-> a.at, now |-> a.now, running |-> a.running, answer |-> a.answer] /\ a.pc = "done"
    BY <2>2
  <2>. QED
    BY <1>2, <2>1, <2>3
<1>3. CASE call' = [call EXCEPT ![c].pc = "bound"]
  <2>. DEFINE a == [x EXCEPT !.pc = "bound"]
  <2>1. call' = [call EXCEPT ![c] = a]
    BY <1>3 DEF x
  <2>2. a = [pc |-> "bound", at |-> x.at, now |-> x.now, running |-> x.running, answer |-> x.answer]
    BY <1>1
  <2>. HIDE DEF a
  <2>3. a = [pc |-> a.pc, at |-> a.at, now |-> a.now, running |-> a.running, answer |-> a.answer] /\ a.pc = "bound"
    BY <2>2
  <2>. QED
    BY <1>3, <2>1, <2>3
<1>. QED
  BY <1>2, <1>3

\* A request that is queued, and one whose pane is made.
LEMMA CallBegun ==
  ASSUME NEW c \in Pane, NEW w \in Worker, Games!Queue(c, w) \/ Games!Create(c, w)
  PROVE  \E r : /\ call' = [call EXCEPT ![c] = r] /\ r.pc \in {"queued", "created"} /\ (r.pc = "created" => c \in Device)
               /\ (r.pc = "queued" => Games!Queue(c, w))
               /\ r = [pc |-> r.pc, at |-> r.at, now |-> r.now, running |-> r.running, answer |-> r.answer]
<1>. DEFINE z == Games!NoCall
<1>1. z = [pc |-> "idle", at |-> None, now |-> 0, running |-> {}, answer |-> None]
  BY DEF Games!NoCall
<1>2. CASE Games!Queue(c, w)
  <2>. DEFINE a == [z EXCEPT !.pc = "queued"]
  <2>. DEFINE b == [a EXCEPT !.at = w]
  <2>. DEFINE d == [b EXCEPT !.now = ticks]
  <2>. DEFINE r == [d EXCEPT !.running = Games!Running]
  <2>1. call' = [call EXCEPT ![c] = r]
    BY <1>2 DEF Games!Queue
  <2>. HIDE DEF z
  <2>2. a = [pc |-> "queued", at |-> None, now |-> 0, running |-> {}, answer |-> None]
    BY <1>1
  <2>. HIDE DEF a
  <2>3. b = [pc |-> "queued", at |-> w, now |-> 0, running |-> {}, answer |-> None]
    BY <2>2
  <2>. HIDE DEF b
  <2>4. d = [pc |-> "queued", at |-> w, now |-> ticks, running |-> {}, answer |-> None]
    BY <2>3
  <2>. HIDE DEF d
  <2>5. r = [pc |-> "queued", at |-> w, now |-> ticks, running |-> Games!Running, answer |-> None]
    BY <2>4
  <2>. HIDE DEF r
  <2>6. r = [pc |-> r.pc, at |-> r.at, now |-> r.now, running |-> r.running, answer |-> r.answer] /\ r.pc = "queued"
    BY <2>5
  <2>. QED
    BY <1>2, <2>1, <2>6
<1>3. CASE Games!Create(c, w)
  <2>. DEFINE a == [z EXCEPT !.pc = "created"]
  <2>. DEFINE b == [a EXCEPT !.at = w]
  <2>. DEFINE r == [b EXCEPT !.answer = c]
  <2>1. c \in Device /\ call' = [call EXCEPT ![c] = r]
    BY <1>3 DEF Games!Create
  <2>. HIDE DEF z
  <2>2. a = [pc |-> "created", at |-> None, now |-> 0, running |-> {}, answer |-> None]
    BY <1>1
  <2>. HIDE DEF a
  <2>3. b = [pc |-> "created", at |-> w, now |-> 0, running |-> {}, answer |-> None]
    BY <2>2
  <2>. HIDE DEF b
  <2>4. r = [pc |-> "created", at |-> w, now |-> 0, running |-> {}, answer |-> c]
    BY <2>3
  <2>. HIDE DEF r
  <2>5. r = [pc |-> r.pc, at |-> r.at, now |-> r.now, running |-> r.running, answer |-> r.answer] /\ r.pc = "created"
    BY <2>4
  <2>. QED
    BY <2>1, <2>5
<1>. QED
  BY <1>2, <1>3

\* A step of the requests alone.
LEMMA OnlyCalls ==
  ASSUME GameInv, UNCHANGED <<pane, wire, worker, open, saying, ring, overlapped>>,
         call' = [c \in Pane |-> [pc |-> call'[c].pc, at |-> call'[c].at, now |-> call'[c].now, running |-> call'[c].running,
                                  answer |-> call'[c].answer]],
         CallsKnown'
  PROVE  GameInv'
<1>1. GameTyped'
  BY DEF GameInv, GameTyped
<1>2. FeedTyped'
  BY DEF GameInv, FeedTyped
<1>3. \A w, p, s : ToldOf(w, p, s)' <=> ToldOf(w, p, s)
  BY DEF ToldOf
<1>5. Unshared' = Unshared /\ Mints' = Mints
  BY DEF Unshared, Mints, Games!Minting, Games!Serving
<1>4. WiresKnown'
  BY <1>3, <1>5 DEF GameInv, WiresKnown
<1>6. Followers'
  BY <1>5 DEF GameInv, Followers
<1>7. ASSUME NEW p \in Pane, Follows(p) PROVE Follows(p)'
  <2>1. \A kind \in GameKinds : Games!Of(p, kind)' = Games!Of(p, kind)
    BY DEF Games!Of
  <2>2. \A w \in Worker : (SaidOf(w, p)' <=> SaidOf(w, p)) /\ (SaidOf(w, p) => saying'[w] = saying[w])
    BY DEF SaidOf
  <2>. QED
    BY <1>3, <1>5, <1>7, <2>1, <2>2, FollowsStays
<1>8. PairsFollowed'
  <2>1. ASSUME NEW p \in Unshared' PROVE Follows(p)'
    BY <1>5, <1>7, <2>1 DEF GameInv, PairsFollowed, Unshared
  <2>. QED
    BY <2>1 DEF PairsFollowed
<1>. QED
  BY <1>1, <1>2, <1>4, <1>6, <1>8 DEF GameInv

LEMMA CallsSafe ==
  ASSUME GameInv, NEW c \in Pane, (\E w \in Worker : Games!Queue(c, w)) \/ Games!HostJoins(c) \/ Games!Landed(c)
  PROVE  GameInv'
<1>1. UNCHANGED <<pane, stale, wire, worker, open, saying, ring, overlapped>>
  BY DEF Games!Queue, Games!HostJoins, Games!Landed
<1>2. \E r : /\ call' = [call EXCEPT ![c] = r] /\ r.pc # "idle" /\ r.pc # "bound" /\ (r.pc = "created" => c \in Device)
             /\ (r.pc = "queued" => pane[c] = "none")
             /\ r = [pc |-> r.pc, at |-> r.at, now |-> r.now, running |-> r.running, answer |-> r.answer]
  <2>1. ASSUME NEW w \in Worker, Games!Queue(c, w)
        PROVE  \E r : /\ call' = [call EXCEPT ![c] = r] /\ r.pc # "idle" /\ r.pc # "bound" /\ (r.pc = "created" => c \in Device)
                      /\ (r.pc = "queued" => pane[c] = "none")
                      /\ r = [pc |-> r.pc, at |-> r.at, now |-> r.now, running |-> r.running, answer |-> r.answer]
    <3>1. pane[c] = "none"
      BY <2>1 DEF Games!Queue, GameInv, CallsKnown
    <3>. QED
      BY <2>1, <3>1, CallBegun
  <2>2. CASE Games!HostJoins(c)
    <3>1. PICK p : call' = [call EXCEPT ![c].pc = "answered", ![c].answer = p]
      BY <2>2 DEF Games!HostJoins
    <3>2. \E r : /\ call' = [call EXCEPT ![c] = r] /\ r.pc = "answered"
                 /\ r = [pc |-> r.pc, at |-> r.at, now |-> r.now, running |-> r.running, answer |-> r.answer]
      BY <3>1, CallAnswered
    <3>. QED
      BY <3>2
  <2>3. CASE Games!Landed(c)
    <3>1. call' = [call EXCEPT ![c].pc = "done"]
      BY <2>3 DEF Games!Landed
    <3>2. call' # [call EXCEPT ![c].pc = "bound"]
      <4>1. call'[c].pc = "done"
        BY <3>1 DEF GameInv, GameTyped
      <4>. QED
        BY <4>1 DEF GameInv, GameTyped
    <3>3. \E r : /\ call' = [call EXCEPT ![c] = r] /\ r.pc \in {"done", "bound"}
                 /\ (r.pc = "bound" => call' = [call EXCEPT ![c].pc = "bound"])
                 /\ r = [pc |-> r.pc, at |-> r.at, now |-> r.now, running |-> r.running, answer |-> r.answer]
      BY <3>1, CallGoesOn
    <3>. QED
      BY <3>2, <3>3
  <2>. QED
    BY <2>1, <2>2, <2>3
<1>3. PICK r : /\ call' = [call EXCEPT ![c] = r] /\ r.pc # "idle" /\ r.pc # "bound" /\ (r.pc = "created" => c \in Device)
               /\ (r.pc = "queued" => pane[c] = "none")
               /\ r = [pc |-> r.pc, at |-> r.at, now |-> r.now, running |-> r.running, answer |-> r.answer]
  BY <1>2
<1>4. /\ call' = [d \in Pane |-> [pc |-> call'[d].pc, at |-> call'[d].at, now |-> call'[d].now, running |-> call'[d].running,
                                  answer |-> call'[d].answer]]
      /\ call'[c] = r /\ \A d \in Pane : d # c => call'[d] = call[d]
  BY <1>3, CallSet DEF GameInv
<1>5. CallsKnown'
  BY <1>1, <1>3, <1>4 DEF GameInv, CallsKnown
<1>. QED
  BY <1>1, <1>4, <1>5, OnlyCalls

LEMMA TickSafe ==
  ASSUME GameInv, Games!Tick
  PROVE  GameInv'
<1>1. UNCHANGED <<call, pane, stale, wire, worker, open, saying, ring, overlapped>>
  BY DEF Games!Tick
<1>2. call' = [c \in Pane |-> [pc |-> call'[c].pc, at |-> call'[c].at, now |-> call'[c].now, running |-> call'[c].running,
                               answer |-> call'[c].answer]]
  BY <1>1 DEF GameInv, GameTyped
<1>3. CallsKnown'
  BY <1>1 DEF GameInv, CallsKnown
<1>. QED
  BY <1>1, <1>2, <1>3, OnlyCalls

\* The host starts a pane.
LEMMA PaneStartsSafe ==
  ASSUME GameInv, NEW c \in Pane, Games!HostStarts(c) \/ \E w \in Worker : Games!Create(c, w)
  PROVE  GameInv'
<1>1. /\ call[c].pc \in {"queued", "idle"} /\ Games!Announce(c, "running") /\ UNCHANGED <<stale, worker, open, saying, ring>>
  BY DEF Games!HostStarts, Games!Create
<1>2. pane[c] = "none"
  BY <1>1 DEF GameInv, CallsKnown
<1>3. /\ pane' \in [Pane -> {"none", "running", "ended"}] /\ wire' \in [Worker -> Seq(Sayings)]
      /\ pane'[c] = "running" /\ \A p \in Pane : p # c => pane'[p] = pane[p]
      /\ WiresKnown' /\ Followers' /\ PairsFollowed'
  BY <1>1, <1>2, AnnounceSafe
<1>4. \E r : /\ call' = [call EXCEPT ![c] = r] /\ r.pc \in {"answered", "created"} /\ (r.pc = "created" => c \in Device)
             /\ r = [pc |-> r.pc, at |-> r.at, now |-> r.now, running |-> r.running, answer |-> r.answer]
  <2>1. CASE Games!HostStarts(c)
    <3>1. call' = [call EXCEPT ![c].pc = "answered", ![c].answer = c]
      BY <2>1 DEF Games!HostStarts
    <3>2. \E r : /\ call' = [call EXCEPT ![c] = r] /\ r.pc = "answered"
                 /\ r = [pc |-> r.pc, at |-> r.at, now |-> r.now, running |-> r.running, answer |-> r.answer]
      BY <3>1, CallAnswered
    <3>. QED
      BY <3>2
  <2>2. ASSUME NEW w \in Worker, Games!Create(c, w)
        PROVE  \E r : /\ call' = [call EXCEPT ![c] = r] /\ r.pc \in {"answered", "created"} /\ (r.pc = "created" => c \in Device)
                      /\ r = [pc |-> r.pc, at |-> r.at, now |-> r.now, running |-> r.running, answer |-> r.answer]
    <3>1. PICK r : /\ call' = [call EXCEPT ![c] = r] /\ r.pc \in {"queued", "created"} /\ (r.pc = "created" => c \in Device)
                   /\ (r.pc = "queued" => Games!Queue(c, w))
                   /\ r = [pc |-> r.pc, at |-> r.at, now |-> r.now, running |-> r.running, answer |-> r.answer]
      BY <2>2, CallBegun
    <3>2. ~Games!Queue(c, w)
      BY <2>2 DEF Games!Create, Games!Queue
    <3>. QED
      BY <3>1, <3>2
  <2>. QED
    BY <2>1, <2>2
<1>5. PICK r : /\ call' = [call EXCEPT ![c] = r] /\ r.pc \in {"answered", "created"} /\ (r.pc = "created" => c \in Device)
               /\ r = [pc |-> r.pc, at |-> r.at, now |-> r.now, running |-> r.running, answer |-> r.answer]
  BY <1>4
<1>6. /\ call' = [d \in Pane |-> [pc |-> call'[d].pc, at |-> call'[d].at, now |-> call'[d].now, running |-> call'[d].running,
                                  answer |-> call'[d].answer]]
      /\ call'[c] = r /\ \A d \in Pane : d # c => call'[d] = call[d]
  BY <1>5, CallSet DEF GameInv
<1>7. GameTyped'
  BY <1>1, <1>3, <1>6 DEF GameInv, GameTyped
<1>8. FeedTyped'
  BY <1>1 DEF GameInv, FeedTyped
<1>9. CallsKnown'
  BY <1>1, <1>3, <1>5, <1>6 DEF GameInv, CallsKnown
<1>. QED
  BY <1>3, <1>7, <1>8, <1>9 DEF GameInv

LEMMA PaneEndsSafe ==
  ASSUME GameInv, NEW p \in Pane, Games!PaneEnds(p)
  PROVE  GameInv'
<1>1. pane[p] = "running" /\ Games!Announce(p, "ended") /\ UNCHANGED <<call, stale, worker, open, saying, ring>>
  BY DEF Games!PaneEnds, Games!Running
<1>2. /\ pane' \in [Pane -> {"none", "running", "ended"}] /\ wire' \in [Worker -> Seq(Sayings)]
      /\ pane'[p] = "ended" /\ \A q \in Pane : q # p => pane'[q] = pane[q]
      /\ WiresKnown' /\ Followers' /\ PairsFollowed'
  BY <1>1, AnnounceSafe
<1>3. GameTyped'
  BY <1>1, <1>2 DEF GameInv, GameTyped
<1>4. FeedTyped'
  BY <1>1 DEF GameInv, FeedTyped
<1>5. CallsKnown'
  BY <1>1, <1>2 DEF GameInv, CallsKnown
<1>. QED
  BY <1>2, <1>3, <1>4, <1>5 DEF GameInv

\* A pane whose end is told before its start: it is marked.
LEMMA LateSafe ==
  ASSUME GameInv, NEW c \in Pane, Games!HostStartsLate(c)
  PROVE  GameInv'
<1>1. /\ call[c].pc = "queued" /\ pane' = [pane EXCEPT ![c] = "ended"] /\ Games!Tell(c, "ended")
      /\ overlapped' = overlapped \cup {c} /\ stale' \subseteq stale \cup {c}
      /\ call' = [call EXCEPT ![c].pc = "answered", ![c].answer = c]
      /\ UNCHANGED <<worker, open, saying, ring>>
  BY DEF Games!HostStartsLate
<1>2. pane[c] = "none"
  BY <1>1 DEF GameInv, CallsKnown
<1>3. /\ pane' \in [Pane -> {"none", "running", "ended"}] /\ pane'[c] = "ended"
      /\ \A p \in Pane : p # c => pane'[p] = pane[p]
  BY <1>1 DEF GameInv, GameTyped
<1>4. Unshared' \subseteq Unshared /\ c \notin Unshared'
  BY <1>1 DEF Unshared
<1>5. WiresKnown'
  <2>1. \A p \in Pane : (pane[p] # "none" => pane'[p] # "none") /\ (pane[p] = "ended" => pane'[p] = "ended")
    BY <1>3
  <2>. QED
    BY <1>1, <1>2, <1>3, <1>4, <2>1, TellKnown DEF GameInv
<1>6. Followers'
  <2>1. \A p \in Unshared' : pane'[p] = pane[p]
    BY <1>3, <1>4 DEF Unshared
  <2>. QED
    BY <1>1, <1>4, <2>1, TellFollowers
<1>7. PairsFollowed'
  <2>1. ASSUME NEW p \in Unshared' PROVE Follows(p)'
    <3>1. p \in Pane /\ Follows(p) /\ p # c
      BY <1>4, <2>1 DEF GameInv, PairsFollowed, Unshared
    <3>. QED
      BY <1>1, <1>3, <3>1, TellOthers
  <2>. QED
    BY <2>1 DEF PairsFollowed
<1>8. PICK r : /\ call' = [call EXCEPT ![c] = r] /\ r.pc = "answered"
               /\ r = [pc |-> r.pc, at |-> r.at, now |-> r.now, running |-> r.running, answer |-> r.answer]
  BY <1>1, CallAnswered
<1>9. /\ call' = [d \in Pane |-> [pc |-> call'[d].pc, at |-> call'[d].at, now |-> call'[d].now, running |-> call'[d].running,
                                  answer |-> call'[d].answer]]
      /\ call'[c] = r /\ \A d \in Pane : d # c => call'[d] = call[d]
  BY <1>8, CallSet DEF GameInv
<1>10. GameTyped'
  <2>1. wire' \in [Worker -> Seq(Sayings)]
    BY <1>1, TellIs DEF GameInv
  <2>2. UNCHANGED <<worker, open>>
    BY <1>1
  <2>. QED
    BY <1>3, <1>9, <2>1, <2>2 DEF GameInv, GameTyped
<1>11. FeedTyped'
  BY <1>1 DEF GameInv, FeedTyped
<1>12. CallsKnown'
  BY <1>1, <1>3, <1>8, <1>9 DEF GameInv, CallsKnown
<1>. QED
  BY <1>5, <1>6, <1>7, <1>10, <1>11, <1>12 DEF GameInv

\* A record that changes is copied before it is told.
LEMMA ResizesSafe ==
  ASSUME GameInv, NEW p \in Pane, Games!Resizes(p)
  PROVE  GameInv'
<1>1. pane[p] = "running" /\ stale' = stale \cup {p} /\ UNCHANGED <<call, pane, wire, worker, open, saying, ring, overlapped>>
  BY DEF Games!Resizes, Games!Running
<1>2. call' = [c \in Pane |-> [pc |-> call'[c].pc, at |-> call'[c].at, now |-> call'[c].now, running |-> call'[c].running,
                               answer |-> call'[c].answer]]
  BY <1>1 DEF GameInv, GameTyped
<1>3. CallsKnown'
  BY <1>1 DEF GameInv, CallsKnown
<1>. QED
  BY <1>1, <1>2, <1>3, OnlyCalls

\* A pane is said to run once more: whoever has its pair open passes over it, and a pane that has
\* ended by then is marked.
LEMMA SaysAgainSafe ==
  ASSUME GameInv, NEW q \in Pane, Games!SaysAgain(q)
  PROVE  GameInv'
<1>1. /\ q \in stale /\ stale' \subseteq stale /\ Games!Tell(q, "running")
      /\ UNCHANGED <<call, pane, worker, open, saying, ring>>
      /\ overlapped \subseteq overlapped' /\ (pane[q] = "running" \/ q \in overlapped')
  BY DEF Games!SaysAgain, Games!Running
<1>2. pane[q] # "none"
  BY <1>1 DEF GameInv, CallsKnown
<1>3. Unshared' \subseteq Unshared /\ (q \in Unshared' => pane[q] = "running")
  <2>1. q \in Unshared' => pane[q] = "running"
    BY <1>1 DEF Unshared
  <2>. QED
    BY <1>1, <2>1, UnsharedShrinks
<1>4. WiresKnown'
  BY <1>1, <1>2, <1>3, TellKnown DEF GameInv
<1>5. Followers'
  BY <1>1, <1>3, TellFollowers
<1>6. /\ wire' \in [Worker -> Seq(Sayings)]
      /\ \A w \in Worker, p \in Pane, s \in {"running", "ended"} :
           ToldOf(w, p, s)' <=> ToldOf(w, p, s) \/ (worker[w].linked /\ p = q /\ s = "running")
  BY <1>1, TellIs DEF GameInv
<1>7. Mints' = Mints /\ \A v \in Mints : v \in Worker
  BY <1>1 DEF Mints, Games!Minting, Games!Serving
<1>8. ASSUME q \in Unshared', Follows(q) PROVE Follows(q)'
  <2>1. pane[q] = "running" /\ pane'[q] = "running"
    BY <1>1, <1>3, <1>8
  <2>2. (NoFrames(q)' <=> NoFrames(q)) /\ (NoneSaid(q)' <=> NoneSaid(q)) /\ (NoneOpen(q)' <=> NoneOpen(q))
    BY <1>1 DEF NoFrames, NoneSaid, NoneOpen, SaidOf, Games!Of
  <2>3. \A w \in Worker : ToldOf(w, q, "ended")' <=> ToldOf(w, q, "ended")
    BY <1>6
  <2>4. ASSUME NEW m \in Worker, HeardBy(m, q), EndTold(m, q) PROVE HeardBy(m, q)' /\ EndTold(m, q)'
    <3>1. AloneIn(m)'
      BY <1>1, <1>7, <2>4 DEF HeardBy, AloneIn
    <3>2. ASSUME NEW v \in Mints, v # m PROVE NotTold(v, q)'
      <4>1. v \in Worker /\ ~worker[v].linked /\ NotTold(v, q)
        BY <1>7, <2>4, <3>2 DEF HeardBy, AloneIn, GameInv, Followers
      <4>. QED
        BY <1>6, <4>1 DEF NotTold
    <3>3. EndTold(m, q)'
      BY <2>1, <2>3, <2>4 DEF EndTold
    <3>. QED
      BY <1>7, <3>1, <3>2, <3>3 DEF HeardBy
  <2>5. Runs(q) \/ \E m \in Worker : StartTold(m, q) \/ StartSaid(m, q)
    BY <1>8, <2>1 DEF Follows, Unheard, PairMade, EndHeard, EndSaid
  <2>6. CASE Runs(q)
    <3>1. PICK i \in DOMAIN ring : OnlyStart(q, i) /\ \A v \in Mints : worker[v].pc = "inherited" => open[v][q] = ring[i].by
      BY <2>6 DEF Runs
    <3>2. i \in DOMAIN ring' /\ OnlyStart(q, i)' /\ \A v \in Mints' : worker'[v].pc = "inherited" => open'[v][q] = ring'[i].by
      BY <1>1, <1>7, <3>1 DEF OnlyStart, Games!Of
    <3>3. \A v \in Mints' : ~ToldOf(v, q, "ended")'
      BY <1>7, <2>3, <2>6 DEF Runs
    <3>4. Runs(q)'
      BY <2>1, <2>2, <2>6, <3>2, <3>3 DEF Runs
    <3>. QED
      BY <3>4 DEF Follows
  <2>7. ASSUME NEW m \in Worker, StartTold(m, q) PROVE StartTold(m, q)'
    <3>1. HeardBy(m, q)' /\ EndTold(m, q)' /\ ToldOf(m, q, "running")'
      BY <1>6, <2>4, <2>7 DEF StartTold
    <3>. QED
      BY <2>2, <2>7, <3>1 DEF StartTold
  <2>8. ASSUME NEW m \in Worker, StartSaid(m, q) PROVE StartSaid(m, q)'
    <3>1. HeardBy(m, q)' /\ EndTold(m, q)'
      BY <2>4, <2>8 DEF StartSaid
    <3>. QED
      BY <1>1, <2>2, <2>8, <3>1 DEF StartSaid, SaidOf, Games!Frame
  <2>. QED
    BY <2>5, <2>6, <2>7, <2>8 DEF Follows
<1>9. PairsFollowed'
  <2>1. ASSUME NEW p \in Unshared' PROVE Follows(p)'
    <3>1. p \in Pane /\ Follows(p)
      BY <1>3, <2>1 DEF GameInv, PairsFollowed, Unshared
    <3>2. CASE p # q
      BY <1>1, <3>1, <3>2, TellOthers
    <3>3. CASE p = q
      BY <1>8, <2>1, <3>1, <3>3
    <3>. QED
      BY <3>2, <3>3
  <2>. QED
    BY <2>1 DEF PairsFollowed
<1>10. GameTyped' /\ FeedTyped'
  BY <1>1, <1>6 DEF GameInv, GameTyped, FeedTyped
<1>11. CallsKnown'
  BY <1>1 DEF GameInv, CallsKnown
<1>. QED
  BY <1>4, <1>5, <1>9, <1>10, <1>11 DEF GameInv

\* What the requests' bookkeeping keeps of the rest, when nothing but the feed or what is open moves.
LEMMA CallBound ==
  ASSUME GameInv, NEW c \in Pane, call[c].pc \in {"created", "bound"},
         call' = [call EXCEPT ![c].pc = "done"] \/ call' = [call EXCEPT ![c].pc = "bound"], UNCHANGED <<pane, stale>>
  PROVE  /\ c \in Device /\ CallsKnown'
         /\ call' = [d \in Pane |-> [pc |-> call'[d].pc, at |-> call'[d].at, now |-> call'[d].now, running |-> call'[d].running,
                                     answer |-> call'[d].answer]]
<1>1. c \in Device
  BY DEF GameInv, CallsKnown
<1>2. PICK r : /\ call' = [call EXCEPT ![c] = r] /\ r.pc \in {"done", "bound"}
               /\ r = [pc |-> r.pc, at |-> r.at, now |-> r.now, running |-> r.running, answer |-> r.answer]
  BY CallGoesOn
<1>3. /\ call' = [d \in Pane |-> [pc |-> call'[d].pc, at |-> call'[d].at, now |-> call'[d].now, running |-> call'[d].running,
                                  answer |-> call'[d].answer]]
      /\ call'[c] = r /\ \A d \in Pane : d # c => call'[d] = call[d]
  BY <1>2, CallSet DEF GameInv
<1>4. CallsKnown'
  BY <1>1, <1>2, <1>3 DEF GameInv, CallsKnown
<1>. QED
  BY <1>1, <1>3, <1>4

LEMMA DeviceActionSafe ==
  ASSUME GameInv, NEW c \in Pane, Games!DeviceAction(c)
  PROVE  GameInv'
<1>1. /\ call[c].pc = "created" /\ call' = [call EXCEPT ![c].pc = "bound"]
      /\ open' = [open EXCEPT ![call[c].at][c] = c]
      /\ UNCHANGED <<pane, stale, wire, worker, saying, ring, overlapped>>
  BY DEF Games!DeviceAction
<1>2. /\ c \in Device /\ CallsKnown'
      /\ call' = [d \in Pane |-> [pc |-> call'[d].pc, at |-> call'[d].at, now |-> call'[d].now, running |-> call'[d].running,
                                  answer |-> call'[d].answer]]
  BY <1>1, CallBound
<1>3. /\ open' = [w \in Worker |-> [p \in Pane |-> open'[w][p]]]
      /\ \A w \in Worker : \A p \in Pane : p # c => open'[w][p] = open[w][p]
  <2>. DEFINE t == call[c].at
  <2>. DEFINE o == [open[t] EXCEPT ![c] = c]
  <2>1. open' = [open EXCEPT ![t] = o] /\ DOMAIN open = Worker /\ \A w \in Worker : open[w] = [p \in Pane |-> open[w][p]]
    BY <1>1 DEF GameInv, GameTyped
  <2>2. \A w \in Worker : open'[w] = IF w = t THEN o ELSE open[w]
    BY <2>1
  <2>3. t \in Worker => o = [p \in Pane |-> o[p]] /\ \A p \in Pane : p # c => o[p] = open[t][p]
    BY <2>1
  <2>. HIDE DEF t, o
  <2>4. \A w \in Worker : open'[w] = [p \in Pane |-> open'[w][p]] /\ \A p \in Pane : p # c => open'[w][p] = open[w][p]
    BY <2>1, <2>2, <2>3
  <2>5. open' = [w \in Worker |-> open'[w]]
    BY <2>1
  <2>. QED
    BY <2>4, <2>5
<1>4. GameTyped' /\ FeedTyped'
  BY <1>1, <1>2, <1>3 DEF GameInv, GameTyped, FeedTyped
<1>5. \A w, p, s : ToldOf(w, p, s)' <=> ToldOf(w, p, s)
  BY <1>1 DEF ToldOf
<1>7. Unshared' = Unshared /\ Mints' = Mints
  BY <1>1 DEF Unshared, Mints, Games!Minting, Games!Serving
<1>6. WiresKnown'
  BY <1>1, <1>5, <1>7 DEF GameInv, WiresKnown
<1>8. Followers'
  BY <1>1, <1>2, <1>3, <1>7 DEF GameInv, Followers
<1>9. ASSUME NEW p \in Pane, p # c, Follows(p) PROVE Follows(p)'
  <2>1. \A kind \in GameKinds : Games!Of(p, kind)' = Games!Of(p, kind)
    BY <1>1 DEF Games!Of
  <2>2. \A w \in Worker : (SaidOf(w, p)' <=> SaidOf(w, p)) /\ (SaidOf(w, p) => saying'[w] = saying[w])
    BY <1>1 DEF SaidOf
  <2>3. \A w \in Worker : open'[w][p] = open[w][p]
    BY <1>3, <1>9
  <2>. QED
    BY <1>1, <1>5, <1>7, <1>9, <2>1, <2>2, <2>3, FollowsStays
<1>10. PairsFollowed'
  <2>1. ASSUME NEW p \in Unshared' PROVE Follows(p)'
    BY <1>2, <1>7, <1>9, <2>1 DEF GameInv, PairsFollowed, Unshared
  <2>. QED
    BY <2>1 DEF PairsFollowed
<1>. QED
  BY <1>2, <1>4, <1>6, <1>8, <1>10 DEF GameInv

\* The feed with one more frame of those it may hold.
LEMMA RingTyped ==
  ASSUME NEW B, ring \in Seq(FramesBy(B)), NEW f \in FramesBy(B), ring' = Append(ring, f)
  PROVE  ring' \in Seq(FramesBy(B))
<1>. DEFINE S == FramesBy(B)
<1>1. ring \in Seq(S) /\ f \in S
  OBVIOUS
<1>. HIDE DEF S
<1>2. ring' \in Seq(S)
  BY <1>1
<1>. QED
  BY <1>2 DEF S

LEMMA DeviceStartedSafe ==
  ASSUME GameInv, NEW c \in Pane, Games!DeviceStarted(c)
  PROVE  GameInv'
<1>1. /\ call[c].pc = "bound" /\ call' = [call EXCEPT ![c].pc = "done"]
      /\ ring' = Append(ring, Games!Frame("started", c, c))
      /\ UNCHANGED <<pane, stale, wire, worker, saying, open, overlapped>>
  BY DEF Games!DeviceStarted
<1>2. /\ c \in Device /\ CallsKnown'
      /\ call' = [d \in Pane |-> [pc |-> call'[d].pc, at |-> call'[d].at, now |-> call'[d].now, running |-> call'[d].running,
                                  answer |-> call'[d].answer]]
  BY <1>1, CallBound
<1>. DEFINE f == Games!Frame("started", c, c)
<1>3. f.kind = "started" /\ f.pane = c /\ \A B : f \in FramesBy(B \cup {c})
  BY DEF Games!Frame, FramesBy, GameKinds
<1>. HIDE DEF f
<1>4. PICK n \in DOMAIN ring' :
         /\ n \notin DOMAIN ring /\ ring'[n] = f
         /\ \A i \in DOMAIN ring : i < n /\ i \in DOMAIN ring' /\ ring'[i] = ring[i]
         /\ \A p, kind : Games!Of(p, kind)' = Games!Of(p, kind) \cup {i \in {n} : f.pane = p /\ f.kind = kind}
  <2>1. FeedTyped /\ f.kind \in GameKinds /\ ring' = Append(ring, f)
    BY <1>1, <1>3 DEF GameInv, f, GameKinds
  <2>. QED
    BY <2>1, RingGrows
<1>5. FeedTyped'
  <2>1. PICK B : ring \in Seq(FramesBy(B)) /\ saying \in [Worker -> Seq(FramesBy(B))]
    BY DEF GameInv, FeedTyped
  <2>2. ring \in Seq(FramesBy(B \cup {c})) /\ \A w \in Worker : saying[w] \in Seq(FramesBy(B \cup {c}))
    BY <2>1, FramesWiden
  <2>3. ring' \in Seq(FramesBy(B \cup {c}))
    BY <1>1, <1>3, <2>2, RingTyped DEF f
  <2>4. saying' \in [Worker -> Seq(FramesBy(B \cup {c}))]
    BY <1>1, <2>1, <2>2
  <2>. QED
    BY <2>3, <2>4 DEF FeedTyped
<1>6. GameTyped'
  <2>1. UNCHANGED <<pane, stale, wire, worker, open>>
    BY <1>1
  <2>. QED
    BY <1>2, <2>1 DEF GameInv, GameTyped
<1>7. \A w, p, s : ToldOf(w, p, s)' <=> ToldOf(w, p, s)
  BY <1>1 DEF ToldOf
<1>9. Unshared' = Unshared /\ Mints' = Mints
  BY <1>1 DEF Unshared, Mints, Games!Minting, Games!Serving
<1>8. WiresKnown'
  BY <1>1, <1>7, <1>9 DEF GameInv, WiresKnown
<1>10. Followers'
  BY <1>1, <1>9 DEF GameInv, Followers
<1>11. ASSUME NEW p \in Pane, p # c, Follows(p) PROVE Follows(p)'
  <2>1. \A kind \in GameKinds : Games!Of(p, kind)' = Games!Of(p, kind)
    BY <1>3, <1>4, <1>11
  <2>2. \A w \in Worker : (SaidOf(w, p)' <=> SaidOf(w, p)) /\ (SaidOf(w, p) => saying'[w] = saying[w])
    BY <1>1 DEF SaidOf
  <2>. QED
    BY <1>1, <1>4, <1>7, <1>9, <1>11, <2>1, <2>2, FollowsStays
<1>12. PairsFollowed'
  <2>1. ASSUME NEW p \in Unshared' PROVE Follows(p)'
    BY <1>2, <1>9, <1>11, <2>1 DEF GameInv, PairsFollowed, Unshared
  <2>. QED
    BY <2>1 DEF PairsFollowed
<1>. QED
  BY <1>2, <1>5, <1>6, <1>8, <1>10, <1>12 DEF GameInv

\* Who has a frame to mint of a pane that is not shared has that one alone.
LEMMA OneToMint ==
  ASSUME GameInv, NEW p \in Unshared, NEW w \in Worker, SaidOf(w, p)
  PROVE  /\ StartSaid(w, p) \/ EndSaid(w, p)
         /\ Len(saying[w]) = 1 /\ saying[w][1].pane = p
<1>1. Follows(p)
  BY DEF GameInv, PairsFollowed
<1>2. PICK m \in Worker : StartSaid(m, p) \/ EndSaid(m, p)
  BY <1>1 DEF Follows, Unheard, Runs, PairMade, StartTold, EndHeard, NoneSaid
<1>3. m = w
  BY <1>2 DEF StartSaid, EndSaid
<1>4. \E f : saying[w] = <<f>> /\ f.pane = p
  <2>1. \A k, b : Games!Frame(k, p, b).pane = p
    BY DEF Games!Frame
  <2>. QED
    BY <1>2, <1>3, <2>1 DEF StartSaid, EndSaid
<1>. QED
  BY <1>2, <1>3, <1>4

\* What is left of a worker's frames once the first is minted.
LEMMA MintFrames ==
  ASSUME GameInv, NEW w \in Worker, Games!Mint(w)
  PROVE  /\ FeedTyped' /\ saying[w] # <<>> /\ 1 \in DOMAIN saying[w] /\ Head(saying[w]) = saying[w][1]
         /\ saying[w][1].kind \in GameKinds
         /\ \A v \in Worker : v # w => saying'[v] = saying[v]
         /\ \A p : SaidOf(w, p)' => \E i \in DOMAIN saying[w] : i # 1 /\ saying[w][i].pane = p
<1>1. /\ saying[w] # <<>> /\ ring' = Append(ring, Head(saying[w]))
      /\ saying' = [saying EXCEPT ![w] = Tail(saying[w])]
  BY DEF Games!Mint
<1>2. PICK B : ring \in Seq(FramesBy(B)) /\ saying \in [Worker -> Seq(FramesBy(B))]
  BY DEF GameInv, FeedTyped
<1>. DEFINE S == FramesBy(B)
<1>. DEFINE s == saying[w]
<1>3. s \in Seq(S) /\ s # <<>>
  BY <1>1, <1>2
<1>. HIDE DEF S, s
<1>4. /\ Tail(s) \in Seq(S) /\ Head(s) \in S /\ Head(s) = s[1] /\ 1 \in DOMAIN s
      /\ \A i \in DOMAIN Tail(s) : i \in Nat /\ i + 1 # 1 /\ i + 1 \in DOMAIN s /\ Tail(s)[i] = s[i + 1]
  BY <1>3, TailOf
<1>5. saying' \in [Worker -> Seq(S)] /\ saying'[w] = Tail(s) /\ \A v \in Worker : v # w => saying'[v] = saying[v]
  BY <1>1, <1>2, <1>4 DEF s, S
<1>6. ring' \in Seq(S)
  BY <1>1, <1>2, <1>4, RingTyped DEF s, S
<1>7. FeedTyped'
  BY <1>5, <1>6 DEF FeedTyped, S
<1>8. \A p : SaidOf(w, p)' => \E i \in DOMAIN s : i # 1 /\ s[i].pane = p
  BY <1>4, <1>5 DEF SaidOf
<1>9. s[1].kind \in GameKinds
  BY <1>4 DEF S, FramesBy
<1>. QED
  BY <1>3, <1>4, <1>5, <1>7, <1>8, <1>9 DEF s

LEMMA MintSafe ==
  ASSUME GameInv, NEW w \in Worker, Games!Mint(w)
  PROVE  GameInv'
<1>1. /\ saying[w] # <<>> /\ ring' = Append(ring, Head(saying[w]))
      /\ UNCHANGED <<call, pane, stale, wire, worker, open, overlapped>>
  BY DEF Games!Mint
<1>2. /\ FeedTyped' /\ 1 \in DOMAIN saying[w] /\ Head(saying[w]) = saying[w][1] /\ saying[w][1].kind \in GameKinds
      /\ \A v \in Worker : v # w => saying'[v] = saying[v]
      /\ \A p : SaidOf(w, p)' => \E i \in DOMAIN saying[w] : i # 1 /\ saying[w][i].pane = p
  BY MintFrames
<1>0. PICK f, q : f = saying[w][1] /\ q = f.pane
  OBVIOUS
<1>3. SaidOf(w, q)
  BY <1>0, <1>2 DEF SaidOf
<1>4. PICK n \in DOMAIN ring' :
         /\ n \notin DOMAIN ring /\ ring'[n] = f
         /\ \A i \in DOMAIN ring : i < n /\ i \in DOMAIN ring' /\ ring'[i] = ring[i]
         /\ \A p, kind : Games!Of(p, kind)' = Games!Of(p, kind) \cup {i \in {n} : q = p /\ f.kind = kind}
  <2>1. FeedTyped /\ f.kind \in GameKinds /\ ring' = Append(ring, f)
    BY <1>0, <1>1, <1>2 DEF GameInv
  <2>. QED
    BY <1>0, <2>1, RingGrows
<1>5. GameTyped'
  BY <1>1 DEF GameInv, GameTyped
<1>6. \A v, p, s : ToldOf(v, p, s)' <=> ToldOf(v, p, s)
  BY <1>1 DEF ToldOf
<1>8. Unshared' = Unshared /\ Mints' = Mints
  BY <1>1 DEF Unshared, Mints, Games!Minting, Games!Serving
<1>7. WiresKnown'
  BY <1>1, <1>6, <1>8 DEF GameInv, WiresKnown
<1>9. CallsKnown'
  BY <1>1 DEF GameInv, CallsKnown
<1>10. worker[w].pc = "inherited"
  BY <1>1 DEF GameInv, Followers
<1>11. Followers'
  BY <1>1, <1>2, <1>8, <1>10 DEF GameInv, Followers
<1>12. ASSUME NEW p \in Unshared, p # q PROVE Follows(p)'
  <2>1. p \in Pane /\ Follows(p)
    BY <1>12 DEF GameInv, PairsFollowed, Unshared
  <2>2. \A kind \in GameKinds : Games!Of(p, kind)' = Games!Of(p, kind)
    BY <1>4, <1>12
  <2>3. ~SaidOf(w, p) /\ ~SaidOf(w, p)'
    <3>1. ~SaidOf(w, p)
      BY <1>0, <1>12, OneToMint
    <3>. QED
      BY <1>2, <3>1 DEF SaidOf
  <2>4. \A v \in Worker : (SaidOf(v, p)' <=> SaidOf(v, p)) /\ (SaidOf(v, p) => saying'[v] = saying[v])
    <3>1. \A v \in Worker : v # w => (SaidOf(v, p)' <=> SaidOf(v, p)) /\ saying'[v] = saying[v]
      BY <1>2 DEF SaidOf
    <3>. QED
      BY <2>3, <3>1
  <2>. QED
    BY <1>1, <1>4, <1>6, <1>8, <2>1, <2>2, <2>4, FollowsStays
<1>13. ASSUME q \in Unshared PROVE Follows(q)'
  <2>1. q \in Pane /\ (StartSaid(w, q) \/ EndSaid(w, q)) /\ Len(saying[w]) = 1
    BY <1>3, <1>13, OneToMint DEF Unshared
  <2>2. DOMAIN saying[w] = {1}
    <3>1. PICK B : saying[w] \in Seq(FramesBy(B))
      BY DEF GameInv, FeedTyped
    <3>. QED
      BY <2>1, <3>1
  <2>3. NoneSaid(q)'
    <3>1. ~SaidOf(w, q)'
      BY <1>2, <2>2
    <3>2. \A v \in Worker : v # w => ~SaidOf(v, q)'
      BY <1>2, <2>1 DEF StartSaid, EndSaid, SaidOf
    <3>. QED
      BY <3>1, <3>2 DEF NoneSaid
  <2>4. AloneIn(w) /\ \A v \in Mints : v # w => NotTold(v, q) /\ worker[v].pc # "inherited" /\ open[v][q] = None
    BY <1>13, <2>1, MintsAre DEF StartSaid, EndSaid, HeardBy, AloneIn, GameInv, Followers, Unshared
  <2>5. w \in Mints /\ AloneIn(w)' /\ HeardBy(w, q)'
    BY <1>1, <1>6, <1>8, <2>4 DEF AloneIn, HeardBy, NotTold
  <2>6. CASE StartSaid(w, q)
    <3>1. f.kind = "started" /\ f.by = open[w][q] /\ f.by # None /\ NoFrames(q)
      <4>1. open[w][q] # None /\ saying[w] = <<Games!Frame("started", q, open[w][q])>> /\ NoFrames(q)
        BY <2>6 DEF StartSaid
      <4>2. f = Games!Frame("started", q, open[w][q])
        <5>1. saying[w][1] = Games!Frame("started", q, open[w][q])
          BY <4>1
        <5>. QED
          BY <1>0, <5>1
      <4>. QED
        BY <4>1, <4>2 DEF Games!Frame
    <3>2. OnlyStart(q, n)' /\ ring'[n].by = open'[w][q]
      BY <1>1, <1>4, <3>1 DEF OnlyStart, NoFrames
    <3>3. CASE pane[q] = "running"
      <4>1. ~ToldOf(w, q, "ended")
        BY <2>6, <3>3 DEF StartSaid, EndTold
      <4>2. \A v \in Mints' : ~ToldOf(v, q, "ended")'
        BY <1>6, <1>8, <2>4, <4>1 DEF NotTold
      <4>3. \A v \in Mints' : worker'[v].pc = "inherited" => open'[v][q] = ring'[n].by
        BY <1>1, <1>8, <2>4, <3>2
      <4>4. Runs(q)'
        BY <1>1, <2>3, <3>2, <3>3, <4>2, <4>3 DEF Runs
      <4>. QED
        BY <4>4 DEF Follows
    <3>4. CASE pane[q] # "running"
      <4>1. pane'[q] = "ended" /\ ToldOf(w, q, "ended")'
        BY <1>1, <1>6, <2>6, <3>4 DEF StartSaid, EndTold
      <4>2. EndHeard(w, q)'
        BY <2>3, <2>5, <3>2, <4>1 DEF EndHeard
      <4>. QED
        BY <4>2 DEF Follows
    <3>. QED
      BY <3>3, <3>4
  <2>7. CASE EndSaid(w, q)
    <3>1. PICK i \in DOMAIN ring : OnlyStart(q, i) /\ saying[w] = <<Games!Frame("ended", q, ring[i].by)>>
      BY <2>7 DEF EndSaid
    <3>2. f.kind = "ended" /\ f.by = ring[i].by
      BY <1>0, <3>1 DEF Games!Frame
    <3>3. /\ Games!Of(q, "started")' = {i} /\ Games!Of(q, "ended")' = {n} /\ i < n
          /\ i \in DOMAIN ring' /\ ring'[i].by = ring'[n].by
      BY <1>4, <3>1, <3>2 DEF OnlyStart
    <3>4. \A v \in Mints' : NotTold(v, q)' /\ open'[v][q] = None
      BY <1>1, <1>6, <1>8, <2>4, <2>7 DEF EndSaid, NotTold
    <3>5. pane'[q] = "ended"
      BY <1>1, <2>7 DEF EndSaid
    <3>6. PairMade(q)'
      BY <2>3, <3>3, <3>4, <3>5 DEF PairMade
    <3>. QED
      BY <3>6 DEF Follows
  <2>. QED
    BY <2>1, <2>6, <2>7
<1>14. PairsFollowed'
  BY <1>8, <1>12, <1>13 DEF PairsFollowed
<1>. QED
  BY <1>2, <1>5, <1>7, <1>9, <1>11, <1>14 DEF GameInv

\* A worker that says something more, or nothing.
LEMMA SayingTyped ==
  ASSUME FeedTyped, ring' = ring, NEW w \in Worker,
         saying' = saying \/ \E k \in GameKinds, p \in Pane : \E b : saying' = [saying EXCEPT ![w] = <<Games!Frame(k, p, b)>>]
  PROVE  FeedTyped'
<1>1. PICK B : ring \in Seq(FramesBy(B)) /\ saying \in [Worker -> Seq(FramesBy(B))]
  BY DEF FeedTyped
<1>2. CASE saying' = saying
  BY <1>2 DEF FeedTyped
<1>3. ASSUME NEW k \in GameKinds, NEW p \in Pane, NEW b, saying' = [saying EXCEPT ![w] = <<Games!Frame(k, p, b)>>]
      PROVE  FeedTyped'
  <2>1. ring \in Seq(FramesBy(B \cup {b})) /\ \A v \in Worker : saying[v] \in Seq(FramesBy(B \cup {b}))
    BY <1>1, FramesWiden
  <2>. DEFINE f == Games!Frame(k, p, b)
  <2>. DEFINE S == FramesBy(B \cup {b})
  <2>2. f \in S
    BY DEF Games!Frame, FramesBy
  <2>3. saying' = [saying EXCEPT ![w] = <<f>>]
    BY <1>3
  <2>4. ring' \in Seq(S) /\ \A v \in Worker : saying[v] \in Seq(S)
    BY <2>1
  <2>. HIDE DEF f, S
  <2>5. <<f>> \in Seq(S)
    BY <2>2
  <2>6. saying' \in [Worker -> Seq(S)]
    BY <1>1, <2>3, <2>4, <2>5
  <2>. QED
    BY <2>4, <2>6 DEF FeedTyped, S
<1>. QED
  BY <1>2, <1>3

\* What a worker makes of the announcement it reads.
LEMMA Heard ==
  ASSUME GameInv, NEW w \in Worker, Games!Hear(w)
  PROVE  \E q \in Pane, s \in {"running", "ended"} :
         /\ Head(wire[w]) = <<q, s>> /\ wire[w] # <<>> /\ saying[w] = <<>> /\ wire' = [wire EXCEPT ![w] = Tail(wire[w])]
         /\ UNCHANGED <<call, pane, stale, worker, ring, overlapped>>
         /\ open' = [v \in Worker |-> [p \in Pane |-> open'[v][p]]]
         /\ \A v \in Worker, p \in Pane : v # w \/ p # q => open'[v][p] = open[v][p]
         /\ \A v \in Worker : v # w => saying'[v] = saying[v]
         /\ \/ /\ ~worker[w].retired /\ s = "running" /\ open[w][q] = None
               /\ open'[w][q] # None /\ saying' = [saying EXCEPT ![w] = <<Games!Frame("started", q, open'[w][q])>>]
            \/ /\ ~worker[w].retired /\ s = "ended" /\ open[w][q] # None
               /\ open'[w][q] = None /\ saying' = [saying EXCEPT ![w] = <<Games!Frame("ended", q, open[w][q])>>]
            \/ /\ worker[w].retired \/ (~(s = "running" /\ open[w][q] = None /\ q \notin Device)
                                        /\ ~(s = "ended" /\ open[w][q] # None))
               /\ open'[w][q] = open[w][q] /\ saying' = saying
<1>1. wire[w] \in Seq(Sayings) /\ wire[w] # <<>>
  BY DEF Games!Hear, GameInv, GameTyped
<1>2. Head(wire[w]) \in Sayings
  <2>. DEFINE x == wire[w]
  <2>1. x \in Seq(Sayings) /\ x # <<>>
    BY <1>1
  <2>. HIDE DEF x
  <2>2. Head(x) \in Sayings
    BY <2>1, TailOf
  <2>. QED
    BY <2>2 DEF x
<1>3. PICK q \in Pane, s \in {"running", "ended"} : Head(wire[w]) = <<q, s>>
  BY <1>2 DEF Sayings
<1>4. Head(wire[w])[1] = q /\ Head(wire[w])[2] = s
  BY <1>3
<1>5. DOMAIN open = Worker /\ \A v \in Worker : open[v] = [p \in Pane |-> open[v][p]]
  BY DEF GameInv, GameTyped
<1>6. ASSUME NEW b, open' = [open EXCEPT ![w][q] = b]
      PROVE  /\ open' = [v \in Worker |-> [p \in Pane |-> open'[v][p]]] /\ open'[w][q] = b
             /\ \A v \in Worker, p \in Pane : v # w \/ p # q => open'[v][p] = open[v][p]
  <2>. DEFINE o == [open[w] EXCEPT ![q] = b]
  <2>1. open' = [open EXCEPT ![w] = o]
    BY <1>6
  <2>2. o = [p \in Pane |-> o[p]] /\ o[q] = b /\ \A p \in Pane : p # q => o[p] = open[w][p]
    BY <1>5
  <2>. HIDE DEF o
  <2>3. \A v \in Worker : open'[v] = IF v = w THEN o ELSE open[v]
    BY <1>5, <2>1
  <2>4. \A v \in Worker : open'[v] = [p \in Pane |-> open'[v][p]]
    BY <1>5, <2>2, <2>3
  <2>5. open' = [v \in Worker |-> open'[v]]
    BY <1>5, <2>1
  <2>. QED
    BY <2>2, <2>3, <2>4, <2>5
<1>7. /\ wire' = [wire EXCEPT ![w] = Tail(wire[w])] /\ saying[w] = <<>> /\ UNCHANGED <<call, pane, stale, worker, ring, overlapped>>
  BY DEF Games!Hear
<1>8. open = [v \in Worker |-> [p \in Pane |-> open[v][p]]]
  BY DEF GameInv, GameTyped
<1>9. \/ \E b : /\ ~worker[w].retired /\ s = "running" /\ open[w][q] = None /\ b # None
                /\ open' = [open EXCEPT ![w][q] = b]
                /\ saying' = [saying EXCEPT ![w] = <<Games!Frame("started", q, open'[w][q])>>]
      \/ /\ ~worker[w].retired /\ s = "ended" /\ open[w][q] # None
         /\ open' = [open EXCEPT ![w][q] = None]
         /\ saying' = [saying EXCEPT ![w] = <<Games!Frame("ended", q, open[w][q])>>]
      \/ /\ worker[w].retired \/ (~(s = "running" /\ open[w][q] = None /\ q \notin Device)
                                  /\ ~(s = "ended" /\ open[w][q] # None))
         /\ open' = open /\ saying' = saying
  <2>1. None # "workspace"
    BY WorkspaceConstants
  <2>. QED
    BY <1>4, <2>1 DEF Games!Hear, Games!Heeds, Games!Starts, Games!Ends
<1>10. CASE \E b : /\ ~worker[w].retired /\ s = "running" /\ open[w][q] = None /\ b # None
                   /\ open' = [open EXCEPT ![w][q] = b]
                   /\ saying' = [saying EXCEPT ![w] = <<Games!Frame("started", q, open'[w][q])>>]
  <2>1. PICK b : /\ ~worker[w].retired /\ s = "running" /\ open[w][q] = None /\ b # None
                 /\ open' = [open EXCEPT ![w][q] = b]
                 /\ saying' = [saying EXCEPT ![w] = <<Games!Frame("started", q, open'[w][q])>>]
    BY <1>10
  <2>2. \A v \in Worker : v # w => saying'[v] = saying[v]
    BY <2>1 DEF GameInv, FeedTyped
  <2>. QED
    BY <1>1, <1>3, <1>6, <1>7, <2>1, <2>2
<1>11. CASE /\ ~worker[w].retired /\ s = "ended" /\ open[w][q] # None
            /\ open' = [open EXCEPT ![w][q] = None]
            /\ saying' = [saying EXCEPT ![w] = <<Games!Frame("ended", q, open[w][q])>>]
  <2>1. \A v \in Worker : v # w => saying'[v] = saying[v]
    BY <1>11 DEF GameInv, FeedTyped
  <2>. QED
    BY <1>1, <1>3, <1>6, <1>7, <1>11, <2>1
<1>12. CASE /\ worker[w].retired \/ (~(s = "running" /\ open[w][q] = None /\ q \notin Device)
                                     /\ ~(s = "ended" /\ open[w][q] # None))
            /\ open' = open /\ saying' = saying
  BY <1>1, <1>3, <1>7, <1>8, <1>12
<1>. QED
  BY <1>9, <1>10, <1>11, <1>12

LEMMA HearSafe ==
  ASSUME GameInv, NEW w \in Worker, Games!Hear(w)
  PROVE  GameInv'
<1>1. PICK q \in Pane, s \in {"running", "ended"} :
         /\ Head(wire[w]) = <<q, s>> /\ wire[w] # <<>> /\ saying[w] = <<>> /\ wire' = [wire EXCEPT ![w] = Tail(wire[w])]
         /\ UNCHANGED <<call, pane, stale, worker, ring, overlapped>>
         /\ open' = [v \in Worker |-> [p \in Pane |-> open'[v][p]]]
         /\ \A v \in Worker, p \in Pane : v # w \/ p # q => open'[v][p] = open[v][p]
         /\ \A v \in Worker : v # w => saying'[v] = saying[v]
         /\ \/ /\ ~worker[w].retired /\ s = "running" /\ open[w][q] = None
               /\ open'[w][q] # None /\ saying' = [saying EXCEPT ![w] = <<Games!Frame("started", q, open'[w][q])>>]
            \/ /\ ~worker[w].retired /\ s = "ended" /\ open[w][q] # None
               /\ open'[w][q] = None /\ saying' = [saying EXCEPT ![w] = <<Games!Frame("ended", q, open[w][q])>>]
            \/ /\ worker[w].retired \/ (~(s = "running" /\ open[w][q] = None /\ q \notin Device)
                                        /\ ~(s = "ended" /\ open[w][q] # None))
               /\ open'[w][q] = open[w][q] /\ saying' = saying
  BY Heard
<1>2. UNCHANGED <<call, pane, stale, worker, ring, overlapped>>
  BY <1>1
<1>3. /\ wire' \in [Worker -> Seq(Sayings)] /\ WiresKnown'
      /\ Head(wire[w]) = wire[w][1] /\ 1 \in DOMAIN wire[w]
      /\ \A v \in Worker : v # w => wire'[v] = wire[v]
      /\ \A v \in Worker : \A p, t : ToldOf(v, p, t)' => ToldOf(v, p, t)
      /\ \A v \in Worker : \A p, t : ToldOf(v, p, t) /\ (v # w \/ Head(wire[w]) # <<p, t>>) => ToldOf(v, p, t)'
      /\ \A p \in Pane : Head(wire[w]) = <<p, "ended">> =>
           ~ToldOf(w, p, "ended")' /\ (p \in Unshared => ~ToldOf(w, p, "running")')
  <2>1. UNCHANGED <<pane, overlapped>>
    BY <1>2
  <2>. QED
    BY <1>1, <2>1, WireRead DEF GameInv
<1>4. \A v \in Worker : \A p, t : ToldOf(v, p, t)' => ToldOf(v, p, t)
  BY <1>3
<1>5. /\ ToldOf(w, q, s)
      /\ s = "ended" => ~ToldOf(w, q, "ended")' /\ (q \in Unshared => ~ToldOf(w, q, "running")')
      /\ \A v \in Worker : \A p \in Pane, t \in {"running", "ended"} :
           v # w \/ p # q \/ t # s => (ToldOf(v, p, t)' <=> ToldOf(v, p, t))
  <2>1. ToldOf(w, q, s)
    BY <1>1, <1>3 DEF ToldOf
  <2>2. \A p, t : <<q, s>> = <<p, t>> <=> q = p /\ s = t
    OBVIOUS
  <2>3. \A v \in Worker : \A p \in Pane, t \in {"running", "ended"} :
           v # w \/ p # q \/ t # s => (ToldOf(v, p, t)' <=> ToldOf(v, p, t))
    BY <1>1, <1>3, <2>2
  <2>4. s = "ended" => ~ToldOf(w, q, "ended")' /\ (q \in Unshared => ~ToldOf(w, q, "running")')
    BY <1>1, <1>3
  <2>. QED
    BY <2>1, <2>3, <2>4
<1>6. worker[w].linked /\ worker[w].pc = "inherited"
  BY <1>1 DEF GameInv, Followers
<1>7. Unshared' = Unshared /\ Mints' = Mints
  BY <1>2 DEF Unshared, Mints, Games!Minting, Games!Serving
<1>8. DOMAIN saying = Worker
  BY DEF GameInv, FeedTyped
<1>9. FeedTyped'
  <2>1. saying' = saying \/ \E k \in GameKinds, p \in Pane : \E b : saying' = [saying EXCEPT ![w] = <<Games!Frame(k, p, b)>>]
    BY <1>1 DEF GameKinds
  <2>2. FeedTyped /\ ring' = ring
    BY <1>2 DEF GameInv
  <2>. QED
    BY <2>1, <2>2, SayingTyped
<1>10. GameTyped'
  <2>1. open' = [v \in Worker |-> [p \in Pane |-> open'[v][p]]]
    BY <1>1
  <2>. QED
    BY <1>2, <1>3, <2>1 DEF GameInv, GameTyped
<1>11. CallsKnown'
  BY <1>2 DEF GameInv, CallsKnown
<1>12. Followers'
  <2>1. \A v \in Worker : ~worker'[v].linked => wire'[v] = <<>>
    BY <1>2, <1>3, <1>6 DEF GameInv, Followers
  <2>2. \A v \in Worker : worker'[v].pc # "inherited" => saying'[v] = <<>> /\ \A p \in Pane \ Device : open'[v][p] = None
    BY <1>1, <1>2, <1>6 DEF GameInv, Followers
  <2>. QED
    BY <1>2, <1>7, <2>1, <2>2 DEF GameInv, Followers
<1>13. ASSUME NEW p \in Pane, Follows(p), \A v \in Worker : open'[v][p] = open[v][p], p # q \/ saying' = saying,
              p # q \/ w \notin Mints
       PROVE  Follows(p)'
  <2>1. \A kind \in GameKinds : Games!Of(p, kind)' = Games!Of(p, kind)
    BY <1>2 DEF Games!Of
  <2>2. \A v \in Worker : (SaidOf(v, p)' <=> SaidOf(v, p)) /\ (SaidOf(v, p) => saying'[v] = saying[v])
    <3>1. CASE saying' = saying
      BY <3>1 DEF SaidOf
    <3>2. CASE p # q /\ saying' # saying
      <4>1. \E f : saying'[w] = <<f>> /\ f.pane = q
        <5>1. \A k, b : Games!Frame(k, q, b).pane = q
          BY DEF Games!Frame
        <5>. QED
          BY <1>1, <1>8, <3>2, <5>1
      <4>2. ~SaidOf(w, p) /\ ~SaidOf(w, p)'
        BY <1>1, <3>2, <4>1 DEF SaidOf
      <4>3. \A v \in Worker : v # w => (SaidOf(v, p)' <=> SaidOf(v, p)) /\ saying'[v] = saying[v]
        BY <1>1 DEF SaidOf
      <4>. QED
        BY <4>2, <4>3
    <3>. QED
      BY <1>13, <3>1, <3>2
  <2>3. \A v \in Worker : \A state \in {"running", "ended"} : ToldOf(v, p, state)' => ToldOf(v, p, state)
    BY <1>4
  <2>4. \A v \in Mints : \A state \in {"running", "ended"} : v \in Mints' /\ ToldOf(v, p, state) => ToldOf(v, p, state)'
    <3>1. \A v \in Mints : v \in Worker /\ (v # w \/ p # q)
      BY <1>13, MintsAre
    <3>. QED
      BY <1>5, <3>1
  <2>. QED
    BY <1>2, <1>7, <1>13, <2>1, <2>2, <2>3, <2>4, FollowsStays
<1>14. ASSUME q \in Unshared, w \in Mints PROVE Follows(q)'
  <2>1. Follows(q) /\ ~NotTold(w, q) /\ ~worker[w].retired /\ q \notin Device
    BY <1>5, <1>14, MintsAre DEF GameInv, PairsFollowed, NotTold, Unshared
  <2>2. Runs(q) \/ StartTold(w, q) \/ EndHeard(w, q)
    <3>. SUFFICES ASSUME ~Runs(q) PROVE StartTold(w, q) \/ EndHeard(w, q)
      OBVIOUS
    <3>1. \/ \E m \in Worker : StartTold(m, q) \/ StartSaid(m, q) \/ EndHeard(m, q) \/ EndSaid(m, q)
      BY <1>14, <2>1 DEF Follows, Unheard, PairMade
    <3>2. PICK m \in Worker : StartTold(m, q) \/ StartSaid(m, q) \/ EndHeard(m, q) \/ EndSaid(m, q)
      BY <3>1
    <3>3. m = w
      BY <1>14, <2>1, <3>2 DEF StartTold, StartSaid, EndHeard, EndSaid, HeardBy
    <3>4. saying[w] = <<>>
      BY <1>1
    <3>5. ~StartSaid(w, q)
      BY <3>4 DEF StartSaid
    <3>6. ~EndSaid(w, q)
      BY <2>1 DEF EndSaid
    <3>. QED
      BY <3>2, <3>3, <3>5, <3>6
  <2>3. /\ NoFrames(q)' <=> NoFrames(q)
        /\ \A v \in Worker : v # w => (SaidOf(v, q)' <=> SaidOf(v, q)) /\ open'[v][q] = open[v][q]
    BY <1>1, <1>2 DEF NoFrames, SaidOf, Games!Of
  <2>4. ASSUME HeardBy(w, q) PROVE HeardBy(w, q)'
    <3>1. HeardBy(w, q)
      BY <2>4
    <3>2. \A v \in Mints' : v # w => v \in Worker /\ NotTold(v, q)'
      BY <1>5, <1>7, <3>1, MintsAre DEF HeardBy, NotTold
    <3>3. AloneIn(w)'
      BY <1>2, <1>7, <3>1 DEF HeardBy, AloneIn
    <3>. QED
      BY <3>2, <3>3 DEF HeardBy
  <2>5. CASE StartTold(w, q)
    <3>1. ToldOf(w, q, "running") /\ open[w][q] = None /\ NoFrames(q) /\ NoneSaid(q) /\ NoneOpen(q) /\ EndTold(w, q)
      BY <2>5 DEF StartTold, NoneOpen
    <3>2. s = "running"
      <4>1. ASSUME s = "ended" PROVE FALSE
        <5>1. wire[w][1] = <<q, "ended">>
          BY <1>1, <1>3, <4>1
        <5>2. PICK i \in DOMAIN wire[w] : wire[w][i] = <<q, "running">>
          BY <3>1 DEF ToldOf
        <5>3. i < 1
          BY <1>3, <1>14, <5>1, <5>2 DEF GameInv, WiresKnown
        <5>4. i \in Nat /\ i >= 1
          <6>1. wire[w] \in Seq(Sayings)
            BY DEF GameInv, GameTyped
          <6>. QED
            BY <5>2, <6>1
        <5>. QED
          BY <5>3, <5>4
      <4>. QED
        BY <4>1
    <3>3. open'[w][q] # None /\ saying' = [saying EXCEPT ![w] = <<Games!Frame("started", q, open'[w][q])>>]
      BY <1>1, <2>1, <3>1, <3>2
    <3>4. saying'[w] = <<Games!Frame("started", q, open'[w][q])>>
      BY <1>8, <3>3
    <3>5. ToldOf(w, q, "ended")' <=> ToldOf(w, q, "ended")
      BY <1>5, <3>2
    <3>6. EndTold(w, q)'
      BY <1>2, <3>1, <3>5 DEF EndTold
    <3>7. \A v \in Worker : v # w => ~SaidOf(v, q)' /\ open'[v][q] = None
      BY <2>3, <3>1 DEF NoneSaid, NoneOpen
    <3>8. Games!Frame("started", q, open'[w][q]) = Games!Frame("started", q, open[w][q])'
      BY DEF Games!Frame
    <3>9. StartSaid(w, q)'
      BY <2>3, <2>4, <2>5, <3>1, <3>3, <3>4, <3>6, <3>7, <3>8 DEF StartSaid, StartTold
    <3>. QED
      BY <3>9 DEF Follows
  <2>6. CASE EndHeard(w, q) /\ s = "running"
    <3>1. PICK i \in DOMAIN ring : OnlyStart(q, i) /\ open[w][q] = ring[i].by
      BY <2>6 DEF EndHeard
    <3>2. open[w][q] # None
      BY <3>1 DEF OnlyStart
    <3>3. open'[w][q] = open[w][q] /\ saying' = saying
      BY <1>1, <2>6, <3>2
    <3>4. i \in DOMAIN ring' /\ OnlyStart(q, i)' /\ open'[w][q] = ring'[i].by
      BY <1>2, <3>1, <3>3 DEF OnlyStart, Games!Of
    <3>5. NoneSaid(q)' /\ ToldOf(w, q, "ended")' /\ pane'[q] = "ended"
      BY <1>2, <1>5, <2>6, <3>3 DEF EndHeard, NoneSaid, SaidOf
    <3>6. EndHeard(w, q)'
      BY <2>4, <2>6, <3>4, <3>5 DEF EndHeard
    <3>. QED
      BY <3>6 DEF Follows
  <2>7. CASE Runs(q)
    <3>1. PICK i \in DOMAIN ring : OnlyStart(q, i) /\ \A v \in Mints : worker[v].pc = "inherited" => open[v][q] = ring[i].by
      BY <2>7 DEF Runs
    <3>2. open[w][q] # None /\ s = "running"
      BY <1>5, <1>6, <1>14, <2>7, <3>1 DEF OnlyStart, Runs
    <3>3. open'[w][q] = open[w][q] /\ saying' = saying
      BY <1>1, <3>2
    <3>4. i \in DOMAIN ring' /\ OnlyStart(q, i)' /\ ring'[i] = ring[i]
      BY <1>2, <3>1 DEF OnlyStart, Games!Of
    <3>5. \A v \in Mints' : worker'[v].pc = "inherited" => open'[v][q] = ring'[i].by
      <4>1. \A v \in Mints : v \in Worker
        BY MintsAre
      <4>. QED
        BY <1>1, <1>2, <1>7, <3>1, <3>3, <3>4, <4>1
    <3>6. pane'[q] = "running" /\ NoneSaid(q)' /\ \A v \in Mints' : ~ToldOf(v, q, "ended")'
      <4>1. \A v \in Mints : v \in Worker
        BY MintsAre
      <4>. QED
        BY <1>2, <1>4, <1>7, <2>7, <3>3, <4>1 DEF Runs, NoneSaid, SaidOf
    <3>7. Runs(q)'
      BY <3>4, <3>5, <3>6 DEF Runs
    <3>. QED
      BY <3>7 DEF Follows
  <2>8. CASE EndHeard(w, q) /\ s = "ended"
    <3>1. PICK i \in DOMAIN ring : OnlyStart(q, i) /\ open[w][q] = ring[i].by
      BY <2>8 DEF EndHeard
    <3>2. s = "ended" /\ open[w][q] # None
      BY <2>8, <3>1 DEF OnlyStart
    <3>3. open'[w][q] = None /\ saying' = [saying EXCEPT ![w] = <<Games!Frame("ended", q, open[w][q])>>]
      BY <1>1, <2>1, <3>2
    <3>4. saying'[w] = <<Games!Frame("ended", q, ring[i].by)>>
      BY <1>8, <3>1, <3>3
    <3>5. NotTold(w, q)'
      BY <1>5, <1>14, <3>2 DEF NotTold
    <3>6. \A v \in Worker : v # w => ~SaidOf(v, q)'
      BY <2>3, <2>8 DEF EndHeard, NoneSaid
    <3>7. i \in DOMAIN ring' /\ OnlyStart(q, i)' /\ saying'[w] = <<Games!Frame("ended", q, ring'[i].by)>>
      BY <1>2, <3>1, <3>4 DEF OnlyStart, Games!Of
    <3>8. Games!Frame("ended", q, ring'[i].by) = Games!Frame("ended", q, ring[i].by)'
      BY DEF Games!Frame
    <3>9. pane'[q] = "ended"
      BY <1>2, <2>8 DEF EndHeard
    <3>10. EndSaid(w, q)'
      BY <2>4, <2>8, <3>3, <3>5, <3>6, <3>7, <3>8, <3>9 DEF EndSaid, EndHeard
    <3>. QED
      BY <3>10 DEF Follows
  <2>. QED
    BY <2>2, <2>5, <2>6, <2>7, <2>8
<1>15. PairsFollowed'
  <2>1. ASSUME NEW p \in Unshared' PROVE Follows(p)'
    <3>1. p \in Pane /\ p \in Unshared /\ Follows(p)
      BY <1>7, <2>1 DEF GameInv, PairsFollowed, Unshared
    <3>2. CASE p # q
      BY <1>1, <1>13, <3>1, <3>2
    <3>3. CASE p = q /\ w \in Mints
      BY <1>14, <3>1, <3>3
    <3>4. CASE p = q /\ w \notin Mints
      <4>1. worker[w].retired
        BY <1>6, <3>4, MintsAre
      <4>. QED
        BY <1>1, <1>13, <3>1, <3>4, <4>1
    <3>. QED
      BY <3>2, <3>3, <3>4
  <2>. QED
    BY <2>1 DEF PairsFollowed
<1>. QED
  BY <1>3, <1>9, <1>10, <1>11, <1>12, <1>15 DEF GameInv

\* A worker goes on, and what it has not read or minted stays or belongs to panes that join those
\* that were shared.
LEMMA WorkerMoves ==
  ASSUME GameInv, NEW w \in Worker, UNCHANGED <<call, pane, stale, open, saying, ring>>,
         worker' \in [Worker -> [pc : {"off", "started", "looked", "inherited"}, linked : BOOLEAN, retired : BOOLEAN,
                                 looked : SUBSET Pane, drops : Nat]],
         \A v \in Worker : v # w => worker'[v] = worker[v],
         wire' = wire \/ wire' = [wire EXCEPT ![w] = <<>>],
         overlapped \subseteq overlapped', Followers',
         \A p \in Unshared' : w \in Mints /\ (~NotTold(w, p) \/ SaidOf(w, p))
                              => w \in Mints' /\ worker'[w].linked = worker[w].linked /\ wire'[w] = wire[w],
         w \in Mints' => w \in Mints \/ (worker[w].pc = "off" /\ worker'[w].pc # "inherited"),
         worker'[w].pc = "inherited" => worker[w].pc = "inherited"
  PROVE  GameInv'
<1>1. /\ wire' \in [Worker -> Seq(Sayings)] /\ (wire'[w] = wire[w] \/ wire'[w] = <<>>)
      /\ \A v \in Worker : v # w => wire'[v] = wire[v]
  <2>1. wire \in [Worker -> Seq(Sayings)] /\ <<>> \in Seq(Sayings)
    BY EmptySeq DEF GameInv, GameTyped
  <2>. QED
    BY <2>1
<1>2. GameTyped' /\ FeedTyped'
  BY <1>1 DEF GameInv, GameTyped, FeedTyped
<1>3. \A v \in Worker : v # w => \A p, s : ToldOf(v, p, s)' <=> ToldOf(v, p, s)
  BY <1>1 DEF ToldOf
<1>4. \A p, s : ToldOf(w, p, s)' => wire'[w] = wire[w] /\ ToldOf(w, p, s)
  <2>1. DOMAIN <<>> = {}
    OBVIOUS
  <2>. QED
    BY <1>1, <2>1 DEF ToldOf
<1>5. WiresKnown'
  <2>1. \A v \in Worker : \A p, s : ToldOf(v, p, s)' => ToldOf(v, p, s)
    BY <1>3, <1>4
  <2>2. \A v \in Worker : wire'[v] = wire[v] \/ wire'[v] = <<>>
    BY <1>1
  <2>0. Unshared' \subseteq Unshared
    BY UnsharedShrinks
  <2>3. ASSUME NEW v \in Worker
        PROVE  /\ \A p \in Pane, i, j \in DOMAIN wire'[v] :
                    wire'[v][i] = <<p, "ended">> /\ wire'[v][j] = <<p, "ended">> => i = j
               /\ \A p \in Unshared', i, j \in DOMAIN wire'[v] :
                    wire'[v][i] = <<p, "running">> /\ wire'[v][j] = <<p, "ended">> => i < j
    <3>1. CASE wire'[v] = wire[v]
      BY <2>0, <3>1 DEF GameInv, WiresKnown
    <3>2. CASE wire'[v] = <<>>
      <4>1. DOMAIN wire'[v] = {}
        BY <3>2
      <4>. QED
        BY <4>1
    <3>. QED
      BY <2>2, <3>1, <3>2
  <2>4. \A v \in Worker, p \in Pane : /\ ToldOf(v, p, "running")' => pane'[p] # "none"
                                      /\ ToldOf(v, p, "ended")' => pane'[p] = "ended"
    BY <2>1 DEF GameInv, WiresKnown
  <2>. QED
    BY <2>3, <2>4 DEF WiresKnown
<1>6. CallsKnown'
  BY DEF GameInv, CallsKnown
<1>7. /\ \A v \in Worker : v # w => (v \in Mints' <=> v \in Mints)
      /\ (\A v \in Mints : v \in Worker) /\ (\A v \in Mints' : v \in Worker)
  BY DEF Mints, Games!Minting, Games!Serving
<1>8. ASSUME NEW p \in Unshared' PROVE Follows(p)'
  <2>1. p \in Pane /\ p \in Unshared /\ Follows(p)
    BY <1>8, UnsharedShrinks DEF GameInv, PairsFollowed, Unshared
  <2>2. \A kind \in GameKinds : Games!Of(p, kind)' = Games!Of(p, kind)
    BY DEF Games!Of
  <2>3. \A v \in Worker : (SaidOf(v, p)' <=> SaidOf(v, p)) /\ (SaidOf(v, p) => saying'[v] = saying[v])
    BY DEF SaidOf
  <2>4. \A v \in Worker : \A s \in {"running", "ended"} : ToldOf(v, p, s)' => ToldOf(v, p, s)
    BY <1>3, <1>4
  <2>5. \A v \in Mints : \A s \in {"running", "ended"} : v \in Mints' /\ ToldOf(v, p, s) => ToldOf(v, p, s)'
    <3>1. ASSUME w \in Mints, NEW s \in {"running", "ended"}, ToldOf(w, p, s) PROVE ToldOf(w, p, s)'
      <4>1. ~NotTold(w, p)
        BY <3>1 DEF NotTold
      <4>2. wire'[w] = wire[w]
        BY <1>8, <3>1, <4>1
      <4>. QED
        BY <3>1, <4>2 DEF ToldOf
    <3>. QED
      BY <1>3, <1>7, <3>1
  <2>6. \A v \in Mints : ~NotTold(v, p) \/ SaidOf(v, p) => v \in Mints' /\ worker'[v].linked = worker[v].linked
    BY <1>7, <1>8
  <2>7. \A v \in Mints' : v \in Mints \/ (worker'[v].pc # "inherited" /\ open[v][p] = None /\ NotTold(v, p)')
    <3>1. ASSUME worker[w].pc = "off" PROVE open[w][p] = None /\ NotTold(w, p)'
      <4>1. wire[w] = <<>> /\ open[w][p] = None
        BY <2>1, <3>1 DEF GameInv, Followers, Unshared
      <4>2. wire'[w] = <<>>
        BY <1>1, <4>1
      <4>3. DOMAIN wire'[w] = {}
        BY <4>2
      <4>. QED
        BY <4>1, <4>3 DEF NotTold, ToldOf
    <3>2. w \in Mints' => w \in Mints \/ (worker'[w].pc # "inherited" /\ open[w][p] = None /\ NotTold(w, p)')
      BY <3>1
    <3>3. \A v \in Mints' : v = w \/ v \in Mints
      BY <1>7
    <3>. QED
      BY <3>2, <3>3
  <2>8. \A v \in Mints : worker'[v].pc = "inherited" => worker[v].pc = "inherited"
    BY <1>7
  <2>9. \A i \in DOMAIN ring : i \in DOMAIN ring' /\ ring'[i] = ring[i]
    OBVIOUS
  <2>10. pane'[p] = pane[p] /\ \A v \in Worker : open'[v][p] = open[v][p]
    OBVIOUS
  <2>. QED
    BY <2>1, <2>2, <2>3, <2>4, <2>5, <2>6, <2>7, <2>8, <2>9, <2>10, FollowsStays
<1>9. PairsFollowed'
  BY <1>8 DEF PairsFollowed
<1>. QED
  BY <1>2, <1>5, <1>6, <1>9 DEF GameInv

\* What is on its way to a worker, or from it.
LEMMA OnTheWay ==
  ASSUME NEW w \in Worker, Games!OnItsWay(w) \subseteq overlapped', NEW p \in Unshared'
  PROVE  NotTold(w, p) /\ ~SaidOf(w, p)
<1>1. p \notin Games!OnItsWay(w)
  BY DEF Unshared
<1>2. ~SaidOf(w, p)
  BY <1>1 DEF Games!OnItsWay, SaidOf
<1>3. \A s : ~ToldOf(w, p, s)
  BY <1>1 DEF Games!OnItsWay, ToldOf
<1>. QED
  BY <1>2, <1>3 DEF NotTold

\* A worker that begins, looks at the host, follows it, loses it or retires.
LEMMA WorkerGoesOn ==
  ASSUME GameInv, NEW w \in Worker,
         Games!Begins(w) \/ Games!InheritLooks(w) \/ Games!Follow(w) \/ Games!Cut(w) \/ Games!Retire(w)
  PROVE  GameInv'
<1>. DEFINE T == [pc : {"off", "started", "looked", "inherited"}, linked : BOOLEAN, retired : BOOLEAN,
                  looked : SUBSET Pane, drops : Nat]
<1>1. UNCHANGED <<call, pane, stale, open, saying, ring>>
  BY DEF Games!Begins, Games!InheritLooks, Games!Follow, Games!Cut, Games!Retire
<1>2. worker \in [Worker -> T]
  BY DEF GameInv, GameTyped
<1>3. CASE Games!Begins(w)
  <2>1. /\ worker[w].pc = "off" /\ worker' = [worker EXCEPT ![w].pc = "started"] /\ UNCHANGED <<wire, overlapped>>
    BY <1>3 DEF Games!Begins
  <2>2. /\ worker' \in [Worker -> T] /\ \A v \in Worker : v # w => worker'[v] = worker[v]
        /\ worker'[w].pc = "started" /\ worker'[w].linked = worker[w].linked /\ worker'[w].retired = worker[w].retired
    BY <1>2, <2>1
  <2>3. ~worker[w].linked /\ w # First
    BY <2>1 DEF GameInv, Followers
  <2>4. Unshared' = Unshared /\ w \notin Mints
    BY <2>1 DEF Unshared, Mints, Games!Minting, Games!Serving
  <2>5. Followers'
    <3>1. /\ First \in Worker => worker'[First].pc = "inherited"
          /\ \A v \in Worker : /\ worker'[v].linked => worker'[v].pc = "inherited"
                               /\ worker'[v].retired => v = First
                               /\ ~worker'[v].linked => wire'[v] = <<>>
      BY <2>1, <2>2, <2>3 DEF GameInv, Followers
    <3>2. \A v \in Worker : worker'[v].pc # "inherited" => saying'[v] = <<>> /\ \A p \in Pane \ Device : open'[v][p] = None
      BY <1>1, <2>1, <2>2 DEF GameInv, Followers
    <3>3. \A v \in Worker : worker'[v].pc = "looked" => \A p \in Unshared' : pane'[p] = "running" => p \in worker'[v].looked
      BY <1>1, <2>1, <2>2, <2>4 DEF GameInv, Followers
    <3>. QED
      BY <3>1, <3>2, <3>3 DEF Followers
  <2>. QED
    BY <1>1, <2>1, <2>2, <2>4, <2>5, WorkerMoves
<1>4. CASE Games!InheritLooks(w)
  <2>1. /\ worker[w].pc = "started" /\ UNCHANGED <<wire, overlapped>>
        /\ worker' = [worker EXCEPT ![w].pc = "looked", ![w].looked = Games!Running]
    BY <1>4 DEF Games!InheritLooks
  <2>2. /\ worker' \in [Worker -> T] /\ \A v \in Worker : v # w => worker'[v] = worker[v]
        /\ worker'[w].pc = "looked" /\ worker'[w].linked = worker[w].linked /\ worker'[w].retired = worker[w].retired
        /\ worker'[w].looked = Games!Running
    <3>1. Games!Running \in SUBSET Pane
      BY DEF Games!Running
    <3>. QED
      BY <1>2, <2>1, <3>1
  <2>3. ~worker[w].linked /\ w # First
    BY <2>1 DEF GameInv, Followers
  <2>4. Unshared' = Unshared /\ (w \in Mints' <=> w \in Mints)
    BY <2>1, <2>2 DEF Unshared, Mints, Games!Minting, Games!Serving
  <2>5. Followers'
    <3>1. /\ First \in Worker => worker'[First].pc = "inherited"
          /\ \A v \in Worker : /\ worker'[v].linked => worker'[v].pc = "inherited"
                               /\ worker'[v].retired => v = First
                               /\ ~worker'[v].linked => wire'[v] = <<>>
      BY <2>1, <2>2, <2>3 DEF GameInv, Followers
    <3>2. \A v \in Worker : worker'[v].pc # "inherited" => saying'[v] = <<>> /\ \A p \in Pane \ Device : open'[v][p] = None
      BY <1>1, <2>1, <2>2 DEF GameInv, Followers
    <3>3. \A v \in Worker : worker'[v].pc = "looked" => \A p \in Unshared' : pane'[p] = "running" => p \in worker'[v].looked
      BY <1>1, <2>1, <2>2, <2>4 DEF GameInv, Followers, Games!Running, Unshared
    <3>. QED
      BY <3>1, <3>2, <3>3 DEF Followers
  <2>. QED
    BY <1>1, <2>1, <2>2, <2>4, <2>5, WorkerMoves
<1>5. CASE Games!Follow(w)
  <2>1. /\ worker[w].pc = "inherited" /\ saying[w] = <<>> /\ wire[w] = <<>> /\ UNCHANGED <<wire, overlapped>>
        /\ worker' = [worker EXCEPT ![w].linked = TRUE]
    BY <1>5 DEF Games!Follow
  <2>2. /\ worker' \in [Worker -> T] /\ \A v \in Worker : v # w => worker'[v] = worker[v]
        /\ worker'[w].pc = "inherited" /\ worker'[w].linked /\ worker'[w].retired = worker[w].retired
    BY <1>2, <2>1
  <2>3. Unshared' = Unshared /\ (w \in Mints' <=> w \in Mints)
    BY <2>1, <2>2 DEF Unshared, Mints, Games!Minting, Games!Serving
  <2>4. Followers'
    BY <1>1, <2>1, <2>2, <2>3 DEF GameInv, Followers
  <2>5. \A p : NotTold(w, p) /\ ~SaidOf(w, p)
    <3>1. DOMAIN wire[w] = {} /\ DOMAIN saying[w] = {}
      BY <2>1
    <3>. QED
      BY <3>1 DEF NotTold, ToldOf, SaidOf
  <2>. QED
    BY <1>1, <2>1, <2>2, <2>3, <2>4, <2>5, WorkerMoves
<1>6. CASE Games!Cut(w)
  <2>1. /\ worker[w].linked /\ worker' = [worker EXCEPT ![w].linked = FALSE, ![w].drops = worker[w].drops + 1]
        /\ wire' = [wire EXCEPT ![w] = <<>>] /\ overlapped' = overlapped \cup Games!OnItsWay(w)
    <3>1. /\ worker[w].linked /\ worker' = [worker EXCEPT ![w].linked = FALSE, ![w].drops = @ + 1]
          /\ wire' = [wire EXCEPT ![w] = <<>>] /\ overlapped' = overlapped \cup Games!OnItsWay(w)
      BY <1>6 DEF Games!Cut
    <3>. QED
      BY <1>2, <3>1
  <2>2. /\ worker' \in [Worker -> T] /\ \A v \in Worker : v # w => worker'[v] = worker[v]
        /\ worker'[w].pc = worker[w].pc /\ ~worker'[w].linked /\ worker'[w].retired = worker[w].retired
        /\ worker'[w].looked = worker[w].looked
    <3>1. worker[w].drops + 1 \in Nat
      BY <1>2
    <3>. QED
      BY <1>2, <2>1, <3>1
  <2>3. Unshared' \subseteq Unshared /\ (w \in Mints' <=> w \in Mints)
    BY <2>1, <2>2 DEF Unshared, Mints, Games!Minting, Games!Serving
  <2>4. wire'[w] = <<>> /\ \A v \in Worker : v # w => wire'[v] = wire[v]
    BY <2>1 DEF GameInv, GameTyped
  <2>5. Followers'
    BY <1>1, <2>1, <2>2, <2>3, <2>4 DEF GameInv, Followers
  <2>6. \A p \in Unshared' : NotTold(w, p) /\ ~SaidOf(w, p)
    BY <2>1, OnTheWay
  <2>7. worker'[w].pc = "inherited" => worker[w].pc = "inherited"
    BY <2>2
  <2>. QED
    BY <1>1, <2>1, <2>2, <2>3, <2>5, <2>6, <2>7, WorkerMoves
<1>7. CASE Games!Retire(w)
  <2>1. /\ w = First /\ worker' = [worker EXCEPT ![w].retired = TRUE]
        /\ UNCHANGED wire /\ overlapped' = overlapped \cup Games!OnItsWay(w)
    BY <1>7 DEF Games!Retire
  <2>2. /\ worker' \in [Worker -> T] /\ \A v \in Worker : v # w => worker'[v] = worker[v]
        /\ worker'[w].pc = worker[w].pc /\ worker'[w].linked = worker[w].linked /\ worker'[w].retired
        /\ worker'[w].looked = worker[w].looked
    BY <1>2, <2>1
  <2>3. Unshared' \subseteq Unshared /\ w \notin Mints'
    BY <2>1, <2>2 DEF Unshared, Mints, Games!Minting, Games!Serving
  <2>4. Followers'
    BY <1>1, <2>1, <2>2, <2>3 DEF GameInv, Followers
  <2>5. \A p \in Unshared' : NotTold(w, p) /\ ~SaidOf(w, p)
    BY <2>1, OnTheWay
  <2>6. worker'[w].pc = "inherited" => worker[w].pc = "inherited"
    BY <2>2
  <2>. QED
    BY <1>1, <2>1, <2>2, <2>3, <2>4, <2>5, <2>6, WorkerMoves
<1>. QED
  BY <1>3, <1>4, <1>5, <1>6, <1>7

\* Who opened the pair of p that no frame has closed, told from the frames there are.
LEMMA LeftOpen ==
  ASSUME GameInv, NEW p \in Pane
  PROVE  /\ NoFrames(p) => Games!Left_Open(p) = None
         /\ \A i \in DOMAIN ring : OnlyStart(p, i) => Games!Left_Open(p) = ring[i].by
         /\ PairMade(p) => Games!Left_Open(p) = None
<1>. DEFINE of == {i \in DOMAIN ring : ring[i].pane = p}
<1>1. of = Games!Of(p, "started") \cup Games!Of(p, "ended") /\ \A i \in of : i \in Nat
  <2>1. PICK B : ring \in Seq(FramesBy(B))
    BY DEF GameInv, FeedTyped
  <2>2. \A i \in DOMAIN ring : ring[i].kind \in {"started", "ended"} /\ i \in Nat
    <3>. DEFINE S == FramesBy(B)
    <3>1. \A x \in S : x.kind \in {"started", "ended"}
      BY DEF FramesBy, GameKinds
    <3>2. ring \in Seq(S)
      BY <2>1
    <3>. HIDE DEF S
    <3>. QED
      BY <3>1, <3>2
  <2>. QED
    BY <2>2 DEF Games!Of
<1>2. ASSUME NoFrames(p) PROVE Games!Left_Open(p) = None
  <2>1. of = {}
    BY <1>1, <1>2 DEF NoFrames
  <2>. QED
    BY <2>1 DEF Games!Left_Open
<1>3. ASSUME NEW last \in of, \A j \in of : j <= last
      PROVE  Games!Left_Open(p) = IF ring[last].kind = "ended" THEN None ELSE ring[last].by
  <2>. DEFINE l == CHOOSE i \in of : \A j \in of : j <= i
  <2>1. l \in of /\ \A j \in of : j <= l
    BY <1>3
  <2>2. l = last
    <3>1. l <= last /\ last <= l
      BY <1>3, <2>1
    <3>2. l \in Nat /\ last \in Nat
      BY <1>1, <1>3, <2>1
    <3>. QED
      BY <3>1, <3>2
  <2>3. Games!Left_Open(p) = IF of = {} \/ ring[l].kind = "ended" THEN None ELSE ring[l].by
    BY DEF Games!Left_Open
  <2>. QED
    BY <1>3, <2>2, <2>3
<1>4. ASSUME NEW i \in DOMAIN ring, OnlyStart(p, i) PROVE Games!Left_Open(p) = ring[i].by
  <2>1. of = {i} /\ i \in Nat
    BY <1>1, <1>4 DEF OnlyStart
  <2>2. ring[i].kind = "started"
    BY <1>4 DEF OnlyStart, Games!Of
  <2>3. i \in of /\ \A j \in of : j <= i
    BY <2>1
  <2>. QED
    BY <1>3, <2>2, <2>3
<1>5. ASSUME PairMade(p) PROVE Games!Left_Open(p) = None
  <2>1. PICK i \in DOMAIN ring, j \in DOMAIN ring : Games!Of(p, "started") = {i} /\ Games!Of(p, "ended") = {j} /\ i < j
    BY <1>5 DEF PairMade
  <2>2. of = {i, j} /\ i \in Nat /\ j \in Nat
    BY <1>1, <2>1
  <2>3. ring[j].kind = "ended"
    BY <2>1 DEF Games!Of
  <2>4. j \in of /\ \A k \in of : k <= j
    BY <2>1, <2>2
  <2>. QED
    BY <1>3, <2>3, <2>4
<1>. QED
  BY <1>2, <1>4, <1>5

LEMMA InheritSafe ==
  ASSUME GameInv, NEW w \in Worker, Games!Inherit(w)
  PROVE  GameInv'
<1>. DEFINE whose == [p \in Pane |-> IF Games!Left_Open(p) = None THEN open[w][p] ELSE Games!Left_Open(p)]
<1>. DEFINE over == {p \in Pane : whose[p] # None /\ p \notin worker[w].looked /\ ~worker[w].retired}
<1>0. /\ whose = [p \in Pane |-> IF Games!Left_Open(p) = None THEN open[w][p] ELSE Games!Left_Open(p)]
      /\ over = {p \in Pane : whose[p] # None /\ p \notin worker[w].looked /\ ~worker[w].retired}
  BY Zenon
<1>1. /\ worker[w].pc = "looked" /\ worker' = [worker EXCEPT ![w].pc = "inherited"]
      /\ open' = [open EXCEPT ![w] = [p \in Pane |-> IF p \in over THEN None ELSE whose[p]]]
      /\ \E order \in Games!Orders(over) :
           saying' = [saying EXCEPT ![w] = [i \in DOMAIN order |-> Games!Frame("ended", order[i], whose[order[i]])]]
      /\ overlapped' = overlapped \cup {p \in over : pane[p] = "running"} \cup UNION {Games!OnItsWay(v) : v \in Worker}
      /\ UNCHANGED <<call, pane, stale, wire, ring>>
  BY Zenon DEF Games!Inherit
<1>. HIDE DEF whose, over
<1>2. UNCHANGED <<call, pane, stale, wire, ring>>
  BY <1>1
<1>3. /\ worker' \in [Worker -> [pc : {"off", "started", "looked", "inherited"}, linked : BOOLEAN, retired : BOOLEAN,
                                looked : SUBSET Pane, drops : Nat]]
      /\ \A v \in Worker : v # w => worker'[v] = worker[v]
      /\ worker'[w].pc = "inherited" /\ worker'[w].linked = worker[w].linked /\ worker'[w].retired = worker[w].retired
  BY <1>1 DEF GameInv, GameTyped
<1>4. /\ open' = [v \in Worker |-> [p \in Pane |-> open'[v][p]]]
      /\ \A v \in Worker : v # w => open'[v] = open[v]
      /\ \A p \in Pane : open'[w][p] = IF p \in over THEN None ELSE whose[p]
  <2>. DEFINE o == [p \in Pane |-> IF p \in over THEN None ELSE whose[p]]
  <2>1. DOMAIN open = Worker /\ \A v \in Worker : open[v] = [p \in Pane |-> open[v][p]]
    BY DEF GameInv, GameTyped
  <2>2. o = [p \in Pane |-> o[p]] /\ \A p \in Pane : o[p] = IF p \in over THEN None ELSE whose[p]
    OBVIOUS
  <2>3. open' = [open EXCEPT ![w] = o]
    BY <1>1
  <2>. HIDE DEF o
  <2>4. \A v \in Worker : open'[v] = IF v = w THEN o ELSE open[v]
    BY <2>1, <2>3
  <2>5. \A v \in Worker : open'[v] = [p \in Pane |-> open'[v][p]]
    BY <2>1, <2>2, <2>4
  <2>6. open' = [v \in Worker |-> open'[v]]
    BY <2>1, <2>3
  <2>. QED
    BY <2>2, <2>4, <2>5, <2>6
<1>5. PICK order \in Games!Orders(over) :
        saying' = [saying EXCEPT ![w] = [i \in DOMAIN order |-> Games!Frame("ended", order[i], whose[order[i]])]]
  BY <1>1
<1>6. PICK k \in Nat : order \in [1 .. k -> over]
  <2>1. IsFiniteSet(over)
    <3>1. over \subseteq Pane
      BY <1>0
    <3>. QED
      BY <3>1, FS_Subset, WorkspaceConstants
  <2>2. Cardinality(over) \in Nat
    BY <2>1, FS_CardinalityType
  <2>3. Games!Cardinality(over) = Cardinality(over)
    BY DEF Games!Cardinality, Cardinality
  <2>4. order \in [1 .. Cardinality(over) -> over]
    BY <2>3 DEF Games!Orders
  <2>. QED
    BY <2>2, <2>4
<1>7. /\ \A v \in Worker : v # w => saying'[v] = saying[v]
      /\ \A p : SaidOf(w, p)' => p \in over
  <2>1. DOMAIN saying = Worker
    BY DEF GameInv, FeedTyped
  <2>2. saying'[w] = [i \in DOMAIN order |-> Games!Frame("ended", order[i], whose[order[i]])]
    BY <1>5, <2>1
  <2>3. \A i \in DOMAIN order : order[i] \in over
    BY <1>6
  <2>4. \A p, b : Games!Frame("ended", p, b).pane = p
    BY DEF Games!Frame
  <2>5. \A p : SaidOf(w, p)' => p \in over
    BY <2>2, <2>3, <2>4 DEF SaidOf
  <2>. QED
    BY <1>5, <2>1, <2>5
<1>8. FeedTyped'
  <2>1. PICK B : ring \in Seq(FramesBy(B)) /\ saying \in [Worker -> Seq(FramesBy(B))]
    BY DEF GameInv, FeedTyped
  <2>. DEFINE C == {whose[p] : p \in Pane}
  <2>. DEFINE S == FramesBy(B \cup C)
  <2>. DEFINE s == [i \in DOMAIN order |-> Games!Frame("ended", order[i], whose[order[i]])]
  <2>2. ring \in Seq(S) /\ \A v \in Worker : saying[v] \in Seq(S)
    BY <2>1, FramesWiden
  <2>3. \A p \in Pane : Games!Frame("ended", p, whose[p]) \in S
    BY DEF Games!Frame, FramesBy, GameKinds
  <2>4. s \in [1 .. k -> S]
    <3>1. over \subseteq Pane
      BY <1>0
    <3>2. \A i \in 1 .. k : order[i] \in Pane /\ DOMAIN order = 1 .. k
      BY <1>6, <3>1
    <3>3. \A i \in 1 .. k : Games!Frame("ended", order[i], whose[order[i]]) \in S
      BY <2>3, <3>2
    <3>. HIDE DEF S
    <3>4. DOMAIN order = 1 .. k
      BY <1>6
    <3>. QED
      BY <3>3, <3>4
  <2>5. saying' = [saying EXCEPT ![w] = s]
    BY <1>5
  <2>. HIDE DEF S, s
  <2>6. s \in Seq(S)
    BY <1>6, <2>4, SeqDef
  <2>7. ring' \in Seq(S) /\ saying' \in [Worker -> Seq(S)]
    BY <1>2, <2>1, <2>2, <2>5, <2>6
  <2>. QED
    BY <2>7 DEF FeedTyped, S
<1>9. GameTyped'
  BY <1>2, <1>3, <1>4 DEF GameInv, GameTyped
<1>10. \A v, p, s : ToldOf(v, p, s)' <=> ToldOf(v, p, s)
  BY <1>2 DEF ToldOf
<1>12. Unshared' \subseteq Unshared /\ Mints' = Mints
  <2>1. overlapped \subseteq overlapped'
    BY <1>1
  <2>2. \A v \in Worker : v \in Mints' <=> v \in Mints
    BY <1>1, <1>3 DEF Mints, Games!Minting, Games!Serving
  <2>3. Mints \subseteq Worker /\ Mints' \subseteq Worker
    BY DEF Mints, Games!Minting
  <2>. QED
    BY <2>1, <2>2, <2>3, UnsharedShrinks
<1>11. WiresKnown' /\ CallsKnown'
  BY <1>2, <1>10, <1>12 DEF GameInv, WiresKnown, CallsKnown
<1>13. Followers'
  <2>1. /\ First \in Worker => worker'[First].pc = "inherited"
        /\ \A v \in Worker : /\ worker'[v].linked => worker'[v].pc = "inherited"
                             /\ worker'[v].retired => v = First
                             /\ ~worker'[v].linked => wire'[v] = <<>>
    BY <1>2, <1>3 DEF GameInv, Followers
  <2>2. \A v \in Worker : worker'[v].pc # "inherited" => saying'[v] = <<>> /\ \A p \in Pane \ Device : open'[v][p] = None
    BY <1>3, <1>4, <1>7 DEF GameInv, Followers
  <2>3. \A v \in Worker : worker'[v].pc = "looked" => \A p \in Unshared' : pane'[p] = "running" => p \in worker'[v].looked
    BY <1>2, <1>3, <1>12 DEF GameInv, Followers
  <2>. QED
    BY <2>1, <2>2, <2>3 DEF Followers
<1>14. ASSUME NEW p \in Unshared' PROVE Follows(p)'
  <2>1. p \in Pane /\ p \in Unshared /\ Follows(p) /\ p \notin Device
    BY <1>12, <1>14 DEF GameInv, PairsFollowed, Unshared
  <2>2. \A v \in Worker : NotTold(v, p) /\ ~SaidOf(v, p)
    <3>1. \A v \in Worker : Games!OnItsWay(v) \subseteq overlapped'
      BY <1>1
    <3>. QED
      BY <1>14, <3>1, OnTheWay
  <2>3. \A v \in Worker : NotTold(v, p)'
    BY <1>10, <2>2 DEF NotTold
  <2>4. Unheard(p) \/ Runs(p) \/ PairMade(p)
    <3>1. \A m \in Worker : ~StartTold(m, p) /\ ~EndHeard(m, p)
      BY <2>2 DEF StartTold, EndHeard, NotTold
    <3>2. ASSUME NEW m \in Worker, StartSaid(m, p) \/ EndSaid(m, p) PROVE FALSE
      <4>1. \A kd, b : Games!Frame(kd, p, b).pane = p
        BY DEF Games!Frame
      <4>2. \E f : saying[m] = <<f>> /\ f.pane = p
        BY <3>2, <4>1 DEF StartSaid, EndSaid
      <4>3. SaidOf(m, p)
        BY <4>2 DEF SaidOf
      <4>. QED
        BY <2>2, <4>3
    <3>. QED
      BY <2>1, <3>1, <3>2 DEF Follows
  <2>5. open[w][p] = None
    BY <1>1, <2>1 DEF GameInv, Followers
  <2>6. whose[p] = Games!Left_Open(p)
    BY <1>0, <2>1, <2>5
  <2>7. p \notin over => NoneSaid(p)'
    <3>1. \A v \in Worker : v # w => ~SaidOf(v, p)'
      BY <1>7, <2>2 DEF SaidOf
    <3>. QED
      BY <1>7, <3>1 DEF NoneSaid
  <2>8. \A kind : Games!Of(p, kind)' = Games!Of(p, kind)
    BY <1>2 DEF Games!Of
  <2>9. \A v \in Mints' : v \in Worker /\ v \in Mints
    BY <1>12 DEF Mints, Games!Minting
  <2>10. CASE Unheard(p)
    <3>1. whose[p] = None /\ p \notin over /\ NoFrames(p)'
      BY <1>0, <2>1, <2>6, <2>8, <2>10, LeftOpen DEF Unheard, NoFrames
    <3>2. NoneOpen(p)'
      <4>1. open'[w][p] = None
        BY <1>4, <2>1, <3>1
      <4>2. \A v \in Worker : v # w => open'[v][p] = None
        BY <1>4, <2>10 DEF Unheard, NoneOpen
      <4>. QED
        BY <4>1, <4>2 DEF NoneOpen
    <3>3. pane'[p] = "none"
      BY <1>2, <2>10 DEF Unheard
    <3>4. Unheard(p)'
      BY <2>3, <2>7, <3>1, <3>2, <3>3 DEF Unheard
    <3>. QED
      BY <3>4 DEF Follows
  <2>11. CASE Runs(p)
    <3>1. PICK i \in DOMAIN ring : OnlyStart(p, i) /\ \A v \in Mints : worker[v].pc = "inherited" => open[v][p] = ring[i].by
      BY <2>11 DEF Runs
    <3>2. whose[p] = ring[i].by /\ pane[p] = "running"
      BY <2>1, <2>6, <2>11, <3>1, LeftOpen DEF Runs
    <3>3. p \in worker[w].looked
      BY <1>1, <2>1, <3>2 DEF GameInv, Followers
    <3>4. p \notin over
      BY <1>0, <3>3
    <3>5. open'[w][p] = ring[i].by
      BY <1>4, <2>1, <3>2, <3>4
    <3>6. i \in DOMAIN ring' /\ ring'[i] = ring[i] /\ OnlyStart(p, i)'
      BY <1>2, <2>8, <3>1 DEF OnlyStart
    <3>7. \A v \in Mints' : worker'[v].pc = "inherited" => open'[v][p] = ring'[i].by
      BY <1>3, <1>4, <2>9, <3>1, <3>5, <3>6
    <3>8. pane'[p] = "running" /\ NoneSaid(p)' /\ \A v \in Mints' : ~ToldOf(v, p, "ended")'
      BY <1>2, <2>3, <2>7, <2>9, <3>2, <3>4 DEF NotTold
    <3>9. Runs(p)'
      BY <3>6, <3>7, <3>8 DEF Runs
    <3>. QED
      BY <3>9 DEF Follows
  <2>12. CASE PairMade(p)
    <3>1. whose[p] = None /\ p \notin over
      BY <1>0, <2>1, <2>6, <2>12, LeftOpen
    <3>2. open'[w][p] = None
      BY <1>4, <2>1, <3>1
    <3>3. \A v \in Mints' : NotTold(v, p)' /\ open'[v][p] = None
      BY <1>4, <2>3, <2>9, <2>12, <3>2 DEF PairMade
    <3>4. pane'[p] = "ended" /\ NoneSaid(p)'
      BY <1>2, <2>7, <2>12, <3>1 DEF PairMade
    <3>5. PICK i \in DOMAIN ring, j \in DOMAIN ring : Games!Of(p, "started") = {i} /\ Games!Of(p, "ended") = {j}
                                                       /\ i < j /\ ring[i].by = ring[j].by
      BY <2>12 DEF PairMade
    <3>6. i \in DOMAIN ring' /\ j \in DOMAIN ring' /\ ring'[i].by = ring'[j].by
      BY <1>2, <3>5
    <3>7. PairMade(p)'
      BY <2>8, <3>3, <3>4, <3>5, <3>6 DEF PairMade
    <3>. QED
      BY <3>7 DEF Follows
  <2>. QED
    BY <2>4, <2>10, <2>11, <2>12
<1>15. PairsFollowed'
  BY <1>14 DEF PairsFollowed
<1>. QED
  BY <1>8, <1>9, <1>11, <1>13, <1>15 DEF GameInv

LEMMA GameStays ==
  ASSUME GameInv, Games!GameNext
  PROVE  GameInv'
<1>1. ASSUME NEW c \in Pane,
             (\E w \in Worker : Games!Queue(c, w) \/ Games!Create(c, w)) \/ Games!HostStarts(c) \/ Games!HostJoins(c)
               \/ Games!Landed(c) \/ Games!DeviceAction(c) \/ Games!DeviceStarted(c) \/ Games!PaneEnds(c)
               \/ Games!HostStartsLate(c) \/ Games!Resizes(c) \/ Games!SaysAgain(c)
      PROVE  GameInv'
  BY <1>1, CallsSafe, PaneStartsSafe, DeviceActionSafe, DeviceStartedSafe, PaneEndsSafe, LateSafe, ResizesSafe, SaysAgainSafe
<1>2. ASSUME NEW w \in Worker,
             Games!Hear(w) \/ Games!Mint(w) \/ Games!Begins(w) \/ Games!InheritLooks(w) \/ Games!Inherit(w)
               \/ Games!Follow(w) \/ Games!Cut(w) \/ Games!Retire(w)
      PROVE  GameInv'
  BY <1>2, HearSafe, MintSafe, WorkerGoesOn, InheritSafe
<1>. QED
  BY <1>1, <1>2, TickSafe DEF Games!GameNext

LEMMA GamesElsewhere ==
  ASSUME GameInv, UNCHANGED games
  PROVE  GameInv'
<1>1. UNCHANGED <<call, pane, stale, wire, worker, open, saying, ring, overlapped>>
  BY DEF games
<1>2. call' = [c \in Pane |-> [pc |-> call'[c].pc, at |-> call'[c].at, now |-> call'[c].now, running |-> call'[c].running,
                               answer |-> call'[c].answer]]
  BY <1>1 DEF GameInv, GameTyped
<1>3. CallsKnown'
  BY <1>1 DEF GameInv, CallsKnown
<1>. QED
  BY <1>1, <1>2, <1>3, OnlyCalls

LEMMA FollowedPairs ==
  ASSUME GameInv
  PROVE  OnePairEach
<1>1. \A S : Games!Cardinality(S) = Cardinality(S)
  BY DEF Games!Cardinality, Cardinality
<1>2. Cardinality({}) = 0 /\ \A i : Cardinality({i}) = 1
  BY FS_EmptySet, FS_Singleton
<1>3. ASSUME NEW p \in Pane \ (overlapped \cup Device)
      PROVE  /\ Games!Cardinality(Games!Of(p, "started")) <= 1 /\ Games!Cardinality(Games!Of(p, "ended")) <= 1
             /\ \A i \in Games!Of(p, "ended") : \E j \in Games!Of(p, "started") : j < i /\ ring[j].by = ring[i].by
  <2>1. Follows(p)
    BY <1>3 DEF GameInv, PairsFollowed, Unshared
  <2>2. NoFrames(p) \/ (\E i \in DOMAIN ring : OnlyStart(p, i)) \/ PairMade(p)
    BY <2>1 DEF Follows, Unheard, StartTold, StartSaid, Runs, EndHeard, EndSaid
  <2>3. CASE NoFrames(p)
    BY <1>1, <1>2, <2>3 DEF NoFrames
  <2>4. CASE \E i \in DOMAIN ring : OnlyStart(p, i)
    BY <1>1, <1>2, <2>4 DEF OnlyStart
  <2>5. CASE PairMade(p)
    <3>1. PICK i \in DOMAIN ring, j \in DOMAIN ring : Games!Of(p, "started") = {i} /\ Games!Of(p, "ended") = {j}
                                                       /\ i < j /\ ring[i].by = ring[j].by
      BY <2>5 DEF PairMade
    <3>. QED
      BY <1>1, <1>2, <3>1, SMTT(20)
  <2>. QED
    BY <2>2, <2>3, <2>4, <2>5
<1>. QED
  BY <1>3 DEF OnePairEach, Games!OnePairEach

\* The feed says of a game that it started once and ended once, in that order and by the same asker,
\* whatever worker is replaced meanwhile and however often its record is said again, if one worker
\* alone heard of it and it was not said to run after its end (told_the_feed and inherit_open_games
\* in the worker, still_open in its launches).
THEOREM PairsAreOne == AnySpec => []OnePairEach
<1>1. AnyInit => GameInv
  BY GameBegins DEF AnyInit
<1>2. GameInv /\ [AnyNext]_all => GameInv'
  <2>1. CASE GameInv /\ OfGames
    BY <2>1, GameStays DEF OfGames
  <2>2. CASE GameInv /\ UNCHANGED games
    BY <2>2, GamesElsewhere
  <2>. QED
    BY <2>1, <2>2 DEF AnyNext, OfTokens, OfGrant, OfProbes, OfLsp, OfEditor, all
<1>3. GameInv => OnePairEach
  BY FollowedPairs
<1>. QED
  BY <1>1, <1>2, <1>3, PTL DEF AnySpec
=============================================================================
