---------------------------- MODULE StoreService ----------------------------
(***************************************************************************)
(* The workspace's store as a service of its state directory (red-store:   *)
(* store.rs, red_store_serve.rs; red-core: service.rs).  Every client has  *)
(* a connection of its own, whose thread changes the state under one lock, *)
(* says the new state to every client that joined and then answers, in     *)
(* steps of their own.  A client reads one line at a time and keeps the    *)
(* state of the last one.  Files are edited by other programs as well.     *)
(***************************************************************************)
EXTENDS Naturals, FiniteSets, Sequences, SequencesExt

CONSTANTS
  Client,            \* processes attached to the store
  Declaration,       \* files a project's root may be bound to
  Layout,            \* layouts
  Talk, TalkLimit,   \* conversations, and how many a root keeps
  Preference,        \* preferences that are set, each on its own
  Nothing,           \* absent: no root, no draft, no layout, nobody
  Unbound,           \* a root without a declaration
  MaxEdits, MaxAsks, MaxDeaths   \* bounds: versions of the file, requests, deaths of the service

VARIABLES
  state,      \* the service's state
  disk,       \* workspace.json
  file,       \* the version of one text file of the project
  thread,     \* the thread of each client's connection
  locked,     \* who holds the store's lock across a save
  joined,     \* the clients that hear what is said
  line,       \* lines on the way to each client
  client,     \* what each client does
  view,       \* the state each client holds
  asked, deaths,   \* counters of the bounds
  overtaken,  \* history: a state was said, answered or taken up after a newer one
  owed        \* history: what workspace.json may hold by what the clients were answered

storeVars == <<state, disk, file, thread, locked, joined, line, client, view, asked, deaths, overtaken, owed>>

Fresh == [root |-> Nothing, draft |-> Nothing, layout |-> Nothing, talks |-> <<>>, prefers |-> {}]
Quiet == [at |-> "free", changed |-> FALSE, says |-> Fresh, base |-> Nothing]
Edit  == 0 .. MaxEdits

\* What a state is made of.
States == [root : Declaration \cup {Unbound, Nothing}, draft : Edit \cup {Nothing}, layout : Layout \cup {Nothing},
           talks : Seq(Talk), prefers : SUBSET Preference]

Requests ==
  [kind : {"root"}, to : Declaration \cup {Unbound}] \cup [kind : {"draft", "save"}, to : Edit]
  \cup [kind : {"discard"}, to : {Nothing}] \cup [kind : {"layout"}, to : Layout]
  \cup [kind : {"talk"}, to : Talk] \cup [kind : {"prefer"}, to : Preference]

\* A service finds nothing, or the file of a workspace whose root an earlier one was told.
StoreInit ==
  /\ \E known \in {Nothing, Unbound} : state = [Fresh EXCEPT !.root = known]
  /\ disk = state /\ file = 0
  /\ thread = [c \in Client |-> Quiet] /\ locked = Nothing /\ joined = {}
  /\ line = [c \in Client |-> <<>>]
  /\ client = [c \in Client |-> [at |-> "away", for |-> Nothing]]
  /\ view = [c \in Client |-> Nothing]
  /\ asked = 0 /\ deaths = 0 /\ overtaken = FALSE
  /\ owed = [root |-> {state.root}, draft |-> {Nothing}, layout |-> {Nothing}, prefers |-> {},
              since |-> [t \in Talk |-> Nothing]]

-----------------------------------------------------------------------------
\* What each call makes of the state; Refusal when it is refused.
Refusal == Nothing

\* A root that is known is only ever bound to one declaration.
AddRoot(s, d) ==
  IF s.root = Nothing \/ (s.root = Unbound /\ d # Unbound) THEN [s EXCEPT !.root = d]
  ELSE IF d \in {Unbound, s.root} THEN s ELSE Refusal

\* Drafts and conversations belong to a root the state knows.
PutDraft(s, base)  == IF s.root = Nothing THEN Refusal ELSE [s EXCEPT !.draft = base]
DiscardDraft(s)    == IF s.root = Nothing THEN Refusal ELSE [s EXCEPT !.draft = Nothing]
SaveLayout(s, l)   == [s EXCEPT !.layout = l]
\* A conversation is in the list once, and the latest comes first.
Others(q, t) == IF \E i \in DOMAIN q : q[i] = t THEN RemoveAt(q, CHOOSE i \in DOMAIN q : q[i] = t) ELSE q
RecordConversation(s, t) ==
  IF s.root = Nothing THEN Refusal
  ELSE LET next == <<t>> \o Others(s.talks, t)
       IN  [s EXCEPT !.talks = SubSeq(next, 1, IF Len(next) > TalkLimit THEN TalkLimit ELSE Len(next))]
Preferences(s, p)  == [s EXCEPT !.prefers = @ \cup {p}]

Dispatched(s, r) ==
  CASE r.kind = "root" -> AddRoot(s, r.to)          [] r.kind = "draft" -> PutDraft(s, r.to)
    [] r.kind = "discard" -> DiscardDraft(s)        [] r.kind = "layout" -> SaveLayout(s, r.to)
    [] r.kind = "talk" -> RecordConversation(s, r.to) [] r.kind = "prefer" -> Preferences(s, r.to)

-----------------------------------------------------------------------------
\* A client: it attaches, asks one thing at a time, and reads its lines.

At(c, at) == client' = [client EXCEPT ![c].at = at]

Asks(c) ==
  /\ client[c].at = "attached" /\ asked < MaxAsks /\ asked' = asked + 1
  /\ \E r \in Requests : client' = [client EXCEPT ![c] = [at |-> "asking", for |-> r]]
  /\ UNCHANGED <<state, disk, file, thread, locked, joined, line, view, deaths, overtaken, owed>>

\* attach(): the greeting is made before the client joins those that are told of changes.  It joins
\* and is sent the greeting in two steps; a state said between them would be overtaken by the
\* greeting, as one said before them is, so they are one.
Greets(c) ==
  /\ client[c].at = "away"
  /\ At(c, "greeting")
  /\ thread' = [thread EXCEPT ![c] = [Quiet EXCEPT !.at = "join", !.says = state]]
  /\ UNCHANGED <<state, disk, file, locked, joined, line, view, asked, deaths, overtaken, owed>>

Joins(c) ==
  /\ thread[c].at = "join"
  /\ joined' = joined \cup {c}
  /\ line' = [line EXCEPT ![c] = Append(@, [greets |-> TRUE, answers |-> FALSE, state |-> thread[c].says])]
  /\ thread' = [thread EXCEPT ![c] = Quiet]
  /\ overtaken' = (overtaken \/ thread[c].says # state)
  /\ UNCHANGED <<state, disk, file, locked, client, view, asked, deaths, owed>>

\* read_answers(): a state in a line is the client's from then on, and an answer ends its call;
\* the greeting's is put there by the thread that attached, a step later.
Reads(c) ==
  /\ line[c] # <<>>
  /\ line' = [line EXCEPT ![c] = Tail(@)]
  /\ LET l == Head(line[c]) IN
     /\ view' = IF l.greets THEN view ELSE [view EXCEPT ![c] = l.state]
     /\ client' = IF l.greets THEN [client EXCEPT ![c] = [at |-> "opening", for |-> l.state]]
                  ELSE IF l.answers THEN [client EXCEPT ![c] = [at |-> "attached", for |-> Nothing]]
                  ELSE client
  /\ UNCHANGED <<state, disk, file, thread, locked, joined, asked, deaths, overtaken, owed>>

Opens(c) ==
  /\ client[c].at = "opening"
  /\ overtaken' = (overtaken \/ view[c] \notin {Nothing, client[c].for})
  /\ view' = [view EXCEPT ![c] = client[c].for]
  /\ client' = [client EXCEPT ![c] = [at |-> "attached", for |-> Nothing]]
  /\ UNCHANGED <<state, disk, file, thread, locked, joined, line, asked, deaths, owed>>

-----------------------------------------------------------------------------
\* A connection's thread, under the store's lock.

Telling(c, next) ==
  /\ state' = next
  /\ thread' = [thread EXCEPT ![c] = [at |-> "say", changed |-> next # state, says |-> next, base |-> Nothing]]

\* What the file may hold of the part a request is about: what it asked for, once it is answered as
\* done; after an error that too, for the next write of any part takes it along.  Of a conversation
\* answered as done it holds the entry until TalkLimit others were recorded after it.
Settled(values, v, done) == IF done THEN {v} ELSE values \cup {v}
Recorded(since, t, done) ==
  [u \in Talk |-> IF u = t THEN IF done THEN {} ELSE since[u]
                  ELSE IF since[u] = Nothing THEN Nothing ELSE since[u] \cup {t}]
Owes(r, done) ==
  owed' = CASE r.kind = "root"    -> [owed EXCEPT !.root = Settled(@, r.to, done)]
            [] r.kind = "draft"   -> [owed EXCEPT !.draft = Settled(@, r.to, done)]
            [] r.kind = "discard" -> [owed EXCEPT !.draft = Settled(@, Nothing, done)]
            [] r.kind = "layout"  -> [owed EXCEPT !.layout = Settled(@, r.to, done)]
            [] r.kind = "talk"    -> [owed EXCEPT !.since = Recorded(@, r.to, done)]
            [] r.kind = "prefer"  -> [owed EXCEPT !.prefers = IF done THEN @ \cup {r.to} ELSE @]

\* Mutant: a write that fails is answered as done.
AnswersAnyway(c, r, next) ==
  /\ Telling(c, next) /\ Owes(r, TRUE)
  /\ disk' = next \/ disk' = disk

\* The state is changed, then written; a failed write is an error, and the change stays.
Answers(c, r, next) ==
  /\ Telling(c, next)
  /\ \/ disk' = next /\ Owes(r, TRUE)
     \/ disk' = disk /\ Owes(r, FALSE)

\* A root found in memory as it is asked for is answered as done and nothing is written, whether or
\* not the write that should have put it in the file has failed: this answer promises nothing.
Knows(c) == Telling(c, state) /\ UNCHANGED <<disk, owed>>

Refuses(c) ==
  /\ thread' = [thread EXCEPT ![c] = [Quiet EXCEPT !.at = "say", !.says = state]]
  /\ UNCHANGED <<state, disk, owed>>

Does(c, r) ==
  LET next == Dispatched(state, r) IN IF next = Refusal THEN Refuses(c) ELSE Answers(c, r, next)

Serves(c) ==
  /\ client[c].at = "asking" /\ thread[c].at = "free" /\ locked = Nothing
  /\ client[c].for.kind # "save"
  /\ LET r == client[c].for IN
     IF r.kind = "root" /\ Dispatched(state, r) = state THEN Knows(c) ELSE Does(c, r)
  /\ client' = [client EXCEPT ![c].at = "served"]
  /\ UNCHANGED <<file, locked, joined, line, view, asked, deaths, overtaken>>

\* save_text: the file must still be the one the text was made from, when it is read, ...
SaveReads(c) ==
  /\ client[c].at = "asking" /\ thread[c].at = "free" /\ locked = Nothing
  /\ client[c].for.kind = "save"
  /\ LET base == client[c].for.to IN
     IF state.root = Nothing \/ file # base THEN Refuses(c) /\ locked' = locked
     ELSE /\ thread' = [thread EXCEPT ![c] = [Quiet EXCEPT !.at = "look", !.base = base]]
          /\ locked' = c /\ UNCHANGED <<state, disk, owed>>
  /\ client' = [client EXCEPT ![c].at = "served"]
  /\ UNCHANGED <<file, joined, line, view, asked, deaths, overtaken>>

\* ... and again when the new text lies ready beside it.
SaveLooks(c) ==
  /\ thread[c].at = "look"
  /\ IF file # thread[c].base THEN Refuses(c) /\ locked' = Nothing
     ELSE thread' = [thread EXCEPT ![c].at = "rename"] /\ UNCHANGED <<state, disk, locked, owed>>
  /\ UNCHANGED <<file, joined, line, client, view, asked, deaths, overtaken>>

\* The file is replaced, then the draft discarded and the state written.
SaveRenames(c) ==
  /\ thread[c].at = "rename" /\ file < MaxEdits
  /\ file' = file + 1 /\ locked' = Nothing
  /\ Does(c, [kind |-> "discard", to |-> Nothing])
  /\ UNCHANGED <<joined, line, client, view, asked, deaths, overtaken>>

SaveFails(c) ==
  /\ thread[c].at = "rename" /\ locked' = Nothing /\ Refuses(c)
  /\ UNCHANGED <<file, joined, line, client, view, asked, deaths, overtaken>>

-----------------------------------------------------------------------------
\* After the lock: the new state is said to all that joined, then the call is answered with it.

\* Mutant: only the client that asked hears of its change.
SaysToAsker(c) ==
  /\ thread[c].at = "say"
  /\ line' = IF thread[c].changed
             THEN [line EXCEPT ![c] = Append(@, [greets |-> FALSE, answers |-> FALSE, state |-> thread[c].says])]
             ELSE line
  /\ overtaken' = (overtaken \/ (thread[c].changed /\ thread[c].says # state))
  /\ thread' = [thread EXCEPT ![c].at = "reply"]
  /\ UNCHANGED <<state, disk, file, locked, joined, client, view, asked, deaths, owed>>

Says(c) ==
  /\ thread[c].at = "say"
  /\ line' = IF thread[c].changed
             THEN [d \in Client |-> IF d \in joined
                                    THEN Append(line[d], [greets |-> FALSE, answers |-> FALSE, state |-> thread[c].says])
                                    ELSE line[d]]
             ELSE line
  /\ overtaken' = (overtaken \/ (thread[c].changed /\ thread[c].says # state))
  /\ thread' = [thread EXCEPT ![c].at = "reply"]
  /\ UNCHANGED <<state, disk, file, locked, joined, client, view, asked, deaths, owed>>

Replies(c) ==
  /\ thread[c].at = "reply"
  /\ line' = [line EXCEPT ![c] = Append(@, [greets |-> FALSE, answers |-> TRUE, state |-> thread[c].says])]
  /\ overtaken' = (overtaken \/ thread[c].says # state)
  /\ thread' = [thread EXCEPT ![c] = Quiet]
  /\ UNCHANGED <<state, disk, file, locked, joined, client, view, asked, deaths, owed>>

-----------------------------------------------------------------------------
\* Another program writes the file.
Edits ==
  /\ file < MaxEdits /\ file' = file + 1
  /\ UNCHANGED <<state, disk, thread, locked, joined, line, client, view, asked, deaths, overtaken, owed>>

\* The service ends, by the reaper or by a crash, and the next one reads the file; every client
\* finds its socket closed and attaches again.
Restarts ==
  /\ deaths < MaxDeaths /\ deaths' = deaths + 1
  /\ state' = disk /\ locked' = Nothing /\ joined' = {}
  /\ thread' = [c \in Client |-> Quiet] /\ line' = [c \in Client |-> <<>>]
  /\ client' = [c \in Client |-> [at |-> "away", for |-> Nothing]]
  /\ view' = [c \in Client |-> Nothing] /\ overtaken' = FALSE
  /\ UNCHANGED <<disk, file, asked, owed>>

ThreadStep(c) ==
  Joins(c) \/ Serves(c) \/ SaveReads(c) \/ SaveLooks(c) \/ SaveRenames(c) \/ SaveFails(c) \/ Says(c) \/ Replies(c)
StoreNext ==
  \/ \E c \in Client : Greets(c) \/ Asks(c) \/ Reads(c) \/ Opens(c) \/ ThreadStep(c)
  \/ Edits \/ Restarts

-----------------------------------------------------------------------------
StoreTypeOK ==
  /\ \A s \in {state, disk} : s \in States /\ Len(s.talks) <= TalkLimit
  /\ file \in Edit /\ joined \subseteq Client /\ locked \in Client \cup {Nothing}

\* With nothing on its way every client holds the service's state, unless an older state was said,
\* answered or taken up after a newer one.
ViewsAgreeInOrder ==
  ~overtaken => \A c \in joined :
    line[c] = <<>> /\ client[c].at = "attached" /\ (\A d \in Client : thread[d].at \notin {"say", "reply"})
      => view[c] = state

\* What a client was answered as done is in workspace.json, whatever else is asked for, fails or
\* ends meanwhile, until the same part is asked to be something else; a conversation until TalkLimit
\* others came after it.  The one answer without this promise is that of Knows.
TalkKept(t) == \/ owed.since[t] = Nothing \/ \E i \in DOMAIN disk.talks : disk.talks[i] = t
               \/ Cardinality(owed.since[t]) >= TalkLimit
KeepsWhatWasDone ==
  /\ disk.root \in owed.root /\ disk.draft \in owed.draft /\ disk.layout \in owed.layout
  /\ owed.prefers \subseteq disk.prefers
  /\ \A t \in Talk : TalkKept(t)

StoreSpec == StoreInit /\ [][StoreNext]_storeVars
=============================================================================
