---------------------------- MODULE ProjectWindows ----------------------------
(***************************************************************************)
(* The project windows of a state directory and the letters two agents     *)
(* exchange across them (red-supervisor: windows.rs and the supervisor's   *)
(* routes over it).  A window has two sides; a letter goes to the other    *)
(* one, under a retry key, and is read by cursor.  Every change is made on *)
(* a copy that counts once it is on disk; a write may fail, and the        *)
(* supervisor may end between the disk and the answer.                     *)
(***************************************************************************)
EXTENDS Integers, Sequences, FiniteSets, SequencesExt

CONSTANTS
  Root, Agent, Key, Content, Layout,
  NoLayout, AnyWindow,    \* a window that saved no layout, an inbox read without a window
  MaxWindows, MaxReports, \* the limits of the store
  Page,                   \* how many letters one reading of an inbox takes
  MaxEnds                 \* bound: ends of the supervisor

VARIABLES
  memory, file,           \* the store as the supervisor holds it and as it is on disk
  told,                   \* history: the letters some sender was answered with
  reader, cursor, got,    \* one reader of an inbox, where it stands, and history: what it was given
  ends

windowVars == <<memory, file, told, reader, cursor, got, ends>>

Empty  == [windows |-> <<>>, reports |-> <<>>]
Reader == [root : Root, window : 1 .. MaxWindows \cup {AnyWindow}, projectSide : BOOLEAN]

WindowsInit ==
  /\ memory = Empty /\ file = Empty /\ told = {} /\ ends = 0
  /\ reader \in Reader /\ cursor = 0 /\ got = <<>>

\* A change made on a copy: kept and answered, refused and nowhere, or on disk with the supervisor
\* gone before it answered, which then reads it back.
Writes(next, letters) ==
  \/ file' = next /\ memory' = next /\ told' = told \cup letters /\ UNCHANGED ends
  \/ UNCHANGED <<file, memory, told, ends>>
  \/ ends < MaxEnds /\ ends' = ends + 1 /\ file' = next /\ memory' = file' /\ UNCHANGED told

Restarts ==
  /\ ends < MaxEnds /\ ends' = ends + 1
  /\ memory' = file /\ UNCHANGED <<file, told, reader, cursor, got>>

\* The window of that number, if the root is on one of its sides.
Own(root, id) == id \in DOMAIN memory.windows /\ root \in {memory.windows[id].origin, memory.windows[id].project}

-----------------------------------------------------------------------------
Create(origin, project, agent) ==
  LET triple == [origin |-> origin, project |-> project, agent |-> agent, layout |-> NoLayout]
      known  == \E i \in DOMAIN memory.windows : [memory.windows[i] EXCEPT !.layout = NoLayout] = triple IN
  /\ origin # project
  /\ known \/ Len(memory.windows) < MaxWindows
  /\ Writes(IF known THEN memory ELSE [memory EXCEPT !.windows = Append(@, triple)], {})
  /\ UNCHANGED <<reader, cursor, got>>

SaveLayout(id, layout) ==
  /\ id \in DOMAIN memory.windows
  /\ Writes([memory EXCEPT !.windows[id].layout = layout], {})
  /\ UNCHANGED <<reader, cursor, got>>

-----------------------------------------------------------------------------
Existing(id, sender, key) ==
  {i \in DOMAIN memory.reports : LET r == memory.reports[i] IN r.window = id /\ r.sender = sender /\ r.key = key}
NextSequence == IF memory.reports = <<>> THEN 1 ELSE Last(memory.reports).sequence + 1

\* report(): to the other side than the sender's.  Only the origin may speak as its project: claims
\* is any truthy fromProject, which asks for the permission; asProject the literal true.
Report(root, id, asProject, claims, key, content) ==
  /\ Own(root, id) /\ (claims => root = memory.windows[id].origin)
  /\ LET w == memory.windows[id]
         sender == IF asProject THEN w.project ELSE root
         letter == [window |-> id, by |-> root, sender |-> sender,
                    destination |-> IF sender = w.origin THEN w.project ELSE w.origin,
                    key |-> key, content |-> content, sequence |-> NextSequence] IN
     \/ /\ Existing(id, sender, key) = {} /\ Len(memory.reports) < MaxReports
        /\ Writes([memory EXCEPT !.reports = Append(@, letter)], {letter})
     \/ \E i \in Existing(id, sender, key) :
        /\ [letter EXCEPT !.sequence = memory.reports[i].sequence] = memory.reports[i]
        /\ Writes(memory, {memory.reports[i]})
  /\ UNCHANGED <<reader, cursor, got>>

\* Whose letters a reader of an inbox is given; nobody's when it is refused.
Recipients ==
  IF ~reader.projectSide THEN IF reader.window = AnyWindow \/ Own(reader.root, reader.window) THEN {reader.root} ELSE {}
  ELSE {memory.windows[i].project : i \in {j \in DOMAIN memory.windows : j = reader.window /\ memory.windows[j].origin = reader.root}}
Addressed(recipient) ==
  {i \in DOMAIN memory.reports : /\ memory.reports[i].destination = recipient
                                 /\ reader.window \in {AnyWindow, memory.reports[i].window}}

\* The one sequence of a set of numbers in their order.
InOrder(S) == {q \in [1 .. Cardinality(S) -> S] : /\ \A i \in S : \E k \in DOMAIN q : q[k] = i
                                                 /\ \A k, l \in DOMAIN q : k < l => q[k] < q[l]}

\* Mutant: the cursor moves past every letter there is.
CursorPastAll(taken) == IF taken = <<>> THEN cursor ELSE Last(memory.reports).sequence

CursorOf(taken) == IF taken = <<>> THEN cursor ELSE Last(taken).sequence

Inbox ==
  \E recipient \in Recipients :
    \E waiting \in InOrder({i \in Addressed(recipient) : memory.reports[i].sequence > cursor}) :
      LET taken == [k \in 1 .. (IF Len(waiting) < Page THEN Len(waiting) ELSE Page) |-> memory.reports[waiting[k]]] IN
      /\ got' = got \o taken /\ cursor' = CursorOf(taken)
      /\ UNCHANGED <<memory, file, told, reader, ends>>

WindowsNext ==
  \/ \E origin, project \in Root, agent \in Agent : Create(origin, project, agent)
  \/ \E id \in 1 .. MaxWindows, layout \in Layout : SaveLayout(id, layout)
  \/ \E root \in Root, id \in 1 .. MaxWindows, key \in Key, content \in Content :
       Report(root, id, TRUE, TRUE, key, content) \/ Report(root, id, FALSE, TRUE, key, content)
         \/ Report(root, id, FALSE, FALSE, key, content)
  \/ Inbox \/ Restarts

-----------------------------------------------------------------------------
\* A letter its sender was answered with is kept as it was, on disk and in memory, under one key
\* once, and addressed to the side that did not send it: whatever is retried, fails or restarts.
LettersKept ==
  /\ \A letter \in told : \E i \in DOMAIN file.reports : file.reports[i] = letter
  /\ memory = file
  /\ \A i, j \in DOMAIN memory.reports :
       LET r == memory.reports[i]
           s == memory.reports[j]
           w == memory.windows[r.window] IN
       /\ {r.sender, r.destination} = {w.origin, w.project}
       /\ (r.window = s.window /\ r.sender = s.sender /\ r.key = s.key) => i = j

\* What a reader was given page by page is all that was sent to it up to its cursor, each letter
\* once and in order: no cursor passes over a letter, and no restart changes a number.
InboxComplete ==
  /\ \A recipient \in Recipients :
       Range(got) = {memory.reports[i] : i \in {j \in Addressed(recipient) : memory.reports[j].sequence <= cursor}}
  /\ \A k, l \in DOMAIN got : k < l => got[k].sequence < got[l].sequence

\* Both: no letter is lost, doubled or passed over between its sender and its reader.
LettersArrive == LettersKept /\ InboxComplete

WindowsSpec == WindowsInit /\ [][WindowsNext]_windowVars
=============================================================================
