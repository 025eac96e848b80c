----------------------------- MODULE MCServices -----------------------------
(***************************************************************************)
(* The on-demand services: how one is started and goes away again, and     *)
(* what the store's does for its clients; how the host is replaced; the    *)
(* windows of a supervisor and the letters it keeps for them; and the      *)
(* drafts of the desktops.  A behaviour is of one part.                    *)
(***************************************************************************)
EXTENDS Naturals, FiniteSets

CONSTANTS
  Starter, Past, Nobody, MaxDeaths,                                     \* ServiceStart
  Client, Declaration, Layout, Talk, TalkLimit, Preference, Nothing, Unbound,
  MaxEdits, MaxAsks, MaxEnds,                                           \* StoreService
  Pid, MaxEvents,                                                       \* HostReplacement
  Root, Agent, Key, Content, NoLayout, AnyWindow, MaxWindows, MaxReports, Page, MaxRestarts, \* ProjectWindows
  Opener, MaxViews,                                                     \* ManagedWindow
  Editor, Slots, MaxTyped, MaxLate                                      \* DesktopDrafts

VARIABLES part,
  starter, lock, service, descriptor, attached, lost,
  state, disk, file, thread, locked, joined, line, client, view, asked, deaths, overtaken, owed,
  proc, sidecar, runtimes, published, table, step, found, todo, signalled, events, reused, forgot,
  memory, document, told, reader, cursor, got, ends,
  win, held, turn, holds, opener, job, raced,
  tab, outgoing, heard, late, text, draft, typed, kept, crossed

Start == INSTANCE ServiceStart WITH client <- attached
Store == INSTANCE StoreService WITH MaxDeaths <- MaxEnds
Replace == INSTANCE HostReplacement
Letters == INSTANCE ProjectWindows WITH file <- document, MaxEnds <- MaxRestarts
Views   == INSTANCE ManagedWindow
Drafts  == INSTANCE DesktopDrafts WITH Window <- Editor, line <- outgoing, file <- text

\* Who wants a service is neither of an earlier time nor nobody; what is absent from the store is
\* neither a state nor a part of one.
ASSUME ServicesConstants ==
  /\ Past \notin Starter /\ Nobody \notin Starter
  /\ Nothing \notin Store!States /\ TalkLimit \in Nat \ {0} /\ MaxEdits \in Nat
  /\ Slots \in Nat /\ Page \in Nat /\ MaxViews \in Nat

\* A process table is finite, and there are pids for those who run at first.
ASSUME ProcessConstants ==
  /\ Nobody \notin Pid /\ IsFiniteSet(Pid)
  /\ {"host", "supervisor", "worker", "tool", "pty", "launcher", "foreign"} \subseteq Pid

start == <<starter, lock, service, descriptor, attached, lost>>
store == <<state, disk, file, thread, locked, joined, line, client, view, asked, deaths, overtaken, owed>>
replace == <<proc, sidecar, runtimes, published, table, step, found, todo, signalled, events, reused, forgot>>
letters == <<memory, document, told, reader, cursor, got, ends>>
window  == <<win, held, turn, holds, opener, job, raced>>
drafts  == <<tab, outgoing, heard, late, text, draft, typed, kept, crossed>>
vars    == <<part, start, store, replace, letters, window, drafts>>

Init == /\ part \in {"start", "store", "replace", "letters", "window", "drafts"}
        /\ Start!StartInit /\ Store!StoreInit /\ Replace!ReplaceInit
        /\ Letters!WindowsInit /\ Views!WindowInit /\ Drafts!DraftInit
        /\ part # "store" => state = Store!Fresh
        /\ part # "start" => lock = Start!NoLock /\ descriptor = Nobody
        /\ part # "replace" => sidecar = Nobody /\ runtimes = {} /\ published = {} /\ proc = CHOOSE w \in Replace!Worlds : w["host"].what = "none"
        /\ part # "letters" => reader = CHOOSE r \in Letters!Reader : ~r.projectSide

OfStart   == part = "start" /\ Start!StartNext /\ UNCHANGED <<part, store, replace, letters, window, drafts>>
OfStore   == part = "store" /\ Store!StoreNext /\ UNCHANGED <<part, start, replace, letters, window, drafts>>
OfReplace == part = "replace" /\ Replace!ReplaceNext /\ UNCHANGED <<part, start, store, letters, window, drafts>>
OfLetters == part = "letters" /\ Letters!WindowsNext /\ UNCHANGED <<part, start, store, replace, window, drafts>>
OfWindow  == part = "window" /\ Views!WindowNext /\ UNCHANGED <<part, start, store, replace, letters, drafts>>
OfDrafts  == part = "drafts" /\ Drafts!DraftNext /\ UNCHANGED <<part, start, store, replace, letters, window>>
Next == OfStart \/ OfStore \/ OfReplace \/ OfLetters \/ OfWindow \/ OfDrafts

\* A window is followed as long as nothing raced, and beside an update while one caller opens it
\* at a time.
Opening == {o \in Opener : opener[o].pc \notin {"idle", "done"}}
MCFollowed == part = "window" => raced = {} /\ (Views!Busy => Cardinality(Opening) <= 1)

\* The second tab is opened on the file after the first, with one text made, and each tab has one
\* request pending then, as it has beside a request performed late, which is followed for one text.
Editing == {e \in Editor : tab[e].pc \in {"open", "closing"}}
MCDrafted == part = "drafts" =>
  /\ \A d, e \in Editor : d < e /\ tab[e].pc # "shut" => tab[d].pc # "shut" /\ typed <= 1 /\ late = {}
  /\ Cardinality({e \in Editor : Drafts!Pending(e) > 0}) <= 1
  /\ late # {} => typed <= 1
  /\ Cardinality(Editing) = 2 \/ late # {} => \A e \in Editor : Drafts!Pending(e) <= 1

Spec == Init /\ [][Next]_vars
-----------------------------------------------------------------------------
\* A directory is served by one service, the one its descriptor leads to, unless a lock was taken
\* from somebody who was starting (ServiceStart, ensure() and serve()).
OneServingUnlessLost == Start!OneServingUnlessLost

\* With nothing on its way every client holds the store's state, unless an older state was said,
\* answered or taken up after a newer one (StoreService, the emitter and read_answers()).
ViewsAgreeInOrder == Store!ViewsAgreeInOrder

\* What a client was answered as done is in workspace.json over failed writes, other requests and
\* restarts, until the same part was asked for again; a root that was found in memory excepted
\* (StoreService, persist, add_root and record_conversation).
KeepsWhatWasDone == Store!KeepsWhatWasDone

\* Replacing the host signals that host, the supervisors its runtime descriptors name and their
\* children, and neither a service a descriptor names nor anything of another workspace but a
\* supervisor at a pid such a descriptor still names, unless a pid was given away since; and it
\* leaves one host and none of what it listed of the former one, unless it removed the descriptor of
\* a host that another launcher had started (HostReplacement, stop.rs and replace.rs).
ReplacesItsOwn == Replace!OnlyItsOwn /\ Replace!OneHostLeft

\* A letter whose sender was answered is kept, under its key once, for the other side of its
\* window, whatever is retried, fails or restarts, and a reader that pages through an inbox is
\* given every letter up to its cursor (ProjectWindows, report, write and inbox).
LettersArrive == Letters!LettersArrive

\* When all is done the views map holds the window that runs, unless a race named in the module
\* was run (ManagedWindow, put_back, the watcher and open_view).
HeldUnlessRaced == Views!HeldUnlessRaced

\* A desktop that goes leaves what was typed in it in the file or in its draft, unless that was
\* taken as the module says (DesktopDrafts, re_app_quit, response and save_text).
QuitLosesNothing == Drafts!QuitLosesNothing
=============================================================================
