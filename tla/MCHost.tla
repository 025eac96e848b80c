------------------------------- MODULE MCHost -------------------------------
(***************************************************************************)
(* The session host and its desktops, checked side by side: a behaviour is *)
(* of one part, which the code's own tasks keep moving, and the other      *)
(* parts stay as they began.                                               *)
(***************************************************************************)
EXTENDS Naturals, FiniteSets

CONSTANTS None, Failed, Nobody, NoLine,
  Request, Title, Args, Paused, Conversation, MaxLaunches, MaxAsks,   \* HostPanes
  Relay, Brief, Person, Attempts, MaxArm,                             \* SessionMessage
  Producer, Viewer, MaxPackets,                                       \* SurfaceBoard
  Socket, Caller, Action, Frames, NoDesk, MaxMint,                      \* DesktopRegistry
  Desktop, FirstShown, MaxMoves, MaxFails, MaxWorkers,                               \* SegmentPush
  Server, Query, Author, Desk                                         \* WorkerRoutes

VARIABLES part,
  call, session, gate, serving, ended, wire, mirror, reserved, known, typed, overtaken,
  running, spoke, composer, watch, deciding, record, grants, relay, enters, touched,
  token, producer, frames, input, viewer, owner, packets, holding,
  desk, minted, task, ending, pending, asked, told, yes,
  moves, workers, wants, bound, pushing, shown, fails, missed,
  routed, current, generation, counter, holder, queue, written, panesOf, named, window, stored, feed

Panes   == INSTANCE HostPanes WITH Call <- Request
Message == INSTANCE SessionMessage
Board   == INSTANCE SurfaceBoard WITH reserved <- token
Desks   == INSTANCE DesktopRegistry WITH Call <- Caller, call <- asked
Segment == INSTANCE SegmentPush WITH First <- FirstShown
Routes  == INSTANCE WorkerRoutes WITH Worker <- Server, Agent <- Author, Call <- Query, call <- routed, panes <- panesOf

\* What the pane service records of a pane, and what it says of one.
PaneRecords ==
  [state : {"none", "running", "stopping", "exited"}, version : Nat, want : Panes!Want \cup {None},
   gated : BOOLEAN, released : BOOLEAN, conversation : Conversation \cup {None}]
Sayings == [pane : Request, record : PaneRecords]

\* The marks that stand for no desktop, no request, no value and a failure are none of the things
\* they stand beside, and some worker serves.
ASSUME HostConstants ==
  /\ NoDesk \notin Socket /\ NoDesk \notin [id : Nat, can : Frames]
  /\ Nobody \notin Query /\ Server # {}
  /\ None \notin Request /\ None # Failed
  /\ None \notin PaneRecords /\ Failed \notin PaneRecords /\ None \notin Sayings

panes   == <<call, session, gate, serving, ended, wire, mirror, reserved, known, typed, overtaken>>
message == <<running, spoke, composer, watch, deciding, record, grants, relay, enters, touched>>
board   == <<token, producer, frames, input, viewer, owner, packets, holding>>
desks   == <<desk, minted, task, ending, pending, asked, told, yes>>
segment == <<moves, workers, wants, bound, pushing, shown, fails, missed>>
routes  == <<routed, current, generation, counter, holder, queue, written, panesOf, named, window, stored, feed>>
vars    == <<part, panes, message, board, desks, segment, routes>>

Init == /\ part \in {"panes", "message", "board", "desks", "segment", "routes"}
        /\ Panes!PanesInit /\ Message!MessageInit /\ Board!BoardInit
        /\ Desks!DeskInit /\ Segment!SegmentInit /\ Routes!RoutesInit
        /\ part # "message" => watch = Message!NoWatch
        /\ part # "routes" => holder = Nobody

OfPanes   == part = "panes" /\ Panes!PanesNext /\ UNCHANGED <<part, message, board, desks, segment, routes>>
OfMessage == part = "message" /\ Message!MessageNext /\ UNCHANGED <<part, panes, board, desks, segment, routes>>
OfBoard   == part = "board" /\ Board!BoardNext /\ UNCHANGED <<part, panes, message, desks, segment, routes>>
OfDesks   == part = "desks" /\ Desks!DeskNext /\ UNCHANGED <<part, panes, message, board, segment, routes>>
OfSegment == part = "segment" /\ Segment!SegmentNext /\ UNCHANGED <<part, panes, message, board, desks, routes>>
OfRoutes  == part = "routes" /\ Routes!RoutesNext /\ UNCHANGED <<part, panes, message, board, desks, segment>>
Next == OfPanes \/ OfMessage \/ OfBoard \/ OfDesks \/ OfSegment \/ OfRoutes

\* Two requests of which one writes to the tracker, and the other does, starts a pane or asks the host.
Arrived == {c \in Query : routed[c].pc # "none"}
MCRouted == part = "routes" /\ Cardinality(Arrived) > 1 =>
  /\ Cardinality({c \in Arrived : routed[c].kind # "task"}) <= 1
  /\ \A c \in Arrived : routed[c].kind \in {"task", "spawn", "update"}

\* What the runtime keeps running: a caller of act() and the tasks that push a segment.
Asks(c)    == part = "desks" /\ Desks!CallerStep(c) /\ UNCHANGED <<part, panes, message, board, segment, routes>>
TakesUp    == part = "segment" /\ Segment!TakesUp /\ UNCHANGED <<part, panes, message, board, desks, routes>>
Pushes(t)  == /\ part = "segment" /\ (Segment!Asks(t) \/ Segment!Pushes(t))
              /\ UNCHANGED <<part, panes, message, board, desks, routes>>
Returns(d) == part = "segment" /\ Segment!Registers(d) /\ UNCHANGED <<part, panes, message, board, desks, routes>>

Fairness ==
  /\ \A c \in Caller : WF_vars(Asks(c))
  /\ WF_vars(TakesUp) /\ \A t \in Segment!Task : WF_vars(Pushes(t))
  /\ \A d \in Desktop : WF_vars(Returns(d))

Spec == Init /\ [][Next]_vars /\ Fairness
-----------------------------------------------------------------------------
\* A pane that was handed a conversation takes no keystroke before its view is on a screen, a pane
\* never offers a conversation the workspace has not heard of, a restarted one does not run beside
\* the pane it was taken from; and with nothing on its way the door's record of a pane is the
\* service's, unless an older record came after a newer one or a stop failed (HostPanes).
PanesInOrder == Panes!PanesInOrder /\ Panes!MirrorAgreesInOrder

\* An Enter is pressed only on a line the pane has echoed (SessionMessage, the handshake).
EnterFindsItsLine == Message!EnterFindsItsLine

\* The keys a game holds down are those of the viewer that owns the input, once what was queued
\* has reached it (SurfaceBoard, from_viewer, detach and release).
KeysAreTheOwners == Board!KeysAreTheOwners

\* A request counts as taken only by the desktop it was said to, and an entry in the table of
\* requests has a caller that waits for it and a desktop that can still answer it, so the table
\* does not grow and nobody is refused for nothing (DesktopRegistry, acknowledge and act).
OneCallerOneDesktop == Desks!OneCallerOneDesktop

\* Every call of act() ends, whatever its desktop does (DesktopRegistry, the timeout).
CallsEnd == Desks!CallsEnd

\* However pushes overtake and workers are replaced, every status bar comes to show the ledger's
\* last transition without asking (SegmentPush, push_segment and the editor's re_token_event).
StatusBarsCatchUp == part = "segment" => Segment!StatusBarsCatchUp

\* However first requests and writes overlap, also over a rollover, a worker's generation is told
\* once and the feed tells of writes that were made (WorkerRoutes, announce and task).
FeedIsTrue == Routes!FeedIsTrue
=============================================================================
