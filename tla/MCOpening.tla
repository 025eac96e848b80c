----------------------------- MODULE MCOpening -----------------------------
(***************************************************************************)
(* How a workspace is opened and spoken with, checked side by side: the    *)
(* lifecycle feed, the launcher, the channel to a desktop window, the *)
(* conversation an agent's pane holds, and its tools.  A behaviour is of   *)
(* one part.                                                               *)
(***************************************************************************)
EXTENDS LifecycleFeed   \* its state is the part called feed

CONSTANTS
  Launcher, Plain, Nobody, MaxEnds, MaxReloads, MaxKills,   \* WorkspaceLaunch
  Request, Closing, Relay, MaxLines, MaxNotes,              \* WindowControl
  Pane, Id, None, MaxMoves, MaxLost,                        \* AgentConversation
  Agent, MaxWrites, MaxDeaths                               \* ToolFacade

ASSUME OpeningConstants == Nobody \notin Launcher /\ None \notin Id

VARIABLES part,
  at, lock, host, sessions, preferred, count, robbed, together,
  request, next, pending, input, desk, output, ear, closing, listener, relay, lines, notes, deafened, unheard,
  recipe, pane, record, remembered, cli, context, hooks, used, moves, drops, been, amiss,
  published, writes, worker, alive, born, held, loop, watcher, reads, names, ran, deaths, failed, blind, silent, amid

\* A person who opens a workspace, one who asks for an agent and a game on a new host, one who
\* hands a conversation over, and a host without a desktop.
MCWish ==
  {[headless |-> FALSE, replace |-> FALSE, handoff |-> FALSE, agent |-> Plain, game |-> FALSE],
   [headless |-> FALSE, replace |-> TRUE, handoff |-> FALSE, agent |-> "named", game |-> TRUE],
   [headless |-> FALSE, replace |-> FALSE, handoff |-> TRUE, agent |-> "named", game |-> FALSE],
   [headless |-> TRUE, replace |-> FALSE, handoff |-> FALSE, agent |-> Plain, game |-> FALSE]}

Launch  == INSTANCE WorkspaceLaunch WITH Wish <- MCWish
Control == INSTANCE WindowControl WITH reader <- ear, window <- desk, lost <- unheard
Talk    == INSTANCE AgentConversation
Tools   == INSTANCE ToolFacade WITH lock <- held, cli <- reads, context <- names

launch  == <<at, lock, host, sessions, preferred, count, robbed, together>>
control == <<request, next, pending, input, desk, output, ear, closing, listener, relay, lines, notes, deafened, unheard>>
talk    == <<recipe, pane, record, remembered, cli, context, hooks, used, moves, drops, been, amiss>>
tools   == <<published, writes, worker, alive, born, held, loop, watcher, reads, names, ran, deaths, failed, blind, silent, amid>>

AnyInit == /\ part \in {"feed", "launch", "control", "talk", "tools"}
           /\ Init /\ Launch!LaunchInit /\ Control!ControlInit /\ Talk!ConversationInit /\ Tools!FacadeInit
           /\ part # "launch" => host = 0
           /\ part # "talk" => recipe = [starts |-> TRUE, reports |-> TRUE]
           /\ part # "tools" => names = CHOOSE a \in Agent : TRUE

OfFeed     == part = "feed" /\ Next /\ UNCHANGED <<part, launch, control, talk, tools>>
OfLaunch   == part = "launch" /\ Launch!LaunchNext /\ UNCHANGED <<part, vars, control, talk, tools>>
OfControl  == part = "control" /\ Control!ControlNext /\ UNCHANGED <<part, vars, launch, talk, tools>>
OfTalk     == part = "talk" /\ Talk!ConversationNext /\ UNCHANGED <<part, vars, launch, control, tools>>
OfTools    == part = "tools" /\ Tools!FacadeNext /\ UNCHANGED <<part, vars, launch, control, talk>>
AnyNext    == OfFeed \/ OfLaunch \/ OfControl \/ OfTalk \/ OfTools

AnySpec == AnyInit /\ [][AnyNext]_<<part, vars, launch, control, talk, tools>>

\* Beyond one frame only behaviours in order are followed, of one worker or of one socket, and
\* beyond two only those of the first worker on one socket; two relays of a window, or two requests
\* and its diagnostics.
MCOpened ==
  /\ sequence > 1 => ~overtaken /\ (attached = {FirstWorker} \/ socket[MaxSockets] = Unopened)
  /\ sequence > 2 => attached = {FirstWorker} /\ socket[MaxSockets] = Unopened
  /\ (\A k \in Relay : relay[k].pc # "off") => notes = 0 /\ \E r \in Request : request[r].pc = "idle"
-----------------------------------------------------------------------------
\* Launchers do not build over each other, and one on a workspace that is open reattaches
\* (WorkspaceLaunch, build and open_workspace).
LaunchersShare == Launch!LaunchersShare

\* A window's answer is to who asked, nobody waits on a window that is gone, and what it
\* says to another speaker is heard (WindowControl, Control and automation).
ControlKeepsApart == Control!ControlKeepsApart

\* The conversation a pane is recorded with, and resumed in, is one its CLI was in, unless a
\* report was lost or came late (AgentConversation, launch_plan and report_session).
RecordNamesWhatRan == Talk!RecordNamesWhatRan

\* An agent keeps its tools over every update that fails, is brought to what is published and told,
\* and a call runs once for each worker that had it, as the agent its context names (ToolFacade).
ToolsStay == Tools!ToolsStay
=============================================================================
