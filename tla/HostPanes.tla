------------------------------ MODULE HostPanes ------------------------------
(***************************************************************************)
(* The panes of a workspace, between the host's door and the service that  *)
(* holds them (red-host: panes.rs, games.rs, main.rs; red-pty: lib.rs).    *)
(* The door keeps a record of every pane, `mirror`, from what the service  *)
(* announces on one socket, `wire`, and judges every request by it.  A     *)
(* call of the door looks at its record, asks the service, and acts on the *)
(* answer later; meanwhile panes end, and the service says so.             *)
(*                                                                         *)
(* The service answers the door one request at a time.  It takes a         *)
(* snapshot under the pane's lock and says it under another, so what it    *)
(* says of a pane's end may be said before what it took earlier.           *)
(***************************************************************************)
EXTENDS Naturals, Sequences, FiniteSets

CONSTANTS
  Call,           \* requests of the door; a pane is named by the call that starts it
  Title, Args,    \* declared games and the arguments a caller launches them with
  Paused,         \* conversations handed to a pane that waits for its view
  Conversation,   \* conversations an agent reports
  None, Failed,   \* no value, and the answer of a request that failed
  MaxLaunches, MaxAsks   \* bounds: launches, and requests of each kind about a pane

VARIABLES
  call,           \* each request of the door
  session,        \* the service's panes
  gate,           \* panes whose gate file is written
  serving,        \* the request the service is answering
  ended,          \* panes whose end is recorded and not yet said
  wire,           \* what the service said and the door has not read
  mirror,         \* panes: the door's records
  reserved,       \* surfaces: the reservation of each launch
  known,          \* conversations the store remembers
  typed,          \* history: panes that were typed into before their view
  overtaken       \* history: panes of which the door took an older record after a newer one

historyVars == <<typed, overtaken>>
paneVars == <<call, session, gate, serving, ended, wire, mirror, reserved, known, historyVars>>

NoPane  == [state |-> "none", version |-> 0, want |-> None, gated |-> FALSE, released |-> TRUE, conversation |-> None]
NoCall  == [op |-> "none", pc |-> "idle", on |-> None, want |-> None, answer |-> None, conversation |-> None]
Nothing == [call |-> None, said |-> None, answer |-> None]

\* What a launch asks for.
Wanted(kind, names, args) == [kind : {kind}, name : names, args : args]
Game    == Wanted("game", Title, Args)
Handoff == Wanted("handoff", Paused, {None})
Agent   == Wanted("agent", {None}, {None})
Want    == Game \cup Handoff \cup Agent
Ops  == {"launch", "restart", "stop", "input", "present", "report"}

PanesInit ==
  /\ call = [c \in Call |-> NoCall] /\ session = [c \in Call |-> NoPane]
  /\ gate = {} /\ serving = Nothing /\ ended = {} /\ wire = <<>>
  /\ mirror = [c \in Call |-> NoPane]
  /\ reserved = [c \in Call |-> "none"] /\ known = {} /\ typed = {} /\ overtaken = {}

\* Requests are named in the order they come.
Arrives(c) == call[c].op = "none" /\ c = CHOOSE d \in Call : call[d].op = "none"

Over(c)     == [NoCall EXCEPT !.op = call[c].op, !.pc = "done", !.on = call[c].on]
Becomes(c, pc) == call' = [call EXCEPT ![c].pc = pc]
Known(p)    == mirror[p].state # "none"
Running(p)  == mirror[p].state = "running"
Waiting(p)  == mirror[p].gated /\ ~mirror[p].released   \* for its native view
Count(op)   == Cardinality({c \in Call : call[c].op = op})

-----------------------------------------------------------------------------
\* Starting a pane: spawn_pane, and games::launch around it.

Launch(c) ==
  /\ Arrives(c) /\ Count("launch") < MaxLaunches
  /\ \E want \in Want : call' = [call EXCEPT ![c] = [NoCall EXCEPT !.op = "launch", !.pc = "look", !.want = want]]
  /\ UNCHANGED <<session, gate, serving, ended, wire, mirror, reserved, known, historyVars>>

\* The pane the door believes to be running this game, or this conversation: it is the answer
\* (of a game, if the arguments agree; a refusal otherwise).
Same(want, p) ==
  /\ Running(p)
  /\ want.kind \in {"game", "handoff"}
  /\ mirror[p].want.kind = want.kind /\ mirror[p].want.name = want.name

LookFound(c) ==
  /\ call[c].pc = "look"
  /\ \E p \in Call : Same(call[c].want, p)
  /\ call' = [call EXCEPT ![c] = Over(c)]
  /\ UNCHANGED <<session, gate, serving, ended, wire, mirror, reserved, known, historyVars>>

\* A game that streams into a pane reserves its surface; an agent's conversation is remembered.
LookNew(c) ==
  /\ call[c].pc = "look"
  /\ \A p \in Call : ~Same(call[c].want, p)
  /\ reserved' = [reserved EXCEPT ![c] = IF call[c].want \in Game THEN "held" ELSE "none"]
  /\ known' = IF call[c].conversation = None THEN known ELSE known \cup {call[c].conversation}
  /\ Becomes(c, "spawn")
  /\ UNCHANGED <<session, gate, serving, ended, wire, mirror, historyVars>>

\* Nothing is started: what it would be started with, or its conversation, could not be kept.
LookFails(c) ==
  /\ call[c].pc = "look"
  /\ \A p \in Call : ~Same(call[c].want, p)
  /\ call' = [call EXCEPT ![c] = Over(c)]
  /\ UNCHANGED <<session, gate, serving, ended, wire, mirror, reserved, known, historyVars>>

Take(p, record) ==
  /\ mirror' = [mirror EXCEPT ![p] = record]
  /\ overtaken' = IF record.version < mirror[p].version THEN overtaken \cup {p} ELSE overtaken

\* The answer is put over whatever the door has heard of the pane since.
Started(c) ==
  /\ call[c].pc = "spawn" /\ call[c].answer \notin {None, Failed}
  /\ Take(c, call[c].answer)
  /\ Becomes(c, "claim")
  /\ UNCHANGED <<session, gate, serving, ended, wire, reserved, known, typed>>

Claim(c) ==
  /\ call[c].pc = "claim"
  /\ reserved' = [reserved EXCEPT ![c] = IF @ = "held" THEN "claimed" ELSE @]
  /\ call' = [call EXCEPT ![c] = Over(c)]
  /\ UNCHANGED <<session, gate, serving, ended, wire, mirror, known, historyVars>>

NotStarted(c) ==
  /\ call[c].pc = "spawn" /\ call[c].answer = Failed
  /\ reserved' = [reserved EXCEPT ![c] = "none"]
  /\ call' = [call EXCEPT ![c] = Over(c)]
  /\ UNCHANGED <<session, gate, serving, ended, wire, mirror, known, historyVars>>

-----------------------------------------------------------------------------
\* Requests about a pane, judged by the door's record of it.

Begin(c, op, p, pc) ==
  /\ Arrives(c) /\ Count(op) < MaxAsks
  /\ call' = [call EXCEPT ![c] = [NoCall EXCEPT !.op = op, !.pc = pc, !.on = p]]

Input(c) ==
  /\ \E p \in Call : Running(p) /\ ~Waiting(p) /\ Begin(c, "input", p, "input")
  /\ UNCHANGED <<session, gate, serving, ended, wire, mirror, reserved, known, historyVars>>

Stop(c) ==
  /\ \E p \in Call : Known(p) /\ Begin(c, "stop", p, "stop")
  /\ UNCHANGED <<session, gate, serving, ended, wire, mirror, reserved, known, historyVars>>

\* presented: the gate's file first, the record after it.
Present(c) ==
  /\ \E p \in Call : Running(p) /\ Waiting(p) /\ Begin(c, "present", p, "write")
  /\ UNCHANGED <<session, gate, serving, ended, wire, mirror, reserved, known, historyVars>>

\* Mutant: the record is changed although the file could not be written.
WriteGateAnyway(c) ==
  /\ call[c].pc = "write"
  /\ gate' \in {gate, gate \cup {call[c].on}} /\ Becomes(c, "describe")
  /\ UNCHANGED <<session, serving, ended, wire, mirror, reserved, known, historyVars>>

WriteGate(c) ==
  /\ call[c].pc = "write"
  /\ \/ gate' = gate \cup {call[c].on} /\ Becomes(c, "describe")
     \/ gate' = gate /\ call' = [call EXCEPT ![c] = Over(c)]
  /\ UNCHANGED <<session, serving, ended, wire, mirror, reserved, known, historyVars>>

\* An agent reports its conversation: the store's record first, the pane's after it.
Report(c) ==
  /\ \E p \in Call, said \in Conversation \cup {None} :
       /\ Known(p) /\ mirror[p].want \in Handoff \cup Agent
       /\ Arrives(c) /\ Count("report") < MaxAsks
       /\ call' = [call EXCEPT ![c] = [NoCall EXCEPT !.op = "report", !.on = p, !.conversation = said,
                                         !.pc = IF said = None THEN "describe" ELSE "record"]]
  /\ UNCHANGED <<session, gate, serving, ended, wire, mirror, reserved, known, historyVars>>

Record(c) ==
  /\ call[c].pc = "record"
  /\ \/ known' = known \cup {call[c].conversation} /\ Becomes(c, "describe")
     \/ known' = known /\ call' = [call EXCEPT ![c] = Over(c)]
  /\ UNCHANGED <<session, gate, serving, ended, wire, mirror, reserved, historyVars>>

\* agent-restart: the pane is stopped, then its conversation started in another.
Restart(c) ==
  /\ \E p \in Call : /\ Known(p) /\ mirror[p].conversation # None
                     /\ mirror[p].want \in Handoff \cup Agent
                     /\ Arrives(c) /\ Count("restart") < MaxAsks
                     /\ call' = [call EXCEPT ![c] = [NoCall EXCEPT !.op = "restart", !.pc = "stop", !.on = p,
                                   !.want = CHOOSE want \in Agent : TRUE, !.conversation = mirror[p].conversation]]
  /\ UNCHANGED <<session, gate, serving, ended, wire, mirror, reserved, known, historyVars>>

Answered(c) ==
  /\ call[c].pc \in {"input", "stop", "describe"} /\ call[c].answer # None
  /\ call' = IF call[c].op = "restart" /\ call[c].answer # Failed
             THEN [call EXCEPT ![c].pc = "look", ![c].answer = None]
             ELSE [call EXCEPT ![c] = Over(c)]
  /\ UNCHANGED <<session, gate, serving, ended, wire, mirror, reserved, known, historyVars>>

-----------------------------------------------------------------------------
\* The service: one request of the door at a time, what it says, and its answer.

Replied(c) == \E i \in DOMAIN wire : "call" \in DOMAIN wire[i] /\ wire[i].call = c
Asking(c) == /\ call[c].pc \in {"spawn", "input", "stop", "describe"} /\ call[c].answer = None
             /\ ~Replied(c)
Serve(c, said, answer) == serving' = [call |-> c, said |-> said, answer |-> answer]
Said(p, record) == [pane |-> p, record |-> record]

Spawn(c) ==
  /\ serving = Nothing /\ Asking(c) /\ call[c].pc = "spawn"
  /\ \/ LET pane == [state |-> "running", version |-> 1, want |-> call[c].want,
                     gated |-> call[c].want \in Handoff, released |-> call[c].want \notin Handoff,
                     conversation |-> call[c].conversation]
        IN  session' = [session EXCEPT ![c] = pane] /\ Serve(c, Said(c, pane), pane)
     \/ session' = session /\ Serve(c, None, Failed)
  /\ UNCHANGED <<call, gate, ended, wire, mirror, reserved, known, historyVars>>

TypeIn(c) ==
  /\ serving = Nothing /\ Asking(c) /\ call[c].pc = "input"
  /\ LET p == call[c].on IN
     /\ typed' = IF session[p].state = "running" /\ session[p].gated /\ p \notin gate
                 THEN typed \cup {p} ELSE typed
     /\ Serve(c, None, IF session[p].state = "running" THEN session[p] ELSE Failed)
  /\ UNCHANGED <<call, session, gate, ended, wire, mirror, reserved, known, overtaken>>

\* Mutant: a changed record is not said, only answered.
DescribeUnsaid(c) ==
  /\ serving = Nothing /\ Asking(c) /\ call[c].pc = "describe"
  /\ LET p == call[c].on
         described == IF call[c].op = "present"
                      THEN [session[p] EXCEPT !.version = @ + 1, !.released = TRUE]
                      ELSE [session[p] EXCEPT !.version = @ + 1, !.conversation = call[c].conversation]
     IN  session' = [session EXCEPT ![p] = described] /\ Serve(c, None, described)
  /\ UNCHANGED <<call, gate, ended, wire, mirror, reserved, known, historyVars>>

Describe(c) ==
  /\ serving = Nothing /\ Asking(c) /\ call[c].pc = "describe"
  /\ LET p == call[c].on
         described == IF call[c].op = "present"
                      THEN [session[p] EXCEPT !.version = @ + 1, !.released = TRUE]
                      ELSE [session[p] EXCEPT !.version = @ + 1, !.conversation = call[c].conversation]
     IN  session' = [session EXCEPT ![p] = described] /\ Serve(c, Said(p, described), described)
  /\ UNCHANGED <<call, gate, ended, wire, mirror, reserved, known, historyVars>>

\* stop: the state is set first; the signal may fail, and the child may outlive the wait.
StopPane(c) ==
  /\ serving = Nothing /\ Asking(c) /\ call[c].pc = "stop"
  /\ LET p == call[c].on IN
     IF session[p].state = "exited" THEN session' = session /\ Serve(c, None, session[p])
     ELSE /\ session' = [session EXCEPT ![p].state = "stopping", ![p].version = @ + 1]
          /\ Serve(c, None, None) \/ Serve(c, None, Failed)
  /\ UNCHANGED <<call, gate, ended, wire, mirror, reserved, known, historyVars>>

StopWaited ==
  /\ serving.call # None /\ call[serving.call].pc = "stop" /\ serving.answer = None
  /\ serving' = [serving EXCEPT !.answer = session[call[serving.call].on]]
  /\ UNCHANGED <<call, session, gate, ended, wire, mirror, reserved, known, historyVars>>

Announce ==
  /\ serving.said # None
  /\ wire' = Append(wire, serving.said) /\ serving' = [serving EXCEPT !.said = None]
  /\ UNCHANGED <<call, session, gate, ended, mirror, reserved, known, historyVars>>

Reply ==
  /\ serving.call # None /\ serving.said = None /\ serving.answer # None
  /\ wire' = Append(wire, [call |-> serving.call, answer |-> serving.answer])
  /\ serving' = Nothing
  /\ UNCHANGED <<call, session, gate, ended, mirror, reserved, known, historyVars>>

Exit(p) ==
  /\ session[p].state \in {"running", "stopping"}
  /\ LET gone == [session[p] EXCEPT !.state = "exited", !.version = @ + 1]
     IN  session' = [session EXCEPT ![p] = gone] /\ ended' = ended \cup {Said(p, gone)}
  /\ UNCHANGED <<call, gate, serving, wire, mirror, reserved, known, historyVars>>

SayEnded ==
  /\ \E said \in ended : ended' = ended \ {said} /\ wire' = Append(wire, said)
  /\ UNCHANGED <<call, session, gate, serving, mirror, reserved, known, historyVars>>

-----------------------------------------------------------------------------
\* The door reads its socket: an answer wakes its call, a record replaces the door's.

ReadAnswer ==
  /\ wire # <<>> /\ "call" \in DOMAIN Head(wire)
  /\ call' = [call EXCEPT ![Head(wire).call].answer = Head(wire).answer]
  /\ wire' = Tail(wire)
  /\ UNCHANGED <<session, gate, serving, ended, mirror, reserved, known, historyVars>>

\* A pane that ended gives its surface up, if the launch has claimed it by then.
ReadRecord ==
  /\ wire # <<>> /\ "pane" \in DOMAIN Head(wire)
  /\ LET p == Head(wire).pane  record == Head(wire).record IN
     /\ Take(p, record)
     /\ reserved' = [reserved EXCEPT ![p] =
                       IF record.state = "exited" /\ @ = "claimed" THEN "none" ELSE @]
  /\ wire' = Tail(wire)
  /\ UNCHANGED <<call, session, gate, serving, ended, known, typed>>

DoorStep(c) ==
  \/ LookFound(c) \/ LookNew(c) \/ LookFails(c) \/ Started(c) \/ Claim(c) \/ NotStarted(c)
  \/ WriteGate(c) \/ Record(c) \/ Answered(c)
ServiceStep ==
  \/ \E c \in Call : Spawn(c) \/ TypeIn(c) \/ Describe(c) \/ StopPane(c)
  \/ StopWaited \/ Announce \/ Reply
Read == ReadAnswer \/ ReadRecord

PanesNext ==
  \/ \E c \in Call : \/ Launch(c) \/ Input(c) \/ Stop(c) \/ Present(c) \/ Report(c) \/ Restart(c)
                     \/ DoorStep(c) \/ Exit(c)
  \/ ServiceStep \/ SayEnded \/ Read

-----------------------------------------------------------------------------
PanesTypeOK ==
  /\ \A c \in Call : call[c].op \in Ops \cup {"none"} /\ call[c].want \in Want \cup {None}
  /\ \A p \in Call : \A record \in {session[p], mirror[p]} :
       /\ record.state \in {"none", "running", "stopping", "exited"}
       /\ record.want \in Want \cup {None} /\ record.conversation \in Conversation \cup {None}
  /\ gate \subseteq Call /\ known \subseteq Conversation /\ overtaken \subseteq Call
  /\ \A c \in Call : reserved[c] \in {"none", "held", "claimed"}

\* A pane that was handed a conversation takes no keystroke before its view is on a screen: the
\* record that lets the door type follows the gate's file, on every path the record travels.
NoInputBeforeView == typed = {}

\* A pane never offers to resume a conversation the workspace has not heard of, whatever reports
\* and restarts come in between and whichever of the two writes fails.
PaneConversationKnown == \A p \in Call : session[p].conversation \in known \cup {None}

\* A restarted conversation does not run beside the pane it was taken from.
RestartReplaces ==
  \A c \in Call : call[c].op = "restart" /\ session[c].state # "none"
                 => session[call[c].on].state \in {"stopping", "exited"}

\* The three together: a pane's conversation is on a screen before it is typed to, in the workspace
\* before it is offered again, and in one pane (deliver_input, present, record_conversation, restart).
PanesInOrder == NoInputBeforeView /\ PaneConversationKnown /\ RestartReplaces

Quiet == wire = <<>> /\ ended = {} /\ serving = Nothing /\ \A c \in Call : call[c].pc \in {"idle", "done"}

\* When nothing is on its way, the door's record of a pane is the service's, unless an older record
\* came after a newer one, or a stop failed: that a pane is stopping is never said.
MirrorAgreesInOrder ==
  Quiet => \A p \in Call \ overtaken : mirror[p] = session[p] \/ session[p].state = "stopping"

\* The same without that exception: the rule the door applies is the one the workspace lives under.
MirrorAgrees == Quiet => \A p \in Call : mirror[p].state = session[p].state

\* A launch of a game that is being started joins it rather than starting a second process.
OneRunOfAGame ==
  \A p, q \in Call : session[p].state = "running" /\ session[q].state = "running"
                      /\ session[p].want \in Game /\ session[p].want = session[q].want => p = q

PanesSpec == PanesInit /\ [][PanesNext]_paneVars
=============================================================================
