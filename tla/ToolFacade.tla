----------------------------- MODULE ToolFacade -----------------------------
(***************************************************************************)
(* An agent's tools (red-mcp).  The facade keeps the CLI's one connection  *)
(* while the tool worker behind it is replaced: by its watcher or before a *)
(* request, when the supervisor publishes another worker, and after one    *)
(* that died (facade.rs).  A worker answers a call against the workspace's *)
(* state of that moment, as the agent its context names (main.rs,          *)
(* workspace.rs, tools.rs).                                                *)
(***************************************************************************)
EXTENDS Naturals, FiniteSets

CONSTANTS
  Agent,        \* the identities the context file may name
  None,
  MaxWrites,    \* bound: times the descriptor is written
  MaxDeaths     \* bound: workers that die

VARIABLES
  published, writes,  \* runtime.json: the worker and generation it names, and how often it was written
  worker,       \* Facade.worker: its process and what it was started for; process 0 is none
  alive, born,  \* the tool workers that run, and how many were started
  lock,         \* who holds the facade: the loop, the watcher or nobody
  loop,         \* the request being handled
  watcher,      \* the watching thread, and the signature it saw
  cli,          \* what the CLI read its list of, and whether it was told of a change since
  context,      \* the agent the context file names
  ran,          \* the runs of the request being handled: by which process, as which agent
  deaths,       \* workers that died so far
  failed, blind, silent, amid  \* history

facadeVars == <<published, writes, worker, alive, born, lock, loop, watcher, cli, context, ran, deaths,
                failed, blind, silent, amid>>

NoWorker == [process |-> 0, of |-> 0]
Idle     == [pc |-> "idle", kind |-> "list", wants |-> 0, as |-> None, again |-> FALSE]
\* What is asked for: the list; a tool; one the ledger is asked about here, as its route never
\* sees the worker's gate; and one of a plugin.
Kinds    == {"list", "tool", "gated", "plugin"}

\* serve() has made a worker ready; the watcher has not looked yet.
FacadeInit ==
  /\ published = 0 /\ writes = 0 /\ worker = [process |-> 1, of |-> 0] /\ alive = {1} /\ born = 1
  /\ lock = "nobody" /\ loop = Idle /\ watcher = [pc |-> "begins", seen |-> 0, wants |-> 0]
  /\ cli = [list |-> None, told |-> FALSE] /\ context \in Agent /\ ran = {}
  /\ deaths = 0
  /\ failed = FALSE /\ blind = FALSE /\ silent = FALSE /\ amid = {}

descriptorVars == <<published, writes>>
historyVars    == <<failed, blind, silent>>

-----------------------------------------------------------------------------
\* The world: the supervisor, the workspace, processes that end.

\* The descriptor names another worker or generation, or is gone: then the sibling serves.
Publishes ==
  /\ writes < MaxWrites /\ writes' = writes + 1
  /\ published' \in (0 .. writes + 1) \ {published}
  /\ failed' = FALSE /\ blind' = (blind \/ watcher.pc = "begins")
  /\ UNCHANGED <<worker, alive, born, lock, loop, watcher, cli, context, ran, deaths, silent, amid>>

Dies ==
  /\ deaths < MaxDeaths /\ deaths' = deaths + 1
  /\ \E p \in alive : alive' = alive \ {p}
  /\ UNCHANGED <<descriptorVars, worker, born, lock, loop, watcher, cli, context, ran, historyVars, amid>>

\* The CLI reports another conversation.
Changes ==
  /\ context' \in Agent \ {context}
  /\ amid' = IF loop.pc = "idle" THEN amid ELSE amid \cup {context'}
  /\ UNCHANGED <<descriptorVars, worker, alive, born, lock, loop, watcher, cli, ran, deaths, historyVars>>

-----------------------------------------------------------------------------
\* ready(): declared() is read, and a worker for it is started and asked before it is made current.

Current(wants) == worker.process # 0 /\ worker.of = wants

\* Mutant: the previous worker is let go when its candidate does not start.
KeptNot == worker' = NoWorker /\ alive' = alive \ {worker.process}

Kept == UNCHANGED <<worker, alive>>

\* A candidate answered: the CLI is told of it if there was one before it.
Swaps(wants) ==
  /\ born' = born + 1 /\ worker' = [process |-> born + 1, of |-> wants]
  /\ alive' = (alive \ {worker.process}) \cup {born + 1} /\ failed' = failed
  /\ cli' = IF worker.process # 0 THEN [cli EXCEPT !.told = TRUE] ELSE cli
  /\ silent' = (silent \/ worker.process = 0)

\* It did not: a worker that is there is kept.
KeepsPrevious ==
  /\ failed' = TRUE /\ Kept /\ UNCHANGED <<born, cli, silent>>

Settled == UNCHANGED <<worker, alive, born, cli, failed, silent>>

-----------------------------------------------------------------------------
\* The watcher.

Begins ==
  /\ watcher.pc = "begins" /\ watcher' = [watcher EXCEPT !.pc = "rests", !.seen = writes]
  /\ UNCHANGED <<descriptorVars, worker, alive, born, lock, loop, cli, context, ran, deaths, historyVars, amid>>

\* signature_of is read without the lock.
Looks ==
  /\ watcher.pc = "rests" /\ watcher.seen # writes
  /\ watcher' = [watcher EXCEPT !.pc = "waits", !.seen = writes]
  /\ UNCHANGED <<descriptorVars, worker, alive, born, lock, loop, cli, context, ran, deaths, historyVars, amid>>

WatcherReads ==
  /\ watcher.pc = "waits" /\ lock = "nobody" /\ lock' = "watcher"
  /\ watcher' = [watcher EXCEPT !.pc = "starts", !.wants = published]
  /\ UNCHANGED <<descriptorVars, worker, alive, born, loop, cli, context, ran, deaths, historyVars, amid>>

WatcherStarts ==
  /\ watcher.pc = "starts" /\ lock' = "nobody" /\ watcher' = [watcher EXCEPT !.pc = "rests", !.wants = 0]
  /\ IF Current(watcher.wants) THEN Settled ELSE Swaps(watcher.wants) \/ KeepsPrevious
  /\ UNCHANGED <<descriptorVars, loop, context, ran, deaths, blind, amid>>

-----------------------------------------------------------------------------
\* serve() and handle(): one request, under the lock until it is answered.

Sends ==
  /\ loop.pc = "idle" /\ lock = "nobody" /\ lock' = "loop"
  /\ \E kind \in Kinds : loop' = [Idle EXCEPT !.pc = "ready", !.kind = kind]
  /\ ran' = {} /\ amid' = {context}
  /\ UNCHANGED <<descriptorVars, worker, alive, born, watcher, cli, context, deaths, historyVars>>

Answered == loop' = Idle /\ lock' = "nobody" /\ ran' = {} /\ amid' = {}
Goes(pc) == loop' = [loop EXCEPT !.pc = pc, !.wants = 0] /\ UNCHANGED <<lock, ran, amid>>

Reads ==
  /\ loop.pc = "ready" /\ loop' = [loop EXCEPT !.pc = "starts", !.wants = published]
  /\ UNCHANGED <<descriptorVars, worker, alive, born, lock, watcher, cli, context, ran, deaths, historyVars, amid>>

\* With no worker to keep, its failure is the answer.
Starts ==
  /\ loop.pc = "starts"
  /\ \/ Current(loop.wants) /\ Settled /\ Goes("ask")
     \/ ~Current(loop.wants) /\ Swaps(loop.wants) /\ Goes("ask")
     \/ ~Current(loop.wants) /\ KeepsPrevious /\ (IF worker.process # 0 THEN Goes("ask") ELSE Answered)
  /\ UNCHANGED <<descriptorVars, watcher, context, deaths, blind>>

workspaceVars == <<descriptorVars, alive, born, watcher, context, deaths, failed, blind>>
Runs == worker.process \in alive

\* ask_once(): a worker that has exited is replaced, and asked, once; one that has not yet is
\* the request's failure.
Broken ==
  /\ loop.pc \in {"ask", "scoped", "gate", "act", "reply", "refuse"} /\ ~Runs
  /\ \/ /\ ~loop.again /\ worker' = NoWorker /\ loop' = [loop EXCEPT !.pc = "ready", !.as = None, !.again = TRUE]
        /\ UNCHANGED <<lock, ran, amid>>
     \/ Answered /\ UNCHANGED worker
  /\ UNCHANGED <<workspaceVars, cli, silent>>

\* The worker has the line.  A plugin's tool is the workspace's to answer, as the agent known by now.
Asks ==
  /\ loop.pc = "ask" /\ Runs
  /\ Goes(CASE loop.kind = "list" -> "reply" [] loop.kind = "plugin" -> "act" [] OTHER -> "scoped")
  /\ UNCHANGED <<workspaceVars, worker, cli, silent>>

\* scoped_state(): the identity is read again, and the call checked against the state: another
\* instance, a project or a session that is gone, or a route that is not there refuses it.
Scopes ==
  /\ loop.pc = "scoped" /\ Runs
  /\ \/ /\ loop' = [loop EXCEPT !.as = context, !.pc = IF loop.kind = "gated" THEN "gate" ELSE "act"]
        /\ UNCHANGED <<lock, ran, amid>>
     \/ Goes("refuse")
  /\ UNCHANGED <<workspaceVars, worker, cli, silent>>

\* token_gate(): the ledger refuses, or has nothing against it.
Gates ==
  /\ loop.pc = "gate" /\ Runs /\ \E pc \in {"act", "refuse"} : Goes(pc)
  /\ UNCHANGED <<workspaceVars, worker, cli, silent>>

\* The request to the workspace, with the headers of that identity.
Acts ==
  /\ loop.pc = "act" /\ Runs /\ loop' = [loop EXCEPT !.pc = "reply"]
  /\ ran' = ran \cup {[by |-> worker.process, as |-> loop.as]}
  /\ UNCHANGED <<workspaceVars, worker, cli, silent, lock, amid>>

Replies ==
  /\ loop.pc \in {"reply", "refuse"} /\ Runs /\ Answered
  /\ IF loop.kind = "list" THEN cli' = [list |-> worker.of, told |-> FALSE] /\ silent' = FALSE
     ELSE UNCHANGED <<cli, silent>>
  /\ UNCHANGED <<workspaceVars, worker>>

FacadeNext ==
  \/ Publishes \/ Dies \/ Changes
  \/ Begins \/ Looks \/ WatcherReads \/ WatcherStarts
  \/ Sends \/ Reads \/ Starts \/ Broken \/ Asks \/ Scopes \/ Gates \/ Acts \/ Replies

-----------------------------------------------------------------------------
FacadeTypeOK ==
  /\ worker.process \in 0 .. born /\ alive \subseteq 1 .. born
  /\ lock \in {"nobody", "loop", "watcher"} /\ (lock = "loop" <=> loop.pc # "idle")

\* An update that is attempted costs the CLI nothing: without a death it always has a worker, and
\* one alone runs (ready, rule 1).
UpdateCostsNothing == deaths = 0 => alive = {worker.process}

\* A CLI that does not ask is brought to what is published and told, unless its candidate did not
\* start, or it was published before the watcher's first look (serve, ready).
QuietIsCurrent ==
  watcher.pc = "rests" /\ watcher.seen = writes /\ lock = "nobody" /\ worker.process # 0 =>
    failed \/ blind \/ worker.of = published

\* A CLI whose list is of another worker was told since, unless the swap followed a death (ask_once).
ListIsTold == cli.list # None /\ worker.process # 0 /\ worker.of # cli.list => cli.told \/ silent

\* A request runs once for each worker that had it, which is once if none died, and as an agent
\* the context named meanwhile (ask_once, scoped_state).
RunsAsItself ==
  /\ Cardinality(ran) <= 1 + deaths
  /\ \A r \in ran : loop.kind # "plugin" => r.as \in amid

\* The four together.
ToolsStay == UpdateCostsNothing /\ QuietIsCurrent /\ ListIsTold /\ RunsAsItself

FacadeSpec == FacadeInit /\ [][FacadeNext]_facadeVars
=============================================================================
