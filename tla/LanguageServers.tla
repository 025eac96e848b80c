-------------------------- MODULE LanguageServers --------------------------
(***************************************************************************)
(* One declared language server of a project (red-lsp: servers.rs, and the *)
(* process red-lsp-serve that holds it).  The process reads one request at *)
(* a time; each server process it starts has a thread that reads it and    *)
(* one that waits for it, and one that died is started again by a thread   *)
(* of its own.  They share a record under a lock that is taken anew for    *)
(* every look at it.  A failure count that was reset before it is used     *)
(* makes the wait 500 ms * 2^(0 - 1): a build that checks its arithmetic   *)
(* loses the thread there, and another restarts the server at once.        *)
(***************************************************************************)
EXTENDS Naturals, FiniteSets

CONSTANTS
  Doc,          \* the files somebody opens
  MaxStarts,    \* bound: server processes started
  GiveUp        \* RESTART_GIVE_UP: how often it is started again

VARIABLES
  asked,        \* what the reading thread is doing, and the document it is about
  starting,     \* where each thread that may be in start() is, and the process it has started
  live,         \* what is known of the server: child, stdin, documents, failures, unavailable
  process,      \* the server processes, by generation: running, initialized, told of documents
  waiter,       \* the thread that waits for each of them, and for which child
  word,         \* whose diagnostics the store has of each document
  late          \* history: the documents last spoken of when closed, or by a process that had ended

lspVars == <<asked, starting, live, process, waiter, word, late>>

Generation == 1..MaxStarts
Thread     == 0..MaxStarts     \* 0 reads the requests; g starts the server again after generation g
Idle       == [pc |-> "idle", gen |-> 0, left |-> {}]

LspInit ==
  /\ asked = [pc |-> "idle", doc |-> CHOOSE d \in Doc : TRUE]
  /\ starting = [t \in Thread |-> Idle]
  /\ live = [child |-> 0, stdin |-> 0, generation |-> 0, documents |-> {}, failures |-> 0,
             unavailable |-> "none", stopping |-> FALSE]
  /\ process = [g \in Generation |-> [state |-> "off", init |-> FALSE, told |-> {}]]
  /\ waiter = [g \in Generation |-> [pc |-> "off", child |-> 0]]
  /\ word = [d \in Doc |-> 0] /\ late = {}

Up(g)          == g # 0 /\ process[g].state = "up"
Goes(t, pc)    == starting' = [starting EXCEPT ![t].pc = pc]
Done(t)        == starting' = [starting EXCEPT ![t] = Idle]
Wakes(t, pc)   == asked' = IF t = 0 THEN [asked EXCEPT !.pc = pc] ELSE asked
Awaits(g, pc)  == waiter' = [waiter EXCEPT ![g].pc = pc]
Says(why)      == live' = [live EXCEPT !.unavailable = why]
Tell(g, D)     == process' = IF Up(g) THEN [process EXCEPT ![g].told = @ \cup D] ELSE process

-----------------------------------------------------------------------------
\* start(), on the reading thread or on one that restarts.

Looks(t) ==
  /\ starting[t].pc = "look"
  /\ IF live.child # 0 \/ live.stopping
     THEN Done(t) /\ Wakes(t, IF live.child # 0 THEN "open" ELSE "idle")
     ELSE Goes(t, "spawn") /\ UNCHANGED asked
  /\ UNCHANGED <<live, process, waiter, word, late>>

Spawns(t) ==
  /\ starting[t].pc = "spawn" /\ live.generation < MaxStarts
  /\ LET g == live.generation + 1 IN
     /\ live' = [live EXCEPT !.generation = g, !.stdin = g]
     /\ process' = [process EXCEPT ![g].state = "up"]
     /\ Awaits(g, "take")
     /\ starting' = [starting EXCEPT ![t] = [Idle EXCEPT !.pc = "keep", !.gen = g]]
  /\ UNCHANGED <<asked, word, late>>

SpawnFails(t) ==
  /\ starting[t].pc = "spawn" /\ Says("missing") /\ Done(t) /\ Wakes(t, "idle")
  /\ UNCHANGED <<process, waiter, word, late>>

Keeps(t) ==
  /\ starting[t].pc = "keep"
  /\ live' = [live EXCEPT !.child = starting[t].gen] /\ Goes(t, "ask")
  /\ UNCHANGED <<asked, process, waiter, word, late>>

\* initialize goes to whichever process has the stdin by now.
Initializes(t) ==
  /\ starting[t].pc = "ask"
  /\ starting' = [starting EXCEPT ![t].pc = "asked", ![t].gen = live.stdin]
  /\ UNCHANGED <<asked, live, process, waiter, word, late>>

\* What a process that has just ended had answered is still in its pipe.
Answers(t) ==
  /\ starting[t].pc = "asked" /\ starting[t].gen # 0 /\ process[starting[t].gen].state # "off"
  /\ process' = [process EXCEPT ![starting[t].gen].init = TRUE] /\ Goes(t, "ready")
  /\ UNCHANGED <<asked, live, waiter, word, late>>

\* It did not answer in time, or answered an error, or ended.
Unanswered(t) ==
  /\ starting[t].pc \in {"asked", "dropped"}
  /\ Says("silent") /\ Done(t) /\ Wakes(t, "idle")
  /\ UNCHANGED <<process, waiter, word, late>>

ReadyForgetsDocuments(t) ==
  /\ starting[t].pc = "ready"
  /\ live' = [live EXCEPT !.unavailable = "none", !.failures = 0]
  /\ starting' = [starting EXCEPT ![t].pc = "reopen", ![t].left = {}]
  /\ UNCHANGED <<asked, process, waiter, word, late>>

Ready(t) ==
  /\ starting[t].pc = "ready"
  /\ live' = [live EXCEPT !.unavailable = "none", !.failures = 0]
  /\ starting' = [starting EXCEPT ![t].pc = "reopen", ![t].left = live.documents]
  /\ UNCHANGED <<asked, process, waiter, word, late>>

Reopens(t) ==
  /\ starting[t].pc = "reopen"
  /\ IF starting[t].left = {}
     THEN Done(t) /\ Wakes(t, "open") /\ UNCHANGED <<live, process>>
     ELSE \E d \in starting[t].left :
            /\ starting' = [starting EXCEPT ![t].left = @ \ {d}]
            /\ live' = [live EXCEPT !.documents = @ \cup {d}]
            /\ Tell(live.stdin, {d}) /\ UNCHANGED asked
  /\ UNCHANGED <<waiter, word, late>>

-----------------------------------------------------------------------------
\* The requests: one at a time.

Open(d) ==
  /\ asked.pc = "idle" /\ asked' = [pc |-> "starting", doc |-> d] /\ Goes(0, "look")
  /\ UNCHANGED <<live, process, waiter, word, late>>

\* The document is kept under the lock and told of after it.
Remembers ==
  /\ asked.pc = "open" /\ asked' = [asked EXCEPT !.pc = "tell"]
  /\ live' = [live EXCEPT !.documents = @ \cup {asked.doc}]
  /\ UNCHANGED <<starting, process, waiter, word, late>>

Tells ==
  /\ asked.pc = "tell" /\ asked' = [asked EXCEPT !.pc = "idle"] /\ Tell(live.stdin, {asked.doc})
  /\ UNCHANGED <<starting, live, waiter, word, late>>

Close(d) ==
  /\ asked.pc = "idle"
  /\ live' = [live EXCEPT !.documents = @ \ {d}] /\ word' = [word EXCEPT ![d] = 0]
  /\ process' = IF d \in live.documents /\ Up(live.stdin)
                THEN [process EXCEPT ![live.stdin].told = @ \ {d}] ELSE process
  /\ UNCHANGED <<asked, starting, waiter, late>>

\* stop(), also of a declaration that is replaced: a server without a child here is not asked to.
Stop ==
  /\ asked.pc = "idle" /\ ~live.stopping
  /\ live' = [live EXCEPT !.stopping = TRUE]
  /\ asked' = [asked EXCEPT !.pc = IF live.child = 0 THEN "idle" ELSE "stopping"]
  /\ UNCHANGED <<starting, process, waiter, word, late>>

\* shutdown and exit are sent and some seconds waited; then whatever child is there is killed.
Stops ==
  /\ asked.pc = "stopping" /\ asked' = [asked EXCEPT !.pc = "idle"]
  /\ process' = [g \in Generation |-> IF Up(g) /\ g \in {live.stdin, live.child}
                                      THEN [process[g] EXCEPT !.state = "gone"] ELSE process[g]]
  /\ UNCHANGED <<starting, live, waiter, word, late>>

-----------------------------------------------------------------------------
\* The server processes, and the threads that read and wait for them.

\* What a reader still finds of a process that has ended is taken in as well.
Publishes(g, d) ==
  /\ d \in process[g].told /\ process[g].init /\ waiter[g].pc # "off"
  /\ word' = [word EXCEPT ![d] = g]
  /\ late' = IF Up(g) /\ d \in live.documents THEN late \ {d} ELSE late \cup {d}
  /\ UNCHANGED <<asked, starting, live, process, waiter>>

Clears(g, d) ==
  /\ d \in process[g].told /\ process[g].init /\ word[d] # 0 /\ Up(g) /\ word' = [word EXCEPT ![d] = 0]
  /\ UNCHANGED <<asked, starting, live, process, waiter, late>>

Dies(g) ==
  /\ Up(g) /\ process' = [process EXCEPT ![g].state = "gone"]
  /\ UNCHANGED <<asked, starting, live, waiter, word, late>>

\* The child is taken to be waited for; if start() has not put it there yet, there is nothing to wait for.
Takes(g) ==
  /\ waiter[g].pc = "take"
  /\ waiter' = [waiter EXCEPT ![g] = [pc |-> IF live.child = 0 THEN "exited" ELSE "wait", child |-> live.child]]
  /\ live' = [live EXCEPT !.child = 0]
  /\ UNCHANGED <<asked, starting, process, word, late>>

Waits(g) ==
  /\ waiter[g].pc = "wait" /\ ~Up(waiter[g].child) /\ Awaits(g, "exited")
  /\ UNCHANGED <<asked, starting, live, process, word, late>>

\* on_exit(), in the order it takes the lock; a server after which another was started is passed over.
Exited(g) ==
  /\ waiter[g].pc = "exited"
  /\ IF live.generation # g THEN Awaits(g, "passed") /\ UNCHANGED <<live, starting>>
     ELSE /\ live' = [live EXCEPT !.child = 0, !.stdin = 0, !.failures = IF live.stopping THEN @ ELSE @ + 1]
          /\ starting' = [t \in Thread |-> IF starting[t].pc = "asked"
                                           THEN [starting[t] EXCEPT !.pc = "dropped"] ELSE starting[t]]
          /\ Awaits(g, IF live.stopping THEN "done" ELSE "clear")
  /\ UNCHANGED <<asked, process, word, late>>

ClearsWord(g) ==
  /\ waiter[g].pc = "clear" /\ Awaits(g, "name")
  /\ word' = [d \in Doc |-> IF d \in live.documents THEN 0 ELSE word[d]]
  /\ UNCHANGED <<asked, starting, live, process, late>>

\* Its absence is named, and another is started after a while, unless it was given up.
Names(g) ==
  /\ waiter[g].pc = "name" /\ Awaits(g, "done")
  /\ IF live.failures > GiveUp THEN Says("given up") /\ UNCHANGED starting
     ELSE Says("exited") /\ Goes(g, "sleep")
  /\ UNCHANGED <<asked, process, word, late>>

\* The wait is worked out from a count that is 0 by now, and overflows.
Panics(g) ==
  /\ waiter[g].pc = "name" /\ live.failures = 0 /\ Awaits(g, "done")
  /\ UNCHANGED <<asked, starting, live, process, word, late>>

Restarts(g) ==
  /\ starting[g].pc = "sleep" /\ IF live.stopping THEN Done(g) ELSE Goes(g, "look")
  /\ UNCHANGED <<asked, live, process, waiter, word, late>>

Starting(t) == \/ Looks(t) \/ Spawns(t) \/ SpawnFails(t) \/ Keeps(t) \/ Initializes(t)
               \/ Answers(t) \/ Unanswered(t) \/ Ready(t) \/ Reopens(t)
Served(g)   == \/ Takes(g) \/ Waits(g) \/ Exited(g) \/ ClearsWord(g) \/ Names(g) \/ Panics(g) \/ Restarts(g)
               \/ Dies(g) \/ \E d \in Doc : Publishes(g, d) \/ Clears(g, d)

LspNext == \/ \E t \in Thread : Starting(t)
           \/ \E g \in Generation : Served(g)
           \/ \E d \in Doc : Open(d) \/ Close(d)
           \/ Remembers \/ Tells \/ Stop \/ Stops
LspSpec == LspInit /\ [][LspNext]_lspVars
-----------------------------------------------------------------------------
\* Nobody is between two of its steps.
Quiet == /\ asked.pc = "idle" /\ \A t \in Thread : starting[t].pc = "idle"
         /\ \A g \in Generation : waiter[g].pc \in {"off", "wait", "done", "passed"}

\* A server that crashed comes back knowing what is open: once nobody is at work, the one that
\* runs has been told of every document, whichever thread opened it (servers.rs:191, start, open).
DocumentsSurvive == Quiet /\ Up(live.stdin) /\ process[live.stdin].init
                      => live.documents \subseteq process[live.stdin].told

\* When a server has ended and the thread that waited for it is done with it, nothing it said stands,
\* unless it said so of a document that was closed, or its reader found it too late (servers.rs:255,
\* on_exit).  A server after which another was started is passed over (servers.rs:242), and so is
\* one nobody waited for because its thread had looked for the child too early: what such a server
\* said stands until its successor speaks of the same document, and the property says nothing of it.
DeadSayNothing ==
  ~live.stopping => \A d \in Doc : LET g == word[d] IN
    g # 0 /\ process[g].state = "gone" /\ waiter[g] = [pc |-> "done", child |-> g] => d \in late

\* Of the servers the project has declared one process runs, at the most; refuted: the thread that
\* waits for a server has its child, so the next file that is opened starts another beside it.
OneServer == \A g, h \in Generation : Up(g) /\ Up(h) => g = h

\* A declaration that is replaced, or a stop, leaves no server running (red_lsp_serve.rs:58);
\* refuted for the same reason.
StopLeavesNone == live.stopping /\ Quiet => \A g \in Generation : ~Up(g)
=============================================================================
