---------------------------- MODULE WorkerRoutes ----------------------------
(***************************************************************************)
(* The routes a workspace worker answers itself, each on a thread of its   *)
(* own: the generation a worker claims on the first request it serves, the *)
(* token gate, the project's own write command behind one queue per        *)
(* worker, panes started for a task or a script, a preferences write that  *)
(* is split over two stores, and the feed frame every one of them leaves.  *)
(* During a rollover two workers answer for one project: the old one goes  *)
(* on with the calls it has, the ledger and the host are shared.           *)
(***************************************************************************)
EXTENDS Naturals, Sequences, FiniteSets, Functions

CONSTANTS Worker,      \* the worker that serves and those that may replace it
          Call, Agent, \* requests on their threads, and the agents that may send them
          Desk,        \* a request without an agent's name: the person at a desktop
          Nobody       \* no call, no holder

VARIABLES call,        \* each request: where its thread is, its route, its worker, who asked
          current,     \* the worker new requests are sent to
          generation,  \* what each worker holds (0: nothing claimed) and the ledger's counter
          counter,
          holder,      \* who holds the project's token, in the ledger
          queue,       \* who writes, in each worker's Writes
          written,     \* the writes the project's own command has made, in order
          panes,       \* calls a pane runs for, and those whose conversation the host was told
          named,
          window,      \* the last call to set the token window, and to write the host's store
          stored,
          feed         \* the project's frames

routes == <<call, current, generation, counter, holder, queue, written, panes, named, window, stored, feed>>

Asker == Agent \union {Desk}
Kind  == {"state", "task", "spawn", "script", "update", "stop", "preferences", "recording", "token"}
Gated == {"task", "spawn", "script", "update", "stop"}
\* a probe claims no generation, and a route that is gated and handed on does not reach announce()
Announces(k) == k \notin {"state", "stop"}
First  == CHOOSE w \in Worker : TRUE
NoCall == [pc |-> "none", kind |-> "state", worker |-> First, by |-> Desk, number |-> 0]

RoutesInit ==
  /\ call = [c \in Call |-> NoCall] /\ current = First
  /\ generation = [w \in Worker |-> 0] /\ counter = 0
  /\ holder \in Agent \union {Nobody} /\ queue = [w \in Worker |-> Nobody]
  /\ written = <<>> /\ panes = {} /\ named = {} /\ window = Nobody /\ stored = Nobody /\ feed = <<>>

At(c, pc) == call[c].pc = pc
Goes(c, pc) == call' = [call EXCEPT ![c].pc = pc]
Mine(c) == call[c].worker
Says(c, kind) == feed' = Append(feed, [kind |-> kind, of |-> c, worker |-> Mine(c), number |-> call[c].number])
\* note(): the frame is minted, or the ledger refused it and the route goes on without
Notes(c, kind) == Says(c, kind) \/ UNCHANGED feed

-----------------------------------------------------------------------------
\* connection(): the request is read, and its thread begins
Arrives(c, k, a) ==
  /\ At(c, "none")
  /\ call' = [call EXCEPT ![c] = [pc |-> IF Announces(k) THEN "look" ELSE "route", kind |-> k,
                                  worker |-> current, by |-> a, number |-> 0]]
  /\ UNCHANGED <<current, generation, counter, holder, queue, written, panes, named, window, stored, feed>>

\* the supervisor sends what comes next to another worker; the old one keeps its calls
Replaced(w) ==
  /\ w # current /\ \A c \in Call : ~(Mine(c) = w /\ call[c].pc # "none")
  /\ generation[w] = 0 /\ current' = w
  /\ UNCHANGED <<call, generation, counter, holder, queue, written, panes, named, window, stored, feed>>

\* announce(): is a generation held?
Looks(c) ==
  /\ At(c, "look") /\ Goes(c, IF generation[Mine(c)] = 0 THEN "bump" ELSE "route")
  /\ UNCHANGED <<current, generation, counter, holder, queue, written, panes, named, window, stored, feed>>

\* bumpGeneration, asked with no lock held; a ledger that does not answer leaves it for the next call
Bumps(c) ==
  /\ At(c, "bump")
  /\ \/ /\ counter' = counter + 1
        /\ call' = [call EXCEPT ![c].pc = "hold", ![c].number = counter + 1]
     \/ Goes(c, "route") /\ UNCHANGED counter
  /\ UNCHANGED <<current, generation, holder, queue, written, panes, named, window, stored, feed>>

HoldsOver(c) ==
  /\ At(c, "hold") /\ Goes(c, "tell")
  /\ generation' = [generation EXCEPT ![Mine(c)] = call[c].number]
  /\ UNCHANGED <<current, counter, holder, queue, written, panes, named, window, stored, feed>>

\* the lock is taken again: the first to come holds its number, another's is thrown away
Holds(c) ==
  /\ At(c, "hold")
  /\ IF generation[Mine(c)] = 0
     THEN generation' = [generation EXCEPT ![Mine(c)] = call[c].number] /\ Goes(c, "tell")
     ELSE UNCHANGED generation /\ Goes(c, "route")
  /\ UNCHANGED <<current, counter, holder, queue, written, panes, named, window, stored, feed>>

\* workspace.updated on the root's feed, unless the host does not say which roots there are
Tells(c) ==
  /\ At(c, "tell") /\ Goes(c, "route") /\ Notes(c, "workspace.updated")
  /\ UNCHANGED <<current, generation, counter, holder, queue, written, panes, named, window, stored>>

-----------------------------------------------------------------------------
\* gate(): the person at a desktop is never asked, an agent must hold the token
MayPass(c) == call[c].by \in {Desk, holder}
After(k) == CASE k = "task" -> "queue" [] k \in {"spawn", "script"} -> "ready" [] OTHER -> "ask"

Gate(c) ==
  /\ At(c, "route") /\ call[c].kind \in Gated
  /\ Goes(c, IF MayPass(c) THEN After(call[c].kind) ELSE "refused")
  /\ UNCHANGED <<current, generation, counter, holder, queue, written, panes, named, window, stored, feed>>

\* root_of, a capability, a script's path, a task's row: refused with nothing done
Refused(c) ==
  /\ call[c].pc \in {"route", "ready", "ask"} /\ Goes(c, "refused")
  /\ UNCHANGED <<current, generation, counter, holder, queue, written, panes, named, window, stored, feed>>

\* a route handed on past its gate, update_workspace behind its own, and the state composed: the host
\* answers, and nothing of this worker's is changed
Forward(c) ==
  /\ At(c, "ask") /\ call[c].kind = "stop" /\ Goes(c, "answered")
  /\ UNCHANGED <<current, generation, counter, holder, queue, written, panes, named, window, stored, feed>>

UpdateWorkspace(c) ==
  /\ At(c, "ask") /\ call[c].kind = "update" /\ Goes(c, "answered")
  /\ UNCHANGED <<current, generation, counter, holder, queue, written, panes, named, window, stored, feed>>

State(c) ==
  /\ At(c, "route") /\ call[c].kind = "state" /\ Goes(c, "answered")
  /\ UNCHANGED <<current, generation, counter, holder, queue, written, panes, named, window, stored, feed>>

\* task(): the worker's own queue for this project, behind the gate
TakeTurn(c) ==
  /\ At(c, "queue") /\ queue[Mine(c)] = Nobody /\ queue' = [queue EXCEPT ![Mine(c)] = c] /\ Goes(c, "write")
  /\ UNCHANGED <<current, generation, counter, holder, written, panes, named, window, stored, feed>>

\* task_write: the project's command has made its change
Write(c) ==
  /\ At(c, "write") /\ written' = Append(written, c) /\ Goes(c, "wrote")
  /\ UNCHANGED <<current, generation, counter, holder, queue, panes, named, window, stored, feed>>

\* it came back, or it was malformed, failed or was stopped by its timeout, perhaps after its
\* change; either way the queue moves on
Wrote(c) ==
  /\ \/ At(c, "wrote") /\ Goes(c, "note")
     \/ call[c].pc \in {"write", "wrote"} /\ Goes(c, "refused")
  /\ queue' = [queue EXCEPT ![Mine(c)] = Nobody]
  /\ UNCHANGED <<current, generation, counter, holder, written, panes, named, window, stored, feed>>

\* agent_spawn: the host starts the pane, or its answer is lost; the CLI may take a name or not
StartPane(c) ==
  /\ At(c, "ready") /\ call[c].kind = "spawn" /\ panes' = panes \union {c}
  /\ Goes(c, "name") \/ Goes(c, "note") \/ Goes(c, "refused")
  /\ UNCHANGED <<current, generation, counter, holder, queue, written, named, window, stored, feed>>

\* script_open: the same, with no frame; a tab that is not shown is reported, never refused
StartScript(c) ==
  /\ At(c, "ready") /\ call[c].kind = "script" /\ panes' = panes \union {c}
  /\ Goes(c, "answered") \/ Goes(c, "refused")
  /\ UNCHANGED <<current, generation, counter, holder, queue, written, named, window, stored, feed>>

\* the pane's conversation is recorded at the host, whose refusal is this route's
Name(c) ==
  /\ At(c, "name")
  /\ \/ named' = named \union {c} /\ Goes(c, "note")
     \/ Goes(c, "refused") /\ UNCHANGED named
  /\ UNCHANGED <<current, generation, counter, holder, queue, written, panes, window, stored, feed>>

\* the frame, after what it tells of
Note(c) ==
  /\ At(c, "note") /\ Goes(c, "answered") /\ Notes(c, call[c].kind)
  /\ UNCHANGED <<current, generation, counter, holder, queue, written, panes, named, window, stored>>

\* recording(): a desktop's frame, and nobody else's
Recording(c) ==
  /\ At(c, "route") /\ call[c].kind = "recording"
  /\ IF call[c].by = Desk THEN Goes(c, "answered") /\ Notes(c, "recording") ELSE Goes(c, "refused") /\ UNCHANGED feed
  /\ UNCHANGED <<current, generation, counter, holder, queue, written, panes, named, window, stored>>

\* preferences(): the window to the ledger, then the rest to the host's store
SetWindow(c) ==
  /\ At(c, "route") /\ call[c].kind = "preferences" /\ window' = c /\ Goes(c, "store")
  /\ UNCHANGED <<current, generation, counter, holder, queue, written, panes, named, stored, feed>>

Store(c) ==
  /\ At(c, "store")
  /\ \/ stored' = c /\ Goes(c, "answered")
     \/ Goes(c, "refused") /\ UNCHANGED stored
  /\ UNCHANGED <<current, generation, counter, holder, queue, written, panes, named, window, feed>>

\* token-action: an agent's release, or its contest of a token nobody holds
TokenAction(c) ==
  /\ At(c, "route") /\ call[c].kind = "token" /\ call[c].by \in Agent
  /\ holder' = IF holder = Nobody THEN call[c].by ELSE IF holder = call[c].by THEN Nobody ELSE holder
  /\ Goes(c, "answered")
  /\ UNCHANGED <<current, generation, counter, queue, written, panes, named, window, stored, feed>>

Serve(c) ==
  \/ Looks(c) \/ Bumps(c) \/ Holds(c) \/ Tells(c) \/ Gate(c) \/ Refused(c) \/ Forward(c)
  \/ UpdateWorkspace(c) \/ State(c) \/ TakeTurn(c) \/ Write(c) \/ Wrote(c) \/ StartPane(c) \/ StartScript(c) \/ Name(c) \/ Note(c)
  \/ Recording(c) \/ SetWindow(c) \/ Store(c) \/ TokenAction(c)

RoutesNext ==
  \/ \E c \in Call : Serve(c) \/ \E k \in Kind, a \in Asker : Arrives(c, k, a)
  \/ \E w \in Worker : Replaced(w)

-----------------------------------------------------------------------------
Told == {i \in DOMAIN feed : feed[i].kind = "workspace.updated"}

\* However many first requests a worker answers at once, its generation is announced at most once,
\* it is the one the worker holds, no other worker's, and a worker that was only probed has none
\* (announce, lifecycle::announces).
GenerationToldOnce ==
  /\ \A i, j \in Told : feed[i].worker = feed[j].worker \/ feed[i].number = feed[j].number => i = j
  /\ \A i \in Told : feed[i].number = generation[feed[i].worker]
  /\ \A w \in Worker : generation[w] # 0 => \E c \in Call : Mine(c) = w /\ Announces(call[c].kind)

\* The feed tells of a write once, and only of one the project's command has made and finished with
\* the queue to itself in its worker (task, tasks::Writes).
WritesToldAfter ==
  /\ \A i, j \in DOMAIN feed : feed[i].of = feed[j].of /\ feed[i].kind = feed[j].kind => i = j
  /\ \A i \in DOMAIN feed : feed[i].kind = "task" => feed[i].of \in Range(written)
  /\ \A c, d \in Call : {call[c].pc, call[d].pc} \subseteq {"write", "wrote"} /\ Mine(c) = Mine(d) => c = d

\* The feed is what a worker and its routes can answer for, whatever overlaps.
FeedIsTrue == GenerationToldOnce /\ WritesToldAfter

\* The comment of agent_spawn (red_worker.rs:1532): a caller that is refused can be certain nothing
\* ran. It does not hold: the conversation's post may fail with the pane running.
RefusedRanNothing == \A c \in panes : call[c].pc # "refused"

\* Two holders in sequence queue rather than interleave (tasks.rs:10).  It holds inside a worker;
\* during a rollover each worker has a queue of its own.
HoldersQueue == \A c, d \in Call : {call[c].pc, call[d].pc} \subseteq {"write", "wrote"} => c = d

\* The feed's order of two writes is not the order they were made in: the queue is left first.
FeedInWriteOrder ==
  \A i, j \in DOMAIN feed : \A p, q \in DOMAIN written :
    i < j /\ p < q /\ feed[i].kind = "task" /\ feed[j].kind = "task" => ~(feed[i].of = written[q] /\ feed[j].of = written[p])
=============================================================================
