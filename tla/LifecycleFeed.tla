--------------------------- MODULE LifecycleFeed ---------------------------
(***************************************************************************)
(* The lifecycle feed, from the ring to a monitor (red-token: feed.rs and  *)
(* red_token_serve.rs; red-core: service.rs; red-worker: feed.rs and       *)
(* red_worker.rs).  A call of the token service appends a frame to the     *)
(* ring under the ledger's lock and queues it; whoever finishes a call     *)
(* takes the queue and says it to every attached worker.  A worker gives   *)
(* each frame to the watchers it has.  A monitor opens a socket at its     *)
(* cursor, is replayed what it missed, and then hears what happens; closed *)
(* as behind, closed by a retirement or cut off, it opens another.         *)
(*                                                                         *)
(* One project, fewer frames than the ring keeps, every frame of the same  *)
(* size, and a service that stays up.                                      *)
(***************************************************************************)
EXTENDS Naturals, Sequences, FiniteSets

CONSTANTS
  Worker, FirstWorker, \* workers, one current at a time
  Others,              \* whoever else calls the service: its sweep, the host, other clients
  MaxFrames,           \* bound: frames emitted, below FEED_LIMIT
  MaxSockets,          \* bound: sockets the monitor opens, one after another
  BehindLimit          \* BEHIND_LIMIT, in frames

ASSUME FeedConstants ==
  /\ FirstWorker \in Worker /\ Others \cap Worker = {}
  /\ MaxFrames \in Nat /\ MaxSockets \in Nat /\ BehindLimit \in Nat

Caller == Worker \cup Others
Frame  == 1..MaxFrames
Socket == 1..MaxSockets
NoSocket == 0

VARIABLES
  sequence,  \* Feed.sequence, and with it the ring
  queue,     \* Shared.queued: frames nobody has taken to say yet
  caller,    \* each connection's call, and the batch it took
  inbox,     \* the lines on their way to each attached worker
  attached, current, retired,
  watching,  \* Watchers.watching of each worker
  reader,    \* each worker's reading thread, inside deliver() or closing after it
  socket,    \* serve_feed of each socket: where it is, and its replay
  delivered, \* Watcher.delivered
  pushed,    \* every frame put on the watcher's channel: Watcher.queued counts them
  channel,   \* what the writer has not sent; EndOfChannel closes
  monitor,   \* the socket it reads, its cursor, and what it has read
  overtaken  \* history: a frame came before an older one

serviceVars == <<sequence, queue, caller>>
workerVars  == <<attached, current, retired>>
watchVars   == <<delivered, pushed, channel>>
vars == <<serviceVars, inbox, workerVars, watching, reader, socket, watchVars, monitor, overtaken>>

EndOfChannel == 0
Idle   == [at |-> "idle", batch |-> <<>>, asks |-> NoSocket, upTo |-> 0]
Unopened == [at |-> "unopened", on |-> FirstWorker, next |-> 0, upTo |-> 0]
Over   == [Unopened EXCEPT !.at = "over"]
Resting == [frame |-> 0, todo |-> {}, holds |-> NoSocket, behind |-> {}]

Init ==
  /\ sequence = 0 /\ queue = <<>> /\ caller = [k \in Caller |-> Idle]
  /\ inbox = [w \in Worker |-> <<>>]
  /\ attached = {FirstWorker} /\ current = FirstWorker
  /\ retired = [w \in Worker |-> "no"]
  /\ watching = [w \in Worker |-> {}] /\ reader = [w \in Worker |-> Resting]
  /\ socket = [s \in Socket |-> Unopened]
  /\ delivered = [s \in Socket |-> 0]
  /\ pushed = [s \in Socket |-> <<>>] /\ channel = [s \in Socket |-> <<>>]
  /\ monitor = [on |-> NoSocket, cursor |-> 0, read |-> {}]
  /\ overtaken = FALSE

-----------------------------------------------------------------------------
(* The token service: a call, its flush, its answer *)

Call(k, from, to) ==
  /\ caller[k].at = from
  /\ caller' = [caller EXCEPT ![k] = to]

Acted(asks) == [at |-> "acted", batch |-> <<>>, asks |-> asks, upTo |-> sequence]

\* emit(), under the ledger's lock; its listener queues the frame.  A frame a worker
\* asks for itself is one of these, at a moment when its own connection is free.
Emit(k) ==
  /\ sequence < MaxFrames
  /\ Call(k, "idle", Acted(NoSocket))
  /\ sequence' = sequence + 1 /\ queue' = Append(queue, sequence + 1)
  /\ UNCHANGED <<inbox, workerVars, watching, reader, socket, watchVars, monitor, overtaken>>

\* feedAfter, for a socket of this worker: the ring after its cursor
After(s) ==
  LET w == socket[s].on IN
  /\ socket[s].at = "joined"
  /\ Call(w, "idle", Acted(s))
  /\ socket' = [socket EXCEPT ![s].at = "asking"]
  /\ UNCHANGED <<sequence, queue, inbox, workerVars, watching, reader, watchVars, monitor, overtaken>>

\* the call is over; only a worker's own answer is followed any further
Flushed(call) == IF call.asks = NoSocket THEN Idle ELSE [call EXCEPT !.at = "said", !.batch = <<>>]

\* flush(), the queue's lock
Take(k) ==
  /\ Call(k, "acted", IF queue = <<>> THEN Flushed(caller[k])
                      ELSE [caller[k] EXCEPT !.at = "taken", !.batch = queue])
  /\ queue' = <<>>
  /\ UNCHANGED <<sequence, inbox, workerVars, watching, reader, socket, watchVars, monitor, overtaken>>

Event(frame)    == [for |-> NoSocket, number |-> frame]
Answer(s, upTo) == [for |-> s, number |-> upTo]

\* frames older than this one are not said yet
OlderIn(batch, frame) == \E i \in 1..Len(batch) : batch[i] < frame

\* flush(), the listener's lock: one batch at a time, one event after the other to everybody
Say(k) ==
  LET frame == Head(caller[k].batch)
      rest  == Tail(caller[k].batch)
      next  == IF rest = <<>> THEN Flushed(caller[k])
               ELSE [caller[k] EXCEPT !.at = "saying", !.batch = rest]
  IN
  /\ \/ Call(k, "taken", next) /\ \A other \in Caller : caller[other].at # "saying"
     \/ Call(k, "saying", next)
  /\ inbox' = [w \in Worker |-> IF w \in attached THEN Append(inbox[w], Event(frame)) ELSE inbox[w]]
  /\ overtaken' = (overtaken \/ \E other \in Caller : OlderIn(caller[other].batch, frame))
  /\ UNCHANGED <<sequence, queue, workerVars, watching, reader, socket, watchVars, monitor>>

Answers(w) ==
  /\ Call(w, "said", Idle)
  /\ inbox' = [inbox EXCEPT ![w] = Append(@, Answer(caller[w].asks, caller[w].upTo))]
  /\ UNCHANGED <<sequence, queue, workerVars, watching, reader, socket, watchVars, monitor, overtaken>>

-----------------------------------------------------------------------------
(* Watcher::send, by the reading thread and by the replay *)

TooFar(s) == Len(pushed[s]) > BehindLimit

\* mutants: the de-duplication forgets the last frame, or takes the next one for it
HadBefore(s, frame) == frame < delivered[s]
HadNext(s, frame)   == frame <= delivered[s] + 1

Had(s, frame) == frame <= delivered[s]

\* the frame is marked under one lock and put on the channel after it
Mark(s, frame) == ~TooFar(s) /\ ~Had(s, frame) /\ delivered' = [delivered EXCEPT ![s] = frame]

\* the channel of a socket that has gone takes nothing
Queued(s, item) == IF monitor.on = s THEN Append(channel[s], item) ELSE channel[s]

Push(s, frame) ==
  /\ pushed' = [pushed EXCEPT ![s] = Append(@, frame)]
  /\ channel' = [channel EXCEPT ![s] = Queued(s, frame)]
  /\ UNCHANGED delivered

\* deliver() holds the worker's watchers locked
Locked(w) == reader[w].frame # 0

\* mutant: a watcher is dropped from the list and not told
DropWatcher(w, s) ==
  /\ watching' = [watching EXCEPT ![w] = @ \ {s}]
  /\ UNCHANGED <<delivered, pushed, channel>>

\* Watchers::close: the watcher leaves, and the end travels behind its frames
CloseWatcher(w, s) ==
  /\ watching' = [watching EXCEPT ![w] = @ \ {s}]
  /\ channel' = IF s \in watching[w] THEN [channel EXCEPT ![s] = Queued(s, EndOfChannel)] ELSE channel
  /\ UNCHANGED <<delivered, pushed>>

-----------------------------------------------------------------------------
(* A worker's reading thread *)

Reading(w) ==
  reader[w].frame = 0 /\ reader[w].behind = {} /\ inbox[w] # <<>>

\* an answer goes to whoever still waits for it
ReadAnswer(w) ==
  LET line == Head(inbox[w]) IN
  /\ Reading(w) /\ line.for # NoSocket
  /\ inbox' = [inbox EXCEPT ![w] = Tail(@)]
  /\ socket' = IF socket[line.for].at = "asking"
               THEN [socket EXCEPT ![line.for].at = "replaying", ![line.for].upTo = line.number]
               ELSE socket
  /\ UNCHANGED <<serviceVars, workerVars, watching, reader, watchVars, monitor, overtaken>>

\* an event is delivered, with the watchers locked
ReadEvent(w) ==
  LET line == Head(inbox[w]) IN
  /\ Reading(w) /\ line.for = NoSocket
  /\ inbox' = [inbox EXCEPT ![w] = Tail(@)]
  /\ reader' = IF watching[w] = {} THEN reader
               ELSE [reader EXCEPT ![w].frame = line.number, ![w].todo = watching[w]]
  /\ UNCHANGED <<serviceVars, workerVars, watching, socket, watchVars, monitor, overtaken>>

\* deliver() goes on to the next watcher, and after the last lets the lock go
Onwards(w, s, behind) ==
  LET rest == reader[w].todo \ {s} IN
  [frame |-> IF rest = {} THEN 0 ELSE reader[w].frame, todo |-> rest, holds |-> NoSocket, behind |-> behind]

\* the loop over the history, and the reading of the socket after it
Replaying(s) == socket[s].at = "replaying" /\ socket[s].next <= socket[s].upTo
Live(s) == socket[s].at = "reading" \/ (socket[s].at = "replaying" /\ ~Replaying(s))

Delivering(w, s) == Locked(w) /\ s \in reader[w].todo /\ reader[w].holds = NoSocket

\* a watcher too far behind is noted, and one that had the frame is left alone
DeliverNot(w, s) ==
  /\ Delivering(w, s) /\ (TooFar(s) \/ Had(s, reader[w].frame))
  /\ reader' = [reader EXCEPT ![w] = Onwards(w, s, IF TooFar(s) THEN @.behind \cup {s} ELSE @.behind)]
  /\ UNCHANGED <<serviceVars, inbox, workerVars, watching, socket, watchVars, monitor, overtaken>>

DeliverMark(w, s) ==
  /\ Delivering(w, s) /\ Mark(s, reader[w].frame)
  /\ reader' = [reader EXCEPT ![w].holds = s]
  /\ overtaken' = (overtaken \/ ~Live(s))
  /\ UNCHANGED <<serviceVars, inbox, workerVars, watching, socket, pushed, channel, monitor>>

DeliverPush(w, s) ==
  /\ Locked(w) /\ reader[w].holds = s
  /\ Push(s, reader[w].frame)
  /\ reader' = [reader EXCEPT ![w] = Onwards(w, s, @.behind)]
  /\ UNCHANGED <<serviceVars, inbox, workerVars, watching, socket, monitor, overtaken>>

CloseBehind(w, s) ==
  /\ ~Locked(w) /\ s \in reader[w].behind
  /\ reader' = [reader EXCEPT ![w].behind = @ \ {s}]
  /\ CloseWatcher(w, s)
  /\ UNCHANGED <<serviceVars, inbox, workerVars, socket, monitor, overtaken>>

-----------------------------------------------------------------------------
(* serve_feed: one socket *)

Serve(s, from, to) ==
  /\ socket[s].at = from
  /\ socket' = [socket EXCEPT ![s].at = to]

\* a retired worker refuses; the socket is not read then
Admit(s) ==
  /\ socket[s].at = "opened"
  /\ IF retired[socket[s].on] = "no"
     THEN socket' = [socket EXCEPT ![s].at = "admitted"] /\ UNCHANGED channel
     ELSE socket' = [socket EXCEPT ![s] = Over] /\ channel' = [channel EXCEPT ![s] = Queued(s, EndOfChannel)]
  /\ UNCHANGED <<serviceVars, inbox, workerVars, watching, reader, delivered, pushed, monitor, overtaken>>

Join(s) ==
  LET w == socket[s].on IN
  /\ Serve(s, "admitted", "joined") /\ ~Locked(w)
  /\ watching' = [watching EXCEPT ![w] = @ \cup {s}]
  /\ UNCHANGED <<serviceVars, inbox, workerVars, reader, watchVars, monitor, overtaken>>

\* the service does not answer in time, or did not take the call: the socket is
\* closed with what it said
AskFails(s) ==
  /\ Serve(s, "joined", "reading") \/ Serve(s, "asking", "reading")
  /\ ~Locked(socket[s].on)
  /\ CloseWatcher(socket[s].on, s)
  /\ UNCHANGED <<serviceVars, inbox, workerVars, reader, monitor, overtaken>>

ReplaySkips(s) ==
  /\ Replaying(s) /\ ~TooFar(s) /\ Had(s, socket[s].next)
  /\ socket' = [socket EXCEPT ![s].next = @ + 1]
  /\ UNCHANGED <<serviceVars, inbox, workerVars, watching, reader, watchVars, monitor, overtaken>>

ReplayMark(s) ==
  /\ Replaying(s) /\ Mark(s, socket[s].next)
  /\ Serve(s, "replaying", "pushing")
  /\ UNCHANGED <<serviceVars, inbox, workerVars, watching, reader, pushed, channel, monitor, overtaken>>

ReplayPush(s) ==
  /\ socket[s].at = "pushing"
  /\ Push(s, socket[s].next)
  /\ socket' = [socket EXCEPT ![s].at = "replaying", ![s].next = @ + 1]
  /\ UNCHANGED <<serviceVars, inbox, workerVars, watching, reader, monitor, overtaken>>

ReplayBehind(s) ==
  /\ Replaying(s) /\ TooFar(s) /\ ~Locked(socket[s].on)
  /\ Serve(s, "replaying", "reading")
  /\ CloseWatcher(socket[s].on, s)
  /\ UNCHANGED <<serviceVars, inbox, workerVars, reader, monitor, overtaken>>

\* the socket closed, at either end
Leave(s) ==
  LET w == socket[s].on IN
  /\ Live(s) /\ monitor.on # s /\ ~Locked(w)
  /\ socket' = [socket EXCEPT ![s] = Over]
  /\ watching' = [watching EXCEPT ![w] = @ \ {s}]
  /\ delivered' = [delivered EXCEPT ![s] = 0] /\ pushed' = [pushed EXCEPT ![s] = <<>>]
  /\ UNCHANGED <<serviceVars, inbox, workerVars, reader, channel, monitor, overtaken>>

-----------------------------------------------------------------------------
(* The monitor, and the connection under it *)

\* it opens at the current worker, after the last frame it read
Open(s) ==
  /\ monitor.on = NoSocket /\ socket[s].at = "unopened"
  /\ \A earlier \in 1..(s - 1) : socket[earlier].at # "unopened"
  /\ monitor' = [monitor EXCEPT !.on = s]
  /\ socket' = [socket EXCEPT ![s] = [at |-> "opened", on |-> current, next |-> monitor.cursor + 1, upTo |-> 0]]
  /\ delivered' = [delivered EXCEPT ![s] = monitor.cursor]
  /\ UNCHANGED <<serviceVars, inbox, workerVars, watching, reader, pushed, channel, overtaken>>

\* the writer sends the head of the channel, and the monitor reads it
Write(s) ==
  LET item == Head(channel[s]) IN
  /\ monitor.on = s /\ channel[s] # <<>>
  /\ IF item = EndOfChannel
     THEN monitor' = [monitor EXCEPT !.on = NoSocket] /\ channel' = [channel EXCEPT ![s] = <<>>]
     ELSE /\ monitor' = [monitor EXCEPT !.cursor = item, !.read = @ \cup {item}]
          /\ channel' = [channel EXCEPT ![s] = Tail(@)]
  /\ UNCHANGED <<serviceVars, inbox, workerVars, watching, reader, socket, delivered, pushed, overtaken>>

\* the connection is cut, with what was on it
Cut(s) ==
  /\ monitor.on = s
  /\ monitor' = [monitor EXCEPT !.on = NoSocket] /\ channel' = [channel EXCEPT ![s] = <<>>]
  /\ UNCHANGED <<serviceVars, inbox, workerVars, watching, reader, socket, delivered, pushed, overtaken>>

-----------------------------------------------------------------------------
(* Workers replaced *)

\* a worker that started, and attached, becomes the current one
Replace(w) ==
  /\ w \notin attached
  /\ attached' = attached \cup {w} /\ current' = w
  /\ UNCHANGED <<serviceVars, inbox, retired, watching, reader, socket, watchVars, monitor, overtaken>>

\* retire(): told once, and then every watcher is closed
Retire(w) ==
  /\ w \in attached /\ w # current /\ retired[w] = "no"
  /\ retired' = [retired EXCEPT ![w] = "retired"]
  /\ UNCHANGED <<serviceVars, inbox, attached, current, watching, reader, socket, watchVars, monitor, overtaken>>

CloseAll(w) ==
  /\ retired[w] = "retired" /\ ~Locked(w)
  /\ retired' = [retired EXCEPT ![w] = "closed"]
  /\ watching' = [watching EXCEPT ![w] = {}]
  /\ channel' = [s \in Socket |-> IF s \in watching[w] THEN Queued(s, EndOfChannel) ELSE channel[s]]
  /\ UNCHANGED <<serviceVars, inbox, attached, current, reader, socket, delivered, pushed, monitor, overtaken>>

-----------------------------------------------------------------------------
Flush(k) == Take(k) \/ Say(k)

Deliver(w) ==
  \/ ReadAnswer(w) \/ ReadEvent(w)
  \/ \E s \in Socket : DeliverNot(w, s) \/ DeliverMark(w, s) \/ DeliverPush(w, s) \/ CloseBehind(w, s)

ServeFeed(s) ==
  \/ Admit(s) \/ Join(s) \/ After(s) \/ Leave(s)
  \/ ReplaySkips(s) \/ ReplayMark(s) \/ ReplayPush(s) \/ ReplayBehind(s)

Next ==
  \/ (\E k \in Others : Emit(k)) \/ (\E k \in Caller : Flush(k))
  \/ \E w \in Worker : Answers(w) \/ Deliver(w) \/ Replace(w) \/ Retire(w) \/ CloseAll(w)
  \/ \E s \in Socket : ServeFeed(s) \/ AskFails(s) \/ Open(s) \/ Write(s) \/ Cut(s)

Spec == Init /\ [][Next]_vars

-----------------------------------------------------------------------------
Line  == [for : Socket \cup {NoSocket}, number : 0..MaxFrames]
Calls == [at : {"idle", "acted", "taken", "saying", "said"}, batch : Seq(Frame),
          asks : Socket \cup {NoSocket}, upTo : 0..MaxFrames]
Reads == [frame : 0..MaxFrames, todo : SUBSET Socket, holds : Socket \cup {NoSocket}, behind : SUBSET Socket]
Stage == {"unopened", "opened", "admitted", "joined", "asking", "replaying", "pushing", "reading", "over"}
Served == [at : Stage, on : Worker, next : 0..(MaxFrames + 1), upTo : 0..MaxFrames]
Follows == [on : Socket \cup {NoSocket}, cursor : 0..MaxFrames, read : SUBSET Frame]

TypeOK ==
  /\ sequence \in 0..MaxFrames /\ queue \in Seq(Frame) /\ caller \in [Caller -> Calls]
  /\ inbox \in [Worker -> Seq(Line)]
  /\ attached \subseteq Worker /\ current \in attached
  /\ retired \in [Worker -> {"no", "retired", "closed"}]
  /\ watching \in [Worker -> SUBSET Socket] /\ reader \in [Worker -> Reads]
  /\ socket \in [Socket -> Served]
  /\ delivered \in [Socket -> 0..MaxFrames]
  /\ pushed \in [Socket -> Seq(Frame)] /\ channel \in [Socket -> Seq(0..MaxFrames)]
  /\ monitor \in Follows /\ overtaken \in BOOLEAN

-----------------------------------------------------------------------------
(* Safety *)

\* A socket is never sent the same frame twice, whether it comes live, in the
\* replay or both, while two threads send on it (Watcher.delivered).
NoFrameTwice ==
  \A s \in Socket : \A i, j \in 1..Len(pushed[s]) : i # j => pushed[s][i] # pushed[s][j]

\* Through every close, cut and replacement the monitor has read each frame up
\* to its cursor, unless a frame overtook an older one on its way: batches said
\* out of order, or a live frame before the end of the replay.
NothingMissedInOrder == ~overtaken => monitor.read = 1..monitor.cursor

\* nothing is on its way any more, and the monitor has an open socket
AtRest ==
  /\ queue = <<>> /\ \A k \in Caller : caller[k].at = "idle"
  /\ \A w \in Worker : inbox[w] = <<>> /\ reader[w] = Resting
  /\ monitor.on # NoSocket /\ channel[monitor.on] = <<>> /\ Live(monitor.on)

\* At rest the monitor has read every frame, unless one was overtaken: no watcher
\* is left open and forgotten by a close, a retirement or a replay, and no frame
\* stays in a queue.
NothingForgotten == AtRest /\ ~overtaken => monitor.read = 1..sequence

\* With no frame that overtook another, a monitor that follows the feed has every frame up to its
\* cursor and is never left behind for good.
FeedReachesMonitor == NothingMissedInOrder /\ NothingForgotten

-----------------------------------------------------------------------------
(* What the source says of itself and the code does not keep *)

\* feed.rs:9 and red_worker.rs:853: a watcher that replays over its live
\* subscription misses nothing, the de-duplication makes the overlap invisible.
NothingMissed == monitor.read = 1..monitor.cursor

=============================================================================
