------------------------------ MODULE GameFeed ------------------------------
(***************************************************************************)
(* What the feed says of a game or of an action on a device                *)
(* (red-worker: launches.rs, bin/red_worker.rs).  A pane that starts is    *)
(* announced by the host on the stream every worker follows, before the    *)
(* launch that asked for it has returned, so the worker queues who asks    *)
(* and the announcement takes the oldest fresh one.  A worker is replaced  *)
(* by another that reads the open pairs back out of the ring; between its  *)
(* start and its predecessor's retirement both follow the host.            *)
(***************************************************************************)
EXTENDS Naturals, Sequences, FiniteSets

CONSTANTS
  Call,        \* requests; a pane is named by the request that starts it
  Device,      \* those that run an action on a device, the others launch a game
  Worker,      \* worker processes
  First,       \* the one that serves at the start
  None,
  MaxClock,    \* bound: ticks; an entry of the queue is fresh until the next one
  MaxResizes,  \* bound: times a pane's record changes while it runs
  MaxDrops     \* bound: times each worker's stream of the host is cut

VARIABLES
  call,        \* each request
  pane,        \* the host's panes
  stale,       \* panes whose running record was copied to be announced, and is not yet
  resizes,
  wire,        \* announcements each worker has not read
  worker,      \* each worker: how far it has come, and what it saw of the host
  queue,       \* each worker: who asked, oldest first, and when
  ofSession,   \* each worker: who asked for a pane, once its launch returned
  open,        \* each worker: panes announced and not closed, and by whom
  saying,      \* each worker: frames it is about to mint
  ring,        \* the project's feed
  clock,
  overlapped   \* history: panes of which two workers heard, or across a cut, or after their end
gameVars == <<call, pane, stale, resizes, wire, worker, queue, ofSession, open, saying, ring, clock, overlapped>>

NoCall == [pc |-> "idle", at |-> None, now |-> 0, running |-> {}, answer |-> None]
Running == {p \in Call : pane[p] = "running"}
Frame(kind, p, by) == [kind |-> kind, pane |-> p, by |-> by]
Serving(w) == worker[w].pc # "off"
Minting == {w \in Worker : Serving(w) /\ ~worker[w].retired}

GameInit ==
  /\ call = [c \in Call |-> NoCall] /\ pane = [c \in Call |-> "none"] /\ stale = {} /\ resizes = 0
  /\ wire = [w \in Worker |-> <<>>] /\ ring = <<>> /\ clock = 0 /\ overlapped = {}
  /\ worker = [w \in Worker |->
       [pc |-> IF w = First THEN "inherited" ELSE "off", linked |-> w = First, retired |-> FALSE,
        looked |-> {}, drops |-> 0]]
  /\ queue = [w \in Worker |-> <<>>] /\ saying = [w \in Worker |-> <<>>]
  /\ ofSession = [w \in Worker |-> [p \in Call |-> None]]
  /\ open = [w \in Worker |-> [p \in Call |-> None]]

\* The host tells everyone who follows it.  A transition that is not heard by exactly one
\* minting worker is one the feed may miss or repeat.
Tell(p, state) == wire' = [w \in Worker |-> IF worker[w].linked THEN Append(wire[w], <<p, state>>) ELSE wire[w]]
Announce(p, state) ==
  /\ pane' = [pane EXCEPT ![p] = state] /\ Tell(p, state)
  /\ overlapped' = IF Cardinality(Minting) = 1 /\ \A w \in Minting : worker[w].linked
                   THEN overlapped ELSE overlapped \cup {p}

\* Panes of which worker w has something to read or to mint.
OnItsWay(w) == {wire[w][i][1] : i \in DOMAIN wire[w]} \cup {saying[w][i].pane : i \in DOMAIN saying[w]}

\* next(): the oldest fresh asker, and what is left; the stale ones before it go with it.
FreshAt(q, now) == {i \in DOMAIN q : now = q[i].at}
Oldest(q, now) == CHOOSE i \in FreshAt(q, now) : \A j \in FreshAt(q, now) : i <= j
Asker(q, now) == IF FreshAt(q, now) = {} THEN None ELSE q[Oldest(q, now)].by
Left(q, now)  == IF FreshAt(q, now) = {} THEN <<>> ELSE SubSeq(q, Oldest(q, now) + 1, Len(q))

(* A launch: queued before it is asked for, answered by the host, landed. *)
Queue(c, w) ==
  /\ call[c].pc = "idle" /\ c \notin Device /\ w \in Minting
  /\ call' = [call EXCEPT ![c] = [NoCall EXCEPT !.pc = "queued", !.at = w, !.now = clock, !.running = Running]]
  /\ queue' = [queue EXCEPT ![w] = Append(@, [by |-> c, at |-> clock])]
  /\ UNCHANGED <<pane, stale, resizes, wire, worker, ofSession, open, saying, ring, clock, overlapped>>

HostStarts(c) ==
  /\ call[c].pc = "queued" /\ Announce(c, "running")
  /\ call' = [call EXCEPT ![c].pc = "answered", ![c].answer = c]
  /\ UNCHANGED <<stale, resizes, worker, queue, ofSession, open, saying, ring, clock>>

\* It ends, and its end is announced, before its start is: with the record it has by then, or with
\* the one that was copied while it ran.
HostStartsLate(c) ==
  /\ call[c].pc = "queued"
  /\ pane' = [pane EXCEPT ![c] = "ended"] /\ Tell(c, "ended") /\ overlapped' = overlapped \cup {c}
  /\ stale' \in {stale, stale \cup {c}}
  /\ call' = [call EXCEPT ![c].pc = "answered", ![c].answer = c]
  /\ UNCHANGED <<resizes, worker, queue, ofSession, open, saying, ring, clock>>

\* The game asked for already runs, or the host refuses.
HostJoins(c) ==
  /\ call[c].pc = "queued"
  /\ \E p \in (Running \ Device) \cup {None} :
       call' = [call EXCEPT ![c].pc = "answered", ![c].answer = p]
  /\ UNCHANGED <<pane, stale, resizes, wire, worker, queue, ofSession, open, saying, ring, clock, overlapped>>

Landed(c) ==
  LET w == call[c].at p == call[c].answer IN
  /\ call[c].pc = "answered" /\ call' = [call EXCEPT ![c].pc = "done"]
  /\ ofSession' = IF p = None THEN ofSession ELSE [ofSession EXCEPT ![w][p] = c]
  /\ queue' = IF p = None \/ p \in call[c].running THEN [queue EXCEPT ![w] = Left(@, call[c].now)] ELSE queue
  /\ UNCHANGED <<pane, stale, resizes, wire, worker, open, saying, ring, clock, overlapped>>

(* An action on a device: its pane is created, bound to the pair, and the start is minted. *)
Create(c, w) ==
  /\ call[c].pc = "idle" /\ c \in Device /\ w \in Minting /\ Announce(c, "running")
  /\ call' = [call EXCEPT ![c] = [NoCall EXCEPT !.pc = "created", !.at = w, !.answer = c]]
  /\ UNCHANGED <<stale, resizes, worker, queue, ofSession, open, saying, ring, clock>>

DeviceAction(c) ==
  /\ call[c].pc = "created" /\ call' = [call EXCEPT ![c].pc = "bound"]
  /\ open' = [open EXCEPT ![call[c].at][c] = c]
  /\ UNCHANGED <<pane, stale, resizes, wire, worker, queue, ofSession, saying, ring, clock, overlapped>>

DeviceStarted(c) ==
  /\ call[c].pc = "bound" /\ call' = [call EXCEPT ![c].pc = "done"]
  /\ ring' = Append(ring, Frame("started", c, c))
  /\ UNCHANGED <<pane, stale, resizes, wire, worker, queue, ofSession, open, saying, clock, overlapped>>

PaneEnds(p) ==
  /\ p \in Running /\ Announce(p, "ended")
  /\ UNCHANGED <<call, stale, resizes, worker, queue, ofSession, open, saying, ring, clock>>

\* A record that changes while its pane runs, as its size does, is copied under the pane's lock and
\* announced after it: by then the pane may have ended, and its end been announced.
Resizes(p) ==
  /\ p \in Running /\ resizes < MaxResizes
  /\ stale' = stale \cup {p} /\ resizes' = resizes + 1
  /\ UNCHANGED <<call, pane, wire, worker, queue, ofSession, open, saying, ring, clock, overlapped>>

SaysAgain(p) ==
  /\ p \in stale /\ stale' = stale \ {p} /\ Tell(p, "running")
  /\ overlapped' = IF p \in Running THEN overlapped ELSE overlapped \cup {p}
  /\ UNCHANGED <<call, pane, resizes, worker, queue, ofSession, open, saying, ring, clock>>

(* told_the_feed(): a retired worker mints nothing; what heard() says is minted a call later. *)
Starts(w, p, state) == state = "running" /\ open[w][p] = None /\ p \notin Device
Ends(w, p, state) == state = "ended" /\ open[w][p] # None
StartedBy(w, p) ==
  IF ofSession[w][p] # None THEN ofSession[w][p] ELSE Asker(queue[w], clock)

AlwaysHeeds(w) == TRUE

Heeds(w) == ~worker[w].retired

Hear(w) ==
  LET p == Head(wire[w])[1] state == Head(wire[w])[2] IN
  /\ wire[w] # <<>> /\ saying[w] = <<>> /\ wire' = [wire EXCEPT ![w] = Tail(@)]
  /\ \/ /\ Heeds(w) /\ Starts(w, p, state)
        /\ open' = [open EXCEPT ![w][p] = IF StartedBy(w, p) = None THEN "workspace" ELSE StartedBy(w, p)]
        /\ queue' = IF ofSession[w][p] # None THEN queue ELSE [queue EXCEPT ![w] = Left(@, clock)]
        /\ saying' = [saying EXCEPT ![w] = <<Frame("started", p, open'[w][p])>>]
        /\ UNCHANGED ofSession
     \/ /\ Heeds(w) /\ Ends(w, p, state)
        /\ saying' = [saying EXCEPT ![w] = <<Frame("ended", p, open[w][p])>>]
        /\ open' = [open EXCEPT ![w][p] = None]
        /\ ofSession' = [ofSession EXCEPT ![w][p] = None]
        /\ UNCHANGED queue
     \/ /\ ~Heeds(w) \/ ~(Starts(w, p, state) \/ Ends(w, p, state))
        /\ UNCHANGED <<open, queue, saying, ofSession>>
  /\ UNCHANGED <<call, pane, stale, resizes, worker, ring, clock, overlapped>>

Mint(w) ==
  /\ saying[w] # <<>> /\ ring' = Append(ring, Head(saying[w]))
  /\ saying' = [saying EXCEPT ![w] = Tail(@)]
  /\ UNCHANGED <<call, pane, stale, resizes, wire, worker, queue, ofSession, open, clock, overlapped>>

(* A worker that starts: it says so, looks at the host's panes, reads the ring, closes the   *)
(* pairs whose pane did not run when it looked, and follows the host from then on.            *)
Begins(w) ==
  /\ worker[w].pc = "off" /\ worker' = [worker EXCEPT ![w].pc = "started"]
  /\ UNCHANGED <<call, pane, stale, resizes, wire, queue, ofSession, open, saying, ring, clock, overlapped>>

InheritLooks(w) ==
  /\ worker[w].pc = "started"
  /\ worker' = [worker EXCEPT ![w].pc = "looked", ![w].looked = Running]
  /\ UNCHANGED <<call, pane, stale, resizes, wire, queue, ofSession, open, saying, ring, clock, overlapped>>

Left_Open(p) ==
  LET of == {i \in DOMAIN ring : ring[i].pane = p}
      last == CHOOSE i \in of : \A j \in of : j <= i IN
  IF of = {} \/ ring[last].kind = "ended" THEN None ELSE ring[last].by

\* What it closes it closes in the order of a table that has none.
Orders(S) == {f \in [1..Cardinality(S) -> S] : \A i, j \in DOMAIN f : f[i] = f[j] => i = j}

Inherit(w) ==
  LET held == [p \in Call |-> IF Left_Open(p) = None THEN open[w][p] ELSE Left_Open(p)]
      over == {p \in Call : held[p] # None /\ p \notin worker[w].looked /\ ~worker[w].retired} IN
  /\ worker[w].pc = "looked" /\ worker' = [worker EXCEPT ![w].pc = "inherited"]
  /\ open' = [open EXCEPT ![w] = [p \in Call |-> IF p \in over THEN None ELSE held[p]]]
  /\ \E order \in Orders(over) :
       saying' = [saying EXCEPT ![w] = [i \in DOMAIN order |-> Frame("ended", order[i], held[order[i]])]]
  /\ overlapped' = overlapped \cup {p \in over : pane[p] = "running"} \cup UNION {OnItsWay(v) : v \in Worker}
  /\ UNCHANGED <<call, pane, stale, resizes, wire, queue, ofSession, ring, clock>>

Follow(w) ==
  /\ worker[w].pc = "inherited" /\ ~worker[w].linked /\ saying[w] = <<>> /\ wire[w] = <<>>
  /\ worker' = [worker EXCEPT ![w].linked = TRUE]
  /\ UNCHANGED <<call, pane, stale, resizes, wire, queue, ofSession, open, saying, ring, clock, overlapped>>

Cut(w) ==
  /\ worker[w].linked /\ worker[w].drops < MaxDrops
  /\ worker' = [worker EXCEPT ![w].linked = FALSE, ![w].drops = @ + 1]
  /\ wire' = [wire EXCEPT ![w] = <<>>]
  /\ overlapped' = overlapped \cup OnItsWay(w)
  /\ UNCHANGED <<call, pane, stale, resizes, queue, ofSession, open, saying, ring, clock>>

Retire(w) ==
  /\ w = First /\ ~worker[w].retired /\ \E v \in Worker \ {w} : Serving(v)
  /\ worker' = [worker EXCEPT ![w].retired = TRUE]
  /\ overlapped' = overlapped \cup OnItsWay(w)
  /\ UNCHANGED <<call, pane, stale, resizes, wire, queue, ofSession, open, saying, ring, clock>>

Tick ==
  /\ clock < MaxClock /\ clock' = clock + 1
  /\ UNCHANGED <<call, pane, stale, resizes, wire, worker, queue, ofSession, open, saying, ring, overlapped>>

GameNext ==
  \/ \E c \in Call : \/ \E w \in Worker : Queue(c, w) \/ Create(c, w)
                     \/ HostStarts(c) \/ HostStartsLate(c) \/ HostJoins(c) \/ Landed(c)
                     \/ DeviceAction(c) \/ DeviceStarted(c)
                     \/ PaneEnds(c) \/ Resizes(c) \/ SaysAgain(c)
  \/ \E w \in Worker : \/ Hear(w) \/ Mint(w) \/ Begins(w) \/ InheritLooks(w) \/ Inherit(w)
                       \/ Follow(w) \/ Cut(w) \/ Retire(w)
  \/ Tick
GameSpec == GameInit /\ [][GameNext]_gameVars

(***************************************************************************)
(* Properties                                                              *)
(***************************************************************************)
Of(p, kind) == {i \in DOMAIN ring : ring[i].pane = p /\ ring[i].kind = kind}

\* The feed says of a game that it started at most once and ended at most once, in that order
\* and by the same asker, whoever was replaced meanwhile, if one worker alone heard of it and no
\* running record of it was announced after its end: one that is starts a second pair
\* (red-pty lib.rs:607), which the code does not mean to happen (launches.rs:14).
OnePairEach ==
  \A p \in Call \ (overlapped \cup Device) :
     /\ Cardinality(Of(p, "started")) <= 1 /\ Cardinality(Of(p, "ended")) <= 1
     /\ \A i \in Of(p, "ended") : \E j \in Of(p, "started") : j < i /\ ring[j].by = ring[i].by
=============================================================================
