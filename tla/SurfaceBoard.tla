---------------------------- MODULE SurfaceBoard -----------------------------
(***************************************************************************)
(* One game's surface: the producers that draw it and take its input, and  *)
(* the viewers that watch it and may hold its input (red-host:             *)
(* surfaces.rs, surface_socket.rs).  A producer's channel is judged free   *)
(* under the lock and taken under it again, in a step of its own; what a   *)
(* viewer does is queued to the producer that takes the input.             *)
(***************************************************************************)
EXTENDS Naturals, Sequences, FiniteSets

CONSTANTS
  Producer,    \* sockets of the game that greet with the token
  Viewer,      \* sockets that watch the pane
  Nobody,      \* no owner, no producer
  MaxPackets   \* bound: packets queued to a producer

VARIABLES
  reserved,    \* whether the token is reserved
  producer,    \* each producer: where it is, and the channel it greeted for
  frames,      \* frames_connected
  input,       \* the producer whose sender the surface holds
  viewer,      \* each viewer
  owner,       \* the viewer that holds the input
  packets,     \* packets queued to each producer, by the viewer they speak for
  holding      \* external: the viewers whose keys the game behind each producer holds down

boardVars == <<reserved, producer, frames, input, viewer, owner, packets, holding>>

\* A focus packet is not told apart from nothing: the game's keys are.
Channel == {"frames", "input"}
Key(v)  == [kind |-> "key", of |-> v]
Release == [kind |-> "release", of |-> Nobody]

BoardInit ==
  /\ reserved = TRUE /\ frames = FALSE /\ input = Nobody /\ owner = Nobody
  /\ producer = [p \in Producer |-> [at |-> "away", channel |-> "none"]]
  /\ viewer = [v \in Viewer |-> "away"]
  /\ packets = [p \in Producer |-> <<>>] /\ holding = [p \in Producer |-> {}]

\* What every viewer is told, when it attaches and at each change.
Status ==
  IF frames /\ input # Nobody THEN "Live" ELSE IF frames THEN "Input disconnected" ELSE "Video disconnected"
Attached == {v \in Viewer : viewer[v] = "watching"}

-----------------------------------------------------------------------------
\* accept: the greeting, the judgement, and the channel.

Goes(p, at) == producer' = [producer EXCEPT ![p].at = at]

Greet(p) ==
  /\ producer[p].at = "away"
  /\ \E c \in Channel : producer' = [producer EXCEPT ![p] = [at |-> "greeted", channel |-> c]]
  /\ UNCHANGED <<reserved, frames, input, viewer, owner, packets, holding>>

Taken(channel) == IF channel = "frames" THEN frames ELSE input # Nobody

Judge(p) ==
  /\ producer[p].at = "greeted"
  /\ Goes(p, IF ~reserved \/ Taken(producer[p].channel) THEN "closed" ELSE "passed")
  /\ UNCHANGED <<reserved, frames, input, viewer, owner, packets, holding>>

ServeFrames(p) ==
  /\ producer[p] = [at |-> "passed", channel |-> "frames"]
  /\ Goes(p, IF reserved THEN "serving" ELSE "closed")
  /\ frames' = (frames \/ reserved)
  /\ UNCHANGED <<reserved, input, viewer, owner, packets, holding>>

ServeInput(p) ==
  /\ producer[p] = [at |-> "passed", channel |-> "input"]
  /\ Goes(p, IF reserved THEN "serving" ELSE "closed")
  /\ input' = IF reserved THEN p ELSE input
  /\ UNCHANGED <<reserved, frames, viewer, owner, packets, holding>>

\* The game's socket ends, it sent what it may not, or its reservation or sender is gone.
EndFrames(p) ==
  /\ producer[p] = [at |-> "serving", channel |-> "frames"]
  /\ Goes(p, "closed")
  /\ frames' = (frames /\ ~reserved)
  /\ UNCHANGED <<reserved, input, viewer, owner, packets, holding>>

EndInput(p) ==
  /\ producer[p] = [at |-> "serving", channel |-> "input"]
  /\ Goes(p, "closed")
  /\ packets' = [packets EXCEPT ![p] = <<>>] /\ holding' = [holding EXCEPT ![p] = {}]
  /\ IF reserved THEN input' = Nobody /\ owner' = Nobody
     ELSE UNCHANGED <<input, owner>>
  /\ UNCHANGED <<reserved, frames, viewer>>

-----------------------------------------------------------------------------
\* A viewer: it attaches, sends input, and leaves.

Attach(v) ==
  /\ viewer[v] = "away"
  /\ viewer' = [viewer EXCEPT ![v] = IF reserved THEN "watching" ELSE "closed"]
  /\ UNCHANGED <<reserved, producer, frames, input, owner, packets, holding>>

Queue(said) == packets' = IF input = Nobody THEN packets ELSE [packets EXCEPT ![input] = @ \o said]
Room(n)     == input # Nobody => Len(packets[input]) + n <= MaxPackets

\* Mutant: the input changes hands without a release.
EvictsNobody(v) == <<>>

\* A focus gain releases whoever had the input before it takes it.
Evicts(v) == IF owner # v THEN <<Release>> ELSE <<>>
TakeFocus(v) ==
  /\ v \in Attached /\ reserved /\ Room(1)
  /\ owner' = v /\ Queue(Evicts(v))
  /\ UNCHANGED <<reserved, producer, frames, input, viewer, holding>>

\* Only the owner is heard; anyone else is dropped in silence.
Heard(v) == owner = v
Press(v) ==
  /\ v \in Attached /\ reserved /\ Heard(v) /\ Room(1)
  /\ Queue(<<Key(v)>>)
  /\ UNCHANGED <<reserved, producer, frames, input, viewer, owner, holding>>

\* A focus loss, or an explicit release, gives the input up.
LoseFocus(v) ==
  /\ v \in Attached /\ reserved /\ Heard(v) /\ input # Nobody /\ Room(1)
  /\ Queue(<<Release>>) /\ owner' = Nobody
  /\ UNCHANGED <<reserved, producer, frames, input, viewer, holding>>

Detach(v) ==
  /\ v \in Attached /\ Room(1)
  /\ viewer' = [viewer EXCEPT ![v] = "closed"]
  /\ IF reserved /\ owner = v THEN owner' = Nobody /\ Queue(<<Release>>) ELSE UNCHANGED <<owner, packets, holding>>
  /\ UNCHANGED <<reserved, producer, frames, input, holding>>

\* The input's writer passes a packet on, and the game lets go of its keys when it is released.
After(held, packet) ==
  IF packet.kind = "key" THEN held \cup {packet.of} ELSE {}
Deliver(p) ==
  /\ producer[p].at = "serving" /\ packets[p] # <<>>
  /\ holding' = [holding EXCEPT ![p] = After(@, Head(packets[p]))]
  /\ packets' = [packets EXCEPT ![p] = Tail(@)]
  /\ UNCHANGED <<reserved, producer, frames, input, viewer, owner>>

\* The game has exited: the reservation goes, with what it held.
Exit ==
  /\ reserved /\ Room(1)
  /\ reserved' = FALSE /\ owner' = Nobody /\ Queue(<<Release>>)
  /\ UNCHANGED <<producer, frames, input, viewer, holding>>
BoardNext ==
  \/ \E p \in Producer : Greet(p) \/ Judge(p) \/ ServeFrames(p) \/ ServeInput(p)
                          \/ EndFrames(p) \/ EndInput(p) \/ Deliver(p)
  \/ \E v \in Viewer : Attach(v) \/ TakeFocus(v) \/ Press(v) \/ LoseFocus(v) \/ Detach(v)
  \/ Exit

-----------------------------------------------------------------------------
BoardTypeOK ==
  /\ producer \in [Producer -> [at : {"away", "greeted", "passed", "serving", "closed"},
                                channel : Channel \cup {"none"}]]
  /\ input \in Producer \cup {Nobody} /\ owner \in Viewer \cup {Nobody}
  /\ viewer \in [Viewer -> {"away", "watching", "closed"}]
  /\ \A p \in Producer : Len(packets[p]) <= MaxPackets /\ holding[p] \subseteq Viewer

\* What the game holds down once everything queued to it is read: the keys queued behind the last
\* release, and those it holds already when no release is queued.
Unreleased(queued, i) == \A j \in DOMAIN queued : j > i => queued[j].kind # "release"
HeldInTheEnd(p) ==
  {packets[p][i].of : i \in {k \in DOMAIN packets[p] : packets[p][k].kind = "key" /\ Unreleased(packets[p], k)}}
    \cup {v \in holding[p] : Unreleased(packets[p], 0)}

\* A game never keeps a key down for a viewer that does not hold its input: whoever evicts, leaves
\* or ends the game queues the release behind the keys.
KeysAreTheOwners == input # Nobody => HeldInTheEnd(input) \subseteq {owner}

\* Of the producers that greet for one channel with one token, one is served.
OneProducerPerChannel ==
  \A c \in Channel : Cardinality({p \in Producer : producer[p] = [at |-> "serving", channel |-> c]}) <= 1

BoardSpec == BoardInit /\ [][BoardNext]_boardVars
=============================================================================
