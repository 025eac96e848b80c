----------------------------- MODULE HostProofs -----------------------------
(***************************************************************************)
(* Proofs about the parts of MCHost, for every number of requests, panes,  *)
(* sockets, viewers, producers, workers and attempts.  Each part has an    *)
(* inductive invariant of its own; a step of another part leaves it alone. *)
(***************************************************************************)
EXTENDS MCHost, SequenceTheorems, TLAPS

-----------------------------------------------------------------------------
\* SessionMessage: what an Enter rests on is what the handshake has seen echoed.

Handshakes ==
  [of : Message!Line \cup {NoLine}, pasted : BOOLEAN, seen : BOOLEAN, tries : Nat, settled : BOOLEAN]

Echoes ==
  /\ watch \in Handshakes
  /\ watch.settled => ~watch.pasted /\ ~watch.seen
  /\ watch.seen /\ ~touched => watch.of \in composer
  /\ Message!EnterFindsItsLine

LEMMA EchoesInit ==
  ASSUME Message!MessageInit
  PROVE  Echoes
<1>1. Message!NoWatch \in Handshakes /\ Message!Begun(Brief) \in Handshakes
  BY DEF Message!NoWatch, Message!Begun, Handshakes, Message!Line
<1>2. watch \in Handshakes
  BY <1>1 DEF Message!MessageInit
<1>3. ~watch.pasted /\ ~watch.seen /\ enters = {}
  BY DEF Message!MessageInit, Message!NoWatch, Message!Begun
<1>. QED
  BY <1>2, <1>3 DEF Echoes, Message!EnterFindsItsLine

LEMMA EchoesStep ==
  ASSUME Echoes, Message!MessageNext
  PROVE  Echoes'
<1>. USE DEF Echoes, Handshakes, Message!EnterFindsItsLine
<1>1. CASE Message!Output
  BY <1>1 DEF Message!Output
<1>2. CASE Message!Types
  BY <1>2 DEF Message!Types
<1>3. CASE Message!Exits \/ Message!Owner \/ Message!Record
  BY <1>3 DEF Message!Exits, Message!Owner, Message!paneVars, Message!Record
<1>4. CASE Message!Paste
  <2>1. watch.tries + 1 \in Nat
    OBVIOUS
  <2>2. watch' \in Handshakes
    BY <1>4, <2>1 DEF Message!Paste
  <2>3. ~watch'.seen /\ ~watch'.settled
    BY <1>4 DEF Message!Paste, Message!Watching
  <2>. QED
    BY <1>4, <2>2, <2>3 DEF Message!Paste
<1>5. CASE Message!Submit
  <2>1. watch' = [of |-> watch.of, pasted |-> FALSE, seen |-> FALSE, tries |-> 0, settled |-> TRUE]
    BY <1>5 DEF Message!Submit, Message!NoWatch
  <2>2. ~touched => watch.of \in composer
    BY <1>5 DEF Message!Submit, Message!Echoed
  <2>3. watch' \in Handshakes
    BY <2>1
  <2>. QED
    BY <1>5, <2>1, <2>3, <2>2 DEF Message!Submit
<1>6. CASE Message!Retry
  BY <1>6 DEF Message!Retry
<1>7. CASE Message!GiveUp
  <2>1. watch' = [of |-> watch.of, pasted |-> FALSE, seen |-> FALSE, tries |-> 0, settled |-> TRUE]
    BY <1>7 DEF Message!GiveUp, Message!NoWatch
  <2>3. watch' \in Handshakes
    BY <2>1
  <2>. QED
    BY <1>7, <2>1, <2>3 DEF Message!GiveUp
<1>8. ASSUME NEW r \in Relay, Message!Attach(r) PROVE Echoes'
  BY <1>8 DEF Message!Attach, Message!Begun, Message!Line
<1>9. ASSUME NEW r \in Relay,
             \/ Message!Check(r) \/ Message!Turned(r) \/ Message!Spend(r)
             \/ Message!Hear(r) \/ Message!HearEnd(r) \/ Message!StopWaiting(r)
      PROVE  Echoes'
  BY <1>9 DEF Message!Check, Message!Turned, Message!Spend, Message!Hear, Message!HearEnd,
              Message!StopWaiting, Message!paneVars
<1>. QED
  BY <1>1, <1>2, <1>3, <1>4, <1>5, <1>6, <1>7, <1>8, <1>9
     DEF Message!MessageNext, Message!Service, Message!Handshake, Message!Route

\* The handshake presses Enter only on a line the pane has echoed, whatever is printed, typed or
\* attached meanwhile and however often it tries (SessionMessage, red-host message.rs).
THEOREM EntersFindTheirLine == Spec => []EnterFindsItsLine
<1>1. Init => Echoes
  BY EchoesInit DEF Init
<1>2. Echoes /\ [Next]_vars => Echoes'
  <2>. SUFFICES ASSUME Echoes, [Next]_vars PROVE Echoes'
    OBVIOUS
  <2>1. CASE OfMessage
    BY <2>1, EchoesStep DEF OfMessage
  <2>2. CASE UNCHANGED message
    BY <2>2 DEF message, Echoes, Handshakes, Message!EnterFindsItsLine
  <2>3. OfMessage \/ UNCHANGED message
    BY DEF Next, vars, OfPanes, OfMessage, OfBoard, OfDesks, OfSegment, OfRoutes
  <2>. QED
    BY <2>1, <2>2, <2>3
<1>3. Echoes => EnterFindsItsLine
  BY DEF Echoes, EnterFindsItsLine
<1>. QED
  BY <1>1, <1>2, <1>3, PTL DEF Spec
-----------------------------------------------------------------------------
\* SurfaceBoard: what is queued to a game settles on the viewer that owns its input.

Packet == [kind : {"key", "release"}, of : Viewer \cup {Nobody}]

\* Whatever is queued, the game ends up holding keys of v alone.
Settles(q, held, v) ==
  /\ \A i \in 1 .. Len(q) : q[i].kind = "key" /\ Board!Unreleased(q, i) => q[i].of = v
  /\ \A w \in held : Board!Unreleased(q, 0) => w = v

LEMMA ReleaseSettles ==
  ASSUME NEW q \in Seq(Packet), NEW held, NEW v
  PROVE  Settles(Append(q, Board!Release), held, v)
<1>. DEFINE r == Append(q, Board!Release)
<1>1. /\ r \in Seq(Packet) /\ Len(r) = Len(q) + 1
      /\ r[Len(r)] = Board!Release
  BY DEF Board!Release, Packet
<1>2. r[Len(r)].kind = "release" /\ Len(r) \in DOMAIN r
  BY <1>1 DEF Board!Release
<1>3. \A i \in 0 .. Len(q) : ~Board!Unreleased(r, i)
  BY <1>1, <1>2 DEF Board!Unreleased
<1>4. \A i \in 1 .. Len(r) : r[i].kind = "key" => i \in 0 .. Len(q)
  BY <1>1, <1>2
<1>. QED
  BY <1>3, <1>4 DEF Settles

LEMMA KeySettles ==
  ASSUME NEW q \in Seq(Packet), NEW held, NEW v \in Viewer, Settles(q, held, v)
  PROVE  Settles(Append(q, Board!Key(v)), held, v)
<1>. DEFINE r == Append(q, Board!Key(v))
<1>1. /\ r \in Seq(Packet) /\ Len(r) = Len(q) + 1
      /\ \A i \in 1 .. Len(q) : r[i] = q[i]
      /\ r[Len(r)] = Board!Key(v)
  BY DEF Board!Key, Packet
<1>2. \A i \in 0 .. Len(q) : Board!Unreleased(r, i) => Board!Unreleased(q, i)
  BY <1>1 DEF Board!Unreleased
<1>. QED
  BY <1>1, <1>2 DEF Settles, Board!Key

LEMMA DeliverySettles ==
  ASSUME NEW q \in Seq(Packet), NEW held, NEW v, q # <<>>, Settles(q, held, v)
  PROVE  Settles(Tail(q), Board!After(held, Head(q)), v)
<1>1. /\ Tail(q) \in Seq(Packet) /\ Len(Tail(q)) = Len(q) - 1 /\ Len(q) \in Nat \ {0}
      /\ \A i \in 1 .. Len(Tail(q)) : Tail(q)[i] = q[i + 1]
      /\ Head(q) = q[1] /\ DOMAIN q = 1 .. Len(q)
  BY HeadTailProperties
<1>2. \A i \in 0 .. Len(Tail(q)) : Board!Unreleased(Tail(q), i) => Board!Unreleased(q, i + 1)
  <2>. SUFFICES ASSUME NEW i \in 0 .. Len(Tail(q)), Board!Unreleased(Tail(q), i), NEW j \in 1 .. Len(q), j > i + 1
                PROVE  q[j].kind # "release"
    BY <1>1 DEF Board!Unreleased
  <2>1. j - 1 \in DOMAIN Tail(q) /\ j - 1 > i /\ Tail(q)[j - 1] = q[j]
    BY <1>1
  <2>. QED
    BY <2>1 DEF Board!Unreleased
<1>3. ASSUME NEW i \in 1 .. Len(Tail(q)), Tail(q)[i].kind = "key", Board!Unreleased(Tail(q), i)
      PROVE  Tail(q)[i].of = v
  BY <1>1, <1>2, <1>3 DEF Settles
<1>4. ASSUME NEW w \in Board!After(held, Head(q)), Board!Unreleased(Tail(q), 0)
      PROVE  w = v
  <2>1. Board!Unreleased(q, 1) /\ q[1] \in Packet /\ 1 \in 1 .. Len(q)
    BY <1>1, <1>2, <1>4
  <2>2. q[1].kind = "key"
    BY <1>1, <1>4 DEF Board!After
  <2>3. q[1].of = v
    BY <2>1, <2>2 DEF Settles
  <2>4. Board!Unreleased(q, 0)
    BY <2>1, <2>2 DEF Board!Unreleased
  <2>5. w \in held \/ w = q[1].of
    BY <1>1, <1>4, <2>2 DEF Board!After
  <2>. QED
    BY <2>3, <2>4, <2>5 DEF Settles
<1>. QED
  BY <1>3, <1>4 DEF Settles
Places == {"away", "greeted", "passed", "serving", "closed"}
Producers == [at : Places, channel : Board!Channel \cup {"none"}]
Connected(p) == producer[p].at = "serving" /\ producer[p].channel = "input"

BoardTyped ==
  /\ producer \in [Producer -> Producers]
  /\ packets \in [Producer -> Seq(Packet)]
  /\ holding \in [Producer -> SUBSET (Viewer \cup {Nobody})]
  /\ input \in Producer \cup {Nobody}

\* Keys are queued to, and held down behind, a producer that serves the input and no other; and
\* whatever is queued to the surface's own, the game comes to hold its owner's keys.
Settled ==
  /\ \A p \in Producer : ~Connected(p) => packets[p] = <<>> /\ holding[p] = {}
  /\ token /\ input # Nobody => Connected(input)
  /\ input # Nobody => Settles(packets[input], holding[input], owner)

BoardInv == BoardTyped /\ Settled

LEMMA BoardStarts ==
  ASSUME Board!BoardInit
  PROVE  BoardInv
<1>1. BoardTyped
  BY DEF Board!BoardInit, BoardTyped, Producers, Places, Packet
<1>2. Settled
  BY DEF Board!BoardInit, Settled
<1>. QED
  BY <1>1, <1>2 DEF BoardInv

\* A packet is queued to the surface's own producer, when it has one.
LEMMA QueueAppends ==
  ASSUME BoardTyped, NEW x \in Packet, Board!Queue(<<x>>)
  PROVE  packets' = IF input = Nobody THEN packets
                    ELSE [packets EXCEPT ![input] = Append(packets[input], x)]
<1>1. CASE input = Nobody
  BY <1>1 DEF Board!Queue
<1>2. CASE input # Nobody
  <2>1. packets[input] \in Seq(Packet)
    BY <1>2 DEF BoardTyped
  <2>2. packets[input] \o <<x>> = Append(packets[input], x)
    BY <2>1
  <2>. QED
    BY <1>2, <2>2 DEF Board!Queue
<1>. QED
  BY <1>1, <1>2

\* Whoever owns the input now, what waits in front of the game settles on it.
LEMMA QueueSettles ==
  ASSUME BoardInv, token, input' = input, producer' = producer, holding' = holding,
         NEW q \in Seq(Packet),
         packets' = IF input = Nobody THEN packets ELSE [packets EXCEPT ![input] = q],
         input # Nobody => Settles(q, holding[input], owner')
  PROVE  BoardInv'
<1>. USE DEF BoardInv
<1>1. BoardTyped'
  BY DEF BoardTyped
<1>2. CASE input = Nobody
  <2>1. packets' = packets
    BY <1>2
  <2>2. Settled'
    BY <1>2, <2>1 DEF Settled, Connected
  <2>. QED
    BY <1>1, <2>2
<1>3. CASE input # Nobody
  <2>1. input \in Producer /\ Connected(input)
    BY <1>3 DEF BoardTyped, Settled
  <2>2. /\ packets'[input] = q
        /\ \A p \in Producer : p # input => packets'[p] = packets[p]
    BY <1>3, <2>1 DEF BoardTyped
  <2>3. \A p \in Producer : Connected(p)' = Connected(p)
    BY DEF Connected
  <2>4. \A p \in Producer : ~Connected(p)' => packets'[p] = <<>> /\ holding'[p] = {}
    BY <2>1, <2>2, <2>3 DEF Settled
  <2>5. Connected(input)'
    BY <2>1, <2>3
  <2>6. Settles(packets'[input'], holding'[input'], owner')
    BY <1>3, <2>2
  <2>7. Settled'
    BY <2>4, <2>5, <2>6 DEF Settled
  <2>. QED
    BY <1>1, <2>7
<1>. QED
  BY <1>2, <1>3

\* The input changes hands behind a release, or goes nowhere.
LEMMA ReleasedBoard ==
  ASSUME BoardInv, token, input' = input, producer' = producer, holding' = holding,
         Board!Queue(<<Board!Release>>)
  PROVE  BoardInv'
<1>1. Board!Release \in Packet
  BY DEF Board!Release, Packet
<1>2. packets' = IF input = Nobody THEN packets
                 ELSE [packets EXCEPT ![input] = Append(packets[input], Board!Release)]
  BY <1>1, QueueAppends DEF BoardInv
<1>3. CASE input = Nobody
  <2>1. <<>> \in Seq(Packet)
    OBVIOUS
  <2>. QED
    BY <1>2, <1>3, <2>1, QueueSettles
<1>4. CASE input # Nobody
  <2>1. packets[input] \in Seq(Packet)
    BY <1>4 DEF BoardInv, BoardTyped
  <2>2. Append(packets[input], Board!Release) \in Seq(Packet)
    BY <1>1, <2>1
  <2>3. Settles(Append(packets[input], Board!Release), holding[input], owner')
    BY <2>1, ReleaseSettles
  <2>. QED
    BY <1>2, <1>4, <2>2, <2>3, QueueSettles
<1>. QED
  BY <1>3, <1>4

LEMMA PressBoard ==
  ASSUME BoardInv, NEW v \in Viewer, Board!Press(v)
  PROVE  BoardInv'
<1>1. Board!Key(v) \in Packet
  BY DEF Board!Key, Packet
<1>2. packets' = IF input = Nobody THEN packets
                 ELSE [packets EXCEPT ![input] = Append(packets[input], Board!Key(v))]
  BY <1>1, QueueAppends DEF BoardInv, Board!Press
<1>3. token /\ owner = v /\ UNCHANGED <<input, producer, holding, owner>>
  BY DEF Board!Press, Board!Heard
<1>4. CASE input = Nobody
  <2>1. <<>> \in Seq(Packet)
    OBVIOUS
  <2>. QED
    BY <1>2, <1>3, <1>4, <2>1, QueueSettles
<1>5. CASE input # Nobody
  <2>1. packets[input] \in Seq(Packet) /\ Settles(packets[input], holding[input], v)
    BY <1>3, <1>5 DEF BoardInv, BoardTyped, Settled
  <2>2. Append(packets[input], Board!Key(v)) \in Seq(Packet)
    BY <1>1, <2>1
  <2>3. Settles(Append(packets[input], Board!Key(v)), holding[input], owner')
    BY <1>3, <2>1, KeySettles
  <2>. QED
    BY <1>2, <1>3, <1>5, <2>2, <2>3, QueueSettles
<1>. QED
  BY <1>4, <1>5

LEMMA TakeFocusBoard ==
  ASSUME BoardInv, NEW v \in Viewer, Board!TakeFocus(v)
  PROVE  BoardInv'
<1>1. CASE owner # v
  BY <1>1, ReleasedBoard DEF Board!TakeFocus, Board!Evicts
<1>2. CASE owner = v
  <2>1. Board!Queue(<<>>) /\ UNCHANGED <<input, producer, holding, owner>>
    BY <1>2 DEF Board!TakeFocus, Board!Evicts
  <2>2. input # Nobody => packets[input] \in Seq(Packet) /\ packets[input] \o <<>> = packets[input]
    BY ConcatEmptySeq DEF BoardInv, BoardTyped
  <2>3. packets' = packets
    BY <2>1, <2>2 DEF Board!Queue, BoardInv, BoardTyped
  <2>4. token' = token
    BY DEF Board!TakeFocus
  <2>. QED
    BY <2>1, <2>3, <2>4 DEF BoardInv, BoardTyped, Settled, Connected
<1>. QED
  BY <1>1, <1>2

LEMMA GreetJudgeBoard ==
  ASSUME BoardInv, NEW p \in Producer,
         \/ Board!Greet(p) \/ Board!Judge(p) \/ Board!ServeFrames(p) \/ Board!EndFrames(p)
  PROVE  BoardInv'
<1>1. /\ UNCHANGED <<token, input, owner, packets, holding>>
      /\ producer' \in [Producer -> Producers]
      /\ \A q \in Producer : q # p => producer'[q] = producer[q]
  <2>1. CASE Board!Greet(p)
    <3>1. PICK c \in Board!Channel : producer' = [producer EXCEPT ![p] = [at |-> "greeted", channel |-> c]]
      BY <2>1 DEF Board!Greet
    <3>2. [at |-> "greeted", channel |-> c] \in Producers
      BY DEF Producers, Places
    <3>. QED
      BY <2>1, <3>1, <3>2 DEF Board!Greet, BoardInv, BoardTyped
  <2>2. CASE Board!Judge(p) \/ Board!ServeFrames(p) \/ Board!EndFrames(p)
    <3>1. PICK at \in Places : Board!Goes(p, at)
      BY <2>2 DEF Board!Judge, Board!ServeFrames, Board!EndFrames, Places
    <3>2. [producer[p] EXCEPT !.at = at] \in Producers
      BY DEF BoardInv, BoardTyped, Producers, Places
    <3>. QED
      BY <2>2, <3>1, <3>2 DEF BoardInv, BoardTyped, Board!Goes, Board!Judge, Board!ServeFrames, Board!EndFrames
  <2>. QED
    BY <2>1, <2>2
<1>2. ~Connected(p) /\ ~Connected(p)'
  BY DEF BoardInv, BoardTyped, Producers, Places, Board!Greet, Board!Judge, Board!ServeFrames,
         Board!EndFrames, Board!Goes, Connected
<1>3. \A q \in Producer : Connected(q)' = Connected(q)
  BY <1>1, <1>2 DEF Connected
<1>4. BoardTyped'
  BY <1>1 DEF BoardInv, BoardTyped
<1>5. (token /\ input # Nobody => Connected(input))'
  BY <1>1, <1>3 DEF BoardInv, BoardTyped, Settled
<1>6. \A q \in Producer : ~Connected(q)' => packets'[q] = <<>> /\ holding'[q] = {}
  BY <1>1, <1>3 DEF BoardInv, Settled
<1>7. input' # Nobody => Settles(packets'[input'], holding'[input'], owner')
  BY <1>1 DEF BoardInv, Settled
<1>. QED
  BY <1>4, <1>5, <1>6, <1>7 DEF BoardInv, Settled

LEMMA ServeInputBoard ==
  ASSUME BoardInv, NEW p \in Producer, Board!ServeInput(p)
  PROVE  BoardInv'
<1>. DEFINE at == IF token THEN "serving" ELSE "closed"
<1>1. /\ producer' = [producer EXCEPT ![p].at = at]
      /\ UNCHANGED <<token, owner, packets, holding>> /\ input' = IF token THEN p ELSE input
      /\ producer[p] = [at |-> "passed", channel |-> "input"]
  BY DEF Board!ServeInput, Board!Goes
<1>2. [producer[p] EXCEPT !.at = at] \in Producers
  BY DEF BoardInv, BoardTyped, Producers, Places
<1>3. BoardTyped'
  BY <1>1, <1>2 DEF BoardInv, BoardTyped
<1>4. producer'[p] = [at |-> at, channel |-> "input"]
  BY <1>1 DEF BoardInv, BoardTyped
<1>5. \A q \in Producer : q # p => producer'[q] = producer[q]
  BY <1>1 DEF BoardInv, BoardTyped
<1>6. packets[p] = <<>> /\ holding[p] = {}
  BY <1>1 DEF BoardInv, Settled, Connected
<1>7. Settles(<<>>, {}, owner)
  BY DEF Settles
<1>8. CASE token
  <2>1. (token /\ input # Nobody => Connected(input))'
    BY <1>1, <1>4, <1>8 DEF Connected
  <2>2. \A q \in Producer : ~Connected(q)' => packets'[q] = <<>> /\ holding'[q] = {}
    BY <1>1, <1>5, <1>6 DEF BoardInv, Settled, Connected
  <2>3. Settles(packets'[input'], holding'[input'], owner')
    BY <1>1, <1>6, <1>7, <1>8
  <2>. QED
    BY <1>3, <2>1, <2>2, <2>3 DEF BoardInv, Settled
<1>9. CASE ~token
  <2>1. \A q \in Producer : ~Connected(q)' => packets'[q] = <<>> /\ holding'[q] = {}
    BY <1>1, <1>5, <1>6 DEF BoardInv, Settled, Connected
  <2>. QED
    BY <1>1, <1>3, <1>9, <2>1 DEF BoardInv, Settled
<1>. QED
  BY <1>8, <1>9

LEMMA EndInputBoard ==
  ASSUME BoardInv, NEW p \in Producer, Board!EndInput(p)
  PROVE  BoardInv'
<1>1. /\ producer' = [producer EXCEPT ![p].at = "closed"]
      /\ packets' = [packets EXCEPT ![p] = <<>>] /\ holding' = [holding EXCEPT ![p] = {}]
      /\ token' = token
      /\ IF token THEN input' = Nobody /\ owner' = Nobody ELSE UNCHANGED <<input, owner>>
      /\ producer[p] = [at |-> "serving", channel |-> "input"]
  BY DEF Board!EndInput, Board!Goes
<1>2. [producer[p] EXCEPT !.at = "closed"] \in Producers
  BY DEF BoardInv, BoardTyped, Producers, Places
<1>3. <<>> \in Seq(Packet)
  OBVIOUS
<1>4. BoardTyped'
  BY <1>1, <1>2, <1>3 DEF BoardInv, BoardTyped
<1>5. packets'[p] = <<>> /\ holding'[p] = {}
  BY <1>1 DEF BoardInv, BoardTyped
<1>6. \A q \in Producer : q # p => /\ producer'[q] = producer[q] /\ packets'[q] = packets[q]
                                   /\ holding'[q] = holding[q]
  BY <1>1 DEF BoardInv, BoardTyped
<1>7. \A q \in Producer : ~Connected(q)' => packets'[q] = <<>> /\ holding'[q] = {}
  BY <1>5, <1>6 DEF BoardInv, Settled, Connected
<1>8. Settles(<<>>, {}, owner)
  BY DEF Settles
<1>9. input' # Nobody => Settles(packets'[input'], holding'[input'], owner')
  <2>. SUFFICES ASSUME input' # Nobody PROVE Settles(packets'[input'], holding'[input'], owner')
    OBVIOUS
  <2>1. input' = input /\ owner' = owner /\ input \in Producer
    BY <1>1 DEF BoardInv, BoardTyped
  <2>2. CASE input = p
    BY <1>5, <1>8, <2>1, <2>2
  <2>3. CASE input # p
    BY <1>6, <2>1, <2>3 DEF BoardInv, Settled
  <2>. QED
    BY <2>2, <2>3
<1>10. ~token' \/ input' = Nobody
  BY <1>1
<1>. QED
  BY <1>4, <1>7, <1>9, <1>10 DEF BoardInv, Settled

LEMMA DeliverBoard ==
  ASSUME BoardInv, NEW p \in Producer, Board!Deliver(p)
  PROVE  BoardInv'
<1>1. /\ holding' = [holding EXCEPT ![p] = Board!After(holding[p], Head(packets[p]))]
      /\ packets' = [packets EXCEPT ![p] = Tail(packets[p])]
      /\ packets[p] # <<>> /\ UNCHANGED <<token, producer, input, owner>>
  BY DEF Board!Deliver
<1>2. packets[p] \in Seq(Packet) /\ holding[p] \in SUBSET (Viewer \cup {Nobody})
  BY DEF BoardInv, BoardTyped
<1>3. Tail(packets[p]) \in Seq(Packet) /\ Head(packets[p]) \in Packet
  BY <1>1, <1>2, HeadTailProperties
<1>4. Board!After(holding[p], Head(packets[p])) \in SUBSET (Viewer \cup {Nobody})
  BY <1>2, <1>3 DEF Board!After, Packet
<1>5. BoardTyped'
  BY <1>1, <1>3, <1>4 DEF BoardInv, BoardTyped
<1>6. \A q \in Producer : q # p => packets'[q] = packets[q] /\ holding'[q] = holding[q]
  BY <1>1 DEF BoardInv, BoardTyped
<1>7. \A q \in Producer : Connected(q)' = Connected(q)
  BY <1>1 DEF Connected
<1>8. Connected(p)
  BY <1>1 DEF BoardInv, Settled
<1>9. \A q \in Producer : ~Connected(q)' => packets'[q] = <<>> /\ holding'[q] = {}
  BY <1>6, <1>7, <1>8 DEF BoardInv, Settled
<1>10. (token /\ input # Nobody => Connected(input))'
  BY <1>1 DEF BoardInv, Settled, Connected
<1>11. input' # Nobody => Settles(packets'[input'], holding'[input'], owner')
  <2>. SUFFICES ASSUME input # Nobody PROVE Settles(packets'[input], holding'[input], owner)
    BY <1>1
  <2>1. input \in Producer /\ Settles(packets[input], holding[input], owner)
    BY DEF BoardInv, BoardTyped, Settled
  <2>2. CASE input = p
    <3>1. Settles(Tail(packets[p]), Board!After(holding[p], Head(packets[p])), owner)
      BY <1>1, <1>2, <2>1, <2>2, DeliverySettles
    <3>2. packets'[p] = Tail(packets[p]) /\ holding'[p] = Board!After(holding[p], Head(packets[p]))
      BY <1>1 DEF BoardInv, BoardTyped
    <3>. QED
      BY <2>2, <3>1, <3>2
  <2>3. CASE input # p
    BY <1>6, <2>1, <2>3
  <2>. QED
    BY <2>2, <2>3
<1>. QED
  BY <1>5, <1>9, <1>10, <1>11 DEF BoardInv, Settled

LEMMA BoardStep ==
  ASSUME BoardInv, Board!BoardNext
  PROVE  BoardInv'
<1>1. ASSUME UNCHANGED <<token, producer, input, owner, packets, holding>> PROVE BoardInv'
  BY <1>1 DEF BoardInv, BoardTyped, Settled, Connected
<1>2. ASSUME NEW v \in Viewer, Board!Attach(v) PROVE BoardInv'
  BY <1>1, <1>2 DEF Board!Attach
<1>3. ASSUME NEW v \in Viewer, Board!LoseFocus(v) PROVE BoardInv'
  BY <1>3, ReleasedBoard DEF Board!LoseFocus
<1>4. ASSUME NEW v \in Viewer, Board!Detach(v) PROVE BoardInv'
  <2>1. CASE token /\ owner = v
    BY <1>4, <2>1, ReleasedBoard DEF Board!Detach
  <2>2. CASE ~(token /\ owner = v)
    BY <1>1, <1>4, <2>2 DEF Board!Detach
  <2>. QED
    BY <2>1, <2>2
<1>5. CASE Board!Exit
  BY <1>5, ReleasedBoard DEF Board!Exit
<1>. QED
  BY <1>2, <1>3, <1>4, <1>5, GreetJudgeBoard, ServeInputBoard, EndInputBoard, DeliverBoard,
     PressBoard, TakeFocusBoard DEF Board!BoardNext

\* What settles on the owner, the game holds down for the owner.
LEMMA SettledKeys ==
  ASSUME BoardInv
  PROVE  Board!KeysAreTheOwners
<1>. SUFFICES ASSUME input # Nobody, NEW w \in Board!HeldInTheEnd(input) PROVE w = owner
  BY DEF Board!KeysAreTheOwners
<1>1. /\ packets[input] \in Seq(Packet) /\ DOMAIN packets[input] = 1 .. Len(packets[input])
      /\ Settles(packets[input], holding[input], owner)
  BY DEF BoardInv, BoardTyped, Settled
<1>. QED
  BY <1>1 DEF Board!HeldInTheEnd, Settles

\* However focus changes, viewers leave and producers come and go, the keys a game ends up holding
\* are those of the viewer that owns its input (SurfaceBoard, red-host surfaces.rs).
THEOREM KeysBelongToTheOwner == Spec => []KeysAreTheOwners
<1>1. Init => BoardInv
  BY BoardStarts DEF Init
<1>2. BoardInv /\ [Next]_vars => BoardInv'
  <2>. SUFFICES ASSUME BoardInv, [Next]_vars PROVE BoardInv'
    OBVIOUS
  <2>1. CASE OfBoard
    BY <2>1, BoardStep DEF OfBoard
  <2>2. CASE UNCHANGED board
    BY <2>2 DEF board, BoardInv, BoardTyped, Settled, Connected
  <2>3. OfBoard \/ UNCHANGED board
    BY DEF Next, vars, OfPanes, OfMessage, OfBoard, OfDesks, OfSegment, OfRoutes
  <2>. QED
    BY <2>1, <2>2, <2>3
<1>3. BoardInv => KeysAreTheOwners
  BY SettledKeys DEF KeysAreTheOwners
<1>. QED
  BY <1>1, <1>2, <1>3, PTL DEF Spec
-----------------------------------------------------------------------------
\* DesktopRegistry: one socket answers for an id, and an entry on the table has its caller.

Registered == [id : Nat, can : Frames]

LEMMA NoDeskIsNone == NoDesk \notin Socket /\ NoDesk \notin Registered
BY HostConstants DEF Registered

Calling == [pc : {"idle", "asked", "may", "found", "entered", "waiting", "late", "done"},
            want : Action \cup {"none"}, id : Nat, socket : Socket \cup {NoDesk},
            answer : {"none", "refused", "accepted", "rejected", "disconnected", "timeout"}]
Tasks  == {"unborn", "open", "finishing", "closing", "sweeping", "closed"}
Ends   == [calls : SUBSET Caller, accepts : BOOLEAN]
Tabled == [call : Caller, desktop : Nat]

DesksTyped ==
  /\ minted \in Nat
  /\ desk \in [Socket -> {NoDesk} \cup Registered]
  /\ task \in [Socket -> Tasks] /\ ending \in [Socket -> Ends]
  /\ pending \in SUBSET Tabled
  /\ asked \in [Caller -> Calling] /\ told \in [Caller -> Socket \cup {NoDesk}]

\* An id is one socket's, and none is handed out twice.
OneIdEach ==
  /\ \A s \in Socket : desk[s] # NoDesk => desk[s].id <= minted /\ task[s] \in {"open", "finishing", "closing"}
  /\ \A s, t \in Socket : desk[s] # NoDesk /\ desk[t] # NoDesk /\ desk[s].id = desk[t].id => s = t

\* The socket a caller found is the only one that can come to answer for its id, and while that
\* socket is open it does.
SocketKnown ==
  \A c \in Caller : asked[c].socket # NoDesk =>
    /\ asked[c].id <= minted /\ task[asked[c].socket] # "unborn"
    /\ \A s \in Socket : desk[s] # NoDesk /\ desk[s].id = asked[c].id => s = asked[c].socket
    /\ task[asked[c].socket] \in {"open", "finishing"} =>
         desk[asked[c].socket] # NoDesk /\ desk[asked[c].socket].id = asked[c].id

\* What a caller holds where it stands.
CallKnown ==
  \A c \in Caller :
    /\ asked[c].pc \in {"idle", "asked", "may"} => asked[c].socket = NoDesk
    /\ asked[c].pc \in {"idle", "asked", "may", "found"} => asked[c].answer = "none"
    /\ asked[c].pc \in {"found", "entered", "waiting", "late"} => asked[c].socket # NoDesk

\* A caller is on the table under the id it asked for, and not answered before it is off it.
EntryKnown ==
  \A p \in pending :
    /\ p.desktop = asked[p.call].id /\ asked[p.call].pc \in {"entered", "waiting", "late"}
    /\ asked[p.call].pc # "late" => asked[p.call].answer = "none"

\* A request was said to the socket its caller found.
ToldKnown ==
  \A c \in Caller : told[c] # NoDesk => told[c] = asked[c].socket /\ asked[c].pc \in {"waiting", "late", "done"}

\* An acceptance on its way, and one that arrived, is of the socket the request was said to.
AcceptanceKnown ==
  /\ \A s \in Socket : task[s] = "finishing" /\ ending[s].accepts =>
       \A c \in ending[s].calls : told[c] = s /\ <<c, s>> \in yes
  /\ Desks!AcceptedByTheOneAsked

DesksInv == DesksTyped /\ OneIdEach /\ SocketKnown /\ CallKnown /\ EntryKnown /\ ToldKnown /\ AcceptanceKnown

LEMMA DesksStart ==
  ASSUME Desks!DeskInit
  PROVE  DesksInv
<1>1. DesksTyped
  BY DEF Desks!DeskInit, DesksTyped, Desks!NoEnd, Desks!Idle, Calling, Tasks, Ends
<1>. QED
  BY <1>1 DEF Desks!DeskInit, Desks!Idle, Desks!NoEnd, DesksInv, OneIdEach, SocketKnown, CallKnown, EntryKnown,
     ToldKnown,     AcceptanceKnown, Desks!AcceptedByTheOneAsked

LEMMA DesksPromise ==
  ASSUME DesksInv
  PROVE  Desks!OneCallerOneDesktop
<1>1. Desks!AcceptedByTheOneAsked
  BY DEF DesksInv, AcceptanceKnown
<1>2. ASSUME NEW p \in pending
      PROVE  /\ asked[p.call].pc \in {"entered", "waiting", "late"}
             /\ told[p.call] # NoDesk /\ task[told[p.call]] = "open" => desk[told[p.call]].id = p.desktop
  <2>1. p.call \in Caller
    BY <1>2 DEF DesksInv, DesksTyped, Tabled
  <2>. QED
    BY <2>1, <1>2 DEF DesksInv, EntryKnown, ToldKnown, SocketKnown
<1>. QED
  BY <1>1, <1>2 DEF Desks!OneCallerOneDesktop, Desks!PendingIsAnswerable

\* What settling leaves as it was.
LEMMA SettleKeeps ==
  ASSUME DesksTyped, NEW cs, NEW answer \in {"accepted", "rejected", "disconnected"}, Desks!Settle(cs, answer)
  PROVE  /\ asked' \in [Caller -> Calling] /\ pending' \subseteq pending
         /\ \A p \in pending' : p.call \notin cs
         /\ \A c \in Caller : /\ asked'[c].pc = asked[c].pc /\ asked'[c].id = asked[c].id
                              /\ asked'[c].socket = asked[c].socket
                              /\ asked'[c].answer # asked[c].answer => asked'[c].answer = answer /\ c \in cs \cap Desks!Pending
<1>1. ASSUME NEW c \in Caller
      PROVE  /\ asked'[c] \in Calling
             /\ asked'[c].pc = asked[c].pc /\ asked'[c].id = asked[c].id
             /\ asked'[c].socket = asked[c].socket
             /\ asked'[c].answer # asked[c].answer => asked'[c].answer = answer /\ c \in cs \cap Desks!Pending
  <2>1. asked[c] \in Calling
    BY DEF DesksTyped
  <2>2. asked'[c] = IF c \in cs \cap Desks!Pending /\ asked[c].answer = "none"
                    THEN [asked[c] EXCEPT !.answer = answer] ELSE asked[c]
    BY DEF Desks!Settle
  <2>3. [asked[c] EXCEPT !.answer = answer] =
          [pc |-> asked[c].pc, want |-> asked[c].want, id |-> asked[c].id, socket |-> asked[c].socket, answer |-> answer]
    BY <2>1 DEF Calling
  <2>4. [asked[c] EXCEPT !.answer = answer] \in Calling
    BY <2>1, <2>3 DEF Calling
  <2>5. CASE asked'[c] = asked[c]
    BY <2>1, <2>5
  <2>6. CASE c \in cs \cap Desks!Pending /\ asked'[c] = [asked[c] EXCEPT !.answer = answer]
    BY <2>3, <2>4, <2>6
  <2>. QED
    BY <2>2, <2>5, <2>6
<1>2. asked' \in [Caller -> Calling]
  BY <1>1 DEF Desks!Settle
<1>. QED
  BY <1>1, <1>2 DEF Desks!Settle

LEMMA ConnectDesks ==
  ASSUME DesksInv, NEW s \in Socket, Desks!Connect(s)
  PROVE  DesksInv'
<1>. USE NoDeskIsNone DEF Desks!Connect, DesksInv
<1>1. DesksTyped'
  BY DEF DesksTyped, Tasks
<1>2. OneIdEach'
  BY DEF DesksTyped, OneIdEach
<1>3. SocketKnown'
  BY DEF DesksTyped, SocketKnown, Calling
<1>4. CallKnown'
  BY DEF CallKnown
<1>6. EntryKnown'
  BY DEF EntryKnown
<1>7. ToldKnown'
  BY DEF ToldKnown
<1>5. AcceptanceKnown'
  BY DEF DesksTyped, AcceptanceKnown, Desks!AcceptedByTheOneAsked
<1>. QED
  BY <1>1, <1>2, <1>3, <1>4, <1>6, <1>7, <1>5

LEMMA RegisterDesks ==
  ASSUME DesksInv, NEW s \in Socket, Desks!Register(s)
  PROVE  DesksInv'
<1>. USE NoDeskIsNone DEF DesksInv
<1>0. PICK can \in Frames : desk' = [desk EXCEPT ![s] = [id |-> Desks!Identity(s), can |-> can]]
  BY DEF Desks!Register
<1>a. task[s] = "open" /\ minted' = minted + 1 /\ UNCHANGED <<task, ending, pending, asked, told, yes>>
  BY DEF Desks!Register
<1>b. /\ Desks!Identity(s) \in Nat /\ Desks!Identity(s) <= minted + 1
      /\ desk[s] # NoDesk => Desks!Identity(s) = desk[s].id
      /\ desk[s] = NoDesk => Desks!Identity(s) = minted + 1
  BY DEF Desks!Identity, DesksTyped, OneIdEach, Registered
<1>c. /\ desk'[s] = [id |-> Desks!Identity(s), can |-> can] /\ desk'[s] \in Registered
      /\ \A t \in Socket : t # s => desk'[t] = desk[t]
  BY <1>0, <1>b DEF DesksTyped, Registered
<1>d. desk'[s] # NoDesk /\ desk'[s].id = Desks!Identity(s)
  BY <1>c
<1>1. DesksTyped'
  BY <1>0, <1>a, <1>c DEF DesksTyped
<1>2. OneIdEach'
  BY <1>a, <1>b, <1>c, <1>d DEF DesksTyped, OneIdEach, Registered
<1>3. SocketKnown'
  BY <1>a, <1>b, <1>c, <1>d DEF DesksTyped, SocketKnown, Calling
<1>4. CallKnown'
  BY <1>a DEF CallKnown
<1>6. EntryKnown'
  BY <1>a DEF EntryKnown
<1>7. ToldKnown'
  BY <1>a DEF ToldKnown
<1>5. AcceptanceKnown'
  BY <1>a DEF AcceptanceKnown, Desks!AcceptedByTheOneAsked
<1>. QED
  BY <1>1, <1>2, <1>3, <1>4, <1>6, <1>7, <1>5

LEMMA AcknowledgeDesks ==
  ASSUME DesksInv, NEW s \in Socket, Desks!Acknowledge(s)
  PROVE  DesksInv'
<1>. USE NoDeskIsNone DEF DesksInv
<1>0. PICK c \in Desks!Pending, accepts \in BOOLEAN :
        /\ told[c] # NoDesk /\ Desks!MayAnswer(s, c)
        /\ ending' = [ending EXCEPT ![s] = [calls |-> {c}, accepts |-> accepts]]
        /\ yes' = IF accepts THEN yes \cup {<<c, s>>} ELSE yes
  BY DEF Desks!Acknowledge
<1>a. /\ task[s] = "open" /\ task' = [task EXCEPT ![s] = "finishing"]
      /\ UNCHANGED <<desk, minted, pending, asked, told>>
  BY DEF Desks!Acknowledge
<1>b. c \in Caller
  BY DEF Desks!Pending, DesksTyped, Tabled
<1>c. told[c] = s
  <2>1. desk[s] # NoDesk /\ desk[s].id = asked[c].id
    BY <1>0 DEF Desks!MayAnswer, EntryKnown
  <2>2. told[c] = asked[c].socket /\ asked[c].socket # NoDesk
    BY <1>0, <1>b DEF ToldKnown
  <2>. QED
    BY <1>b, <2>1, <2>2 DEF SocketKnown
<1>1. DesksTyped'
  BY <1>0, <1>a, <1>b DEF DesksTyped, Tasks, Ends
<1>2. OneIdEach'
  BY <1>a DEF DesksTyped, OneIdEach
<1>3. SocketKnown'
  BY <1>a DEF DesksTyped, SocketKnown, Calling
<1>4. CallKnown'
  BY <1>a DEF CallKnown
<1>6. EntryKnown'
  BY <1>a DEF EntryKnown
<1>7. ToldKnown'
  BY <1>a DEF ToldKnown
<1>5. AcceptanceKnown'
  <2>1. Desks!AcceptedByTheOneAsked'
    BY <1>0, <1>a DEF AcceptanceKnown, Desks!AcceptedByTheOneAsked
  <2>2. ASSUME NEW t \in Socket, task'[t] = "finishing", ending'[t].accepts, NEW d \in ending'[t].calls
        PROVE  told'[d] = t /\ <<d, t>> \in yes'
    <3>1. CASE t = s
      <4>1. ending'[t] = [calls |-> {c}, accepts |-> accepts]
        BY <1>0, <3>1 DEF DesksTyped
      <4>. QED
        BY <1>0, <1>a, <1>c, <2>2, <3>1, <4>1
    <3>2. CASE t # s
      BY <1>0, <1>a, <2>2, <3>2 DEF DesksTyped, AcceptanceKnown
    <3>. QED
      BY <3>1, <3>2
  <2>. QED
    BY <2>1, <2>2 DEF AcceptanceKnown
<1>. QED
  BY <1>1, <1>2, <1>3, <1>4, <1>6, <1>7, <1>5

LEMMA SettleDesks ==
  ASSUME DesksInv, NEW s \in Socket, Desks!Finish(s) \/ Desks!Sweep(s)
  PROVE  DesksInv'
<1>. USE NoDeskIsNone DEF DesksInv
<1>0. PICK answer \in {"accepted", "rejected", "disconnected"} :
        /\ Desks!Settle(ending[s].calls, answer)
        /\ answer = "accepted" => task[s] = "finishing" /\ ending[s].accepts
  BY DEF Desks!Finish, Desks!Sweep
<1>a. /\ \/ task[s] = "finishing" /\ task' = [task EXCEPT ![s] = "open"]
         \/ task[s] = "sweeping" /\ task' = [task EXCEPT ![s] = "closed"]
      /\ ending' = [ending EXCEPT ![s] = Desks!NoEnd] /\ UNCHANGED <<desk, minted, told, yes>>
  BY DEF Desks!Finish, Desks!Sweep
<1>b. /\ asked' \in [Caller -> Calling] /\ pending' \subseteq pending
      /\ \A p \in pending' : p.call \notin ending[s].calls
      /\ \A c \in Caller : /\ asked'[c].pc = asked[c].pc /\ asked'[c].id = asked[c].id
                           /\ asked'[c].socket = asked[c].socket
                           /\ asked'[c].answer # asked[c].answer => asked'[c].answer = answer /\ c \in ending[s].calls \cap Desks!Pending
  BY <1>0, SettleKeeps
<1>1. DesksTyped'
  BY <1>a, <1>b DEF DesksTyped, Tasks, Ends, Desks!NoEnd
<1>2. OneIdEach'
  BY <1>a DEF DesksTyped, OneIdEach
<1>3. SocketKnown'
  <2>1. ASSUME NEW c \in Caller, asked[c].socket # NoDesk
        PROVE  /\ task'[asked[c].socket] # "unborn"
               /\ task'[asked[c].socket] \in {"open", "finishing"} => task[asked[c].socket] \in {"open", "finishing"}
    BY <1>a, <2>1 DEF DesksTyped, SocketKnown, Calling
  <2>. QED
    BY <1>a, <1>b, <2>1 DEF SocketKnown
<1>4. CallKnown'
  <2>1. ASSUME NEW c \in Caller, asked[c].pc \in {"idle", "asked", "may", "found"}
        PROVE  asked'[c].answer = asked[c].answer
    <3>1. c \notin Desks!Pending
      BY <2>1 DEF Desks!Pending, EntryKnown
    <3>. QED
      BY <1>b, <3>1
  <2>. QED
    BY <1>b, <2>1 DEF CallKnown
<1>6. EntryKnown'
  BY <1>a, <1>b DEF EntryKnown, DesksTyped, Tabled
<1>7. ToldKnown'
  BY <1>a, <1>b DEF ToldKnown
<1>5. AcceptanceKnown'
  <2>1. \A t \in Socket : task'[t] = "finishing" => t # s /\ task[t] = "finishing" /\ ending'[t] = ending[t]
    BY <1>a DEF DesksTyped
  <2>2. ASSUME NEW c \in Caller, asked'[c].answer = "accepted"
        PROVE  told[c] # NoDesk /\ <<c, told[c]>> \in yes
    <3>1. CASE asked[c].answer = "accepted"
      BY <3>1 DEF AcceptanceKnown, Desks!AcceptedByTheOneAsked
    <3>2. CASE asked[c].answer # "accepted"
      BY <1>0, <1>b, <2>2, <3>2 DEF AcceptanceKnown
    <3>. QED
      BY <3>1, <3>2
  <2>. QED
    BY <1>a, <2>1, <2>2 DEF AcceptanceKnown, Desks!AcceptedByTheOneAsked
<1>. QED
  BY <1>1, <1>2, <1>3, <1>4, <1>6, <1>7, <1>5

LEMMA CloseDesks ==
  ASSUME DesksInv, NEW s \in Socket, Desks!Close(s) \/ Desks!Forget(s)
  PROVE  DesksInv'
<1>. USE NoDeskIsNone DEF DesksInv
<1>a. /\ task[s] \in {"open", "closing"} /\ UNCHANGED <<minted, pending, asked, told, yes>>
      /\ desk' = desk \/ desk' = [desk EXCEPT ![s] = NoDesk]
      /\ \/ task' = [task EXCEPT ![s] = "closed"] /\ desk[s] = NoDesk
         \/ task' = [task EXCEPT ![s] = "closing"]
         \/ task' = [task EXCEPT ![s] = "sweeping"] /\ desk' = [desk EXCEPT ![s] = NoDesk]
  BY DEF Desks!Close, Desks!Forget
<1>b. /\ ending' \in [Socket -> Ends]
      /\ \A t \in Socket : t # s => ending'[t] = ending[t]
  <2>1. CASE Desks!Close(s)
    BY <2>1 DEF Desks!Close, Desks!NoEnd, DesksTyped, Ends
  <2>2. CASE Desks!Forget(s)
    <3>1. {p.call : p \in {q \in pending : q.desktop = desk[s].id}} \in SUBSET Caller
      BY DEF DesksTyped, Tabled
    <3>. QED
      BY <2>2, <3>1 DEF Desks!Forget, DesksTyped, Ends
  <2>. QED
    BY <2>1, <2>2
<1>c. /\ task' \in [Socket -> Tasks] /\ task'[s] \notin {"unborn", "open", "finishing"}
      /\ \A t \in Socket : t # s => task'[t] = task[t] /\ desk'[t] = desk[t]
      /\ desk'[s] # NoDesk => desk'[s] = desk[s] /\ task'[s] = "closing"
  BY <1>a DEF DesksTyped, Tasks
<1>1. DesksTyped'
  BY <1>a, <1>b, <1>c DEF DesksTyped
<1>2. OneIdEach'
  BY <1>a, <1>c DEF DesksTyped, OneIdEach
<1>3. SocketKnown'
  BY <1>a, <1>c DEF DesksTyped, SocketKnown, Calling
<1>4. CallKnown'
  BY <1>a DEF CallKnown
<1>6. EntryKnown'
  BY <1>a DEF EntryKnown
<1>7. ToldKnown'
  BY <1>a DEF ToldKnown
<1>5. AcceptanceKnown'
  BY <1>a, <1>b, <1>c DEF AcceptanceKnown, Desks!AcceptedByTheOneAsked
<1>. QED
  BY <1>1, <1>2, <1>3, <1>4, <1>6, <1>7, <1>5

\* A caller's step changes its own record alone; what it keeps, and what it may not yet have.
LEMMA AsksDesks ==
  ASSUME DesksInv, NEW c \in Caller, Desks!Ask(c) \/ Desks!May(c) \/ Desks!Act(c)
  PROVE  DesksInv'
<1>. USE NoDeskIsNone DEF DesksInv
<1>0. /\ UNCHANGED <<desk, minted, task, ending, pending, told, yes>>
      /\ asked[c].pc \in {"idle", "asked", "may"} /\ asked[c].socket = NoDesk /\ told[c] = NoDesk
      /\ \A p \in pending : p.call # c
  <2>1. asked[c].pc \in {"idle", "asked", "may"} /\ UNCHANGED <<desk, minted, task, ending, pending, told, yes>>
    BY DEF Desks!Ask, Desks!May, Desks!Act
  <2>2. asked[c].socket = NoDesk
    BY <2>1 DEF CallKnown
  <2>3. told[c] = NoDesk
    BY <2>1 DEF ToldKnown
  <2>4. \A p \in pending : p.call # c
    BY <2>1 DEF EntryKnown
  <2>. QED
    BY <2>1, <2>2, <2>3, <2>4
<1>a. /\ \A d \in Caller : d # c => asked'[d] = asked[d]
      /\ asked'[c].answer = "accepted" => asked[c].answer = "accepted"
      /\ asked' \in [Caller -> Calling]
      /\ asked'[c].pc \in {"asked", "may", "found"} => asked'[c].answer = asked[c].answer
      /\ \/ asked'[c].pc \in {"asked", "may", "done"} /\ asked'[c].socket = NoDesk
         \/ asked'[c].pc = "found" /\ asked'[c].socket \in Desks!Found(c) /\ asked'[c].id = asked[c].id
  <2>0. asked[c] \in Calling
    BY DEF DesksTyped
  <2>1. CASE Desks!Ask(c)
    <3>1. PICK want \in Action, id \in {desk[s].id : s \in {t \in Socket : desk[t] # NoDesk}} :
            asked' = [asked EXCEPT ![c].pc = "asked", ![c].want = want, ![c].id = id]
      BY <2>1 DEF Desks!Ask
    <3>2. id \in Nat
      BY DEF DesksTyped, Registered
    <3>3. asked'[c] = [pc |-> "asked", want |-> want, id |-> id, socket |-> asked[c].socket, answer |-> asked[c].answer]
      BY <2>0, <3>1 DEF DesksTyped, Calling
    <3>4. asked'[c] \in Calling
      BY <2>0, <3>2, <3>3 DEF Calling
    <3>5. \A d \in Caller : d # c => asked'[d] = asked[d]
      BY <3>1 DEF DesksTyped
    <3>6. asked' \in [Caller -> Calling]
      BY <3>1, <3>4, <3>5 DEF DesksTyped
    <3>. QED
      BY <1>0, <3>3, <3>5, <3>6
  <2>2. CASE asked' = Desks!Refused(c)
    <3>3. asked'[c] = [pc |-> "done", want |-> asked[c].want, id |-> asked[c].id, socket |-> asked[c].socket, answer |-> "refused"]
      BY <2>0, <2>2 DEF DesksTyped, Calling, Desks!Refused
    <3>4. asked'[c] \in Calling
      BY <2>0, <3>3 DEF Calling
    <3>5. \A d \in Caller : d # c => asked'[d] = asked[d]
      BY <2>2 DEF DesksTyped, Desks!Refused
    <3>6. asked' \in [Caller -> Calling]
      BY <2>2, <3>4, <3>5 DEF DesksTyped, Desks!Refused
    <3>. QED
      BY <1>0, <3>3, <3>5, <3>6
  <2>3. CASE Desks!May(c) /\ asked' = [asked EXCEPT ![c].pc = "may"]
    <3>3. asked'[c] = [asked[c] EXCEPT !.pc = "may"]
      BY <2>3 DEF DesksTyped
    <3>4. asked'[c] \in Calling
      BY <2>0, <3>3 DEF Calling
    <3>5. \A d \in Caller : d # c => asked'[d] = asked[d]
      BY <2>3 DEF DesksTyped
    <3>6. asked' \in [Caller -> Calling]
      BY <2>3, <3>4, <3>5 DEF DesksTyped
    <3>. QED
      BY <1>0, <2>0, <3>3, <3>5, <3>6 DEF Calling
  <2>4. CASE Desks!Act(c) /\ asked' # Desks!Refused(c)
    <3>1. PICK s \in Desks!Found(c) :
            asked' = [asked EXCEPT ![c].pc = "found", ![c].want = "none", ![c].socket = s]
      BY <2>4 DEF Desks!Act
    <3>2. s \in Socket
      BY DEF Desks!Found, Desks!Target
    <3>3. asked'[c] = [pc |-> "found", want |-> "none", id |-> asked[c].id, socket |-> s, answer |-> asked[c].answer]
      BY <2>0, <3>1 DEF DesksTyped, Calling
    <3>4. asked'[c] \in Calling
      BY <2>0, <3>2, <3>3 DEF Calling
    <3>5. \A d \in Caller : d # c => asked'[d] = asked[d]
      BY <3>1 DEF DesksTyped
    <3>6. asked' \in [Caller -> Calling]
      BY <3>1, <3>4, <3>5 DEF DesksTyped
    <3>. QED
      BY <3>3, <3>5, <3>6
  <2>. QED
    BY <2>1, <2>2, <2>3, <2>4 DEF Desks!May
<1>1. DesksTyped'
  BY <1>0, <1>a DEF DesksTyped
<1>2. OneIdEach'
  BY <1>0 DEF OneIdEach
<1>3. SocketKnown'
  <2>1. ASSUME NEW d \in Caller, asked'[d].socket # NoDesk, d # c
        PROVE  asked'[d] = asked[d]
    BY <1>a, <2>1
  <2>2. ASSUME asked'[c].socket # NoDesk
        PROVE  /\ asked'[c].socket \in Socket /\ asked'[c].id = desk[asked'[c].socket].id
               /\ desk[asked'[c].socket] # NoDesk
    BY <1>a, <2>2 DEF Desks!Found, Desks!Target
  <2>. QED
    BY <1>0, <2>1, <2>2 DEF SocketKnown, OneIdEach
<1>4. CallKnown'
  BY <1>0, <1>a, NoDeskIsNone DEF CallKnown, Desks!Found, Desks!Target
<1>6. EntryKnown'
  BY <1>0, <1>a DEF EntryKnown, DesksTyped, Tabled
<1>7. ToldKnown'
  BY <1>0, <1>a DEF ToldKnown
<1>5. AcceptanceKnown'
  BY <1>0, <1>a DEF AcceptanceKnown, Desks!AcceptedByTheOneAsked
<1>. QED
  BY <1>1, <1>2, <1>3, <1>4, <1>6, <1>7, <1>5

LEMMA WaitsDesks ==
  ASSUME DesksInv, NEW c \in Caller, 
         \/ Desks!Enter(c) \/ Desks!Say(c) \/ Desks!Answered(c) \/ Desks!TimedOut(c) \/ Desks!Withdraw(c)
  PROVE  DesksInv'
<1>. USE NoDeskIsNone DEF DesksInv
<1>0. UNCHANGED <<desk, minted, task, ending, yes>>
  BY DEF Desks!Enter, Desks!Say, Desks!Answered, Desks!TimedOut, Desks!Withdraw
<1>a. /\ \A d \in Caller : d # c => asked'[d] = asked[d]
      /\ asked'[c].answer = "accepted" => asked[c].answer = "accepted"
      /\ asked' \in [Caller -> Calling]
      /\ asked'[c].socket = asked[c].socket /\ asked'[c].id = asked[c].id
  <2>0. asked[c] \in Calling
    BY DEF DesksTyped
  <2>1. PICK pc \in {"entered", "waiting", "late", "done"}, answer \in {asked[c].answer, "timeout"} :
          asked' = [asked EXCEPT ![c] = [asked[c] EXCEPT !.pc = pc, !.answer = answer]]
    <3>1. CASE Desks!TimedOut(c)
      BY <2>0, <3>1 DEF Desks!TimedOut, DesksTyped, Calling
    <3>2. CASE ~Desks!TimedOut(c)
      BY <2>0, <3>2 DEF Desks!Enter, Desks!Say, Desks!Answered, Desks!Withdraw, DesksTyped, Calling
    <3>. QED
      BY <3>1, <3>2
  <2>2. asked'[c] = [pc |-> pc, want |-> asked[c].want, id |-> asked[c].id, socket |-> asked[c].socket, answer |-> answer]
    BY <2>0, <2>1 DEF DesksTyped, Calling
  <2>3. asked'[c] \in Calling
    BY <2>0, <2>2 DEF Calling
  <2>4. \A d \in Caller : d # c => asked'[d] = asked[d]
    BY <2>1 DEF DesksTyped
  <2>5. asked' \in [Caller -> Calling]
    BY <2>1, <2>3, <2>4 DEF DesksTyped
  <2>. QED
    BY <2>2, <2>4, <2>5
<1>b. pending' \in SUBSET Tabled /\ told' \in [Caller -> Socket \cup {NoDesk}]
  BY DEF DesksTyped, Tabled, Calling, Desks!Enter, Desks!Say, Desks!Answered, Desks!TimedOut, Desks!Withdraw
<1>1. DesksTyped'
  BY <1>0, <1>a, <1>b DEF DesksTyped
<1>2. OneIdEach'
  BY <1>0 DEF OneIdEach
<1>3. SocketKnown'
  BY <1>0, <1>a DEF SocketKnown
<1>. DEFINE Steps(from, to) == asked[c].pc = from /\ asked'[c].pc = to
<1>c. \/ /\ Steps("found", "entered") /\ asked'[c].answer = asked[c].answer
         /\ pending' = pending \cup {[call |-> c, desktop |-> asked[c].id]} /\ told' = told
      \/ /\ Steps("entered", "waiting") /\ asked'[c].answer = asked[c].answer
         /\ told' = [told EXCEPT ![c] = asked[c].socket] /\ pending' = pending
      \/ Steps("waiting", "done") /\ asked[c].answer # "none" /\ UNCHANGED <<pending, told>>
      \/ Steps("waiting", "late") /\ UNCHANGED <<pending, told>>
      \/ Steps("late", "done") /\ pending' = {p \in pending : p.call # c} /\ told' = told
  BY DEF DesksTyped, Calling, Desks!Enter, Desks!Say, Desks!Answered, Desks!TimedOut, Desks!Withdraw
<1>4. CallKnown'
  BY <1>a, <1>c DEF CallKnown
<1>6. EntryKnown'
  <2>. SUFFICES ASSUME NEW p \in pending'
                PROVE  /\ p.desktop = asked'[p.call].id /\ asked'[p.call].pc \in {"entered", "waiting", "late"}
                       /\ asked'[p.call].pc # "late" => asked'[p.call].answer = "none"
    BY DEF EntryKnown
  <2>1. p.call \in Caller
    BY <1>b DEF Tabled
  <2>2. CASE p.call # c
    <3>1. p \in pending
      BY <1>c, <2>2
    <3>. QED
      BY <1>a, <2>1, <2>2, <3>1 DEF EntryKnown
  <2>3. CASE p.call = c /\ p \in pending
    <3>1. /\ p.desktop = asked[c].id /\ asked[c].pc \in {"entered", "waiting", "late"}
          /\ asked[c].pc # "late" => asked[c].answer = "none"
      BY <2>3 DEF EntryKnown
    <3>. QED
      BY <1>a, <1>c, <2>3, <3>1
  <2>4. CASE p.call = c /\ p \notin pending
    <3>1. Steps("found", "entered") /\ p.desktop = asked[c].id /\ asked'[c].answer = asked[c].answer
      BY <1>c, <2>4
    <3>2. asked[c].answer = "none"
      BY <3>1 DEF CallKnown
    <3>. QED
      BY <1>a, <2>4, <3>1, <3>2
  <2>. QED
    BY <2>2, <2>3, <2>4
<1>7. ToldKnown'
  BY <1>a, <1>c DEF ToldKnown, DesksTyped
<1>5. AcceptanceKnown'
  <2>1. ASSUME NEW d \in Caller, told[d] # NoDesk
        PROVE  told'[d] = told[d]
    BY <1>c, <2>1 DEF ToldKnown, DesksTyped
  <2>2. Desks!AcceptedByTheOneAsked'
    BY <1>0, <1>a, <2>1 DEF AcceptanceKnown, Desks!AcceptedByTheOneAsked
  <2>3. ASSUME NEW s \in Socket, task'[s] = "finishing", ending'[s].accepts, NEW d \in ending'[s].calls
        PROVE  told'[d] = s /\ <<d, s>> \in yes'
    <3>1. d \in Caller /\ told[d] = s /\ <<d, s>> \in yes
      BY <1>0, <2>3 DEF AcceptanceKnown, DesksTyped, Ends
    <3>. QED
      BY <1>0, <2>1, <3>1
  <2>. QED
    BY <2>2, <2>3 DEF AcceptanceKnown
<1>. QED
  BY <1>1, <1>2, <1>3, <1>4, <1>6, <1>7, <1>5

LEMMA DesksStep ==
  ASSUME DesksInv, Desks!DeskNext
  PROVE  DesksInv'
BY ConnectDesks, RegisterDesks, AcknowledgeDesks, SettleDesks, CloseDesks, AsksDesks, WaitsDesks
   DEF Desks!DeskNext, Desks!SocketStep, Desks!CallerStep

\* An action counts as taken only by the desktop it was said to, and no entry stays on the table of
\* requests without a caller that takes it out (DesktopRegistry, red-host desktops.rs).
THEOREM OneCallerHasOneDesktop == Spec => []OneCallerOneDesktop
<1>1. Init => DesksInv
  BY DesksStart DEF Init
<1>2. DesksInv /\ [Next]_vars => DesksInv'
  <2>. SUFFICES ASSUME DesksInv, [Next]_vars PROVE DesksInv'
    OBVIOUS
  <2>1. CASE OfDesks
    BY <2>1, DesksStep DEF OfDesks
  <2>2. CASE UNCHANGED desks
    BY <2>2 DEF desks, DesksInv, DesksTyped, OneIdEach, SocketKnown, CallKnown,
              EntryKnown, ToldKnown, AcceptanceKnown, Desks!AcceptedByTheOneAsked
  <2>3. OfDesks \/ UNCHANGED desks
    BY DEF Next, vars, OfPanes, OfMessage, OfBoard, OfDesks, OfSegment, OfRoutes
  <2>. QED
    BY <2>1, <2>2, <2>3
<1>3. DesksInv => OneCallerOneDesktop
  BY DesksPromise DEF OneCallerOneDesktop
<1>. QED
  BY <1>1, <1>2, <1>3, PTL DEF Spec
-----------------------------------------------------------------------------
\* WorkerRoutes: a frame is so of the request that left it.

Begins == {"none", "look", "bump", "hold", "tell"}
Turns  == {"queue", "write", "wrote"}
Stages == Begins \cup Turns \cup {"route", "ready", "ask", "name", "note", "store", "answered", "refused"}
Routed == [pc : Stages, kind : Routes!Kind, worker : Server, by : Routes!Asker, number : Nat]
Framed == [kind : Routes!Kind \cup {"workspace.updated"}, of : Query, worker : Server, number : Nat]
Done   == Routes!Range(written)

RoutesTyped ==
  /\ routed \in [Query -> Routed] /\ current \in Server
  /\ generation \in [Server -> Nat] /\ counter \in Nat
  /\ queue \in [Server -> Query \cup {Nobody}]
  /\ written \in Seq(Query) /\ feed \in Seq(Framed)

\* What a request has, where its thread is.
CallTrue(c, r, count, gens, turn, done) ==
  /\ r.number <= count /\ (r.pc \in {"none", "look", "bump"} => r.number = 0)
  /\ r.pc \in Begins \ {"none"} => Routes!Announces(r.kind)
  /\ r.pc \in {"hold", "tell"} => r.number # 0
  /\ r.pc = "tell" => gens[r.worker] = r.number
  /\ r.pc \in Turns => r.kind = "task"
  /\ r.pc = "name" => r.kind = "spawn"
  /\ r.pc \in {"write", "wrote"} => turn[r.worker] = c
  /\ r.pc = "wrote" \/ (r.pc = "note" /\ r.kind = "task") => c \in done

\* What a frame says is so of the request that left it.
FrameTrue(e, r, gens, done) ==
  /\ e.worker = r.worker /\ e.number = r.number
  /\ e.kind = "workspace.updated" => e.number # 0 /\ gens[e.worker] = e.number /\ r.pc \notin Begins
  /\ e.kind # "workspace.updated" => e.kind = r.kind /\ r.pc = "answered"
  /\ e.kind = "task" => e.of \in done

CallsTrue    == \A c \in Query : CallTrue(c, routed[c], counter, generation, queue, Done)
NumbersApart == \A c, d \in Query : routed[c].number = routed[d].number /\ routed[c].number # 0 => c = d
Claimed      == \A w \in Server : generation[w] # 0 =>
                  \E c \in Query : routed[c].worker = w /\ routed[c].pc # "none" /\ Routes!Announces(routed[c].kind)
FramesTrue   == \A i \in DOMAIN feed : FrameTrue(feed[i], routed[feed[i].of], generation, Done)
FramesOnce   == \A i, j \in DOMAIN feed : feed[i].of = feed[j].of /\ feed[i].kind = feed[j].kind => i = j

RoutesInv == RoutesTyped /\ CallsTrue /\ NumbersApart /\ Claimed /\ FramesTrue /\ FramesOnce

LEMMA RoutesStart ==
  ASSUME Routes!RoutesInit
  PROVE  RoutesInv
<1>. USE HostConstants DEF Routes!RoutesInit
<1>1. Routes!First \in Server
  BY DEF Routes!First
<1>2. Routes!NoCall \in Routed
  BY <1>1 DEF Routes!NoCall, Routed, Stages, Begins, Routes!Kind, Routes!Asker
<1>3. <<>> \in Seq(Query) /\ <<>> \in Seq(Framed) /\ DOMAIN <<>> = {}
  OBVIOUS
<1>4. RoutesTyped
  BY <1>1, <1>2, <1>3 DEF RoutesTyped
<1>5. CallsTrue /\ NumbersApart
  BY DEF CallsTrue, CallTrue, NumbersApart, Routes!NoCall, Turns, Begins
<1>6. Claimed
  BY DEF Claimed
<1>7. FramesTrue /\ FramesOnce
  BY <1>3 DEF FramesTrue, FramesOnce
<1>. QED
  BY <1>4, <1>5, <1>6, <1>7 DEF RoutesInv

LEMMA RoutesPromise ==
  ASSUME RoutesInv
  PROVE  Routes!FeedIsTrue
<1>. USE DEF RoutesInv
<1>1. \A i \in DOMAIN feed : feed[i] \in Framed
  BY DEF RoutesTyped
<1>2. \A i \in Routes!Told : /\ feed[i].number # 0 /\ feed[i].number = generation[feed[i].worker]
                            /\ feed[i].number = routed[feed[i].of].number /\ feed[i].of \in Query
                            /\ i \in DOMAIN feed /\ feed[i].kind = "workspace.updated"
  BY <1>1 DEF Routes!Told, FramesTrue, FrameTrue, Framed
<1>3. ASSUME NEW i \in Routes!Told, NEW j \in Routes!Told,
             feed[i].worker = feed[j].worker \/ feed[i].number = feed[j].number
      PROVE  i = j
  <2>1. feed[i].number = feed[j].number
    BY <1>2, <1>3
  <2>2. feed[i].of = feed[j].of
    BY <1>2, <2>1 DEF NumbersApart
  <2>. QED
    BY <1>2, <2>2 DEF FramesOnce
<1>4. \A w \in Server : generation[w] # 0 => \E c \in Query : Routes!Mine(c) = w /\ Routes!Announces(routed[c].kind)
  BY DEF Claimed, Routes!Mine
<1>5. Routes!GenerationToldOnce
  BY <1>2, <1>3, <1>4 DEF Routes!GenerationToldOnce
<1>6. \A i \in DOMAIN feed : feed[i].kind = "task" => feed[i].of \in Done
  BY DEF FramesTrue, FrameTrue
<1>7. \A c, d \in Query : {routed[c].pc, routed[d].pc} \subseteq {"write", "wrote"} /\ Routes!Mine(c) = Routes!Mine(d) => c = d
  BY DEF CallsTrue, CallTrue, Routes!Mine
<1>8. Routes!WritesToldAfter
  BY <1>6, <1>7 DEF Routes!WritesToldAfter, FramesOnce, Done
<1>. QED
  BY <1>5, <1>8 DEF Routes!FeedIsTrue

\* A step of one request that leaves the feed alone, and what it must not take back.
LEMMA OneCallStep ==
  ASSUME RoutesInv, RoutesTyped', NEW c \in Query,
         feed' = feed, routed[c].pc \notin {"none", "answered"},
         \A d \in Query : d # c => routed'[d] = routed[d],
         routed'[c].kind = routed[c].kind, routed'[c].worker = routed[c].worker,
         counter' \in {counter, counter + 1},
         \/ routed'[c].number = routed[c].number
         \/ routed[c].pc \in Begins /\ routed'[c].number = counter + 1 /\ counter' = counter + 1,
         routed'[c].pc # "none", routed'[c].pc \in Begins => routed[c].pc \in Begins,
         \A w \in Server : generation'[w] = generation[w]
                           \/ (generation[w] = 0 /\ w = routed[c].worker /\ Routes!Announces(routed[c].kind)),
         \A w \in Server : queue[w] \notin {Nobody, c} => queue'[w] = queue[w],
         Done \subseteq Done',
         CallTrue(c, routed'[c], counter', generation', queue', Done')
  PROVE  RoutesInv'
<1>. USE HostConstants DEF RoutesInv
<1>1. \A d \in Query : routed[d] \in Routed /\ routed[d].worker \in Server /\ routed[d].number \in Nat
  BY DEF RoutesTyped, Routed
<1>2. CallsTrue'
  <2>. SUFFICES ASSUME NEW d \in Query, d # c
                PROVE  CallTrue(d, routed'[d], counter', generation', queue', Done')
    BY DEF CallsTrue
  <2>1. CallTrue(d, routed[d], counter, generation, queue, Done) /\ routed'[d] = routed[d]
    BY DEF CallsTrue
  <2>2. counter \in Nat /\ counter' >= counter
    BY DEF RoutesTyped
  <2>. QED
    BY <1>1, <2>1, <2>2 DEF CallTrue
<1>3. NumbersApart'
  <2>1. \A d \in Query : routed[d].number <= counter
    BY DEF CallsTrue, CallTrue
  <2>2. counter \in Nat
    BY DEF RoutesTyped
  <2>3. CASE routed'[c].number = routed[c].number
    <3>1. \A d \in Query : routed'[d].number = routed[d].number
      BY <2>3
    <3>. QED
      BY <3>1 DEF NumbersApart
  <2>4. CASE routed'[c].number = counter + 1
    <3>1. \A d \in Query : d # c => routed'[d].number < routed'[c].number
      BY <1>1, <2>1, <2>2, <2>4
    <3>2. \A d \in Query : routed'[d].number \in Nat
      BY <1>1, <2>2, <2>4
    <3>. QED
      BY <1>1, <3>1, <3>2, <2>2, <2>4 DEF NumbersApart
  <2>. QED
    BY <2>3, <2>4
<1>4. Claimed'
  BY <1>1 DEF Claimed
<1>5. FramesTrue'
  <2>. SUFFICES ASSUME NEW i \in DOMAIN feed
                PROVE  FrameTrue(feed[i], routed'[feed[i].of], generation', Done')
    BY DEF FramesTrue
  <2>1. feed[i] \in Framed /\ FrameTrue(feed[i], routed[feed[i].of], generation, Done)
    BY DEF RoutesTyped, FramesTrue
  <2>. QED
    BY <1>1, <2>1 DEF FrameTrue, Framed
<1>6. FramesOnce'
  BY DEF FramesOnce
<1>. QED
  BY <1>2, <1>3, <1>4, <1>5, <1>6

\* A request goes to another stage.
LEMMA StageChange ==
  ASSUME RoutesTyped, NEW c \in Query, NEW to \in Stages, Routes!Goes(c, to)
  PROVE  /\ routed' \in [Query -> Routed] /\ routed'[c].pc = to
         /\ routed'[c].kind = routed[c].kind /\ routed'[c].worker = routed[c].worker
         /\ routed'[c].number = routed[c].number
         /\ \A d \in Query : d # c => routed'[d] = routed[d]
<1>1. routed[c] \in Routed
  BY DEF RoutesTyped
<1>2. routed'[c] = [pc |-> to, kind |-> routed[c].kind, worker |-> routed[c].worker, by |-> routed[c].by,
                    number |-> routed[c].number]
  BY <1>1 DEF RoutesTyped, Routed, Routes!Goes
<1>3. routed'[c] \in Routed
  BY <1>1, <1>2 DEF Routed
<1>4. \A d \in Query : d # c => routed'[d] = routed[d]
  BY DEF RoutesTyped, Routes!Goes
<1>5. routed' \in [Query -> Routed]
  BY <1>3, <1>4 DEF RoutesTyped, Routes!Goes
<1>. QED
  BY <1>2, <1>4, <1>5

\* It goes there without a claim, a turn or a write: what is true where it goes was so before.
LEMMA PlainStep ==
  ASSUME RoutesInv, NEW c \in Query, NEW to \in Stages, Routes!Goes(c, to),
         UNCHANGED <<current, generation, counter, queue, written, feed>>,
         routed[c].pc \notin {"none", "answered"}, to \notin {"none", "hold", "tell"},
         to \in Begins => routed[c].pc \in Begins \ {"none"} /\ routed[c].number = 0,
         to \in Turns => to = "queue" /\ routed[c].kind = "task",
         to \in {"name", "note"} => routed[c].kind = "spawn"
  PROVE  RoutesInv'
<1>1. /\ routed' \in [Query -> Routed] /\ routed'[c].pc = to
      /\ routed'[c].kind = routed[c].kind /\ routed'[c].worker = routed[c].worker
      /\ routed'[c].number = routed[c].number
      /\ \A d \in Query : d # c => routed'[d] = routed[d]
  BY StageChange DEF RoutesInv
<1>2. RoutesTyped'
  BY <1>1 DEF RoutesInv, RoutesTyped
<1>3. CallTrue(c, routed[c], counter, generation, queue, Done) /\ Done' = Done
  BY DEF RoutesInv, CallsTrue, Done
<1>4. CallTrue(c, routed'[c], counter', generation', queue', Done')
  BY <1>1, <1>3 DEF CallTrue, Begins, Turns
<1>. QED
  BY <1>1, <1>2, <1>3, <1>4, OneCallStep

LEMMA LooksRoutes ==
  ASSUME RoutesInv, NEW c \in Query, Routes!Looks(c)
  PROVE  RoutesInv'
<1>1. PICK to \in {"bump", "route"} : Routes!Goes(c, to)
  BY DEF Routes!Looks
<1>2. /\ UNCHANGED <<current, generation, counter, queue, written, feed>>
      /\ routed[c].pc = "look" /\ routed[c].number = 0
  BY DEF Routes!Looks, Routes!At, RoutesInv, CallsTrue, CallTrue
<1>. QED
  BY <1>1, <1>2, PlainStep DEF Stages, Begins, Turns

LEMMA BumpsRoutes ==
  ASSUME RoutesInv, NEW c \in Query, Routes!Bumps(c)
  PROVE  RoutesInv'
<1>1. /\ UNCHANGED <<current, generation, queue, written, feed>>
      /\ routed[c].pc = "bump" /\ routed[c].number = 0 /\ Routes!Announces(routed[c].kind)
  BY DEF Routes!Bumps, Routes!At, RoutesInv, CallsTrue, CallTrue, Begins
<1>2. CASE Routes!Goes(c, "route") /\ counter' = counter
  BY <1>1, <1>2, PlainStep DEF Stages, Begins, Turns
<1>3. CASE counter' = counter + 1 /\ routed' = [routed EXCEPT ![c].pc = "hold", ![c].number = counter + 1]
  <2>1. routed[c] \in Routed /\ counter \in Nat
    BY DEF RoutesInv, RoutesTyped
  <2>2. routed'[c] = [pc |-> "hold", kind |-> routed[c].kind, worker |-> routed[c].worker, by |-> routed[c].by,
                      number |-> counter + 1]
    BY <1>3, <2>1 DEF RoutesInv, RoutesTyped, Routed
  <2>3. counter + 1 \in Nat /\ counter + 1 # 0
    BY <2>1
  <2>4. routed'[c] \in Routed
    BY <2>1, <2>2, <2>3 DEF Routed, Stages, Begins
  <2>5. \A d \in Query : d # c => routed'[d] = routed[d]
    BY <1>3 DEF RoutesInv, RoutesTyped
  <2>6. routed' \in [Query -> Routed]
    BY <1>3, <2>4, <2>5 DEF RoutesInv, RoutesTyped
  <2>7. RoutesTyped'
    BY <1>1, <1>3, <2>3, <2>6 DEF RoutesInv, RoutesTyped
  <2>8. CallTrue(c, routed'[c], counter', generation', queue', Done')
    BY <1>1, <1>3, <2>2, <2>3 DEF CallTrue, Begins, Turns
  <2>9. Done' = Done
    BY <1>1 DEF Done
  <2>10. /\ routed'[c].pc = "hold" /\ routed'[c].kind = routed[c].kind
         /\ routed'[c].worker = routed[c].worker /\ routed'[c].number = counter + 1
    BY <2>2
  <2>11. counter' \in {counter, counter + 1} /\ counter' = counter + 1 /\ feed' = feed
    BY <1>1, <1>3
  <2>12. (\A w \in Server : generation'[w] = generation[w]) /\ (\A w \in Server : queue'[w] = queue[w])
    BY <1>1
  <2>. QED
    BY <1>1, <2>5, <2>7, <2>8, <2>9, <2>10, <2>11, <2>12, OneCallStep DEF Begins
<1>. QED
  BY <1>2, <1>3 DEF Routes!Bumps

LEMMA HoldsRoutes ==
  ASSUME RoutesInv, NEW c \in Query, Routes!Holds(c)
  PROVE  RoutesInv'
<1>1. /\ UNCHANGED <<current, counter, queue, written, feed>> /\ Done' = Done
      /\ routed[c].pc = "hold" /\ routed[c].number # 0 /\ Routes!Announces(routed[c].kind)
      /\ routed[c].number <= counter /\ routed[c].number \in Nat /\ routed[c].worker \in Server
  BY DEF Routes!Holds, Routes!At, RoutesInv, RoutesTyped, Routed, CallsTrue, CallTrue, Begins, Done
<1>2. CASE Routes!Goes(c, "route") /\ generation' = generation
  BY <1>1, <1>2, PlainStep DEF Stages, Begins, Turns
<1>3. CASE /\ generation[routed[c].worker] = 0 /\ Routes!Goes(c, "tell")
           /\ generation' = [generation EXCEPT ![routed[c].worker] = routed[c].number]
  <2>1. /\ routed' \in [Query -> Routed] /\ routed'[c].pc = "tell"
        /\ routed'[c].kind = routed[c].kind /\ routed'[c].worker = routed[c].worker
        /\ routed'[c].number = routed[c].number
        /\ \A d \in Query : d # c => routed'[d] = routed[d]
    BY <1>3, StageChange DEF RoutesInv, Stages, Begins
  <2>2. /\ generation' \in [Server -> Nat] /\ generation'[routed[c].worker] = routed[c].number
        /\ \A w \in Server : w # routed[c].worker => generation'[w] = generation[w]
    BY <1>1, <1>3 DEF RoutesInv, RoutesTyped
  <2>3. RoutesTyped'
    BY <1>1, <2>1, <2>2 DEF RoutesInv, RoutesTyped
  <2>4. CallTrue(c, routed'[c], counter', generation', queue', Done')
    BY <1>1, <2>1, <2>2 DEF CallTrue, Begins, Turns
  <2>. QED
    BY <1>1, <1>3, <2>1, <2>2, <2>3, <2>4, OneCallStep DEF Begins
<1>. QED
  BY <1>2, <1>3 DEF Routes!Holds, Routes!Mine

LEMMA TurnRoutes ==
  ASSUME RoutesInv, NEW c \in Query, Routes!TakeTurn(c) \/ Routes!Wrote(c)
  PROVE  RoutesInv'
<1>1. PICK to \in {"write", "note", "refused"}, now \in {c, Nobody} :
        /\ Routes!Goes(c, to) /\ queue' = [queue EXCEPT ![routed[c].worker] = now]
        /\ to = "write" => routed[c].pc = "queue" /\ now = c
        /\ to # "write" => now = Nobody
        /\ to = "note" => routed[c].pc = "wrote"
        /\ routed[c].pc = "queue" => queue[routed[c].worker] = Nobody
        /\ routed[c].pc \in Turns
  BY DEF Routes!TakeTurn, Routes!Wrote, Routes!At, Routes!Mine, Turns
<1>2. UNCHANGED <<current, generation, counter, written, feed>> /\ Done' = Done
  BY DEF Routes!TakeTurn, Routes!Wrote, Done
<1>3. /\ routed' \in [Query -> Routed] /\ routed'[c].pc = to
      /\ routed'[c].kind = routed[c].kind /\ routed'[c].worker = routed[c].worker
      /\ routed'[c].number = routed[c].number
      /\ \A d \in Query : d # c => routed'[d] = routed[d]
  BY <1>1, StageChange DEF RoutesInv, Stages, Turns
<1>4. CallTrue(c, routed[c], counter, generation, queue, Done) /\ routed[c].worker \in Server
  BY DEF RoutesInv, CallsTrue, RoutesTyped, Routed
<1>5. /\ queue' \in [Server -> Query \cup {Nobody}] /\ queue'[routed[c].worker] = now
      /\ \A w \in Server : w # routed[c].worker => queue'[w] = queue[w]
  BY <1>1, <1>4 DEF RoutesInv, RoutesTyped
<1>6. RoutesTyped'
  BY <1>2, <1>3, <1>5 DEF RoutesInv, RoutesTyped
<1>7. \A w \in Server : queue[w] \notin {Nobody, c} => queue'[w] = queue[w]
  BY <1>1, <1>4, <1>5 DEF CallTrue, Turns
<1>8. CallTrue(c, routed'[c], counter', generation', queue', Done')
  BY <1>1, <1>2, <1>3, <1>4, <1>5 DEF CallTrue, Begins, Turns
<1>. QED
  BY <1>1, <1>2, <1>3, <1>6, <1>7, <1>8, OneCallStep DEF Begins, Turns

LEMMA WriteRoutes ==
  ASSUME RoutesInv, NEW c \in Query, Routes!Write(c)
  PROVE  RoutesInv'
<1>1. /\ UNCHANGED <<current, generation, counter, queue, feed>> /\ Routes!Goes(c, "wrote")
      /\ written' = Append(written, c) /\ routed[c].pc = "write"
  BY DEF Routes!Write, Routes!At
<1>2. written \in Seq(Query) /\ written' \in Seq(Query)
  BY <1>1 DEF RoutesInv, RoutesTyped
<1>3. Done \subseteq Done' /\ c \in Done'
  <2>1. /\ DOMAIN written = 1 .. Len(written) /\ DOMAIN written' = 1 .. Len(written) + 1
        /\ \A i \in DOMAIN written : written'[i] = written[i]
        /\ Len(written) + 1 \in DOMAIN written' /\ written'[Len(written) + 1] = c
    BY <1>1, <1>2, AppendProperties
  <2>. QED
    BY <2>1 DEF Done, Routes!Range
<1>4. /\ routed' \in [Query -> Routed] /\ routed'[c].pc = "wrote"
      /\ routed'[c].kind = routed[c].kind /\ routed'[c].worker = routed[c].worker
      /\ routed'[c].number = routed[c].number
      /\ \A d \in Query : d # c => routed'[d] = routed[d]
  BY <1>1, StageChange DEF RoutesInv, Stages, Turns
<1>5. CallTrue(c, routed[c], counter, generation, queue, Done)
  BY DEF RoutesInv, CallsTrue
<1>6. RoutesTyped'
  BY <1>1, <1>2, <1>4 DEF RoutesInv, RoutesTyped
<1>7. CallTrue(c, routed'[c], counter', generation', queue', Done')
  BY <1>1, <1>3, <1>4, <1>5 DEF CallTrue, Begins, Turns
<1>. QED
  BY <1>1, <1>3, <1>4, <1>6, <1>7, OneCallStep DEF Begins

LEMMA ArrivesRoutes ==
  ASSUME RoutesInv, NEW c \in Query, NEW k \in Routes!Kind, NEW a \in Routes!Asker, Routes!Arrives(c, k, a)
  PROVE  RoutesInv'
<1>. DEFINE new == [pc |-> IF Routes!Announces(k) THEN "look" ELSE "route", kind |-> k,
                    worker |-> current, by |-> a, number |-> 0]
<1>1. /\ routed[c].pc = "none" /\ routed' = [routed EXCEPT ![c] = new]
      /\ UNCHANGED <<current, generation, counter, queue, written, feed>> /\ Done' = Done
  BY DEF Routes!Arrives, Routes!At, Done
<1>2. new \in Routed
  BY DEF RoutesInv, RoutesTyped, Routed, Stages, Begins
<1>3. routed' \in [Query -> Routed] /\ routed'[c] = new /\ \A d \in Query : d # c => routed'[d] = routed[d]
  BY <1>1, <1>2 DEF RoutesInv, RoutesTyped
<1>4. RoutesTyped'
  BY <1>1, <1>3 DEF RoutesInv, RoutesTyped
<1>5. CallTrue(c, new, counter, generation, queue, Done)
  BY DEF RoutesInv, RoutesTyped, CallTrue, Begins, Turns
<1>6. CallsTrue'
  BY <1>1, <1>3, <1>5 DEF RoutesInv, CallsTrue
<1>7. NumbersApart'
  BY <1>3 DEF RoutesInv, NumbersApart
<1>8. Claimed'
  BY <1>1, <1>3 DEF RoutesInv, Claimed
<1>9. FramesTrue'
  <2>. SUFFICES ASSUME NEW i \in DOMAIN feed
                PROVE  FrameTrue(feed[i], routed'[feed[i].of], generation, Done)
    BY <1>1 DEF FramesTrue
  <2>1. feed[i] \in Framed /\ FrameTrue(feed[i], routed[feed[i].of], generation, Done)
    BY DEF RoutesInv, RoutesTyped, FramesTrue
  <2>2. feed[i].of # c
    BY <1>1, <2>1 DEF FrameTrue, Begins
  <2>3. routed'[feed[i].of] = routed[feed[i].of]
    BY <1>3, <2>1, <2>2 DEF Framed
  <2>. QED
    BY <2>1, <2>3
<1>10. FramesOnce'
  BY <1>1 DEF RoutesInv, FramesOnce
<1>. QED
  BY <1>4, <1>6, <1>7, <1>8, <1>9, <1>10 DEF RoutesInv

\* A request leaves its frame, or the ledger refused it.
LEMMA NoteRoutes ==
  ASSUME RoutesInv, NEW c \in Query, Routes!Tells(c) \/ Routes!Note(c) \/ Routes!Recording(c)
  PROVE  RoutesInv'
<1>1. PICK to \in {"route", "answered", "refused"} : Routes!Goes(c, to)
  BY DEF Routes!Tells, Routes!Note, Routes!Recording
<1>2. /\ UNCHANGED <<current, generation, counter, queue, written>> /\ Done' = Done
      /\ routed[c].pc \in {"tell", "note", "route"}
  BY DEF Routes!Tells, Routes!Note, Routes!Recording, Routes!At, Done
<1>3. CASE feed' = feed
  BY <1>1, <1>2, <1>3, PlainStep DEF Stages, Begins, Turns
<1>4. CASE feed' # feed
  <2>1. PICK kind \in Routes!Kind \cup {"workspace.updated"} :
          /\ Routes!Says(c, kind)
          /\ \/ routed[c].pc = "tell" /\ Routes!Goes(c, "route") /\ kind = "workspace.updated"
             \/ routed[c].pc = "note" /\ Routes!Goes(c, "answered") /\ kind = routed[c].kind
             \/ /\ routed[c].pc = "route" /\ Routes!Goes(c, "answered")
                /\ routed[c].kind = "recording" /\ kind = "recording"
    <3>1. routed[c].kind \in Routes!Kind /\ "recording" \in Routes!Kind
      BY DEF RoutesInv, RoutesTyped, Routed, Routes!Kind
    <3>. QED
      BY <1>4, <3>1 DEF Routes!Tells, Routes!Note, Routes!Recording, Routes!At, Routes!Notes
  <2>. DEFINE e == [kind |-> kind, of |-> c, worker |-> routed[c].worker, number |-> routed[c].number]
              at == IF kind = "workspace.updated" THEN "route" ELSE "answered"
  <2>2. feed' = Append(feed, e) /\ e \in Framed /\ feed \in Seq(Framed)
    BY <2>1 DEF Routes!Says, Routes!Mine, RoutesInv, RoutesTyped, Routed, Framed
  <2>3. /\ feed' \in Seq(Framed) /\ DOMAIN feed = 1 .. Len(feed) /\ Len(feed) \in Nat
        /\ DOMAIN feed' = 1 .. Len(feed) + 1
        /\ \A i \in DOMAIN feed : feed'[i] = feed[i]
        /\ feed'[Len(feed) + 1] = e
    BY <2>2, AppendProperties
  <2>4. "workspace.updated" \notin Routes!Kind
    BY DEF Routes!Kind
  <2>5. routed[c].kind \in Routes!Kind /\ CallTrue(c, routed[c], counter, generation, queue, Done)
    BY DEF RoutesInv, RoutesTyped, Routed, CallsTrue
  <2>6. Routes!Goes(c, at)
    BY <2>1, <2>4, <2>5
  <2>7. /\ routed' \in [Query -> Routed] /\ routed'[c].pc = at
        /\ routed'[c].kind = routed[c].kind /\ routed'[c].worker = routed[c].worker
        /\ routed'[c].number = routed[c].number
        /\ \A d \in Query : d # c => routed'[d] = routed[d]
    BY <2>6, StageChange DEF RoutesInv, Stages
  <2>8. RoutesTyped'
    BY <1>2, <2>3, <2>7 DEF RoutesInv, RoutesTyped
  <2>9. CallsTrue'
    <3>1. CallTrue(c, routed'[c], counter, generation, queue, Done)
      BY <2>5, <2>7 DEF CallTrue, Begins, Turns
    <3>. QED
      BY <1>2, <2>7, <3>1 DEF RoutesInv, CallsTrue
  <2>10. NumbersApart'
    BY <2>7 DEF RoutesInv, NumbersApart
  <2>11. Claimed'
    BY <1>2, <2>7 DEF RoutesInv, Claimed
  <2>12. \A i \in DOMAIN feed : feed[i] \in Framed /\ FrameTrue(feed[i], routed[feed[i].of], generation, Done)
    BY DEF RoutesInv, RoutesTyped, FramesTrue
  <2>13. \A i \in DOMAIN feed : FrameTrue(feed[i], routed'[feed[i].of], generation, Done)
    <3>. SUFFICES ASSUME NEW i \in DOMAIN feed
                  PROVE  FrameTrue(feed[i], routed'[feed[i].of], generation, Done)
      OBVIOUS
    <3>1. CASE feed[i].of # c
      BY <2>7, <2>12, <3>1 DEF Framed
    <3>2. CASE feed[i].of = c
      <4>1. FrameTrue(feed[i], routed[c], generation, Done)
        BY <2>12, <3>2
      <4>. QED
        BY <1>2, <2>7, <3>2, <4>1 DEF FrameTrue, Begins
    <3>. QED
      BY <3>1, <3>2
  <2>14. FrameTrue(e, routed'[c], generation, Done)
    <3>1. kind = "task" => c \in Done
      BY <2>1, <2>5 DEF CallTrue
    <3>2. kind = "workspace.updated" => routed[c].number # 0 /\ generation[routed[c].worker] = routed[c].number
      BY <2>1, <2>4, <2>5 DEF CallTrue
    <3>3. kind # "workspace.updated" => kind = routed[c].kind
      BY <2>1
    <3>. QED
      BY <2>7, <3>1, <3>2, <3>3 DEF FrameTrue, Begins
  <2>15. FramesTrue'
    BY <1>2, <2>3, <2>13, <2>14 DEF FramesTrue
  <2>16. ASSUME NEW i \in DOMAIN feed, feed[i].of = c
         PROVE  feed[i].kind # kind
    <3>1. FrameTrue(feed[i], routed[c], generation, Done)
      BY <2>12, <2>16
    <3>. QED
      BY <2>1, <2>4, <2>5, <3>1 DEF FrameTrue, Begins
  <2>17. FramesOnce'
    BY <2>3, <2>16 DEF RoutesInv, FramesOnce
  <2>. QED
    BY <2>8, <2>9, <2>10, <2>11, <2>15, <2>17 DEF RoutesInv
<1>. QED
  BY <1>3, <1>4

\* What changes nothing the feed rests on.
LEMMA OtherRoutes ==
  ASSUME RoutesInv, NEW c \in Query,
         \/ Routes!Gate(c) \/ Routes!Refused(c) \/ Routes!Forward(c) \/ Routes!UpdateWorkspace(c) \/ Routes!State(c)
         \/ Routes!StartPane(c) \/ Routes!StartScript(c) \/ Routes!Name(c)
         \/ Routes!SetWindow(c) \/ Routes!Store(c) \/ Routes!TokenAction(c)
  PROVE  RoutesInv'
<1>1. /\ UNCHANGED <<current, generation, counter, queue, written, feed>>
      /\ routed[c].pc \in {"route", "ready", "ask", "name", "store"}
  BY DEF Routes!Gate, Routes!Refused, Routes!Forward, Routes!UpdateWorkspace, Routes!State, Routes!StartPane,
         Routes!StartScript, Routes!Name, Routes!SetWindow, Routes!Store, Routes!TokenAction, Routes!At
<1>2. CASE Routes!Gate(c)
  <2>1. PICK to \in {"queue", "ready", "ask", "refused"} :
          Routes!Goes(c, to) /\ (to = "queue" => routed[c].kind = "task")
    BY <1>2 DEF Routes!Gate, Routes!After
  <2>. QED
    BY <1>1, <2>1, PlainStep DEF Stages, Begins, Turns
<1>3. CASE ~Routes!Gate(c)
  <2>0. routed[c].pc = "name" => routed[c].kind = "spawn"
    BY DEF RoutesInv, CallsTrue, CallTrue
  <2>1. PICK to \in {"refused", "answered", "name", "note", "store"} :
          Routes!Goes(c, to) /\ (to \in {"name", "note"} => routed[c].kind = "spawn")
    BY <1>3, <2>0 DEF Routes!Refused, Routes!Forward, Routes!UpdateWorkspace, Routes!State, Routes!StartPane,
           Routes!StartScript, Routes!Name, Routes!SetWindow, Routes!Store, Routes!TokenAction, Routes!At
  <2>. QED
    BY <1>1, <2>1, PlainStep DEF Stages, Begins, Turns
<1>. QED
  BY <1>2, <1>3

LEMMA ReplacedRoutes ==
  ASSUME RoutesInv, NEW w \in Server, Routes!Replaced(w)
  PROVE  RoutesInv'
<1>1. UNCHANGED <<routed, generation, counter, queue, written, feed>> /\ current' = w
  BY DEF Routes!Replaced
<1>. QED
  BY <1>1 DEF RoutesInv, RoutesTyped, CallsTrue, NumbersApart, Claimed, FramesTrue, FramesOnce, Done

LEMMA RoutesStep ==
  ASSUME RoutesInv, Routes!RoutesNext
  PROVE  RoutesInv'
BY LooksRoutes, BumpsRoutes, HoldsRoutes, TurnRoutes, WriteRoutes, ArrivesRoutes, NoteRoutes, OtherRoutes,
   ReplacedRoutes DEF Routes!RoutesNext, Routes!Serve

\* Whatever first requests and writes overlap, also over a rollover, a generation is told once, by
\* the worker that holds it, and the feed tells of writes that were made (WorkerRoutes, red_worker.rs).
THEOREM TheFeedIsTrue == Spec => []FeedIsTrue
<1>1. Init => RoutesInv
  BY RoutesStart DEF Init
<1>2. RoutesInv /\ [Next]_vars => RoutesInv'
  <2>. SUFFICES ASSUME RoutesInv, [Next]_vars PROVE RoutesInv'
    OBVIOUS
  <2>1. CASE OfRoutes
    BY <2>1, RoutesStep DEF OfRoutes
  <2>2. CASE UNCHANGED routes
    BY <2>2 DEF routes, RoutesInv, RoutesTyped, CallsTrue, NumbersApart, Claimed, FramesTrue, FramesOnce, Done
  <2>3. OfRoutes \/ UNCHANGED routes
    BY DEF Next, vars, OfPanes, OfMessage, OfBoard, OfDesks, OfSegment, OfRoutes
  <2>. QED
    BY <2>1, <2>2, <2>3
<1>3. RoutesInv => FeedIsTrue
  BY RoutesPromise DEF FeedIsTrue
<1>. QED
  BY <1>1, <1>2, <1>3, PTL DEF Spec
-----------------------------------------------------------------------------
\* HostPanes: every record of a pane that travels was true of it, and a request has one answer.

Replies  == [call : Request, answer : PaneRecords \cup {Failed}]
PaneStages == {"idle", "look", "spawn", "claim", "write", "record", "input", "stop", "describe", "done"}
PaneCalls ==
  [op : Panes!Ops \cup {"none"}, pc : PaneStages, on : Request \cup {None}, want : Panes!Want \cup {None},
   answer : PaneRecords \cup {None, Failed}, conversation : Conversation \cup {None}]
Servings == [call : Request \cup {None}, said : Sayings \cup {None}, answer : PaneRecords \cup {None, Failed}]

PaneTypes ==
  /\ call \in [Request -> PaneCalls] /\ session \in [Request -> PaneRecords]
  /\ gate \subseteq Request /\ serving \in Servings /\ ended \subseteq Sayings
  /\ wire \in Seq(Sayings \cup Replies) /\ mirror \in [Request -> PaneRecords]

\* What the service once took of pane p, and is not ahead of its view's file.
Genuine(p, r) ==
  /\ r.state # "none" /\ session[p].state # "none"
  /\ r.version <= session[p].version
  /\ r.version = session[p].version => r = session[p]
  /\ r.gated = session[p].gated
  /\ r.gated /\ r.released => p \in gate
Stopped(p) == session[p].state \in {"stopping", "exited"}

PanesTrue ==
  \A p \in Request : /\ session[p].gated /\ session[p].released => p \in gate
                     /\ session[p].conversation \in known \cup {None}
MirrorTrue == \A p \in Request : mirror[p].state # "none" => Genuine(p, mirror[p])

\* What is on its way to the door: the announcement being made, the ends to be said, the socket.
SayingTrue == serving.said # None => Genuine(serving.said.pane, serving.said.record)
EndsTrue   == \A s \in ended : Genuine(s.pane, s.record)
WireTrue   == \A i \in DOMAIN wire : wire[i] \in Sayings => Genuine(wire[i].pane, wire[i].record)

\* What each stage of a request stands for.
Shape(k) ==
  /\ k.op = "none" => k.pc = "idle"
  /\ k.pc \in {"look", "spawn", "claim"} => k.op \in {"launch", "restart"}
  /\ k.pc = "stop" => k.op \in {"stop", "restart"}
  /\ k.pc \in {"write", "record", "input", "describe"} => k.op \in {"present", "report", "input"}
  /\ k.pc = "write" => k.op = "present" /\ k.conversation = None
  /\ k.pc = "record" => k.op = "report"
  /\ k.answer # None => k.pc \in {"spawn", "input", "stop", "describe", "claim"}
  /\ k.op \notin {"none", "launch"} => k.on \in Request

\* A request about a pane is about one there is, types into one that may be typed into, describes
\* one whose file is written, offers a conversation the workspace has, and restarts one that stopped.
Fitting(c, k) ==
  /\ k.op \notin {"none", "launch"} => session[k.on].state # "none"
  /\ k.pc = "input" /\ session[k.on].gated => k.on \in gate
  /\ k.pc = "describe" /\ k.op = "present" => k.on \in gate
  /\ k.pc \in {"spawn", "describe"} => k.conversation \in known \cup {None}
  /\ k.op = "restart" /\ (k.pc \in {"look", "spawn", "claim"} \/ session[c].state # "none") => Stopped(k.on)
CallsFit == \A c \in Request : Shape(call[c]) /\ Fitting(c, call[c])

Waits(c) == call[c].pc \in {"spawn", "input", "stop", "describe"} /\ call[c].answer = None
Replied(c) == \E i \in DOMAIN wire : wire[i] \in Replies /\ wire[i].call = c
Asked(c) == call[c].answer # None \/ serving.call = c \/ Replied(c)

\* A pane there is was started by its own request, which is not going to start it again.
Born ==
  \A c \in Request : session[c].state # "none" =>
    /\ call[c].op \in {"launch", "restart"}
    /\ call[c].pc \in {"claim", "done"} \/ (call[c].pc = "spawn" /\ Asked(c))

\* A request waits for the one answer that is being made, or is on the socket.
OneServed == serving.call # None => Waits(serving.call)
OneReply  ==
  \A i \in DOMAIN wire : wire[i] \in Replies =>
    /\ Waits(wire[i].call) /\ serving.call # wire[i].call
    /\ \A j \in DOMAIN wire : wire[j] \in Replies /\ wire[i].call = wire[j].call => i = j

Answers(c, a) ==
  /\ call[c].pc = "spawn" /\ a # Failed => Genuine(c, a)
  /\ call[c].pc = "stop" /\ a # Failed => Stopped(call[c].on)
AnswersTrue == \A c \in Request : call[c].answer # None => Answers(c, call[c].answer)
RepliesTrue == \A i \in DOMAIN wire : wire[i] \in Replies => Answers(wire[i].call, wire[i].answer)
ServedTrue ==
  /\ serving.call # None => /\ serving.answer = None => call[serving.call].pc = "stop"
                            /\ Answers(serving.call, serving.answer)
  /\ serving.call = None => serving.said = None

\* Whatever the door's record is behind is on its way to it.
InFlight(s) == serving.said = s \/ s \in ended \/ \E i \in DOMAIN wire : wire[i] = s
Agrees(p) == session[p].state = "stopping" \/ mirror[p] = session[p] \/ InFlight(Panes!Said(p, session[p]))
Heard == \A p \in Request \ overtaken : Agrees(p)

PanesInv ==
  /\ PaneTypes /\ PanesTrue /\ MirrorTrue /\ SayingTrue /\ EndsTrue /\ WireTrue
  /\ CallsFit /\ Born /\ OneServed /\ OneReply /\ AnswersTrue /\ RepliesTrue /\ ServedTrue
  /\ Heard /\ typed = {}

LEMMA PaneMarks ==
  /\ None \notin Request /\ None # Failed
  /\ None \notin PaneRecords /\ Failed \notin PaneRecords /\ None \notin Sayings
BY HostConstants

LEMMA SayingIs ==
  ASSUME NEW s \in Sayings
  PROVE  /\ "call" \notin DOMAIN s /\ s \notin Replies /\ s # None
         /\ s.pane \in Request /\ s.record \in PaneRecords /\ s = Panes!Said(s.pane, s.record)
BY PaneMarks DEF Sayings, Replies, Panes!Said

LEMMA ReplyIs ==
  ASSUME NEW w \in Replies
  PROVE  /\ "pane" \notin DOMAIN w /\ "call" \in DOMAIN w /\ w \notin Sayings
         /\ w.call \in Request /\ w.answer \in PaneRecords \cup {Failed} /\ w.answer # None
BY PaneMarks DEF Sayings, Replies

LEMMA NoPaneIs == Panes!NoPane \in PaneRecords /\ Panes!NoPane.state = "none" /\ ~Panes!NoPane.gated
BY DEF Panes!NoPane, PaneRecords

LEMMA PanesStart ==
  ASSUME Panes!PanesInit
  PROVE  PanesInv
<1>1. PaneTypes
  BY NoPaneIs DEF Panes!PanesInit, PaneTypes, PaneCalls, PaneStages, Panes!NoCall, Servings, Panes!Nothing, Panes!Ops
<1>2. /\ \A p \in Request : session[p] = Panes!NoPane /\ mirror[p] = Panes!NoPane /\ call[p] = Panes!NoCall
      /\ serving.call = None /\ serving.said = None /\ ended = {} /\ DOMAIN wire = {} /\ typed = {}
  BY DEF Panes!PanesInit, Panes!Nothing
<1>3. PanesTrue /\ MirrorTrue
  BY <1>2, NoPaneIs DEF PanesTrue, MirrorTrue, Panes!NoPane
<1>4. SayingTrue /\ EndsTrue /\ WireTrue
  BY <1>2 DEF SayingTrue, EndsTrue, WireTrue
<1>5. CallsFit
  BY <1>2 DEF CallsFit, Shape, Fitting, Panes!NoCall
<1>6. Born
  BY <1>2, NoPaneIs DEF Born
<1>7. OneServed /\ OneReply /\ RepliesTrue /\ ServedTrue
  BY <1>2 DEF OneServed, OneReply, RepliesTrue, ServedTrue
<1>8. AnswersTrue
  BY <1>2 DEF AnswersTrue, Panes!NoCall
<1>9. Heard
  BY <1>2 DEF Heard, Agrees
<1>. QED
  BY <1>1, <1>2, <1>3, <1>4, <1>5, <1>6, <1>7, <1>8, <1>9 DEF PanesInv

\* A request moves on: the service, the socket and what is said stay as they are.
LEMMA CallMoves ==
  ASSUME PanesInv, NEW c \in Request, NEW k \in PaneCalls, call' = [call EXCEPT ![c] = k],
         gate \subseteq gate', gate' \subseteq Request, known \subseteq known',
         session' = session, serving' = serving, ended' = ended, wire' = wire,
         ~Waits(c), Shape(k), Fitting(c, k)',
         session[c].state # "none" => k.op \in {"launch", "restart"} /\ k.pc \in {"claim", "done"},
         k.answer # None => k.pc = "claim"
  PROVE  /\ call' \in [Request -> PaneCalls] /\ PanesTrue' /\ SayingTrue' /\ EndsTrue' /\ WireTrue' /\ CallsFit'
         /\ Born' /\ OneServed' /\ OneReply' /\ AnswersTrue' /\ RepliesTrue' /\ ServedTrue'
         /\ \A p, r : Genuine(p, r) => Genuine(p, r)'
<1>1. /\ call' \in [Request -> PaneCalls] /\ call'[c] = k
      /\ \A d \in Request : d # c => call'[d] = call[d]
  BY DEF PanesInv, PaneTypes
<1>2. /\ \A p, r : Genuine(p, r) => Genuine(p, r)'
      /\ \A p : Stopped(p) => Stopped(p)'
  BY DEF Genuine, Stopped
<1>3. serving.call # c /\ \A i \in DOMAIN wire : wire[i] \in Replies => wire[i].call # c
  BY PaneMarks DEF PanesInv, OneServed, OneReply
<1>4. serving.call # None => serving.call \in Request
  BY DEF PanesInv, PaneTypes, Servings
<1>5. PanesTrue'
  BY DEF PanesInv, PanesTrue
<1>6. SayingTrue'
  BY <1>2 DEF PanesInv, SayingTrue
<1>7. EndsTrue'
  BY <1>2 DEF PanesInv, EndsTrue
<1>8. WireTrue'
  BY <1>2 DEF PanesInv, WireTrue
<1>9. CallsFit'
  <2>1. ASSUME NEW d \in Request, d # c PROVE Shape(call'[d]) /\ Fitting(d, call[d])'
    <3>1. Shape(call[d]) /\ Fitting(d, call[d])
      BY <2>1 DEF PanesInv, CallsFit
    <3>2. call'[d] = call[d]
      BY <1>1, <2>1
    <3>3. Fitting(d, call[d])'
      BY <1>2, <3>1, <3>2 DEF Fitting
    <3>. QED
      BY <3>1, <3>2, <3>3
  <2>2. Shape(call'[c]) /\ Fitting(c, call[c])'
    BY <1>1 DEF Fitting
  <2>. QED
    BY <2>1, <2>2 DEF CallsFit
<1>10. Born'
  BY <1>1 DEF PanesInv, Born, Asked, Replied
<1>11. OneServed'
  BY <1>1, <1>3, <1>4 DEF PanesInv, OneServed, Waits
<1>12. \A i \in DOMAIN wire : wire[i] \in Replies => wire[i].call \in Request
  BY ReplyIs
<1>13. OneReply'
  BY <1>1, <1>3, <1>12 DEF PanesInv, OneReply, Waits
<1>14. ASSUME NEW d \in Request, d # c, NEW a, Answers(d, a) PROVE Answers(d, a)'
  BY <1>1, <1>2, <1>14 DEF Answers
<1>15. AnswersTrue'
  <2>1. k.answer # None => Answers(c, k.answer)'
    BY <1>1 DEF Answers
  <2>2. ASSUME NEW d \in Request, d # c, call[d].answer # None PROVE Answers(d, call[d].answer)'
    <3>1. Answers(d, call[d].answer)
      BY <2>2 DEF PanesInv, AnswersTrue
    <3>. QED
      BY <1>1, <1>2, <2>2, <3>1 DEF Answers
  <2>. QED
    BY <1>1, <2>1, <2>2 DEF AnswersTrue, Answers
<1>16. RepliesTrue'
  BY <1>3, <1>12, <1>14 DEF PanesInv, RepliesTrue
<1>17. ServedTrue'
  BY <1>1, <1>3, <1>4, <1>14 DEF PanesInv, ServedTrue
<1>. QED
  BY <1>1, <1>2, <1>5, <1>6, <1>7, <1>8, <1>9, <1>10, <1>11, <1>13, <1>15, <1>16, <1>17

LEMMA CallSteps ==
  ASSUME PanesInv, NEW c \in Request, NEW k \in PaneCalls, call' = [call EXCEPT ![c] = k],
         gate \subseteq gate', gate' \subseteq Request, known \subseteq known',
         UNCHANGED <<session, serving, ended, wire, mirror, typed, overtaken>>,
         ~Waits(c), Shape(k), Fitting(c, k)',
         session[c].state # "none" => k.op \in {"launch", "restart"} /\ k.pc \in {"claim", "done"},
         k.answer # None => k.pc = "claim"
  PROVE  PanesInv'
<1>1. /\ call' \in [Request -> PaneCalls] /\ PanesTrue' /\ SayingTrue' /\ EndsTrue' /\ WireTrue' /\ CallsFit'
      /\ Born' /\ OneServed' /\ OneReply' /\ AnswersTrue' /\ RepliesTrue' /\ ServedTrue'
      /\ \A p, r : Genuine(p, r) => Genuine(p, r)'
  BY CallMoves
<1>2. PaneTypes'
  BY <1>1 DEF PanesInv, PaneTypes
<1>3. MirrorTrue'
  BY <1>1 DEF PanesInv, MirrorTrue
<1>4. Heard'
  BY DEF PanesInv, Heard, Agrees, InFlight
<1>5. typed' = {}
  BY DEF PanesInv
<1>. QED
  BY <1>1, <1>2, <1>3, <1>4, <1>5 DEF PanesInv

\* A request that is over keeps what it was about.
LEMMA CallOver ==
  ASSUME PanesInv, NEW c \in Request, call[c].op # "none", ~Waits(c), call' = [call EXCEPT ![c] = Panes!Over(c)],
         UNCHANGED <<session, gate, serving, ended, wire, mirror, known, typed, overtaken>>
  PROVE  PanesInv'
<1>1. call[c] \in PaneCalls /\ Shape(call[c]) /\ Fitting(c, call[c])
  BY DEF PanesInv, PaneTypes, CallsFit
<1>2. call[c].op \in Panes!Ops \cup {"none"} /\ call[c].on \in Request \cup {None}
  BY <1>1 DEF PaneCalls
<1>3. Panes!Over(c) \in PaneCalls
  BY <1>2 DEF Panes!Over, Panes!NoCall, PaneCalls, PaneStages
<1>4. PICK k \in PaneCalls : k = Panes!Over(c)
  BY <1>3
<1>5. k.op = call[c].op /\ k.pc = "done" /\ k.on = call[c].on /\ k.answer = None
  BY <1>4 DEF Panes!Over, Panes!NoCall
<1>6. Shape(k)
  BY <1>1, <1>5 DEF Shape
<1>7. Fitting(c, k)'
  BY <1>1, <1>5 DEF Fitting, Stopped
<1>8. session[c].state # "none" => k.op \in {"launch", "restart"}
  BY <1>5 DEF PanesInv, Born
<1>9. gate \subseteq Request
  BY DEF PanesInv, PaneTypes
<1>. QED
  BY <1>4, <1>5, <1>6, <1>7, <1>8, <1>9, CallSteps

\* A request goes on to its next stage.
LEMMA CallBecomes ==
  ASSUME PanesInv, NEW c \in Request, NEW pc \in PaneStages, Panes!Becomes(c, pc),
         gate \subseteq gate', gate' \subseteq Request, known \subseteq known',
         UNCHANGED <<session, serving, ended, wire, mirror, typed, overtaken>>,
         session[c].state = "none", call[c].answer = None,
         \/ pc = "spawn" /\ call[c].pc = "look" /\ call[c].conversation \in known' \cup {None}
         \/ pc = "describe" /\ call[c].pc = "write" /\ call[c].on \in gate' /\ call[c].conversation = None
         \/ pc = "describe" /\ call[c].pc = "record" /\ call[c].op = "report"
                            /\ call[c].conversation \in known'
  PROVE  PanesInv'
<1>1. call[c] \in PaneCalls /\ Shape(call[c]) /\ Fitting(c, call[c])
  BY DEF PanesInv, PaneTypes, CallsFit
<1>2. PICK k \in PaneCalls : k = [call[c] EXCEPT !.pc = pc]
  BY <1>1 DEF PaneCalls
<1>3. call' = [call EXCEPT ![c] = k]
  BY <1>2 DEF Panes!Becomes, PanesInv, PaneTypes
<1>4. /\ k.op = call[c].op /\ k.pc = pc /\ k.on = call[c].on /\ k.answer = None
      /\ k.conversation = call[c].conversation
  BY <1>1, <1>2 DEF PaneCalls
<1>5. Shape(k)
  BY <1>1, <1>4 DEF Shape
<1>6. Fitting(c, k)'
  BY <1>1, <1>4 DEF Fitting, Stopped, Shape
<1>7. ~Waits(c)
  BY DEF Waits
<1>. QED
  BY <1>3, <1>4, <1>5, <1>6, <1>7, CallSteps

\* A request arrives about a pane that the door knows.
LEMMA CallArrives ==
  ASSUME PanesInv, NEW c \in Request, Panes!Arrives(c), NEW k \in PaneCalls, call' = [call EXCEPT ![c] = k],
         UNCHANGED <<session, gate, serving, ended, wire, mirror, known, typed, overtaken>>,
         Shape(k), Fitting(c, k), k.answer = None
  PROVE  PanesInv'
<1>1. call[c].op = "none" /\ call[c].pc = "idle" /\ session[c].state = "none"
  BY DEF Panes!Arrives, PanesInv, CallsFit, Shape, Born
<1>2. ~Waits(c)
  BY <1>1 DEF Waits
<1>3. Fitting(c, k)'
  BY DEF Fitting, Stopped
<1>4. gate \subseteq Request
  BY DEF PanesInv, PaneTypes
<1>. QED
  BY <1>1, <1>2, <1>3, <1>4, CallSteps

\* What the door's record says of a pane it has: there is one, and one that may be typed to is seen.
LEMMA DoorKnows ==
  ASSUME PanesInv, NEW p \in Request, Panes!Known(p)
  PROVE  /\ session[p].state # "none"
         /\ ~Panes!Waiting(p) /\ session[p].gated => p \in gate
BY DEF PanesInv, MirrorTrue, Genuine, Panes!Known, Panes!Waiting

LEMMA BeginPanes ==
  ASSUME PanesInv, NEW c \in Request, NEW op \in {"input", "stop", "present"}, NEW p \in Request,
         NEW pc \in {"input", "stop", "write"}, Panes!Begin(c, op, p, pc), Panes!Known(p),
         <<op, pc>> \in {<<"input", "input">>, <<"stop", "stop">>, <<"present", "write">>},
         op = "input" => ~Panes!Waiting(p),
         UNCHANGED <<session, gate, serving, ended, wire, mirror, known, typed, overtaken>>
  PROVE  PanesInv'
<1>1. PICK k \in PaneCalls :
        k = [Panes!NoCall EXCEPT !.op = op, !.pc = pc, !.on = p]
  BY DEF Panes!NoCall, PaneCalls, PaneStages, Panes!Ops
<1>2. /\ call' = [call EXCEPT ![c] = k] /\ k.op = op /\ k.pc = pc /\ k.on = p /\ k.answer = None
      /\ k.conversation = None
  BY <1>1 DEF Panes!Begin, Panes!NoCall
<1>3. session[p].state # "none" /\ (~Panes!Waiting(p) /\ session[p].gated => p \in gate)
  BY DoorKnows
<1>4. Shape(k)
  BY <1>2 DEF Shape
<1>5. Fitting(c, k)
  BY <1>2, <1>3 DEF Fitting
<1>6. Panes!Arrives(c)
  BY DEF Panes!Begin
<1>. QED
  BY <1>2, <1>4, <1>5, <1>6, CallArrives

LEMMA RequestPanes ==
  ASSUME PanesInv, NEW c \in Request,
         \/ Panes!Launch(c) \/ Panes!Input(c) \/ Panes!Stop(c) \/ Panes!Present(c)
         \/ Panes!Report(c) \/ Panes!Restart(c)
  PROVE  PanesInv'
<1>1. CASE Panes!Launch(c)
  <2>1. PICK want \in Panes!Want : call' = [call EXCEPT ![c] =
          [Panes!NoCall EXCEPT !.op = "launch", !.pc = "look", !.want = want]]
    BY <1>1 DEF Panes!Launch
  <2>2. PICK k \in PaneCalls : k = [Panes!NoCall EXCEPT !.op = "launch", !.pc = "look", !.want = want]
    BY DEF Panes!NoCall, PaneCalls, PaneStages, Panes!Ops
  <2>3. k.op = "launch" /\ k.pc = "look" /\ k.answer = None
    BY <2>2 DEF Panes!NoCall
  <2>4. Shape(k) /\ Fitting(c, k)
    BY <2>3 DEF Shape, Fitting
  <2>. QED
    BY <1>1, <2>1, <2>2, <2>3, <2>4, CallArrives DEF Panes!Launch, Panes!historyVars
<1>2. CASE Panes!Input(c)
  <2>1. PICK p \in Request : Panes!Running(p) /\ ~Panes!Waiting(p) /\ Panes!Begin(c, "input", p, "input")
    BY <1>2 DEF Panes!Input
  <2>2. Panes!Known(p)
    BY <2>1 DEF Panes!Running, Panes!Known
  <2>. QED
    BY <1>2, <2>1, <2>2, BeginPanes DEF Panes!Input, Panes!historyVars
<1>3. CASE Panes!Stop(c)
  <2>1. PICK p \in Request : Panes!Known(p) /\ Panes!Begin(c, "stop", p, "stop")
    BY <1>3 DEF Panes!Stop
  <2>. QED
    BY <1>3, <2>1, BeginPanes DEF Panes!Stop, Panes!historyVars
<1>4. CASE Panes!Present(c)
  <2>1. PICK p \in Request : Panes!Running(p) /\ Panes!Begin(c, "present", p, "write")
    BY <1>4 DEF Panes!Present
  <2>2. Panes!Known(p)
    BY <2>1 DEF Panes!Running, Panes!Known
  <2>. QED
    BY <1>4, <2>1, <2>2, BeginPanes DEF Panes!Present, Panes!historyVars
<1>5. CASE Panes!Report(c)
  <2>1. PICK p \in Request, said \in Conversation \cup {None} :
          /\ Panes!Known(p) /\ Panes!Arrives(c)
          /\ call' = [call EXCEPT ![c] = [Panes!NoCall EXCEPT !.op = "report", !.on = p, !.conversation = said,
                                            !.pc = IF said = None THEN "describe" ELSE "record"]]
    BY <1>5 DEF Panes!Report
  <2>2. PICK pc \in {"describe", "record"} : pc = IF said = None THEN "describe" ELSE "record"
    OBVIOUS
  <2>6. PICK k \in PaneCalls : k = [Panes!NoCall EXCEPT !.op = "report", !.on = p, !.conversation = said, !.pc = pc]
    BY DEF Panes!NoCall, PaneCalls, PaneStages, Panes!Ops
  <2>7. k.op = "report" /\ k.pc = pc /\ k.on = p /\ k.answer = None /\ k.conversation = said
    BY <2>6 DEF Panes!NoCall
  <2>3. session[p].state # "none"
    BY <2>1, DoorKnows
  <2>4. Shape(k)
    BY <2>7 DEF Shape
  <2>5. Fitting(c, k)
    BY <2>2, <2>3, <2>7 DEF Fitting
  <2>. QED
    BY <1>5, <2>1, <2>2, <2>6, <2>7, <2>4, <2>5, CallArrives DEF Panes!Report, Panes!historyVars
<1>6. CASE Panes!Restart(c)
  <2>0. (CHOOSE want \in Panes!Agent : TRUE) \in Panes!Agent
    <3>1. [kind |-> "agent", name |-> None, args |-> None] \in Panes!Agent
      BY DEF Panes!Agent, Panes!Wanted
    <3>. QED
      BY <3>1
  <2>1. PICK p \in Request, want \in Panes!Agent :
          /\ Panes!Known(p) /\ Panes!Arrives(c)
          /\ call' = [call EXCEPT ![c] = [Panes!NoCall EXCEPT !.op = "restart", !.pc = "stop", !.on = p,
                                            !.want = want, !.conversation = mirror[p].conversation]]
    BY <1>6, <2>0 DEF Panes!Restart
  <2>6. PICK said \in Conversation \cup {None} : said = mirror[p].conversation
    BY DEF PanesInv, PaneTypes, PaneRecords
  <2>2. PICK k \in PaneCalls :
          k = [Panes!NoCall EXCEPT !.op = "restart", !.pc = "stop", !.on = p, !.want = want, !.conversation = said]
    BY DEF Panes!Want, Panes!NoCall, PaneCalls, PaneStages, Panes!Ops
  <2>7. k.op = "restart" /\ k.pc = "stop" /\ k.on = p /\ k.answer = None
    BY <2>2 DEF Panes!NoCall
  <2>3. session[p].state # "none" /\ session[c].state = "none"
    BY <2>1, DoorKnows DEF PanesInv, Born, Panes!Arrives
  <2>4. Shape(k)
    BY <2>7 DEF Shape
  <2>5. Fitting(c, k)
    BY <2>3, <2>7 DEF Fitting
  <2>. QED
    BY <1>6, <2>1, <2>2, <2>6, <2>7, <2>4, <2>5, CallArrives DEF Panes!Restart, Panes!historyVars
<1>. QED
  BY <1>1, <1>2, <1>3, <1>4, <1>5, <1>6

\* The door takes a record in: what it is behind is still on its way.
LEMMA TakeKeeps ==
  ASSUME PanesInv, NEW p \in Request, NEW r \in PaneRecords, Genuine(p, r), Panes!Take(p, r),
         session' = session, gate' = gate,
         \A s : s # Panes!Said(p, r) /\ InFlight(s) => InFlight(s)'
  PROVE  mirror' \in [Request -> PaneRecords] /\ MirrorTrue' /\ Heard'
<1>1. /\ mirror' = [mirror EXCEPT ![p] = r]
      /\ overtaken' = IF r.version < mirror[p].version THEN overtaken \cup {p} ELSE overtaken
  BY DEF Panes!Take
<1>2. mirror' \in [Request -> PaneRecords] /\ mirror'[p] = r /\ \A q \in Request : q # p => mirror'[q] = mirror[q]
  BY <1>1 DEF PanesInv, PaneTypes
<1>3. MirrorTrue'
  BY <1>2 DEF PanesInv, MirrorTrue, Genuine
<1>4. ASSUME NEW q \in Request, q \notin overtaken', q # p PROVE Agrees(q)'
  <2>1. Agrees(q)
    BY <1>1, <1>4 DEF PanesInv, Heard
  <2>2. Panes!Said(q, session[q]) # Panes!Said(p, r)
    BY <1>4 DEF Panes!Said
  <2>. QED
    BY <1>2, <1>4, <2>1, <2>2 DEF Agrees, Panes!Said
<1>5. ASSUME p \notin overtaken', r # session[p] PROVE Agrees(p)'
  <2>1. p \notin overtaken /\ ~(r.version < mirror[p].version)
    BY <1>1, <1>5
  <2>2. r.version \in Nat /\ mirror[p].version \in Nat /\ session[p].version \in Nat
    BY DEF PanesInv, PaneTypes, PaneRecords
  <2>3. r.version < session[p].version
    BY <1>5, <2>2 DEF Genuine
  <2>4. mirror[p] # session[p]
    BY <2>1, <2>2, <2>3
  <2>5. Agrees(p)
    BY <2>1 DEF PanesInv, Heard
  <2>6. Panes!Said(p, session[p]) # Panes!Said(p, r)
    BY <1>5 DEF Panes!Said
  <2>. QED
    BY <2>4, <2>5, <2>6 DEF Agrees, Panes!Said
<1>6. r = session[p] => Agrees(p)'
  BY <1>2 DEF Agrees
<1>7. Heard'
  BY <1>4, <1>5, <1>6 DEF Heard
<1>. QED
  BY <1>2, <1>3, <1>7

LEMMA StartedPanes ==
  ASSUME PanesInv, NEW c \in Request, Panes!Started(c)
  PROVE  PanesInv'
<1>1. /\ call[c].pc = "spawn" /\ call[c].answer \notin {None, Failed} /\ Panes!Take(c, call[c].answer)
      /\ call' = [call EXCEPT ![c].pc = "claim"]
      /\ UNCHANGED <<session, gate, serving, ended, wire, known, typed>>
  BY DEF Panes!Started, Panes!Becomes
<1>2. call[c] \in PaneCalls /\ Shape(call[c]) /\ Fitting(c, call[c]) /\ Answers(c, call[c].answer)
  BY <1>1 DEF PanesInv, PaneTypes, CallsFit, AnswersTrue
<1>3. PICK r \in PaneRecords : r = call[c].answer
  BY <1>1, <1>2 DEF PaneCalls
<1>4. Genuine(c, r) /\ Panes!Take(c, r)
  BY <1>1, <1>2, <1>3 DEF Answers
<1>5. \A s : InFlight(s) => InFlight(s)'
  BY <1>1 DEF InFlight
<1>6. mirror' \in [Request -> PaneRecords] /\ MirrorTrue' /\ Heard'
  BY <1>1, <1>4, <1>5, TakeKeeps
<1>7. PICK k \in PaneCalls : k = [call[c] EXCEPT !.pc = "claim"]
  BY <1>2 DEF PaneCalls, PaneStages
<1>8. call' = [call EXCEPT ![c] = k] /\ k.op = call[c].op /\ k.pc = "claim" /\ k.on = call[c].on
  BY <1>1, <1>2, <1>7 DEF PanesInv, PaneTypes, PaneCalls
<1>9. Shape(k)
  BY <1>1, <1>2, <1>8 DEF Shape
<1>10. Fitting(c, k)'
  BY <1>1, <1>2, <1>8 DEF Fitting, Stopped
<1>11. ~Waits(c) /\ gate \subseteq Request
  BY <1>1 DEF Waits, PanesInv, PaneTypes
<1>12. session[c].state # "none" => k.op \in {"launch", "restart"}
  BY <1>8 DEF PanesInv, Born
<1>13. /\ call' \in [Request -> PaneCalls] /\ PanesTrue' /\ SayingTrue' /\ EndsTrue' /\ WireTrue' /\ CallsFit'
       /\ Born' /\ OneServed' /\ OneReply' /\ AnswersTrue' /\ RepliesTrue' /\ ServedTrue'
  BY <1>1, <1>8, <1>9, <1>10, <1>11, <1>12, CallMoves
<1>14. PaneTypes'
  BY <1>1, <1>6, <1>13 DEF PanesInv, PaneTypes
<1>. QED
  BY <1>1, <1>6, <1>13, <1>14 DEF PanesInv

LEMMA AnsweredPanes ==
  ASSUME PanesInv, NEW c \in Request, Panes!Answered(c)
  PROVE  PanesInv'
<1>1. /\ call[c].pc \in {"input", "stop", "describe"} /\ call[c].answer # None /\ call[c].op # "none" /\ ~Waits(c)
      /\ UNCHANGED <<session, gate, serving, ended, wire, mirror, known, typed, overtaken>>
  BY DEF Panes!Answered, Panes!historyVars, Waits, PanesInv, CallsFit, Shape
<1>2. CASE call[c].op = "restart" /\ call[c].answer # Failed
  <2>1. call' = [call EXCEPT ![c].pc = "look", ![c].answer = None]
    BY <1>2 DEF Panes!Answered
  <2>2. call[c] \in PaneCalls /\ Shape(call[c]) /\ Fitting(c, call[c]) /\ Answers(c, call[c].answer)
    BY <1>1 DEF PanesInv, PaneTypes, CallsFit, AnswersTrue
  <2>3. call[c].pc = "stop" /\ Stopped(call[c].on)
    BY <1>1, <1>2, <2>2 DEF Shape, Answers
  <2>4. PICK k \in PaneCalls : k = [[call[c] EXCEPT !.pc = "look"] EXCEPT !.answer = None]
    BY <2>2 DEF PaneCalls, PaneStages
  <2>5. call' = [call EXCEPT ![c] = k]
    BY <2>1, <2>4 DEF PanesInv, PaneTypes
  <2>6. k.op = "restart" /\ k.pc = "look" /\ k.answer = None /\ k.on = call[c].on
    BY <1>2, <2>2, <2>4 DEF PaneCalls
  <2>7. Shape(k)
    BY <1>2, <2>2, <2>6 DEF Shape
  <2>8. Fitting(c, k)'
    BY <1>1, <1>2, <2>2, <2>3, <2>6 DEF Fitting, Stopped
  <2>9. session[c].state = "none"
    BY <2>3 DEF PanesInv, Born
  <2>10. gate \subseteq Request
    BY DEF PanesInv, PaneTypes
  <2>. QED
    BY <1>1, <2>5, <2>6, <2>7, <2>8, <2>9, <2>10, CallSteps
<1>3. CASE ~(call[c].op = "restart" /\ call[c].answer # Failed)
  <2>1. call' = [call EXCEPT ![c] = Panes!Over(c)]
    BY <1>3 DEF Panes!Answered
  <2>. QED
    BY <1>1, <2>1, CallOver
<1>. QED
  BY <1>2, <1>3

LEMMA DoorPanes ==
  ASSUME PanesInv, NEW c \in Request, Panes!DoorStep(c)
  PROVE  PanesInv'
<1>. call[c] \in PaneCalls /\ Shape(call[c]) /\ Fitting(c, call[c])
  BY DEF PanesInv, PaneTypes, CallsFit
<1>1. ASSUME call[c].pc \in {"look", "claim", "write", "record"} \/ call[c].answer = Failed
      PROVE  call[c].op # "none" /\ ~Waits(c)
  BY <1>1, PaneMarks DEF Shape, Waits
<1>2. CASE Panes!LookFound(c) \/ Panes!LookFails(c) \/ Panes!Claim(c) \/ Panes!NotStarted(c)
  <2>1. /\ call[c].op # "none" /\ ~Waits(c) /\ call' = [call EXCEPT ![c] = Panes!Over(c)]
        /\ UNCHANGED <<session, gate, serving, ended, wire, mirror, known, typed, overtaken>>
    BY <1>1, <1>2 DEF Panes!LookFound, Panes!LookFails, Panes!Claim, Panes!NotStarted, Panes!historyVars
  <2>. QED
    BY <2>1, CallOver
<1>3. CASE Panes!LookNew(c)
  <2>1. /\ call[c].pc = "look" /\ Panes!Becomes(c, "spawn")
        /\ known' = IF call[c].conversation = None THEN known ELSE known \cup {call[c].conversation}
        /\ UNCHANGED <<session, gate, serving, ended, wire, mirror, typed, overtaken>>
    BY <1>3 DEF Panes!LookNew, Panes!historyVars
  <2>2. session[c].state = "none" /\ call[c].answer = None
    BY <2>1 DEF PanesInv, Born, Shape
  <2>3. known \subseteq known' /\ call[c].conversation \in known' \cup {None} /\ gate \subseteq Request
    BY <2>1 DEF PanesInv, PaneTypes
  <2>. QED
    BY <2>1, <2>2, <2>3, CallBecomes DEF PaneStages
<1>4. CASE Panes!WriteGate(c)
  <2>1. /\ call[c].pc = "write" /\ UNCHANGED <<session, serving, ended, wire, mirror, known, typed, overtaken>>
        /\ \/ gate' = gate \cup {call[c].on} /\ Panes!Becomes(c, "describe")
           \/ gate' = gate /\ call' = [call EXCEPT ![c] = Panes!Over(c)]
    BY <1>4 DEF Panes!WriteGate, Panes!historyVars
  <2>2. session[c].state = "none" /\ call[c].answer = None /\ call[c].on \in Request /\ call[c].conversation = None
    BY <2>1 DEF PanesInv, Born, Shape
  <2>3. CASE gate' = gate \cup {call[c].on} /\ Panes!Becomes(c, "describe")
    <3>1. gate \subseteq gate' /\ gate' \subseteq Request /\ call[c].on \in gate'
      BY <2>2, <2>3 DEF PanesInv, PaneTypes
    <3>. QED
      BY <2>1, <2>2, <2>3, <3>1, CallBecomes DEF PaneStages
  <2>4. CASE gate' = gate /\ call' = [call EXCEPT ![c] = Panes!Over(c)]
    BY <1>1, <2>1, <2>4, CallOver
  <2>. QED
    BY <2>1, <2>3, <2>4
<1>5. CASE Panes!Record(c)
  <2>1. /\ call[c].pc = "record" /\ UNCHANGED <<session, gate, serving, ended, wire, mirror, typed, overtaken>>
        /\ \/ known' = known \cup {call[c].conversation} /\ Panes!Becomes(c, "describe")
           \/ known' = known /\ call' = [call EXCEPT ![c] = Panes!Over(c)]
    BY <1>5 DEF Panes!Record, Panes!historyVars
  <2>2. session[c].state = "none" /\ call[c].answer = None /\ call[c].op = "report" /\ gate \subseteq Request
    BY <2>1 DEF PanesInv, PaneTypes, Born, Shape
  <2>3. CASE known' = known \cup {call[c].conversation} /\ Panes!Becomes(c, "describe")
    <3>1. known \subseteq known' /\ call[c].conversation \in known'
      BY <2>3
    <3>. QED
      BY <2>1, <2>2, <2>3, <3>1, CallBecomes DEF PaneStages
  <2>4. CASE known' = known /\ call' = [call EXCEPT ![c] = Panes!Over(c)]
    BY <1>1, <2>1, <2>4, CallOver
  <2>. QED
    BY <2>1, <2>3, <2>4
<1>. QED
  BY <1>2, <1>3, <1>4, <1>5, StartedPanes, AnsweredPanes DEF Panes!DoorStep

\* The service takes a pane's next record.
LEMMA SessionMoves ==
  ASSUME PanesInv, NEW p \in Request, NEW r \in PaneRecords, session' = [session EXCEPT ![p] = r],
         UNCHANGED <<call, gate, wire, mirror, known>>,
         r.state # "none", r.gated /\ r.released => p \in gate, r.conversation \in known \cup {None},
         \/ session[p].state = "none" /\ (call[p].op = "restart" => Stopped(call[p].on))
         \/ /\ session[p].state # "none" /\ r.version = session[p].version + 1 /\ r.gated = session[p].gated
            /\ Stopped(p) => r.state \in {"stopping", "exited"}
  PROVE  /\ session' \in [Request -> PaneRecords] /\ PanesTrue' /\ MirrorTrue' /\ WireTrue' /\ CallsFit'
         /\ AnswersTrue' /\ RepliesTrue'
         /\ \A q \in Request, x \in PaneRecords : Genuine(q, x) => Genuine(q, x)'
         /\ Genuine(p, r)' /\ \A q \in Request : Stopped(q) => Stopped(q)'
         /\ session'[p] = r /\ \A q \in Request : q # p => session'[q] = session[q]
<1>1. /\ session' \in [Request -> PaneRecords] /\ session'[p] = r
      /\ \A q \in Request : q # p => session'[q] = session[q]
  BY DEF PanesInv, PaneTypes
<1>2. ASSUME NEW q \in Request, NEW x \in PaneRecords, Genuine(q, x) PROVE Genuine(q, x)'
  <2>1. CASE q # p
    BY <1>1, <1>2, <2>1 DEF Genuine
  <2>2. CASE q = p
    <3>1. /\ x.version \in Nat /\ session[p].version \in Nat
          /\ session[p].state # "none" /\ x.version <= session[p].version /\ x.gated = session[p].gated
      BY <1>2, <2>2 DEF Genuine, PanesInv, PaneTypes, PaneRecords
    <3>2. r.version = session[p].version + 1 /\ r.gated = session[p].gated
      BY <3>1
    <3>3. x.version <= r.version /\ x.version # r.version
      BY <3>1, <3>2
    <3>. QED
      BY <1>1, <1>2, <2>2, <3>1, <3>2, <3>3 DEF Genuine
  <2>. QED
    BY <2>1, <2>2
<1>3. Genuine(p, r)'
  BY <1>1 DEF Genuine, PaneRecords
<1>4. ASSUME NEW q \in Request, Stopped(q) PROVE Stopped(q)'
  BY <1>1, <1>4 DEF Stopped
<1>5. \A q \in Request : session[q].state # "none" => session'[q].state # "none" /\ session'[q].gated = session[q].gated
  BY <1>1
<1>6. PanesTrue'
  BY <1>1 DEF PanesInv, PanesTrue
<1>7. MirrorTrue'
  <2>1. ASSUME NEW q \in Request, NEW x \in PaneRecords, x = mirror[q], x.state # "none" PROVE Genuine(q, mirror[q])'
    <3>1. Genuine(q, x)'
      BY <1>2, <2>1 DEF PanesInv, MirrorTrue
    <3>. QED
      BY <2>1, <3>1 DEF Genuine
  <2>2. \A q \in Request : mirror[q] \in PaneRecords
    BY DEF PanesInv, PaneTypes
  <2>. QED
    BY <2>1, <2>2 DEF MirrorTrue
<1>8. WireTrue'
  <2>1. ASSUME NEW i \in DOMAIN wire, wire[i] \in Sayings PROVE Genuine(wire[i].pane, wire[i].record)'
    <3>1. PICK q \in Request, x \in PaneRecords : q = wire[i].pane /\ x = wire[i].record
      BY <2>1, SayingIs
    <3>2. Genuine(q, x)
      BY <2>1, <3>1 DEF PanesInv, WireTrue
    <3>3. Genuine(q, x)'
      BY <1>2, <3>2
    <3>. QED
      BY <3>1, <3>3 DEF Genuine
  <2>. QED
    BY <2>1 DEF WireTrue
<1>9. CallsFit'
  <2>1. ASSUME NEW c \in Request PROVE Fitting(c, call[c])'
    <3>1. Shape(call[c]) /\ Fitting(c, call[c])
      BY DEF PanesInv, CallsFit
    <3>2. call[c].op \notin {"none", "launch"} => call[c].on \in Request
      BY <3>1 DEF Shape
    <3>3. call[c].op \notin {"none", "launch"} => session'[call[c].on].state # "none"
      BY <1>5, <3>1, <3>2 DEF Fitting
    <3>4. call[c].pc = "input" /\ session'[call[c].on].gated => call[c].on \in gate
      BY <1>5, <3>1, <3>2 DEF Fitting, Shape
    <3>5. CASE c = p /\ session[p].state = "none"
      BY <1>4, <3>1, <3>2, <3>3, <3>4, <3>5 DEF Fitting
    <3>6. CASE ~(c = p /\ session[p].state = "none")
      <4>1. session'[c].state # "none" => session[c].state # "none"
        BY <1>1, <3>6
      <4>. QED
        BY <1>4, <3>1, <3>2, <3>3, <3>4, <4>1 DEF Fitting
    <3>. QED
      BY <3>5, <3>6
  <2>. QED
    BY <2>1 DEF CallsFit, Shape, PanesInv
<1>10. ASSUME NEW c \in Request, NEW a \in PaneRecords \cup {Failed}, Answers(c, a) PROVE Answers(c, a)'
  <2>1. call[c].pc = "stop" => call[c].on \in Request
    BY DEF PanesInv, CallsFit, Shape
  <2>. QED
    BY <1>2, <1>4, <1>10, <2>1 DEF Answers
<1>11. AnswersTrue'
  <2>1. ASSUME NEW c \in Request, call[c].answer # None PROVE Answers(c, call[c].answer)'
    <3>1. PICK a \in PaneRecords \cup {Failed} : a = call[c].answer
      BY <2>1 DEF PanesInv, PaneTypes, PaneCalls
    <3>2. Answers(c, a)
      BY <2>1, <3>1 DEF PanesInv, AnswersTrue
    <3>3. Answers(c, a)'
      BY <1>10, <3>2
    <3>. QED
      BY <3>1, <3>3 DEF Answers, Genuine
  <2>. QED
    BY <2>1 DEF AnswersTrue
<1>12. RepliesTrue'
  <2>1. ASSUME NEW i \in DOMAIN wire, wire[i] \in Replies PROVE Answers(wire[i].call, wire[i].answer)'
    <3>1. PICK c \in Request, a \in PaneRecords \cup {Failed} : c = wire[i].call /\ a = wire[i].answer
      BY <2>1, ReplyIs
    <3>2. Answers(c, a)
      BY <2>1, <3>1 DEF PanesInv, RepliesTrue
    <3>3. Answers(c, a)'
      BY <1>10, <3>2
    <3>. QED
      BY <3>1, <3>3 DEF Answers, Genuine
  <2>. QED
    BY <2>1 DEF RepliesTrue
<1>. QED
  BY <1>1, <1>2, <1>3, <1>4, <1>6, <1>7, <1>8, <1>9, <1>11, <1>12

\* The service takes up the request of c: what it says of a pane, and what it will answer.
LEMMA Serves ==
  ASSUME PanesInv, NEW c \in Request, serving = Panes!Nothing, Panes!Asking(c),
         NEW said \in Sayings \cup {None}, NEW a \in PaneRecords \cup {None, Failed}, Panes!Serve(c, said, a),
         UNCHANGED <<call, ended, wire>>
  PROVE  /\ serving' \in Servings /\ serving'.call = c /\ serving'.said = said /\ serving'.answer = a
         /\ OneServed' /\ OneReply'
         /\ \A s \in Sayings : InFlight(s) => InFlight(s)'
         /\ said # None => InFlight(said)'
         /\ \A d \in Request : Asked(d) => Asked(d)'
<1>1. /\ serving' = [call |-> c, said |-> said, answer |-> a] /\ serving.call = None /\ serving.said = None
  BY DEF Panes!Serve, Panes!Nothing
<1>2. serving' \in Servings /\ serving'.call = c /\ serving'.said = said /\ serving'.answer = a
  BY <1>1 DEF Servings
<1>3. Waits(c) /\ ~Replied(c)
  BY ReplyIs DEF Panes!Asking, Panes!Replied, Waits, Replied
<1>4. OneServed'
  BY <1>2, <1>3 DEF OneServed, Waits
<1>5. OneReply'
  BY <1>2, <1>3 DEF PanesInv, OneReply, Waits, Replied
<1>6. \A s \in Sayings : InFlight(s) => InFlight(s)'
  BY <1>1, PaneMarks DEF InFlight
<1>7. said # None => InFlight(said)'
  BY <1>2 DEF InFlight
<1>8. \A d \in Request : Asked(d) => Asked(d)'
  BY <1>1, PaneMarks DEF Asked, Replied
<1>. QED
  BY <1>2, <1>4, <1>5, <1>6, <1>7, <1>8

LEMMA ServesStill ==
  ASSUME PanesInv, NEW c \in Request, serving = Panes!Nothing, Panes!Asking(c),
         NEW a \in PaneRecords \cup {Failed}, Panes!Serve(c, None, a), Answers(c, a),
         UNCHANGED <<call, session, gate, ended, wire, mirror, known, typed, overtaken>>
  PROVE  PanesInv'
<1>1. /\ serving' \in Servings /\ serving'.call = c /\ serving'.said = None /\ serving'.answer = a
      /\ OneServed' /\ OneReply'
      /\ \A s \in Sayings : InFlight(s) => InFlight(s)'
      /\ \A d \in Request : Asked(d) => Asked(d)'
  BY Serves
<1>2. PaneTypes'
  BY <1>1 DEF PanesInv, PaneTypes
<1>3. PanesTrue' /\ MirrorTrue' /\ EndsTrue' /\ WireTrue' /\ CallsFit' /\ AnswersTrue' /\ RepliesTrue'
  BY DEF PanesInv, PanesTrue, MirrorTrue, EndsTrue, WireTrue, CallsFit, AnswersTrue, RepliesTrue, Genuine, Fitting,
         Stopped, Answers
<1>4. SayingTrue'
  BY <1>1 DEF SayingTrue
<1>5. Born'
  BY <1>1 DEF PanesInv, Born
<1>6. ServedTrue'
  <2>1. Answers(c, a)'
    BY DEF Answers, Genuine, Stopped
  <2>2. a # None
    BY PaneMarks
  <2>. QED
    BY <1>1, <2>1, <2>2, PaneMarks DEF ServedTrue, Answers
<1>7. Heard'
  <2>1. \A p \in Request : Panes!Said(p, session[p]) \in Sayings
    BY DEF Panes!Said, Sayings, PanesInv, PaneTypes
  <2>. QED
    BY <1>1, <2>1 DEF PanesInv, Heard, Agrees
<1>8. typed' = {}
  BY DEF PanesInv
<1>. QED
  BY <1>1, <1>2, <1>3, <1>4, <1>5, <1>6, <1>7, <1>8 DEF PanesInv

\* What was agreed or on its way still is, and the new record of p is on its way, or p is stopping.
LEMMA HeardMoves ==
  ASSUME PanesInv, NEW p \in Request, NEW r \in PaneRecords,
         session'[p] = r, \A q \in Request : q # p => session'[q] = session[q],
         mirror' = mirror, overtaken' = overtaken,
         \A s \in Sayings : InFlight(s) => InFlight(s)',
         r.state = "stopping" \/ InFlight(Panes!Said(p, r))'
  PROVE  Heard'
<1>1. \A q \in Request : Panes!Said(q, session[q]) \in Sayings
  BY DEF Panes!Said, Sayings, PanesInv, PaneTypes
<1>2. ASSUME NEW q \in Request, q \notin overtaken, q # p PROVE Agrees(q)'
  <2>1. Agrees(q)
    BY <1>2 DEF PanesInv, Heard
  <2>2. PICK s \in Sayings : s = Panes!Said(q, session[q])
    BY <1>1
  <2>3. session'[q] = session[q] /\ (InFlight(s) => InFlight(s)')
    BY <1>2
  <2>4. Panes!Said(q, session'[q]) = s
    BY <2>2, <2>3
  <2>. QED
    BY <2>1, <2>2, <2>3, <2>4 DEF Agrees, InFlight, Panes!Said
<1>3. Agrees(p)'
  BY DEF Agrees, InFlight, Panes!Said
<1>. QED
  BY <1>2, <1>3 DEF Heard

LEMMA ServesMoved ==
  ASSUME PanesInv, NEW c \in Request, serving = Panes!Nothing, Panes!Asking(c),
         NEW p \in Request, NEW r \in PaneRecords, session' = [session EXCEPT ![p] = r],
         r.state # "none", r.gated /\ r.released => p \in gate, r.conversation \in known \cup {None},
         \/ session[p].state = "none" /\ p = c /\ call[c].pc = "spawn"
         \/ /\ session[p].state # "none" /\ r.version = session[p].version + 1 /\ r.gated = session[p].gated
            /\ Stopped(p) => r.state \in {"stopping", "exited"},
         NEW said \in {None, Panes!Said(p, r)}, said = None => r.state = "stopping",
         NEW a \in PaneRecords \cup {None, Failed}, Panes!Serve(c, said, a),
         call[c].pc \in {"spawn", "describe"} => a = r,
         call[c].pc = "stop" => p = call[c].on /\ r.state = "stopping",
         a = None => call[c].pc = "stop",
         call[c].pc = "spawn" => p = c,
         UNCHANGED <<call, gate, ended, wire, mirror, known, typed, overtaken>>
  PROVE  PanesInv'
<1>0. Panes!Said(p, r) \in Sayings
  BY DEF Panes!Said, Sayings
<1>1. /\ serving' \in Servings /\ serving'.call = c /\ serving'.said = said /\ serving'.answer = a
      /\ OneServed' /\ OneReply'
      /\ \A s \in Sayings : InFlight(s) => InFlight(s)'
      /\ said # None => InFlight(said)'
      /\ \A d \in Request : Asked(d) => Asked(d)'
  BY <1>0, Serves
<1>2. call[p].op = "restart" /\ session[p].state = "none" => Stopped(call[p].on)
  BY DEF PanesInv, CallsFit, Fitting
<1>3. /\ session' \in [Request -> PaneRecords] /\ PanesTrue' /\ MirrorTrue' /\ WireTrue' /\ CallsFit'
      /\ AnswersTrue' /\ RepliesTrue'
      /\ \A q \in Request, x \in PaneRecords : Genuine(q, x) => Genuine(q, x)'
      /\ Genuine(p, r)' /\ \A q \in Request : Stopped(q) => Stopped(q)'
      /\ session'[p] = r /\ \A q \in Request : q # p => session'[q] = session[q]
  BY <1>2, SessionMoves
<1>4. PaneTypes'
  BY <1>1, <1>3 DEF PanesInv, PaneTypes
<1>5. EndsTrue'
  <2>1. ASSUME NEW s \in ended PROVE Genuine(s.pane, s.record)'
    <3>1. s \in Sayings /\ Genuine(s.pane, s.record)
      BY DEF PanesInv, PaneTypes, EndsTrue
    <3>. QED
      BY <1>3, <3>1, SayingIs
  <2>. QED
    BY <2>1 DEF EndsTrue
<1>6. SayingTrue'
  <2>1. said # None => said.pane = p /\ said.record = r
    BY DEF Panes!Said
  <2>. QED
    BY <1>1, <1>3, <2>1 DEF SayingTrue, Genuine
<1>7. Born'
  <2>1. ASSUME NEW d \in Request, session'[d].state # "none"
        PROVE  /\ call[d].op \in {"launch", "restart"}
               /\ call[d].pc \in {"claim", "done"} \/ (call[d].pc = "spawn" /\ Asked(d)')
    <3>1. CASE session[d].state # "none"
      BY <1>1, <3>1 DEF PanesInv, Born
    <3>2. CASE session[d].state = "none"
      <4>1. d = c /\ call[c].pc = "spawn"
        BY <1>3, <2>1, <3>2
      <4>2. Shape(call[c])
        BY DEF PanesInv, CallsFit
      <4>. QED
        BY <1>1, <4>1, <4>2 DEF Shape, Asked
    <3>. QED
      BY <3>1, <3>2
  <2>. QED
    BY <2>1 DEF Born
<1>8. ServedTrue'
  <2>1. call[c].pc = "stop" => Stopped(call[c].on)'
    BY <1>3 DEF Stopped
  <2>2. call[c].pc = "spawn" => Genuine(c, a)'
    BY <1>3 DEF Genuine
  <2>3. Answers(c, a)'
    BY <2>1, <2>2 DEF Answers, Stopped
  <2>. QED
    BY <1>1, <2>3, PaneMarks DEF ServedTrue, Answers, Genuine, Stopped
<1>9. Heard'
  <2>1. r.state = "stopping" \/ InFlight(Panes!Said(p, r))'
    BY <1>1 DEF InFlight
  <2>. QED
    BY <1>1, <1>3, <2>1, HeardMoves
<1>10. typed' = {}
  BY DEF PanesInv
<1>. QED
  BY <1>1, <1>3, <1>4, <1>5, <1>6, <1>7, <1>8, <1>9, <1>10 DEF PanesInv

LEMMA FirstRecord ==
  ASSUME NEW want \in Panes!Want \cup {None}, NEW said \in Conversation \cup {None}
  PROVE  [state |-> "running", version |-> 1, want |-> want, gated |-> want \in Panes!Handoff,
          released |-> want \notin Panes!Handoff, conversation |-> said] \in PaneRecords
BY DEF PaneRecords

LEMMA SetTwice ==
  ASSUME NEW D, NEW S, NEW f \in [D -> S], NEW p \in D, NEW q, NEW r, r = [q EXCEPT !.version = @ + 1]
  PROVE  [[f EXCEPT ![p] = q] EXCEPT ![p].version = @ + 1] = [f EXCEPT ![p] = r]
OBVIOUS

LEMMA SpawnPanes ==
  ASSUME PanesInv, NEW c \in Request, Panes!Spawn(c)
  PROVE  PanesInv'
<1>1. /\ serving = Panes!Nothing /\ Panes!Asking(c) /\ call[c].pc = "spawn"
      /\ UNCHANGED <<call, gate, ended, wire, mirror, known, typed, overtaken>>
  BY DEF Panes!Spawn, Panes!historyVars
<1>2. CASE session' = session /\ Panes!Serve(c, None, Failed)
  <2>1. Answers(c, Failed)
    BY DEF Answers
  <2>. QED
    BY <1>1, <1>2, <2>1, ServesStill
<1>3. CASE ~(session' = session /\ Panes!Serve(c, None, Failed))
  <2>1. call[c] \in PaneCalls /\ Fitting(c, call[c])
    BY DEF PanesInv, PaneTypes, CallsFit
  <2>7. PICK want \in Panes!Want \cup {None}, said \in Conversation \cup {None} :
          want = call[c].want /\ said = call[c].conversation
    BY <2>1 DEF PaneCalls
  <2>2. PICK r \in PaneRecords :
          r = [state |-> "running", version |-> 1, want |-> want, gated |-> want \in Panes!Handoff,
               released |-> want \notin Panes!Handoff, conversation |-> said]
    BY FirstRecord
  <2>3. session' = [session EXCEPT ![c] = r] /\ Panes!Serve(c, Panes!Said(c, r), r)
    BY <1>3, <2>2, <2>7 DEF Panes!Spawn
  <2>4. session[c].state = "none"
    BY <1>1, ReplyIs, PaneMarks DEF PanesInv, Born, Asked, Replied, Panes!Asking, Panes!Replied, Panes!Nothing
  <2>5. r.state # "none" /\ ~(r.gated /\ r.released) /\ r.conversation \in known \cup {None}
    BY <1>1, <2>1, <2>2, <2>7 DEF Fitting
  <2>6. r \notin {None, Failed} /\ Panes!Said(c, r) # None
    BY PaneMarks DEF Panes!Said, Sayings
  <2>. QED
    BY <1>1, <2>3, <2>4, <2>5, <2>6, ServesMoved
<1>. QED
  BY <1>2, <1>3

LEMMA TypeInPanes ==
  ASSUME PanesInv, NEW c \in Request, Panes!TypeIn(c)
  PROVE  PanesInv'
<1>1. /\ serving = Panes!Nothing /\ Panes!Asking(c) /\ call[c].pc = "input"
      /\ UNCHANGED <<call, session, gate, ended, wire, mirror, known, overtaken>>
  BY DEF Panes!TypeIn
<1>2. Shape(call[c]) /\ Fitting(c, call[c])
  BY DEF PanesInv, CallsFit
<1>3. call[c].on \in Request
  BY <1>1, <1>2 DEF Shape
<1>4. typed' = typed
  BY <1>1, <1>2 DEF Panes!TypeIn, Fitting
<1>5. PICK a \in PaneRecords \cup {Failed} : Panes!Serve(c, None, a)
  BY <1>3 DEF Panes!TypeIn, PanesInv, PaneTypes
<1>6. Answers(c, a)
  BY <1>1 DEF Answers
<1>. QED
  BY <1>1, <1>4, <1>5, <1>6, ServesStill

LEMMA DescribePanes ==
  ASSUME PanesInv, NEW c \in Request, Panes!Describe(c)
  PROVE  PanesInv'
<1>1. /\ serving = Panes!Nothing /\ Panes!Asking(c) /\ call[c].pc = "describe"
      /\ UNCHANGED <<call, gate, ended, wire, mirror, known, typed, overtaken>>
  BY DEF Panes!Describe, Panes!historyVars
<1>2. call[c] \in PaneCalls /\ Shape(call[c]) /\ Fitting(c, call[c])
  BY DEF PanesInv, PaneTypes, CallsFit
<1>3. PICK p \in Request : p = call[c].on
  BY <1>1, <1>2 DEF Shape
<1>4. session[p] \in PaneRecords /\ session[p].state # "none"
  BY <1>1, <1>2, <1>3 DEF PanesInv, PaneTypes, Fitting, Shape
<1>5. session[p].version + 1 \in Nat /\ call[c].conversation \in Conversation \cup {None}
  BY <1>2, <1>4 DEF PaneRecords, PaneCalls
<1>6. PICK r \in PaneRecords :
        /\ r = IF call[c].op = "present"
               THEN [session[p] EXCEPT !.version = @ + 1, !.released = TRUE]
               ELSE [session[p] EXCEPT !.version = @ + 1, !.conversation = call[c].conversation]
  BY <1>4, <1>5 DEF PaneRecords
<1>7. session' = [session EXCEPT ![p] = r] /\ Panes!Serve(c, Panes!Said(p, r), r)
  BY <1>3, <1>6 DEF Panes!Describe
<1>8. r.state = session[p].state /\ r.version = session[p].version + 1 /\ r.gated = session[p].gated
  BY <1>4, <1>6 DEF PaneRecords
<1>9. r.gated /\ r.released => p \in gate
  <2>1. CASE call[c].op = "present"
    BY <1>1, <1>2, <1>3, <2>1 DEF Fitting
  <2>2. CASE call[c].op # "present"
    <3>1. r.gated = session[p].gated /\ r.released = session[p].released
      BY <1>4, <1>6, <2>2 DEF PaneRecords
    <3>. QED
      BY <3>1 DEF PanesInv, PanesTrue
  <2>. QED
    BY <2>1, <2>2
<1>10. r.conversation \in known \cup {None}
  <2>1. CASE call[c].op = "present"
    <3>1. r.conversation = session[p].conversation
      BY <1>4, <1>6, <2>1 DEF PaneRecords
    <3>. QED
      BY <3>1 DEF PanesInv, PanesTrue
  <2>2. CASE call[c].op # "present"
    <3>1. r.conversation = call[c].conversation
      BY <1>4, <1>6, <2>2 DEF PaneRecords
    <3>. QED
      BY <1>1, <1>2, <3>1 DEF Fitting
  <2>. QED
    BY <2>1, <2>2
<1>11. r \notin {None, Failed} /\ Panes!Said(p, r) # None
  BY PaneMarks DEF Panes!Said, Sayings
<1>12. Stopped(p) => r.state \in {"stopping", "exited"}
  BY <1>8 DEF Stopped
<1>. QED
  BY <1>1, <1>4, <1>7, <1>8, <1>9, <1>10, <1>11, <1>12, ServesMoved

LEMMA StopPanes ==
  ASSUME PanesInv, NEW c \in Request, Panes!StopPane(c)
  PROVE  PanesInv'
<1>1. /\ serving = Panes!Nothing /\ Panes!Asking(c) /\ call[c].pc = "stop"
      /\ UNCHANGED <<call, gate, ended, wire, mirror, known, typed, overtaken>>
  BY DEF Panes!StopPane, Panes!historyVars
<1>2. Shape(call[c]) /\ Fitting(c, call[c])
  BY DEF PanesInv, CallsFit
<1>3. PICK p \in Request : p = call[c].on
  BY <1>1, <1>2 DEF Shape
<1>4. session[p] \in PaneRecords /\ session[p].state # "none"
  BY <1>1, <1>2, <1>3 DEF PanesInv, PaneTypes, Fitting, Shape
<1>5. CASE session[p].state = "exited"
  <2>1. session' = session /\ Panes!Serve(c, None, session[p])
    BY <1>3, <1>5 DEF Panes!StopPane
  <2>2. PICK a \in PaneRecords : a = session[p]
    BY <1>4
  <2>3. Answers(c, a)
    BY <1>1, <1>3, <1>5 DEF Answers, Stopped
  <2>. QED
    BY <1>1, <2>1, <2>2, <2>3, ServesStill
<1>6. CASE session[p].state # "exited"
  <2>5. PICK q \in PaneRecords : q = [session[p] EXCEPT !.state = "stopping"]
    BY <1>4 DEF PaneRecords
  <2>6. /\ q.version = session[p].version /\ q.version + 1 \in Nat /\ q.gated = session[p].gated
        /\ q.state = "stopping" /\ q.released = session[p].released /\ q.conversation = session[p].conversation
    BY <1>4, <2>5 DEF PaneRecords
  <2>1. PICK r \in PaneRecords : r = [q EXCEPT !.version = @ + 1]
    BY <2>6 DEF PaneRecords
  <2>7. session' = [session EXCEPT ![p].state = "stopping", ![p].version = @ + 1]
    BY <1>3, <1>6 DEF Panes!StopPane
  <2>8. session \in [Request -> PaneRecords]
    BY DEF PanesInv, PaneTypes
  <2>9. [session EXCEPT ![p].state = "stopping"] = [session EXCEPT ![p] = q]
    BY <2>5, <2>8
  <2>10. session' = [session EXCEPT ![p] = r]
    <3>1. PICK f \in [Request -> PaneRecords] : f = session
      BY <2>8
    <3>2. [[f EXCEPT ![p] = q] EXCEPT ![p].version = @ + 1] = [f EXCEPT ![p] = r]
      BY <2>1, SetTwice
    <3>3. session' = [[f EXCEPT ![p].state = "stopping"] EXCEPT ![p].version = @ + 1]
      BY <2>7, <3>1
    <3>4. [f EXCEPT ![p].state = "stopping"] = [f EXCEPT ![p] = q]
      BY <2>9, <3>1
    <3>. QED
      BY <3>1, <3>2, <3>3, <3>4
  <2>2. Panes!Serve(c, None, None) \/ Panes!Serve(c, None, Failed)
    BY <1>3, <1>6 DEF Panes!StopPane
  <2>3. /\ r.state = "stopping" /\ r.version = session[p].version + 1 /\ r.gated = session[p].gated
        /\ r.released = session[p].released /\ r.conversation = session[p].conversation
    BY <2>1, <2>6 DEF PaneRecords
  <2>4. (r.gated /\ r.released => p \in gate) /\ r.conversation \in known \cup {None}
    BY <2>3 DEF PanesInv, PanesTrue
  <2>. QED
    BY <1>1, <1>3, <1>4, <2>2, <2>3, <2>4, <2>10, ServesMoved
<1>. QED
  BY <1>5, <1>6

LEMMA WireGrows ==
  ASSUME PanesInv, NEW m \in Sayings \cup Replies, wire' = Append(wire, m)
  PROVE  /\ wire' \in Seq(Sayings \cup Replies)
         /\ \A i \in DOMAIN wire : i \in DOMAIN wire' /\ wire'[i] = wire[i]
         /\ \E k \in DOMAIN wire' : k \notin DOMAIN wire /\ wire'[k] = m /\ \A i \in DOMAIN wire' : i \in DOMAIN wire \/ i = k
<1>1. wire \in Seq(Sayings \cup Replies)
  BY DEF PanesInv, PaneTypes
<1>2. wire' \in Seq(Sayings \cup Replies) /\ Len(wire') = Len(wire) + 1 /\ wire'[Len(wire) + 1] = m
      /\ \A i \in 1 .. Len(wire) : wire'[i] = wire[i]
  BY <1>1, AppendProperties
<1>3. DOMAIN wire = 1 .. Len(wire) /\ DOMAIN wire' = 1 .. Len(wire) + 1 /\ Len(wire) \in Nat
  BY <1>1, <1>2
<1>4. Len(wire) + 1 \in DOMAIN wire' /\ Len(wire) + 1 \notin DOMAIN wire
      /\ \A i \in DOMAIN wire' : i \in DOMAIN wire \/ i = Len(wire) + 1
  BY <1>3
<1>. QED
  BY <1>2, <1>3, <1>4

LEMMA WireShrinks ==
  ASSUME PanesInv, wire # <<>>, wire' = Tail(wire)
  PROVE  /\ wire' \in Seq(Sayings \cup Replies) /\ 1 \in DOMAIN wire /\ Head(wire) = wire[1]
         /\ Head(wire) \in Sayings \cup Replies
         /\ \A i \in DOMAIN wire' : i \in Nat /\ i + 1 \in DOMAIN wire /\ wire'[i] = wire[i + 1] /\ i + 1 # 1
         /\ \A i \in DOMAIN wire : i # 1 => i - 1 \in DOMAIN wire' /\ wire'[i - 1] = wire[i]
<1>1. wire \in Seq(Sayings \cup Replies)
  BY DEF PanesInv, PaneTypes
<1>2. wire' \in Seq(Sayings \cup Replies) /\ Len(wire') = Len(wire) - 1 /\ Len(wire) \in Nat \ {0}
      /\ \A i \in 1 .. Len(wire') : wire'[i] = wire[i + 1]
  BY <1>1, HeadTailProperties
<1>3. DOMAIN wire = 1 .. Len(wire) /\ DOMAIN wire' = 1 .. Len(wire) - 1
  BY <1>1, <1>2
<1>4. \A i \in DOMAIN wire' : i \in Nat /\ i + 1 \in DOMAIN wire /\ wire'[i] = wire[i + 1] /\ i + 1 # 1
  BY <1>2, <1>3
<1>5. ASSUME NEW i \in DOMAIN wire, i # 1 PROVE i - 1 \in DOMAIN wire' /\ wire'[i - 1] = wire[i]
  <2>1. i \in Nat /\ i - 1 \in DOMAIN wire' /\ (i - 1) + 1 = i
    BY <1>2, <1>3, <1>5
  <2>. QED
    BY <1>4, <2>1
<1>6. 1 \in DOMAIN wire /\ Head(wire) = wire[1] /\ Head(wire) \in Sayings \cup Replies
  BY <1>1, <1>2, <1>3
<1>. QED
  BY <1>2, <1>4, <1>5, <1>6

\* An announcement goes onto the socket.
LEMMA SayingSent ==
  ASSUME PanesInv, NEW m \in Sayings, Genuine(m.pane, m.record), wire' = Append(wire, m),
         serving'.call = serving.call, UNCHANGED <<call, session, gate, mirror, known, typed, overtaken>>,
         ended' \subseteq ended, serving' \in Servings,
         serving'.answer = serving.answer, serving'.said = serving.said \/ serving'.said = None,
         \A s \in Sayings : InFlight(s) => s = m \/ serving'.said = s \/ s \in ended' \/ \E i \in DOMAIN wire : wire[i] = s
  PROVE  PanesInv'
<1>1. /\ wire' \in Seq(Sayings \cup Replies)
      /\ \A i \in DOMAIN wire : i \in DOMAIN wire' /\ wire'[i] = wire[i]
  BY WireGrows
<1>2. PICK k \in DOMAIN wire' : wire'[k] = m /\ \A i \in DOMAIN wire' : i \in DOMAIN wire \/ i = k
  BY WireGrows
<1>3. m \notin Replies
  BY SayingIs
<1>4. \A i \in DOMAIN wire' : wire'[i] \in Replies => i \in DOMAIN wire /\ wire[i] = wire'[i]
  BY <1>1, <1>2, <1>3
<1>5. PaneTypes'
  BY <1>1 DEF PanesInv, PaneTypes
<1>6. PanesTrue' /\ MirrorTrue' /\ CallsFit' /\ AnswersTrue'
  BY DEF PanesInv, PanesTrue, MirrorTrue, CallsFit, AnswersTrue, Genuine, Fitting, Stopped, Answers
<1>7. SayingTrue'
  BY DEF PanesInv, SayingTrue, Genuine
<1>8. EndsTrue'
  BY DEF PanesInv, EndsTrue, Genuine
<1>9. WireTrue'
  BY <1>1, <1>2 DEF PanesInv, WireTrue, Genuine
<1>10. \A d \in Request : Asked(d) => Asked(d)'
  BY <1>1 DEF Asked, Replied
<1>11. Born'
  BY <1>10 DEF PanesInv, Born
<1>12. OneServed'
  BY DEF PanesInv, OneServed, Waits
<1>13. OneReply'
  BY <1>1, <1>4 DEF PanesInv, OneReply, Waits
<1>14. RepliesTrue'
  BY <1>4 DEF PanesInv, RepliesTrue, Answers, Genuine, Stopped
<1>15. ServedTrue'
  BY DEF PanesInv, ServedTrue, Answers, Genuine, Stopped
<1>16. \A s \in Sayings : InFlight(s) => InFlight(s)'
  BY <1>1, <1>2 DEF InFlight
<1>17. Heard'
  <2>1. \A p \in Request : Panes!Said(p, session[p]) \in Sayings
    BY DEF Panes!Said, Sayings, PanesInv, PaneTypes
  <2>. QED
    BY <1>16, <2>1 DEF PanesInv, Heard, Agrees
<1>18. typed' = {}
  BY DEF PanesInv
<1>. QED
  BY <1>5, <1>6, <1>7, <1>8, <1>9, <1>11, <1>12, <1>13, <1>14, <1>15, <1>17, <1>18 DEF PanesInv

LEMMA AnnouncePanes ==
  ASSUME PanesInv, Panes!Announce \/ Panes!SayEnded
  PROVE  PanesInv'
<1>1. CASE Panes!Announce
  <2>1. /\ serving.said # None /\ wire' = Append(wire, serving.said) /\ serving' = [serving EXCEPT !.said = None]
        /\ UNCHANGED <<call, session, gate, ended, mirror, known, typed, overtaken>>
    BY <1>1 DEF Panes!Announce, Panes!historyVars
  <2>2. serving \in Servings /\ Genuine(serving.said.pane, serving.said.record)
    BY <2>1 DEF PanesInv, PaneTypes, SayingTrue
  <2>3. PICK m \in Sayings : m = serving.said
    BY <2>1, <2>2 DEF Servings
  <2>4. serving' \in Servings /\ serving'.call = serving.call /\ serving'.answer = serving.answer /\ serving'.said = None
    BY <2>1, <2>2 DEF Servings
  <2>5. \A s \in Sayings : InFlight(s) => s = m \/ serving'.said = s \/ s \in ended' \/ \E i \in DOMAIN wire : wire[i] = s
    BY <2>1, <2>3 DEF InFlight
  <2>. QED
    BY <2>1, <2>2, <2>3, <2>4, <2>5, SayingSent
<1>2. CASE Panes!SayEnded
  <2>1. /\ UNCHANGED <<call, session, gate, serving, mirror, known, typed, overtaken>>
        /\ \E said \in ended : ended' = ended \ {said} /\ wire' = Append(wire, said)
    BY <1>2 DEF Panes!SayEnded, Panes!historyVars
  <2>2. PICK m \in ended : ended' = ended \ {m} /\ wire' = Append(wire, m)
    BY <2>1
  <2>3. m \in Sayings /\ Genuine(m.pane, m.record) /\ serving \in Servings
    BY DEF PanesInv, PaneTypes, EndsTrue
  <2>4. \A s \in Sayings : InFlight(s) => s = m \/ serving'.said = s \/ s \in ended' \/ \E i \in DOMAIN wire : wire[i] = s
    BY <2>1, <2>2 DEF InFlight
  <2>. QED
    BY <2>1, <2>2, <2>3, <2>4, SayingSent
<1>. QED
  BY <1>1, <1>2

\* The pane has ended, and that it has is still to be said.
LEMMA ExitPanes ==
  ASSUME PanesInv, NEW p \in Request, Panes!Exit(p)
  PROVE  PanesInv'
<1>1. session[p] \in PaneRecords /\ session[p].state \in {"running", "stopping"}
  BY DEF Panes!Exit, PanesInv, PaneTypes
<1>2. session[p].version + 1 \in Nat
  BY <1>1 DEF PaneRecords
<1>3. PICK r \in PaneRecords : r = [session[p] EXCEPT !.state = "exited", !.version = @ + 1]
  BY <1>1, <1>2 DEF PaneRecords
<1>4. /\ r.state = "exited" /\ r.version = session[p].version + 1 /\ r.gated = session[p].gated
      /\ r.released = session[p].released /\ r.conversation = session[p].conversation
  BY <1>1, <1>3 DEF PaneRecords
<1>5. /\ session' = [session EXCEPT ![p] = r] /\ ended' = ended \cup {Panes!Said(p, r)}
      /\ UNCHANGED <<call, gate, serving, wire, mirror, known, typed, overtaken>>
  BY <1>3 DEF Panes!Exit, Panes!historyVars
<1>6. (r.gated /\ r.released => p \in gate) /\ r.conversation \in known \cup {None}
  BY <1>4 DEF PanesInv, PanesTrue
<1>7. /\ session' \in [Request -> PaneRecords] /\ PanesTrue' /\ MirrorTrue' /\ WireTrue' /\ CallsFit'
      /\ AnswersTrue' /\ RepliesTrue'
      /\ \A q \in Request, x \in PaneRecords : Genuine(q, x) => Genuine(q, x)'
      /\ Genuine(p, r)' /\ \A q \in Request : Stopped(q) => Stopped(q)'
      /\ session'[p] = r /\ \A q \in Request : q # p => session'[q] = session[q]
  BY <1>1, <1>4, <1>5, <1>6, SessionMoves
<1>8. PaneTypes'
  BY <1>5, <1>7 DEF PanesInv, PaneTypes, Panes!Said, Sayings
<1>9. SayingTrue'
  <2>1. ASSUME serving.said # None PROVE Genuine(serving.said.pane, serving.said.record)'
    <3>1. serving.said \in Sayings /\ Genuine(serving.said.pane, serving.said.record)
      BY <2>1 DEF PanesInv, PaneTypes, SayingTrue, Servings
    <3>2. PICK q \in Request, x \in PaneRecords : q = serving.said.pane /\ x = serving.said.record
      BY <3>1, SayingIs
    <3>3. Genuine(q, x)'
      BY <1>7, <3>1, <3>2
    <3>. QED
      BY <1>5, <3>2, <3>3 DEF Genuine
  <2>. QED
    BY <1>5, <2>1 DEF SayingTrue
<1>10. EndsTrue'
  <2>1. ASSUME NEW s \in ended PROVE Genuine(s.pane, s.record)'
    <3>1. s \in Sayings /\ Genuine(s.pane, s.record)
      BY DEF PanesInv, PaneTypes, EndsTrue
    <3>. QED
      BY <1>7, <3>1, SayingIs
  <2>2. Panes!Said(p, r).pane = p /\ Panes!Said(p, r).record = r
    BY DEF Panes!Said
  <2>. QED
    BY <1>5, <1>7, <2>1, <2>2 DEF EndsTrue, Genuine
<1>11. \A s \in Sayings : InFlight(s) => InFlight(s)'
  BY <1>5 DEF InFlight
<1>12. Heard'
  <2>1. InFlight(Panes!Said(p, r))'
    BY <1>5 DEF InFlight, Panes!Said
  <2>. QED
    BY <1>5, <1>7, <1>11, <2>1, HeardMoves
<1>13. Born'
  BY <1>1, <1>5, <1>7 DEF PanesInv, Born, Asked, Replied
<1>14. OneServed' /\ OneReply'
  BY <1>5 DEF PanesInv, OneServed, OneReply, Waits
<1>15. ServedTrue'
  <2>1. ASSUME NEW c \in Request, NEW a \in PaneRecords \cup {None, Failed}, c = serving.call, a = serving.answer,
               Answers(c, a), a = None => call[c].pc = "stop"
        PROVE  Answers(c, a)'
    <3>1. call[c].pc = "stop" => call[c].on \in Request
      BY DEF PanesInv, CallsFit, Shape
    <3>. QED
      BY <1>5, <1>7, <2>1, <3>1 DEF Answers
  <2>2. serving.call # None => serving.call \in Request /\ serving.answer \in PaneRecords \cup {None, Failed}
    BY DEF PanesInv, PaneTypes, Servings
  <2>3. serving.call # None => Answers(serving.call, serving.answer)'
    <3>1. CASE serving.call # None
      <4>1. PICK c \in Request, a \in PaneRecords \cup {None, Failed} : c = serving.call /\ a = serving.answer
        BY <2>2, <3>1
      <4>2. Answers(c, a) /\ (a = None => call[c].pc = "stop")
        BY <3>1, <4>1 DEF PanesInv, ServedTrue
      <4>3. Answers(c, a)'
        BY <2>1, <4>1, <4>2
      <4>. QED
        BY <1>5, <4>1, <4>3 DEF Answers, Genuine, Stopped
    <3>. QED
      BY <3>1
  <2>. QED
    BY <1>5, <2>3 DEF PanesInv, ServedTrue
<1>16. typed' = {}
  BY <1>5 DEF PanesInv
<1>. QED
  BY <1>7, <1>8, <1>9, <1>10, <1>12, <1>13, <1>14, <1>15, <1>16 DEF PanesInv

LEMMA WaitedPanes ==
  ASSUME PanesInv, Panes!StopWaited
  PROVE  PanesInv'
<1>1. /\ serving.call # None /\ call[serving.call].pc = "stop" /\ serving.answer = None
      /\ serving' = [serving EXCEPT !.answer = session[call[serving.call].on]]
      /\ UNCHANGED <<call, session, gate, ended, wire, mirror, known, typed, overtaken>>
  BY DEF Panes!StopWaited, Panes!historyVars
<1>2. serving \in Servings
  BY DEF PanesInv, PaneTypes
<1>3. PICK c \in Request : c = serving.call
  BY <1>1, <1>2 DEF Servings
<1>4. Shape(call[c]) /\ call[c].pc = "stop" /\ Answers(c, None)
  BY <1>1, <1>3 DEF PanesInv, CallsFit, ServedTrue
<1>5. call[c].on \in Request /\ Stopped(call[c].on)
  BY <1>4, PaneMarks DEF Shape, Answers
<1>6. PICK a \in PaneRecords : a = session[call[c].on]
  BY <1>5 DEF PanesInv, PaneTypes
<1>7. serving' \in Servings /\ serving'.call = c /\ serving'.said = serving.said /\ serving'.answer = a
  BY <1>1, <1>2, <1>3, <1>6 DEF Servings
<1>8. PaneTypes'
  BY <1>1, <1>7 DEF PanesInv, PaneTypes
<1>9. PanesTrue' /\ MirrorTrue' /\ EndsTrue' /\ WireTrue' /\ CallsFit' /\ AnswersTrue' /\ RepliesTrue'
  BY <1>1 DEF PanesInv, PanesTrue, MirrorTrue, EndsTrue, WireTrue, CallsFit, AnswersTrue, RepliesTrue, Genuine,
              Fitting, Stopped, Answers
<1>10. SayingTrue'
  BY <1>1, <1>7 DEF PanesInv, SayingTrue, Genuine
<1>11. Born' /\ OneServed' /\ OneReply'
  BY <1>1, <1>3, <1>7 DEF PanesInv, Born, Asked, Replied, OneServed, OneReply, Waits
<1>12. ServedTrue'
  <2>1. Answers(c, a)'
    BY <1>1, <1>4, <1>5 DEF Answers, Stopped
  <2>. QED
    BY <1>1, <1>4, <1>7, <2>1, PaneMarks DEF ServedTrue, Answers, Genuine, Stopped
<1>13. Heard'
  BY <1>1, <1>7 DEF PanesInv, Heard, Agrees, InFlight
<1>14. typed' = {}
  BY <1>1 DEF PanesInv
<1>. QED
  BY <1>8, <1>9, <1>10, <1>11, <1>12, <1>13, <1>14 DEF PanesInv

LEMMA ReplyPanes ==
  ASSUME PanesInv, Panes!Reply
  PROVE  PanesInv'
<1>1. /\ serving.call # None /\ serving.said = None /\ serving.answer # None
      /\ wire' = Append(wire, [call |-> serving.call, answer |-> serving.answer]) /\ serving' = Panes!Nothing
      /\ UNCHANGED <<call, session, gate, ended, mirror, known, typed, overtaken>>
  BY DEF Panes!Reply, Panes!historyVars
<1>2. serving \in Servings
  BY DEF PanesInv, PaneTypes
<1>3. PICK c \in Request, a \in PaneRecords \cup {Failed} : c = serving.call /\ a = serving.answer
  BY <1>1, <1>2 DEF Servings
<1>4. PICK m \in Replies : m = [call |-> c, answer |-> a]
  BY DEF Replies
<1>5. m.call = c /\ m.answer = a /\ m \notin Sayings /\ wire' = Append(wire, m)
  BY <1>1, <1>3, <1>4, ReplyIs
<1>6. /\ wire' \in Seq(Sayings \cup Replies)
      /\ \A i \in DOMAIN wire : i \in DOMAIN wire' /\ wire'[i] = wire[i]
  BY <1>5, WireGrows
<1>7. PICK k \in DOMAIN wire' : k \notin DOMAIN wire /\ wire'[k] = m /\ \A i \in DOMAIN wire' : i \in DOMAIN wire \/ i = k
  BY <1>5, WireGrows
<1>8. serving' \in Servings /\ serving'.call = None /\ serving'.said = None
  BY <1>1 DEF Servings, Panes!Nothing
<1>9. PaneTypes'
  BY <1>1, <1>6, <1>8 DEF PanesInv, PaneTypes
<1>10. PanesTrue' /\ MirrorTrue' /\ EndsTrue' /\ CallsFit' /\ AnswersTrue'
  BY <1>1 DEF PanesInv, PanesTrue, MirrorTrue, EndsTrue, CallsFit, AnswersTrue, Genuine, Fitting, Stopped, Answers
<1>11. WireTrue'
  BY <1>1, <1>5, <1>6, <1>7 DEF PanesInv, WireTrue, Genuine
<1>12. SayingTrue' /\ OneServed' /\ ServedTrue'
  BY <1>8 DEF SayingTrue, OneServed, ServedTrue
<1>13. \A d \in Request : Asked(d) => Asked(d)'
  BY <1>1, <1>3, <1>5, <1>6, <1>7 DEF Asked, Replied
<1>14. Born'
  BY <1>1, <1>13 DEF PanesInv, Born
<1>15. Waits(c) /\ \A i \in DOMAIN wire : wire[i] \in Replies => wire[i].call # c
  BY <1>1, <1>3 DEF PanesInv, OneServed, OneReply
<1>16. OneReply'
  <2>1. ASSUME NEW i \in DOMAIN wire', wire'[i] \in Replies
        PROVE  Waits(wire'[i].call) /\ serving'.call # wire'[i].call
    <3>1. CASE i \in DOMAIN wire
      <4>1. wire'[i].call \in Request
        BY <2>1, ReplyIs
      <4>. QED
        BY <1>6, <1>8, <2>1, <3>1, <4>1, PaneMarks DEF PanesInv, OneReply
    <3>2. CASE i = k
      BY <1>5, <1>7, <1>8, <1>15, <3>2, PaneMarks
    <3>. QED
      BY <1>7, <3>1, <3>2
  <2>2. ASSUME NEW i \in DOMAIN wire', NEW j \in DOMAIN wire', wire'[i] \in Replies, wire'[j] \in Replies,
               wire'[i].call = wire'[j].call
        PROVE  i = j
    BY <1>5, <1>6, <1>7, <1>15, <2>2 DEF PanesInv, OneReply
  <2>3. ASSUME NEW d, Waits(d) PROVE Waits(d)'
    BY <1>1, <2>3 DEF Waits
  <2>. QED
    BY <1>1, <2>1, <2>2 DEF OneReply, Waits
<1>17. RepliesTrue'
  <2>1. Answers(c, a)
    BY <1>1, <1>3 DEF PanesInv, ServedTrue
  <2>2. \A i \in DOMAIN wire' : wire'[i] \in Replies => Answers(wire'[i].call, wire'[i].answer)
    BY <1>5, <1>6, <1>7, <2>1 DEF PanesInv, RepliesTrue
  <2>. QED
    BY <1>1, <2>2 DEF RepliesTrue, Answers, Genuine, Stopped
<1>18. Heard'
  <2>1. \A p \in Request : Panes!Said(p, session[p]) \in Sayings
    BY DEF Panes!Said, Sayings, PanesInv, PaneTypes
  <2>2. \A s \in Sayings : InFlight(s) => InFlight(s)'
    BY <1>1, <1>6, PaneMarks DEF InFlight
  <2>. QED
    BY <1>1, <2>1, <2>2 DEF PanesInv, Heard, Agrees
<1>19. typed' = {}
  BY <1>1 DEF PanesInv
<1>. QED
  BY <1>9, <1>10, <1>11, <1>12, <1>14, <1>16, <1>17, <1>18, <1>19 DEF PanesInv

LEMMA ReadAnswerPanes ==
  ASSUME PanesInv, Panes!ReadAnswer
  PROVE  PanesInv'
<1>1. /\ wire # <<>> /\ "call" \in DOMAIN Head(wire) /\ wire' = Tail(wire)
      /\ call' = [call EXCEPT ![Head(wire).call].answer = Head(wire).answer]
      /\ UNCHANGED <<session, gate, serving, ended, mirror, known, typed, overtaken>>
  BY DEF Panes!ReadAnswer, Panes!historyVars
<1>2. /\ wire' \in Seq(Sayings \cup Replies) /\ 1 \in DOMAIN wire /\ Head(wire) = wire[1]
      /\ Head(wire) \in Sayings \cup Replies
      /\ \A i \in DOMAIN wire' : i \in Nat /\ i + 1 \in DOMAIN wire /\ wire'[i] = wire[i + 1] /\ i + 1 # 1
      /\ \A i \in DOMAIN wire : i # 1 => i - 1 \in DOMAIN wire' /\ wire'[i - 1] = wire[i]
  BY <1>1, WireShrinks
<1>3. wire[1] \in Replies
  BY <1>1, <1>2, SayingIs
<1>4. PICK c \in Request, a \in PaneRecords \cup {Failed} : c = wire[1].call /\ a = wire[1].answer
  BY <1>3, ReplyIs
<1>5. /\ Waits(c) /\ serving.call # c /\ Answers(c, a) /\ a # None
      /\ \A i \in DOMAIN wire : wire[i] \in Replies /\ wire[i].call = c => i = 1
  BY <1>2, <1>3, <1>4, PaneMarks DEF PanesInv, OneReply, RepliesTrue
<1>6. call[c] \in PaneCalls /\ Shape(call[c]) /\ Fitting(c, call[c])
  BY DEF PanesInv, PaneTypes, CallsFit
<1>7. PICK k \in PaneCalls : k = [call[c] EXCEPT !.answer = a]
  BY <1>6 DEF PaneCalls
<1>8. /\ k.op = call[c].op /\ k.pc = call[c].pc /\ k.on = call[c].on /\ k.conversation = call[c].conversation
      /\ k.answer = a
  BY <1>6, <1>7 DEF PaneCalls
<1>9. /\ call' \in [Request -> PaneCalls] /\ call'[c] = k
      /\ \A d \in Request : d # c => call'[d] = call[d]
  BY <1>1, <1>2, <1>4, <1>7 DEF PanesInv, PaneTypes
<1>10. PaneTypes'
  BY <1>1, <1>2, <1>9 DEF PanesInv, PaneTypes
<1>11. PanesTrue' /\ MirrorTrue' /\ SayingTrue' /\ EndsTrue'
  BY <1>1 DEF PanesInv, PanesTrue, MirrorTrue, SayingTrue, EndsTrue, Genuine
<1>12. WireTrue'
  BY <1>1, <1>2 DEF PanesInv, WireTrue, Genuine
<1>13. CallsFit'
  <2>1. ASSUME NEW d \in Request, d # c PROVE Shape(call'[d]) /\ Fitting(d, call[d])'
    BY <1>1, <1>9, <2>1 DEF PanesInv, CallsFit, Fitting, Stopped
  <2>2. Shape(k)
    BY <1>5, <1>6, <1>8 DEF Shape, Waits
  <2>3. Fitting(c, call[c])'
    BY <1>1, <1>6, <1>8, <1>9 DEF Fitting, Stopped
  <2>. QED
    BY <1>9, <2>1, <2>2, <2>3 DEF CallsFit
<1>14. Born'
  <2>1. ASSUME NEW d \in Request, d # c, Asked(d) PROVE Asked(d)'
    <3>1. Replied(d) => Replied(d)'
      BY <1>2, <1>4, <2>1 DEF Replied
    <3>. QED
      BY <1>1, <1>9, <2>1, <3>1 DEF Asked
  <2>2. Asked(c)'
    BY <1>5, <1>8, <1>9 DEF Asked
  <2>. QED
    BY <1>1, <1>8, <1>9, <2>1, <2>2 DEF PanesInv, Born
<1>15. \A d \in Request : d # c => (Waits(d) => Waits(d)')
  BY <1>9 DEF Waits
<1>16. serving.call # None => serving.call \in Request
  BY DEF PanesInv, PaneTypes, Servings
<1>17. OneServed'
  BY <1>1, <1>5, <1>9, <1>16 DEF PanesInv, OneServed, Waits
<1>18. \A i \in DOMAIN wire' : wire'[i] \in Replies => wire'[i].call \in Request /\ wire'[i].call # c
  BY <1>2, <1>5, ReplyIs
<1>19. OneReply'
  <2>1. ASSUME NEW i \in DOMAIN wire', wire'[i] \in Replies
        PROVE  Waits(wire'[i].call) /\ serving'.call # wire'[i].call
    BY <1>1, <1>2, <2>1 DEF PanesInv, OneReply
  <2>2. ASSUME NEW i \in DOMAIN wire', NEW j \in DOMAIN wire', wire'[i] \in Replies, wire'[j] \in Replies,
               wire'[i].call = wire'[j].call
        PROVE  i = j
    <3>1. i + 1 = j + 1 /\ i \in Nat /\ j \in Nat
      BY <1>2, <2>2 DEF PanesInv, OneReply
    <3>. QED
      BY <3>1
  <2>. QED
    BY <1>9, <1>18, <2>1, <2>2 DEF OneReply, Waits
<1>20. AnswersTrue'
  <2>1. Answers(c, a)'
    BY <1>1, <1>5, <1>8, <1>9 DEF Answers, Genuine, Stopped
  <2>2. ASSUME NEW d \in Request, d # c, call'[d].answer # None PROVE Answers(d, call[d].answer)'
    <3>1. call'[d] = call[d]
      BY <1>9, <2>2
    <3>2. Answers(d, call[d].answer)
      BY <2>2, <3>1 DEF PanesInv, AnswersTrue
    <3>. QED
      BY <1>1, <3>1, <3>2 DEF Answers, Genuine, Stopped
  <2>. QED
    BY <1>8, <1>9, <2>1, <2>2 DEF AnswersTrue, Answers, Genuine, Stopped
<1>21. RepliesTrue'
  <2>1. \A i \in DOMAIN wire' : wire'[i] \in Replies => Answers(wire'[i].call, wire'[i].answer)
    BY <1>2 DEF PanesInv, RepliesTrue
  <2>. QED
    BY <1>1, <1>9, <1>18, <2>1 DEF RepliesTrue, Answers, Genuine, Stopped
<1>22. ServedTrue'
  BY <1>1, <1>5, <1>9, <1>16 DEF PanesInv, ServedTrue, Answers, Genuine, Stopped
<1>23. Heard'
  <2>1. \A p \in Request : Panes!Said(p, session[p]) \in Sayings
    BY DEF Panes!Said, Sayings, PanesInv, PaneTypes
  <2>2. ASSUME NEW s \in Sayings, InFlight(s) PROVE InFlight(s)'
    <3>1. s # wire[1]
      BY <1>3, SayingIs
    <3>. QED
      BY <1>1, <1>2, <2>2, <3>1 DEF InFlight
  <2>. QED
    BY <1>1, <2>1, <2>2 DEF PanesInv, Heard, Agrees
<1>24. typed' = {}
  BY <1>1 DEF PanesInv
<1>. QED
  BY <1>10, <1>11, <1>12, <1>13, <1>14, <1>17, <1>19, <1>20, <1>21, <1>22, <1>23, <1>24 DEF PanesInv

LEMMA ReadRecordPanes ==
  ASSUME PanesInv, Panes!ReadRecord
  PROVE  PanesInv'
<1>1. /\ wire # <<>> /\ "pane" \in DOMAIN Head(wire) /\ wire' = Tail(wire)
      /\ Panes!Take(Head(wire).pane, Head(wire).record)
      /\ UNCHANGED <<call, session, gate, serving, ended, known, typed>>
  BY DEF Panes!ReadRecord
<1>2. /\ wire' \in Seq(Sayings \cup Replies) /\ 1 \in DOMAIN wire /\ Head(wire) = wire[1]
      /\ Head(wire) \in Sayings \cup Replies
      /\ \A i \in DOMAIN wire' : i \in Nat /\ i + 1 \in DOMAIN wire /\ wire'[i] = wire[i + 1] /\ i + 1 # 1
      /\ \A i \in DOMAIN wire : i # 1 => i - 1 \in DOMAIN wire' /\ wire'[i - 1] = wire[i]
  BY <1>1, WireShrinks
<1>3. wire[1] \in Sayings
  BY <1>1, <1>2, ReplyIs
<1>4. PICK p \in Request, r \in PaneRecords : p = wire[1].pane /\ r = wire[1].record /\ wire[1] = Panes!Said(p, r)
  BY <1>3, SayingIs
<1>5. Genuine(p, r) /\ Panes!Take(p, r)
  BY <1>1, <1>2, <1>3, <1>4 DEF PanesInv, WireTrue
<1>6. \A s : s # Panes!Said(p, r) /\ InFlight(s) => InFlight(s)'
  BY <1>1, <1>2, <1>4 DEF InFlight
<1>7. mirror' \in [Request -> PaneRecords] /\ MirrorTrue' /\ Heard'
  BY <1>1, <1>5, <1>6, TakeKeeps
<1>8. PaneTypes'
  BY <1>1, <1>2, <1>7 DEF PanesInv, PaneTypes
<1>9. PanesTrue' /\ SayingTrue' /\ EndsTrue' /\ CallsFit' /\ AnswersTrue' /\ ServedTrue' /\ OneServed'
  BY <1>1 DEF PanesInv, PanesTrue, SayingTrue, EndsTrue, CallsFit, AnswersTrue, ServedTrue, OneServed, Waits, Genuine,
              Fitting, Stopped, Answers
<1>10. WireTrue'
  BY <1>1, <1>2 DEF PanesInv, WireTrue, Genuine
<1>11. Born'
  <2>1. wire[1] \notin Replies
    BY <1>3, SayingIs
  <2>2. \A d \in Request : Replied(d) => Replied(d)'
    BY <1>2, <2>1 DEF Replied
  <2>. QED
    BY <1>1, <2>2 DEF PanesInv, Born, Asked
<1>12. OneReply'
  <2>1. ASSUME NEW i \in DOMAIN wire', wire'[i] \in Replies
        PROVE  Waits(wire'[i].call) /\ serving'.call # wire'[i].call
    BY <1>1, <1>2, <2>1 DEF PanesInv, OneReply
  <2>2. ASSUME NEW i \in DOMAIN wire', NEW j \in DOMAIN wire', wire'[i] \in Replies, wire'[j] \in Replies,
               wire'[i].call = wire'[j].call
        PROVE  i = j
    <3>1. i + 1 = j + 1 /\ i \in Nat /\ j \in Nat
      BY <1>2, <2>2 DEF PanesInv, OneReply
    <3>. QED
      BY <3>1
  <2>. QED
    BY <1>1, <2>1, <2>2 DEF OneReply, Waits
<1>13. RepliesTrue'
  BY <1>1, <1>2 DEF PanesInv, RepliesTrue, Answers, Genuine, Stopped
<1>14. typed' = {}
  BY <1>1 DEF PanesInv
<1>. QED
  BY <1>7, <1>8, <1>9, <1>10, <1>11, <1>12, <1>13, <1>14 DEF PanesInv

LEMMA PanesStep ==
  ASSUME PanesInv, Panes!PanesNext
  PROVE  PanesInv'
BY RequestPanes, DoorPanes, ExitPanes, SpawnPanes, TypeInPanes, DescribePanes, StopPanes, WaitedPanes, AnnouncePanes,
   ReplyPanes, ReadAnswerPanes, ReadRecordPanes DEF Panes!PanesNext, Panes!ServiceStep, Panes!Read

LEMMA PanesPromise ==
  ASSUME PanesInv
  PROVE  PanesInOrder
<1>1. Panes!NoInputBeforeView /\ Panes!PaneConversationKnown
  BY DEF PanesInv, PanesTrue, Panes!NoInputBeforeView, Panes!PaneConversationKnown
<1>2. Panes!RestartReplaces
  BY DEF PanesInv, CallsFit, Fitting, Stopped, Panes!RestartReplaces
<1>3. Panes!MirrorAgreesInOrder
  <2>1. ASSUME Panes!Quiet, NEW p \in Request \ overtaken
        PROVE  mirror[p] = session[p] \/ session[p].state = "stopping"
    <3>1. serving.said = None /\ ended = {} /\ DOMAIN wire = {}
      BY <2>1 DEF Panes!Quiet, Panes!Nothing
    <3>2. Panes!Said(p, session[p]) # None
      BY PaneMarks DEF Panes!Said, Sayings, PanesInv, PaneTypes
    <3>. QED
      BY <2>1, <3>1, <3>2 DEF PanesInv, Heard, Agrees, InFlight
  <2>. QED
    BY <2>1 DEF Panes!MirrorAgreesInOrder
<1>. QED
  BY <1>1, <1>2, <1>3 DEF PanesInOrder, Panes!PanesInOrder

\* Whatever the door and the service do meanwhile, and in whatever order what they say arrives: a
\* pane is on a screen before it is typed to, known before it is offered again, and in one place;
\* and the door's records come to be the service's (HostPanes; red-host panes.rs, red-pty lib.rs).
THEOREM PanesKeepTheirOrder == Spec => []PanesInOrder
<1>1. Init => PanesInv
  BY PanesStart DEF Init
<1>2. PanesInv /\ [Next]_vars => PanesInv'
  <2>. SUFFICES ASSUME PanesInv, [Next]_vars PROVE PanesInv'
    OBVIOUS
  <2>1. CASE OfPanes
    BY <2>1, PanesStep DEF OfPanes
  <2>2. CASE UNCHANGED panes
    BY <2>2 DEF panes, PanesInv, PaneTypes, PanesTrue, MirrorTrue, SayingTrue, EndsTrue, WireTrue, CallsFit, Fitting,
       Born, OneServed, OneReply, AnswersTrue, RepliesTrue, ServedTrue, Heard, Agrees, InFlight, Asked, Replied, Waits,
       Answers, Genuine, Stopped
  <2>3. OfPanes \/ UNCHANGED panes
    BY DEF Next, vars, OfPanes, OfMessage, OfBoard, OfDesks, OfSegment, OfRoutes
  <2>. QED
    BY <2>1, <2>2, <2>3
<1>3. PanesInv => PanesInOrder
  BY PanesPromise
<1>. QED
  BY <1>1, <1>2, <1>3, PTL DEF Spec
=============================================================================
