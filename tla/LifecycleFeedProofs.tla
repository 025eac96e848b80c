------------------------ MODULE LifecycleFeedProofs ------------------------
(***************************************************************************)
(* Proofs about LifecycleFeed, for any workers, callers, frames, sockets   *)
(* and limit.                                                              *)
(***************************************************************************)
EXTENDS LifecycleFeed, TLAPS

\* A line that is no answer carries a frame.
Heard == {line \in Line : line.for = NoSocket => line.number \in Frame}

\* A call that says has frames to say, and one that answers has whom to answer.
ServiceTyped ==
  /\ sequence \in 0..MaxFrames /\ queue \in Seq(Frame) /\ caller \in [Caller -> Calls]
  /\ \A k \in Caller : /\ caller[k].at \in {"taken", "saying"} => caller[k].batch # <<>>
                       /\ caller[k].at = "said" => caller[k].asks # NoSocket

InboxTyped  == inbox \in [Worker -> Seq(Heard)]

WorkersTyped ==
  /\ attached \subseteq Worker /\ current \in attached
  /\ retired \in [Worker -> {"no", "retired", "closed"}]

ReaderTyped == watching \in [Worker -> SUBSET Socket] /\ reader \in [Worker -> Reads]

\* An open socket is at some frame of its replay, one it sends is in the history.
SocketTyped ==
  /\ socket \in [Socket -> Served]
  /\ \A s \in Socket : /\ socket[s].at \notin {"unopened", "over"} => socket[s].next # 0
                       /\ socket[s].at = "pushing" => socket[s].next \in Frame

WatchTyped ==
  /\ delivered \in [Socket -> 0..MaxFrames]
  /\ pushed \in [Socket -> Seq(Frame)] /\ channel \in [Socket -> Seq(0..MaxFrames)]

MonitorTyped == monitor \in Follows /\ overtaken \in BOOLEAN

Typed ==
  /\ ServiceTyped /\ InboxTyped /\ WorkersTyped /\ ReaderTyped
  /\ SocketTyped /\ WatchTyped /\ MonitorTyped

-----------------------------------------------------------------------------
(* The parts of the state *)

LEMMA Constants ==
  /\ NoSocket \notin Socket /\ FirstWorker \in Worker /\ Worker \subseteq Caller /\ Others \subseteq Caller
  /\ Frame \subseteq 0..MaxFrames /\ 0 \notin Frame /\ 0 \in 0..MaxFrames /\ MaxFrames \in Nat
  BY FeedConstants DEF NoSocket, Socket, Caller, Frame

LEMMA IdleTyped == Idle \in Calls
  BY FeedConstants DEF Idle, Calls, NoSocket

LEMMA UnopenedTyped == Unopened \in Served /\ Over \in Served /\ Over.at = "over"
<1>1. Over = [at |-> "over", on |-> FirstWorker, next |-> 0, upTo |-> 0]
  BY DEF Over, Unopened
<1>. QED
  BY <1>1, FeedConstants DEF Unopened, Served, Stage

LEMMA RestingTyped == Resting \in Reads
  BY FeedConstants DEF Resting, Reads, NoSocket

LEMMA ActedTyped ==
  ASSUME NEW asks \in Socket \cup {NoSocket}, sequence \in 0..MaxFrames
  PROVE  Acted(asks) \in Calls /\ Acted(asks).at = "acted"
  BY DEF Acted, Calls

LEMMA FlushedTyped ==
  ASSUME NEW call \in Calls
  PROVE  /\ Flushed(call) \in Calls /\ Flushed(call).at \in {"idle", "said"}
         /\ Flushed(call).at = "said" => Flushed(call).asks # NoSocket
<1>1. CASE call.asks = NoSocket
  BY <1>1, IdleTyped DEF Flushed, Idle
<1>2. CASE call.asks # NoSocket
  <2>1. Flushed(call) = [at |-> "said", batch |-> <<>>, asks |-> call.asks, upTo |-> call.upTo]
    BY <1>2 DEF Flushed, Calls
  <2>. QED
    BY <1>2, <2>1 DEF Calls
<1>. QED
  BY <1>1, <1>2

\* a call that moves to a well-formed state leaves the callers well-formed
LEMMA CallTyped ==
  ASSUME ServiceTyped, NEW k \in Caller, NEW from, NEW to \in Calls, Call(k, from, to),
         to.at \in {"taken", "saying"} => to.batch # <<>>,
         to.at = "said" => to.asks # NoSocket
  PROVE  /\ caller' \in [Caller -> Calls]
         /\ \A o \in Caller : /\ caller'[o].at \in {"taken", "saying"} => caller'[o].batch # <<>>
                              /\ caller'[o].at = "said" => caller'[o].asks # NoSocket
  BY DEF ServiceTyped, Call

LEMMA ServeTyped ==
  ASSUME SocketTyped, NEW s \in Socket, NEW from, NEW to \in Stage, Serve(s, from, to),
         from \notin {"unopened", "over"}, to = "pushing" => socket[s].next \in Frame
  PROVE  SocketTyped'
<1>1. /\ socket' \in [Socket -> Served] /\ socket'[s].next = socket[s].next /\ socket'[s].at = to
      /\ \A o \in Socket : o # s => socket'[o] = socket[o]
  BY DEF SocketTyped, Serve, Served
<1>2. socket[s].at = from
  BY DEF Serve
<1>. QED
  BY <1>1, <1>2 DEF SocketTyped

LEMMA OnwardsTyped ==
  ASSUME ReaderTyped, NEW w \in Worker, NEW s \in Socket, NEW behind \in SUBSET Socket
  PROVE  /\ Onwards(w, s, behind) \in Reads
         /\ Onwards(w, s, behind).todo = reader[w].todo \ {s}
         /\ Onwards(w, s, behind).holds = NoSocket
         /\ Onwards(w, s, behind).frame = IF reader[w].todo \ {s} = {} THEN 0 ELSE reader[w].frame
<1> DEFINE rest  == reader[w].todo \ {s}
<1> DEFINE frame == IF rest = {} THEN 0 ELSE reader[w].frame
<1>1. reader[w] \in Reads
  BY DEF ReaderTyped
<1>2. Onwards(w, s, behind) = [frame |-> frame, todo |-> rest, holds |-> NoSocket, behind |-> behind]
  BY DEF Onwards
<1>3. frame \in 0..MaxFrames /\ rest \in SUBSET Socket
  BY <1>1, Constants DEF Reads
<1> HIDE DEF rest, frame
<1>4. Onwards(w, s, behind) \in Reads
  BY <1>2, <1>3 DEF Reads
<1>. QED
  BY <1>2, <1>4 DEF rest, frame

LEMMA QueuedTyped ==
  ASSUME WatchTyped, NEW s \in Socket, NEW item \in 0..MaxFrames
  PROVE  Queued(s, item) \in Seq(0..MaxFrames)
<1>1. channel[s] \in Seq(0..MaxFrames)
  BY DEF WatchTyped
<1>2. Append(channel[s], item) \in Seq(0..MaxFrames)
  BY <1>1
<1>. QED
  BY <1>1, <1>2 DEF Queued

LEMMA PushTyped ==
  ASSUME WatchTyped, NEW s \in Socket, NEW frame \in Frame, Push(s, frame)
  PROVE  WatchTyped'
<1>1. Queued(s, frame) \in Seq(0..MaxFrames)
  BY QueuedTyped, Constants
<1>. QED
  BY <1>1 DEF WatchTyped, Push

LEMMA CloseWatcherTyped ==
  ASSUME ReaderTyped, WatchTyped, NEW w \in Worker, NEW s \in Socket, CloseWatcher(w, s)
  PROVE  WatchTyped' /\ watching' \in [Worker -> SUBSET Socket]
<1>1. Queued(s, EndOfChannel) \in Seq(0..MaxFrames)
  BY QueuedTyped, Constants DEF EndOfChannel
<1>. QED
  BY <1>1 DEF WatchTyped, CloseWatcher, ReaderTyped

LEMMA MarkTyped ==
  ASSUME WatchTyped, NEW s \in Socket, NEW frame \in 0..MaxFrames, Mark(s, frame)
  PROVE  delivered' \in [Socket -> 0..MaxFrames]
  BY DEF WatchTyped, Mark

LEMMA InitTyped == Init => Typed
<1> SUFFICES ASSUME Init PROVE Typed
  OBVIOUS
<1>1. ServiceTyped
  BY IdleTyped, Constants DEF Init, ServiceTyped, Idle
<1>2. InboxTyped
  BY DEF Init, InboxTyped
<1>3. WorkersTyped
  BY Constants DEF Init, WorkersTyped
<1>4. ReaderTyped
  BY RestingTyped DEF Init, ReaderTyped
<1>5. SocketTyped
  BY UnopenedTyped DEF Init, SocketTyped, Unopened
<1>6. WatchTyped
  BY Constants DEF Init, WatchTyped
<1>7. MonitorTyped
  BY Constants DEF Init, MonitorTyped, Follows
<1>. QED
  BY <1>1, <1>2, <1>3, <1>4, <1>5, <1>6, <1>7 DEF Typed

-----------------------------------------------------------------------------
(* Every step keeps the types *)

LEMMA EmitTyped ==
  ASSUME Typed, NEW k \in Others, Emit(k) PROVE Typed'
<1>1. k \in Caller /\ sequence + 1 \in Frame /\ sequence + 1 \in 0..MaxFrames
  BY Constants, FeedConstants DEF Typed, ServiceTyped, Emit, Frame
<1>2. Acted(NoSocket) \in Calls /\ Acted(NoSocket).at = "acted"
  BY ActedTyped DEF Typed, ServiceTyped
<1>3. /\ caller' \in [Caller -> Calls]
      /\ \A o \in Caller : /\ caller'[o].at \in {"taken", "saying"} => caller'[o].batch # <<>>
                           /\ caller'[o].at = "said" => caller'[o].asks # NoSocket
  BY <1>1, <1>2, CallTyped DEF Typed, Emit
<1>4. queue' \in Seq(Frame)
  BY <1>1 DEF Typed, ServiceTyped, Emit
<1>5. ServiceTyped'
  BY <1>1, <1>3, <1>4 DEF ServiceTyped, Emit
<1>. QED
  BY <1>5 DEF Typed, InboxTyped, WorkersTyped, ReaderTyped, SocketTyped, WatchTyped, MonitorTyped,
     Emit, workerVars, watchVars

LEMMA AfterTyped ==
  ASSUME Typed, NEW s \in Socket, After(s) PROVE Typed'
<1>1. socket[s].on \in Caller
  BY Constants DEF Typed, SocketTyped, Served
<1>2. Acted(s) \in Calls /\ Acted(s).at = "acted"
  BY ActedTyped DEF Typed, ServiceTyped
<1>3. ServiceTyped'
  BY <1>1, <1>2, CallTyped DEF Typed, ServiceTyped, After
<1>4. SocketTyped'
  BY DEF Typed, SocketTyped, After, Served, Stage
<1>. QED
  BY <1>3, <1>4 DEF Typed, InboxTyped, WorkersTyped, ReaderTyped, WatchTyped, MonitorTyped,
     After, workerVars, watchVars

LEMMA TakeTyped ==
  ASSUME Typed, NEW k \in Caller, Take(k) PROVE Typed'
<1>1. caller[k] \in Calls /\ queue \in Seq(Frame)
  BY DEF Typed, ServiceTyped
<1>2. ServiceTyped'
  <2>1. CASE queue = <<>>
    BY <1>1, <2>1, FlushedTyped, CallTyped DEF Typed, ServiceTyped, Take
  <2>2. CASE queue # <<>>
    <3> DEFINE taken == [caller[k] EXCEPT !.at = "taken", !.batch = queue]
    <3>1. taken \in Calls /\ taken.at = "taken" /\ taken.batch = queue
      BY <1>1 DEF Calls
    <3>2. Call(k, "acted", taken) /\ queue' = <<>> /\ sequence' = sequence
      BY <2>2 DEF Take
    <3> HIDE DEF taken
    <3>3. /\ caller' \in [Caller -> Calls]
          /\ \A o \in Caller : /\ caller'[o].at \in {"taken", "saying"} => caller'[o].batch # <<>>
                               /\ caller'[o].at = "said" => caller'[o].asks # NoSocket
      BY <2>2, <3>1, <3>2, CallTyped DEF Typed
    <3>. QED
      BY <3>2, <3>3 DEF Typed, ServiceTyped
  <2>. QED
    BY <2>1, <2>2
<1>. QED
  BY <1>2 DEF Typed, InboxTyped, WorkersTyped, ReaderTyped, SocketTyped, WatchTyped, MonitorTyped,
     Take, workerVars, watchVars

LEMMA SayTyped ==
  ASSUME Typed, NEW k \in Caller, Say(k) PROVE Typed'
<1> DEFINE frame == Head(caller[k].batch)
<1> DEFINE rest  == Tail(caller[k].batch)
<1> DEFINE more  == [caller[k] EXCEPT !.at = "saying", !.batch = rest]
<1> DEFINE next  == IF rest = <<>> THEN Flushed(caller[k]) ELSE more
<1>1. Call(k, "taken", next) \/ Call(k, "saying", next)
  BY DEF Say
<1>2. caller[k] \in Calls /\ caller[k].batch \in Seq(Frame) /\ caller[k].batch # <<>>
  BY <1>1 DEF Typed, ServiceTyped, Call, Calls
<1>3. frame \in Frame /\ rest \in Seq(Frame)
  BY <1>2
<1>4. inbox' = [w \in Worker |-> IF w \in attached THEN Append(inbox[w], Event(frame)) ELSE inbox[w]]
  BY DEF Say
<1> HIDE DEF frame, rest
<1>5. more \in Calls /\ more.at = "saying" /\ more.batch = rest
  BY <1>2, <1>3 DEF Calls
<1>6. /\ next \in Calls
      /\ next.at \in {"taken", "saying"} => next.batch # <<>>
      /\ next.at = "said" => next.asks # NoSocket
  BY <1>2, <1>5, FlushedTyped
<1> HIDE DEF next
<1>7. ServiceTyped'
  BY <1>1, <1>6, CallTyped DEF Typed, ServiceTyped, Say
<1>8. Event(frame) \in Heard
  BY <1>3, Constants DEF Event, Heard, Line
<1>9. \A w \in Worker : Append(inbox[w], Event(frame)) \in Seq(Heard)
  BY <1>8 DEF Typed, InboxTyped
<1>10. InboxTyped'
  BY <1>4, <1>9 DEF Typed, InboxTyped
<1>. QED
  BY <1>7, <1>10 DEF Typed, WorkersTyped, ReaderTyped, SocketTyped, WatchTyped, MonitorTyped, Follows,
     Say, workerVars, watchVars

LEMMA AnswersTyped ==
  ASSUME Typed, NEW w \in Worker, Answers(w) PROVE Typed'
<1>1. w \in Caller /\ caller[w] \in Calls /\ caller[w].at = "said"
  BY Constants DEF Typed, ServiceTyped, Answers, Call
<1>2. caller[w].asks \in Socket /\ caller[w].upTo \in 0..MaxFrames
  BY <1>1 DEF Typed, ServiceTyped, Calls
<1>3. Answer(caller[w].asks, caller[w].upTo) \in Heard
  BY <1>2, Constants DEF Answer, Heard, Line
<1>4. Append(inbox[w], Answer(caller[w].asks, caller[w].upTo)) \in Seq(Heard)
  BY <1>3 DEF Typed, InboxTyped
<1>5. InboxTyped'
  BY <1>4 DEF Typed, InboxTyped, Answers
<1>6. ServiceTyped'
  BY <1>1, IdleTyped, CallTyped DEF Typed, ServiceTyped, Answers, Idle
<1>. QED
  BY <1>5, <1>6 DEF Typed, WorkersTyped, ReaderTyped, SocketTyped, WatchTyped, MonitorTyped,
     Answers, workerVars, watchVars

LEMMA HeadAndTail ==
  ASSUME NEW S, NEW q \in Seq(S), q # <<>>
  PROVE  Head(q) \in S /\ Tail(q) \in Seq(S)
  OBVIOUS

LEMMA InboxHead ==
  ASSUME Typed, NEW w \in Worker, inbox[w] # <<>>
  PROVE  Head(inbox[w]) \in Heard /\ Tail(inbox[w]) \in Seq(Heard)
  BY DEF Typed, InboxTyped

LEMMA ReadAnswerTyped ==
  ASSUME Typed, NEW w \in Worker, ReadAnswer(w) PROVE Typed'
<1> DEFINE line == Head(inbox[w])
<1>1. line \in Heard /\ Tail(inbox[w]) \in Seq(Heard)
  BY InboxHead DEF ReadAnswer, Reading
<1>2. line.for \in Socket /\ line.number \in 0..MaxFrames
  BY <1>1 DEF Heard, Line, ReadAnswer
<1>3. InboxTyped'
  BY <1>1 DEF Typed, InboxTyped, ReadAnswer
<1>4. socket' = IF socket[line.for].at = "asking"
               THEN [socket EXCEPT ![line.for].at = "replaying", ![line.for].upTo = line.number]
               ELSE socket
  BY DEF ReadAnswer
<1> HIDE DEF line
<1>5. SocketTyped'
  BY <1>2, <1>4 DEF Typed, SocketTyped, Served, Stage
<1>. QED
  BY <1>3, <1>5 DEF Typed, ServiceTyped, WorkersTyped, ReaderTyped, WatchTyped, MonitorTyped,
     ReadAnswer, serviceVars, workerVars, watchVars

LEMMA ReadEventTyped ==
  ASSUME Typed, NEW w \in Worker, ReadEvent(w) PROVE Typed'
<1> DEFINE line == Head(inbox[w])
<1>1. line \in Heard /\ Tail(inbox[w]) \in Seq(Heard)
  BY InboxHead DEF ReadEvent, Reading
<1>2. line.number \in 0..MaxFrames
  BY <1>1 DEF Heard, Line
<1>3. InboxTyped'
  BY <1>1 DEF Typed, InboxTyped, ReadEvent
<1>4. reader' = IF watching[w] = {} THEN reader
                ELSE [reader EXCEPT ![w].frame = line.number, ![w].todo = watching[w]]
  BY DEF ReadEvent
<1> HIDE DEF line
<1>5. ReaderTyped'
  <2>1. CASE watching[w] = {}
    BY <1>4, <2>1 DEF Typed, ReaderTyped, ReadEvent
  <2>2. CASE watching[w] # {}
    <3>1. reader' = [reader EXCEPT ![w].frame = line.number, ![w].todo = watching[w]]
      BY <1>4, <2>2
    <3>2. watching[w] \in SUBSET Socket
      BY DEF Typed, ReaderTyped
    <3>3. reader' \in [Worker -> Reads]
      BY <1>2, <3>1, <3>2 DEF Typed, ReaderTyped, Reads
    <3>. QED
      BY <3>3 DEF Typed, ReaderTyped, ReadEvent
  <2>. QED
    BY <2>1, <2>2
<1>. QED
  BY <1>3, <1>5 DEF Typed, ServiceTyped, WorkersTyped, SocketTyped, WatchTyped, MonitorTyped,
     ReadEvent, serviceVars, workerVars, watchVars

LEMMA DeliverNotTyped ==
  ASSUME Typed, NEW w \in Worker, NEW s \in Socket, DeliverNot(w, s) PROVE Typed'
<1> DEFINE behind == IF TooFar(s) THEN reader[w].behind \cup {s} ELSE reader[w].behind
<1>1. behind \in SUBSET Socket
  BY DEF Typed, ReaderTyped, Reads
<1>2. reader' = [reader EXCEPT ![w] = Onwards(w, s, behind)]
  BY DEF DeliverNot
<1> HIDE DEF behind
<1>3. ReaderTyped'
  BY <1>1, <1>2, OnwardsTyped DEF Typed, ReaderTyped, DeliverNot
<1>. QED
  BY <1>3 DEF Typed, ServiceTyped, InboxTyped, WorkersTyped, SocketTyped, WatchTyped, MonitorTyped,
     DeliverNot, serviceVars, workerVars, watchVars

LEMMA DeliverMarkTyped ==
  ASSUME Typed, NEW w \in Worker, NEW s \in Socket, DeliverMark(w, s) PROVE Typed'
<1>1. reader[w].frame \in 0..MaxFrames
  BY DEF Typed, ReaderTyped, Reads
<1>2. WatchTyped'
  BY <1>1, MarkTyped DEF Typed, WatchTyped, DeliverMark
<1>3. ReaderTyped'
  BY DEF Typed, ReaderTyped, Reads, DeliverMark
<1>. QED
  BY <1>2, <1>3 DEF Typed, ServiceTyped, InboxTyped, WorkersTyped, SocketTyped, MonitorTyped,
     DeliverMark, serviceVars, workerVars

LEMMA DeliverPushTyped ==
  ASSUME Typed, NEW w \in Worker, NEW s \in Socket, DeliverPush(w, s) PROVE Typed'
<1>1. reader[w].frame \in Frame /\ reader[w].behind \in SUBSET Socket
  BY FeedConstants DEF Typed, ReaderTyped, Reads, DeliverPush, Locked, Frame
<1>2. WatchTyped'
  BY <1>1, PushTyped DEF Typed, DeliverPush
<1>3. ReaderTyped'
  BY <1>1, OnwardsTyped DEF Typed, ReaderTyped, DeliverPush
<1>. QED
  BY <1>2, <1>3 DEF Typed, ServiceTyped, InboxTyped, WorkersTyped, SocketTyped, MonitorTyped,
     DeliverPush, serviceVars, workerVars

LEMMA CloseBehindTyped ==
  ASSUME Typed, NEW w \in Worker, NEW s \in Socket, CloseBehind(w, s) PROVE Typed'
<1>1. WatchTyped' /\ watching' \in [Worker -> SUBSET Socket]
  BY CloseWatcherTyped DEF Typed, CloseBehind
<1>2. ReaderTyped'
  BY <1>1 DEF Typed, ReaderTyped, Reads, CloseBehind
<1>. QED
  BY <1>1, <1>2 DEF Typed, ServiceTyped, InboxTyped, WorkersTyped, SocketTyped, MonitorTyped,
     CloseBehind, serviceVars, workerVars

LEMMA AdmitTyped ==
  ASSUME Typed, NEW s \in Socket, Admit(s) PROVE Typed'
<1>1. CASE retired[socket[s].on] = "no"
  <2>1. Serve(s, "opened", "admitted")
    BY <1>1 DEF Admit, Serve
  <2>2. SocketTyped'
    BY <2>1, ServeTyped DEF Typed, Stage
  <2>3. WatchTyped'
    BY <1>1 DEF Typed, WatchTyped, Admit
  <2>. QED
    BY <2>2, <2>3 DEF Typed, ServiceTyped, InboxTyped, WorkersTyped, ReaderTyped, MonitorTyped,
       Admit, serviceVars, workerVars
<1>2. CASE retired[socket[s].on] # "no"
  <2>1. Queued(s, EndOfChannel) \in Seq(0..MaxFrames)
    BY QueuedTyped, Constants DEF Typed, EndOfChannel
  <2>2. SocketTyped' /\ WatchTyped'
    BY <1>2, <2>1, UnopenedTyped DEF Typed, SocketTyped, WatchTyped, Admit
  <2>. QED
    BY <2>2 DEF Typed, ServiceTyped, InboxTyped, WorkersTyped, ReaderTyped, MonitorTyped,
       Admit, serviceVars, workerVars
<1>. QED
  BY <1>1, <1>2

LEMMA JoinTyped ==
  ASSUME Typed, NEW s \in Socket, Join(s) PROVE Typed'
<1>1. SocketTyped'
  BY ServeTyped DEF Typed, Join, Stage
<1>2. ReaderTyped'
  BY DEF Typed, ReaderTyped, Join
<1>. QED
  BY <1>1, <1>2 DEF Typed, ServiceTyped, InboxTyped, WorkersTyped, WatchTyped, MonitorTyped,
     Join, serviceVars, workerVars, watchVars

LEMMA AskFailsTyped ==
  ASSUME Typed, NEW s \in Socket, AskFails(s) PROVE Typed'
<1>1. SocketTyped'
  BY ServeTyped DEF Typed, AskFails, Stage
<1>2. WatchTyped' /\ ReaderTyped'
  BY CloseWatcherTyped DEF Typed, SocketTyped, Served, ReaderTyped, AskFails
<1>. QED
  BY <1>1, <1>2 DEF Typed, ServiceTyped, InboxTyped, WorkersTyped, MonitorTyped,
     AskFails, serviceVars, workerVars

LEMMA ReplayedFrame ==
  ASSUME Typed, NEW s \in Socket, Replaying(s)
  PROVE  socket[s].next \in Frame
  BY FeedConstants DEF Typed, SocketTyped, Served, Replaying, Frame

LEMMA ReplaySkipsTyped ==
  ASSUME Typed, NEW s \in Socket, ReplaySkips(s) PROVE Typed'
<1>1. socket[s].next \in Frame /\ socket[s].at = "replaying"
  BY ReplayedFrame DEF ReplaySkips, Replaying
<1>2. socket[s].next + 1 \in 0..(MaxFrames + 1) /\ socket[s].next + 1 # 0
  BY <1>1, FeedConstants DEF Frame
<1>3. SocketTyped'
  BY <1>1, <1>2 DEF Typed, SocketTyped, Served, ReplaySkips
<1>. QED
  BY <1>3 DEF Typed, ServiceTyped, InboxTyped, WorkersTyped, ReaderTyped, WatchTyped, MonitorTyped,
     ReplaySkips, serviceVars, workerVars, watchVars

LEMMA ReplayMarkTyped ==
  ASSUME Typed, NEW s \in Socket, ReplayMark(s) PROVE Typed'
<1>1. socket[s].next \in Frame /\ socket[s].next \in 0..MaxFrames
  BY ReplayedFrame, Constants DEF ReplayMark
<1>2. WatchTyped'
  BY <1>1, MarkTyped DEF Typed, WatchTyped, ReplayMark
<1>3. SocketTyped'
  BY <1>1, ServeTyped DEF Typed, ReplayMark, Stage
<1>. QED
  BY <1>2, <1>3 DEF Typed, ServiceTyped, InboxTyped, WorkersTyped, ReaderTyped, MonitorTyped,
     ReplayMark, serviceVars, workerVars

LEMMA ReplayPushTyped ==
  ASSUME Typed, NEW s \in Socket, ReplayPush(s) PROVE Typed'
<1>1. socket[s].next \in Frame
  BY DEF Typed, SocketTyped, ReplayPush
<1>2. socket[s].next + 1 \in 0..(MaxFrames + 1) /\ socket[s].next + 1 # 0
  BY <1>1, FeedConstants DEF Frame
<1>3. SocketTyped'
  BY <1>2 DEF Typed, SocketTyped, Served, Stage, ReplayPush
<1>4. WatchTyped'
  BY <1>1, PushTyped DEF Typed, ReplayPush
<1>. QED
  BY <1>3, <1>4 DEF Typed, ServiceTyped, InboxTyped, WorkersTyped, ReaderTyped, MonitorTyped,
     ReplayPush, serviceVars, workerVars

LEMMA ReplayBehindTyped ==
  ASSUME Typed, NEW s \in Socket, ReplayBehind(s) PROVE Typed'
<1>1. SocketTyped'
  BY ServeTyped DEF Typed, ReplayBehind, Stage
<1>2. WatchTyped' /\ ReaderTyped'
  BY CloseWatcherTyped DEF Typed, SocketTyped, Served, ReaderTyped, ReplayBehind
<1>. QED
  BY <1>1, <1>2 DEF Typed, ServiceTyped, InboxTyped, WorkersTyped, MonitorTyped,
     ReplayBehind, serviceVars, workerVars

LEMMA LeaveTyped ==
  ASSUME Typed, NEW s \in Socket, Leave(s) PROVE Typed'
<1>1. SocketTyped'
  BY UnopenedTyped DEF Typed, SocketTyped, Leave
<1>2. ReaderTyped'
  BY DEF Typed, ReaderTyped, Leave
<1>3. WatchTyped'
  BY Constants DEF Typed, WatchTyped, Leave
<1>. QED
  BY <1>1, <1>2, <1>3 DEF Typed, ServiceTyped, InboxTyped, WorkersTyped, MonitorTyped,
     Leave, serviceVars, workerVars

LEMMA OpenTyped ==
  ASSUME Typed, NEW s \in Socket, Open(s) PROVE Typed'
<1>1. monitor.cursor \in 0..MaxFrames /\ current \in Worker
  BY DEF Typed, MonitorTyped, Follows, WorkersTyped
<1>2. /\ monitor.cursor + 1 \in 0..(MaxFrames + 1) /\ monitor.cursor + 1 # 0
  BY <1>1, FeedConstants
<1>3. SocketTyped'
  BY <1>1, <1>2, Constants DEF Typed, SocketTyped, Served, Stage, Open
<1>4. WatchTyped'
  BY <1>1 DEF Typed, WatchTyped, Open
<1>5. MonitorTyped'
  BY DEF Typed, MonitorTyped, Follows, Open
<1>. QED
  BY <1>3, <1>4, <1>5 DEF Typed, ServiceTyped, InboxTyped, WorkersTyped, ReaderTyped,
     Open, serviceVars, workerVars

LEMMA WriteTyped ==
  ASSUME Typed, NEW s \in Socket, Write(s) PROVE Typed'
<1> DEFINE item == Head(channel[s])
<1>7. channel[s] \in Seq(0..MaxFrames) /\ channel[s] # <<>>
  BY DEF Typed, WatchTyped, Write
<1>1. item \in 0..MaxFrames /\ Tail(channel[s]) \in Seq(0..MaxFrames)
  <2>1. \A S : channel[s] \in Seq(S) => Head(channel[s]) \in S /\ Tail(channel[s]) \in Seq(S)
    BY <1>7, HeadAndTail
  <2>. QED
    BY <1>7, <2>1
<1>2. item # EndOfChannel => item \in Frame
  BY <1>1, FeedConstants DEF EndOfChannel, Frame
<1>3. IF item = EndOfChannel
     THEN monitor' = [monitor EXCEPT !.on = NoSocket] /\ channel' = [channel EXCEPT ![s] = <<>>]
     ELSE /\ monitor' = [monitor EXCEPT !.cursor = item, !.read = @ \cup {item}]
          /\ channel' = [channel EXCEPT ![s] = Tail(@)]
  BY DEF Write
<1> HIDE DEF item
<1>4. /\ \/ channel' = [channel EXCEPT ![s] = <<>>] \/ channel' = [channel EXCEPT ![s] = Tail(@)]
      /\ delivered' = delivered /\ pushed' = pushed /\ overtaken' = overtaken
  BY <1>3 DEF Write
<1>5. WatchTyped'
  <2>1. channel' = [channel EXCEPT ![s] = <<>>] => WatchTyped'
    BY <1>4 DEF Typed, WatchTyped
  <2>2. channel' = [channel EXCEPT ![s] = Tail(@)] => WatchTyped'
    <3> DEFINE rest == Tail(channel[s])
    <3>1. rest \in Seq(0..MaxFrames)
      BY <1>1
    <3>2. channel' = [channel EXCEPT ![s] = Tail(@)] => channel' = [channel EXCEPT ![s] = rest]
      OBVIOUS
    <3> HIDE DEF rest
    <3>. QED
      BY <1>4, <3>1, <3>2 DEF Typed, WatchTyped
  <2>. QED
    BY <1>4, <2>1, <2>2
<1>6. MonitorTyped'
  <2>1. CASE item = EndOfChannel
    BY <1>3, <1>4, <2>1 DEF Typed, MonitorTyped, Follows
  <2>2. CASE item # EndOfChannel
    <3>1. monitor' = [monitor EXCEPT !.cursor = item, !.read = @ \cup {item}]
      BY <1>3, <2>2
    <3>2. item \in Frame
      BY <1>2, <2>2
    <3>3. monitor.read \cup {item} \in SUBSET Frame
      BY <3>2 DEF Typed, MonitorTyped, Follows
    <3>4. monitor' \in Follows
      BY <1>1, <3>1, <3>3 DEF Typed, MonitorTyped, Follows
    <3>. QED
      BY <1>4, <3>4 DEF Typed, MonitorTyped
  <2>. QED
    BY <2>1, <2>2
<1>. QED
  BY <1>5, <1>6 DEF Typed, ServiceTyped, InboxTyped, WorkersTyped, ReaderTyped, SocketTyped,
     Write, serviceVars, workerVars

LEMMA CutTyped ==
  ASSUME Typed, NEW s \in Socket, Cut(s) PROVE Typed'
<1>1. WatchTyped'
  BY DEF Typed, WatchTyped, Cut
<1>2. MonitorTyped'
  BY DEF Typed, MonitorTyped, Follows, Cut
<1>. QED
  BY <1>1, <1>2 DEF Typed, ServiceTyped, InboxTyped, WorkersTyped, ReaderTyped, SocketTyped,
     Cut, serviceVars, workerVars

LEMMA ReplaceTyped ==
  ASSUME Typed, NEW w \in Worker, Replace(w) PROVE Typed'
  BY DEF Typed, ServiceTyped, InboxTyped, WorkersTyped, ReaderTyped, SocketTyped, WatchTyped,
     MonitorTyped, Replace, serviceVars, watchVars

LEMMA RetireTyped ==
  ASSUME Typed, NEW w \in Worker, Retire(w) PROVE Typed'
  BY DEF Typed, ServiceTyped, InboxTyped, WorkersTyped, ReaderTyped, SocketTyped, WatchTyped,
     MonitorTyped, Retire, serviceVars, watchVars

LEMMA CloseAllTyped ==
  ASSUME Typed, NEW w \in Worker, CloseAll(w) PROVE Typed'
<1>1. \A s \in Socket : Queued(s, EndOfChannel) \in Seq(0..MaxFrames)
  BY QueuedTyped, Constants DEF Typed, EndOfChannel
<1>2. WatchTyped'
  BY <1>1 DEF Typed, WatchTyped, CloseAll
<1>3. WorkersTyped' /\ ReaderTyped'
  BY DEF Typed, WorkersTyped, ReaderTyped, CloseAll
<1>. QED
  BY <1>2, <1>3 DEF Typed, ServiceTyped, InboxTyped, SocketTyped, MonitorTyped,
     CloseAll, serviceVars

-----------------------------------------------------------------------------
(* What NoFrameTwice rests on *)

Joined == {"joined", "asking", "replaying", "pushing", "reading"}

\* A watcher that is delivered to belongs to this worker and is served.
Listed ==
  \A w \in Worker, s \in Socket :
    s \in watching[w] \cup reader[w].todo => socket[s].on = w /\ socket[s].at \in Joined

\* The reading thread has watchers, and one it sends to, only while it has them locked.
LockKept ==
  \A w \in Worker : /\ reader[w].frame = 0 => reader[w].todo = {}
                    /\ reader[w].holds # NoSocket => reader[w].holds \in reader[w].todo

\* this frame is marked as sent on the socket, and not on its channel yet
Owed(s, frame) ==
  /\ frame <= delivered[s]
  /\ \A i \in 1..Len(pushed[s]) : pushed[s][i] # frame

\* the same after a step
StillOwed(s, frame) ==
  /\ frame <= delivered'[s]
  /\ \A i \in 1..Len(pushed'[s]) : pushed'[s][i] # frame

\* What is on a channel was marked; what a thread is about to put there was
\* marked, is not there, and is not what the other thread is about to put there.
MarkedOnce ==
  \A s \in Socket :
    /\ socket[s].at = "unopened" => pushed[s] = <<>>
    /\ \A i \in 1..Len(pushed[s]) : pushed[s][i] <= delivered[s]
    /\ socket[s].at = "pushing" => Owed(s, socket[s].next)
    /\ \A w \in Worker : reader[w].holds = s =>
         /\ Owed(s, reader[w].frame)
         /\ socket[s].at = "pushing" => reader[w].frame # socket[s].next

\* MarkedOnce of one socket after a step
MarkedAfter(s) ==
  /\ socket'[s].at = "unopened" => pushed'[s] = <<>>
  /\ \A i \in 1..Len(pushed'[s]) : pushed'[s][i] <= delivered'[s]
  /\ socket'[s].at = "pushing" => StillOwed(s, socket'[s].next)
  /\ \A w \in Worker : reader'[w].holds = s =>
       /\ StillOwed(s, reader'[w].frame)
       /\ socket'[s].at = "pushing" => reader'[w].frame # socket'[s].next

\* what NoFrameTwice rests on besides the types
Sent == Listed /\ LockKept /\ MarkedOnce /\ NoFrameTwice

LEMMA InitSent == Init => Sent
<1> SUFFICES ASSUME Init PROVE Sent
  OBVIOUS
<1>1. /\ \A w \in Worker : watching[w] = {} /\ reader[w].todo = {} /\ reader[w].holds = NoSocket
      /\ \A s \in Socket : pushed[s] = <<>> /\ socket[s].at = "unopened"
  BY DEF Init, Resting, Unopened
<1>2. Listed /\ LockKept
  BY <1>1 DEF Listed, LockKept
<1>3. MarkedOnce
  BY <1>1, Constants DEF MarkedOnce
<1>4. NoFrameTwice
  BY <1>1 DEF NoFrameTwice
<1>. QED
  BY <1>2, <1>3, <1>4 DEF Sent

LEMMA MarkedNext ==
  ASSUME \A s \in Socket : MarkedAfter(s)
  PROVE  MarkedOnce'
  BY DEF MarkedAfter, MarkedOnce, Owed, StillOwed

\* a step that touches none of what Sent is about
LEMMA UntouchedSent ==
  ASSUME Sent, UNCHANGED <<watching, reader, socket, delivered, pushed>>
  PROVE  Sent'
  BY DEF Sent, Listed, LockKept, MarkedOnce, Owed, StillOwed, NoFrameTwice

\* a step that only makes lists of watchers shorter
LEMMA ShorterSent ==
  ASSUME Sent, UNCHANGED <<socket, delivered, pushed>>,
         \A w \in Worker : /\ watching'[w] \subseteq watching[w]
                           /\ reader'[w].frame = reader[w].frame /\ reader'[w].todo = reader[w].todo
                           /\ reader'[w].holds = reader[w].holds
  PROVE  Sent'
<1>1. Listed' /\ LockKept'
  BY DEF Sent, Listed, LockKept
<1>2. MarkedOnce'
  BY DEF Sent, MarkedOnce, Owed, StillOwed
<1>3. NoFrameTwice'
  BY DEF Sent, NoFrameTwice
<1>. QED
  BY <1>1, <1>2, <1>3 DEF Sent

\* a step that moves a socket on, which neither opens nor ends it nor sends on it
LEMMA MovedSent ==
  ASSUME Typed, Typed', Sent, NEW s \in Socket, UNCHANGED <<reader, delivered, pushed>>,
         \A w \in Worker, o \in Socket : o \in watching'[w] =>
           \/ o \in watching[w]
           \/ o = s /\ socket[s].on = w /\ socket'[s].at \in Joined,
         \A o \in Socket : o # s => socket'[o] = socket[o],
         socket'[s].on = socket[s].on,
         socket[s].at \in Joined => socket'[s].at \in Joined,
         socket'[s].at \notin {"unopened", "pushing"}
  PROVE  Sent'
<1>1. Listed'
  BY DEF Sent, Listed
<1>2. LockKept' /\ NoFrameTwice'
  BY DEF Sent, LockKept, NoFrameTwice
<1>3. MarkedOnce'
  BY DEF Sent, MarkedOnce, Owed, StillOwed
<1>. QED
  BY <1>1, <1>2, <1>3 DEF Sent

LEMMA ReadEventSent ==
  ASSUME Typed, Sent, NEW w \in Worker, ReadEvent(w) PROVE Sent'
<1> DEFINE line == Head(inbox[w])
<1>1. line.number # 0
  BY InboxHead, Constants DEF ReadEvent, Reading, Heard
<1>2. CASE watching[w] = {}
  BY <1>2, UntouchedSent DEF ReadEvent, watchVars
<1>3. CASE watching[w] # {}
  <2>1. reader' = [reader EXCEPT ![w].frame = line.number, ![w].todo = watching[w]]
    BY <1>3 DEF ReadEvent
  <2>2. UNCHANGED <<watching, socket, delivered, pushed>> /\ reader[w].frame = 0
    BY DEF ReadEvent, Reading, watchVars
  <2> HIDE DEF line
  <2>3. /\ reader'[w].frame = line.number /\ reader'[w].todo = watching[w]
        /\ reader'[w].holds = reader[w].holds
        /\ \A o \in Worker : o # w => reader'[o] = reader[o]
    BY <2>1 DEF Typed, ReaderTyped, Reads
  <2>4. reader[w].holds = NoSocket
    BY <2>2 DEF Sent, LockKept
  <2>5. Listed'
    BY <2>2, <2>3 DEF Sent, Listed
  <2>6. LockKept'
    BY <1>1, <2>2, <2>3, <2>4 DEF Sent, LockKept
  <2>7. MarkedOnce'
    BY <2>2, <2>3, <2>4, Constants DEF Sent, MarkedOnce, Owed, StillOwed
  <2>8. NoFrameTwice'
    BY <2>2 DEF Sent, NoFrameTwice
  <2>. QED
    BY <2>5, <2>6, <2>7, <2>8 DEF Sent
<1>. QED
  BY <1>2, <1>3

LEMMA DeliverNotSent ==
  ASSUME Typed, Sent, NEW w \in Worker, NEW s \in Socket, DeliverNot(w, s) PROVE Sent'
<1> DEFINE behind == IF TooFar(s) THEN reader[w].behind \cup {s} ELSE reader[w].behind
<1>1. behind \in SUBSET Socket
  BY DEF Typed, ReaderTyped, Reads
<1>2. reader' = [reader EXCEPT ![w] = Onwards(w, s, behind)]
  BY DEF DeliverNot
<1> HIDE DEF behind
<1>3. /\ reader'[w].todo = reader[w].todo \ {s} /\ reader'[w].holds = NoSocket
      /\ reader'[w].frame = IF reader[w].todo \ {s} = {} THEN 0 ELSE reader[w].frame
      /\ \A o \in Worker : o # w => reader'[o] = reader[o]
  BY <1>1, <1>2, OnwardsTyped DEF Typed, ReaderTyped
<1>4. UNCHANGED <<watching, socket, delivered, pushed>> /\ reader[w].frame # 0
  BY DEF DeliverNot, Delivering, Locked, watchVars
<1>5. Listed'
  BY <1>3, <1>4 DEF Sent, Listed
<1>6. LockKept'
  BY <1>3, <1>4 DEF Sent, LockKept
<1>7. MarkedOnce'
  BY <1>3, <1>4, Constants DEF Sent, MarkedOnce, Owed, StillOwed
<1>8. NoFrameTwice'
  BY <1>4 DEF Sent, NoFrameTwice
<1>. QED
  BY <1>5, <1>6, <1>7, <1>8 DEF Sent

\* a frame that is newly marked is above all those the socket was sent
LEMMA MarkIsNew ==
  ASSUME Typed, Sent, NEW s \in Socket, NEW frame \in 0..MaxFrames, Mark(s, frame)
  PROVE  /\ delivered' = [delivered EXCEPT ![s] = frame] /\ delivered[s] < frame
         /\ \A i \in 1..Len(pushed[s]) : pushed[s][i] < frame
<1>1. delivered[s] \in Nat /\ frame \in Nat /\ \A i \in 1..Len(pushed[s]) : pushed[s][i] \in Nat
  BY FeedConstants DEF Typed, WatchTyped, Frame
<1>2. delivered[s] < frame
  BY <1>1 DEF Mark, Had
<1>. QED
  BY <1>1, <1>2 DEF Mark, Sent, MarkedOnce

LEMMA Numbers ==
  ASSUME Typed
  PROVE  /\ \A s \in Socket : delivered[s] \in Nat /\ socket[s].next \in Nat
         /\ \A s \in Socket : \A i \in 1..Len(pushed[s]) : pushed[s][i] \in Nat
         /\ \A w \in Worker : reader[w].frame \in Nat
<1>1. \A s \in Socket : delivered[s] \in Nat
  BY FeedConstants DEF Typed, WatchTyped
<1>2. \A s \in Socket : socket[s].next \in Nat
  BY FeedConstants DEF Typed, SocketTyped, Served
<1>3. \A s \in Socket : \A i \in 1..Len(pushed[s]) : pushed[s][i] \in Nat
  BY FeedConstants DEF Typed, WatchTyped, Frame
<1>4. \A w \in Worker : reader[w].frame \in Nat
  BY FeedConstants DEF Typed, ReaderTyped, Reads
<1>. QED
  BY <1>1, <1>2, <1>3, <1>4

LEMMA DeliverMarkSent ==
  ASSUME Typed, Typed', Sent, NEW w \in Worker, NEW s \in Socket, DeliverMark(w, s) PROVE Sent'
<1> DEFINE frame == reader[w].frame
<1>1. frame \in 0..MaxFrames /\ s \in reader[w].todo /\ reader[w].holds = NoSocket
  BY DEF Typed, ReaderTyped, Reads, DeliverMark, Delivering
<1>2. /\ delivered' = [delivered EXCEPT ![s] = frame] /\ delivered[s] < frame
      /\ \A i \in 1..Len(pushed[s]) : pushed[s][i] < frame
  BY <1>1, MarkIsNew DEF DeliverMark
<1>3. /\ reader'[w].frame = frame /\ reader'[w].todo = reader[w].todo /\ reader'[w].holds = s
      /\ \A o \in Worker : o # w => reader'[o] = reader[o]
      /\ UNCHANGED <<watching, socket, pushed>>
  BY DEF Typed, ReaderTyped, Reads, DeliverMark
<1>4. \A o \in Worker : o # w => reader[o].holds # s
  BY <1>1, Constants DEF Sent, Listed, LockKept
<1>5. Listed'
  BY <1>3 DEF Sent, Listed
<1>6. LockKept'
  BY <1>1, <1>3 DEF Sent, LockKept
<1> HIDE DEF frame
<1>7. /\ \A o \in Socket : delivered[o] \in Nat /\ socket[o].next \in Nat
      /\ \A o \in Socket : \A i \in 1..Len(pushed[o]) : pushed[o][i] \in Nat
      /\ \A o \in Worker : reader[o].frame \in Nat
      /\ frame \in Nat /\ delivered'[s] = frame
      /\ \A o \in Socket : o # s => delivered'[o] = delivered[o]
  BY <1>1, <1>2, Numbers, FeedConstants DEF Typed, WatchTyped
<1>8. MarkedOnce'
  <2> SUFFICES ASSUME NEW o \in Socket PROVE MarkedAfter(o)
    BY MarkedNext
  <2>1. CASE o # s
    BY <1>3, <1>7, <2>1 DEF Sent, MarkedOnce, MarkedAfter, Owed, StillOwed
  <2>2. CASE o = s
    <3>1. socket[s].at = "pushing" => socket[s].next < frame
      BY <1>2, <1>7 DEF Sent, MarkedOnce, MarkedAfter, Owed, StillOwed
    <3>2. socket[s].at = "pushing" => StillOwed(s, socket[s].next)
      BY <1>2, <1>3, <1>7, <3>1 DEF Sent, MarkedOnce, MarkedAfter, Owed, StillOwed
    <3>3. \A i \in 1..Len(pushed[s]) : pushed[s][i] <= delivered'[s] /\ pushed[s][i] # frame
      BY <1>2, <1>7
    <3>4. \A v \in Worker : reader'[v].holds = s => v = w
      BY <1>3, <1>4
    <3>5. StillOwed(s, frame)
      BY <1>3, <1>7, <3>3 DEF Owed, StillOwed
    <3>. QED
      BY <1>3, <1>7, <2>2, <3>1, <3>2, <3>3, <3>4, <3>5 DEF Sent, MarkedOnce, MarkedAfter, frame
  <2>. QED
    BY <2>1, <2>2
<1>9. NoFrameTwice'
  BY <1>3 DEF Sent, NoFrameTwice
<1>. QED
  BY <1>5, <1>6, <1>8, <1>9 DEF Sent

\* putting a frame that is owed on the channel
LEMMA PushSent ==
  ASSUME Typed, Sent, NEW s \in Socket, NEW frame \in Frame, Owed(s, frame), Push(s, frame)
  PROVE  /\ NoFrameTwice'
         /\ \A o \in Socket : o # s => pushed'[o] = pushed[o]
         /\ \A i \in 1..Len(pushed'[s]) : pushed'[s][i] <= delivered[s]
         /\ \A other : Owed(s, other) /\ other # frame => StillOwed(s, other)
<1>1. pushed[s] \in Seq(Frame) /\ delivered' = delivered
  BY DEF Typed, WatchTyped, Push
<1>2. pushed'[s] = Append(pushed[s], frame) /\ \A o \in Socket : o # s => pushed'[o] = pushed[o]
  BY DEF Typed, WatchTyped, Push
<1>3. /\ Len(pushed'[s]) = Len(pushed[s]) + 1 /\ Len(pushed[s]) \in Nat
      /\ pushed'[s][Len(pushed[s]) + 1] = frame
      /\ \A i \in 1..Len(pushed[s]) : pushed'[s][i] = pushed[s][i]
  BY <1>1, <1>2
<1>4. \A i \in 1..Len(pushed'[s]) : i = Len(pushed[s]) + 1 \/ i \in 1..Len(pushed[s])
  BY <1>3
<1>5. NoFrameTwice'
  <2> SUFFICES ASSUME NEW o \in Socket, NEW i \in 1..Len(pushed'[o]), NEW j \in 1..Len(pushed'[o]), i # j
               PROVE  pushed'[o][i] # pushed'[o][j]
    BY DEF NoFrameTwice
  <2>1. CASE o # s
    BY <1>2, <2>1 DEF Sent, NoFrameTwice
  <2>2. CASE o = s
    BY <1>3, <1>4, <2>2 DEF Sent, NoFrameTwice, Owed, StillOwed
  <2>. QED
    BY <2>1, <2>2
<1>6. \A i \in 1..Len(pushed'[s]) : pushed'[s][i] <= delivered[s]
  BY <1>3, <1>4 DEF Sent, MarkedOnce, Owed, StillOwed
<1>7. \A other : Owed(s, other) /\ other # frame => StillOwed(s, other)
  BY <1>1, <1>3, <1>4 DEF Owed, StillOwed
<1>. QED
  BY <1>2, <1>5, <1>6, <1>7

LEMMA DeliverPushSent ==
  ASSUME Typed, Sent, NEW w \in Worker, NEW s \in Socket, DeliverPush(w, s) PROVE Sent'
<1>1. /\ reader[w].frame \in Frame /\ reader[w].behind \in SUBSET Socket
      /\ reader[w].holds = s /\ s \in reader[w].todo
  BY FeedConstants, Constants DEF Typed, ReaderTyped, Reads, DeliverPush, Locked, Frame, Sent, LockKept
<1>2. /\ reader'[w].todo = reader[w].todo \ {s} /\ reader'[w].holds = NoSocket
      /\ reader'[w].frame = IF reader[w].todo \ {s} = {} THEN 0 ELSE reader[w].frame
      /\ \A o \in Worker : o # w => reader'[o] = reader[o]
  BY <1>1, OnwardsTyped DEF Typed, ReaderTyped, DeliverPush
<1>3. UNCHANGED <<watching, socket, delivered>> /\ reader[w].frame # 0
  BY DEF DeliverPush, Push, Locked
<1>4. Owed(s, reader[w].frame)
  BY <1>1 DEF Sent, MarkedOnce, MarkedAfter
<1>5. /\ NoFrameTwice'
      /\ \A o \in Socket : o # s => pushed'[o] = pushed[o]
      /\ \A i \in 1..Len(pushed'[s]) : pushed'[s][i] <= delivered[s]
      /\ \A other : Owed(s, other) /\ other # reader[w].frame => StillOwed(s, other)
  BY <1>1, <1>4, PushSent DEF DeliverPush
<1>6. socket[s].at \in Joined /\ \A o \in Worker : o # w => reader[o].holds # s
  BY <1>1, Constants DEF Sent, Listed, LockKept
<1>7. Listed'
  BY <1>2, <1>3 DEF Sent, Listed
<1>8. LockKept'
  BY <1>2, <1>3 DEF Sent, LockKept
<1>9. MarkedOnce'
  <2> SUFFICES ASSUME NEW o \in Socket PROVE MarkedAfter(o)
    BY MarkedNext
  <2>1. CASE o # s
    <3>1. \A frame : Owed(o, frame) => StillOwed(o, frame)
      BY <1>3, <1>5, <2>1 DEF Owed, StillOwed
    <3>2. \A v \in Worker : reader'[v].holds = o => v # w
      BY <1>2, Constants
    <3>. QED
      BY <1>2, <1>3, <1>5, <2>1, <3>1, <3>2 DEF Sent, MarkedOnce, MarkedAfter
  <2>2. CASE o = s
    <3>1. socket[s].at # "unopened"
      BY <1>6 DEF Joined
    <3>2. socket[s].at = "pushing" => StillOwed(s, socket[s].next)
      BY <1>1, <1>5 DEF Sent, MarkedOnce, MarkedAfter
    <3>3. \A v \in Worker : reader'[v].holds # s
      BY <1>2, <1>6, Constants
    <3>. QED
      BY <1>3, <1>5, <2>2, <3>1, <3>2, <3>3 DEF MarkedAfter
  <2>. QED
    BY <2>1, <2>2
<1>. QED
  BY <1>5, <1>7, <1>8, <1>9 DEF Sent

LEMMA CloseBehindSent ==
  ASSUME Typed, Sent, NEW w \in Worker, NEW s \in Socket, CloseBehind(w, s) PROVE Sent'
<1>1. \A o \in Worker : watching'[o] \subseteq watching[o]
  BY DEF Typed, ReaderTyped, CloseBehind, CloseWatcher
<1>2. \A o \in Worker : /\ reader'[o].frame = reader[o].frame /\ reader'[o].todo = reader[o].todo
                        /\ reader'[o].holds = reader[o].holds
  BY DEF Typed, ReaderTyped, Reads, CloseBehind
<1>3. UNCHANGED <<socket, delivered, pushed>>
  BY DEF CloseBehind, CloseWatcher
<1>. QED
  BY <1>1, <1>2, <1>3, ShorterSent

LEMMA CloseAllSent ==
  ASSUME Typed, Sent, NEW w \in Worker, CloseAll(w) PROVE Sent'
<1>1. \A o \in Worker : watching'[o] \subseteq watching[o]
  BY DEF Typed, ReaderTyped, CloseAll
<1>2. UNCHANGED <<reader, socket, delivered, pushed>>
  BY DEF CloseAll
<1>. QED
  BY <1>1, <1>2, ShorterSent

\* where a socket is after a step of its own
LEMMA ServeMoves ==
  ASSUME Typed, NEW s \in Socket, NEW from, NEW to, Serve(s, from, to)
  PROVE  /\ socket'[s].at = to /\ socket[s].at = from
         /\ socket'[s].on = socket[s].on /\ socket'[s].next = socket[s].next
         /\ \A o \in Socket : o # s => socket'[o] = socket[o]
  BY DEF Typed, SocketTyped, Served, Serve

LEMMA AfterSent ==
  ASSUME Typed, Typed', Sent, NEW s \in Socket, After(s) PROVE Sent'
<1>1. Serve(s, "joined", "asking") /\ UNCHANGED <<watching, reader, delivered, pushed>>
  BY DEF After, Serve, watchVars
<1>. QED
  BY <1>1, ServeMoves, MovedSent DEF Joined

LEMMA ReadAnswerSent ==
  ASSUME Typed, Typed', Sent, NEW w \in Worker, ReadAnswer(w) PROVE Sent'
<1> DEFINE line == Head(inbox[w])
<1>1. line.for \in Socket
  BY InboxHead DEF ReadAnswer, Reading, Heard, Line
<1>2. /\ socket' = IF socket[line.for].at = "asking"
                   THEN [socket EXCEPT ![line.for].at = "replaying", ![line.for].upTo = line.number]
                   ELSE socket
      /\ UNCHANGED <<watching, reader, delivered, pushed>>
  BY DEF ReadAnswer, watchVars
<1> HIDE DEF line
<1>3. CASE socket[line.for].at = "asking"
  <2>1. /\ socket'[line.for].at = "replaying" /\ socket'[line.for].on = socket[line.for].on
        /\ \A o \in Socket : o # line.for => socket'[o] = socket[o]
    BY <1>1, <1>2, <1>3 DEF Typed, SocketTyped, Served
  <2>. QED
    BY <1>1, <1>2, <2>1, MovedSent DEF Joined
<1>4. CASE socket[line.for].at # "asking"
  BY <1>2, <1>4, UntouchedSent
<1>. QED
  BY <1>3, <1>4

LEMMA AdmitSent ==
  ASSUME Typed, Typed', Sent, NEW s \in Socket, Admit(s) PROVE Sent'
<1>1. socket[s].at = "opened" /\ UNCHANGED <<watching, reader, delivered, pushed>>
  BY DEF Admit
<1>2. /\ \A w \in Worker : s \notin watching[w] \cup reader[w].todo
      /\ \A w \in Worker : reader[w].holds # s
  BY <1>1, Constants DEF Sent, Listed, LockKept, Joined
<1>3. socket'[s].at \in {"admitted", "over"} /\ \A o \in Socket : o # s => socket'[o] = socket[o]
  BY UnopenedTyped DEF Typed, SocketTyped, Served, Admit
<1>4. Listed'
  BY <1>1, <1>2, <1>3 DEF Sent, Listed
<1>5. LockKept' /\ NoFrameTwice'
  BY <1>1 DEF Sent, LockKept, NoFrameTwice
<1>6. MarkedOnce'
  BY <1>1, <1>2, <1>3 DEF Sent, MarkedOnce, Owed, StillOwed
<1>. QED
  BY <1>4, <1>5, <1>6 DEF Sent

LEMMA JoinSent ==
  ASSUME Typed, Typed', Sent, NEW s \in Socket, Join(s) PROVE Sent'
<1>1. Serve(s, "admitted", "joined") /\ UNCHANGED <<reader, delivered, pushed>>
  BY DEF Join, watchVars
<1>2. \A w \in Worker, o \in Socket : o \in watching'[w] => o \in watching[w] \/ (o = s /\ socket[s].on = w)
  BY DEF Join, Typed, ReaderTyped
<1>. QED
  BY <1>1, <1>2, ServeMoves, MovedSent DEF Joined

\* a step of a socket's own thread that closes its watcher
LEMMA ClosesSent ==
  ASSUME Typed, Typed', Sent, NEW s \in Socket, NEW from \in Joined, Serve(s, from, "reading"),
         CloseWatcher(socket[s].on, s), UNCHANGED reader
  PROVE  Sent'
<1>1. \A w \in Worker : watching'[w] \subseteq watching[w]
  BY DEF CloseWatcher, Typed, ReaderTyped
<1>2. UNCHANGED <<delivered, pushed>>
  BY DEF CloseWatcher
<1>. QED
  BY <1>1, <1>2, ServeMoves, MovedSent DEF Joined

LEMMA ReplaySkipsSent ==
  ASSUME Typed, Typed', Sent, NEW s \in Socket, ReplaySkips(s) PROVE Sent'
<1>1. /\ socket[s].at = "replaying" /\ socket'[s].at = "replaying" /\ socket'[s].on = socket[s].on
      /\ \A o \in Socket : o # s => socket'[o] = socket[o]
      /\ UNCHANGED <<watching, reader, delivered, pushed>>
  BY DEF ReplaySkips, Replaying, Typed, SocketTyped, Served, watchVars
<1>. QED
  BY <1>1, MovedSent DEF Joined

LEMMA ReplayMarkSent ==
  ASSUME Typed, Typed', Sent, NEW s \in Socket, ReplayMark(s) PROVE Sent'
<1> DEFINE frame == socket[s].next
<1>1. frame \in Frame /\ frame \in 0..MaxFrames
  BY ReplayedFrame, Constants DEF ReplayMark
<1>2. /\ delivered' = [delivered EXCEPT ![s] = frame] /\ delivered[s] < frame
      /\ \A i \in 1..Len(pushed[s]) : pushed[s][i] < frame
  BY <1>1, MarkIsNew DEF ReplayMark
<1>3. /\ socket'[s].at = "pushing" /\ socket[s].at = "replaying"
      /\ socket'[s].on = socket[s].on /\ socket'[s].next = frame
      /\ \A o \in Socket : o # s => socket'[o] = socket[o]
      /\ UNCHANGED <<watching, reader, pushed>>
  BY ServeMoves DEF ReplayMark
<1>4. Listed'
  BY <1>3 DEF Sent, Listed, Joined
<1>5. LockKept' /\ NoFrameTwice'
  BY <1>3 DEF Sent, LockKept, NoFrameTwice
<1>8. frame \in Nat
  BY Numbers
<1> HIDE DEF frame
<1>6. /\ \A o \in Socket : delivered[o] \in Nat
      /\ \A o \in Socket : \A i \in 1..Len(pushed[o]) : pushed[o][i] \in Nat
      /\ \A w \in Worker : reader[w].frame \in Nat
      /\ frame \in Nat /\ delivered'[s] = frame
      /\ \A o \in Socket : o # s => delivered'[o] = delivered[o]
  BY <1>2, <1>8, Numbers DEF Typed, WatchTyped
<1>7. MarkedOnce'
  <2> SUFFICES ASSUME NEW o \in Socket PROVE MarkedAfter(o)
    BY MarkedNext
  <2>1. CASE o # s
    BY <1>3, <1>6, <2>1 DEF Sent, MarkedOnce, MarkedAfter, Owed, StillOwed
  <2>2. CASE o = s
    <3>1. \A i \in 1..Len(pushed[s]) : pushed[s][i] <= delivered'[s] /\ pushed[s][i] # frame
      BY <1>2, <1>6
    <3>2. StillOwed(s, frame)
      BY <1>3, <1>6, <3>1 DEF Owed, StillOwed
    <3>3. \A w \in Worker : reader[w].holds = s => reader[w].frame < frame /\ StillOwed(s, reader[w].frame)
      BY <1>2, <1>3, <1>6 DEF Sent, MarkedOnce, MarkedAfter, Owed, StillOwed
    <3>. QED
      BY <1>3, <1>6, <2>2, <3>1, <3>2, <3>3 DEF MarkedAfter, frame
  <2>. QED
    BY <2>1, <2>2
<1>. QED
  BY <1>4, <1>5, <1>7 DEF Sent

LEMMA ReplayPushSent ==
  ASSUME Typed, Typed', Sent, NEW s \in Socket, ReplayPush(s) PROVE Sent'
<1> DEFINE frame == socket[s].next
<1>1. frame \in Frame /\ socket[s].at = "pushing" /\ Owed(s, frame) /\ Push(s, frame)
  BY DEF Typed, SocketTyped, ReplayPush, Sent, MarkedOnce
<1>2. /\ socket'[s].at = "replaying" /\ socket'[s].on = socket[s].on
      /\ \A o \in Socket : o # s => socket'[o] = socket[o]
      /\ UNCHANGED <<watching, reader, delivered>>
  BY DEF ReplayPush, Push, Typed, SocketTyped, Served
<1>3. /\ NoFrameTwice'
      /\ \A o \in Socket : o # s => pushed'[o] = pushed[o]
      /\ \A i \in 1..Len(pushed'[s]) : pushed'[s][i] <= delivered[s]
      /\ \A other : Owed(s, other) /\ other # frame => StillOwed(s, other)
  BY <1>1, PushSent
<1>4. Listed'
  BY <1>1, <1>2 DEF Sent, Listed, Joined
<1>5. LockKept'
  BY <1>2 DEF Sent, LockKept
<1>6. MarkedOnce'
  <2> SUFFICES ASSUME NEW o \in Socket PROVE MarkedAfter(o)
    BY MarkedNext
  <2>1. CASE o # s
    <3>1. \A other : Owed(o, other) => StillOwed(o, other)
      BY <1>2, <1>3, <2>1 DEF Owed, StillOwed
    <3>. QED
      BY <1>2, <1>3, <2>1, <3>1 DEF Sent, MarkedOnce, MarkedAfter
  <2>2. CASE o = s
    BY <1>1, <1>2, <1>3, <2>2 DEF Sent, MarkedOnce, MarkedAfter
  <2>. QED
    BY <2>1, <2>2
<1>. QED
  BY <1>3, <1>4, <1>5, <1>6 DEF Sent

LEMMA LeaveSent ==
  ASSUME Typed, Typed', Sent, NEW s \in Socket, Leave(s) PROVE Sent'
<1> DEFINE w == socket[s].on
<1>1. w \in Worker /\ reader[w].frame = 0
  BY DEF Typed, SocketTyped, Served, Leave, Locked
<1>2. /\ watching' = [watching EXCEPT ![w] = @ \ {s}]
      /\ socket'[s].at = "over" /\ pushed'[s] = <<>>
      /\ \A o \in Socket : o # s => /\ socket'[o] = socket[o] /\ pushed'[o] = pushed[o]
                                    /\ delivered'[o] = delivered[o]
      /\ reader' = reader
  BY UnopenedTyped DEF Typed, SocketTyped, WatchTyped, Leave
<1>3. \A v \in Worker : s \notin watching'[v] \cup reader[v].todo
  BY <1>1, <1>2 DEF Typed, ReaderTyped, Sent, Listed, LockKept
<1>4. \A v \in Worker : reader[v].holds # s
  BY <1>3, Constants DEF Sent, LockKept
<1>5. \A v \in Worker : watching'[v] \subseteq watching[v]
  BY <1>1, <1>2 DEF Typed, ReaderTyped
<1>6. Listed'
  BY <1>2, <1>3, <1>5 DEF Sent, Listed
<1>7. LockKept'
  BY <1>2 DEF Sent, LockKept
<1>8. MarkedOnce'
  <2> SUFFICES ASSUME NEW o \in Socket PROVE MarkedAfter(o)
    BY MarkedNext
  <2>1. \A frame : o # s => (Owed(o, frame) => StillOwed(o, frame))
    BY <1>2 DEF Owed, StillOwed
  <2>2. \A i \in 1..Len(pushed'[s]) : FALSE
    BY <1>2
  <2>. QED
    BY <1>2, <1>4, <2>1, <2>2 DEF Sent, MarkedOnce, MarkedAfter
<1>9. NoFrameTwice'
  BY <1>2 DEF Sent, NoFrameTwice
<1>. QED
  BY <1>6, <1>7, <1>8, <1>9 DEF Sent

LEMMA OpenSent ==
  ASSUME Typed, Typed', Sent, NEW s \in Socket, Open(s) PROVE Sent'
<1>1. socket[s].at = "unopened" /\ UNCHANGED <<watching, reader, pushed>>
  BY DEF Open
<1>2. /\ \A w \in Worker : s \notin watching[w] \cup reader[w].todo
      /\ \A w \in Worker : reader[w].holds # s
  BY <1>1, Constants DEF Sent, Listed, LockKept, Joined
<1>3. /\ socket'[s].at = "opened" /\ pushed[s] = <<>>
      /\ \A o \in Socket : o # s => socket'[o] = socket[o] /\ delivered'[o] = delivered[o]
  BY <1>1 DEF Typed, SocketTyped, WatchTyped, Open, Sent, MarkedOnce
<1>4. Listed'
  BY <1>1, <1>2, <1>3 DEF Sent, Listed
<1>5. LockKept' /\ NoFrameTwice'
  BY <1>1 DEF Sent, LockKept, NoFrameTwice
<1>6. MarkedOnce'
  <2> SUFFICES ASSUME NEW o \in Socket PROVE MarkedAfter(o)
    BY MarkedNext
  <2>1. \A frame : o # s => (Owed(o, frame) => StillOwed(o, frame))
    BY <1>1, <1>3 DEF Owed, StillOwed
  <2>2. \A i \in 1..Len(pushed[s]) : FALSE
    BY <1>3
  <2>. QED
    BY <1>1, <1>2, <1>3, <2>1, <2>2 DEF Sent, MarkedOnce, MarkedAfter
<1>. QED
  BY <1>4, <1>5, <1>6 DEF Sent

-----------------------------------------------------------------------------
(* The theorems *)

LEMMA StepTyped == ASSUME Typed, [Next]_vars PROVE Typed'
<1>1. CASE UNCHANGED vars
  BY <1>1 DEF Typed, ServiceTyped, InboxTyped, WorkersTyped, ReaderTyped, SocketTyped, WatchTyped,
     MonitorTyped, vars, serviceVars, workerVars, watchVars
<1>2. ASSUME NEW k \in Others, Emit(k) PROVE Typed'
  BY <1>2, EmitTyped
<1>3. ASSUME NEW k \in Caller, Flush(k) PROVE Typed'
  BY <1>3, TakeTyped, SayTyped DEF Flush
<1>4. ASSUME NEW w \in Worker, Answers(w) \/ Replace(w) \/ Retire(w) \/ CloseAll(w) PROVE Typed'
  BY <1>4, AnswersTyped, ReplaceTyped, RetireTyped, CloseAllTyped
<1>5. ASSUME NEW w \in Worker, Deliver(w) PROVE Typed'
  BY <1>5, ReadAnswerTyped, ReadEventTyped, DeliverNotTyped, DeliverMarkTyped, DeliverPushTyped,
     CloseBehindTyped DEF Deliver
<1>6. ASSUME NEW s \in Socket, ServeFeed(s) PROVE Typed'
  BY <1>6, AdmitTyped, JoinTyped, AfterTyped, LeaveTyped, ReplaySkipsTyped, ReplayMarkTyped,
     ReplayPushTyped, ReplayBehindTyped DEF ServeFeed
<1>7. ASSUME NEW s \in Socket, AskFails(s) \/ Open(s) \/ Write(s) \/ Cut(s) PROVE Typed'
  BY <1>7, AskFailsTyped, OpenTyped, WriteTyped, CutTyped
<1>. QED
  BY <1>1, <1>2, <1>3, <1>4, <1>5, <1>6, <1>7 DEF Next

LEMMA StepSent == ASSUME Typed, Sent, [Next]_vars PROVE Sent'
<1>. Typed'
  BY StepTyped
<1>1. CASE UNCHANGED vars
  BY <1>1, UntouchedSent DEF vars, watchVars
<1>2. ASSUME NEW k \in Others, Emit(k) PROVE Sent'
  BY <1>2, UntouchedSent DEF Emit, watchVars
<1>3. ASSUME NEW k \in Caller, Flush(k) PROVE Sent'
  BY <1>3, UntouchedSent DEF Flush, Take, Say, watchVars
<1>4. ASSUME NEW w \in Worker, Answers(w) \/ Replace(w) \/ Retire(w) PROVE Sent'
  BY <1>4, UntouchedSent DEF Answers, Replace, Retire, watchVars
<1>5. ASSUME NEW w \in Worker, CloseAll(w) PROVE Sent'
  BY <1>5, CloseAllSent
<1>6. ASSUME NEW w \in Worker, Deliver(w) PROVE Sent'
  BY <1>6, ReadAnswerSent, ReadEventSent, DeliverNotSent, DeliverMarkSent, DeliverPushSent,
     CloseBehindSent DEF Deliver
<1>7. ASSUME NEW s \in Socket, AskFails(s) \/ ReplayBehind(s) PROVE Sent'
  BY <1>7, ClosesSent DEF AskFails, ReplayBehind, Joined
<1>8. ASSUME NEW s \in Socket, ServeFeed(s) PROVE Sent'
  BY <1>7, <1>8, AdmitSent, JoinSent, AfterSent, LeaveSent, ReplaySkipsSent, ReplayMarkSent,
     ReplayPushSent DEF ServeFeed
<1>9. ASSUME NEW s \in Socket, Write(s) \/ Cut(s) PROVE Sent'
  BY <1>9, UntouchedSent DEF Write, Cut
<1>10. ASSUME NEW s \in Socket, Open(s) PROVE Sent'
  BY <1>10, OpenSent
<1>. QED
  BY <1>1, <1>2, <1>3, <1>4, <1>5, <1>6, <1>7, <1>8, <1>9, <1>10 DEF Next

\* Type correctness of the feed.
THEOREM FeedTyped == Spec => []TypeOK
<1>1. Typed => TypeOK
  <2>1. Seq(Heard) \subseteq Seq(Line)
    BY DEF Heard
  <2>. QED
    BY <2>1 DEF Typed, ServiceTyped, InboxTyped, WorkersTyped, ReaderTyped, SocketTyped, WatchTyped,
       MonitorTyped, TypeOK
<1>. QED
  BY <1>1, InitTyped, StepTyped, PTL DEF Spec

\* No socket is ever sent a frame twice, by the reading thread, by the replay or
\* by both at once (Watcher::send marks under its lock and sends after it).
THEOREM NoFrameTwiceHolds == Spec => []NoFrameTwice
<1>1. Sent => NoFrameTwice
  BY DEF Sent
<1>2. Typed /\ Sent /\ [Next]_vars => (Typed /\ Sent)'
  BY StepTyped, StepSent
<1>. QED
  BY <1>1, <1>2, InitTyped, InitSent, PTL DEF Spec

-----------------------------------------------------------------------------
(* What FeedReachesMonitor rests on *)

\* Frames nobody has said yet.
Unsaid(frame) ==
  \/ \E i \in 1..Len(queue) : queue[i] = frame
  \/ \E k \in Caller : \E i \in 1..Len(caller[k].batch) : caller[k].batch[i] = frame

\* The first m frames are said and no other; what is queued or taken is in order.
SaidInOrder(m) ==
  /\ m <= sequence
  /\ \A i \in 1..Len(queue) : m < queue[i] /\ queue[i] <= sequence
  /\ \A k \in Caller : \A i \in 1..Len(caller[k].batch) :
       m < caller[k].batch[i] /\ caller[k].batch[i] <= sequence
  /\ \A frame \in (m + 1)..sequence : Unsaid(frame)
  /\ \A i, j \in 1..Len(queue) : i < j => queue[i] < queue[j]
  /\ \A k \in Caller : \A i, j \in 1..Len(caller[k].batch) : i < j => caller[k].batch[i] < caller[k].batch[j]
  /\ \A k, l \in Caller : k # l =>
       \A i \in 1..Len(caller[k].batch) : \A j \in 1..Len(caller[l].batch) : caller[k].batch[i] # caller[l].batch[j]
  /\ \A k \in Caller : \A i \in 1..Len(caller[k].batch) : \A j \in 1..Len(queue) : caller[k].batch[i] < queue[j]

\* Of those the worker has taken up the first a, and the others are on their way to it in order.
IsEvent(w, i) == inbox[w][i].for = NoSocket
TakenUp(w, m, a) ==
  /\ a <= m
  /\ w \in attached => \A frame \in (a + 1)..m : \E i \in 1..Len(inbox[w]) : inbox[w][i] = Event(frame)
  /\ w \notin attached => reader[w].frame = 0 /\ \A i \in 1..Len(inbox[w]) : ~IsEvent(w, i)
  /\ \A i \in 1..Len(inbox[w]) : IsEvent(w, i) => a < inbox[w][i].number /\ inbox[w][i].number <= m
  /\ \A i, j \in 1..Len(inbox[w]) :
       IsEvent(w, i) /\ IsEvent(w, j) /\ i < j => inbox[w][i].number < inbox[w][j].number
  /\ reader[w].frame # 0 => reader[w].frame = a

\* The history up to frame n is on its way to the socket, by this caller.
Asked(s, k, n) ==
  \/ caller[k].asks = s /\ caller[k].upTo = n
  \/ k \in Worker /\ \E i \in 1..Len(inbox[k]) : inbox[k][i] = Answer(s, n)

\* A socket asks once, its worker answers, and only the monitor's has a channel.
AskedOnce(s) ==
  /\ socket[s].upTo <= sequence
  /\ socket[s].at \in {"unopened", "opened", "admitted", "joined"} => \A k \in Caller : \A n : ~Asked(s, k, n)
  /\ socket[s].at = "asking" => \A k \in Caller : \A n : Asked(s, k, n) => k = socket[s].on /\ n <= sequence
  /\ socket[s].at \notin {"unopened", "over"} => socket[s].on \in attached
  /\ socket[s].at = "unopened" => s # monitor.on /\ \A w \in Worker : s \notin reader[w].behind
  /\ s # monitor.on => channel[s] = <<>>

\* A call has a batch only between taking it and saying the last of it.
Empty(k) == caller[k].at \in {"idle", "acted", "said"} => caller[k].batch = <<>>

Settled == (\A s \in Socket : AskedOnce(s)) /\ (\A k \in Caller : Empty(k))

\* The end is on the channel, and what is there before it goes on from the cursor.
Closed(s) == \E i \in 1..Len(channel[s]) : channel[s][i] = EndOfChannel
BeforeEnd(s, i) == \A j \in 1..i : channel[s][j] # EndOfChannel
ChannelInOrder(s) ==
  \A i \in 1..Len(channel[s]) : BeforeEnd(s, i) => channel[s][i] = monitor.cursor + i /\ channel[s][i] <= sequence

\* Nobody forgets a watcher without the end on its channel.
Remembered(s) ==
  \/ Closed(s) \/ socket[s].at \in {"opened", "admitted"}
  \/ socket[s].at \in {"joined", "asking", "replaying", "pushing"} /\ s \in watching[socket[s].on]

\* The first a frames, which its worker has taken up, reach a socket that is sent up to n.
Reached(s, a, n) == a <= n \/ (s \in reader[socket[s].on].todo /\ a <= n + 1)
Promised(s, a, n) == Reached(s, a, delivered[s]) \/ Reached(s, a, n)

Marking(s) == socket[s].at = "pushing" \/ \E w \in Worker : reader[w].holds = s

\* What is marked follows what is on the channel, and the replay goes on from there.
MarkedInOrder(s) ==
  /\ delivered[s] <= sequence
  /\ delivered[s] = monitor.cursor + Len(channel[s]) + (IF Marking(s) THEN 1 ELSE 0)
  /\ \A w \in Worker : reader[w].holds = s => Live(s) /\ reader[w].frame = delivered[s]
ReplayInOrder(s) ==
  /\ socket[s].at \in {"opened", "admitted", "joined", "asking"} => socket[s].next = delivered[s] + 1
  /\ Replaying(s) => socket[s].next = delivered[s] + 1
  /\ socket[s].at = "pushing" => socket[s].next = delivered[s]
  /\ Live(s) => socket[s].upTo <= delivered[s]

\* A watcher skips nothing, or is behind and will be closed.
NoneSkipped(s, a) ==
  \/ s \in reader[socket[s].on].behind /\ TooFar(s)
  \/ /\ s \notin reader[socket[s].on].behind
     /\ socket[s].at \in {"replaying", "pushing"} => Promised(s, a, socket[s].upTo)
     /\ socket[s].at = "asking" => \A n : Asked(s, socket[s].on, n) => Promised(s, a, n)

OnItsWay(s, a) == MarkedInOrder(s) /\ ReplayInOrder(s) /\ NoneSkipped(s, a)
Followed(s, a) == Remembered(s) /\ ChannelInOrder(s) /\ (~Closed(s) => OnItsWay(s, a))

\* m frames are said, the first b[w] of them taken up by each worker, and the monitor's socket follows.
Keeping(m, b) ==
  /\ m \in Nat /\ b \in [Worker -> Nat]
  /\ SaidInOrder(m) /\ \A w \in Worker : TakenUp(w, m, b[w])
  /\ monitor.on # NoSocket => Followed(monitor.on, b[socket[monitor.on].on])

ReadUp == monitor.read = 1..monitor.cursor /\ monitor.cursor <= sequence

Tracked == \E m : \E b : Keeping(m, b)

InOrder == ~overtaken => ReadUp /\ Tracked

-----------------------------------------------------------------------------
(* Batches and asks *)

LEMMA Naturals1 ==
  ASSUME Typed
  PROVE  /\ sequence \in Nat /\ queue \in Seq(Nat) /\ monitor.cursor \in Nat
         /\ \A k \in Caller : /\ caller[k].batch \in Seq(Nat) /\ caller[k].upTo \in Nat
                              /\ caller[k].asks \in Socket \cup {NoSocket}
         /\ \A w \in Worker : /\ inbox[w] \in Seq(Heard) /\ w \in Caller
                              /\ reader[w].holds \in Socket \cup {NoSocket}
         /\ \A s \in Socket : /\ socket[s].on \in Worker /\ socket[s].upTo \in Nat
                              /\ channel[s] \in Seq(Nat) /\ pushed[s] \in Seq(Nat)
<1>1. sequence \in Nat /\ monitor.cursor \in Nat
  BY FeedConstants DEF Typed, ServiceTyped, MonitorTyped, Follows
<1>2. Frame \subseteq Nat /\ 0..MaxFrames \subseteq Nat
  BY FeedConstants DEF Frame
<1>7. Seq(Frame) \subseteq Seq(Nat) /\ Seq(0..MaxFrames) \subseteq Seq(Nat)
  <2>1. \A S, T : S \subseteq T => Seq(S) \subseteq Seq(T)
    OBVIOUS
  <2>. QED
    BY <1>2, <2>1
<1>3. queue \in Seq(Nat) /\ \A s \in Socket : channel[s] \in Seq(Nat) /\ pushed[s] \in Seq(Nat)
  BY <1>7 DEF Typed, ServiceTyped, WatchTyped
<1>4. \A k \in Caller : /\ caller[k].batch \in Seq(Nat) /\ caller[k].upTo \in Nat
                        /\ caller[k].asks \in Socket \cup {NoSocket}
  BY <1>2, <1>7 DEF Typed, ServiceTyped, Calls
<1>5. \A w \in Worker : inbox[w] \in Seq(Heard) /\ w \in Caller /\ reader[w].holds \in Socket \cup {NoSocket}
  BY Constants DEF Typed, InboxTyped, ReaderTyped, Reads
<1>6. \A s \in Socket : socket[s].on \in Worker /\ socket[s].upTo \in Nat
  BY <1>2 DEF Typed, SocketTyped, Served
<1>. QED
  BY <1>1, <1>3, <1>4, <1>5, <1>6

\* what a call becomes
LEMMA CallMoves ==
  ASSUME Typed, NEW k \in Caller, NEW from, NEW to, Call(k, from, to)
  PROVE  /\ caller[k].at = from /\ caller'[k] = to /\ \A o \in Caller : o # k => caller'[o] = caller[o]
  BY DEF Typed, ServiceTyped, Call

LEMMA FlushedKeeps ==
  ASSUME NEW call \in Calls
  PROVE  /\ Flushed(call).batch = <<>> /\ Flushed(call).at \in {"idle", "said"}
         /\ Flushed(call).asks # NoSocket => Flushed(call).asks = call.asks /\ Flushed(call).upTo = call.upTo
<1>1. CASE call.asks = NoSocket
  BY <1>1 DEF Flushed, Idle
<1>2. CASE call.asks # NoSocket
  <2>1. Flushed(call) = [at |-> "said", batch |-> <<>>, asks |-> call.asks, upTo |-> call.upTo]
    BY <1>2 DEF Flushed, Calls
  <2>. QED
    BY <2>1
<1>. QED
  BY <1>1, <1>2

LEMMA ActedIs ==
  ASSUME NEW asks
  PROVE  /\ Acted(asks).at = "acted" /\ Acted(asks).batch = <<>>
         /\ Acted(asks).asks = asks /\ Acted(asks).upTo = sequence
  BY DEF Acted

\* a flush takes the queue into an empty batch, or has none
LEMMA TakeMoves ==
  ASSUME Typed, NEW k \in Caller, Take(k)
  PROVE  /\ caller[k].at = "acted" /\ caller'[k].batch = queue /\ queue' = <<>>
         /\ caller'[k].at \in {"idle", "acted", "said"} => caller'[k].batch = <<>>
         /\ caller'[k].asks # NoSocket => caller'[k].asks = caller[k].asks /\ caller'[k].upTo = caller[k].upTo
         /\ \A o \in Caller : o # k => caller'[o] = caller[o]
<1>1. caller[k] \in Calls /\ queue \in Seq(Frame)
  BY DEF Typed, ServiceTyped
<1>2. CASE queue = <<>>
  <2>1. Call(k, "acted", Flushed(caller[k])) /\ queue' = <<>>
    BY <1>2 DEF Take
  <2>. QED
    BY <1>1, <1>2, <2>1, CallMoves, FlushedKeeps
<1>3. CASE queue # <<>>
  <2> DEFINE taken == [caller[k] EXCEPT !.at = "taken", !.batch = queue]
  <2>1. /\ taken.at = "taken" /\ taken.batch = queue
        /\ taken.asks = caller[k].asks /\ taken.upTo = caller[k].upTo
    BY <1>1 DEF Calls
  <2>2. Call(k, "acted", taken) /\ queue' = <<>>
    BY <1>3 DEF Take
  <2> HIDE DEF taken
  <2>3. caller[k].at = "acted" /\ caller'[k] = taken /\ \A o \in Caller : o # k => caller'[o] = caller[o]
    BY <2>2, CallMoves
  <2>. QED
    BY <2>1, <2>2, <2>3
<1>. QED
  BY <1>2, <1>3

\* a frame that is said leaves its batch
LEMMA SayMoves ==
  ASSUME Typed, NEW k \in Caller, Say(k)
  PROVE  /\ caller[k].batch \in Seq(Nat) /\ caller[k].batch # <<>>
         /\ caller'[k].batch = Tail(caller[k].batch)
         /\ caller'[k].at \in {"idle", "acted", "said"} => caller'[k].batch = <<>>
         /\ caller'[k].asks # NoSocket => caller'[k].asks = caller[k].asks /\ caller'[k].upTo = caller[k].upTo
         /\ \A o \in Caller : o # k => caller'[o] = caller[o]
<1> DEFINE rest == Tail(caller[k].batch)
<1> DEFINE more == [caller[k] EXCEPT !.at = "saying", !.batch = rest]
<1> DEFINE next == IF rest = <<>> THEN Flushed(caller[k]) ELSE more
<1>1. Call(k, "taken", next) \/ Call(k, "saying", next)
  BY DEF Say
<1>2. caller[k] \in Calls /\ caller[k].batch # <<>> /\ caller[k].batch \in Seq(Nat)
  BY <1>1, Naturals1 DEF Typed, ServiceTyped, Call
<1> HIDE DEF rest
<1>3. more.at = "saying" /\ more.batch = rest /\ more.asks = caller[k].asks /\ more.upTo = caller[k].upTo
  BY <1>2 DEF Calls
<1> HIDE DEF more
<1>4. /\ next.batch = rest /\ (next.at \in {"idle", "acted", "said"} => next.batch = <<>>)
      /\ next.asks # NoSocket => next.asks = caller[k].asks /\ next.upTo = caller[k].upTo
  BY <1>2, <1>3, FlushedKeeps
<1> HIDE DEF next
<1>5. caller'[k] = next /\ \A o \in Caller : o # k => caller'[o] = caller[o]
  BY <1>1, CallMoves
<1>. QED
  BY <1>2, <1>4, <1>5 DEF rest

LEMMA AnswerIs ==
  ASSUME NEW s, NEW n
  PROVE  Answer(s, n).for = s /\ Answer(s, n).number = n /\ Event(n).for = NoSocket /\ Event(n).number = n
  BY DEF Answer, Event

LEMMA LineIs ==
  ASSUME NEW line \in Heard
  PROVE  line = Answer(line.for, line.number) /\ (line.for = NoSocket => line = Event(line.number))
  BY DEF Heard, Line, Answer, Event

\* the lines behind the head
LEMMA TailIs ==
  ASSUME NEW S, NEW q \in Seq(S), q # <<>>
  PROVE  /\ Len(q) \in Nat /\ 1 \in 1..Len(q) /\ Head(q) = q[1] /\ Len(Tail(q)) = Len(q) - 1
         /\ \A i \in 1..Len(Tail(q)) : Tail(q)[i] = q[i + 1] /\ i + 1 \in 1..Len(q)
         /\ \A i \in 1..Len(q) : i # 1 => i - 1 \in 1..Len(Tail(q)) /\ Tail(q)[i - 1] = q[i]
  OBVIOUS

LEMMA AppendIs ==
  ASSUME NEW S, NEW q \in Seq(S), NEW e
  PROVE  /\ Len(q) \in Nat /\ Len(Append(q, e)) = Len(q) + 1 /\ Append(q, e)[Len(q) + 1] = e
         /\ \A i \in 1..Len(q) : Append(q, e)[i] = q[i] /\ i \in 1..Len(Append(q, e))
         /\ \A i \in 1..Len(Append(q, e)) : i \in 1..Len(q) \/ i = Len(q) + 1
         /\ Len(q) + 1 \in 1..Len(Append(q, e))
<1>1. \A i \in 1..Len(q) : q[i] \in S
  OBVIOUS
<1>2. q \in Seq(S \cup {e})
  BY <1>1
<1>. QED
  BY <1>2

LEMMA AskedNat ==
  ASSUME Typed, NEW s \in Socket, NEW k \in Caller, NEW n, Asked(s, k, n)
  PROVE  n \in Nat
<1>1. CASE caller[k].asks = s /\ caller[k].upTo = n
  BY <1>1, Naturals1
<1>2. CASE k \in Worker /\ \E i \in 1..Len(inbox[k]) : inbox[k][i] = Answer(s, n)
  <2>1. PICK i \in 1..Len(inbox[k]) : inbox[k][i] = Answer(s, n)
    BY <1>2
  <2>2. inbox[k][i] \in Heard
    BY <1>2, Naturals1
  <2>3. inbox[k][i].number = n
    BY <2>1, AnswerIs
  <2>. QED
    BY <2>2, <2>3, FeedConstants DEF Heard, Line
<1>. QED
  BY <1>1, <1>2 DEF Asked

\* a step that brings no history to a socket
LEMMA NoNewAsk ==
  ASSUME \A k \in Caller : caller'[k].asks # NoSocket =>
           caller'[k].asks = caller[k].asks /\ caller'[k].upTo = caller[k].upTo,
         \A w \in Worker : \A i \in 1..Len(inbox'[w]) : inbox'[w][i].for # NoSocket =>
           \E j \in 1..Len(inbox[w]) : inbox[w][j] = inbox'[w][i]
  PROVE  \A s \in Socket : \A k \in Caller : \A n : Asked(s, k, n)' => Asked(s, k, n)
<1> SUFFICES ASSUME NEW s \in Socket, NEW k \in Caller, NEW n, Asked(s, k, n)'
             PROVE  Asked(s, k, n)
  OBVIOUS
<1>1. s # NoSocket /\ Answer(s, n).for = s
  BY Constants, AnswerIs
<1>2. CASE caller'[k].asks = s /\ caller'[k].upTo = n
  BY <1>1, <1>2 DEF Asked
<1>3. CASE k \in Worker /\ \E i \in 1..Len(inbox'[k]) : inbox'[k][i] = Answer(s, n)
  BY <1>1, <1>3 DEF Asked
<1>. QED
  BY <1>2, <1>3 DEF Asked

\* a line that is read is on its way no more
LEMMA NoAskRead ==
  ASSUME Typed, NEW w \in Worker, Reading(w), inbox' = [inbox EXCEPT ![w] = Tail(@)], caller' = caller
  PROVE  \A s \in Socket : \A k \in Caller : \A n : Asked(s, k, n)' => Asked(s, k, n)
<1>1. inbox[w] \in Seq(Heard) /\ inbox[w] # <<>>
  BY Naturals1 DEF Reading
<1>2. inbox'[w] = Tail(inbox[w]) /\ \A o \in Worker : o # w => inbox'[o] = inbox[o]
  BY DEF Typed, InboxTyped
<1>3. \A i \in 1..Len(inbox'[w]) : \E j \in 1..Len(inbox[w]) : inbox[w][j] = inbox'[w][i]
  BY <1>1, <1>2, TailIs
<1>. QED
  BY <1>2, <1>3, NoNewAsk

LEMMA NoAskEmit ==
  ASSUME Typed, NEW k \in Others, Emit(k)
  PROVE  \A s \in Socket : \A o \in Caller : \A n : Asked(s, o, n)' => Asked(s, o, n)
<1>1. k \in Caller /\ Call(k, "idle", Acted(NoSocket)) /\ inbox' = inbox
  BY Constants DEF Emit
<1>2. caller'[k] = Acted(NoSocket) /\ \A o \in Caller : o # k => caller'[o] = caller[o]
  BY <1>1, CallMoves
<1>3. caller'[k].asks = NoSocket
  BY <1>2, ActedIs
<1>. QED
  BY <1>1, <1>2, <1>3, NoNewAsk

LEMMA NoAskTake ==
  ASSUME Typed, NEW k \in Caller, Take(k)
  PROVE  \A s \in Socket : \A o \in Caller : \A n : Asked(s, o, n)' => Asked(s, o, n)
<1>1. inbox' = inbox
  BY DEF Take
<1>. QED
  BY <1>1, TakeMoves, NoNewAsk

\* what saying a frame does to the lines
LEMMA SayLines ==
  ASSUME Typed, NEW k \in Caller, Say(k), NEW w \in Worker
  PROVE  /\ w \in attached => inbox'[w] = Append(inbox[w], Event(Head(caller[k].batch)))
         /\ w \notin attached => inbox'[w] = inbox[w]
  BY DEF Say, Typed, InboxTyped

LEMMA NoAskSay ==
  ASSUME Typed, NEW k \in Caller, Say(k)
  PROVE  \A s \in Socket : \A o \in Caller : \A n : Asked(s, o, n)' => Asked(s, o, n)
<1>1. ASSUME NEW w \in Worker, NEW i \in 1..Len(inbox'[w]), inbox'[w][i].for # NoSocket
      PROVE  \E j \in 1..Len(inbox[w]) : inbox[w][j] = inbox'[w][i]
  <2> DEFINE line == Event(Head(caller[k].batch))
  <2>1. inbox[w] \in Seq(Heard) /\ line.for = NoSocket
    BY Naturals1, AnswerIs
  <2>2. CASE w \in attached
    <3>1. inbox'[w] = Append(inbox[w], line)
      BY <2>2, SayLines
    <3> HIDE DEF line
    <3>2. i \in 1..Len(inbox[w]) \/ (i = Len(inbox[w]) + 1 /\ inbox'[w][i] = line)
      BY <2>1, <3>1, AppendIs
    <3>. QED
      BY <1>1, <2>1, <3>1, <3>2, AppendIs
  <2>3. CASE w \notin attached
    BY <2>3, SayLines
  <2>. QED
    BY <2>2, <2>3
<1>. QED
  BY <1>1, SayMoves, NoNewAsk

\* an answer goes from the call to the line
LEMMA NoAskAnswers ==
  ASSUME Typed, NEW w \in Worker, Answers(w)
  PROVE  \A s \in Socket : \A k \in Caller : \A n : Asked(s, k, n)' => Asked(s, k, n)
<1> DEFINE line == Answer(caller[w].asks, caller[w].upTo)
<1>1. w \in Caller /\ Call(w, "said", Idle) /\ inbox[w] \in Seq(Heard)
  BY Naturals1 DEF Answers
<1>2. caller'[w] = Idle /\ \A o \in Caller : o # w => caller'[o] = caller[o]
  BY <1>1, CallMoves
<1>3. inbox'[w] = Append(inbox[w], line) /\ \A o \in Worker : o # w => inbox'[o] = inbox[o]
  BY DEF Answers, Typed, InboxTyped
<1>4. line.for = caller[w].asks /\ line.number = caller[w].upTo
  BY AnswerIs
<1> HIDE DEF line
<1> SUFFICES ASSUME NEW s \in Socket, NEW k \in Caller, NEW n, Asked(s, k, n)'
             PROVE  Asked(s, k, n)
  OBVIOUS
<1>5. s # NoSocket /\ Answer(s, n).for = s /\ Answer(s, n).number = n
  BY Constants, AnswerIs
<1>6. CASE k # w
  BY <1>2, <1>3, <1>6 DEF Asked
<1>7. CASE k = w
  <2>1. PICK i \in 1..Len(inbox'[w]) : inbox'[w][i] = Answer(s, n)
    BY <1>2, <1>5, <1>7 DEF Asked, Idle
  <2>2. i \in 1..Len(inbox[w]) \/ (i = Len(inbox[w]) + 1 /\ inbox'[w][i] = line)
    BY <1>1, <1>3, AppendIs
  <2>3. CASE i \in 1..Len(inbox[w])
    BY <1>1, <1>3, <1>7, <2>1, <2>3, AppendIs DEF Asked
  <2>4. CASE inbox'[w][i] = line
    BY <1>4, <1>5, <1>7, <2>1, <2>4 DEF Asked
  <2>. QED
    BY <2>2, <2>3, <2>4
<1>. QED
  BY <1>6, <1>7

\* a socket asks for the ring as it is
LEMMA AskAfter ==
  ASSUME Typed, NEW s \in Socket, After(s)
  PROVE  \A o \in Socket : \A k \in Caller : \A n : Asked(o, k, n)' =>
           Asked(o, k, n) \/ (o = s /\ k = socket[s].on /\ n = sequence)
<1> DEFINE w == socket[s].on
<1>1. w \in Caller /\ Call(w, "idle", Acted(s)) /\ inbox' = inbox
  BY Naturals1 DEF After
<1>2. caller'[w] = Acted(s) /\ \A o \in Caller : o # w => caller'[o] = caller[o]
  BY <1>1, CallMoves
<1>3. caller'[w].asks = s /\ caller'[w].upTo = sequence
  BY <1>2, ActedIs
<1>. QED
  BY <1>1, <1>2, <1>3 DEF Asked

-----------------------------------------------------------------------------
(* Every step keeps who asked *)

LEMMA InitSettled == Init => Settled
<1> SUFFICES ASSUME Init PROVE Settled
  OBVIOUS
<1>1. \A k \in Caller : caller[k] = Idle /\ Idle.asks = NoSocket /\ Idle.batch = <<>>
  BY DEF Init, Idle
<1>2. \A w \in Worker : inbox[w] = <<>> /\ w \in Caller /\ reader[w].behind = {}
  BY Constants DEF Init, Resting
<1>3. \A s \in Socket : /\ socket[s].at = "unopened" /\ socket[s].upTo = 0 /\ channel[s] = <<>>
                        /\ s # NoSocket
  BY Constants DEF Init, Unopened
<1>4. sequence = 0 /\ monitor.on = NoSocket
  BY DEF Init
<1>5. \A s \in Socket : \A k \in Caller : \A n : ~Asked(s, k, n)
  BY <1>1, <1>2, <1>3 DEF Asked
<1>6. \A s \in Socket : AskedOnce(s)
  BY <1>2, <1>3, <1>4, <1>5 DEF AskedOnce
<1>7. \A k \in Caller : Empty(k)
  BY <1>1 DEF Empty
<1>. QED
  BY <1>6, <1>7 DEF Settled

\* a socket that stays where it is
LEMMA StaysSettled ==
  ASSUME Typed, Typed', NEW s \in Socket, AskedOnce(s), socket'[s] = socket[s],
         sequence <= sequence', attached \subseteq attached',
         \A k \in Caller : \A n : Asked(s, k, n)' => Asked(s, k, n),
         \A w \in Worker : s \in reader'[w].behind => s \in reader[w].behind \cup reader[w].todo,
         \A w \in Worker : s \in reader[w].todo => socket[s].at # "unopened",
         monitor'.on = s => monitor.on = s,
         s # monitor'.on => s = monitor.on \/ channel'[s] = channel[s],
         s = monitor.on /\ s # monitor'.on => channel'[s] = <<>>
  PROVE  AskedOnce(s)'
<1>1. sequence \in Nat /\ sequence' \in Nat /\ socket[s].upTo \in Nat
  BY Naturals1, FeedConstants DEF Typed, ServiceTyped
<1>2. socket[s].upTo <= sequence'
  BY <1>1 DEF AskedOnce
<1>3. socket[s].at = "asking" => \A k \in Caller : \A n : Asked(s, k, n)' => k = socket[s].on /\ n <= sequence'
  <2> SUFFICES ASSUME socket[s].at = "asking", NEW k \in Caller, NEW n, Asked(s, k, n)'
               PROVE  k = socket[s].on /\ n <= sequence'
    OBVIOUS
  <2>1. Asked(s, k, n) /\ k = socket[s].on /\ n <= sequence
    BY DEF AskedOnce
  <2>2. n \in Nat
    BY <2>1, AskedNat
  <2>. QED
    BY <1>1, <2>1, <2>2
<1>4. s # monitor'.on => channel'[s] = <<>>
  BY DEF AskedOnce
<1>. QED
  BY <1>2, <1>3, <1>4 DEF AskedOnce

LEMMA StaysEmpty ==
  ASSUME Settled, NEW k \in Caller, caller'[k] = caller[k]
  PROVE  Empty(k)'
  BY DEF Settled, Empty

\* the monitor alone has a channel
LEMMA QueuedElsewhere ==
  ASSUME NEW s \in Socket, s # monitor.on, NEW item
  PROVE  Queued(s, item) = channel[s]
  BY DEF Queued

LEMMA TodoServed ==
  ASSUME Sent, NEW s \in Socket
  PROVE  \A w \in Worker : s \in watching[w] \cup reader[w].todo => socket[s].on = w /\ socket[s].at \in Joined
  BY DEF Sent, Listed

\* a step that leaves the sockets and calls where they are
LEMMA QuietSettled ==
  ASSUME Typed, Typed', Sent, Settled, socket' = socket, monitor'.on = monitor.on,
         \A k \in Caller : Empty(k)',
         sequence <= sequence', attached \subseteq attached',
         \A s \in Socket : \A k \in Caller : \A n : Asked(s, k, n)' => Asked(s, k, n),
         \A s \in Socket : \A w \in Worker : s \in reader'[w].behind => s \in reader[w].behind \cup reader[w].todo,
         \A s \in Socket : s # monitor.on => channel'[s] = channel[s]
  PROVE  Settled'
<1>1. \A s \in Socket : \A w \in Worker : s \in reader[w].todo => socket[s].at # "unopened"
  BY TodoServed DEF Joined
<1>2. \A s \in Socket : AskedOnce(s)'
  BY <1>1, StaysSettled DEF Settled
<1>. QED
  BY <1>2 DEF Settled

LEMMA EmitSettled ==
  ASSUME Typed, Typed', Sent, Settled, NEW k \in Others, Emit(k) PROVE Settled'
<1>1. k \in Caller /\ Call(k, "idle", Acted(NoSocket))
  BY Constants DEF Emit
<1>2. caller'[k] = Acted(NoSocket) /\ \A o \in Caller : o # k => caller'[o] = caller[o]
  BY <1>1, CallMoves
<1>3. \A o \in Caller : Empty(o)'
  BY <1>2, ActedIs, StaysEmpty DEF Empty
<1>4. sequence <= sequence'
  BY Naturals1 DEF Emit
<1>5. UNCHANGED <<socket, monitor, attached, reader, channel>>
  BY DEF Emit, workerVars, watchVars
<1>. QED
  BY <1>3, <1>4, <1>5, NoAskEmit, QuietSettled

LEMMA TakeSettled ==
  ASSUME Typed, Typed', Sent, Settled, NEW k \in Caller, Take(k) PROVE Settled'
<1>1. \A o \in Caller : Empty(o)'
  BY TakeMoves, StaysEmpty DEF Empty
<1>2. UNCHANGED <<sequence, socket, monitor, attached, reader, channel>> /\ sequence <= sequence
  BY Naturals1 DEF Take, workerVars, watchVars
<1>. QED
  BY <1>1, <1>2, NoAskTake, QuietSettled

LEMMA SaySettled ==
  ASSUME Typed, Typed', Sent, Settled, NEW k \in Caller, Say(k) PROVE Settled'
<1>1. \A o \in Caller : Empty(o)'
  BY SayMoves, StaysEmpty DEF Empty
<1>2. UNCHANGED <<sequence, socket, monitor, attached, reader, channel>> /\ sequence <= sequence
  BY Naturals1 DEF Say, workerVars, watchVars
<1>. QED
  BY <1>1, <1>2, NoAskSay, QuietSettled

LEMMA AnswersSettled ==
  ASSUME Typed, Typed', Sent, Settled, NEW w \in Worker, Answers(w) PROVE Settled'
<1>1. w \in Caller /\ Call(w, "said", Idle)
  BY Naturals1 DEF Answers
<1>2. \A o \in Caller : Empty(o)'
  BY <1>1, CallMoves, StaysEmpty DEF Empty, Idle
<1>3. UNCHANGED <<sequence, socket, monitor, attached, reader, channel>> /\ sequence <= sequence
  BY Naturals1 DEF Answers, workerVars, watchVars
<1>. QED
  BY <1>2, <1>3, NoAskAnswers, QuietSettled

\* a step of the workers or of the monitor's channel
LEMMA WorkerSettled ==
  ASSUME Typed, Typed', Sent, Settled, UNCHANGED <<sequence, caller, socket>>, monitor'.on = monitor.on,
         attached \subseteq attached',
         inbox' = inbox \/ \E w \in Worker : Reading(w) /\ inbox' = [inbox EXCEPT ![w] = Tail(@)],
         \A s \in Socket : \A w \in Worker : s \in reader'[w].behind => s \in reader[w].behind \cup reader[w].todo,
         \A s \in Socket : s # monitor.on => channel'[s] = channel[s]
  PROVE  Settled'
<1>1. \A k \in Caller : Empty(k)'
  BY StaysEmpty
<1>2. \A s \in Socket : \A k \in Caller : \A n : Asked(s, k, n)' => Asked(s, k, n)
  <2>1. CASE inbox' = inbox
    BY <2>1 DEF Asked
  <2>2. ASSUME NEW w \in Worker, Reading(w), inbox' = [inbox EXCEPT ![w] = Tail(@)]
        PROVE  \A s \in Socket : \A k \in Caller : \A n : Asked(s, k, n)' => Asked(s, k, n)
    BY <2>2, NoAskRead
  <2>. QED
    BY <2>1, <2>2
<1>3. sequence <= sequence'
  BY Naturals1
<1>. QED
  BY <1>1, <1>2, <1>3, QuietSettled

LEMMA ReadEventSettled ==
  ASSUME Typed, Typed', Sent, Settled, NEW w \in Worker, ReadEvent(w) PROVE Settled'
<1> DEFINE line == Head(inbox[w])
<1>1. reader' = reader \/ reader' = [reader EXCEPT ![w].frame = line.number, ![w].todo = watching[w]]
  BY DEF ReadEvent
<1> HIDE DEF line
<1>2. \A o \in Worker : reader'[o].behind = reader[o].behind
  BY <1>1 DEF Typed, ReaderTyped, Reads
<1>3. UNCHANGED <<sequence, caller, socket, monitor, attached, channel>>
  BY DEF ReadEvent, serviceVars, workerVars, watchVars
<1>4. Reading(w) /\ inbox' = [inbox EXCEPT ![w] = Tail(@)]
  BY DEF ReadEvent
<1>5. inbox' = inbox \/ \E o \in Worker : Reading(o) /\ inbox' = [inbox EXCEPT ![o] = Tail(@)]
  BY <1>4
<1>. QED
  BY <1>2, <1>3, <1>5, WorkerSettled

\* what deliver() leaves of the reader
LEMMA DeliverNotMoves ==
  ASSUME Typed, NEW w \in Worker, NEW s \in Socket, DeliverNot(w, s)
  PROVE  /\ reader'[w].todo = reader[w].todo \ {s} /\ reader'[w].holds = NoSocket
         /\ reader'[w].frame = IF reader[w].todo \ {s} = {} THEN 0 ELSE reader[w].frame
         /\ reader'[w].behind = IF TooFar(s) THEN reader[w].behind \cup {s} ELSE reader[w].behind
         /\ s \in reader[w].todo /\ reader[w].frame # 0 /\ reader[w].holds = NoSocket
         /\ \A o \in Worker : o # w => reader'[o] = reader[o]
<1> DEFINE behind == IF TooFar(s) THEN reader[w].behind \cup {s} ELSE reader[w].behind
<1>1. behind \in SUBSET Socket
  BY DEF Typed, ReaderTyped, Reads
<1>2. reader' = [reader EXCEPT ![w] = Onwards(w, s, behind)] /\ s \in reader[w].todo /\ reader[w].frame # 0
      /\ reader[w].holds = NoSocket
  BY DEF DeliverNot, Delivering, Locked
<1> HIDE DEF behind
<1>3. Onwards(w, s, behind).behind = behind
  BY DEF Onwards
<1>4. ReaderTyped
  BY DEF Typed
<1>5. /\ Onwards(w, s, behind).todo = reader[w].todo \ {s}
      /\ Onwards(w, s, behind).holds = NoSocket
      /\ Onwards(w, s, behind).frame = IF reader[w].todo \ {s} = {} THEN 0 ELSE reader[w].frame
  BY <1>1, <1>4, OnwardsTyped
<1>6. reader'[w] = Onwards(w, s, behind) /\ \A o \in Worker : o # w => reader'[o] = reader[o]
  BY <1>2 DEF Typed, ReaderTyped
<1>. QED
  BY <1>2, <1>3, <1>5, <1>6 DEF behind

LEMMA DeliverNotSettled ==
  ASSUME Typed, Typed', Sent, Settled, NEW w \in Worker, NEW s \in Socket, DeliverNot(w, s) PROVE Settled'
<1>1. UNCHANGED <<sequence, caller, socket, monitor, attached, channel, inbox>>
  BY DEF DeliverNot, serviceVars, workerVars, watchVars
<1>2. \A o \in Worker : reader'[o].behind \subseteq reader[o].behind \cup reader[o].todo
  <2>1. /\ s \in reader[w].todo
        /\ reader'[w].behind = IF TooFar(s) THEN reader[w].behind \cup {s} ELSE reader[w].behind
        /\ \A o \in Worker : o # w => reader'[o] = reader[o]
    BY DeliverNotMoves
  <2>2. reader'[w].behind \subseteq reader[w].behind \cup reader[w].todo
    BY <2>1
  <2>. QED
    BY <2>1, <2>2
<1>. QED
  BY <1>1, <1>2, WorkerSettled

LEMMA DeliverMarkMoves ==
  ASSUME Typed, NEW w \in Worker, NEW s \in Socket, DeliverMark(w, s)
  PROVE  /\ reader'[w].holds = s /\ reader'[w].frame = reader[w].frame
         /\ reader'[w].todo = reader[w].todo /\ reader'[w].behind = reader[w].behind
         /\ s \in reader[w].todo /\ reader[w].frame # 0 /\ reader[w].holds = NoSocket
         /\ \A o \in Worker : o # w => reader'[o] = reader[o]
         /\ ~TooFar(s) /\ ~Had(s, reader[w].frame) /\ delivered'[s] = reader[w].frame
         /\ \A o \in Socket : o # s => delivered'[o] = delivered[o]
         /\ overtaken' = (overtaken \/ ~Live(s))
<1>1. /\ reader' = [reader EXCEPT ![w].holds = s]
      /\ s \in reader[w].todo /\ reader[w].frame # 0 /\ reader[w].holds = NoSocket
      /\ ~TooFar(s) /\ ~Had(s, reader[w].frame) /\ delivered' = [delivered EXCEPT ![s] = reader[w].frame]
      /\ overtaken' = (overtaken \/ ~Live(s))
  BY DEF DeliverMark, Delivering, Locked, Mark
<1>. QED
  BY <1>1 DEF Typed, ReaderTyped, Reads, WatchTyped

LEMMA DeliverMarkSettled ==
  ASSUME Typed, Typed', Sent, Settled, NEW w \in Worker, NEW s \in Socket, DeliverMark(w, s) PROVE Settled'
<1>1. UNCHANGED <<sequence, caller, socket, monitor, attached, channel, inbox>>
  BY DEF DeliverMark, serviceVars, workerVars
<1>2. \A o \in Worker : reader'[o].behind = reader[o].behind
  BY DeliverMarkMoves
<1>. QED
  BY <1>1, <1>2, WorkerSettled

\* what a frame on its channel changes for a socket
LEMMA PushMoves ==
  ASSUME Typed, NEW s \in Socket, NEW frame, Push(s, frame)
  PROVE  /\ pushed'[s] = Append(pushed[s], frame) /\ channel'[s] = Queued(s, frame)
         /\ \A o \in Socket : o # s => pushed'[o] = pushed[o] /\ channel'[o] = channel[o]
         /\ delivered' = delivered
         /\ \A o \in Socket : o # monitor.on => channel'[o] = channel[o]
<1>1. /\ pushed'[s] = Append(pushed[s], frame) /\ channel'[s] = Queued(s, frame)
      /\ \A o \in Socket : o # s => pushed'[o] = pushed[o] /\ channel'[o] = channel[o]
      /\ delivered' = delivered
  BY DEF Push, Typed, WatchTyped
<1>. QED
  BY <1>1, QueuedElsewhere

LEMMA DeliverPushMoves ==
  ASSUME Typed, NEW w \in Worker, NEW s \in Socket, DeliverPush(w, s)
  PROVE  /\ reader'[w].todo = reader[w].todo \ {s} /\ reader'[w].holds = NoSocket
         /\ reader'[w].frame = IF reader[w].todo \ {s} = {} THEN 0 ELSE reader[w].frame
         /\ reader'[w].behind = reader[w].behind
         /\ reader[w].holds = s /\ reader[w].frame # 0 /\ Push(s, reader[w].frame)
         /\ \A o \in Worker : o # w => reader'[o] = reader[o]
<1> DEFINE behind == reader[w].behind
<1>1. behind \in SUBSET Socket /\ ReaderTyped
  BY DEF Typed, ReaderTyped, Reads
<1>2. /\ reader' = [reader EXCEPT ![w] = Onwards(w, s, behind)] /\ reader[w].frame # 0
      /\ reader[w].holds = s /\ Push(s, reader[w].frame)
  BY DEF DeliverPush, Locked
<1> HIDE DEF behind
<1>3. Onwards(w, s, behind).behind = behind
  BY DEF Onwards
<1>4. /\ Onwards(w, s, behind).todo = reader[w].todo \ {s}
      /\ Onwards(w, s, behind).holds = NoSocket
      /\ Onwards(w, s, behind).frame = IF reader[w].todo \ {s} = {} THEN 0 ELSE reader[w].frame
  BY <1>1, OnwardsTyped
<1>5. reader'[w] = Onwards(w, s, behind) /\ \A o \in Worker : o # w => reader'[o] = reader[o]
  BY <1>2 DEF Typed, ReaderTyped
<1>. QED
  BY <1>2, <1>3, <1>4, <1>5 DEF behind

LEMMA DeliverPushSettled ==
  ASSUME Typed, Typed', Sent, Settled, NEW w \in Worker, NEW s \in Socket, DeliverPush(w, s) PROVE Settled'
<1>1. UNCHANGED <<sequence, caller, socket, monitor, attached, inbox>>
  BY DEF DeliverPush, serviceVars, workerVars
<1>2. \A o \in Worker : reader'[o].behind = reader[o].behind
  BY DeliverPushMoves
<1>3. \A o \in Socket : o # monitor.on => channel'[o] = channel[o]
  BY DeliverPushMoves, PushMoves
<1>. QED
  BY <1>1, <1>2, <1>3, WorkerSettled

\* what closing a watcher changes
LEMMA CloseMoves ==
  ASSUME Typed, NEW w \in Worker, NEW s \in Socket, CloseWatcher(w, s)
  PROVE  /\ \A v \in Worker : \A o \in Socket : o # s => (o \in watching'[v] <=> o \in watching[v])
         /\ \A v \in Worker : v # w => watching'[v] = watching[v]
         /\ channel'[s] = IF s \in watching[w] THEN Queued(s, EndOfChannel) ELSE channel[s]
         /\ \A o \in Socket : o # s => channel'[o] = channel[o]
         /\ delivered' = delivered /\ pushed' = pushed
         /\ \A o \in Socket : o # monitor.on => channel'[o] = channel[o]
<1>1. /\ \A v \in Worker : \A o \in Socket : o # s => (o \in watching'[v] <=> o \in watching[v])
      /\ \A v \in Worker : v # w => watching'[v] = watching[v]
  BY DEF CloseWatcher, Typed, ReaderTyped
<1>2. /\ channel'[s] = IF s \in watching[w] THEN Queued(s, EndOfChannel) ELSE channel[s]
      /\ \A o \in Socket : o # s => channel'[o] = channel[o]
      /\ delivered' = delivered /\ pushed' = pushed
  BY DEF CloseWatcher, Typed, WatchTyped
<1>. QED
  BY <1>1, <1>2, QueuedElsewhere

LEMMA CloseBehindMoves ==
  ASSUME Typed, NEW w \in Worker, NEW s \in Socket, CloseBehind(w, s)
  PROVE  /\ reader'[w].behind = reader[w].behind \ {s} /\ s \in reader[w].behind
         /\ \A v \in Worker : /\ reader'[v].frame = reader[v].frame /\ reader'[v].todo = reader[v].todo
                              /\ reader'[v].holds = reader[v].holds
         /\ \A o \in Worker : o # w => reader'[o] = reader[o]
         /\ CloseWatcher(w, s)
<1>1. reader' = [reader EXCEPT ![w].behind = @ \ {s}] /\ s \in reader[w].behind /\ CloseWatcher(w, s)
  BY DEF CloseBehind
<1>. QED
  BY <1>1 DEF Typed, ReaderTyped, Reads

LEMMA CloseBehindSettled ==
  ASSUME Typed, Typed', Sent, Settled, NEW w \in Worker, NEW s \in Socket, CloseBehind(w, s) PROVE Settled'
<1>1. UNCHANGED <<sequence, caller, socket, monitor, attached, inbox>>
  BY DEF CloseBehind, serviceVars, workerVars
<1>2. \A o \in Worker : reader'[o].behind \subseteq reader[o].behind
  BY CloseBehindMoves
<1>3. \A o \in Socket : o # monitor.on => channel'[o] = channel[o]
  BY CloseBehindMoves, CloseMoves
<1>. QED
  BY <1>1, <1>2, <1>3, WorkerSettled

LEMMA CloseAllMoves ==
  ASSUME Typed, NEW w \in Worker, CloseAll(w)
  PROVE  /\ watching'[w] = {} /\ \A v \in Worker : v # w => watching'[v] = watching[v]
         /\ \A s \in Socket : channel'[s] = IF s \in watching[w] THEN Queued(s, EndOfChannel) ELSE channel[s]
         /\ \A o \in Socket : o # monitor.on => channel'[o] = channel[o]
<1>1. /\ watching'[w] = {} /\ \A v \in Worker : v # w => watching'[v] = watching[v]
      /\ \A s \in Socket : channel'[s] = IF s \in watching[w] THEN Queued(s, EndOfChannel) ELSE channel[s]
  BY DEF CloseAll, Typed, ReaderTyped
<1>. QED
  BY <1>1, QueuedElsewhere

LEMMA ManagedSettled ==
  ASSUME Typed, Typed', Sent, Settled, NEW w \in Worker, Replace(w) \/ Retire(w) \/ CloseAll(w) PROVE Settled'
<1>1. UNCHANGED <<sequence, caller, socket, monitor, inbox, reader>> /\ attached \subseteq attached'
  BY DEF Replace, Retire, CloseAll, serviceVars, workerVars, watchVars
<1>2. \A o \in Socket : o # monitor.on => channel'[o] = channel[o]
  BY CloseAllMoves DEF Replace, Retire, watchVars
<1>. QED
  BY <1>1, <1>2, WorkerSettled

\* a step that moves one socket of the monitor's
LEMMA MovedSettled ==
  ASSUME Typed, Typed', Sent, Settled, NEW s \in Socket,
         UNCHANGED <<sequence, attached>>,
         \A k \in Caller : Empty(k)',
         \A o \in Socket : o # s => socket'[o] = socket[o],
         \A o \in Socket : o # s => \A k \in Caller : \A n : Asked(o, k, n)' => Asked(o, k, n),
         \A w \in Worker : reader'[w].behind \subseteq reader[w].behind,
         \A o \in Socket : o # s /\ monitor'.on = o => monitor.on = o,
         \A o \in Socket : o # s /\ o # monitor'.on => channel'[o] = <<>>,
         AskedOnce(s)'
  PROVE  Settled'
<1>1. \A o \in Socket : \A w \in Worker : o \in reader[w].todo => socket[o].at # "unopened"
  BY TodoServed DEF Joined
<1>2. sequence <= sequence'
  BY Naturals1
<1>3. \A o \in Socket : o # s => (o # monitor'.on => o = monitor.on \/ channel'[o] = channel[o])
  BY DEF Settled, AskedOnce
<1>4. \A o \in Socket : AskedOnce(o)'
  BY <1>1, <1>2, <1>3, StaysSettled DEF Settled
<1>. QED
  BY <1>4 DEF Settled

\* a socket the monitor reads, or has left, goes on
LEMMA GoesOnSettled ==
  ASSUME Typed, Typed', Sent, Settled, NEW s \in Socket,
         UNCHANGED <<sequence, attached, caller, inbox, monitor>>,
         \A o \in Socket : o # s => socket'[o] = socket[o],
         \A w \in Worker : reader'[w].behind = reader[w].behind,
         \A o \in Socket : o # monitor.on => channel'[o] = channel[o],
         socket[s].at # "unopened", socket'[s].at \notin {"unopened", "asking"},
         socket'[s].at \in {"opened", "admitted", "joined"} => socket[s].at \in {"opened", "admitted"},
         socket'[s].at = "over" \/ (socket[s].at # "over" /\ socket'[s].on = socket[s].on),
         socket'[s].upTo <= sequence
  PROVE  Settled'
<1>1. \A o \in Socket : \A k \in Caller : \A n : Asked(o, k, n)' => Asked(o, k, n)
  BY DEF Asked
<1>2. \A o \in Socket : o # monitor.on => channel'[o] = <<>>
  BY DEF Settled, AskedOnce
<1>3. AskedOnce(s)'
  BY <1>1, <1>2 DEF Settled, AskedOnce
<1>4. \A k \in Caller : Empty(k)'
  BY StaysEmpty
<1>. QED
  BY <1>1, <1>2, <1>3, <1>4, MovedSettled

LEMMA ReadAnswerMoves ==
  ASSUME Typed, NEW w \in Worker, ReadAnswer(w)
  PROVE  \E s \in Socket : \E n \in Nat :
           /\ Head(inbox[w]) = Answer(s, n) /\ Reading(w) /\ Asked(s, w, n)
           /\ inbox'[w] = Tail(inbox[w]) /\ \A v \in Worker : v # w => inbox'[v] = inbox[v]
           /\ \A o \in Socket : o # s => socket'[o] = socket[o]
           /\ socket[s].at # "asking" => socket'[s] = socket[s]
           /\ socket[s].at = "asking" => /\ socket'[s].at = "replaying" /\ socket'[s].upTo = n
                                         /\ socket'[s].on = socket[s].on /\ socket'[s].next = socket[s].next
<1> DEFINE line == Head(inbox[w])
<1>1. line \in Heard /\ inbox[w] \in Seq(Heard) /\ inbox[w] # <<>>
  BY InboxHead, Naturals1 DEF ReadAnswer, Reading
<1>2. line.for \in Socket /\ line.number \in Nat /\ line = Answer(line.for, line.number)
  BY <1>1, LineIs, FeedConstants DEF Heard, Line, ReadAnswer
<1>3. /\ socket' = IF socket[line.for].at = "asking"
                   THEN [socket EXCEPT ![line.for].at = "replaying", ![line.for].upTo = line.number]
                   ELSE socket
      /\ inbox' = [inbox EXCEPT ![w] = Tail(@)] /\ Reading(w)
  BY DEF ReadAnswer
<1>4. line = inbox[w][1] /\ 1 \in 1..Len(inbox[w])
  BY <1>1, TailIs
<1>5. Asked(line.for, w, line.number)
  BY <1>2, <1>4 DEF Asked
<1>6. inbox'[w] = Tail(inbox[w]) /\ \A v \in Worker : v # w => inbox'[v] = inbox[v]
  BY <1>3 DEF Typed, InboxTyped
<1>9. socket \in [Socket -> Served]
  BY DEF Typed, SocketTyped
<1>10. PICK s \in Socket, n \in Nat : s = line.for /\ n = line.number
  BY <1>2
<1> HIDE DEF line
<1>7. /\ \A o \in Socket : o # s => socket'[o] = socket[o]
      /\ socket[s].at # "asking" => socket'[s] = socket[s]
  BY <1>2, <1>3, <1>9, <1>10
<1>8. socket[s].at = "asking" =>
        /\ socket'[s].at = "replaying" /\ socket'[s].upTo = n
        /\ socket'[s].on = socket[s].on /\ socket'[s].next = socket[s].next
  BY <1>2, <1>3, <1>9, <1>10 DEF Served
<1>. QED
  BY <1>2, <1>3, <1>5, <1>6, <1>7, <1>8, <1>10 DEF line

LEMMA ReadAnswerSettled ==
  ASSUME Typed, Typed', Sent, Settled, NEW w \in Worker, ReadAnswer(w) PROVE Settled'
<1>1. PICK s \in Socket, n \in Nat :
         /\ Head(inbox[w]) = Answer(s, n) /\ Reading(w) /\ Asked(s, w, n)
         /\ inbox'[w] = Tail(inbox[w]) /\ \A v \in Worker : v # w => inbox'[v] = inbox[v]
         /\ \A o \in Socket : o # s => socket'[o] = socket[o]
         /\ socket[s].at # "asking" => socket'[s] = socket[s]
         /\ socket[s].at = "asking" => /\ socket'[s].at = "replaying" /\ socket'[s].upTo = n
                                       /\ socket'[s].on = socket[s].on /\ socket'[s].next = socket[s].next
  BY ReadAnswerMoves
<1>2. /\ UNCHANGED <<sequence, caller, attached, reader, channel, monitor>>
      /\ inbox' = [inbox EXCEPT ![w] = Tail(@)] /\ Reading(w)
  BY DEF ReadAnswer, serviceVars, workerVars, watchVars
<1>3. \A o \in Socket : \A k \in Caller : \A m : Asked(o, k, m)' => Asked(o, k, m)
  BY <1>2, NoAskRead
<1>4. \A k \in Caller : Empty(k)'
  BY <1>2, StaysEmpty
<1>5. w \in Caller /\ sequence <= sequence'
  BY <1>2, Naturals1
<1>6. AskedOnce(s)'
  <2>1. CASE socket[s].at = "asking"
    BY <1>1, <1>2, <1>5, <2>1 DEF Settled, AskedOnce
  <2>2. CASE socket[s].at # "asking"
    BY <1>1, <1>2, <1>3, <1>5, <2>2 DEF Settled, AskedOnce
  <2>. QED
    BY <2>1, <2>2
<1>7. \A o \in Socket : o # monitor'.on => channel'[o] = <<>>
  BY <1>2 DEF Settled, AskedOnce
<1>. QED
  BY <1>1, <1>2, <1>3, <1>4, <1>6, <1>7, MovedSettled

LEMMA OverIs == Over.at = "over" /\ Over.upTo = 0
<1>1. Over = [at |-> "over", on |-> FirstWorker, next |-> 0, upTo |-> 0]
  BY DEF Over, Unopened
<1>. QED
  BY <1>1

\* where a socket is, and what it keeps, after a step of its own
LEMMA ServeKeeps ==
  ASSUME Typed, NEW s \in Socket, NEW from, NEW to, Serve(s, from, to)
  PROVE  /\ socket'[s].at = to /\ socket[s].at = from /\ socket'[s].upTo = socket[s].upTo
         /\ socket'[s].on = socket[s].on /\ socket'[s].next = socket[s].next
         /\ \A o \in Socket : o # s => socket'[o] = socket[o]
  BY DEF Typed, SocketTyped, Served, Serve

LEMMA AdmitMoves ==
  ASSUME Typed, NEW s \in Socket, Admit(s)
  PROVE  /\ socket[s].at = "opened" /\ \A o \in Socket : o # s => socket'[o] = socket[o] /\ channel'[o] = channel[o]
         /\ \/ /\ socket'[s].at = "admitted" /\ socket'[s].upTo = socket[s].upTo /\ channel'[s] = channel[s]
               /\ socket'[s].on = socket[s].on /\ socket'[s].next = socket[s].next
            \/ socket'[s].at = "over" /\ socket'[s].upTo = 0 /\ channel'[s] = Queued(s, EndOfChannel)
         /\ \A o \in Socket : o # monitor.on => channel'[o] = channel[o]
<1>1. CASE retired[socket[s].on] = "no"
  <2>1. Serve(s, "opened", "admitted") /\ channel' = channel
    BY <1>1 DEF Admit, Serve
  <2>. QED
    BY <2>1, ServeKeeps
<1>2. CASE retired[socket[s].on] # "no"
  <2>1. socket[s].at = "opened" /\ socket' = [socket EXCEPT ![s] = Over]
        /\ channel' = [channel EXCEPT ![s] = Queued(s, EndOfChannel)]
    BY <1>2 DEF Admit
  <2>2. socket'[s] = Over /\ channel'[s] = Queued(s, EndOfChannel)
        /\ \A o \in Socket : o # s => socket'[o] = socket[o] /\ channel'[o] = channel[o]
    BY <2>1 DEF Typed, SocketTyped, WatchTyped
  <2>. QED
    BY <2>1, <2>2, OverIs, QueuedElsewhere
<1>. QED
  BY <1>1, <1>2

LEMMA AdmitSettled ==
  ASSUME Typed, Typed', Sent, Settled, NEW s \in Socket, Admit(s) PROVE Settled'
<1>1. UNCHANGED <<sequence, attached, caller, inbox, monitor, reader>>
  BY DEF Admit, serviceVars, workerVars
<1>2. socket'[s].upTo <= sequence
  BY AdmitMoves, Naturals1 DEF Settled, AskedOnce
<1>. QED
  BY <1>1, <1>2, AdmitMoves, GoesOnSettled

\* what a socket's own thread does otherwise
LEMMA ReplaySkipsMoves ==
  ASSUME Typed, NEW s \in Socket, ReplaySkips(s)
  PROVE  /\ Replaying(s) /\ socket'[s].at = "replaying" /\ socket'[s].on = socket[s].on
         /\ socket'[s].next = socket[s].next + 1 /\ socket'[s].upTo = socket[s].upTo
         /\ \A o \in Socket : o # s => socket'[o] = socket[o]
         /\ UNCHANGED <<watching, reader, delivered, pushed, channel>>
  BY DEF ReplaySkips, Replaying, Typed, SocketTyped, Served, watchVars

LEMMA ReplayPushMoves ==
  ASSUME Typed, NEW s \in Socket, ReplayPush(s)
  PROVE  /\ socket[s].at = "pushing" /\ socket'[s].at = "replaying" /\ socket'[s].on = socket[s].on
         /\ socket'[s].next = socket[s].next + 1 /\ socket'[s].upTo = socket[s].upTo
         /\ \A o \in Socket : o # s => socket'[o] = socket[o]
         /\ UNCHANGED <<watching, reader>> /\ Push(s, socket[s].next)
  BY DEF ReplayPush, Typed, SocketTyped, Served

LEMMA LeaveMoves ==
  ASSUME Typed, NEW s \in Socket, Leave(s)
  PROVE  /\ Live(s) /\ s # monitor.on /\ socket'[s].at = "over" /\ socket'[s].upTo = 0
         /\ \A o \in Socket : o # s => /\ socket'[o] = socket[o] /\ delivered'[o] = delivered[o]
                                       /\ pushed'[o] = pushed[o]
                                       /\ \A v \in Worker : o \in watching'[v] <=> o \in watching[v]
         /\ UNCHANGED <<reader, channel>>
<1>1. /\ Live(s) /\ s # monitor.on /\ socket' = [socket EXCEPT ![s] = Over]
      /\ delivered' = [delivered EXCEPT ![s] = 0] /\ pushed' = [pushed EXCEPT ![s] = <<>>]
      /\ UNCHANGED <<reader, channel>>
  BY DEF Leave
<1>2. socket'[s] = Over
      /\ \A o \in Socket : o # s => /\ socket'[o] = socket[o] /\ delivered'[o] = delivered[o]
                                    /\ pushed'[o] = pushed[o]
  BY <1>1 DEF Typed, SocketTyped, WatchTyped
<1>3. \A o \in Socket : o # s => \A v \in Worker : o \in watching'[v] <=> o \in watching[v]
  <2>1. watching' = [watching EXCEPT ![socket[s].on] = @ \ {s}] /\ socket[s].on \in Worker
    BY Naturals1 DEF Leave
  <2>. QED
    BY <2>1 DEF Typed, ReaderTyped
<1>. QED
  BY <1>1, <1>2, <1>3, OverIs

\* a step of a socket that is not asked anything
LEMMA ServeSettled ==
  ASSUME Typed, Typed', Sent, Settled, NEW s \in Socket,
         Join(s) \/ AskFails(s) \/ ReplaySkips(s) \/ ReplayMark(s) \/ ReplayPush(s) \/ ReplayBehind(s) \/ Leave(s)
  PROVE  Settled'
<1>1. UNCHANGED <<sequence, attached, caller, inbox, monitor, reader>>
  BY DEF Join, AskFails, ReplaySkips, ReplayMark, ReplayPush, ReplayBehind, Leave, serviceVars, workerVars
<1>2. socket[s].upTo <= sequence /\ sequence \in Nat /\ 0 <= sequence
  BY Naturals1 DEF Settled, AskedOnce
<1>3. CASE Join(s) \/ ReplayMark(s)
  <2>1. Serve(s, "admitted", "joined") \/ Serve(s, "replaying", "pushing")
    BY <1>3 DEF Join, ReplayMark
  <2>2. channel' = channel
    BY <1>3 DEF Join, ReplayMark, watchVars
  <2>. QED
    BY <1>1, <1>2, <2>1, <2>2, ServeKeeps, GoesOnSettled
<1>4. CASE AskFails(s) \/ ReplayBehind(s)
  <2>1. Serve(s, "joined", "reading") \/ Serve(s, "asking", "reading") \/ Serve(s, "replaying", "reading")
    BY <1>4 DEF AskFails, ReplayBehind
  <2>2. socket[s].on \in Worker /\ CloseWatcher(socket[s].on, s)
    BY <1>4, Naturals1 DEF AskFails, ReplayBehind
  <2>3. \A o \in Socket : o # monitor.on => channel'[o] = channel[o]
    BY <2>2, CloseMoves
  <2>4. /\ socket'[s].at = "reading" /\ socket[s].at \in {"joined", "asking", "replaying"}
        /\ socket'[s].upTo = socket[s].upTo /\ socket'[s].on = socket[s].on
        /\ \A o \in Socket : o # s => socket'[o] = socket[o]
    BY <2>1, ServeKeeps
  <2>. QED
    BY <1>1, <1>2, <2>3, <2>4, GoesOnSettled
<1>5. CASE ReplaySkips(s)
  <2>1. socket[s].at = "replaying"
    BY <1>5, ReplaySkipsMoves DEF Replaying
  <2>. QED
    BY <1>1, <1>2, <1>5, <2>1, ReplaySkipsMoves, GoesOnSettled
<1>6. CASE ReplayPush(s)
  <2>1. \A o \in Socket : o # monitor.on => channel'[o] = channel[o]
    BY <1>6, ReplayPushMoves, PushMoves
  <2>. QED
    BY <1>1, <1>2, <1>6, <2>1, ReplayPushMoves, GoesOnSettled
<1>7. CASE Leave(s)
  <2>1. socket[s].at # "unopened"
    BY <1>7, LeaveMoves DEF Live
  <2>. QED
    BY <1>1, <1>2, <1>7, <2>1, LeaveMoves, GoesOnSettled
<1>. QED
  BY <1>3, <1>4, <1>5, <1>6, <1>7

LEMMA AfterSettled ==
  ASSUME Typed, Typed', Sent, Settled, NEW s \in Socket, After(s) PROVE Settled'
<1> DEFINE w == socket[s].on
<1>1. /\ w \in Caller /\ Call(w, "idle", Acted(s)) /\ Serve(s, "joined", "asking")
      /\ UNCHANGED <<sequence, attached, inbox, monitor, reader, channel>>
  BY Naturals1 DEF After, Serve, workerVars, watchVars
<1>2. caller'[w] = Acted(s) /\ \A o \in Caller : o # w => caller'[o] = caller[o]
  BY <1>1, CallMoves
<1>3. \A k \in Caller : Empty(k)'
  BY <1>2, ActedIs, StaysEmpty DEF Empty
<1>4. /\ socket'[s].at = "asking" /\ socket[s].at = "joined" /\ socket'[s].upTo = socket[s].upTo
      /\ socket'[s].on = socket[s].on /\ \A o \in Socket : o # s => socket'[o] = socket[o]
  BY <1>1, ServeKeeps
<1>5. \A o \in Socket : \A k \in Caller : \A n : Asked(o, k, n)' =>
        Asked(o, k, n) \/ (o = s /\ k = socket[s].on /\ n = sequence)
  BY AskAfter
<1>6. sequence \in Nat /\ sequence <= sequence'
  BY <1>1, Naturals1
<1>7. \A o \in Socket : o # monitor'.on => channel'[o] = <<>>
  BY <1>1 DEF Settled, AskedOnce
<1>8. AskedOnce(s)'
  BY <1>1, <1>4, <1>5, <1>6, <1>7 DEF Settled, AskedOnce
<1>. QED
  BY <1>1, <1>3, <1>4, <1>5, <1>7, <1>8, MovedSettled

LEMMA OpenMoves ==
  ASSUME Typed, NEW s \in Socket, Open(s)
  PROVE  /\ monitor.on = NoSocket /\ monitor'.on = s /\ monitor'.cursor = monitor.cursor
         /\ monitor'.read = monitor.read
         /\ socket[s].at = "unopened" /\ socket'[s].at = "opened" /\ socket'[s].on = current
         /\ socket'[s].next = monitor.cursor + 1 /\ socket'[s].upTo = 0
         /\ delivered'[s] = monitor.cursor
         /\ \A o \in Socket : o # s => socket'[o] = socket[o]
<1>1. /\ monitor.on = NoSocket /\ socket[s].at = "unopened" /\ monitor' = [monitor EXCEPT !.on = s]
      /\ socket' = [socket EXCEPT ![s] = [at |-> "opened", on |-> current, next |-> monitor.cursor + 1, upTo |-> 0]]
      /\ delivered' = [delivered EXCEPT ![s] = monitor.cursor]
  BY DEF Open
<1>2. monitor'.on = s /\ monitor'.cursor = monitor.cursor /\ monitor'.read = monitor.read
  BY <1>1 DEF Typed, MonitorTyped, Follows
<1>3. /\ socket'[s] = [at |-> "opened", on |-> current, next |-> monitor.cursor + 1, upTo |-> 0]
      /\ \A o \in Socket : o # s => socket'[o] = socket[o]
      /\ delivered'[s] = monitor.cursor
  BY <1>1 DEF Typed, SocketTyped, WatchTyped
<1>. QED
  BY <1>1, <1>2, <1>3

LEMMA OpenSettled ==
  ASSUME Typed, Typed', Sent, Settled, NEW s \in Socket, Open(s) PROVE Settled'
<1>1. UNCHANGED <<sequence, attached, caller, inbox, reader, channel, current>>
  BY DEF Open, serviceVars, workerVars
<1>2. \A o \in Socket : \A k \in Caller : \A n : Asked(o, k, n)' => Asked(o, k, n)
  BY <1>1 DEF Asked
<1>3. \A k \in Caller : Empty(k)'
  BY <1>1, StaysEmpty
<1>4. sequence \in Nat /\ 0 <= sequence /\ current \in attached
  BY Naturals1 DEF Typed, WorkersTyped
<1>5. \A o \in Socket : o # s => channel'[o] = <<>>
  BY <1>1, OpenMoves, Constants DEF Settled, AskedOnce
<1>6. AskedOnce(s)'
  BY <1>1, <1>2, <1>4, OpenMoves DEF Settled, AskedOnce
<1>. QED
  BY <1>1, <1>2, <1>3, <1>5, <1>6, OpenMoves, MovedSettled

LEMMA WriteMoves ==
  ASSUME Typed, NEW s \in Socket, Write(s)
  PROVE  /\ monitor.on = s /\ channel[s] # <<>>
         /\ \A o \in Socket : o # s => channel'[o] = channel[o]
         /\ Head(channel[s]) = EndOfChannel => /\ monitor'.on = NoSocket /\ channel'[s] = <<>>
                                               /\ monitor'.cursor = monitor.cursor /\ monitor'.read = monitor.read
         /\ Head(channel[s]) # EndOfChannel => /\ monitor'.on = s /\ channel'[s] = Tail(channel[s])
                                               /\ monitor'.cursor = Head(channel[s])
                                               /\ monitor'.read = monitor.read \cup {Head(channel[s])}
<1> DEFINE item == Head(channel[s])
<1> DEFINE rest == Tail(channel[s])
<1>1. /\ monitor.on = s /\ channel[s] # <<>>
      /\ IF item = EndOfChannel
         THEN monitor' = [monitor EXCEPT !.on = NoSocket] /\ channel' = [channel EXCEPT ![s] = <<>>]
         ELSE /\ monitor' = [monitor EXCEPT !.cursor = item, !.read = @ \cup {item}]
              /\ channel' = [channel EXCEPT ![s] = rest]
  BY DEF Write
<1> HIDE DEF item, rest
<1>2. monitor \in Follows /\ channel \in [Socket -> Seq(0..MaxFrames)]
  BY DEF Typed, MonitorTyped, WatchTyped
<1>3. /\ item = EndOfChannel => monitor'.on = NoSocket /\ monitor'.cursor = monitor.cursor /\ monitor'.read = monitor.read
      /\ item # EndOfChannel => /\ monitor'.on = s /\ monitor'.cursor = item
                                /\ monitor'.read = monitor.read \cup {item}
  BY <1>1, <1>2 DEF Follows
<1>4. /\ \A o \in Socket : o # s => channel'[o] = channel[o]
      /\ item = EndOfChannel => channel'[s] = <<>>
      /\ item # EndOfChannel => channel'[s] = rest
  BY <1>1, <1>2
<1>. QED
  BY <1>1, <1>3, <1>4 DEF item, rest

LEMMA CutMoves ==
  ASSUME Typed, NEW s \in Socket, Cut(s)
  PROVE  /\ monitor.on = s /\ monitor'.on = NoSocket /\ channel'[s] = <<>>
         /\ monitor'.cursor = monitor.cursor /\ monitor'.read = monitor.read
         /\ \A o \in Socket : o # s => channel'[o] = channel[o]
<1>1. /\ monitor.on = s /\ monitor' = [monitor EXCEPT !.on = NoSocket] /\ channel' = [channel EXCEPT ![s] = <<>>]
  BY DEF Cut
<1>2. monitor \in Follows /\ channel \in [Socket -> Seq(0..MaxFrames)]
  BY DEF Typed, MonitorTyped, WatchTyped
<1>3. monitor'.on = NoSocket /\ monitor'.cursor = monitor.cursor /\ monitor'.read = monitor.read
  BY <1>1, <1>2 DEF Follows
<1>4. channel'[s] = <<>> /\ \A o \in Socket : o # s => channel'[o] = channel[o]
  BY <1>1, <1>2
<1>. QED
  BY <1>1, <1>3, <1>4

LEMMA MonitorSettled ==
  ASSUME Typed, Typed', Sent, Settled, NEW s \in Socket, Write(s) \/ Cut(s) PROVE Settled'
<1>1. UNCHANGED <<sequence, attached, caller, inbox, reader, socket>>
  BY DEF Write, Cut, serviceVars, workerVars
<1>2. \A o \in Socket : \A k \in Caller : \A n : Asked(o, k, n)' => Asked(o, k, n)
  BY <1>1 DEF Asked
<1>3. \A k \in Caller : Empty(k)'
  BY <1>1, StaysEmpty
<1>4. /\ monitor.on = s /\ monitor'.on \in {s, NoSocket} /\ (monitor'.on # s => channel'[s] = <<>>)
      /\ \A o \in Socket : o # s => channel'[o] = channel[o]
  BY WriteMoves, CutMoves
<1>5. \A o \in Socket : o # monitor'.on => channel'[o] = <<>>
  BY <1>4 DEF Settled, AskedOnce
<1>6. AskedOnce(s)'
  BY <1>1, <1>2, <1>4, <1>5 DEF Settled, AskedOnce
<1>. QED
  BY <1>1, <1>2, <1>3, <1>4, <1>5, <1>6, Constants, MovedSettled

LEMMA StepSettled == ASSUME Typed, Sent, Settled, [Next]_vars PROVE Settled'
<1>. Typed'
  BY StepTyped
<1>1. CASE UNCHANGED vars
  BY <1>1 DEF Settled, AskedOnce, Asked, Empty, vars, serviceVars, workerVars, watchVars
<1>2. ASSUME NEW k \in Others, Emit(k) PROVE Settled'
  BY <1>2, EmitSettled
<1>3. ASSUME NEW k \in Caller, Flush(k) PROVE Settled'
  BY <1>3, TakeSettled, SaySettled DEF Flush
<1>4. ASSUME NEW w \in Worker, Answers(w) \/ Replace(w) \/ Retire(w) \/ CloseAll(w) PROVE Settled'
  BY <1>4, AnswersSettled, ManagedSettled
<1>5. ASSUME NEW w \in Worker, Deliver(w) PROVE Settled'
  BY <1>5, ReadAnswerSettled, ReadEventSettled, DeliverNotSettled, DeliverMarkSettled, DeliverPushSettled,
     CloseBehindSettled DEF Deliver
<1>6. ASSUME NEW s \in Socket, ServeFeed(s) \/ AskFails(s) PROVE Settled'
  BY <1>6, AdmitSettled, AfterSettled, ServeSettled DEF ServeFeed
<1>7. ASSUME NEW s \in Socket, Open(s) \/ Write(s) \/ Cut(s) PROVE Settled'
  BY <1>7, OpenSettled, MonitorSettled
<1>. QED
  BY <1>1, <1>2, <1>3, <1>4, <1>5, <1>6, <1>7 DEF Next

-----------------------------------------------------------------------------
(* What is said, and taken up *)

\* a step that leaves the queue and the batches as they are
LEMMA SameSaid ==
  ASSUME NEW m, SaidInOrder(m), UNCHANGED <<sequence, queue>>,
         \A k \in Caller : caller'[k].batch = caller[k].batch
  PROVE  SaidInOrder(m)'
<1>1. \A frame : Unsaid(frame) => Unsaid(frame)'
  BY DEF Unsaid
<1>2. /\ m <= sequence'
      /\ \A i \in 1..Len(queue') : m < queue'[i] /\ queue'[i] <= sequence'
      /\ \A frame \in (m + 1)..sequence' : Unsaid(frame)'
      /\ \A i, j \in 1..Len(queue') : i < j => queue'[i] < queue'[j]
  BY <1>1 DEF SaidInOrder
<1>3. \A k \in Caller : \A i \in 1..Len(caller'[k].batch) :
        /\ m < caller'[k].batch[i] /\ caller'[k].batch[i] <= sequence'
        /\ \A j \in 1..Len(queue') : caller'[k].batch[i] < queue'[j]
        /\ \A j \in 1..Len(caller'[k].batch) : i < j => caller'[k].batch[i] < caller'[k].batch[j]
  BY DEF SaidInOrder
<1>4. \A k, l \in Caller : k # l =>
        \A i \in 1..Len(caller'[k].batch) : \A j \in 1..Len(caller'[l].batch) : caller'[k].batch[i] # caller'[l].batch[j]
  BY DEF SaidInOrder
<1>. QED
  BY <1>2, <1>3, <1>4 DEF SaidInOrder

\* the frames that are queued and taken are numbers
LEMMA FramesNat ==
  ASSUME Typed
  PROVE  /\ \A i \in 1..Len(queue) : queue[i] \in Nat
         /\ \A o \in Caller : \A i \in 1..Len(caller[o].batch) : caller[o].batch[i] \in Nat
<1>1. queue \in Seq(Nat) /\ \A o \in Caller : caller[o].batch \in Seq(Nat)
  BY Naturals1
<1>2. \A i \in 1..Len(queue) : queue[i] \in Nat
  BY <1>1
<1>3. \A o \in Caller : \A i \in 1..Len(caller[o].batch) : caller[o].batch[i] \in Nat
  BY <1>1
<1>. QED
  BY <1>2, <1>3

LEMMA EmitSaid ==
  ASSUME Typed, Settled, NEW m \in Nat, SaidInOrder(m), NEW k \in Others, Emit(k)
  PROVE  SaidInOrder(m)'
<1> DEFINE frame == sequence + 1
<1>1. /\ k \in Caller /\ Call(k, "idle", Acted(NoSocket)) /\ sequence' = frame
      /\ queue' = Append(queue, frame)
  BY Constants DEF Emit
<1>2. caller'[k] = Acted(NoSocket) /\ caller[k].at = "idle" /\ \A o \in Caller : o # k => caller'[o] = caller[o]
  BY <1>1, CallMoves
<1>3. \A o \in Caller : caller'[o].batch = caller[o].batch
  BY <1>2, ActedIs DEF Settled, Empty
<1>4. /\ sequence \in Nat /\ queue \in Seq(Nat) /\ frame \in Nat /\ sequence < frame /\ m < frame
      /\ \A i \in 1..Len(queue) : queue[i] \in Nat
      /\ \A o \in Caller : \A i \in 1..Len(caller[o].batch) : caller[o].batch[i] \in Nat
  BY Naturals1 DEF SaidInOrder
<1> HIDE DEF frame
<1>5. /\ Len(queue) \in Nat /\ Len(queue') = Len(queue) + 1 /\ queue'[Len(queue) + 1] = frame
      /\ \A i \in 1..Len(queue) : queue'[i] = queue[i] /\ i \in 1..Len(queue')
      /\ \A i \in 1..Len(queue') : i \in 1..Len(queue) \/ i = Len(queue) + 1
      /\ Len(queue) + 1 \in 1..Len(queue')
  BY <1>1, <1>4, AppendIs
<1>6. \A i \in 1..Len(queue') : m < queue'[i] /\ queue'[i] <= frame
  <2> SUFFICES ASSUME NEW i \in 1..Len(queue') PROVE m < queue'[i] /\ queue'[i] <= frame
    OBVIOUS
  <2>1. CASE i \in 1..Len(queue)
    <3>1. m < queue[i] /\ queue[i] <= sequence /\ queue[i] \in Nat /\ queue'[i] = queue[i]
      BY <1>4, <1>5, <2>1 DEF SaidInOrder
    <3>. QED
      BY <1>4, <3>1
  <2>2. CASE i = Len(queue) + 1
    BY <1>4, <1>5, <2>2
  <2>. QED
    BY <1>5, <2>1, <2>2
<1>7. \A f \in (m + 1)..frame : Unsaid(f)'
  <2> SUFFICES ASSUME NEW f \in (m + 1)..frame PROVE Unsaid(f)'
    OBVIOUS
  <2>1. CASE f = frame
    BY <1>5, <2>1 DEF Unsaid
  <2>2. CASE f # frame
    <3>1. f \in (m + 1)..sequence
      BY <1>4, <2>2 DEF frame
    <3>2. Unsaid(f)
      BY <3>1 DEF SaidInOrder
    <3>. QED
      BY <1>3, <1>5, <3>2 DEF Unsaid
  <2>. QED
    BY <2>1, <2>2
<1>8. \A i, j \in 1..Len(queue') : i < j => queue'[i] < queue'[j]
  <2> SUFFICES ASSUME NEW i \in 1..Len(queue'), NEW j \in 1..Len(queue'), i < j PROVE queue'[i] < queue'[j]
    OBVIOUS
  <2>1. i \in 1..Len(queue)
    BY <1>5
  <2>2. queue[i] <= sequence /\ queue[i] \in Nat
    BY <1>4, <2>1 DEF SaidInOrder
  <2>3. CASE j \in 1..Len(queue)
    BY <1>5, <2>1, <2>3 DEF SaidInOrder
  <2>4. CASE j = Len(queue) + 1
    BY <1>4, <1>5, <2>1, <2>2, <2>4
  <2>. QED
    BY <1>5, <2>3, <2>4
<1>9. \A o \in Caller : \A i \in 1..Len(caller'[o].batch) : \A j \in 1..Len(queue') : caller'[o].batch[i] < queue'[j]
  <2> SUFFICES ASSUME NEW o \in Caller, NEW i \in 1..Len(caller[o].batch), NEW j \in 1..Len(queue')
               PROVE  caller[o].batch[i] < queue'[j]
    BY <1>3
  <2>1. caller[o].batch[i] <= sequence /\ caller[o].batch[i] \in Nat
    BY <1>4 DEF SaidInOrder
  <2>2. CASE j \in 1..Len(queue)
    BY <1>5, <2>2 DEF SaidInOrder
  <2>3. CASE j = Len(queue) + 1
    BY <1>4, <1>5, <2>1, <2>3
  <2>. QED
    BY <1>5, <2>2, <2>3
<1>10. \A o \in Caller : \A i \in 1..Len(caller'[o].batch) : m < caller'[o].batch[i] /\ caller'[o].batch[i] <= frame
  BY <1>3, <1>4 DEF SaidInOrder
<1>11. m <= sequence'
  BY <1>1, <1>4
<1>12. \A o, l \in Caller : o # l =>
         \A i \in 1..Len(caller'[o].batch) : \A j \in 1..Len(caller'[l].batch) : caller'[o].batch[i] # caller'[l].batch[j]
  <2> SUFFICES ASSUME NEW o \in Caller, NEW l \in Caller, o # l,
                      NEW i \in 1..Len(caller'[o].batch), NEW j \in 1..Len(caller'[l].batch)
               PROVE  caller'[o].batch[i] # caller'[l].batch[j]
    OBVIOUS
  <2>1. \A x, y \in Caller : x # y =>
          \A f \in 1..Len(caller[x].batch) : \A g \in 1..Len(caller[y].batch) : caller[x].batch[f] # caller[y].batch[g]
    BY Zenon DEF SaidInOrder
  <2>2. caller'[o].batch = caller[o].batch /\ caller'[l].batch = caller[l].batch
    BY <1>3
  <2>. QED
    BY <2>1, <2>2
<1>13. \A o \in Caller : \A i, j \in 1..Len(caller'[o].batch) : i < j => caller'[o].batch[i] < caller'[o].batch[j]
  BY <1>3 DEF SaidInOrder
<1>. QED
  BY <1>1, <1>6, <1>7, <1>8, <1>9, <1>10, <1>11, <1>12, <1>13 DEF SaidInOrder

LEMMA TakeSaid ==
  ASSUME Typed, Settled, NEW m \in Nat, SaidInOrder(m), NEW k \in Caller, Take(k)
  PROVE  SaidInOrder(m)'
<1>1. /\ caller[k].batch = <<>> /\ caller'[k].batch = queue /\ queue' = <<>> /\ sequence' = sequence
      /\ \A o \in Caller : o # k => caller'[o] = caller[o]
  BY TakeMoves DEF Settled, Empty, Take
<1>2. \A i \in 1..Len(queue') : FALSE
  BY <1>1
<1>3. \A i \in 1..Len(caller[k].batch) : FALSE
  BY <1>1
<1>4. \A frame \in (m + 1)..sequence : Unsaid(frame)'
  BY <1>1, <1>3 DEF SaidInOrder, Unsaid
<1>5. \A o \in Caller : \A i \in 1..Len(caller'[o].batch) : m < caller'[o].batch[i] /\ caller'[o].batch[i] <= sequence
  BY <1>1 DEF SaidInOrder
<1>6. \A o \in Caller : \A i, j \in 1..Len(caller'[o].batch) : i < j => caller'[o].batch[i] < caller'[o].batch[j]
  BY <1>1 DEF SaidInOrder
<1>7. ASSUME NEW o \in Caller, NEW l \in Caller, o # l,
             NEW i \in 1..Len(caller'[o].batch), NEW j \in 1..Len(caller'[l].batch)
      PROVE  caller'[o].batch[i] # caller'[l].batch[j]
  <2>0. \A c \in Caller : \A x \in 1..Len(caller[c].batch) : \A y \in 1..Len(queue) :
          caller[c].batch[x] < queue[y] /\ caller[c].batch[x] \in Nat /\ queue[y] \in Nat
    <3>1. /\ \A y \in 1..Len(queue) : queue[y] \in Nat
          /\ \A c \in Caller : \A x \in 1..Len(caller[c].batch) : caller[c].batch[x] \in Nat
      BY FramesNat
    <3>. QED
      BY <3>1 DEF SaidInOrder
  <2>1. CASE o # k /\ l # k
    BY <1>1, <1>7, <2>1 DEF SaidInOrder
  <2>2. CASE o = k
    <3>1. caller[l].batch[j] < queue[i] /\ caller[l].batch[j] \in Nat /\ queue[i] \in Nat
      BY <1>1, <1>7, <2>0, <2>2
    <3>. QED
      BY <1>1, <1>7, <2>2, <3>1
  <2>3. CASE l = k
    <3>1. caller[o].batch[i] < queue[j] /\ caller[o].batch[i] \in Nat /\ queue[j] \in Nat
      BY <1>1, <1>7, <2>0, <2>3
    <3>. QED
      BY <1>1, <1>7, <2>3, <3>1
  <2>. QED
    BY <2>1, <2>2, <2>3
<1>8. m <= sequence
  BY DEF SaidInOrder
<1>. QED
  BY <1>1, <1>2, <1>4, <1>5, <1>6, <1>7, <1>8 DEF SaidInOrder

\* the frame said is the next one
LEMMA SayNext ==
  ASSUME Typed, NEW m \in Nat, SaidInOrder(m), NEW k \in Caller, Say(k), ~overtaken'
  PROVE  Head(caller[k].batch) = m + 1 /\ m + 1 <= sequence
<1> DEFINE frame == Head(caller[k].batch)
<1>1. caller[k].batch \in Seq(Nat) /\ caller[k].batch # <<>>
  BY SayMoves
<1>2. frame = caller[k].batch[1] /\ 1 \in 1..Len(caller[k].batch) /\ frame \in Nat
  BY <1>1, TailIs
<1>3. \A o \in Caller : ~OlderIn(caller[o].batch, frame)
  BY DEF Say
<1> HIDE DEF frame
<1>4. m < frame /\ frame <= sequence /\ sequence \in Nat
  BY <1>2, Naturals1 DEF SaidInOrder
<1>5. m + 1 \in (m + 1)..sequence
  BY <1>2, <1>4
<1>6. Unsaid(m + 1)
  BY <1>5 DEF SaidInOrder
<1>7. \A i \in 1..Len(queue) : queue[i] # m + 1
  <2> SUFFICES ASSUME NEW i \in 1..Len(queue) PROVE queue[i] # m + 1
    OBVIOUS
  <2>1. frame < queue[i] /\ queue[i] \in Nat
    BY <1>2, FramesNat DEF SaidInOrder
  <2>. QED
    BY <1>2, <1>4, <2>1
<1>8. \E o \in Caller : \E i \in 1..Len(caller[o].batch) : caller[o].batch[i] = m + 1
  BY <1>6, <1>7 DEF Unsaid
<1>9. ~(m + 1 < frame)
  BY <1>3, <1>8 DEF OlderIn
<1>10. frame = m + 1
  BY <1>2, <1>4, <1>9
<1>. QED
  BY <1>4, <1>10 DEF frame

LEMMA SaySaid ==
  ASSUME Typed, NEW m \in Nat, SaidInOrder(m), NEW k \in Caller, Say(k), ~overtaken'
  PROVE  SaidInOrder(m + 1)'
<1>1. /\ caller[k].batch \in Seq(Nat) /\ caller[k].batch # <<>> /\ caller'[k].batch = Tail(caller[k].batch)
      /\ \A o \in Caller : o # k => caller'[o] = caller[o]
  BY SayMoves
<1>2. UNCHANGED <<sequence, queue>>
  BY DEF Say
<1>3. Head(caller[k].batch) = m + 1 /\ m + 1 <= sequence /\ sequence \in Nat
  BY SayNext, Naturals1
<1> DEFINE batch == caller[k].batch
<1> DEFINE rest  == caller'[k].batch
<1>4. /\ Len(batch) \in Nat /\ 1 \in 1..Len(batch) /\ batch[1] = m + 1
      /\ \A i \in 1..Len(rest) : rest[i] = batch[i + 1] /\ i + 1 \in 1..Len(batch) /\ i \in Nat
      /\ \A i \in 1..Len(batch) : i # 1 => i - 1 \in 1..Len(rest) /\ rest[i - 1] = batch[i]
  <2>1. batch \in Seq(Nat) /\ batch # <<>> /\ rest = Tail(batch) /\ Head(batch) = m + 1
    BY <1>1, <1>3
  <2> HIDE DEF batch, rest
  <2>. QED
    BY <2>1, TailIs
<1>5. /\ \A i \in 1..Len(queue) : queue[i] \in Nat
      /\ \A o \in Caller : \A i \in 1..Len(caller[o].batch) : caller[o].batch[i] \in Nat
  BY FramesNat
<1>6. \A i \in 1..Len(queue) : m + 1 < queue[i] /\ queue[i] <= sequence
  <2>1. caller[k].batch[1] = m + 1 /\ 1 \in 1..Len(caller[k].batch)
    BY <1>4
  <2>. QED
    BY <2>1 DEF SaidInOrder
<1>7. \A i \in 1..Len(rest) : m + 1 < rest[i] /\ rest[i] <= sequence
  <2> SUFFICES ASSUME NEW i \in 1..Len(rest) PROVE m + 1 < rest[i] /\ rest[i] <= sequence
    OBVIOUS
  <2>1. i + 1 \in 1..Len(batch) /\ 1 < i + 1 /\ 1 \in 1..Len(batch)
    BY <1>4
  <2>2. batch[1] < batch[i + 1] /\ batch[i + 1] <= sequence
    BY <2>1 DEF SaidInOrder
  <2>. QED
    BY <1>4, <2>2
<1>8. ASSUME NEW o \in Caller, o # k, NEW i \in 1..Len(caller[o].batch)
      PROVE  m + 1 < caller[o].batch[i] /\ caller[o].batch[i] <= sequence
  <2>1. caller[o].batch[i] # batch[1] /\ m < caller[o].batch[i] /\ caller[o].batch[i] <= sequence
    BY <1>4, <1>8 DEF SaidInOrder
  <2>2. caller[o].batch[i] \in Nat
    BY <1>5
  <2>. QED
    BY <1>4, <2>1, <2>2
<1>9. \A o \in Caller : \A i \in 1..Len(caller'[o].batch) : m + 1 < caller'[o].batch[i] /\ caller'[o].batch[i] <= sequence
  BY <1>1, <1>7, <1>8
<1>10. \A frame \in (m + 2)..sequence : Unsaid(frame)'
  <2> SUFFICES ASSUME NEW frame \in (m + 2)..sequence PROVE Unsaid(frame)'
    OBVIOUS
  <2>1. frame \in (m + 1)..sequence /\ frame # m + 1
    BY <1>3
  <2>2. Unsaid(frame)
    BY <2>1 DEF SaidInOrder
  <2>3. CASE \E i \in 1..Len(queue) : queue[i] = frame
    BY <1>2, <2>3 DEF Unsaid
  <2>4. ASSUME NEW o \in Caller, NEW i \in 1..Len(caller[o].batch), caller[o].batch[i] = frame
        PROVE  \E j \in 1..Len(caller'[o].batch) : caller'[o].batch[j] = frame
    <3>1. CASE o # k
      BY <1>1, <2>4, <3>1
    <3>2. CASE o = k
      <4>1. i # 1
        BY <1>4, <2>1, <2>4, <3>2
      <4>2. i - 1 \in 1..Len(rest) /\ rest[i - 1] = batch[i]
        BY <1>4, <3>2, <4>1
      <4>. QED
        BY <2>4, <3>2, <4>2
    <3>. QED
      BY <3>1, <3>2
  <2>. QED
    BY <2>2, <2>3, <2>4 DEF Unsaid
<1>11. \A i, j \in 1..Len(rest) : i < j => rest[i] < rest[j]
  <2> SUFFICES ASSUME NEW i \in 1..Len(rest), NEW j \in 1..Len(rest), i < j PROVE rest[i] < rest[j]
    OBVIOUS
  <2>1. i + 1 \in 1..Len(batch) /\ j + 1 \in 1..Len(batch) /\ i + 1 < j + 1
    BY <1>4
  <2>2. batch[i + 1] < batch[j + 1]
    BY <2>1 DEF SaidInOrder
  <2>. QED
    BY <1>4, <2>2
<1>12. \A o \in Caller : \A i, j \in 1..Len(caller'[o].batch) : i < j => caller'[o].batch[i] < caller'[o].batch[j]
  BY <1>1, <1>11 DEF SaidInOrder
<1>13. \A o \in Caller : \A i \in 1..Len(caller'[o].batch) : \E j \in 1..Len(caller[o].batch) :
         caller'[o].batch[i] = caller[o].batch[j]
  <2> SUFFICES ASSUME NEW o \in Caller, NEW i \in 1..Len(caller'[o].batch)
               PROVE  \E j \in 1..Len(caller[o].batch) : caller'[o].batch[i] = caller[o].batch[j]
    OBVIOUS
  <2>1. CASE o # k
    BY <1>1, <2>1
  <2>2. CASE o = k
    BY <1>4, <2>2
  <2>. QED
    BY <2>1, <2>2
<1>14. \A o, l \in Caller : o # l =>
         \A i \in 1..Len(caller'[o].batch) : \A j \in 1..Len(caller'[l].batch) : caller'[o].batch[i] # caller'[l].batch[j]
  BY <1>13 DEF SaidInOrder
<1>15. \A o \in Caller : \A i \in 1..Len(caller'[o].batch) : \A j \in 1..Len(queue) : caller'[o].batch[i] < queue[j]
  BY <1>13 DEF SaidInOrder
<1> HIDE DEF batch, rest
<1>16. (m + 1) + 1 = m + 2
  OBVIOUS
<1>17. \A frame \in ((m + 1) + 1)..sequence : Unsaid(frame)'
  BY <1>10, <1>16
<1>18. \A i, j \in 1..Len(queue) : i < j => queue[i] < queue[j]
  BY DEF SaidInOrder
<1>. QED
  BY <1>2, <1>3, <1>6, <1>9, <1>12, <1>14, <1>15, <1>17, <1>18 DEF SaidInOrder

\* a step that leaves the lines as they are, and no worker a new frame to deliver
LEMMA SameTaken ==
  ASSUME NEW w \in Worker, NEW m, NEW a, TakenUp(w, m, a), inbox' = inbox,
         w \in attached' <=> w \in attached, reader'[w].frame \in {0, reader[w].frame}
  PROVE  TakenUp(w, m, a)'
  BY DEF TakenUp, IsEvent

\* an event that is said is taken up last
LEMMA SayTaken ==
  ASSUME Typed, NEW m \in Nat, NEW k \in Caller, Say(k), Head(caller[k].batch) = m + 1,
         NEW w \in Worker, NEW a \in Nat, TakenUp(w, m, a)
  PROVE  TakenUp(w, m + 1, a)'
<1>1. UNCHANGED <<attached, reader>>
  BY DEF Say, workerVars
<1>2. /\ w \in attached => inbox'[w] = Append(inbox[w], Event(m + 1))
      /\ w \notin attached => inbox'[w] = inbox[w]
  BY SayLines
<1>3. inbox[w] \in Seq(Heard) /\ a <= m
  BY Naturals1 DEF TakenUp
<1>4. \A i \in 1..Len(inbox[w]) : inbox[w][i].number \in Nat
  <2>1. \A line \in Heard : line.number \in Nat
    BY FeedConstants DEF Heard, Line
  <2>. QED
    BY <1>3, <2>1
<1>5. CASE w \in attached
  <2>1. /\ Len(inbox[w]) \in Nat /\ inbox'[w][Len(inbox[w]) + 1] = Event(m + 1)
        /\ \A i \in 1..Len(inbox[w]) : inbox'[w][i] = inbox[w][i] /\ i \in 1..Len(inbox'[w])
        /\ \A i \in 1..Len(inbox'[w]) : i \in 1..Len(inbox[w]) \/ i = Len(inbox[w]) + 1
        /\ Len(inbox[w]) + 1 \in 1..Len(inbox'[w])
    <3>1. inbox[w] \in Seq(Heard) /\ inbox'[w] = Append(inbox[w], Event(m + 1))
      BY <1>2, <1>3, <1>5
    <3>. QED
      BY <3>1, AppendIs
  <2>2. Event(m + 1).for = NoSocket /\ Event(m + 1).number = m + 1
    BY AnswerIs
  <2>3. \A frame \in (a + 1)..(m + 1) : \E i \in 1..Len(inbox'[w]) : inbox'[w][i] = Event(frame)
    <3> SUFFICES ASSUME NEW frame \in (a + 1)..(m + 1)
                 PROVE  \E i \in 1..Len(inbox'[w]) : inbox'[w][i] = Event(frame)
      OBVIOUS
    <3>1. CASE frame = m + 1
      BY <2>1, <3>1
    <3>2. CASE frame # m + 1
      <4>1. frame \in (a + 1)..m
        BY <3>2
      <4>. QED
        BY <1>5, <2>1, <4>1 DEF TakenUp
    <3>. QED
      BY <3>1, <3>2
  <2>4. \A i \in 1..Len(inbox'[w]) : inbox'[w][i].for = NoSocket => a < inbox'[w][i].number /\ inbox'[w][i].number <= m + 1
    <3> SUFFICES ASSUME NEW i \in 1..Len(inbox'[w]), inbox'[w][i].for = NoSocket
                 PROVE  a < inbox'[w][i].number /\ inbox'[w][i].number <= m + 1
      OBVIOUS
    <3>1. CASE i \in 1..Len(inbox[w])
      <4>1. inbox'[w][i] = inbox[w][i] /\ inbox[w][i].number \in Nat
        BY <1>4, <2>1, <3>1
      <4>2. a < inbox[w][i].number /\ inbox[w][i].number <= m
        BY <3>1, <4>1 DEF TakenUp, IsEvent
      <4>. QED
        BY <4>1, <4>2
    <3>2. CASE i = Len(inbox[w]) + 1
      BY <1>3, <2>1, <2>2, <3>2
    <3>. QED
      BY <2>1, <3>1, <3>2
  <2>5. \A i, j \in 1..Len(inbox'[w]) :
          inbox'[w][i].for = NoSocket /\ inbox'[w][j].for = NoSocket /\ i < j => inbox'[w][i].number < inbox'[w][j].number
    <3> SUFFICES ASSUME NEW i \in 1..Len(inbox'[w]), NEW j \in 1..Len(inbox'[w]), i < j,
                        inbox'[w][i].for = NoSocket, inbox'[w][j].for = NoSocket
                 PROVE  inbox'[w][i].number < inbox'[w][j].number
      OBVIOUS
    <3>1. i \in 1..Len(inbox[w])
      BY <2>1
    <3>2. inbox[w][i].number <= m /\ inbox[w][i].number \in Nat
      BY <1>4, <2>1, <3>1 DEF TakenUp, IsEvent
    <3>3. CASE j \in 1..Len(inbox[w])
      BY <2>1, <3>1, <3>3 DEF TakenUp, IsEvent
    <3>4. CASE j = Len(inbox[w]) + 1
      <4>1. inbox'[w][j].number = m + 1 /\ inbox'[w][i] = inbox[w][i]
        BY <2>1, <2>2, <3>1, <3>4
      <4>. QED
        BY <3>2, <4>1
    <3>. QED
      BY <2>1, <3>3, <3>4
  <2>6. a <= m + 1
    BY <1>3
  <2>. QED
    BY <1>1, <1>5, <2>3, <2>4, <2>5, <2>6 DEF TakenUp, IsEvent
<1>6. CASE w \notin attached
  <2>1. a <= m + 1
    BY <1>3
  <2>2. \A i \in 1..Len(inbox[w]) : ~IsEvent(w, i)
    BY <1>6 DEF TakenUp
  <2>. QED
    BY <1>1, <1>2, <1>6, <2>1, <2>2 DEF TakenUp, IsEvent
<1>. QED
  BY <1>5, <1>6

\* an answer is no event
LEMMA AnswersTaken ==
  ASSUME Typed, NEW m, NEW v \in Worker, Answers(v), NEW w \in Worker, NEW a, TakenUp(w, m, a)
  PROVE  TakenUp(w, m, a)'
<1> DEFINE line == Answer(caller[v].asks, caller[v].upTo)
<1>1. UNCHANGED <<attached, reader>>
  BY DEF Answers, workerVars
<1>2. inbox'[v] = Append(inbox[v], line) /\ \A o \in Worker : o # v => inbox'[o] = inbox[o]
  BY DEF Answers, Typed, InboxTyped
<1>3. v \in Caller /\ caller[v].at = "said"
  BY Naturals1 DEF Answers, Call
<1>4. line.for # NoSocket
  BY <1>3, AnswerIs DEF Typed, ServiceTyped
<1> HIDE DEF line
<1>5. CASE w # v
  BY <1>1, <1>2, <1>5 DEF TakenUp, IsEvent
<1>6. CASE w = v
  <2>1. inbox[w] \in Seq(Heard)
    BY Naturals1
  <2>2. /\ Len(inbox[w]) \in Nat /\ inbox'[w][Len(inbox[w]) + 1] = line
        /\ \A i \in 1..Len(inbox[w]) : inbox'[w][i] = inbox[w][i] /\ i \in 1..Len(inbox'[w])
        /\ \A i \in 1..Len(inbox'[w]) : i \in 1..Len(inbox[w]) \/ i = Len(inbox[w]) + 1
    BY <1>2, <1>6, <2>1, AppendIs
  <2>3. \A i \in 1..Len(inbox'[w]) : inbox'[w][i].for = NoSocket => i \in 1..Len(inbox[w])
    BY <1>4, <2>2
  <2>4. \A frame \in (a + 1)..m : w \in attached => \E i \in 1..Len(inbox'[w]) : inbox'[w][i] = Event(frame)
    BY <2>2 DEF TakenUp
  <2>5. \A i \in 1..Len(inbox'[w]) : inbox'[w][i].for = NoSocket =>
          w \in attached /\ a < inbox'[w][i].number /\ inbox'[w][i].number <= m
    BY <2>2, <2>3 DEF TakenUp, IsEvent
  <2>6. \A i, j \in 1..Len(inbox'[w]) :
          inbox'[w][i].for = NoSocket /\ inbox'[w][j].for = NoSocket /\ i < j => inbox'[w][i].number < inbox'[w][j].number
    BY <2>2, <2>3 DEF TakenUp, IsEvent
  <2>. QED
    BY <1>1, <2>4, <2>5, <2>6 DEF TakenUp, IsEvent
<1>. QED
  BY <1>5, <1>6

\* the lines of a worker that reads one
LEMMA LinesRead ==
  ASSUME Typed, NEW w \in Worker, inbox[w] # <<>>, inbox'[w] = Tail(inbox[w])
  PROVE  /\ Head(inbox[w]) = inbox[w][1] /\ 1 \in 1..Len(inbox[w])
         /\ \A i \in 1..Len(inbox'[w]) : inbox'[w][i] = inbox[w][i + 1] /\ i + 1 \in 1..Len(inbox[w]) /\ i \in Nat
         /\ \A i \in 1..Len(inbox[w]) : i # 1 => i - 1 \in 1..Len(inbox'[w]) /\ inbox'[w][i - 1] = inbox[w][i]
         /\ \A i \in 1..Len(inbox[w]) : inbox[w][i] \in Heard /\ inbox[w][i].number \in Nat
         /\ \A i, j \in 1..Len(inbox'[w]) : i < j => i + 1 < j + 1
<1>1. inbox[w] \in Seq(Heard)
  BY Naturals1
<1>2. \A line \in Heard : line.number \in Nat
  BY FeedConstants DEF Heard, Line
<1>3. /\ Head(inbox[w]) = inbox[w][1] /\ 1 \in 1..Len(inbox[w])
      /\ \A i \in 1..Len(inbox'[w]) : inbox'[w][i] = inbox[w][i + 1] /\ i + 1 \in 1..Len(inbox[w]) /\ i \in Nat
      /\ \A i \in 1..Len(inbox[w]) : i # 1 => i - 1 \in 1..Len(inbox'[w]) /\ inbox'[w][i - 1] = inbox[w][i]
  BY <1>1, TailIs
<1>4. \A i, j \in 1..Len(inbox'[w]) : i < j => i + 1 < j + 1
  OBVIOUS
<1>. QED
  BY <1>1, <1>2, <1>3, <1>4

LEMMA ReadAnswerTaken ==
  ASSUME Typed, NEW m, NEW v \in Worker, ReadAnswer(v), NEW w \in Worker, NEW a, TakenUp(w, m, a)
  PROVE  TakenUp(w, m, a)'
<1>1. UNCHANGED <<attached, reader>>
  BY DEF ReadAnswer, workerVars
<1>2. /\ inbox[v] # <<>> /\ inbox'[v] = Tail(inbox[v]) /\ \A o \in Worker : o # v => inbox'[o] = inbox[o]
      /\ Head(inbox[v]).for # NoSocket
  BY DEF ReadAnswer, Reading, Typed, InboxTyped
<1>3. CASE w # v
  BY <1>1, <1>2, <1>3 DEF TakenUp, IsEvent
<1>4. CASE w = v
  <2>1. /\ inbox[w][1].for # NoSocket
        /\ \A i \in 1..Len(inbox'[w]) : inbox'[w][i] = inbox[w][i + 1] /\ i + 1 \in 1..Len(inbox[w]) /\ i \in Nat
        /\ \A i \in 1..Len(inbox[w]) : i # 1 => i - 1 \in 1..Len(inbox'[w]) /\ inbox'[w][i - 1] = inbox[w][i]
        /\ \A i, j \in 1..Len(inbox'[w]) : i < j => i + 1 < j + 1
    BY <1>2, <1>4, LinesRead
  <2>2. \A frame \in (a + 1)..m : w \in attached => \E i \in 1..Len(inbox'[w]) : inbox'[w][i] = Event(frame)
    <3> SUFFICES ASSUME NEW frame \in (a + 1)..m, w \in attached
                 PROVE  \E i \in 1..Len(inbox'[w]) : inbox'[w][i] = Event(frame)
      OBVIOUS
    <3>1. PICK i \in 1..Len(inbox[w]) : inbox[w][i] = Event(frame)
      BY DEF TakenUp
    <3>2. i # 1
      BY <2>1, <3>1, AnswerIs
    <3>. QED
      BY <2>1, <3>1, <3>2
  <2>3. \A i \in 1..Len(inbox'[w]) : inbox'[w][i].for = NoSocket =>
          w \in attached /\ a < inbox'[w][i].number /\ inbox'[w][i].number <= m
    BY <2>1 DEF TakenUp, IsEvent
  <2>4. \A i, j \in 1..Len(inbox'[w]) :
          inbox'[w][i].for = NoSocket /\ inbox'[w][j].for = NoSocket /\ i < j => inbox'[w][i].number < inbox'[w][j].number
    <3> SUFFICES ASSUME NEW i \in 1..Len(inbox'[w]), NEW j \in 1..Len(inbox'[w]), i < j,
                        inbox'[w][i].for = NoSocket, inbox'[w][j].for = NoSocket
                 PROVE  inbox'[w][i].number < inbox'[w][j].number
      OBVIOUS
    <3>1. /\ i + 1 \in 1..Len(inbox[w]) /\ j + 1 \in 1..Len(inbox[w]) /\ i + 1 < j + 1
          /\ inbox'[w][i] = inbox[w][i + 1] /\ inbox'[w][j] = inbox[w][j + 1]
      BY <2>1
    <3>. QED
      BY <3>1 DEF TakenUp, IsEvent
  <2>. QED
    BY <1>1, <2>2, <2>3, <2>4 DEF TakenUp, IsEvent
<1>. QED
  BY <1>3, <1>4

\* what reading an event changes
LEMMA ReadEventMoves ==
  ASSUME Typed, NEW w \in Worker, ReadEvent(w)
  PROVE  /\ inbox[w] # <<>> /\ inbox'[w] = Tail(inbox[w]) /\ \A o \in Worker : o # w => inbox'[o] = inbox[o]
         /\ Head(inbox[w]).for = NoSocket /\ reader[w].frame = 0 /\ reader[w].behind = {}
         /\ reader'[w].holds = reader[w].holds /\ reader'[w].behind = {}
         /\ watching[w] = {} => reader'[w].frame = 0 /\ reader'[w].todo = reader[w].todo
         /\ watching[w] # {} => reader'[w].frame = Head(inbox[w]).number /\ reader'[w].todo = watching[w]
         /\ \A o \in Worker : o # w => reader'[o] = reader[o]
<1> DEFINE line == Head(inbox[w])
<1>1. /\ inbox[w] # <<>> /\ inbox'[w] = Tail(inbox[w]) /\ \A o \in Worker : o # w => inbox'[o] = inbox[o]
      /\ line.for = NoSocket /\ reader[w].frame = 0 /\ reader[w].behind = {}
  BY DEF ReadEvent, Reading, Typed, InboxTyped
<1>2. reader' = IF watching[w] = {} THEN reader
                ELSE [reader EXCEPT ![w].frame = line.number, ![w].todo = watching[w]]
  BY DEF ReadEvent
<1> HIDE DEF line
<1>3. reader \in [Worker -> Reads]
  BY DEF Typed, ReaderTyped
<1>4. CASE watching[w] = {}
  BY <1>1, <1>2, <1>4 DEF line
<1>5. CASE watching[w] # {}
  <2>1. reader' = [reader EXCEPT ![w].frame = line.number, ![w].todo = watching[w]]
    BY <1>2, <1>5
  <2>2. /\ reader'[w].frame = line.number /\ reader'[w].todo = watching[w]
        /\ reader'[w].holds = reader[w].holds /\ reader'[w].behind = reader[w].behind
        /\ \A o \in Worker : o # w => reader'[o] = reader[o]
    BY <1>3, <2>1 DEF Reads
  <2>. QED
    BY <1>1, <1>5, <2>2 DEF line
<1>. QED
  BY <1>4, <1>5

\* the event read is the next one
LEMMA ReadNext ==
  ASSUME Typed, NEW m \in Nat, NEW w \in Worker, ReadEvent(w), NEW a \in Nat, TakenUp(w, m, a)
  PROVE  Head(inbox[w]).number = a + 1 /\ a + 1 <= m /\ w \in attached
<1>1. inbox[w] # <<>> /\ inbox'[w] = Tail(inbox[w]) /\ Head(inbox[w]).for = NoSocket
  BY ReadEventMoves
<1>2. /\ Head(inbox[w]) = inbox[w][1] /\ 1 \in 1..Len(inbox[w])
      /\ \A i \in 1..Len(inbox[w]) : inbox[w][i] \in Heard /\ inbox[w][i].number \in Nat
  BY <1>1, LinesRead
<1> DEFINE head == inbox[w][1].number
<1>3. IsEvent(w, 1) /\ head \in Nat
  BY <1>1, <1>2 DEF IsEvent
<1>4. w \in attached /\ a < head /\ head <= m
  BY <1>2, <1>3 DEF TakenUp
<1>5. a + 1 \in (a + 1)..m
  BY <1>3, <1>4
<1>6. PICK i \in 1..Len(inbox[w]) : inbox[w][i] = Event(a + 1)
  BY <1>4, <1>5 DEF TakenUp
<1>7. IsEvent(w, i) /\ inbox[w][i].number = a + 1
  BY <1>6, AnswerIs DEF IsEvent
<1>8. i # 1 => head < a + 1
  BY <1>2, <1>3, <1>7 DEF TakenUp
<1>. QED
  BY <1>2, <1>3, <1>4, <1>7, <1>8

LEMMA ReadEventTaken ==
  ASSUME Typed, NEW m \in Nat, NEW w \in Worker, ReadEvent(w), NEW a \in Nat, TakenUp(w, m, a)
  PROVE  TakenUp(w, m, a + 1)'
<1>1. UNCHANGED attached
  BY DEF ReadEvent, workerVars
<1>2. /\ inbox[w] # <<>> /\ inbox'[w] = Tail(inbox[w]) /\ reader'[w].frame \in {0, Head(inbox[w]).number}
      /\ Head(inbox[w]).for = NoSocket
  BY ReadEventMoves
<1>3. Head(inbox[w]).number = a + 1 /\ a + 1 <= m /\ w \in attached
  BY ReadNext
<1>4. /\ inbox[w][1].for = NoSocket /\ inbox[w][1].number = a + 1 /\ 1 \in 1..Len(inbox[w])
      /\ \A i \in 1..Len(inbox'[w]) : inbox'[w][i] = inbox[w][i + 1] /\ i + 1 \in 1..Len(inbox[w]) /\ i \in Nat
      /\ \A i \in 1..Len(inbox[w]) : i # 1 => i - 1 \in 1..Len(inbox'[w]) /\ inbox'[w][i - 1] = inbox[w][i]
      /\ \A i, j \in 1..Len(inbox'[w]) : i < j => i + 1 < j + 1
      /\ \A i \in 1..Len(inbox'[w]) : 1 < i + 1
  BY <1>2, <1>3, LinesRead
<1>5. \A frame \in ((a + 1) + 1)..m : \E i \in 1..Len(inbox'[w]) : inbox'[w][i] = Event(frame)
  <2> SUFFICES ASSUME NEW frame \in ((a + 1) + 1)..m
               PROVE  \E i \in 1..Len(inbox'[w]) : inbox'[w][i] = Event(frame)
    OBVIOUS
  <2>1. frame \in (a + 1)..m /\ frame # a + 1
    OBVIOUS
  <2>2. PICK i \in 1..Len(inbox[w]) : inbox[w][i] = Event(frame)
    BY <1>3, <2>1 DEF TakenUp
  <2>3. i # 1
    BY <1>4, <2>1, <2>2, AnswerIs
  <2>. QED
    BY <1>4, <2>2, <2>3
<1>6. \A i \in 1..Len(inbox'[w]) : inbox'[w][i].for = NoSocket => a + 1 < inbox'[w][i].number /\ inbox'[w][i].number <= m
  <2> SUFFICES ASSUME NEW i \in 1..Len(inbox'[w]), inbox'[w][i].for = NoSocket
               PROVE  a + 1 < inbox'[w][i].number /\ inbox'[w][i].number <= m
    OBVIOUS
  <2>1. inbox'[w][i] = inbox[w][i + 1] /\ i + 1 \in 1..Len(inbox[w]) /\ 1 < i + 1
    BY <1>4
  <2>2. inbox[w][i + 1].number <= m /\ inbox[w][1].number < inbox[w][i + 1].number
    BY <1>4, <2>1 DEF TakenUp, IsEvent
  <2>. QED
    BY <1>4, <2>1, <2>2
<1>7. \A i, j \in 1..Len(inbox'[w]) :
        inbox'[w][i].for = NoSocket /\ inbox'[w][j].for = NoSocket /\ i < j => inbox'[w][i].number < inbox'[w][j].number
  <2> SUFFICES ASSUME NEW i \in 1..Len(inbox'[w]), NEW j \in 1..Len(inbox'[w]), i < j,
                      inbox'[w][i].for = NoSocket, inbox'[w][j].for = NoSocket
               PROVE  inbox'[w][i].number < inbox'[w][j].number
    OBVIOUS
  <2>1. /\ i + 1 \in 1..Len(inbox[w]) /\ j + 1 \in 1..Len(inbox[w]) /\ i + 1 < j + 1
        /\ inbox'[w][i] = inbox[w][i + 1] /\ inbox'[w][j] = inbox[w][j + 1]
    BY <1>4
  <2>. QED
    BY <2>1 DEF TakenUp, IsEvent
<1>. QED
  BY <1>1, <1>2, <1>3, <1>5, <1>6, <1>7 DEF TakenUp, IsEvent

\* a worker that is attached has taken up all that was said
LEMMA ReplaceTaken ==
  ASSUME NEW m \in Nat, NEW v \in Worker, Replace(v), NEW a, TakenUp(v, m, a)
  PROVE  TakenUp(v, m, m)'
<1>1. v \notin attached /\ UNCHANGED <<inbox, reader>>
  BY DEF Replace, watchVars
<1>2. reader[v].frame = 0 /\ \A i \in 1..Len(inbox[v]) : ~IsEvent(v, i)
  BY <1>1 DEF TakenUp
<1>3. \A frame \in (m + 1)..m : FALSE
  OBVIOUS
<1>. QED
  BY <1>1, <1>2, <1>3 DEF TakenUp, IsEvent

-----------------------------------------------------------------------------
(* The monitor's socket *)

LEMMA SameChannel ==
  ASSUME Typed, Typed', NEW s \in Socket, ChannelInOrder(s), channel'[s] = channel[s],
         monitor'.cursor = monitor.cursor, sequence <= sequence'
  PROVE  ChannelInOrder(s)' /\ (Closed(s)' <=> Closed(s))
<1>1. /\ sequence \in Nat /\ sequence' \in Nat /\ channel[s] \in Seq(Nat)
  BY Naturals1, FeedConstants DEF Typed, ServiceTyped
<1>2. \A i \in 1..Len(channel[s]) : channel[s][i] \in Nat
  BY <1>1
<1>3. \A i \in 1..Len(channel[s]) : BeforeEnd(s, i)' => BeforeEnd(s, i)
  BY DEF BeforeEnd
<1>4. ChannelInOrder(s)'
  <2> SUFFICES ASSUME NEW i \in 1..Len(channel[s]), BeforeEnd(s, i)'
               PROVE  channel[s][i] = monitor.cursor + i /\ channel[s][i] <= sequence'
    BY DEF ChannelInOrder
  <2>1. channel[s][i] = monitor.cursor + i /\ channel[s][i] <= sequence
    BY <1>3 DEF ChannelInOrder
  <2>. QED
    BY <1>1, <1>2, <2>1
<1>. QED
  BY <1>4 DEF Closed

\* a socket whose channel has its end is followed wherever it goes
LEMMA ClosedFollowed ==
  ASSUME Typed, Typed', NEW s \in Socket, ChannelInOrder(s), Closed(s), channel'[s] = channel[s],
         monitor'.cursor = monitor.cursor, sequence <= sequence', NEW a
  PROVE  Followed(s, a)'
<1>1. ChannelInOrder(s)' /\ Closed(s)'
  BY SameChannel
<1>. QED
  BY <1>1 DEF Followed, Remembered

\* what more there is on a channel
LEMMA LongerChannel ==
  ASSUME Typed, NEW s \in Socket, NEW item, channel'[s] = Append(channel[s], item)
  PROVE  /\ Len(channel[s]) \in Nat /\ Len(channel'[s]) = Len(channel[s]) + 1
         /\ channel'[s][Len(channel[s]) + 1] = item
         /\ \A i \in 1..Len(channel[s]) : /\ channel'[s][i] = channel[s][i] /\ i \in 1..Len(channel'[s])
                                          /\ \A j \in 1..i : j \in 1..Len(channel[s])
         /\ \A i \in 1..Len(channel'[s]) : i \in 1..Len(channel[s]) \/ i = Len(channel[s]) + 1
         /\ Len(channel[s]) + 1 \in 1..Len(channel'[s])
         /\ \A i \in 1..Len(channel[s]) : i \in 1..(Len(channel[s]) + 1)
<1>1. channel[s] \in Seq(Nat)
  BY Naturals1
<1>2. /\ Len(channel[s]) \in Nat /\ Len(channel'[s]) = Len(channel[s]) + 1
      /\ channel'[s][Len(channel[s]) + 1] = item
      /\ \A i \in 1..Len(channel[s]) : channel'[s][i] = channel[s][i] /\ i \in 1..Len(channel'[s])
      /\ \A i \in 1..Len(channel'[s]) : i \in 1..Len(channel[s]) \/ i = Len(channel[s]) + 1
      /\ Len(channel[s]) + 1 \in 1..Len(channel'[s])
  BY <1>1, AppendIs
<1>3. \A i \in 1..Len(channel[s]) : (\A j \in 1..i : j \in 1..Len(channel[s])) /\ i \in 1..(Len(channel[s]) + 1)
  BY <1>2
<1>. QED
  BY <1>2, <1>3

LEMMA LongerInOrder ==
  ASSUME Typed, Typed', NEW s \in Socket, ChannelInOrder(s), NEW item,
         channel'[s] = Append(channel[s], item), monitor'.cursor = monitor.cursor, sequence' = sequence,
         \/ item = EndOfChannel \/ Closed(s)
         \/ item = monitor.cursor + Len(channel[s]) + 1 /\ item <= sequence
  PROVE  /\ ChannelInOrder(s)'
         /\ item = EndOfChannel \/ Closed(s) => Closed(s)'
         /\ item # EndOfChannel /\ ~Closed(s) => ~Closed(s)'
<1>1. /\ Len(channel[s]) \in Nat /\ channel'[s][Len(channel[s]) + 1] = item
      /\ \A i \in 1..Len(channel[s]) : /\ channel'[s][i] = channel[s][i] /\ i \in 1..Len(channel'[s])
                                       /\ \A j \in 1..i : j \in 1..Len(channel[s])
      /\ \A i \in 1..Len(channel'[s]) : i \in 1..Len(channel[s]) \/ i = Len(channel[s]) + 1
      /\ Len(channel[s]) + 1 \in 1..Len(channel'[s])
      /\ \A i \in 1..Len(channel[s]) : i \in 1..(Len(channel[s]) + 1)
  BY LongerChannel
<1>2. /\ item = EndOfChannel \/ Closed(s) => Closed(s)'
      /\ item # EndOfChannel /\ ~Closed(s) => ~Closed(s)'
  BY <1>1 DEF Closed
<1>3. ASSUME NEW i \in 1..Len(channel[s]), BeforeEnd(s, i)'
      PROVE  channel'[s][i] = monitor.cursor + i /\ channel'[s][i] <= sequence
  <2>1. BeforeEnd(s, i)
    BY <1>1, <1>3 DEF BeforeEnd
  <2>. QED
    BY <1>1, <2>1 DEF ChannelInOrder
<1>4. ASSUME NEW i, i = Len(channel[s]) + 1, BeforeEnd(s, i)'
      PROVE  item = monitor.cursor + i /\ item <= sequence
  <2>1. \A j \in 1..i : channel'[s][j] # EndOfChannel
    BY <1>4 DEF BeforeEnd
  <2>2. i \in 1..i
    BY <1>1, <1>4
  <2>3. item # EndOfChannel
    BY <1>1, <1>4, <2>1, <2>2
  <2>4. ~Closed(s)
    BY <1>1, <1>4, <2>1 DEF Closed
  <2>. QED
    BY <1>1, <1>4, <2>3, <2>4, Naturals1
<1>5. ASSUME NEW i \in 1..Len(channel'[s]), BeforeEnd(s, i)'
      PROVE  channel'[s][i] = monitor.cursor + i /\ channel'[s][i] <= sequence
  <2>1. CASE i \in 1..Len(channel[s])
    BY <1>3, <1>5, <2>1
  <2>2. CASE i = Len(channel[s]) + 1
    BY <1>1, <1>4, <1>5, <2>2
  <2>. QED
    BY <1>1, <2>1, <2>2
<1>6. ChannelInOrder(s)'
  BY <1>5 DEF ChannelInOrder
<1>. QED
  BY <1>2, <1>6

\* a socket that is told its end
LEMMA EndedFollowed ==
  ASSUME Typed, Typed', NEW s \in Socket, ChannelInOrder(s), NEW item,
         channel'[s] = Append(channel[s], item), item = EndOfChannel \/ Closed(s),
         monitor'.cursor = monitor.cursor, sequence' = sequence, NEW a
  PROVE  Followed(s, a)'
<1>1. ChannelInOrder(s)' /\ Closed(s)'
  BY LongerInOrder
<1>. QED
  BY <1>1 DEF Followed, Remembered

\* a socket nothing is done to
LEMMA StaysFollowed ==
  ASSUME Typed, Typed', NEW s \in Socket, NEW a, Followed(s, a),
         socket'[s] = socket[s], channel'[s] = channel[s], delivered'[s] = delivered[s], pushed'[s] = pushed[s],
         monitor'.cursor = monitor.cursor, sequence <= sequence',
         s \in watching[socket[s].on] => s \in watching'[socket[s].on],
         \A w \in Worker : reader'[w].holds = s <=> reader[w].holds = s,
         \A w \in Worker : reader[w].holds = s => reader'[w].frame = reader[w].frame,
         s \in reader'[socket[s].on].behind <=> s \in reader[socket[s].on].behind,
         s \in reader[socket[s].on].todo => s \in reader'[socket[s].on].todo,
         \A k \in Caller : \A n : Asked(s, k, n)' => Asked(s, k, n)
  PROVE  Followed(s, a)'
<1>1. ChannelInOrder(s)' /\ (Closed(s)' <=> Closed(s))
  BY SameChannel DEF Followed
<1>2. Remembered(s)'
  BY <1>1 DEF Followed, Remembered
<1>3. ASSUME ~Closed(s) PROVE OnItsWay(s, a)'
  <2>1. Live(s)' = Live(s) /\ Replaying(s)' = Replaying(s) /\ TooFar(s)' = TooFar(s)
    BY DEF Live, Replaying, TooFar
  <2>2. Marking(s)' <=> Marking(s)
    BY DEF Marking
  <2>3. MarkedInOrder(s) /\ ReplayInOrder(s) /\ NoneSkipped(s, a)
    BY <1>3 DEF Followed, OnItsWay
  <2>4. sequence \in Nat /\ sequence' \in Nat /\ delivered[s] \in Nat /\ socket[s].on \in Caller
    BY Naturals1, Numbers, FeedConstants DEF Typed, ServiceTyped
  <2>5. delivered[s] <= sequence'
    BY <2>3, <2>4 DEF MarkedInOrder
  <2>6. MarkedInOrder(s)'
    BY <2>1, <2>2, <2>3, <2>5 DEF MarkedInOrder
  <2>7. ReplayInOrder(s)'
    BY <2>1, <2>3 DEF ReplayInOrder
  <2>8. \A n : Promised(s, a, n) => Promised(s, a, n)'
    BY DEF Promised, Reached
  <2>9. NoneSkipped(s, a)'
    BY <2>1, <2>3, <2>4, <2>8 DEF NoneSkipped
  <2>. QED
    BY <2>6, <2>7, <2>9 DEF OnItsWay
<1>. QED
  BY <1>1, <1>2, <1>3 DEF Followed

\* a step of the service
LEMMA ServiceFollowed ==
  ASSUME Typed, Typed', NEW s \in Socket, NEW a, Followed(s, a),
         UNCHANGED <<socket, channel, delivered, pushed, watching, reader, monitor>>, sequence <= sequence',
         \A k \in Caller : \A n : Asked(s, k, n)' => Asked(s, k, n)
  PROVE  Followed(s, a)'
  BY StaysFollowed

\* a step that does nothing to this socket but through the workers
LEMMA PassedFollowed ==
  ASSUME Typed, Typed', NEW s \in Socket, NEW a, Followed(s, a),
         UNCHANGED <<sequence, caller, inbox, monitor>>,
         socket'[s] = socket[s], channel'[s] = channel[s], delivered'[s] = delivered[s], pushed'[s] = pushed[s],
         \A w \in Worker : s \in watching'[w] <=> s \in watching[w],
         \A w \in Worker : reader'[w].holds = s <=> reader[w].holds = s,
         \A w \in Worker : reader[w].holds = s => reader'[w].frame = reader[w].frame,
         \A w \in Worker : s \in reader'[w].behind <=> s \in reader[w].behind,
         \A w \in Worker : s \in reader[w].todo => s \in reader'[w].todo
  PROVE  Followed(s, a)'
<1>1. sequence <= sequence' /\ socket[s].on \in Worker
  BY Naturals1
<1>2. \A k \in Caller : \A n : Asked(s, k, n)' => Asked(s, k, n)
  BY DEF Asked
<1>. QED
  BY <1>1, <1>2, StaysFollowed

\* nobody is marking for a socket that is not read live and not replayed to
LEMMA NobodyMarks ==
  ASSUME NEW s \in Socket, MarkedInOrder(s), ~Live(s), socket[s].at # "pushing"
  PROVE  ~Marking(s) /\ \A w \in Worker : reader[w].holds # s
  BY DEF MarkedInOrder, Marking

LEMMA TurnsMarked ==
  ASSUME Typed, NEW s \in Socket, MarkedInOrder(s), ~Live(s), socket[s].at # "pushing", socket'[s].at # "pushing",
         UNCHANGED <<reader, monitor, sequence>>, delivered'[s] = delivered[s], channel'[s] = channel[s]
  PROVE  MarkedInOrder(s)'
<1>1. ~Marking(s) /\ \A w \in Worker : reader[w].holds # s
  BY NobodyMarks
<1>2. ~Marking(s)'
  BY <1>1 DEF Marking
<1>. QED
  BY <1>1, <1>2 DEF MarkedInOrder

LEMMA AfterFollowed ==
  ASSUME Typed, Typed', Sent, Settled, NEW s \in Socket, NEW a \in Nat, Followed(s, a), a <= sequence,
         NEW o \in Socket, After(o)
  PROVE  Followed(s, a)'
<1>1. /\ Serve(o, "joined", "asking")
      /\ UNCHANGED <<sequence, watching, reader, monitor, delivered, pushed, channel>>
  BY DEF After, Serve, watchVars
<1>2. /\ socket'[o].at = "asking" /\ socket[o].at = "joined" /\ socket'[o].on = socket[o].on
      /\ socket'[o].next = socket[o].next /\ \A p \in Socket : p # o => socket'[p] = socket[p]
  BY <1>1, ServeKeeps
<1>3. \A p \in Socket : \A k \in Caller : \A n : Asked(p, k, n)' =>
        Asked(p, k, n) \/ (p = o /\ k = socket[o].on /\ n = sequence)
  BY AskAfter
<1>4. sequence <= sequence' /\ socket[s].on \in Caller
  BY <1>1, Naturals1
<1>5. CASE o # s
  BY <1>1, <1>2, <1>3, <1>4, <1>5, StaysFollowed
<1>6. CASE o = s /\ Closed(s)
  BY <1>1, <1>4, <1>6, ClosedFollowed DEF Followed
<1>7. CASE o = s /\ ~Closed(s)
  <2>1. MarkedInOrder(s) /\ ReplayInOrder(s) /\ NoneSkipped(s, a) /\ s \in watching[socket[s].on]
    BY <1>2, <1>7 DEF Followed, OnItsWay, Remembered
  <2>2. MarkedInOrder(s)'
    BY <1>1, <1>2, <1>7, <2>1, TurnsMarked DEF Live
  <2>3. ReplayInOrder(s)'
    BY <1>1, <1>2, <1>7, <2>1 DEF ReplayInOrder, Replaying, Live
  <2>4. \A n : Asked(s, socket[s].on, n)' => Promised(s, a, n)'
    <3>1. \A n : ~Asked(s, socket[s].on, n)
      BY <1>2, <1>4, <1>7 DEF Settled, AskedOnce
    <3>2. Promised(s, a, sequence)'
      BY <1>1, <1>7 DEF Promised, Reached
    <3>. QED
      BY <1>1, <1>2, <1>3, <1>4, <1>7, <3>1, <3>2
  <2>5. NoneSkipped(s, a)'
    BY <1>1, <1>2, <1>7, <2>1, <2>4 DEF NoneSkipped, TooFar
  <2>6. Remembered(s)' /\ ChannelInOrder(s)'
    BY <1>1, <1>2, <1>4, <1>7, <2>1, SameChannel DEF Remembered, Followed
  <2>. QED
    BY <2>2, <2>3, <2>5, <2>6 DEF Followed, OnItsWay
<1>. QED
  BY <1>5, <1>6, <1>7

LEMMA ReadAnswerFollowed ==
  ASSUME Typed, Typed', Sent, Settled, NEW s \in Socket, NEW a \in Nat, Followed(s, a), NEW w \in Worker, ReadAnswer(w)
  PROVE  Followed(s, a)'
<1>1. PICK o \in Socket, n \in Nat :
         /\ Head(inbox[w]) = Answer(o, n) /\ Reading(w) /\ Asked(o, w, n)
         /\ inbox'[w] = Tail(inbox[w]) /\ \A v \in Worker : v # w => inbox'[v] = inbox[v]
         /\ \A p \in Socket : p # o => socket'[p] = socket[p]
         /\ socket[o].at # "asking" => socket'[o] = socket[o]
         /\ socket[o].at = "asking" => /\ socket'[o].at = "replaying" /\ socket'[o].upTo = n
                                       /\ socket'[o].on = socket[o].on /\ socket'[o].next = socket[o].next
  BY ReadAnswerMoves
<1>2. /\ UNCHANGED <<sequence, caller, reader, watching, delivered, pushed, channel, monitor>>
      /\ inbox' = [inbox EXCEPT ![w] = Tail(@)]
  BY DEF ReadAnswer, serviceVars, workerVars, watchVars
<1>3. \A p \in Socket : \A k \in Caller : \A m : Asked(p, k, m)' => Asked(p, k, m)
  BY <1>1, <1>2, NoAskRead
<1>4. sequence <= sequence' /\ w \in Caller /\ socket[s].next \in Nat /\ delivered[s] \in Nat
  BY <1>2, Naturals1, Numbers
<1>5. CASE o # s \/ socket[s].at # "asking"
  BY <1>1, <1>2, <1>3, <1>4, <1>5, StaysFollowed
<1>6. CASE Closed(s)
  BY <1>2, <1>4, <1>6, ClosedFollowed DEF Followed
<1>7. CASE o = s /\ socket[s].at = "asking" /\ ~Closed(s)
  <2>1. MarkedInOrder(s) /\ ReplayInOrder(s) /\ NoneSkipped(s, a) /\ s \in watching[socket[s].on]
    BY <1>7 DEF Followed, OnItsWay, Remembered
  <2>2. MarkedInOrder(s)'
    BY <1>1, <1>2, <1>7, <2>1, TurnsMarked DEF Live
  <2>3. socket[s].next = delivered[s] + 1
    BY <1>7, <2>1 DEF ReplayInOrder
  <2>4. ReplayInOrder(s)'
    BY <1>1, <1>2, <1>4, <1>7, <2>3 DEF ReplayInOrder, Replaying, Live
  <2>5. socket[s].on = w
    BY <1>1, <1>4, <1>7 DEF Settled, AskedOnce
  <2>6. NoneSkipped(s, a)'
    BY <1>1, <1>2, <1>7, <2>1, <2>5 DEF NoneSkipped, TooFar, Promised, Reached
  <2>7. Remembered(s)' /\ ChannelInOrder(s)'
    BY <1>1, <1>2, <1>4, <1>7, <2>1, SameChannel DEF Remembered, Followed
  <2>. QED
    BY <2>2, <2>4, <2>6, <2>7 DEF Followed, OnItsWay
<1>. QED
  BY <1>5, <1>6, <1>7

\* the next frame is delivered to every watcher of the worker
LEMMA ReadEventFollowed ==
  ASSUME Typed, Typed', Sent, Settled, NEW s \in Socket, NEW a \in Nat, Followed(s, a),
         NEW w \in Worker, ReadEvent(w)
  PROVE  Followed(s, IF w = socket[s].on THEN a + 1 ELSE a)'
<1>1. UNCHANGED <<sequence, caller, socket, watching, delivered, pushed, channel, monitor>>
      /\ Reading(w) /\ inbox' = [inbox EXCEPT ![w] = Tail(@)]
  BY DEF ReadEvent, serviceVars, workerVars, watchVars
<1>2. /\ reader[w].frame = 0 /\ reader[w].behind = {}
      /\ reader'[w].holds = reader[w].holds /\ reader'[w].behind = {}
      /\ watching[w] = {} => reader'[w].frame = 0 /\ reader'[w].todo = reader[w].todo
      /\ watching[w] # {} => reader'[w].todo = watching[w]
      /\ \A o \in Worker : o # w => reader'[o] = reader[o]
  BY ReadEventMoves
<1>3. \A k \in Caller : \A n : Asked(s, k, n)' => Asked(s, k, n)
  BY <1>1, NoAskRead
<1>4. sequence <= sequence' /\ socket[s].on \in Caller /\ socket[s].on \in Worker
      /\ socket[s].upTo \in Nat /\ delivered[s] \in Nat
  BY <1>1, Naturals1, Numbers
<1>5. reader[w].todo = {} /\ reader[w].holds = NoSocket /\ s # NoSocket
  BY <1>2, Constants DEF Sent, LockKept
<1>6. CASE w # socket[s].on
  <2>1. Followed(s, a)'
    BY <1>1, <1>2, <1>3, <1>4, <1>5, <1>6, StaysFollowed
  <2>. QED
    BY <1>1, <1>6, <2>1
<1>7. CASE Closed(s)
  BY <1>1, <1>4, <1>7, ClosedFollowed DEF Followed
<1>8. CASE w = socket[s].on /\ ~Closed(s)
  <2>1. MarkedInOrder(s) /\ ReplayInOrder(s) /\ NoneSkipped(s, a)
    BY <1>8 DEF Followed, OnItsWay
  <2>2. Marking(s)' <=> Marking(s)
    BY <1>1, <1>2, <1>5 DEF Marking
  <2>3. Live(s)' = Live(s) /\ Replaying(s)' = Replaying(s)
    BY <1>1 DEF Live, Replaying
  <2>4. MarkedInOrder(s)'
    BY <1>1, <1>2, <1>5, <2>1, <2>2, <2>3 DEF MarkedInOrder
  <2>5. ReplayInOrder(s)'
    BY <1>1, <2>1, <2>3 DEF ReplayInOrder
  <2>6. Remembered(s)' /\ ChannelInOrder(s)'
    BY <1>1, <1>4, SameChannel DEF Remembered, Followed
  <2>7. socket[s].at \in {"asking", "replaying", "pushing"} => s \in reader'[w].todo
    BY <1>2, <1>8 DEF Followed, Remembered
  <2>8. ASSUME NEW n, s \in reader'[w].todo, Promised(s, a, n), n \in Nat PROVE Promised(s, a + 1, n)'
    BY <1>1, <1>4, <1>5, <1>8, <2>8 DEF Promised, Reached
  <2>9. NoneSkipped(s, a + 1)'
    <3>1. s \notin reader[w].behind /\ s \notin reader'[w].behind
      BY <1>2
    <3>2. socket[s].at \in {"replaying", "pushing"} => Promised(s, a + 1, socket[s].upTo)'
      BY <1>1, <1>4, <1>8, <2>1, <2>7, <2>8, <3>1 DEF NoneSkipped
    <3>3. ASSUME socket[s].at = "asking", NEW n, Asked(s, w, n)' PROVE Promised(s, a + 1, n)'
      <4>1. Asked(s, w, n) /\ n \in Nat
        BY <1>3, <1>4, <1>8, <3>3, AskedNat
      <4>2. Promised(s, a, n)
        BY <1>8, <2>1, <3>1, <3>3, <4>1 DEF NoneSkipped
      <4>. QED
        BY <2>7, <2>8, <3>3, <4>1, <4>2
    <3>. QED
      BY <1>1, <1>8, <3>1, <3>2, <3>3 DEF NoneSkipped
  <2>10. Followed(s, a + 1)'
    BY <2>4, <2>5, <2>6, <2>9 DEF Followed, OnItsWay
  <2>. QED
    BY <1>1, <1>8, <2>10
<1>. QED
  BY <1>6, <1>7, <1>8

\* the lock of one worker only is held for a socket
LEMMA OneHolds ==
  ASSUME Sent, NEW s \in Socket, NEW w \in Worker, s \in reader[w].todo
  PROVE  /\ socket[s].on = w /\ socket[s].at \in Joined
         /\ \A v \in Worker : reader[v].holds = s => v = w
<1>1. s # NoSocket
  BY Constants
<1>. QED
  BY <1>1, TodoServed DEF Sent, LockKept

LEMMA DeliverNotFollowed ==
  ASSUME Typed, Typed', Sent, Settled, NEW s \in Socket, NEW a \in Nat, Followed(s, a),
         reader[socket[s].on].frame \in {0, a},
         NEW w \in Worker, NEW o \in Socket, DeliverNot(w, o)
  PROVE  Followed(s, a)'
<1>1. UNCHANGED <<sequence, caller, inbox, socket, watching, delivered, pushed, channel, monitor>>
      /\ (TooFar(o) \/ Had(o, reader[w].frame))
  BY DEF DeliverNot, serviceVars, workerVars, watchVars
<1>2. /\ reader'[w].todo = reader[w].todo \ {o} /\ reader'[w].holds = NoSocket /\ reader[w].holds = NoSocket
      /\ reader'[w].behind = IF TooFar(o) THEN reader[w].behind \cup {o} ELSE reader[w].behind
      /\ o \in reader[w].todo /\ reader[w].frame # 0
      /\ \A v \in Worker : v # w => reader'[v] = reader[v]
  BY DeliverNotMoves
<1>3. sequence <= sequence' /\ s # NoSocket
  BY <1>1, Naturals1, Constants
<1>4. CASE o # s
  BY <1>1, <1>2, <1>3, <1>4, PassedFollowed
<1>5. CASE Closed(s)
  BY <1>1, <1>3, <1>5, ClosedFollowed DEF Followed
<1>6. CASE o = s /\ ~Closed(s)
  <2>1. MarkedInOrder(s) /\ ReplayInOrder(s) /\ NoneSkipped(s, a) /\ socket[s].on = w
    BY <1>2, <1>6, OneHolds DEF Followed, OnItsWay
  <2>2. Marking(s)' <=> Marking(s)
    BY <1>1, <1>2, <1>3 DEF Marking
  <2>3. Live(s)' = Live(s) /\ Replaying(s)' = Replaying(s) /\ TooFar(s)' = TooFar(s)
    BY <1>1 DEF Live, Replaying, TooFar
  <2>4. MarkedInOrder(s)'
    BY <1>1, <1>2, <1>3, <2>1, <2>2, <2>3 DEF MarkedInOrder
  <2>5. ReplayInOrder(s)'
    BY <1>1, <2>1, <2>3 DEF ReplayInOrder
  <2>6. Remembered(s)' /\ ChannelInOrder(s)'
    BY <1>1, <1>3, SameChannel DEF Remembered, Followed
  <2>7. NoneSkipped(s, a)'
    <3>1. CASE TooFar(s)
      BY <1>1, <1>2, <1>6, <2>1, <2>3, <3>1 DEF NoneSkipped
    <3>2. CASE ~TooFar(s)
      <4>1. reader[w].frame = a /\ a <= delivered[s]
        BY <1>1, <1>2, <1>6, <2>1, <3>2 DEF Had
      <4>2. \A n : Promised(s, a, n)'
        BY <1>1, <4>1 DEF Promised, Reached
      <4>. QED
        BY <1>1, <1>2, <1>6, <2>1, <3>2, <4>2 DEF NoneSkipped
    <3>. QED
      BY <3>1, <3>2
  <2>. QED
    BY <2>4, <2>5, <2>6, <2>7 DEF Followed, OnItsWay
<1>. QED
  BY <1>4, <1>5, <1>6

LEMMA DeliverMarkFollowed ==
  ASSUME Typed, Typed', Sent, Settled, NEW s \in Socket, NEW a \in Nat, Followed(s, a), a <= sequence,
         reader[socket[s].on].frame \in {0, a},
         NEW w \in Worker, NEW o \in Socket, DeliverMark(w, o), ~overtaken'
  PROVE  Followed(s, a)'
<1>1. UNCHANGED <<sequence, caller, inbox, socket, watching, pushed, channel, monitor>>
  BY DEF DeliverMark, serviceVars, workerVars
<1>2. /\ reader'[w].holds = o /\ reader'[w].frame = reader[w].frame
      /\ reader'[w].todo = reader[w].todo /\ reader'[w].behind = reader[w].behind
      /\ o \in reader[w].todo /\ reader[w].frame # 0 /\ reader[w].holds = NoSocket
      /\ \A v \in Worker : v # w => reader'[v] = reader[v]
      /\ ~TooFar(o) /\ ~Had(o, reader[w].frame) /\ delivered'[o] = reader[w].frame
      /\ \A p \in Socket : p # o => delivered'[p] = delivered[p]
      /\ Live(o)
  BY DeliverMarkMoves
<1>3. sequence <= sequence' /\ s # NoSocket /\ socket[s].upTo \in Nat /\ delivered[s] \in Nat
      /\ channel[s] \in Seq(Nat) /\ monitor.cursor \in Nat
  BY <1>1, Naturals1, Numbers, Constants
<1>4. CASE o # s
  BY <1>1, <1>2, <1>3, <1>4, PassedFollowed
<1>5. CASE Closed(s)
  BY <1>1, <1>3, <1>5, ClosedFollowed DEF Followed
<1>6. CASE o = s /\ ~Closed(s)
  <2>1. MarkedInOrder(s) /\ ReplayInOrder(s) /\ NoneSkipped(s, a) /\ socket[s].on = w
        /\ \A v \in Worker : reader[v].holds = s => v = w
    BY <1>2, <1>6, OneHolds DEF Followed, OnItsWay
  <2>2. socket[s].at = "replaying"
    BY <1>2, <1>6 DEF Live, Followed, Remembered
  <2>3. reader[w].frame = a /\ ~(a <= delivered[s]) /\ socket[s].upTo <= delivered[s]
    BY <1>2, <1>6, <2>1 DEF Had, ReplayInOrder
  <2>4. s \notin reader[w].behind
    BY <1>2, <1>6, <2>1 DEF NoneSkipped
  <2>5. a = delivered[s] + 1
    <3>1. Promised(s, a, socket[s].upTo)
      BY <2>1, <2>2, <2>4 DEF NoneSkipped
    <3>. QED
      BY <1>3, <2>3, <3>1 DEF Promised, Reached
  <2>6. ~Marking(s) /\ Marking(s)'
    BY <1>2, <1>3, <1>6, <2>1, <2>2 DEF Marking
  <2>7. Live(s)' /\ ~Replaying(s)'
    BY <1>1, <1>2, <1>6 DEF Live, Replaying
  <2>8. delivered'[s] = a
    BY <1>2, <1>6, <2>3
  <2>9. \A v \in Worker : reader'[v].holds = s => v = w
    BY <1>2, <2>1
  <2>10. delivered[s] = monitor.cursor + Len(channel[s])
    BY <1>3, <2>1, <2>6 DEF MarkedInOrder
  <2>11. a = monitor.cursor + Len(channel[s]) + 1
    BY <2>5, <2>10
  <2>12. MarkedInOrder(s)'
    BY <1>1, <1>2, <2>3, <2>6, <2>7, <2>8, <2>9, <2>11 DEF MarkedInOrder
  <2>13. ReplayInOrder(s)'
    BY <1>1, <1>3, <2>2, <2>3, <2>5, <2>7, <2>8 DEF ReplayInOrder
  <2>14. Remembered(s)' /\ ChannelInOrder(s)'
    BY <1>1, <1>3, SameChannel DEF Remembered, Followed
  <2>15. NoneSkipped(s, a)'
    BY <1>1, <1>2, <2>1, <2>2, <2>4, <2>8 DEF NoneSkipped, Promised, Reached
  <2>. QED
    BY <2>12, <2>13, <2>14, <2>15 DEF Followed, OnItsWay
<1>. QED
  BY <1>4, <1>5, <1>6

LEMMA DeliverPushFollowed ==
  ASSUME Typed, Typed', Sent, Settled, NEW s \in Socket, s = monitor.on, NEW a \in Nat, Followed(s, a),
         reader[socket[s].on].frame \in {0, a},
         NEW w \in Worker, NEW o \in Socket, DeliverPush(w, o)
  PROVE  Followed(s, a)'
<1>1. UNCHANGED <<sequence, caller, inbox, socket, watching, delivered, monitor>>
  BY DEF DeliverPush, Push, serviceVars, workerVars
<1>2. /\ reader'[w].todo = reader[w].todo \ {o} /\ reader'[w].holds = NoSocket
      /\ reader'[w].behind = reader[w].behind
      /\ reader[w].holds = o /\ reader[w].frame # 0 /\ Push(o, reader[w].frame)
      /\ \A v \in Worker : v # w => reader'[v] = reader[v]
  BY DeliverPushMoves
<1>3. sequence <= sequence' /\ s # NoSocket /\ o # NoSocket /\ socket[s].upTo \in Nat /\ delivered[s] \in Nat
      /\ channel[s] \in Seq(Nat) /\ monitor.cursor \in Nat /\ pushed[s] \in Seq(Nat) /\ sequence \in Nat
  BY <1>1, Naturals1, Numbers, Constants
<1>4. /\ pushed'[o] = Append(pushed[o], reader[w].frame) /\ channel'[o] = Queued(o, reader[w].frame)
      /\ \A p \in Socket : p # o => pushed'[p] = pushed[p] /\ channel'[p] = channel[p]
  BY <1>2, PushMoves
<1>5. CASE o # s
  <2>1. /\ \A v \in Worker : reader'[v].holds = s <=> reader[v].holds = s
        /\ \A v \in Worker : reader[v].holds = s => reader'[v].frame = reader[v].frame
    BY <1>2, <1>3, <1>5
  <2>2. /\ \A v \in Worker : s \in reader'[v].behind <=> s \in reader[v].behind
        /\ \A v \in Worker : s \in reader[v].todo => s \in reader'[v].todo
    BY <1>2, <1>5
  <2>3. channel'[s] = channel[s] /\ pushed'[s] = pushed[s]
    BY <1>4, <1>5
  <2>. QED
    BY <1>1, <2>1, <2>2, <2>3, PassedFollowed
<1>6. CASE o = s
  <2>1. channel'[s] = Append(channel[s], reader[w].frame)
    BY <1>4, <1>6 DEF Queued
  <2>2. CASE Closed(s)
    BY <1>1, <2>1, <2>2, EndedFollowed DEF Followed
  <2>3. CASE ~Closed(s)
    <3>1. s \in reader[w].todo
      BY <1>2, <1>3, <1>6 DEF Sent, LockKept
    <3>2. MarkedInOrder(s) /\ ReplayInOrder(s) /\ NoneSkipped(s, a) /\ socket[s].on = w
          /\ \A v \in Worker : reader[v].holds = s => v = w
      BY <2>3, <3>1, OneHolds DEF Followed, OnItsWay
    <3>3. Marking(s) /\ Live(s) /\ reader[w].frame = delivered[s] /\ reader[w].frame = a
      BY <1>2, <1>6, <3>2 DEF Marking, MarkedInOrder
    <3>4. socket[s].at = "replaying" /\ ~Replaying(s)
      BY <2>3, <3>3 DEF Live, Replaying, Followed, Remembered
    <3>5. ~Marking(s)' /\ \A v \in Worker : reader'[v].holds # s
      BY <1>1, <1>2, <1>3, <3>2, <3>4 DEF Marking
    <3>6. a = monitor.cursor + Len(channel[s]) + 1 /\ a <= sequence
      BY <1>3, <3>2, <3>3 DEF MarkedInOrder
    <3>7. a # EndOfChannel
      BY <1>2, <3>3 DEF EndOfChannel
    <3>8. ChannelInOrder(s)' /\ ~Closed(s)'
      BY <1>1, <2>1, <2>3, <3>3, <3>6, <3>7, LongerInOrder DEF Followed
    <3>9. Len(channel'[s]) = Len(channel[s]) + 1 /\ Len(channel[s]) \in Nat
      BY <2>1, LongerChannel
    <3>10. delivered'[s] = monitor.cursor + Len(channel'[s])
      BY <1>1, <1>3, <3>3, <3>6, <3>9
    <3>11. MarkedInOrder(s)'
      BY <1>1, <1>3, <3>2, <3>5, <3>9, <3>10 DEF MarkedInOrder
    <3>12. ReplayInOrder(s)'
      BY <1>1, <3>2, <3>4 DEF ReplayInOrder, Replaying, Live
    <3>13. TooFar(s) => TooFar(s)'
      <4>1. Len(pushed'[s]) = Len(pushed[s]) + 1 /\ Len(pushed[s]) \in Nat
        BY <1>3, <1>4, <1>6, AppendIs
      <4>. QED
        BY <4>1, FeedConstants DEF TooFar
    <3>14. NoneSkipped(s, a)'
      BY <1>1, <1>2, <3>2, <3>3, <3>4, <3>13 DEF NoneSkipped, Promised, Reached
    <3>15. Remembered(s)'
      BY <1>1, <2>3, <3>4 DEF Remembered, Followed
    <3>. QED
      BY <3>8, <3>11, <3>12, <3>14, <3>15 DEF Followed, OnItsWay
  <2>. QED
    BY <2>2, <2>3
<1>. QED
  BY <1>5, <1>6

LEMMA CloseBehindFollowed ==
  ASSUME Typed, Typed', Sent, Settled, NEW s \in Socket, s = monitor.on, NEW a \in Nat, Followed(s, a),
         NEW w \in Worker, NEW o \in Socket, CloseBehind(w, o)
  PROVE  Followed(s, a)'
<1>1. UNCHANGED <<sequence, caller, inbox, socket, monitor>>
  BY DEF CloseBehind, serviceVars, workerVars
<1>2. /\ reader'[w].behind = reader[w].behind \ {o} /\ o \in reader[w].behind
      /\ \A v \in Worker : /\ reader'[v].frame = reader[v].frame /\ reader'[v].todo = reader[v].todo
                           /\ reader'[v].holds = reader[v].holds
      /\ \A v \in Worker : v # w => reader'[v] = reader[v]
      /\ CloseWatcher(w, o)
  BY CloseBehindMoves
<1>3. /\ \A v \in Worker : \A p \in Socket : p # o => (p \in watching'[v] <=> p \in watching[v])
      /\ \A v \in Worker : v # w => watching'[v] = watching[v]
      /\ channel'[o] = IF o \in watching[w] THEN Queued(o, EndOfChannel) ELSE channel[o]
      /\ \A p \in Socket : p # o => channel'[p] = channel[p]
      /\ delivered' = delivered /\ pushed' = pushed
  BY <1>2, CloseMoves
<1>4. sequence <= sequence' /\ socket[s].on \in Worker
  BY <1>1, Naturals1
<1>5. CASE o # s
  BY <1>1, <1>2, <1>3, <1>5, PassedFollowed
<1>6. CASE o = s /\ s \in watching[w]
  <2>1. channel'[s] = Append(channel[s], EndOfChannel)
    BY <1>3, <1>6 DEF Queued
  <2>. QED
    BY <1>1, <2>1, EndedFollowed DEF Followed
<1>7. CASE o = s /\ s \notin watching[w] /\ Closed(s)
  BY <1>1, <1>3, <1>4, <1>7, ClosedFollowed DEF Followed
<1>8. CASE o = s /\ s \notin watching[w] /\ ~Closed(s) /\ w # socket[s].on
  <2>1. \A k \in Caller : \A n : Asked(s, k, n)' => Asked(s, k, n)
    BY <1>1 DEF Asked
  <2>2. watching'[socket[s].on] = watching[socket[s].on] /\ reader'[socket[s].on] = reader[socket[s].on]
    BY <1>2, <1>3, <1>4, <1>8
  <2>. QED
    BY <1>1, <1>2, <1>3, <1>4, <1>8, <2>1, <2>2, StaysFollowed
<1>9. CASE o = s /\ s \notin watching[w] /\ ~Closed(s) /\ w = socket[s].on
  <2>1. socket[s].at \in {"opened", "admitted"} /\ MarkedInOrder(s) /\ ReplayInOrder(s)
    BY <1>9 DEF Followed, Remembered, OnItsWay
  <2>2. channel'[s] = channel[s]
    BY <1>3, <1>9
  <2>3. Marking(s)' <=> Marking(s)
    BY <1>1, <1>2 DEF Marking
  <2>4. Live(s)' = Live(s) /\ Replaying(s)' = Replaying(s)
    BY <1>1 DEF Live, Replaying
  <2>5. MarkedInOrder(s)'
    BY <1>1, <1>2, <1>3, <2>1, <2>2, <2>3, <2>4 DEF MarkedInOrder
  <2>6. ReplayInOrder(s)'
    BY <1>1, <1>3, <2>1, <2>4 DEF ReplayInOrder
  <2>7. NoneSkipped(s, a)'
    BY <1>1, <1>2, <1>9, <2>1 DEF NoneSkipped
  <2>8. Remembered(s)' /\ ChannelInOrder(s)'
    BY <1>1, <1>4, <2>1, <2>2, SameChannel DEF Remembered, Followed
  <2>. QED
    BY <2>5, <2>6, <2>7, <2>8 DEF Followed, OnItsWay
<1>. QED
  BY <1>5, <1>6, <1>7, <1>8, <1>9

LEMMA CloseAllFollowed ==
  ASSUME Typed, Typed', Sent, Settled, NEW s \in Socket, s = monitor.on, NEW a \in Nat, Followed(s, a),
         NEW w \in Worker, CloseAll(w)
  PROVE  Followed(s, a)'
<1>1. UNCHANGED <<sequence, caller, inbox, socket, monitor, reader, delivered, pushed>>
  BY DEF CloseAll, serviceVars
<1>2. /\ watching'[w] = {} /\ \A v \in Worker : v # w => watching'[v] = watching[v]
      /\ channel'[s] = IF s \in watching[w] THEN Queued(s, EndOfChannel) ELSE channel[s]
  BY CloseAllMoves
<1>3. sequence <= sequence' /\ \A k \in Caller : \A n : Asked(s, k, n)' => Asked(s, k, n)
  BY <1>1, Naturals1 DEF Asked
<1>4. CASE s \in watching[w]
  <2>1. channel'[s] = Append(channel[s], EndOfChannel)
    BY <1>2, <1>4 DEF Queued
  <2>. QED
    BY <1>1, <2>1, EndedFollowed DEF Followed
<1>5. CASE s \notin watching[w]
  <2>1. s \in watching[socket[s].on] => s \in watching'[socket[s].on]
    BY <1>2, <1>5, Naturals1
  <2>. QED
    BY <1>1, <1>2, <1>3, <1>5, <2>1, StaysFollowed
<1>. QED
  BY <1>4, <1>5

\* a socket that turned is followed, if what is left to say of it holds
LEMMA TurnsFollowed ==
  ASSUME Typed, Typed', Sent, Settled, NEW s \in Socket, NEW a, Followed(s, a), ~Closed(s),
         UNCHANGED <<sequence, monitor>>, channel'[s] = channel[s], Remembered(s)', OnItsWay(s, a)'
  PROVE  Followed(s, a)'
<1>1. sequence <= sequence'
  BY Naturals1
<1>. QED
  BY <1>1, SameChannel DEF Followed

LEMMA AdmitFollowed ==
  ASSUME Typed, Typed', Sent, Settled, NEW s \in Socket, s = monitor.on, NEW a, Followed(s, a),
         NEW o \in Socket, Admit(o)
  PROVE  \/ Followed(s, a)' /\ socket'[s].on = socket[s].on
         \/ \A c : Followed(s, c)'
<1>1. UNCHANGED <<sequence, caller, inbox, watching, reader, monitor, delivered, pushed>>
  BY DEF Admit, serviceVars
<1>2. /\ socket[o].at = "opened" /\ \A p \in Socket : p # o => socket'[p] = socket[p] /\ channel'[p] = channel[p]
      /\ \/ /\ socket'[o].at = "admitted" /\ socket'[o].upTo = socket[o].upTo /\ channel'[o] = channel[o]
            /\ socket'[o].on = socket[o].on /\ socket'[o].next = socket[o].next
         \/ socket'[o].at = "over" /\ socket'[o].upTo = 0 /\ channel'[o] = Queued(o, EndOfChannel)
  BY AdmitMoves
<1>3. sequence <= sequence'
  BY <1>1, Naturals1
<1>4. CASE o # s
  BY <1>1, <1>2, <1>4, PassedFollowed
<1>5. CASE o = s /\ channel'[s] = Queued(s, EndOfChannel)
  <2>1. channel'[s] = Append(channel[s], EndOfChannel) /\ ChannelInOrder(s)
    BY <1>5 DEF Queued, Followed
  <2>2. \A c : Followed(s, c)'
    BY <1>1, <2>1, EndedFollowed
  <2>. QED
    BY <2>2
<1>6. CASE o = s /\ socket'[s].at = "admitted" /\ channel'[s] = channel[s]
  <2>0. socket'[s].on = socket[s].on /\ socket'[s].next = socket[s].next
    BY <1>2, <1>6
  <2>1. CASE Closed(s)
    BY <1>1, <1>3, <1>6, <2>0, <2>1, ClosedFollowed DEF Followed
  <2>2. CASE ~Closed(s)
    <3>1. MarkedInOrder(s) /\ ReplayInOrder(s) /\ NoneSkipped(s, a)
      BY <2>2 DEF Followed, OnItsWay
    <3>2. MarkedInOrder(s)'
      BY <1>1, <1>2, <1>6, <3>1, TurnsMarked DEF Live
    <3>3. ReplayInOrder(s)' /\ Remembered(s)'
      BY <1>1, <1>2, <1>6, <2>0, <3>1 DEF ReplayInOrder, Replaying, Live, Remembered
    <3>4. NoneSkipped(s, a)'
      BY <1>1, <1>6, <2>0, <3>1 DEF NoneSkipped, TooFar
    <3>. QED
      BY <1>1, <1>6, <2>0, <2>2, <3>2, <3>3, <3>4, TurnsFollowed DEF OnItsWay
  <2>. QED
    BY <2>1, <2>2
<1>. QED
  BY <1>2, <1>4, <1>5, <1>6

LEMMA JoinFollowed ==
  ASSUME Typed, Typed', Sent, Settled, NEW s \in Socket, NEW a, Followed(s, a), NEW o \in Socket, Join(o)
  PROVE  Followed(s, a)'
<1>1. /\ UNCHANGED <<sequence, caller, inbox, reader, monitor, delivered, pushed, channel>>
      /\ watching' = [watching EXCEPT ![socket[o].on] = @ \cup {o}] /\ Serve(o, "admitted", "joined")
  BY DEF Join, serviceVars, watchVars
<1>2. /\ socket'[o].at = "joined" /\ socket[o].at = "admitted" /\ socket'[o].on = socket[o].on
      /\ socket'[o].next = socket[o].next /\ \A p \in Socket : p # o => socket'[p] = socket[p]
  BY <1>1, ServeKeeps
<1>3. sequence <= sequence' /\ socket[o].on \in Worker
  BY <1>1, Naturals1
<1>4. o \in watching'[socket[o].on] /\ \A w \in Worker : \A p \in Socket : p # o => (p \in watching'[w] <=> p \in watching[w])
  BY <1>1, <1>3 DEF Typed, ReaderTyped
<1>5. CASE o # s
  BY <1>1, <1>2, <1>4, <1>5, PassedFollowed
<1>6. CASE Closed(s)
  BY <1>1, <1>3, <1>6, ClosedFollowed DEF Followed
<1>7. CASE o = s /\ ~Closed(s)
  <2>1. MarkedInOrder(s) /\ ReplayInOrder(s) /\ NoneSkipped(s, a)
    BY <1>7 DEF Followed, OnItsWay
  <2>2. MarkedInOrder(s)'
    BY <1>1, <1>2, <1>7, <2>1, TurnsMarked DEF Live
  <2>3. ReplayInOrder(s)' /\ Remembered(s)'
    BY <1>1, <1>2, <1>4, <1>7, <2>1 DEF ReplayInOrder, Replaying, Live, Remembered
  <2>4. NoneSkipped(s, a)'
    BY <1>1, <1>2, <1>7, <2>1 DEF NoneSkipped, TooFar
  <2>. QED
    BY <1>1, <1>7, <2>2, <2>3, <2>4, TurnsFollowed DEF OnItsWay
<1>. QED
  BY <1>5, <1>6, <1>7

\* a socket that gives up its watcher is told its end, if it was not
LEMMA GivesUpFollowed ==
  ASSUME Typed, Typed', Sent, Settled, NEW s \in Socket, s = monitor.on, NEW a, Followed(s, a),
         NEW o \in Socket, AskFails(o) \/ ReplayBehind(o)
  PROVE  Followed(s, a)'
<1>1. /\ UNCHANGED <<sequence, caller, inbox, reader, monitor>> /\ CloseWatcher(socket[o].on, o)
      /\ Serve(o, "joined", "reading") \/ Serve(o, "asking", "reading") \/ Serve(o, "replaying", "reading")
  BY DEF AskFails, ReplayBehind, serviceVars
<1>2. socket[o].at \in {"joined", "asking", "replaying"} /\ \A p \in Socket : p # o => socket'[p] = socket[p]
  BY <1>1, ServeKeeps
<1>3. sequence <= sequence' /\ socket[o].on \in Worker
  BY <1>1, Naturals1
<1>4. /\ \A v \in Worker : \A p \in Socket : p # o => (p \in watching'[v] <=> p \in watching[v])
      /\ channel'[o] = IF o \in watching[socket[o].on] THEN Queued(o, EndOfChannel) ELSE channel[o]
      /\ \A p \in Socket : p # o => channel'[p] = channel[p]
      /\ delivered' = delivered /\ pushed' = pushed
  BY <1>1, <1>3, CloseMoves
<1>5. CASE o # s
  BY <1>1, <1>2, <1>4, <1>5, PassedFollowed
<1>6. CASE o = s /\ s \in watching[socket[s].on]
  <2>1. channel'[s] = Append(channel[s], EndOfChannel)
    BY <1>4, <1>6 DEF Queued
  <2>. QED
    BY <1>1, <2>1, EndedFollowed DEF Followed
<1>7. CASE o = s /\ s \notin watching[socket[s].on]
  <2>1. Closed(s) /\ channel'[s] = channel[s]
    BY <1>2, <1>4, <1>7 DEF Followed, Remembered
  <2>. QED
    BY <1>1, <1>3, <2>1, ClosedFollowed DEF Followed
<1>. QED
  BY <1>5, <1>6, <1>7

LEMMA ReplaySkipsFollowed ==
  ASSUME Typed, Typed', Sent, Settled, NEW s \in Socket, NEW a, Followed(s, a), NEW o \in Socket, ReplaySkips(o)
  PROVE  Followed(s, a)'
<1>1. UNCHANGED <<sequence, caller, inbox, watching, reader, monitor, delivered, pushed, channel>>
      /\ Had(o, socket[o].next)
  BY DEF ReplaySkips, serviceVars, watchVars
<1>2. Replaying(o) /\ \A p \in Socket : p # o => socket'[p] = socket[p]
  BY ReplaySkipsMoves
<1>3. sequence <= sequence' /\ delivered[s] \in Nat
  BY <1>1, Naturals1, Numbers
<1>4. CASE o # s
  BY <1>1, <1>2, <1>4, PassedFollowed
<1>5. CASE Closed(s)
  BY <1>1, <1>3, <1>5, ClosedFollowed DEF Followed
<1>6. CASE o = s /\ ~Closed(s)
  <2>1. socket[s].next = delivered[s] + 1
    BY <1>2, <1>6 DEF Followed, OnItsWay, ReplayInOrder
  <2>. QED
    BY <1>1, <1>3, <1>6, <2>1 DEF Had
<1>. QED
  BY <1>4, <1>5, <1>6

LEMMA ReplayMarkFollowed ==
  ASSUME Typed, Typed', Sent, Settled, NEW s \in Socket, NEW a \in Nat, Followed(s, a),
         NEW o \in Socket, ReplayMark(o)
  PROVE  Followed(s, a)'
<1>1. UNCHANGED <<sequence, caller, inbox, watching, reader, monitor, pushed, channel>>
      /\ Serve(o, "replaying", "pushing") /\ Replaying(o) /\ Mark(o, socket[o].next)
  BY DEF ReplayMark, serviceVars
<1>2. /\ socket'[o].at = "pushing" /\ socket[o].at = "replaying" /\ socket'[o].on = socket[o].on
      /\ socket'[o].next = socket[o].next /\ socket'[o].upTo = socket[o].upTo
      /\ \A p \in Socket : p # o => socket'[p] = socket[p]
  BY <1>1, ServeKeeps
<1>3. sequence <= sequence' /\ delivered[s] \in Nat /\ socket[s].upTo \in Nat /\ sequence \in Nat
  BY <1>1, Naturals1, Numbers
<1>4. ~TooFar(o) /\ delivered'[o] = socket[o].next /\ \A p \in Socket : p # o => delivered'[p] = delivered[p]
  BY <1>1 DEF Mark, Typed, WatchTyped
<1>5. CASE o # s
  BY <1>1, <1>2, <1>4, <1>5, PassedFollowed
<1>6. CASE Closed(s)
  BY <1>1, <1>3, <1>6, ClosedFollowed DEF Followed
<1>7. CASE o = s /\ ~Closed(s)
  <2>1. MarkedInOrder(s) /\ ReplayInOrder(s) /\ NoneSkipped(s, a) /\ socket[s].upTo <= sequence
    BY <1>7 DEF Followed, OnItsWay, Settled, AskedOnce
  <2>2. socket[s].next = delivered[s] + 1 /\ socket[s].next <= sequence
    BY <1>1, <1>3, <1>7, <2>1 DEF ReplayInOrder, Replaying
  <2>3. ~Live(s) /\ ~Marking(s) /\ \A w \in Worker : reader[w].holds # s
    BY <1>1, <1>2, <1>7, <2>1, NobodyMarks DEF Live, Replaying
  <2>4. Marking(s)'
    BY <1>2, <1>7 DEF Marking
  <2>5. channel[s] \in Seq(Nat) /\ monitor.cursor \in Nat
    BY Naturals1
  <2>6. delivered'[s] = monitor.cursor + Len(channel[s]) + 1
    BY <1>3, <1>4, <1>7, <2>1, <2>2, <2>3, <2>5 DEF MarkedInOrder
  <2>7. MarkedInOrder(s)'
    BY <1>1, <1>4, <1>7, <2>2, <2>3, <2>4, <2>6 DEF MarkedInOrder
  <2>8. ReplayInOrder(s)'
    BY <1>2, <1>4, <1>7 DEF ReplayInOrder, Replaying, Live
  <2>9. s \notin reader[socket[s].on].behind
    BY <1>4, <1>7, <2>1 DEF NoneSkipped
  <2>10. Promised(s, a, socket[s].upTo)
    BY <1>2, <1>7, <2>1, <2>9 DEF NoneSkipped
  <2>11. Promised(s, a, socket[s].upTo)'
    BY <1>1, <1>2, <1>3, <1>4, <1>7, <2>2, <2>10 DEF Promised, Reached
  <2>12. NoneSkipped(s, a)'
    BY <1>1, <1>2, <1>7, <2>9, <2>11 DEF NoneSkipped
  <2>13. Remembered(s)'
    BY <1>1, <1>2, <1>7 DEF Remembered, Followed
  <2>. QED
    BY <1>1, <1>7, <2>7, <2>8, <2>12, <2>13, TurnsFollowed DEF OnItsWay
<1>. QED
  BY <1>5, <1>6, <1>7

LEMMA ReplayPushFollowed ==
  ASSUME Typed, Typed', Sent, Settled, NEW s \in Socket, s = monitor.on, NEW a \in Nat, Followed(s, a),
         NEW o \in Socket, ReplayPush(o)
  PROVE  Followed(s, a)'
<1>1. UNCHANGED <<sequence, caller, inbox, watching, reader, monitor, delivered>>
  BY DEF ReplayPush, Push, serviceVars
<1>2. /\ socket[o].at = "pushing" /\ socket'[o].at = "replaying" /\ socket'[o].on = socket[o].on
      /\ socket'[o].next = socket[o].next + 1 /\ socket'[o].upTo = socket[o].upTo
      /\ \A p \in Socket : p # o => socket'[p] = socket[p]
      /\ Push(o, socket[o].next)
  BY ReplayPushMoves
<1>3. sequence <= sequence' /\ delivered[s] \in Nat /\ socket[s].upTo \in Nat /\ sequence \in Nat
      /\ channel[s] \in Seq(Nat) /\ monitor.cursor \in Nat /\ pushed[s] \in Seq(Nat)
  BY <1>1, Naturals1, Numbers
<1>4. /\ pushed'[o] = Append(pushed[o], socket[o].next) /\ channel'[o] = Queued(o, socket[o].next)
      /\ \A p \in Socket : p # o => pushed'[p] = pushed[p] /\ channel'[p] = channel[p]
  BY <1>2, PushMoves
<1>5. CASE o # s
  BY <1>1, <1>2, <1>4, <1>5, PassedFollowed
<1>6. CASE o = s
  <2>1. channel'[s] = Append(channel[s], socket[s].next)
    BY <1>4, <1>6 DEF Queued
  <2>2. CASE Closed(s)
    BY <1>1, <2>1, <2>2, EndedFollowed DEF Followed
  <2>3. CASE ~Closed(s)
    <3>1. MarkedInOrder(s) /\ ReplayInOrder(s) /\ NoneSkipped(s, a)
      BY <2>3 DEF Followed, OnItsWay
    <3>2. Marking(s) /\ ~Live(s) /\ \A w \in Worker : reader[w].holds # s
      BY <1>2, <1>6, <3>1 DEF Marking, MarkedInOrder, Live, Replaying
    <3>3. ~Marking(s)'
      BY <1>1, <1>2, <1>6, <3>2 DEF Marking
    <3>4. socket[s].next = delivered[s] /\ delivered[s] <= sequence
      BY <1>2, <1>6, <3>1 DEF ReplayInOrder, MarkedInOrder
    <3>5. delivered[s] = monitor.cursor + Len(channel[s]) + 1
      BY <3>1, <3>2 DEF MarkedInOrder
    <3>6. Len(channel'[s]) = Len(channel[s]) + 1 /\ Len(channel[s]) \in Nat
      BY <2>1, LongerChannel
    <3>7. socket[s].next # EndOfChannel
      BY <1>3, <3>4, <3>5, <3>6 DEF EndOfChannel
    <3>8. ChannelInOrder(s)' /\ ~Closed(s)'
      BY <1>1, <2>1, <2>3, <3>4, <3>5, <3>7, LongerInOrder DEF Followed
    <3>9. delivered'[s] = monitor.cursor + Len(channel'[s])
      BY <1>1, <1>3, <3>5, <3>6
    <3>10. MarkedInOrder(s)'
      BY <1>1, <1>3, <3>2, <3>3, <3>4, <3>6, <3>9 DEF MarkedInOrder
    <3>11. ReplayInOrder(s)'
      BY <1>1, <1>2, <1>3, <1>6, <3>4 DEF ReplayInOrder, Replaying, Live
    <3>12. TooFar(s) => TooFar(s)'
      <4>1. Len(pushed'[s]) = Len(pushed[s]) + 1 /\ Len(pushed[s]) \in Nat
        BY <1>3, <1>4, <1>6, AppendIs
      <4>. QED
        BY <4>1, FeedConstants DEF TooFar
    <3>13. NoneSkipped(s, a)'
      BY <1>1, <1>2, <1>6, <3>1, <3>12 DEF NoneSkipped, Promised, Reached
    <3>14. Remembered(s)'
      BY <1>1, <1>2, <1>6, <2>3 DEF Remembered, Followed
    <3>. QED
      BY <3>8, <3>10, <3>11, <3>13, <3>14 DEF Followed, OnItsWay
  <2>. QED
    BY <2>2, <2>3
<1>. QED
  BY <1>5, <1>6

LEMMA LeaveFollowed ==
  ASSUME Typed, Typed', Sent, Settled, NEW s \in Socket, s = monitor.on, NEW a, Followed(s, a),
         NEW o \in Socket, Leave(o)
  PROVE  Followed(s, a)'
<1>1. UNCHANGED <<sequence, caller, inbox, monitor>>
  BY DEF Leave, serviceVars
<1>2. /\ s # o /\ UNCHANGED <<reader, channel>>
      /\ \A p \in Socket : p # o => /\ socket'[p] = socket[p] /\ delivered'[p] = delivered[p]
                                    /\ pushed'[p] = pushed[p]
                                    /\ \A v \in Worker : p \in watching'[v] <=> p \in watching[v]
  BY LeaveMoves
<1>. QED
  BY <1>1, <1>2, PassedFollowed

\* a socket is opened where the monitor is
LEMMA OpenFollowed ==
  ASSUME Typed, Typed', Sent, Settled, NEW s \in Socket, Open(s), monitor.cursor <= sequence, NEW a
  PROVE  Followed(s, a)'
<1>1. UNCHANGED <<sequence, caller, inbox, watching, reader, pushed, channel>>
  BY DEF Open, serviceVars
<1>2. /\ monitor.on = NoSocket /\ monitor'.on = s /\ monitor'.cursor = monitor.cursor
      /\ socket[s].at = "unopened" /\ socket'[s].at = "opened" /\ socket'[s].on = current
      /\ socket'[s].next = monitor.cursor + 1 /\ delivered'[s] = monitor.cursor
  BY OpenMoves
<1>3. /\ channel[s] = <<>> /\ \A w \in Worker : s \notin reader[w].behind
  BY <1>2, Constants DEF Settled, AskedOnce
<1>4. current \in Worker /\ monitor.cursor \in Nat
  BY Naturals1 DEF Typed, WorkersTyped
<1>5. \A w \in Worker : reader[w].holds # s
  <2>1. \A w \in Worker : s \notin reader[w].todo
    BY <1>2, TodoServed DEF Joined
  <2>. QED
    BY <2>1, Constants DEF Sent, LockKept
<1>6. ~Marking(s)'
  BY <1>1, <1>2, <1>5 DEF Marking
<1>7. Len(channel'[s]) = 0 /\ \A i \in 1..Len(channel'[s]) : FALSE
  BY <1>1, <1>3
<1>8. MarkedInOrder(s)'
  BY <1>1, <1>2, <1>4, <1>5, <1>6, <1>7 DEF MarkedInOrder
<1>9. ReplayInOrder(s)' /\ Remembered(s)'
  BY <1>2 DEF ReplayInOrder, Replaying, Live, Remembered
<1>10. NoneSkipped(s, a)'
  BY <1>1, <1>2, <1>3, <1>4 DEF NoneSkipped
<1>11. ChannelInOrder(s)'
  BY <1>7 DEF ChannelInOrder
<1>. QED
  BY <1>8, <1>9, <1>10, <1>11 DEF Followed, OnItsWay

\* what is read off the channel is next after the cursor
LEMMA WriteNext ==
  ASSUME Typed, NEW s \in Socket, ChannelInOrder(s), Write(s), Head(channel[s]) # EndOfChannel
  PROVE  Head(channel[s]) = monitor.cursor + 1 /\ monitor.cursor + 1 <= sequence
<1>1. channel[s] \in Seq(Nat) /\ channel[s] # <<>>
  BY Naturals1, WriteMoves
<1>2. 1 \in 1..Len(channel[s]) /\ Head(channel[s]) = channel[s][1]
  BY <1>1, TailIs
<1>3. BeforeEnd(s, 1)
  BY <1>2 DEF BeforeEnd
<1>. QED
  BY <1>2, <1>3 DEF ChannelInOrder

LEMMA WriteFollowed ==
  ASSUME Typed, Typed', Sent, Settled, NEW s \in Socket, NEW a, Followed(s, a),
         Write(s), Head(channel[s]) # EndOfChannel
  PROVE  Followed(s, a)'
<1>1. UNCHANGED <<sequence, caller, inbox, watching, reader, socket, delivered, pushed>>
  BY DEF Write, serviceVars
<1>2. /\ channel'[s] = Tail(channel[s]) /\ monitor'.cursor = Head(channel[s])
      /\ channel[s] \in Seq(Nat) /\ channel[s] # <<>> /\ monitor.cursor \in Nat
  BY WriteMoves, Naturals1
<1>3. monitor'.cursor = monitor.cursor + 1 /\ Head(channel[s]) # EndOfChannel
  BY <1>2, WriteNext DEF Followed
<1>4. /\ Len(channel[s]) \in Nat /\ Len(channel'[s]) = Len(channel[s]) - 1 /\ channel[s][1] # EndOfChannel
      /\ \A i \in 1..Len(channel'[s]) : channel'[s][i] = channel[s][i + 1] /\ i + 1 \in 1..Len(channel[s])
      /\ \A i \in 1..Len(channel[s]) : i # 1 => i - 1 \in 1..Len(channel'[s]) /\ channel'[s][i - 1] = channel[s][i]
  BY <1>2, <1>3, TailIs
<1>5. Closed(s)' <=> Closed(s)
  <2>1. Closed(s)' => Closed(s)
    BY <1>4 DEF Closed
  <2>2. Closed(s) => Closed(s)'
    BY <1>4 DEF Closed
  <2>. QED
    BY <2>1, <2>2
<1>6. ASSUME NEW i \in 1..Len(channel'[s]), BeforeEnd(s, i)'
      PROVE  channel'[s][i] = monitor'.cursor + i /\ channel'[s][i] <= sequence
  <2>1. BeforeEnd(s, i + 1)
    <3> SUFFICES ASSUME NEW j \in 1..(i + 1) PROVE channel[s][j] # EndOfChannel
      BY DEF BeforeEnd
    <3>1. CASE j = 1
      BY <1>4, <3>1
    <3>2. CASE j # 1
      <4>1. j - 1 \in 1..i /\ j - 1 \in 1..Len(channel'[s]) /\ j \in 1..Len(channel[s])
        BY <1>4, <3>2
      <4>2. channel'[s][j - 1] # EndOfChannel
        BY <1>6, <4>1 DEF BeforeEnd
      <4>. QED
        BY <1>4, <3>2, <4>1, <4>2
    <3>. QED
      BY <3>1, <3>2
  <2>2. channel[s][i + 1] = monitor.cursor + (i + 1) /\ channel[s][i + 1] <= sequence
    BY <1>4, <2>1 DEF Followed, ChannelInOrder
  <2>3. channel'[s][i] = channel[s][i + 1]
    BY <1>4
  <2>4. monitor'.cursor = monitor.cursor + 1 /\ monitor.cursor \in Nat /\ i \in Nat
    BY <1>2, <1>3
  <2>. QED
    BY <2>2, <2>3, <2>4
<1>7. ChannelInOrder(s)'
  BY <1>1, <1>6 DEF ChannelInOrder
<1>8. Remembered(s)'
  BY <1>1, <1>5 DEF Followed, Remembered
<1>9. ASSUME ~Closed(s) PROVE OnItsWay(s, a)'
  <2>1. MarkedInOrder(s) /\ ReplayInOrder(s) /\ NoneSkipped(s, a)
    BY <1>9 DEF Followed, OnItsWay
  <2>2. (Marking(s)' <=> Marking(s)) /\ Live(s)' = Live(s) /\ Replaying(s)' = Replaying(s)
    BY <1>1 DEF Marking, Live, Replaying
  <2>3. monitor'.cursor + Len(channel'[s]) = monitor.cursor + Len(channel[s])
    BY <1>2, <1>3, <1>4
  <2>4. MarkedInOrder(s)'
    BY <1>1, <2>1, <2>2, <2>3 DEF MarkedInOrder
  <2>5. ReplayInOrder(s)'
    BY <1>1, <2>1, <2>2 DEF ReplayInOrder
  <2>6. \A k \in Caller : \A n : Asked(s, k, n)' => Asked(s, k, n)
    BY <1>1 DEF Asked
  <2>7. socket[s].on \in Caller
    BY Naturals1
  <2>8. NoneSkipped(s, a)'
    BY <1>1, <2>1, <2>6, <2>7 DEF NoneSkipped, Promised, Reached, TooFar
  <2>. QED
    BY <2>4, <2>5, <2>8 DEF OnItsWay
<1>. QED
  BY <1>5, <1>7, <1>8, <1>9 DEF Followed

-----------------------------------------------------------------------------
(* Every step keeps the order *)

\* what is known of the monitor's socket while the order is kept
LEMMA MonitorFollowed ==
  ASSUME Typed, NEW m, NEW b, Keeping(m, b), monitor.on # NoSocket
  PROVE  \E s \in Socket : \E a \in Nat :
           /\ s = monitor.on /\ a = b[socket[s].on] /\ a <= sequence /\ Followed(s, a)
           /\ reader[socket[s].on].frame \in {0, a}
<1>1. PICK s \in Socket : s = monitor.on
  BY DEF Typed, MonitorTyped, Follows
<1>2. socket[s].on \in Worker /\ sequence \in Nat
  BY Naturals1
<1>3. PICK a \in Nat : a = b[socket[s].on]
  BY <1>2 DEF Keeping
<1>4. m \in Nat /\ TakenUp(socket[s].on, m, a) /\ Followed(s, a) /\ m <= sequence
  BY <1>1, <1>2, <1>3 DEF Keeping, SaidInOrder
<1>5. a <= m /\ reader[socket[s].on].frame \in {0, a}
  BY <1>4 DEF TakenUp
<1>. QED
  BY <1>1, <1>2, <1>3, <1>4, <1>5

LEMMA KeptAs ==
  ASSUME NEW n \in Nat, NEW c \in [Worker -> Nat], SaidInOrder(n)', \A w \in Worker : TakenUp(w, n, c[w])',
         monitor'.on # NoSocket => \E s, a : s = monitor'.on /\ a = c[socket'[s].on] /\ Followed(s, a)'
  PROVE  Tracked'
<1>1. monitor'.on # NoSocket => Followed(monitor.on, c[socket[monitor.on].on])'
  OBVIOUS
<1>2. Keeping(n, c)'
  BY <1>1 DEF Keeping
<1>. QED
  BY <1>2 DEF Tracked

\* a step that says nothing and brings no worker anything
LEMMA KeptByWatch ==
  ASSUME NEW m, NEW b, Keeping(m, b), UNCHANGED <<sequence, queue, caller, inbox, attached>>,
         \A w \in Worker : reader'[w].frame \in {0, reader[w].frame},
         monitor'.on # NoSocket => \E s, a : s = monitor'.on /\ a = b[socket'[s].on] /\ Followed(s, a)'
  PROVE  Tracked'
<1>1. m \in Nat /\ b \in [Worker -> Nat] /\ SaidInOrder(m) /\ \A w \in Worker : TakenUp(w, m, b[w])
  BY DEF Keeping
<1>2. SaidInOrder(m)'
  BY <1>1, SameSaid
<1>3. \A w \in Worker : TakenUp(w, m, b[w])'
  BY <1>1, SameTaken
<1>. QED
  BY <1>1, <1>2, <1>3, KeptAs

\* a step of a socket or of a worker that delivers, the monitor where it was
LEMMA KeptByDelivery ==
  ASSUME Typed, NEW m, NEW b, Keeping(m, b), UNCHANGED <<sequence, queue, caller, inbox, attached, monitor>>,
         \A w \in Worker : reader'[w].frame \in {0, reader[w].frame},
         \A s \in Socket : \A a \in Nat :
           s = monitor.on /\ a <= sequence /\ reader[socket[s].on].frame \in {0, a} /\ Followed(s, a) =>
             \/ Followed(s, a)' /\ socket'[s].on = socket[s].on
             \/ \A c : Followed(s, c)'
  PROVE  Tracked'
<1>1. ASSUME monitor'.on # NoSocket
      PROVE  \E s, a : s = monitor'.on /\ a = b[socket'[s].on] /\ Followed(s, a)'
  <2>1. PICK s \in Socket, a \in Nat :
          /\ s = monitor.on /\ a = b[socket[s].on] /\ a <= sequence /\ Followed(s, a)
          /\ reader[socket[s].on].frame \in {0, a}
    BY <1>1, MonitorFollowed
  <2>2. CASE Followed(s, a)' /\ socket'[s].on = socket[s].on
    BY <2>1, <2>2
  <2>3. CASE \A c : Followed(s, c)'
    <3>1. PICK c : c = b[socket'[s].on]
      OBVIOUS
    <3>2. Followed(s, c)'
      BY <2>3
    <3>. QED
      BY <2>1, <3>1, <3>2
  <2>. QED
    BY <2>1, <2>2, <2>3
<1>. QED
  BY <1>1, KeptByWatch

\* a step of the service, with nothing moved in the workers but what it brings them
LEMMA KeptByService ==
  ASSUME Typed, NEW m, NEW b, Keeping(m, b), NEW n \in Nat, SaidInOrder(n)',
         \A w \in Worker : TakenUp(w, n, b[w])', monitor' = monitor,
         \A s \in Socket : socket'[s].on = socket[s].on,
         \A s \in Socket : \A a \in Nat : s = monitor.on /\ a <= sequence /\ Followed(s, a) => Followed(s, a)'
  PROVE  Tracked'
<1>1. ASSUME monitor'.on # NoSocket
      PROVE  \E s, a : s = monitor'.on /\ a = b[socket'[s].on] /\ Followed(s, a)'
  <2>1. PICK s \in Socket, a \in Nat :
          /\ s = monitor.on /\ a = b[socket[s].on] /\ a <= sequence /\ Followed(s, a)
          /\ reader[socket[s].on].frame \in {0, a}
    BY <1>1, MonitorFollowed
  <2>2. Followed(s, a)'
    BY <2>1
  <2>. QED
    BY <2>1, <2>2
<1>2. b \in [Worker -> Nat]
  BY DEF Keeping
<1>. QED
  BY <1>1, <1>2, KeptAs

LEMMA EmitKept ==
  ASSUME Typed, Typed', Settled, NEW m, NEW b, Keeping(m, b), NEW k \in Others, Emit(k)
  PROVE  Tracked'
<1>1. m \in Nat /\ SaidInOrder(m) /\ \A w \in Worker : TakenUp(w, m, b[w])
  BY DEF Keeping
<1>2. SaidInOrder(m)'
  BY <1>1, EmitSaid
<1>3. UNCHANGED <<inbox, attached, watching, reader, socket, delivered, pushed, channel, monitor>>
  BY DEF Emit, workerVars, watchVars
<1>4. \A w \in Worker : TakenUp(w, m, b[w])'
  BY <1>1, <1>3, SameTaken
<1>5. sequence <= sequence'
  BY Naturals1 DEF Emit
<1>6. \A s \in Socket : \A o \in Caller : \A n : Asked(s, o, n)' => Asked(s, o, n)
  BY NoAskEmit
<1>7. \A s \in Socket : \A a \in Nat : Followed(s, a) => Followed(s, a)'
  BY <1>3, <1>5, <1>6, ServiceFollowed
<1>. QED
  BY <1>1, <1>2, <1>3, <1>4, <1>7, KeptByService

LEMMA TakeKept ==
  ASSUME Typed, Typed', Settled, NEW m, NEW b, Keeping(m, b), NEW k \in Caller, Take(k)
  PROVE  Tracked'
<1>1. m \in Nat /\ SaidInOrder(m) /\ \A w \in Worker : TakenUp(w, m, b[w])
  BY DEF Keeping
<1>2. SaidInOrder(m)'
  BY <1>1, TakeSaid
<1>3. UNCHANGED <<sequence, inbox, attached, watching, reader, socket, delivered, pushed, channel, monitor>>
  BY DEF Take, workerVars, watchVars
<1>4. \A w \in Worker : TakenUp(w, m, b[w])'
  BY <1>1, <1>3, SameTaken
<1>5. sequence <= sequence'
  BY <1>3, Naturals1
<1>6. \A s \in Socket : \A o \in Caller : \A n : Asked(s, o, n)' => Asked(s, o, n)
  BY NoAskTake
<1>7. \A s \in Socket : \A a \in Nat : Followed(s, a) => Followed(s, a)'
  BY <1>3, <1>5, <1>6, ServiceFollowed
<1>. QED
  BY <1>1, <1>2, <1>3, <1>4, <1>7, KeptByService

LEMMA SayKept ==
  ASSUME Typed, Typed', Settled, NEW m, NEW b, Keeping(m, b), NEW k \in Caller, Say(k), ~overtaken'
  PROVE  Tracked'
<1>1. /\ m \in Nat /\ SaidInOrder(m) /\ b \in [Worker -> Nat]
      /\ \A w \in Worker : b[w] \in Nat /\ TakenUp(w, m, b[w])
  BY DEF Keeping
<1>2. SaidInOrder(m + 1)'
  BY <1>1, SaySaid
<1>3. UNCHANGED <<sequence, watching, reader, socket, delivered, pushed, channel, monitor>>
  BY DEF Say, watchVars
<1>4. \A w \in Worker : TakenUp(w, m + 1, b[w])'
  BY <1>1, SayNext, SayTaken
<1>5. sequence <= sequence'
  BY <1>3, Naturals1
<1>6. \A s \in Socket : \A o \in Caller : \A n : Asked(s, o, n)' => Asked(s, o, n)
  BY NoAskSay
<1>7. \A s \in Socket : \A a \in Nat : Followed(s, a) => Followed(s, a)'
  BY <1>3, <1>5, <1>6, ServiceFollowed
<1>8. PICK n \in Nat : n = m + 1
  BY <1>1
<1>9. SaidInOrder(n)' /\ \A w \in Worker : TakenUp(w, n, b[w])'
  BY <1>2, <1>4, <1>8
<1>. QED
  BY <1>1, <1>3, <1>7, <1>9, KeptByService

LEMMA AnswersKept ==
  ASSUME Typed, Typed', Settled, NEW m, NEW b, Keeping(m, b), NEW v \in Worker, Answers(v)
  PROVE  Tracked'
<1>1. m \in Nat /\ SaidInOrder(m) /\ \A w \in Worker : TakenUp(w, m, b[w])
  BY DEF Keeping
<1>2. UNCHANGED <<sequence, queue, attached, watching, reader, socket, delivered, pushed, channel, monitor>>
  BY DEF Answers, workerVars, watchVars
<1>3. \A k \in Caller : caller'[k].batch = caller[k].batch
  <2>1. Call(v, "said", Idle) /\ v \in Caller
    BY Constants DEF Answers
  <2>2. caller[v].batch = <<>> /\ Idle.batch = <<>>
    BY <2>1, CallMoves DEF Settled, Empty, Idle
  <2>. QED
    BY <2>1, <2>2, CallMoves
<1>4. SaidInOrder(m)'
  BY <1>1, <1>2, <1>3, SameSaid
<1>5. \A w \in Worker : TakenUp(w, m, b[w])'
  BY <1>1, AnswersTaken
<1>6. sequence <= sequence'
  BY <1>2, Naturals1
<1>7. \A s \in Socket : \A k \in Caller : \A n : Asked(s, k, n)' => Asked(s, k, n)
  BY NoAskAnswers
<1>8. \A s \in Socket : \A a \in Nat : Followed(s, a) => Followed(s, a)'
  BY <1>2, <1>6, <1>7, ServiceFollowed
<1>. QED
  BY <1>1, <1>2, <1>4, <1>5, <1>8, KeptByService

LEMMA AfterKept ==
  ASSUME Typed, Typed', Sent, Settled, NEW m, NEW b, Keeping(m, b), NEW o \in Socket, After(o)
  PROVE  Tracked'
<1>1. m \in Nat /\ SaidInOrder(m) /\ \A w \in Worker : TakenUp(w, m, b[w])
  BY DEF Keeping
<1>2. UNCHANGED <<sequence, queue, inbox, attached, reader, monitor>>
  BY DEF After, workerVars
<1>3. \A k \in Caller : caller'[k].batch = caller[k].batch
  <2>1. Call(socket[o].on, "idle", Acted(o)) /\ socket[o].on \in Caller
    BY Naturals1 DEF After
  <2>2. caller[socket[o].on].batch = <<>> /\ Acted(o).batch = <<>>
    BY <2>1, CallMoves, ActedIs DEF Settled, Empty
  <2>. QED
    BY <2>1, <2>2, CallMoves
<1>4. SaidInOrder(m)'
  BY <1>1, <1>2, <1>3, SameSaid
<1>5. \A w \in Worker : TakenUp(w, m, b[w])'
  BY <1>1, <1>2, SameTaken
<1>6. \A s \in Socket : socket'[s].on = socket[s].on
  BY DEF After, Typed, SocketTyped, Served
<1>7. \A s \in Socket : \A a \in Nat : a <= sequence /\ Followed(s, a) => Followed(s, a)'
  BY AfterFollowed
<1>. QED
  BY <1>1, <1>2, <1>4, <1>5, <1>6, <1>7, KeptByService

LEMMA ReadAnswerKept ==
  ASSUME Typed, Typed', Sent, Settled, NEW m, NEW b, Keeping(m, b), NEW v \in Worker, ReadAnswer(v)
  PROVE  Tracked'
<1>1. m \in Nat /\ SaidInOrder(m) /\ \A w \in Worker : TakenUp(w, m, b[w])
  BY DEF Keeping
<1>2. UNCHANGED <<sequence, queue, caller, monitor>>
  BY DEF ReadAnswer, serviceVars
<1>3. SaidInOrder(m)'
  BY <1>1, <1>2, SameSaid
<1>4. \A w \in Worker : TakenUp(w, m, b[w])'
  BY <1>1, ReadAnswerTaken
<1>5. \A s \in Socket : socket'[s].on = socket[s].on
  BY ReadAnswerMoves
<1>6. \A s \in Socket : \A a \in Nat : Followed(s, a) => Followed(s, a)'
  BY ReadAnswerFollowed
<1>. QED
  BY <1>1, <1>2, <1>3, <1>4, <1>5, <1>6, KeptByService

\* the event a worker takes up is the next
LEMMA ReadEventKept ==
  ASSUME Typed, Typed', Sent, Settled, NEW m, NEW b, Keeping(m, b), NEW v \in Worker, ReadEvent(v)
  PROVE  Tracked'
<1>1. /\ m \in Nat /\ SaidInOrder(m) /\ b \in [Worker -> Nat]
      /\ \A w \in Worker : b[w] \in Nat /\ TakenUp(w, m, b[w])
  BY DEF Keeping
<1>2. UNCHANGED <<sequence, queue, caller, attached, socket, monitor>>
  BY DEF ReadEvent, serviceVars, workerVars
<1>3. SaidInOrder(m)'
  BY <1>1, <1>2, SameSaid
<1>4. PICK c \in [Worker -> Nat] : \A w \in Worker : c[w] = IF v = w THEN b[w] + 1 ELSE b[w]
  <2>1. [w \in Worker |-> IF v = w THEN b[w] + 1 ELSE b[w]] \in [Worker -> Nat]
    BY <1>1
  <2>. QED
    BY <2>1
<1>5. ASSUME NEW w \in Worker PROVE TakenUp(w, m, c[w])'
  <2>1. CASE w = v
    <3>1. PICK a \in Nat : a = b[v] /\ c[v] = a + 1
      BY <1>1, <1>4
    <3>2. TakenUp(v, m, a)
      BY <1>1, <3>1
    <3>3. TakenUp(v, m, a + 1)'
      BY <1>1, <3>2, ReadEventTaken
    <3>. QED
      BY <2>1, <3>1, <3>3
  <2>2. CASE w # v
    <3>1. inbox'[w] = inbox[w] /\ reader'[w] = reader[w] /\ c[w] = b[w]
      BY <1>4, <2>2, ReadEventMoves
    <3>2. PICK a \in Nat : a = b[w] /\ TakenUp(w, m, a)
      BY <1>1
    <3>3. TakenUp(w, m, a)'
      BY <1>2, <3>1, <3>2 DEF TakenUp, IsEvent
    <3>. QED
      BY <3>1, <3>2, <3>3
  <2>. QED
    BY <2>1, <2>2
<1>6. ASSUME monitor'.on # NoSocket
      PROVE  \E s, a : s = monitor'.on /\ a = c[socket'[s].on] /\ Followed(s, a)'
  <2>1. PICK s \in Socket, a \in Nat :
          /\ s = monitor.on /\ a = b[socket[s].on] /\ a <= sequence /\ Followed(s, a)
          /\ reader[socket[s].on].frame \in {0, a}
    BY <1>2, <1>6, MonitorFollowed
  <2>2. PICK d : d = IF v = socket[s].on THEN a + 1 ELSE a
    OBVIOUS
  <2>3. Followed(s, d)'
    BY <1>2, <2>1, <2>2, ReadEventFollowed
  <2>4. socket[s].on \in Worker
    BY Naturals1
  <2>5. d = c[socket'[s].on] /\ s = monitor'.on
    BY <1>2, <1>4, <2>1, <2>2, <2>4
  <2>. QED
    BY <2>3, <2>5
<1>. QED
  BY <1>1, <1>3, <1>5, <1>6, KeptAs

\* what a worker delivers, and whom it closes
LEMMA DeliverKept ==
  ASSUME Typed, Typed', Sent, Settled, NEW m, NEW b, Keeping(m, b), NEW w \in Worker, NEW o \in Socket,
         DeliverNot(w, o) \/ DeliverMark(w, o) \/ DeliverPush(w, o) \/ CloseBehind(w, o), ~overtaken'
  PROVE  Tracked'
<1>1. UNCHANGED <<sequence, queue, caller, inbox, attached, socket, monitor>>
  BY DEF DeliverNot, DeliverMark, DeliverPush, CloseBehind, serviceVars, workerVars
<1>2. \A v \in Worker : reader'[v].frame \in {0, reader[v].frame}
  BY DeliverNotMoves, DeliverMarkMoves, DeliverPushMoves, CloseBehindMoves
<1>3. ASSUME NEW s \in Socket, NEW a \in Nat, s = monitor.on, a <= sequence, reader[socket[s].on].frame \in {0, a},
             Followed(s, a)
      PROVE  Followed(s, a)'
  BY <1>3, DeliverNotFollowed, DeliverMarkFollowed, DeliverPushFollowed, CloseBehindFollowed
<1>. QED
  BY <1>1, <1>2, <1>3, KeptByDelivery

\* what a socket does after it has asked
LEMMA ServeKept ==
  ASSUME Typed, Typed', Sent, Settled, NEW m, NEW b, Keeping(m, b), NEW o \in Socket,
         \/ Join(o) \/ AskFails(o) \/ ReplaySkips(o) \/ ReplayMark(o) \/ ReplayPush(o) \/ ReplayBehind(o) \/ Leave(o)
  PROVE  Tracked'
<1>1. UNCHANGED <<sequence, queue, caller, inbox, attached, reader, monitor>>
  BY DEF Join, AskFails, ReplaySkips, ReplayMark, ReplayPush, ReplayBehind, Leave, serviceVars, workerVars
<1>2. ASSUME NEW s \in Socket, s = monitor.on PROVE socket'[s].on = socket[s].on
  BY <1>2, ServeKeeps, ReplaySkipsMoves, ReplayPushMoves, LeaveMoves DEF Join, AskFails, ReplayMark, ReplayBehind
<1>3. ASSUME NEW s \in Socket, NEW a \in Nat, s = monitor.on, Followed(s, a) PROVE Followed(s, a)'
  BY <1>3, JoinFollowed, GivesUpFollowed, ReplaySkipsFollowed, ReplayMarkFollowed, ReplayPushFollowed, LeaveFollowed
<1>. QED
  BY <1>1, <1>2, <1>3, KeptByDelivery

LEMMA AdmitKept ==
  ASSUME Typed, Typed', Sent, Settled, NEW m, NEW b, Keeping(m, b), NEW o \in Socket, Admit(o)
  PROVE  Tracked'
<1>1. UNCHANGED <<sequence, queue, caller, inbox, attached, reader, monitor>>
  BY DEF Admit, serviceVars, workerVars
<1>2. ASSUME NEW s \in Socket, NEW a \in Nat, s = monitor.on, Followed(s, a)
      PROVE  \/ Followed(s, a)' /\ socket'[s].on = socket[s].on
             \/ \A c : Followed(s, c)'
  BY <1>2, AdmitFollowed
<1>. QED
  BY <1>1, <1>2, KeptByDelivery

LEMMA CloseAllKept ==
  ASSUME Typed, Typed', Sent, Settled, NEW m, NEW b, Keeping(m, b), NEW w \in Worker, CloseAll(w)
  PROVE  Tracked'
<1>1. UNCHANGED <<sequence, queue, caller, inbox, attached, reader, socket, monitor>>
  BY DEF CloseAll, serviceVars
<1>2. ASSUME NEW s \in Socket, NEW a \in Nat, s = monitor.on, Followed(s, a) PROVE Followed(s, a)'
  BY <1>2, CloseAllFollowed
<1>. QED
  BY <1>1, <1>2, KeptByDelivery

\* nothing of it moved, or a worker told that it retires
LEMMA RestKept ==
  ASSUME Typed, Typed', NEW m, NEW b, Keeping(m, b),
         UNCHANGED <<serviceVars, inbox, attached, watching, reader, socket, watchVars, monitor>>
  PROVE  Tracked'
<1>1. UNCHANGED <<sequence, queue, caller, inbox, attached, watching, reader, socket, delivered, pushed,
                  channel, monitor>>
  BY DEF serviceVars, watchVars
<1>2. \A s \in Socket : \A k \in Caller : \A n : Asked(s, k, n)' => Asked(s, k, n)
  BY <1>1 DEF Asked
<1>3. sequence <= sequence'
  BY <1>1, Naturals1
<1>4. ASSUME NEW s \in Socket, NEW a \in Nat, Followed(s, a) PROVE Followed(s, a)'
  BY <1>1, <1>2, <1>3, <1>4, ServiceFollowed
<1>. QED
  BY <1>1, <1>4, KeptByDelivery

\* a new worker has missed nothing that is not in the history it will replay
LEMMA ReplaceKept ==
  ASSUME Typed, Typed', Settled, NEW m, NEW b, Keeping(m, b), NEW v \in Worker, Replace(v)
  PROVE  Tracked'
<1>1. /\ m \in Nat /\ SaidInOrder(m) /\ b \in [Worker -> Nat]
      /\ \A w \in Worker : b[w] \in Nat /\ TakenUp(w, m, b[w])
  BY DEF Keeping
<1>2. /\ UNCHANGED <<sequence, queue, caller, inbox, watching, reader, socket, delivered, pushed, channel, monitor>>
      /\ attached' = attached \cup {v} /\ v \notin attached
  BY DEF Replace, serviceVars, watchVars
<1>3. SaidInOrder(m)'
  BY <1>1, <1>2, SameSaid
<1>4. PICK c \in [Worker -> Nat] : \A w \in Worker : c[w] = IF w = v THEN m ELSE b[w]
  <2>1. [w \in Worker |-> IF w = v THEN m ELSE b[w]] \in [Worker -> Nat]
    BY <1>1
  <2>. QED
    BY <2>1
<1>5. ASSUME NEW w \in Worker PROVE TakenUp(w, m, c[w])'
  <2>1. PICK a \in Nat : a = b[w] /\ TakenUp(w, m, a)
    BY <1>1
  <2>2. CASE w = v
    <3>1. TakenUp(v, m, m)'
      BY <1>1, <2>1, <2>2, ReplaceTaken
    <3>2. c[w] = m
      BY <1>4, <2>2
    <3>. QED
      BY <2>2, <3>1, <3>2
  <2>3. CASE w # v
    <3>1. TakenUp(w, m, a)'
      BY <1>2, <2>1, <2>3, SameTaken
    <3>2. c[w] = a
      BY <1>4, <2>1, <2>3
    <3>. QED
      BY <3>1, <3>2
  <2>. QED
    BY <2>2, <2>3
<1>6. ASSUME monitor'.on # NoSocket
      PROVE  \E s, a : s = monitor'.on /\ a = c[socket'[s].on] /\ Followed(s, a)'
  <2>1. PICK s \in Socket, a \in Nat :
          /\ s = monitor.on /\ a = b[socket[s].on] /\ a <= sequence /\ Followed(s, a)
          /\ reader[socket[s].on].frame \in {0, a}
    BY <1>2, <1>6, MonitorFollowed
  <2>2. socket[s].on \in Worker /\ AskedOnce(s) /\ sequence <= sequence'
    BY <1>2, Naturals1 DEF Settled
  <2>3. CASE socket[s].on # v
    <3>1. c[socket'[s].on] = a
      BY <1>2, <1>4, <2>1, <2>2, <2>3
    <3>2. \A k \in Caller : \A n : Asked(s, k, n)' => Asked(s, k, n)
      BY <1>2 DEF Asked
    <3>3. Followed(s, a)'
      BY <1>2, <2>1, <2>2, <3>2, ServiceFollowed
    <3>. QED
      BY <1>2, <2>1, <3>1, <3>3
  <2>4. CASE socket[s].on = v
    <3>1. socket[s].at = "over"
      BY <1>2, <2>1, <2>2, <2>4 DEF AskedOnce
    <3>2. Closed(s) /\ ChannelInOrder(s)
      BY <2>1, <3>1 DEF Followed, Remembered
    <3>3. PICK d : d = c[socket'[s].on]
      OBVIOUS
    <3>4. Followed(s, d)'
      BY <1>2, <2>2, <3>2, ClosedFollowed
    <3>. QED
      BY <1>2, <2>1, <3>3, <3>4
  <2>. QED
    BY <2>3, <2>4
<1>. QED
  BY <1>1, <1>3, <1>5, <1>6, KeptAs

LEMMA OpenKept ==
  ASSUME Typed, Typed', Sent, Settled, ReadUp, NEW m, NEW b, Keeping(m, b), NEW s \in Socket, Open(s)
  PROVE  Tracked'
<1>1. UNCHANGED <<sequence, queue, caller, inbox, attached, reader>> /\ monitor'.on = s
  BY OpenMoves DEF Open, serviceVars, workerVars
<1>2. monitor.cursor <= sequence
  BY DEF ReadUp
<1>3. PICK a : a = b[socket'[s].on]
  OBVIOUS
<1>4. Followed(s, a)'
  BY <1>2, OpenFollowed
<1>5. \A w \in Worker : reader'[w].frame \in {0, reader[w].frame}
  BY <1>1
<1>. QED
  BY <1>1, <1>3, <1>4, <1>5, KeptByWatch

LEMMA WriteKept ==
  ASSUME Typed, Typed', Sent, Settled, ReadUp, NEW m, NEW b, Keeping(m, b), NEW s \in Socket, Write(s) \/ Cut(s)
  PROVE  Tracked' /\ ReadUp'
<1>1. UNCHANGED <<sequence, queue, caller, inbox, attached, reader, socket>>
  BY DEF Write, Cut, serviceVars, workerVars
<1>2. \A w \in Worker : reader'[w].frame \in {0, reader[w].frame}
  BY <1>1
<1>3. monitor.on = s /\ s # NoSocket
  BY WriteMoves, CutMoves, Constants
<1>4. PICK a \in Nat : a = b[socket[s].on] /\ Followed(s, a)
  BY <1>3, MonitorFollowed
<1>5. CASE Write(s) /\ Head(channel[s]) # EndOfChannel
  <2>1. Followed(s, a)'
    BY <1>4, <1>5, WriteFollowed
  <2>2. Tracked'
    BY <1>1, <1>2, <1>4, <1>5, <2>1, WriteMoves, KeptByWatch
  <2>3. Head(channel[s]) = monitor.cursor + 1 /\ monitor.cursor + 1 <= sequence
    BY <1>4, <1>5, WriteNext DEF Followed
  <2>4. monitor'.cursor = monitor.cursor + 1 /\ monitor'.read = monitor.read \cup {monitor.cursor + 1}
    BY <1>5, <2>3, WriteMoves
  <2>5. monitor.cursor \in Nat /\ monitor.read = 1..monitor.cursor
    BY Naturals1 DEF ReadUp
  <2>6. (1..monitor.cursor) \cup {monitor.cursor + 1} = 1..(monitor.cursor + 1)
    BY <2>5
  <2>7. ReadUp'
    BY <1>1, <2>3, <2>4, <2>5, <2>6 DEF ReadUp
  <2>. QED
    BY <2>2, <2>7
<1>6. CASE Cut(s) \/ Head(channel[s]) = EndOfChannel
  <2>1. monitor'.on = NoSocket /\ monitor'.cursor = monitor.cursor /\ monitor'.read = monitor.read
    BY <1>6, WriteMoves, CutMoves
  <2>2. Tracked'
    BY <1>1, <1>2, <2>1, KeptByWatch
  <2>3. ReadUp'
    BY <1>1, <2>1 DEF ReadUp
  <2>. QED
    BY <2>2, <2>3
<1>. QED
  BY <1>5, <1>6

LEMMA InitInOrder == Init => InOrder
<1> SUFFICES ASSUME Init PROVE InOrder
  OBVIOUS
<1>. Typed
  BY InitTyped
<1>1. /\ sequence = 0 /\ queue = <<>> /\ monitor.on = NoSocket /\ monitor.cursor = 0 /\ monitor.read = {}
      /\ \A k \in Caller : caller[k].batch = <<>>
  BY DEF Init, Idle
<1>2. \A w \in Worker : inbox[w] = <<>> /\ reader[w].frame = 0
  BY DEF Init, Resting
<1>3. ReadUp
  BY <1>1 DEF ReadUp
<1>4. SaidInOrder(0)
  BY <1>1 DEF SaidInOrder
<1>5. PICK b \in [Worker -> Nat] : \A w \in Worker : b[w] = 0
  <2>1. [w \in Worker |-> 0] \in [Worker -> Nat]
    OBVIOUS
  <2>. QED
    BY <2>1
<1>6. \A w \in Worker : TakenUp(w, 0, b[w])
  BY <1>2, <1>5 DEF TakenUp, IsEvent
<1>7. Keeping(0, b)
  BY <1>1, <1>4, <1>5, <1>6 DEF Keeping
<1>. QED
  BY <1>3, <1>7 DEF InOrder, Tracked

\* what the monitor has read is as it was
LEMMA SameReadUp ==
  ASSUME Typed, Typed', ReadUp, monitor'.read = monitor.read, monitor'.cursor = monitor.cursor, sequence <= sequence'
  PROVE  ReadUp'
<1>1. monitor.cursor \in Nat /\ sequence \in Nat
  BY Naturals1
<1>2. sequence' \in Nat
  BY FeedConstants DEF Typed, ServiceTyped
<1>. QED
  BY <1>1, <1>2 DEF ReadUp

\* a frame that was overtaken is so for good
LEMMA OvertakenStays ==
  ASSUME overtaken \in BOOLEAN, [Next]_vars, overtaken
  PROVE  overtaken'
<1>1. ASSUME NEW k \in Caller, Flush(k) PROVE overtaken'
  BY <1>1 DEF Flush, Take, Say
<1>2. ASSUME NEW w \in Worker, Answers(w) \/ Replace(w) \/ Retire(w) \/ CloseAll(w) PROVE overtaken'
  BY <1>2 DEF Answers, Replace, Retire, CloseAll
<1>3. ASSUME NEW w \in Worker, Deliver(w) PROVE overtaken'
  <2>1. ReadAnswer(w) \/ ReadEvent(w) => overtaken'
    BY DEF ReadAnswer, ReadEvent
  <2>2. ASSUME NEW s \in Socket, DeliverNot(w, s) \/ DeliverMark(w, s) \/ DeliverPush(w, s) \/ CloseBehind(w, s)
        PROVE  overtaken'
    BY <2>2 DEF DeliverNot, DeliverMark, DeliverPush, CloseBehind
  <2>. QED
    BY <1>3, <2>1, <2>2 DEF Deliver
<1>4. ASSUME NEW s \in Socket, ServeFeed(s) PROVE overtaken'
  <2>1. Admit(s) \/ Join(s) \/ After(s) \/ Leave(s) => overtaken'
    BY DEF Admit, Join, After, Leave
  <2>2. ReplaySkips(s) \/ ReplayMark(s) \/ ReplayPush(s) \/ ReplayBehind(s) => overtaken'
    BY DEF ReplaySkips, ReplayMark, ReplayPush, ReplayBehind
  <2>. QED
    BY <1>4, <2>1, <2>2 DEF ServeFeed
<1>5. ASSUME NEW s \in Socket, AskFails(s) \/ Open(s) \/ Write(s) \/ Cut(s) PROVE overtaken'
  BY <1>5 DEF AskFails, Open, Write, Cut
<1>6. ASSUME NEW k \in Others, Emit(k) PROVE overtaken'
  BY <1>6 DEF Emit
<1>7. CASE UNCHANGED vars
  BY <1>7 DEF vars
<1>. QED
  BY <1>1, <1>2, <1>3, <1>4, <1>5, <1>6, <1>7 DEF Next

LEMMA StepInOrder == ASSUME Typed, Sent, Settled, InOrder, [Next]_vars PROVE InOrder'
<1>. Typed'
  BY StepTyped
<1> SUFFICES ASSUME ~overtaken' PROVE ReadUp' /\ Tracked'
  BY DEF InOrder
<1>1. ~overtaken
  <2>1. overtaken \in BOOLEAN
    BY DEF Typed, MonitorTyped
  <2>. QED
    BY <2>1, OvertakenStays
<1>2. ReadUp /\ Tracked
  BY <1>1 DEF InOrder
<1>3. PICK m, b : Keeping(m, b)
  BY <1>2 DEF Tracked
<1>4. sequence \in Nat
  BY Naturals1
<1>5. CASE UNCHANGED vars
  <2>1. UNCHANGED <<serviceVars, inbox, attached, watching, reader, socket, watchVars, monitor>> /\ sequence' = sequence
    BY <1>5 DEF vars, workerVars, serviceVars
  <2>. QED
    BY <1>2, <1>3, <1>4, <2>1, RestKept, SameReadUp
<1>6. ASSUME NEW k \in Others, Emit(k) PROVE ReadUp' /\ Tracked'
  <2>1. monitor' = monitor /\ sequence' = sequence + 1
    BY <1>6 DEF Emit
  <2>. QED
    BY <1>2, <1>3, <1>4, <1>6, <2>1, EmitKept, SameReadUp
<1>7. ASSUME NEW k \in Caller, Flush(k) PROVE ReadUp' /\ Tracked'
  <2>1. monitor' = monitor /\ sequence' = sequence
    BY <1>7 DEF Flush, Take, Say
  <2>. QED
    BY <1>2, <1>3, <1>4, <1>7, <2>1, TakeKept, SayKept, SameReadUp DEF Flush
<1>8. ASSUME NEW w \in Worker, Answers(w) \/ Replace(w) \/ Retire(w) \/ CloseAll(w) PROVE ReadUp' /\ Tracked'
  <2>1. monitor' = monitor /\ sequence' = sequence
    BY <1>8 DEF Answers, Replace, Retire, CloseAll, serviceVars
  <2>2. Retire(w) => UNCHANGED <<serviceVars, inbox, attached, watching, reader, socket, watchVars, monitor>>
    BY DEF Retire
  <2>3. Tracked'
    BY <1>3, <1>8, <2>2, AnswersKept, ReplaceKept, RestKept, CloseAllKept
  <2>. QED
    BY <1>2, <1>4, <2>1, <2>3, SameReadUp
<1>9. ASSUME NEW w \in Worker, Deliver(w) PROVE ReadUp' /\ Tracked'
  <2>1. monitor' = monitor /\ sequence' = sequence
    BY <1>9 DEF Deliver, ReadAnswer, ReadEvent, DeliverNot, DeliverMark, DeliverPush, CloseBehind, serviceVars
  <2>2. Tracked'
    BY <1>3, <1>9, ReadAnswerKept, ReadEventKept, DeliverKept DEF Deliver
  <2>. QED
    BY <1>2, <1>4, <2>1, <2>2, SameReadUp
<1>10. ASSUME NEW s \in Socket, ServeFeed(s) \/ AskFails(s) PROVE ReadUp' /\ Tracked'
  <2>1. monitor' = monitor /\ sequence' = sequence
    BY <1>10 DEF ServeFeed, Admit, Join, After, Leave, ReplaySkips, ReplayMark, ReplayPush, ReplayBehind, AskFails,
       serviceVars
  <2>2. Tracked'
    BY <1>3, <1>10, AdmitKept, AfterKept, ServeKept DEF ServeFeed
  <2>. QED
    BY <1>2, <1>4, <2>1, <2>2, SameReadUp
<1>11. ASSUME NEW s \in Socket, Open(s) PROVE ReadUp' /\ Tracked'
  <2>1. monitor'.read = monitor.read /\ monitor'.cursor = monitor.cursor /\ sequence' = sequence
    BY <1>11, OpenMoves DEF Open, serviceVars
  <2>. QED
    BY <1>2, <1>3, <1>4, <1>11, <2>1, OpenKept, SameReadUp
<1>12. ASSUME NEW s \in Socket, Write(s) \/ Cut(s) PROVE ReadUp' /\ Tracked'
  BY <1>2, <1>3, <1>12, WriteKept
<1>. QED
  BY <1>5, <1>6, <1>7, <1>8, <1>9, <1>10, <1>11, <1>12 DEF Next

-----------------------------------------------------------------------------
(* What the order says of the monitor *)

\* at rest everything is said, taken up by the worker and through the channel
LEMMA RestReached ==
  ASSUME Typed, Settled, ReadUp, NEW m, NEW b, Keeping(m, b), AtRest
  PROVE  monitor.read = 1..sequence
<1>1. PICK s \in Socket, a \in Nat :
        /\ s = monitor.on /\ a = b[socket[s].on] /\ a <= sequence /\ Followed(s, a)
        /\ reader[socket[s].on].frame \in {0, a}
  BY MonitorFollowed DEF AtRest
<1> DEFINE w == socket[s].on
<1>2. w \in Worker /\ sequence \in Nat /\ monitor.cursor \in Nat
  BY Naturals1
<1>3. m \in Nat /\ SaidInOrder(m) /\ TakenUp(w, m, a)
  BY <1>1, <1>2 DEF Keeping
<1>4. \A k \in Caller : caller[k].batch = <<>>
  BY DEF AtRest, Settled, Empty
<1>5. m = sequence
  <2>1. \A frame \in (m + 1)..sequence : FALSE
    BY <1>3, <1>4 DEF SaidInOrder, Unsaid, AtRest
  <2>2. m <= sequence
    BY <1>3 DEF SaidInOrder
  <2>3. ASSUME m < sequence PROVE FALSE
    <3>1. sequence \in (m + 1)..sequence
      BY <1>2, <1>3, <2>3
    <3>. QED
      BY <2>1, <3>1
  <2>. QED
    BY <1>2, <1>3, <2>2, <2>3
<1>6. Live(s) /\ channel[s] = <<>> /\ reader[w] = Resting /\ inbox[w] = <<>>
  BY <1>1, <1>2 DEF AtRest
<1>7. ~Closed(s)
  BY <1>6 DEF Closed
<1>8. socket[s].at = "replaying" /\ MarkedInOrder(s) /\ ReplayInOrder(s) /\ NoneSkipped(s, a)
  BY <1>1, <1>6, <1>7 DEF Followed, Remembered, OnItsWay, Live
<1>9. w \in attached
  BY <1>8 DEF Settled, AskedOnce
<1>10. a = m
  <2>1. \A frame \in (a + 1)..m : FALSE
    BY <1>3, <1>6, <1>9 DEF TakenUp
  <2>2. a <= m
    BY <1>3 DEF TakenUp
  <2>3. ASSUME a < m PROVE FALSE
    <3>1. m \in (a + 1)..m
      BY <1>3, <2>3
    <3>. QED
      BY <2>1, <3>1
  <2>. QED
    BY <1>3, <2>2, <2>3
<1>11. a <= delivered[s]
  <2>1. Resting.behind = {} /\ Resting.todo = {}
    BY DEF Resting
  <2>2. Reached(s, a, delivered[s]) \/ Reached(s, a, socket[s].upTo)
    BY <1>6, <1>8, <2>1 DEF NoneSkipped, Promised
  <2>3. a <= delivered[s] \/ a <= socket[s].upTo
    BY <1>6, <2>1, <2>2 DEF Reached
  <2>4. socket[s].upTo <= delivered[s] /\ socket[s].upTo \in Nat /\ delivered[s] \in Nat
    BY <1>6, <1>8, Naturals1 DEF ReplayInOrder, Typed, WatchTyped
  <2>. QED
    BY <2>3, <2>4
<1>12. ~Marking(s)
  <2>1. Resting.holds = NoSocket /\ s # NoSocket
    BY Constants DEF Resting
  <2>. QED
    BY <1>8, <2>1 DEF Marking, AtRest
<1>13. delivered[s] = monitor.cursor /\ delivered[s] <= sequence
  BY <1>2, <1>6, <1>8, <1>12 DEF MarkedInOrder
<1>14. monitor.cursor = sequence
  BY <1>1, <1>2, <1>5, <1>10, <1>11, <1>13
<1>. QED
  BY <1>14 DEF ReadUp

\* A monitor that follows the feed, through every close, cut and replacement of a worker, has read each
\* frame up to its cursor and, when nothing is on its way, every frame there is (Watchers, serve_feed
\* and the listener of the service), as long as no frame overtook an older one.
THEOREM MonitorIsReached == Spec => []FeedReachesMonitor
<1>1. Typed /\ Settled /\ InOrder => FeedReachesMonitor
  <2> SUFFICES ASSUME Typed, Settled, InOrder, ~overtaken PROVE FeedReachesMonitor
    BY DEF FeedReachesMonitor, NothingMissedInOrder, NothingForgotten
  <2>1. ReadUp /\ Tracked
    BY DEF InOrder
  <2>2. PICK m, b : Keeping(m, b)
    BY <2>1 DEF Tracked
  <2>3. AtRest => monitor.read = 1..sequence
    BY <2>1, <2>2, RestReached
  <2>. QED
    BY <2>1, <2>3 DEF FeedReachesMonitor, NothingMissedInOrder, NothingForgotten, ReadUp
<1>2. Init => Typed /\ Sent /\ Settled /\ InOrder
  BY InitTyped, InitSent, InitSettled, InitInOrder
<1>3. Typed /\ Sent /\ Settled /\ InOrder /\ [Next]_vars => (Typed /\ Sent /\ Settled /\ InOrder)'
  BY StepTyped, StepSent, StepSettled, StepInOrder
<1>. QED
  BY <1>1, <1>2, <1>3, PTL DEF Spec

=============================================================================
