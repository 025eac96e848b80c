--------------------------- MODULE WindowControl ---------------------------
(***************************************************************************)
(* How the supervisor speaks with one desktop window (red-supervisor:      *)
(* desktop.rs, runtime.rs window_action, red_supervisor.rs automation).    *)
(* Requests go down the window's input, one line each, and are answered on *)
(* its output; the ids count down.  A relay puts the lines of another      *)
(* speaker down the same input and hears whatever the channel did not ask  *)
(* for.  A request is given up after its time, and the window may end.     *)
(***************************************************************************)
EXTENDS Integers, Sequences

CONSTANTS
  Request,    \* requests for the window: each asks it once
  Closing,    \* those that close it
  Relay,      \* whoever relays the other speaker, each once
  Nobody,
  MaxLines,   \* bound: lines of the other speaker
  MaxNotes    \* bound: diagnostics of the window, and lines past REPLY_LIMIT

VARIABLES
  request,    \* each request: where it is, its id, what came of it
  next,       \* Control.next
  pending,    \* Control.pending: who waits, by id
  input,      \* the lines on their way to the window
  window,     \* whether it runs, and the code it ended with
  output,     \* the lines on their way back; the last one is the end of the stream
  reader,     \* the reading thread: the line it claims for somebody who waits
  closing,    \* View.closing
  listener,   \* Control.overhearing
  relay,      \* each relay: where it is and what it heard
  lines, notes, \* lines of the other speaker, and diagnostics, so far
  deafened, lost \* history: who attached last, whether one ended while another listened; answers it did not hear

controlVars == <<request, next, pending, input, window, output, reader, closing, listener, relay, lines, notes, deafened, lost>>

\* A line: its id, and whose question it is about.
NoLine == [is |-> "none", id |-> 0, of |-> Nobody]
\* SILENT, EXITED and TOO_MUCH, and a write that failed.
Errors == {"silent", "exited", "tooMuch", "broken"}

ControlInit ==
  /\ request = [r \in Request |-> [pc |-> "idle", id |-> 0, got |-> "none", about |-> Nobody]]
  /\ next = -1 /\ pending = {} /\ input = <<>> /\ output = <<>>
  /\ window = [runs |-> TRUE, code |-> 0] /\ reader = NoLine /\ closing = FALSE
  /\ listener = Nobody /\ relay = [k \in Relay |-> [pc |-> "off", heard |-> {}]]
  /\ lines = 0 /\ notes = 0 /\ deafened = [latest |-> Nobody, is |-> FALSE] /\ lost = {}

readerVars == <<reader, output>>
relayVars  == <<listener, relay, lines, deafened, lost>>

-----------------------------------------------------------------------------
\* asking().

\* Mutant: the id of a request that is over is given again.
NumberAgain == CHOOSE n \in -9 .. -1 : n \notin pending /\ \A k \in -9 .. -1 : k > n => k \in pending
Number == next

Ask(r) ==
  /\ request[r].pc = "idle" /\ (r \in Closing => ~closing)
  /\ closing' = (closing \/ r \in Closing)
  /\ request' = [request EXCEPT ![r] = [@ EXCEPT !.pc = "say", !.id = Number]]
  /\ next' = next - 1 /\ pending' = pending \cup {Number}
  /\ UNCHANGED <<input, window, readerVars, relayVars, notes>>

\* CLOSE_PENDING.
Refuse(r) ==
  /\ r \in Closing /\ request[r].pc = "idle" /\ closing
  /\ request' = [request EXCEPT ![r].pc = "over"]
  /\ UNCHANGED <<next, pending, input, window, readerVars, closing, relayVars, notes>>

\* What a request comes to.  One that closes the window waits for its exit.
Comes(r, what, about) ==
  request' = [request EXCEPT ![r] = [@ EXCEPT !.got = what, !.about = about,
                !.pc = IF r \in Closing /\ what = "answer" THEN "exit" ELSE "over"]]
Unflagged(r, what) == closing' = IF r \in Closing /\ what # "answer" THEN FALSE ELSE closing

Say(r) ==
  /\ request[r].pc = "say"
  /\ IF window.runs
     THEN /\ input' = Append(input, [id |-> request[r].id, of |-> r])
          /\ request' = [request EXCEPT ![r].pc = IF @ = "say" THEN "wait" ELSE @]
          /\ UNCHANGED <<pending, closing>>
     ELSE /\ pending' = pending \ {request[r].id} /\ Comes(r, "broken", Nobody) /\ Unflagged(r, "broken")
          /\ UNCHANGED input
  /\ UNCHANGED <<next, window, readerVars, relayVars, notes>>

\* Its sender left the map: what was sent is what it gets.
Hear(r) ==
  /\ request[r].pc = "told" /\ Comes(r, request[r].got, request[r].about) /\ Unflagged(r, request[r].got)
  /\ UNCHANGED <<next, pending, input, window, readerVars, relayVars, notes>>

\* REPLY_TIMEOUT.  An answer that comes after belongs to nobody who waits.
GiveUp(r) ==
  /\ request[r].pc = "wait"
  /\ pending' = pending \ {request[r].id} /\ Comes(r, "silent", Nobody) /\ Unflagged(r, "silent")
  /\ UNCHANGED <<next, input, window, readerVars, relayVars, notes>>

\* The window's exit, or seven seconds of waiting for it.
Exited(r) ==
  /\ request[r].pc = "exit" /\ closing' = FALSE
  /\ request' = [request EXCEPT ![r].pc = "over", ![r].got = IF ~window.runs /\ window.code = 0 THEN "closed" ELSE "unfinished"]
  /\ UNCHANGED <<next, pending, input, window, readerVars, relayVars, notes>>

-----------------------------------------------------------------------------
\* The window (its side of the protocol, editor: app.c).

\* It answers the lines of its input in order.
WindowAnswers ==
  /\ window.runs /\ input # <<>> /\ input' = Tail(input)
  /\ output' = Append(output, [is |-> "answer", id |-> Head(input).id, of |-> Head(input).of])
  /\ UNCHANGED <<request, next, pending, window, reader, closing, relayVars, notes>>

WindowNotes ==
  /\ window.runs /\ notes < MaxNotes /\ notes' = notes + 1
  /\ \E is \in {"note", "tooMuch"} : output' = Append(output, [NoLine EXCEPT !.is = is])
  /\ UNCHANGED <<request, next, pending, input, window, reader, closing, relayVars>>

WindowEnds ==
  /\ window.runs /\ \E code \in {0, 1} : window' = [window EXCEPT !.runs = FALSE, !.code = code]
  /\ input' = <<>> /\ output' = Append(output, [NoLine EXCEPT !.is = "end"])
  /\ UNCHANGED <<request, next, pending, reader, closing, relayVars, notes>>

-----------------------------------------------------------------------------
\* The reading thread of Control::over.

Settled(ids, what) ==
  /\ pending' = pending \ ids
  /\ request' = [r \in Request |->
       IF request[r].pc \in {"say", "wait"} /\ request[r].id \in ids \cap pending
       THEN [request[r] EXCEPT !.pc = "told", !.got = what, !.about = IF what = "answer" THEN reader.of ELSE Nobody]
       ELSE request[r]]

Line == Head(output)
Attached == deafened.latest # Nobody /\ relay[deafened.latest].pc = "on"
Overheard(line) ==
  /\ relay' = IF listener # Nobody THEN [relay EXCEPT ![listener].heard = @ \cup {line.id}] ELSE relay
  /\ lost' = IF listener = Nobody /\ line.id > 0 /\ window.runs /\ Attached
             THEN lost \cup {line.id} ELSE lost

\* A line is claimed for whoever waits for its id, or is somebody else's.
Reads ==
  /\ reader = NoLine /\ output # <<>> /\ output' = Tail(output)
  /\ \/ /\ Line.is = "answer" /\ Line.id \in pending /\ reader' = Line
        /\ UNCHANGED <<request, pending, relay, lost>>
     \/ /\ Line.is \in {"answer", "note"} /\ Line.id \notin pending /\ Overheard(Line)
        /\ UNCHANGED <<reader, request, pending>>
     \/ /\ Line.is = "tooMuch" /\ Settled(pending, "tooMuch") /\ UNCHANGED <<reader, relay, lost>>
     \/ /\ Line.is = "end" /\ Settled(pending, "exited") /\ UNCHANGED <<reader, relay, lost>>
  /\ UNCHANGED <<next, input, window, closing, listener, lines, notes, deafened>>

\* settle(): whoever gave up since is not told, and nobody hears of it.
Settles ==
  /\ reader # NoLine /\ Settled({reader.id}, "answer") /\ reader' = NoLine
  /\ UNCHANGED <<next, input, window, output, closing, relayVars, notes>>

\* ended(): the thread that waits for the window tells everyone too, and nobody listens any more.
Ended ==
  /\ ~window.runs /\ (pending # {} \/ listener # Nobody)
  /\ Settled(pending, "exited") /\ listener' = Nobody
  /\ UNCHANGED <<next, input, window, readerVars, closing, relay, lines, notes, deafened, lost>>

-----------------------------------------------------------------------------
\* automation().

Attach(k) ==
  /\ relay[k].pc = "off" /\ window.runs /\ listener' = k
  /\ relay' = [relay EXCEPT ![k].pc = "on"] /\ deafened' = [deafened EXCEPT !.latest = k]
  /\ UNCHANGED <<request, next, pending, input, window, readerVars, closing, lines, notes, lost>>

Relays(k) ==
  /\ relay[k].pc = "on" /\ window.runs /\ lines < MaxLines /\ lines' = lines + 1
  /\ input' = Append(input, [id |-> lines + 1, of |-> Nobody])
  /\ UNCHANGED <<request, next, pending, window, readerVars, closing, listener, relay, notes, deafened, lost>>

\* deafen() takes whatever listener there is, also that of a relay that came after.
Detach(k) ==
  /\ relay[k].pc = "on" /\ relay' = [relay EXCEPT ![k].pc = "gone"] /\ listener' = Nobody
  /\ deafened' = [deafened EXCEPT !.is = @ \/ listener # k]
  /\ UNCHANGED <<request, next, pending, input, window, readerVars, closing, lines, notes, lost>>

ControlNext ==
  \/ \E r \in Request : Ask(r) \/ Refuse(r) \/ Say(r) \/ Hear(r) \/ GiveUp(r) \/ Exited(r)
  \/ WindowAnswers \/ WindowNotes \/ WindowEnds
  \/ Reads \/ Settles \/ Ended
  \/ \E k \in Relay : Attach(k) \/ Relays(k) \/ Detach(k)

-----------------------------------------------------------------------------
ControlTypeOK ==
  /\ \A r \in Request : request[r].id \in next + 1 .. 0
  /\ pending \subseteq next + 1 .. -1 /\ listener \in Relay \cup {Nobody}

\* An answer is to the question that was asked, however many were given up before and
\* whatever the other speaker is answered (Control::asking, the reading thread).
AnswersItsAsker == \A r \in Request : request[r].got = "answer" => request[r].about = r

\* Nobody waits on a window that is gone once its stream was read to the end (settle_all):
\* whoever could still write to it was waiting by then.
NobodyWaitsOnTheGone ==
  ~window.runs /\ output = <<>> /\ reader = NoLine => \A r \in Request : request[r].pc # "wait"

\* Every answer to the other speaker is heard while a relay is attached, unless a relay that
\* ended took the listener of one that came after it (overhear, deafen).
RelayHears == deafened.is \/ lost = {}

\* The three together.
ControlKeepsApart == AnswersItsAsker /\ NobodyWaitsOnTheGone /\ RelayHears

ControlSpec == ControlInit /\ [][ControlNext]_controlVars
=============================================================================
