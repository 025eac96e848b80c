--------------------------- MODULE SessionMessage ----------------------------
(***************************************************************************)
(* One line said to a pane that is already running, from the worker's      *)
(* route through the door to the service that types it (red_worker.rs:     *)
(* session_message; panes.rs: deliver_message; red-pty lib.rs: SeedWatch,  *)
(* message; red-core: grants.rs).  The service pastes the line, waits for  *)
(* its token to be echoed and only then presses Enter; a pane is seeded    *)
(* with its brief the same way.  The route meanwhile waits for the verdict *)
(* on the pane's record.                                                   *)
(*                                                                         *)
(* Clocks are left out: whether a span has passed is open at every look,   *)
(* for the thread that looks may be late.  The composer of the program in  *)
(* the pane, and the person before it, are the environment.                *)
(***************************************************************************)
EXTENDS Naturals, FiniteSets

CONSTANTS
  Relay,      \* calls of session_message, on one pane
  Brief,      \* the line the pane was spawned with
  Person,     \* what a person types into the composer
  NoLine,     \* no handshake
  Attempts,   \* pastes a brief may have; a relay has one
  MaxArm      \* bound: messages the owner arms at once

VARIABLES
  running, spoke,   \* the pane: whether it runs, and has said anything
  composer,         \* external: the lines in it that nobody has submitted
  watch,            \* seed: the handshake in flight, or the last one
  deciding,         \* verdicts reached and not yet on the record
  record,           \* the pane's "message" record, which the door follows
  grants,           \* the grants file: messages left
  relay,            \* the calls
  enters,           \* history: each handshake's Enter, and what it submitted
  touched           \* history: a person typed or pressed Enter

messageVars == <<running, spoke, composer, watch, deciding, record, grants, relay, enters, touched>>
paneVars  == <<running, spoke, composer, watch, deciding, record, enters, touched>>

Line  == Relay \cup {Brief}
NoWatch == [of |-> NoLine, pasted |-> FALSE, seen |-> FALSE, tries |-> 0, settled |-> TRUE]
Begun(l) == [of |-> l, pasted |-> FALSE, seen |-> FALSE, tries |-> 0, settled |-> FALSE]
Idle  == [pc |-> "idle", answer |-> "none", typed |-> FALSE]

MessageInit ==
  /\ running = TRUE /\ spoke = FALSE /\ composer = {}
  /\ watch \in {NoWatch, Begun(Brief)}
  /\ deciding = {} /\ record = "none"
  /\ grants = 0 /\ relay = [r \in Relay |-> Idle] /\ enters = {} /\ touched = FALSE

-----------------------------------------------------------------------------
\* The pane and the person before it.

\* The program redraws: a line that is in its composer may be echoed, after a paste.
Output ==
  /\ running /\ spoke' = TRUE
  /\ \E echo \in BOOLEAN :
       /\ echo => watch.of \in composer
       /\ watch' = IF watch.pasted /\ echo THEN [watch EXCEPT !.seen = TRUE] ELSE watch
  /\ UNCHANGED <<running, composer, deciding, record, grants, relay, enters, touched>>

\* A person types, or submits what the composer holds.
Types ==
  /\ running /\ touched' = TRUE
  /\ composer' \in {composer \cup {Person}, {}}
  /\ UNCHANGED <<running, spoke, watch, deciding, record, grants, relay, enters>>

Exits ==
  /\ running /\ running' = FALSE
  /\ UNCHANGED <<spoke, composer, watch, deciding, record, grants, relay, enters, touched>>

-----------------------------------------------------------------------------
\* watch_handshake: one look at the handshake, under the session's lock.

Allowed(l) == IF l = Brief THEN Attempts ELSE 1
Watching   == running /\ ~watch.settled
Decides(outcome) == deciding' = deciding \cup {[of |-> watch.of, outcome |-> outcome]}

\* The line is typed; what is up there may be a dialog that ignores it.
Paste ==
  /\ Watching /\ ~watch.pasted /\ spoke
  /\ watch' = [watch EXCEPT !.pasted = TRUE, !.seen = FALSE, !.tries = @ + 1]
  /\ composer' \in {composer, composer \cup {watch.of}}
  /\ UNCHANGED <<running, spoke, deciding, record, grants, relay, enters, touched>>

\* Mutant: Enter follows the paste without waiting for the echo.
EchoedBlindly == watch.pasted

Echoed == watch.pasted /\ watch.seen
Submit ==
  /\ Watching /\ Echoed
  /\ watch' = [NoWatch EXCEPT !.of = watch.of]
  /\ enters' = enters \cup {[of |-> watch.of, what |-> composer]} /\ composer' = {}
  /\ Decides("delivered")
  /\ UNCHANGED <<running, spoke, record, grants, relay, touched>>

\* No echo in time: the next settle is waited for, as long as attempts are left.
Retry ==
  /\ Watching /\ watch.pasted /\ ~watch.seen /\ watch.tries < Allowed(watch.of)
  /\ watch' = [watch EXCEPT !.pasted = FALSE]
  /\ UNCHANGED <<running, spoke, composer, deciding, record, grants, relay, enters, touched>>

\* The attempts are used up, or the whole handshake's deadline has passed.
GiveUp ==
  /\ Watching /\ ~Echoed
  /\ watch' = [NoWatch EXCEPT !.of = watch.of]
  /\ Decides("undelivered")
  /\ UNCHANGED <<running, spoke, composer, record, grants, relay, enters, touched>>

\* The verdict goes on the record under a second lock; a brief has a record of its own.
Record ==
  /\ \E d \in deciding :
       /\ record' = IF d.of = Brief THEN record ELSE d.outcome
       /\ deciding' = deciding \ {d}
  /\ UNCHANGED <<running, spoke, composer, watch, grants, relay, enters, touched>>

-----------------------------------------------------------------------------
\* The owner's grant: it replaces the one before it, is revoked, or expires.

Owner ==
  /\ grants' \in 0 .. MaxArm \ {grants}
  /\ UNCHANGED <<paneVars, relay>>

-----------------------------------------------------------------------------
\* session_message, the route.

Goes(r, pc)     == relay' = [relay EXCEPT ![r].pc = pc]
Answers(r, say) == relay' = [relay EXCEPT ![r].pc = "done", ![r].answer = say]

\* The project's gate, the pane's kind, the text and the grant: checked, and nothing taken.
Check(r) ==
  /\ relay[r].pc = "idle"
  /\ IF running /\ grants > 0 THEN Goes(r, "checked") ELSE Answers(r, "refused")
  /\ UNCHANGED <<paneVars, grants>>

\* message(): a pane that talks, was typed into, or has a handshake in flight is left alone.
MayAttach == running /\ spoke /\ watch.settled
Attach(r) ==
  /\ relay[r].pc = "checked" /\ MayAttach
  /\ watch' = Begun(r)
  /\ relay' = [relay EXCEPT ![r].pc = "typed", ![r].typed = TRUE]
  /\ UNCHANGED <<running, spoke, composer, deciding, record, grants, enters, touched>>

Turned(r) ==
  /\ relay[r].pc = "checked"
  /\ Answers(r, "refused")
  /\ UNCHANGED <<paneVars, grants>>

\* spend(): the grant is read again, and may be gone by now.
Spend(r) ==
  /\ relay[r].pc = "typed"
  /\ IF grants > 0 THEN grants' = grants - 1 /\ Goes(r, "waiting")
     ELSE grants' = grants /\ Answers(r, "refused")
  /\ UNCHANGED paneVars

\* wait_for_message: the door's record of the pane, until it says something or time is up.
Hear(r) ==
  /\ relay[r].pc = "waiting" /\ record # "none"
  /\ Answers(r, record)
  /\ UNCHANGED <<paneVars, grants>>

HearEnd(r) ==
  /\ relay[r].pc = "waiting" /\ record = "none" /\ ~running
  /\ Answers(r, "undelivered")
  /\ UNCHANGED <<paneVars, grants>>

StopWaiting(r) ==
  /\ relay[r].pc = "waiting" /\ record = "none"
  /\ Answers(r, "unresolved")
  /\ UNCHANGED <<paneVars, grants>>

Handshake == Paste \/ Submit \/ Retry \/ GiveUp
Service   == Handshake \/ Record
Route(r)  == Attach(r) \/ Turned(r) \/ Spend(r) \/ Hear(r) \/ HearEnd(r) \/ StopWaiting(r)

MessageNext ==
  \/ Output \/ Types \/ Exits \/ Service \/ Owner
  \/ \E r \in Relay : Check(r) \/ Route(r)

-----------------------------------------------------------------------------
MessageTypeOK ==
  /\ watch.of \in Line \cup {NoLine} /\ watch.tries \in 0 .. Attempts
  /\ composer \subseteq Line \cup {Person}
  /\ record \in {"none", "delivered", "undelivered"}
  /\ grants \in 0 .. MaxArm
  /\ \A r \in Relay : relay[r].answer \in {"none", "refused", "delivered", "undelivered", "unresolved"}

\* As long as nobody else touches the composer, the Enter of a handshake finds its line in it:
\* it is never pressed on a dialog that swallowed the paste.
EnterFindsItsLine == \A e \in enters : ~touched => e.of \in e.what

\* A caller that is told its line was delivered had it submitted: the record says nothing while the
\* handshake is in flight.
DeliveredMeansSubmitted ==
  \A r \in Relay : relay[r].answer = "delivered" => \E e \in enters : e.of = r

\* A caller that is refused can be certain that the pane was not touched.
RefusedMeansUntouched == \A r \in Relay : relay[r].answer = "refused" => ~relay[r].typed

\* A line that was answered as undelivered is in the composer for a person to look at, and no later
\* handshake submits it.
UndeliveredStaysUnsubmitted ==
  \A r \in Relay, e \in enters : relay[r].answer = "undelivered" /\ e.of # r => r \notin e.what

MessageSpec == MessageInit /\ [][MessageNext]_messageVars
=============================================================================
