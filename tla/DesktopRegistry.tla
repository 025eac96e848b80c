-------------------------- MODULE DesktopRegistry ---------------------------
(***************************************************************************)
(* The desktops attached to a workspace and the actions it asks of them    *)
(* (red-core: desktops.rs; red-host: desktops.rs, events.rs, routes.rs).   *)
(* A desktop registers on a socket; a caller asks one for an action and    *)
(* waits for the desktop to say that it took it.  The clients and the      *)
(* pending actions are under two locks, taken in steps of their own, so    *)
(* other callers, other sockets and the timeout come in between.           *)
(***************************************************************************)
EXTENDS Naturals, FiniteSets

CONSTANTS
  Socket,     \* connections to /events: each has a number of its own
  Call,       \* calls of act(), each with its request id
  Action,     \* what a caller may want: an action, of a desktop bound to a project
  Frames,     \* the registrations: the wants each says it can be asked
  NoDesk,     \* a socket on which no desktop has registered
  MaxMint     \* bound: registrations

VARIABLES
  desk,       \* clients: the desktop registered on each socket
  minted,     \* desktop ids made so far
  task,       \* where each socket's task is
  ending,     \* what that task holds: an acknowledgement, or a closed desktop's requests
  pending,    \* pending: the desktop each unanswered request is for
  call,       \* each caller of act()
  told, yes   \* history: the socket a request was said to, and what accepted it

deskVars == <<desk, minted, task, ending, pending, call, told, yes>>

Pending == {p.call : p \in pending}
Idle    == [pc |-> "idle", want |-> "none", id |-> 0, socket |-> NoDesk, answer |-> "none"]
NoEnd   == [calls |-> {}, accepts |-> FALSE]

DeskInit ==
  /\ desk = [s \in Socket |-> NoDesk] /\ minted = 0
  /\ task = [s \in Socket |-> "unborn"] /\ ending = [s \in Socket |-> NoEnd]
  /\ pending = {} /\ call = [c \in Call |-> Idle]
  /\ told = [c \in Call |-> NoDesk] /\ yes = {}

-----------------------------------------------------------------------------
\* A socket's own task: it registers, answers and closes one thing at a time.

Connect(s) ==
  /\ task[s] = "unborn"
  /\ task' = [task EXCEPT ![s] = "open"]
  /\ UNCHANGED <<desk, minted, ending, pending, call, told, yes>>

\* Mutant: a desktop gets a new id each time it registers.
IdentityAnew(s) == minted + 1

\* The id a socket was given first is kept: `id` counts only for a new entry.
Identity(s) == IF desk[s] = NoDesk THEN minted + 1 ELSE desk[s].id

Register(s) ==
  /\ task[s] = "open" /\ minted < MaxMint
  /\ \E can \in Frames : desk' = [desk EXCEPT ![s] = [id |-> Identity(s), can |-> can]]
  /\ minted' = minted + 1
  /\ UNCHANGED <<task, ending, pending, call, told, yes>>

\* Only the desktop that was asked may answer for a request; its id is known once it was said.
MayAnswer(s, c) == desk[s] # NoDesk /\ [call |-> c, desktop |-> desk[s].id] \in pending

Acknowledge(s) ==
  /\ task[s] = "open"
  /\ \E c \in Pending, accepts \in BOOLEAN :
       /\ told[c] # NoDesk /\ MayAnswer(s, c)
       /\ ending' = [ending EXCEPT ![s] = [calls |-> {c}, accepts |-> accepts]]
       /\ yes' = IF accepts THEN yes \cup {<<c, s>>} ELSE yes
  /\ task' = [task EXCEPT ![s] = "finishing"]
  /\ UNCHANGED <<desk, minted, pending, call, told>>

\* An entry leaves the table with the answer sent to the caller, who may be gone.
Settle(cs, answer) ==
  /\ pending' = {p \in pending : p.call \notin cs}
  /\ call' = [c \in Call |-> IF c \in cs \cap Pending /\ call[c].answer = "none"
                             THEN [call[c] EXCEPT !.answer = answer] ELSE call[c]]

Finish(s) ==
  /\ task[s] = "finishing"
  /\ Settle(ending[s].calls, IF ending[s].accepts THEN "accepted" ELSE "rejected")
  /\ task' = [task EXCEPT ![s] = "open"] /\ ending' = [ending EXCEPT ![s] = NoEnd]
  /\ UNCHANGED <<desk, minted, told, yes>>

\* disconnected(): the desktop goes first, what it was asked is looked up after.  Both are Forget:
\* a caller that enters a request between them is as one that entered it before.
Close(s) ==
  /\ task[s] = "open"
  /\ task' = [task EXCEPT ![s] = IF desk[s] = NoDesk THEN "closed" ELSE "closing"]
  /\ ending' = [ending EXCEPT ![s] = NoEnd]
  /\ UNCHANGED <<desk, minted, pending, call, told, yes>>

Forget(s) ==
  /\ task[s] = "closing"
  /\ desk' = [desk EXCEPT ![s] = NoDesk]
  /\ task' = [task EXCEPT ![s] = "sweeping"]
  /\ ending' = [ending EXCEPT ![s].calls = {p.call : p \in {q \in pending : q.desktop = desk[s].id}}]
  /\ UNCHANGED <<minted, pending, call, told, yes>>

Sweep(s) ==
  /\ task[s] = "sweeping"
  /\ Settle(ending[s].calls, "disconnected")
  /\ task' = [task EXCEPT ![s] = "closed"] /\ ending' = [ending EXCEPT ![s] = NoEnd]
  /\ UNCHANGED <<desk, minted, told, yes>>

-----------------------------------------------------------------------------
\* A caller: it finds the desktop, enters the request, says it and waits.

\* target(): the refusals, under the clients' lock with the pending lock inside it.
Target(want, id) ==
  {s \in Socket : /\ desk[s] # NoDesk /\ desk[s].id = id /\ want \in desk[s].can
                  /\ id \notin {p.desktop : p \in pending}}

Ask(c) ==
  /\ call[c].pc = "idle"
  /\ \E want \in Action, id \in {desk[s].id : s \in {t \in Socket : desk[t] # NoDesk}} :
       call' = [call EXCEPT ![c].pc = "asked", ![c].want = want, ![c].id = id]
  /\ UNCHANGED <<desk, minted, task, ending, pending, told, yes>>

Found(c)  == Target(call[c].want, call[c].id)
Refused(c) == [call EXCEPT ![c].pc = "done", ![c].answer = "refused"]

\* may(): a caller with work to do before it acts asks first whether it could.
May(c) ==
  /\ call[c].pc = "asked"
  /\ call' = IF Found(c) = {} THEN Refused(c) ELSE [call EXCEPT ![c].pc = "may"]
  /\ UNCHANGED <<desk, minted, task, ending, pending, told, yes>>

Act(c) ==
  /\ call[c].pc \in {"asked", "may"}
  /\ call' = IF Found(c) = {} THEN Refused(c)
             ELSE [call EXCEPT ![c].pc = "found", ![c].want = "none", ![c].socket = CHOOSE s \in Found(c) : TRUE]
  /\ UNCHANGED <<desk, minted, task, ending, pending, told, yes>>

Enter(c) ==
  /\ call[c].pc = "found"
  /\ pending' = pending \cup {[call |-> c, desktop |-> call[c].id]}
  /\ call' = [call EXCEPT ![c].pc = "entered"]
  /\ UNCHANGED <<desk, minted, task, ending, told, yes>>

\* The frame goes to the socket found, whatever has become of it.
Say(c) ==
  /\ call[c].pc = "entered"
  /\ told' = [told EXCEPT ![c] = call[c].socket]
  /\ call' = [call EXCEPT ![c].pc = "waiting"]
  /\ UNCHANGED <<desk, minted, task, ending, pending, yes>>

Answered(c) ==
  /\ call[c].pc = "waiting" /\ call[c].answer # "none"
  /\ call' = [call EXCEPT ![c].pc = "done"]
  /\ UNCHANGED <<desk, minted, task, ending, pending, told, yes>>

\* Mutant: only a caller whose desktop is gone times out.
TimedOutGone(c) ==
  /\ call[c].pc = "waiting" /\ call[c].answer = "none" /\ desk[call[c].socket] = NoDesk
  /\ call' = [call EXCEPT ![c].pc = "late", ![c].answer = "timeout"]
  /\ UNCHANGED <<desk, minted, task, ending, pending, told, yes>>

TimedOut(c) ==
  /\ call[c].pc = "waiting" /\ call[c].answer = "none"
  /\ call' = [call EXCEPT ![c].pc = "late", ![c].answer = "timeout"]
  /\ UNCHANGED <<desk, minted, task, ending, pending, told, yes>>

\* Mutant: a caller whose time is up leaves its entry behind.
WithdrawNothing(c) ==
  /\ call[c].pc = "late"
  /\ call' = [call EXCEPT ![c].pc = "done"]
  /\ UNCHANGED <<desk, minted, task, ending, pending, told, yes>>

Withdraw(c) ==
  /\ call[c].pc = "late"
  /\ pending' = {p \in pending : p.call # c}
  /\ call' = [call EXCEPT ![c].pc = "done"]
  /\ UNCHANGED <<desk, minted, task, ending, told, yes>>

SocketStep(s) ==
  \/ Connect(s) \/ Register(s) \/ Acknowledge(s) \/ Finish(s)
  \/ Close(s) \/ Forget(s) \/ Sweep(s)
CallerStep(c) == May(c) \/ Act(c) \/ Enter(c) \/ Say(c) \/ Answered(c) \/ TimedOut(c) \/ Withdraw(c)

DeskNext == (\E s \in Socket : SocketStep(s)) \/ (\E c \in Call : Ask(c) \/ CallerStep(c))

-----------------------------------------------------------------------------
DeskTypeOK ==
  /\ desk \in [Socket -> {NoDesk} \cup [id : 1 .. MaxMint, can : SUBSET Action]]
  /\ minted \in 0 .. MaxMint
  /\ pending \subseteq [call : Call, desktop : 1 .. MaxMint]
  /\ \A c \in Call : call[c].answer \in
       {"none", "refused", "accepted", "rejected", "disconnected", "timeout"}

\* Accepted is said only of a request that the desktop it went to has accepted: neither another
\* socket that knows the request id, nor an answer to an earlier request, can make it so.
AcceptedByTheOneAsked ==
  \A c \in Call : call[c].answer = "accepted" => told[c] # NoDesk /\ <<c, told[c]>> \in yes

\* Every entry of the pending table has a caller that still waits for it and will take it out, and
\* the desktop it was said to can still answer it, also when it registers again meanwhile.  An
\* entry left behind would make its desktop refuse every later action as already pending.
PendingIsAnswerable ==
  \A p \in pending :
    /\ call[p.call].pc \in {"entered", "waiting", "late"}
    /\ told[p.call] # NoDesk /\ task[told[p.call]] = "open" => desk[told[p.call]].id = p.desktop

\* Both: what is on the table is between one caller and one desktop, from Enter to Settle.
OneCallerOneDesktop == AcceptedByTheOneAsked /\ PendingIsAnswerable

\* Every caller is answered: by the desktop, by its socket closing, or by the timeout.
CallsEnd == \A c \in Call : (call[c].pc # "idle") ~> (call[c].pc = "done")

DeskFairness == \A c \in Call : WF_deskVars(CallerStep(c))
DeskSpec == DeskInit /\ [][DeskNext]_deskVars /\ DeskFairness
=============================================================================
