---------------------------- MODULE TrackerGrant ----------------------------
(***************************************************************************)
(* The browser sign-in of a project's tracker and the grant it stores      *)
(* (red-worker: signin.rs, bin/red_worker.rs; red-project:                 *)
(* tracker_auth.rs).  A sign-in listens on one of a few registered ports   *)
(* until the browser comes back with a code, another sign-in or a sign-out *)
(* ends it, or its deadline passes.  What ends it sets a flag and knocks on *)
(* the port: the flag is looked at when a connection is accepted, and not  *)
(* again.  Readers of the tracker refresh the stored grant, and none of    *)
(* them knows of the others.                                               *)
(*                                                                         *)
(* A grant is named by the sign-in it goes back to, refreshed or not.      *)
(***************************************************************************)
EXTENDS Naturals

CONSTANTS
  SignIn, SignOut, Reader,   \* requests of each kind
  Ports,                     \* the registered ports are 1..Ports, tried in this order
  None

VARIABLES
  flow,       \* each sign-in: what its threads do, and its port
  ended,      \* sign-ins that were told to end
  held,       \* held: the sign-in in flight, as the worker knows it
  leaving,    \* each sign-out
  reading,    \* each reader: what it does and the grant it holds
  file,       \* the stored grant, or None
  expected    \* history: whose grant may be stored since the file was last emptied
grantVars == <<flow, ended, held, leaving, reading, file, expected>>

NoFlow == [pc |-> "idle", port |-> 0]

GrantInit ==
  /\ flow = [s \in SignIn |-> NoFlow] /\ ended = {} /\ held = None
  /\ leaving = [o \in SignOut |-> "idle"] /\ reading = [r \in Reader |-> [pc |-> "idle", grant |-> None]]
  /\ file \in {None, "earlier"} /\ expected = {"earlier"}

Free == {p \in 1..Ports : \A s \in SignIn : flow[s].port # p}
Closed(s) == [flow EXCEPT ![s].pc = "closed", ![s].port = 0]

\* cancel(): take what is held and tell it to end.
Cancels == ended' = IF held = None THEN ended ELSE ended \cup {held}

(* A sign-in: cancel the one held, bind a port, become the one held. *)
Begin(s) ==
  /\ flow[s].pc = "idle" /\ flow' = [flow EXCEPT ![s].pc = "begun"]
  /\ Cancels /\ held' = None /\ expected' = expected \cup {s}
  /\ UNCHANGED <<leaving, reading, file>>

Bind(s) ==
  /\ flow[s].pc = "begun"
  /\ flow' = IF Free = {} THEN [flow EXCEPT ![s].pc = "closed"]
             ELSE [flow EXCEPT ![s].pc = "bound", ![s].port = CHOOSE p \in Free : \A q \in Free : p <= q]
  /\ UNCHANGED <<ended, held, leaving, reading, file, expected>>

Hold(s) ==
  /\ flow[s].pc = "bound" /\ flow' = [flow EXCEPT ![s].pc = "listening"] /\ held' = s
  /\ UNCHANGED <<ended, leaving, reading, file, expected>>

(* Its listener: it accepts a connection, unless it was told to end, reads what is asked, and *)
(* exchanges and stores the grant of a code.  The read has no limit, and whoever connected    *)
(* may never say anything.                                                                     *)
\* Mutant: a listener that was told to end still takes who connects.
AcceptsAnyway(s) ==
  /\ flow[s].pc = "listening"
  /\ \E pc \in {"reading", "silent"} : flow' = [flow EXCEPT ![s].pc = pc]
  /\ UNCHANGED <<ended, held, leaving, reading, file, expected>>

Accepts(s) ==
  /\ flow[s].pc = "listening" /\ s \notin ended
  /\ \E pc \in {"reading", "silent"} : flow' = [flow EXCEPT ![s].pc = pc]
  /\ UNCHANGED <<ended, held, leaving, reading, file, expected>>

Asked(s) == flow[s].pc \in {"reading", "silent"}

\* Another path, another sign-in's state, or nothing before it is closed: it listens on.
Refused(s) ==
  /\ Asked(s) /\ flow' = [flow EXCEPT ![s].pc = "listening"]
  /\ UNCHANGED <<ended, held, leaving, reading, file, expected>>

Declined(s) ==
  /\ Asked(s) /\ flow' = Closed(s) /\ ended' = ended \cup {s}
  /\ UNCHANGED <<held, leaving, reading, file, expected>>

Code(s) ==
  /\ Asked(s) /\ flow' = [flow EXCEPT ![s].pc = "exchanging"]
  /\ UNCHANGED <<ended, held, leaving, reading, file, expected>>

Exchange(s) ==
  /\ flow[s].pc = "exchanging" /\ flow' = [flow EXCEPT ![s].pc = "granted"]
  /\ UNCHANGED <<ended, held, leaving, reading, file, expected>>

Stores(s) ==
  /\ flow[s].pc = "granted" /\ flow' = Closed(s) /\ ended' = ended \cup {s}
  /\ file' = s
  /\ UNCHANGED <<held, leaving, reading, expected>>

\* The provider refuses the code, or the file cannot be written.
Fails(s) ==
  /\ flow[s].pc \in {"exchanging", "granted"} /\ flow' = Closed(s) /\ ended' = ended \cup {s}
  /\ UNCHANGED <<held, leaving, reading, file, expected>>

\* The knock, or who connected after it, is accepted: the port is given back.
Woken(s) ==
  /\ flow[s].pc = "listening" /\ s \in ended /\ flow' = Closed(s)
  /\ UNCHANGED <<ended, held, leaving, reading, file, expected>>

Serves(s) == flow[s].pc \in {"listening", "reading", "silent", "exchanging", "granted"}

\* Mutant: the deadline ends the sign-in that is held.
DeadlineOfHeld(s) ==
  /\ held = s /\ Serves(s) /\ s \notin ended /\ ended' = ended \cup {s}
  /\ UNCHANGED <<flow, held, leaving, reading, file, expected>>

Deadline(s) ==
  /\ Serves(s) /\ s \notin ended /\ ended' = ended \cup {s}
  /\ UNCHANGED <<flow, held, leaving, reading, file, expected>>

(* A sign-out: cancel, tell the provider of the stored grant, empty the file. *)
Leave(o) ==
  /\ leaving[o] = "idle" /\ leaving' = [leaving EXCEPT ![o] = "revoking"] /\ Cancels /\ held' = None
  /\ UNCHANGED <<flow, reading, file, expected>>

\* Told to end, and nothing that connected is being served.
AtRest(s) == flow[s].pc \in {"idle", "closed"} \/ (flow[s].pc = "listening" /\ s \in ended)
InRefresh == {r \in Reader : reading[r].pc \in {"refreshing", "refreshed"}}

Forget(o) ==
  /\ leaving[o] = "revoking" /\ leaving' = [leaving EXCEPT ![o] = "done"]
  /\ \/ /\ file' = None
        /\ expected' = {s \in SignIn : ~AtRest(s)} \cup {reading[r].grant : r \in InRefresh}
     \/ UNCHANGED <<file, expected>>
  /\ UNCHANGED <<flow, ended, held, reading>>

(* A reader of the tracker: it reads the grant and, near its end, has it refreshed and writes *)
(* back what it was given; a refresh that fails leaves the file as it is.                      *)
Read(r) ==
  /\ reading[r].pc = "idle"
  /\ \E pc \in (IF file = None THEN {"done"} ELSE {"done", "refreshing"}) :
       reading' = [reading EXCEPT ![r] = [pc |-> pc, grant |-> file]]
  /\ UNCHANGED <<flow, ended, held, leaving, file, expected>>

Refresh(r) ==
  /\ reading[r].pc = "refreshing"
  /\ \E pc \in {"refreshed", "done"} : reading' = [reading EXCEPT ![r].pc = pc]
  /\ UNCHANGED <<flow, ended, held, leaving, file, expected>>

WriteBack(r) ==
  /\ reading[r].pc = "refreshed" /\ reading' = [reading EXCEPT ![r].pc = "done"]
  /\ file' \in {file, reading[r].grant}
  /\ UNCHANGED <<flow, ended, held, leaving, expected>>

Comes(s) == Refused(s) \/ Declined(s) \/ Code(s)
Listener(s) == \/ Stores(s) \/ Fails(s) \/ Exchange(s) \/ Woken(s)
               \/ flow[s].pc = "reading" /\ Comes(s)
GrantNext ==
  \/ \E s \in SignIn : \/ Begin(s) \/ Bind(s) \/ Hold(s) \/ Accepts(s) \/ Comes(s)
                       \/ Exchange(s) \/ Stores(s) \/ Fails(s) \/ Woken(s) \/ Deadline(s)
  \/ \E o \in SignOut : Leave(o) \/ Forget(o)
  \/ \E r \in Reader : Read(r) \/ Refresh(r) \/ WriteBack(r)

\* The threads of a sign-in go on; its calls to the provider come back, within the limits they
\* have; its deadline passes.  A connection that is silent is owed nothing.
GrantFairness == \A s \in SignIn :
  WF_grantVars(Bind(s)) /\ WF_grantVars(Hold(s)) /\ WF_grantVars(Listener(s)) /\ WF_grantVars(Deadline(s))
GrantSpec == GrantInit /\ [][GrantNext]_grantVars /\ GrantFairness

(***************************************************************************)
(* Properties                                                              *)
(***************************************************************************)
\* Once a sign-out has emptied the file, what is stored there is only ever the grant of a sign-in
\* that began after it, or of one whose listener was serving a connection, or was yet to be
\* cancelled, or whose grant a reader was refreshing, while the file was emptied.
SignedOutUnlessRaced == file # None => file \in expected

\* A registered port is given back whatever becomes of the sign-in that took it, unless its
\* listener is left reading from a connection that says nothing: no deadline ends that.
PortsComeBack == \A s \in SignIn : flow[s].port # 0 ~> flow[s].port = 0 \/ flow[s].pc = "silent"
=============================================================================
