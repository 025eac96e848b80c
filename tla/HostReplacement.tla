--------------------------- MODULE HostReplacement ---------------------------
(***************************************************************************)
(* Replacing the session host of a state directory (red-supervisor:        *)
(* replace.rs, stop.rs, host.rs).  The process table is read once; by it,  *)
(* and by the descriptors, the supervisors of the host, the host and its   *)
(* children are stopped one after the other, but for the services that     *)
(* belong to the directory, and the next host is started.  Meanwhile       *)
(* processes end, pids are given away again and another launcher may run.  *)
(***************************************************************************)
EXTENDS Naturals, FiniteSets, Sequences

CONSTANTS
  Pid,            \* pids, some of them named by who has them first
  Nobody,         \* no parent that matters, no descriptor
  MaxEvents       \* bound: processes that end or start by themselves meanwhile

VARIABLES
  proc,           \* the processes, by pid
  sidecar,        \* the pid that sidecar.json names
  runtimes,       \* the pids that the runtime descriptors of this host's instance name
  published,      \* the services whose descriptor, pty.json or store.json, names them
  table,          \* the process table the replacement has read
  step, found, todo, \* what the replacement does, the host it found, the pids it still stops
  signalled,      \* history: the processes that were sent a signal
  events, reused, \* history: what happened meanwhile, and whether a listed pid was given away
  forgot          \* history: a descriptor was removed that names a live host

replaceVars == <<proc, sidecar, runtimes, published, table, step, found, todo, signalled, events, reused, forgot>>

Free == [what |-> "none", of |-> "none", parent |-> Nobody]
Is(what, of, parent) == [what |-> what, of |-> of, parent |-> parent]

\* A workspace that runs, from inside which or outside which the launcher was called; the supervisor
\* of another one, at a pid that a runtime descriptor of this one may still name, as none may name
\* its own; and services whose first host is gone, with or without a descriptor that can be read.
World(host, whose, ptys, inside) ==
  [p \in Pid |->
     CASE p = "host"   -> Is(host, whose, Nobody)     [] p = "supervisor" -> Is("supervisor", "ours", Nobody)
       [] p = "worker" -> Is("worker", "ours", "supervisor") [] p = "tool" -> Is("tool", "ours", IF host = "host" /\ whose = "ours" THEN "host" ELSE Nobody)
       [] p = "pty"    -> Is("service", "ours", ptys) [] p = "launcher" -> Is("launcher", "none", inside)
       [] p = "foreign" -> Is("supervisor", "theirs", Nobody) [] OTHER -> Free]
Worlds == {World(host, whose, ptys, inside) :
             host \in {"host", "program", "none"}, whose \in {"ours", "theirs"},
             ptys \in {"host", Nobody}, inside \in {"pty", Nobody}}

ReplaceInit ==
  /\ proc \in Worlds /\ sidecar \in IF proc["host"] = Is("host", "ours", Nobody) THEN {"host"} ELSE {"host", Nobody}
  /\ runtimes \in SUBSET {"supervisor", "foreign"} /\ published \in SUBSET {"pty"}
  /\ table = [p \in Pid |-> Free] /\ step = "list" /\ found = Nobody /\ todo = <<>>
  /\ signalled = {} /\ events = 0 /\ reused = FALSE /\ forgot = FALSE

Alive(p)  == p # Nobody /\ proc[p].what # "none"
Hosts     == {p \in Pid : proc[p].what = "host" /\ proc[p].of = "ours"}
Orphans(q, p) == [c \in Pid |-> IF q[c].parent = p THEN [q[c] EXCEPT !.parent = Nobody] ELSE q[c]]
Without(p) == Orphans([proc EXCEPT ![p] = Free], p)

-----------------------------------------------------------------------------
\* The world: processes end, start, and take pids that were used before.

Ends(p) ==
  /\ Alive(p) /\ p # "launcher" /\ events < MaxEvents
  /\ proc' = Without(p) /\ events' = events + 1
  /\ UNCHANGED <<sidecar, runtimes, published, table, step, found, todo, signalled, reused, forgot>>

Born(p, q) ==
  /\ ~Alive(p) /\ events < MaxEvents
  /\ proc' = [proc EXCEPT ![p] = q] /\ events' = events + 1
  /\ reused' = (reused \/ table[p].what # "none")

Reuses(p) ==
  /\ Born(p, Is("program", "theirs", Nobody))
  /\ UNCHANGED <<sidecar, runtimes, published, table, step, found, todo, signalled, forgot>>

\* A supervisor replaces a worker that ended, as long as it runs.
Recovers(p, s) ==
  /\ Alive(s) /\ proc[s] = Is("supervisor", "ours", Nobody)
  /\ Born(p, Is("worker", "ours", s))
  /\ UNCHANGED <<sidecar, runtimes, published, table, step, found, todo, signalled, forgot>>

\* Another launcher finds that nobody serves the directory.
RivalStarts(p) ==
  /\ step # "list" /\ (sidecar = Nobody \/ ~Alive(sidecar))
  /\ Born(p, Is("host", "ours", Nobody)) /\ sidecar' = p
  /\ UNCHANGED <<runtimes, published, table, step, found, todo, signalled, forgot>>

-----------------------------------------------------------------------------
\* What the table says.

\* ancestors_of(): parent after parent, as far as the table goes; it is no longer than the table.
Parents(t, ps) == {t[p].parent : p \in {q \in ps : t[q].what # "none"}} \ {Nobody}
Ancestors(t) ==
  LET up[n \in 0 .. Cardinality(Pid)] == IF n = 0 THEN Parents(t, {"launcher"}) ELSE up[n - 1] \cup Parents(t, up[n - 1])
  IN  up[Cardinality(Pid)]
InsideHost(t, h) == h \in Ancestors(t)

\* A runtime descriptor names its host's instance and a pid, and that pid must be a supervisor's: by
\* its command, which says nothing of the workspace it supervises.
Supervisors == {p \in runtimes : table[p].what = "supervisor"}
ChildrenOf(p) == {c \in Pid : table[c].what # "none" /\ table[c].parent = p}

\* A set of processes one after the other, as the table and the descriptors happen to list them.
Listing(S) == {q \in [1 .. Cardinality(S) -> S] : \A p \in S : \E i \in DOMAIN q : q[i] = p}

\* Every supervisor with its children after it, and the host last.
Group(p) == IF p \in Supervisors THEN p ELSE table[p].parent
StopOrder(host) ==
  {q \in Listing({host} \cup Supervisors \cup UNION {ChildrenOf(s) : s \in Supervisors}) :
     /\ q[Len(q)] = host
     /\ \A i, j \in DOMAIN q : i < j => Group(q[i]) # q[j]
     /\ \A i, j \in DOMAIN q : \A k \in i .. j : Group(q[i]) = Group(q[j]) => Group(q[k]) = Group(q[i])}

\* ps that does not run, and a sidecar.json or a descriptor that cannot be read, are refusals.
Lists ==
  /\ step = "list"
  /\ \/ table' = proc /\ step' = "find"
     \/ table' = table /\ step' = "refused"
  /\ UNCHANGED <<proc, sidecar, runtimes, published, found, todo, signalled, events, reused, forgot>>

\* find_host() and the refusals that come before the first signal.
Finds ==
  /\ step = "find" /\ found' = sidecar
  /\ \/ step' = "refused" /\ todo' = todo
     \/ IF sidecar = Nobody THEN step' = "start" /\ todo' = todo
        ELSE IF table[sidecar].what = "none" \/ ~Alive(sidecar) THEN step' = "forget" /\ todo' = todo
        ELSE IF table[sidecar].what # "host" \/ table[sidecar].of # "ours" \/ InsideHost(table, sidecar)
        THEN step' = "refused" /\ todo' = todo
        ELSE step' = "stop" /\ todo' \in StopOrder(sidecar)
  /\ UNCHANGED <<proc, sidecar, runtimes, published, table, signalled, events, reused, forgot>>

\* stop_process(): SIGTERM, a while, SIGKILL; nothing at a pid that is gone.
Signals(p) == signalled' = signalled \cup {proc[p]}
Terminates ==
  /\ step \in {"stop", "sweep"} /\ todo # <<>>
  /\ LET p == Head(todo) IN
     IF ~Alive(p) THEN todo' = Tail(todo) /\ UNCHANGED <<proc, step, signalled>>
     ELSE /\ Signals(p)
          /\ \/ proc' = Without(p) /\ todo' = Tail(todo) /\ step' = step
             \/ proc' = proc /\ todo' = todo /\ step' = IF step = "stop" THEN "stop-kill" ELSE "sweep-kill"
  /\ UNCHANGED <<sidecar, runtimes, published, table, found, events, reused, forgot>>

Kills ==
  /\ step \in {"stop-kill", "sweep-kill"} /\ todo # <<>>
  /\ LET p == Head(todo)
         on == IF step = "stop-kill" THEN "stop" ELSE "sweep" IN
     IF ~Alive(p) THEN todo' = Tail(todo) /\ step' = on /\ UNCHANGED <<proc, signalled>>
     ELSE /\ Signals(p)
          /\ \/ proc' = Without(p) /\ todo' = Tail(todo) /\ step' = on
             \/ proc' = proc /\ todo' = <<>> /\ step' = "refused"
  /\ UNCHANGED <<sidecar, runtimes, published, table, found, events, reused, forgot>>

\* Mutant: every child goes with its host.
RetainedNone == {}

\* The directory's PTY service and store are left running, as far as their descriptors name them: one
\* that is missing or torn spares nobody, one that cannot be read ends the replacement here.
Retained == {p \in published : Alive(p)}
Spares ==
  /\ step = "stop" /\ todo = <<>>
  /\ \/ todo' \in Listing(ChildrenOf(found) \ Retained) /\ step' = "sweep"
     \/ todo' = todo /\ step' = "refused"
  /\ UNCHANGED <<proc, sidecar, runtimes, published, table, found, signalled, events, reused, forgot>>

\* The port is watched until it refuses.
Watches ==
  /\ step = "sweep" /\ todo = <<>>
  /\ step' \in {"forget", "refused"}
  /\ UNCHANGED <<proc, sidecar, runtimes, published, table, found, todo, signalled, events, reused, forgot>>

ForgetsSidecar ==
  /\ step = "forget"
  /\ forgot' = (forgot \/ Alive(sidecar))
  /\ sidecar' = Nobody /\ step' = "start"
  /\ UNCHANGED <<proc, runtimes, published, table, found, todo, signalled, events, reused>>

\* host::ensure(): the one that serves, or a new one, which may not start.
Ensures ==
  /\ step = "start" /\ step' \in {"done", "refused"}
  /\ IF Alive(sidecar) \/ step' = "refused" THEN proc' = proc /\ sidecar' = sidecar
     ELSE \E p \in Pid : /\ ~Alive(p)
                         /\ proc' = [proc EXCEPT ![p] = Is("host", "ours", Nobody)] /\ sidecar' = p
  /\ UNCHANGED <<runtimes, published, table, found, todo, signalled, events, reused, forgot>>

Replaces == Lists \/ Finds \/ Terminates \/ Kills \/ Spares \/ Watches \/ ForgetsSidecar \/ Ensures
ReplaceNext ==
  \/ Replaces
  \/ \E p \in Pid : Ends(p) \/ Reuses(p) \/ RivalStarts(p) \/ \E s \in Pid : Recovers(p, s)

-----------------------------------------------------------------------------
ReplaceTypeOK ==
  /\ sidecar \in Pid \cup {Nobody} /\ todo \in Seq(Pid) /\ events \in 0 .. MaxEvents
  /\ \A p \in Pid : proc[p].parent \in Pid \cup {Nobody}

\* Nothing is signalled but this host, the supervisors its runtime descriptors name, and the workers
\* and tools that are their children: no service of the directory that its descriptor names, nothing
\* of another workspace and never the launcher, unless a pid was given away after the table was read.
\* What a descriptor names may be another workspace's supervisor, at the pid of one of ours that is
\* gone: that one is stopped.
Strayed == \E p \in Supervisors : table[p].of # "ours"
OnlyItsOwn ==
  ~reused => \A q \in signalled :
    \/ q.of = "ours" /\ q.what \in {"host", "supervisor", "worker", "tool"}
    \/ q.what = "service" /\ published = {}
    \/ q.what = "supervisor" /\ Strayed

\* A replacement that is done leaves one host, and none of the supervisors, workers and tools it
\* listed of the one before, unless it removed the descriptor of a host that another launcher had
\* just started.
Leaves == (UNION {ChildrenOf(s) : s \in Supervisors}) \cup {c \in ChildrenOf(found) : table[c].what = "tool"}
OneHostLeft ==
  step = "done" /\ ~forgot /\ ~reused =>
    /\ Cardinality(Hosts) <= 1
    /\ signalled # {} => \A p \in Supervisors \cup Leaves : proc[p].what # table[p].what
OneHost == step = "done" => Cardinality(Hosts) <= 1

\* Every refusal comes before the first signal.
RefusedUntouched == step = "refused" => signalled = {}

ReplaceSpec == ReplaceInit /\ [][ReplaceNext]_replaceVars
=============================================================================
