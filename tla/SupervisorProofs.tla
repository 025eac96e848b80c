-------------------------- MODULE SupervisorProofs --------------------------
(***************************************************************************)
(* Proofs about the parts of MCServices that are the supervisor's: the     *)
(* host it replaces, the letters between its windows and the desktop       *)
(* window it manages, for every number of processes, senders, callers and  *)
(* events.  Each part has an inductive invariant of its own; a step of     *)
(* another part leaves it alone.                                           *)
(***************************************************************************)
EXTENDS MCServices, FiniteSetTheorems, SequenceTheorems, TLAPS
LEMMA TailIs ==
  ASSUME NEW S, NEW s \in Seq(S), s # <<>>
  PROVE  /\ Tail(s) \in Seq(S) /\ Head(s) \in S /\ Head(s) = s[1] /\ 1 \in DOMAIN s
         /\ \A i \in DOMAIN Tail(s) : i \in Nat /\ 1 < i + 1 /\ i + 1 \in DOMAIN s /\ Tail(s)[i] = s[i + 1]
<1>. DEFINE h == Tail(s)
<1>1. h \in Seq(S) /\ Len(h) = Len(s) - 1 /\ Head(s) \in S /\ \A i \in 1 .. Len(h) : h[i] = s[i + 1]
  BY HeadTailProperties
<1>2. Len(s) \in Nat \ {0}
  BY EmptySeq
<1>3. DOMAIN s = 1 .. Len(s) /\ Head(s) = s[1]
  BY <1>2
<1>. HIDE DEF h
<1>4. DOMAIN h = 1 .. Len(h)
  BY <1>1
<1>5. 1 \in DOMAIN s
  BY <1>2, <1>3
<1>6. \A i \in DOMAIN h : i \in Nat /\ 1 < i + 1 /\ i + 1 \in DOMAIN s /\ h[i] = s[i + 1]
  BY <1>1, <1>2, <1>3, <1>4
<1>. QED
  BY <1>1, <1>3, <1>5, <1>6 DEF h

LEMMA TailHas ==
  ASSUME NEW S, NEW s \in Seq(S), s # <<>>
  PROVE  \A i \in DOMAIN s : i = 1 \/ \E j \in DOMAIN Tail(s) : Tail(s)[j] = s[i]
<1>1. Len(s) \in Nat \ {0} /\ DOMAIN s = 1 .. Len(s)
  BY EmptySeq
<1>2. Tail(s) \in Seq(S) /\ Len(Tail(s)) = Len(s) - 1 /\ \A i \in 1 .. Len(Tail(s)) : Tail(s)[i] = s[i + 1]
  BY HeadTailProperties
<1>3. DOMAIN Tail(s) = 1 .. Len(s) - 1
  BY <1>1, <1>2
<1>4. ASSUME NEW i \in DOMAIN s, i # 1 PROVE i - 1 \in DOMAIN Tail(s) /\ Tail(s)[i - 1] = s[i]
  BY <1>1, <1>2, <1>3, <1>4
<1>. QED
  BY <1>4

-----------------------------------------------------------------------------
\* HostReplacement: what is stopped is what the table listed, and one host is left.

Process == [what : {"none", "host", "program", "supervisor", "worker", "tool", "service", "launcher"},
            of : {"none", "ours", "theirs"}, parent : Pid \cup {Nobody}]

ReplaceTyped ==
  /\ proc \in [Pid -> Process] /\ table \in [Pid -> Process]
  /\ sidecar \in Pid \cup {Nobody} /\ found \in Pid \cup {Nobody} /\ todo \in Seq(Pid)
  /\ step \in {"list", "find", "stop", "stop-kill", "sweep", "sweep-kill", "forget", "start", "refused", "done"}
  /\ reused \in BOOLEAN /\ forgot \in BOOLEAN
  /\ runtimes \in SUBSET {"supervisor", "foreign"} /\ published \in SUBSET {"pty"}

\* Whose child each process is, that a worker's supervisor runs, and that nobody starts a service or a tool.
Families(q) ==
  \A p \in Pid :
    /\ q[p].what = "supervisor" /\ q[p].of = "ours" => p = "supervisor"
    /\ (q[p].what = "service" => p = "pty") /\ (q[p].what = "tool" => p = "tool")
    /\ q[p].parent # Nobody =>
         \/ /\ q[p].what = "worker" /\ q[p].of = "ours" /\ q[p].parent = "supervisor"
            /\ q["supervisor"].what = "supervisor" /\ q["supervisor"].of = "ours"
         \/ q[p].what \in {"tool", "service"} /\ q[p].of = "ours" /\ q[p].parent = "host"
         \/ q[p].what = "launcher" /\ q[p].parent = "pty"
OneHostIn(q) == \A p \in Pid : q[p].what = "host" /\ q[p].of = "ours" => p = "host"

\* A listed process is what it was or gone, as long as no listed pid is given away; what still
\* waits to be stopped may be stopped, and what has been waited for is gone.
Own(r) ==
  \/ r.of = "ours" /\ r.what \in {"host", "supervisor", "worker", "tool"}
  \/ r.what = "service" /\ published = {}
  \/ r.what = "supervisor" /\ Replace!Strayed
Gone(p)    == proc[p].what # table[p].what
Awaits(p)  == \E i \in DOMAIN todo : todo[i] = p
Stopped    == Replace!Supervisors \cup UNION {Replace!ChildrenOf(s) : s \in Replace!Supervisors}
Swept      == {p \in Pid : table[p].what = "tool" /\ table[p].parent = "host"}
Track ==
  /\ step # "done" => \A p \in Pid : table[p].what # "none" /\ proc[p].what # "none" =>
                                       proc[p].what = table[p].what /\ proc[p].of = table[p].of
  /\ \A q \in signalled : Own(q)
  /\ step \in {"stop", "stop-kill", "sweep", "sweep-kill"} =>
       \A i \in DOMAIN todo : table[todo[i]].what # "none" /\ (Own(table[todo[i]]) \/ proc[todo[i]].what = "none")
  /\ step \in {"stop", "stop-kill"} => \A p \in Stopped : Gone(p) \/ Awaits(p)
  /\ step \in {"sweep", "sweep-kill"} => (\A p \in Stopped : Gone(p)) /\ \A p \in Swept : Gone(p) \/ Awaits(p)
  /\ step \in {"forget", "start", "done"} =>
       signalled = {} \/ (found = "host" /\ \A p \in Stopped \cup Swept : Gone(p))

ReplaceInv ==
  /\ ReplaceTyped /\ Families(proc) /\ Families(table) /\ OneHostIn(table)
  /\ ~forgot => Replace!Hosts \subseteq {sidecar}
  /\ step = "list" => OneHostIn(proc) /\ \A p \in Pid : table[p].what = "none"
  /\ step \in {"list", "find"} => signalled = {}
  /\ step \in {"stop", "stop-kill", "sweep", "sweep-kill"} => found = "host"
  /\ ~reused => Track

LEMMA ReplaceBegins ==
  ASSUME Replace!ReplaceInit
  PROVE  ReplaceInv
<1>. USE ProcessConstants
<1>0. proc \in Replace!Worlds
  BY DEF Replace!ReplaceInit
<1>. PICK host \in {"host", "program", "none"}, whose \in {"ours", "theirs"}, ptys \in {"host", Nobody}, inside \in {"pty", Nobody} :
       proc = Replace!World(host, whose, ptys, inside)
  BY <1>0, SMTT(20) DEF Replace!Worlds
<1>1. /\ proc["host"] = [what |-> host, of |-> whose, parent |-> Nobody]
      /\ proc["supervisor"] = [what |-> "supervisor", of |-> "ours", parent |-> Nobody]
      /\ proc["worker"] = [what |-> "worker", of |-> "ours", parent |-> "supervisor"]
      /\ \E t \in {"host", Nobody} : proc["tool"] = [what |-> "tool", of |-> "ours", parent |-> t]
      /\ proc["pty"] = [what |-> "service", of |-> "ours", parent |-> ptys]
      /\ proc["launcher"] = [what |-> "launcher", of |-> "none", parent |-> inside]
      /\ proc["foreign"] = [what |-> "supervisor", of |-> "theirs", parent |-> Nobody]
      /\ \A p \in Pid \ {"host", "supervisor", "worker", "tool", "pty", "launcher", "foreign"} :
           proc[p] = [what |-> "none", of |-> "none", parent |-> Nobody]
  BY DEF Replace!World, Replace!Is, Replace!Free
<1>2. DOMAIN proc = Pid /\ \A p \in Pid : proc[p] \in Process
  BY <1>1 DEF Process, Replace!World
<1>3. proc \in [Pid -> Process]
  <2>1. proc = [p \in Pid |-> proc[p]]
    BY DEF Replace!World
  <2>. QED
    BY <1>2, <2>1
<1>4. Families(proc) /\ OneHostIn(proc)
  BY <1>1 DEF Families, OneHostIn
<1>5. /\ table = [p \in Pid |-> Replace!Free] /\ step = "list" /\ found = Nobody /\ todo = <<>>
      /\ signalled = {} /\ reused = FALSE /\ forgot = FALSE
      /\ sidecar \in {"host", Nobody} /\ (proc["host"] = Replace!Is("host", "ours", Nobody) => sidecar = "host")
  BY DEF Replace!ReplaceInit
<1>6. table \in [Pid -> Process] /\ \A p \in Pid : table[p].what = "none" /\ table[p].parent = Nobody
  BY <1>5 DEF Replace!Free, Process
<1>7. ReplaceTyped
  <2>1. sidecar \in Pid \cup {Nobody} /\ found \in Pid \cup {Nobody}
    BY <1>5
  <2>2. todo \in Seq(Pid)
    BY <1>5
  <2>3. reused \in BOOLEAN /\ forgot \in BOOLEAN
    BY <1>5, Zenon
  <2>4. runtimes \in SUBSET {"supervisor", "foreign"} /\ published \in SUBSET {"pty"}
    BY DEF Replace!ReplaceInit
  <2>. QED
    BY <1>3, <1>5, <1>6, <2>1, <2>2, <2>3, <2>4 DEF ReplaceTyped
<1>8. Families(table) /\ OneHostIn(table)
  BY <1>6 DEF Families, OneHostIn
<1>9. Replace!Hosts \subseteq {sidecar}
  BY <1>1, <1>2, <1>4, <1>5 DEF OneHostIn, Replace!Hosts, Replace!Is
<1>10. Track
  BY <1>5, <1>6 DEF Track
<1>. QED
  BY <1>4, <1>5, <1>6, <1>7, <1>8, <1>9, <1>10 DEF ReplaceInv

\* What a process that ends leaves behind.
LEMMA WithoutIs ==
  ASSUME ReplaceTyped, Families(proc), NEW p \in Pid
  PROVE  LET q == Replace!Without(p) IN
         /\ q \in [Pid -> Process] /\ Families(q) /\ q[p].what = "none"
         /\ \A c \in Pid \ {p} : q[c].what = proc[c].what /\ q[c].of = proc[c].of
<1>. USE ProcessConstants
<1>. DEFINE q == Replace!Without(p)
<1>1. q = [c \in Pid |-> IF c # p /\ proc[c].parent = p THEN [proc[c] EXCEPT !.parent = Nobody]
                         ELSE IF c = p THEN Replace!Free ELSE proc[c]]
  <2>1. Replace!Free.parent # p
    BY DEF Replace!Free
  <2>. QED
    BY <2>1 DEF Replace!Without, Replace!Orphans, ReplaceTyped
<1>. HIDE DEF q
<1>2. \A c \in Pid : q[c] = IF c # p /\ proc[c].parent = p THEN [proc[c] EXCEPT !.parent = Nobody]
                            ELSE IF c = p THEN Replace!Free ELSE proc[c]
  BY <1>1
<1>3. ASSUME NEW c \in Pid
      PROVE  /\ q[c] \in Process
             /\ c # p => /\ q[c].what = proc[c].what /\ q[c].of = proc[c].of
                         /\ q[c].parent = IF proc[c].parent = p THEN Nobody ELSE proc[c].parent
             /\ c = p => q[c].what = "none" /\ q[c].parent = Nobody
  <2>1. proc[c] \in Process
    BY DEF ReplaceTyped
  <2>2. CASE c # p /\ proc[c].parent = p
    BY <1>2, <2>1, <2>2 DEF Process
  <2>3. CASE c = p
    <3>1. q[c] = [what |-> "none", of |-> "none", parent |-> Nobody]
      BY <1>2, <2>3 DEF Replace!Free
    <3>. QED
      BY <2>3, <3>1 DEF Process
  <2>4. CASE c # p /\ proc[c].parent # p
    BY <1>2, <2>1, <2>4
  <2>. QED
    BY <2>2, <2>3, <2>4
<1>4. q \in [Pid -> Process]
  BY <1>1, <1>3
<1>5. Families(q)
  <2>. SUFFICES ASSUME NEW c \in Pid
       PROVE  /\ q[c].what = "supervisor" /\ q[c].of = "ours" => c = "supervisor"
              /\ (q[c].what = "service" => c = "pty") /\ (q[c].what = "tool" => c = "tool")
              /\ q[c].parent # Nobody =>
                   \/ /\ q[c].what = "worker" /\ q[c].of = "ours" /\ q[c].parent = "supervisor"
                      /\ q["supervisor"].what = "supervisor" /\ q["supervisor"].of = "ours"
                   \/ q[c].what \in {"tool", "service"} /\ q[c].of = "ours" /\ q[c].parent = "host"
                   \/ q[c].what = "launcher" /\ q[c].parent = "pty"
    BY DEF Families
  <2>1. "supervisor" \in Pid
    OBVIOUS
  <2>. QED
    BY <1>3, <2>1 DEF Families
<1>. QED
  BY <1>3, <1>4, <1>5 DEF q

\* What is to be stopped is settled once the table is read.
LEMMA TableStands ==
  ASSUME ReplaceTyped, UNCHANGED <<runtimes, published, table>>
  PROVE  /\ Stopped' = Stopped /\ Swept' = Swept /\ (Replace!Strayed' <=> Replace!Strayed)
         /\ \A p \in Stopped \cup Swept : p \in Pid /\ table[p].what # "none"
<1>1. Replace!Supervisors' = Replace!Supervisors /\ \A p : Replace!ChildrenOf(p)' = Replace!ChildrenOf(p)
  BY DEF Replace!Supervisors, Replace!ChildrenOf
<1>2. Stopped' = Stopped /\ Swept' = Swept /\ (Replace!Strayed' <=> Replace!Strayed)
  BY <1>1 DEF Stopped, Swept, Replace!Strayed
<1>3. \A p \in UNION {Replace!ChildrenOf(s) : s \in Replace!Supervisors} : p \in Pid /\ table[p].what # "none"
  BY DEF Replace!ChildrenOf
<1>. QED
  BY <1>2, <1>3, ProcessConstants DEF Stopped, Swept, Replace!Supervisors, ReplaceTyped

\* Processes end, or start at a pid that is not listed.
LEMMA WorldTracks ==
  ASSUME ReplaceTyped, ~reused => Track, ~reused' => ~reused,
         UNCHANGED <<runtimes, published, table, step, found, todo, signalled>>,
         \A c \in Pid : \/ proc'[c].what = proc[c].what /\ proc'[c].of = proc[c].of
                        \/ proc'[c].what = "none" \/ table[c].what = "none" \/ reused'
  PROVE  ~reused' => Track'
<1>. SUFFICES ASSUME ~reused' PROVE Track'
  OBVIOUS
<1>1. Track /\ todo \in Seq(Pid)
  BY DEF ReplaceTyped
<1>2. ASSUME NEW p \in Pid, table[p].what # "none", Gone(p) PROVE Gone(p)'
  BY <1>2 DEF Gone
<1>3. /\ Stopped' = Stopped /\ Swept' = Swept /\ (Replace!Strayed' <=> Replace!Strayed)
      /\ \A p \in Stopped \cup Swept : p \in Pid /\ table[p].what # "none"
  BY TableStands
<1>4. \A p \in Pid : Awaits(p)' <=> Awaits(p)
  BY DEF Awaits
<1>5. step' # "done" => \A p \in Pid : table'[p].what # "none" /\ proc'[p].what # "none" =>
                                       proc'[p].what = table'[p].what /\ proc'[p].of = table'[p].of
  BY <1>1 DEF Track
<1>6. step' \in {"stop", "stop-kill", "sweep", "sweep-kill"} =>
       \A i \in DOMAIN todo' : table'[todo'[i]].what # "none" /\ (Own(table[todo[i]]) \/ proc'[todo'[i]].what = "none")
  <2>1. \A i \in DOMAIN todo : todo[i] \in Pid
    BY <1>1
  <2>. QED
    BY <1>1, <2>1 DEF Track
<1>7. (\A q \in signalled : Own(q))'
  BY <1>1, <1>3 DEF Track, Own
<1>8. \A i \in DOMAIN todo : Own(table[todo[i]])' <=> Own(table[todo[i]])
  BY <1>3 DEF Own
<1>. QED
  BY <1>1, <1>2, <1>3, <1>4, <1>5, <1>6, <1>7, <1>8 DEF Track

\* What a process that starts at a free pid changes: a program, a host, or the worker of a supervisor.
LEMMA StartedIs ==
  ASSUME ReplaceTyped, Families(proc), NEW p \in Pid, proc[p].what = "none", NEW r \in Process,
         \/ r.what \in {"program", "host"} /\ r.parent = Nobody
         \/ /\ r.what = "worker" /\ r.of = "ours" /\ r.parent = "supervisor"
            /\ proc["supervisor"].what = "supervisor" /\ proc["supervisor"].of = "ours"
  PROVE  LET q == [proc EXCEPT ![p] = r] IN
         q \in [Pid -> Process] /\ Families(q) /\ q[p] = r /\ \A c \in Pid \ {p} : q[c] = proc[c]
<1>. USE ProcessConstants
<1>. DEFINE q == [proc EXCEPT ![p] = r]
<1>1. q \in [Pid -> Process] /\ q[p] = r /\ \A c \in Pid \ {p} : q[c] = proc[c]
  BY DEF ReplaceTyped
<1>. HIDE DEF q
<1>2. "supervisor" \in Pid
  OBVIOUS
<1>3. proc["supervisor"].what = "supervisor" => q["supervisor"] = proc["supervisor"]
  BY <1>1, <1>2
<1>4. ASSUME NEW c \in Pid
      PROVE  /\ q[c].what = "supervisor" /\ q[c].of = "ours" => c = "supervisor"
             /\ (q[c].what = "service" => c = "pty") /\ (q[c].what = "tool" => c = "tool")
             /\ q[c].parent # Nobody =>
                  \/ /\ q[c].what = "worker" /\ q[c].of = "ours" /\ q[c].parent = "supervisor"
                     /\ q["supervisor"].what = "supervisor" /\ q["supervisor"].of = "ours"
                  \/ q[c].what \in {"tool", "service"} /\ q[c].of = "ours" /\ q[c].parent = "host"
                  \/ q[c].what = "launcher" /\ q[c].parent = "pty"
  <2>1. CASE c = p
    BY <1>1, <1>3, <2>1
  <2>2. CASE c # p
    BY <1>1, <1>3, <2>2 DEF Families
  <2>. QED
    BY <2>1, <2>2
<1>5. Families(q)
  BY <1>4 DEF Families
<1>. QED
  BY <1>1, <1>5 DEF q

LEMMA EndsReplaceSafe ==
  ASSUME ReplaceInv, NEW p \in Pid, Replace!Ends(p)
  PROVE  ReplaceInv'
<1>1. /\ proc' \in [Pid -> Process] /\ Families(proc') /\ proc'[p].what = "none"
      /\ \A c \in Pid \ {p} : proc'[c].what = proc[c].what /\ proc'[c].of = proc[c].of
  BY WithoutIs DEF ReplaceInv, Replace!Ends
<1>2. UNCHANGED <<sidecar, runtimes, published, table, step, found, todo, signalled, reused, forgot>>
  BY DEF Replace!Ends
<1>3. ReplaceTyped'
  BY <1>1, <1>2 DEF ReplaceInv, ReplaceTyped
<1>4. Replace!Hosts' \subseteq Replace!Hosts /\ (OneHostIn(proc) => OneHostIn(proc'))
  BY <1>1 DEF Replace!Hosts, OneHostIn
<1>5. ~reused' => Track'
  BY <1>1, <1>2, WorldTracks DEF ReplaceInv, ReplaceTyped
<1>. QED
  BY <1>1, <1>2, <1>3, <1>4, <1>5 DEF ReplaceInv

\* A process that starts by itself does so at a pid that is not listed, or the pid was given away.
LEMMA BornSafe ==
  ASSUME ReplaceInv, NEW p \in Pid, NEW r \in Process, Replace!Born(p, r),
         UNCHANGED <<runtimes, published, table, step, found, todo, signalled, forgot>>, sidecar' \in Pid \cup {Nobody},
         \/ r.what \in {"program", "host"} /\ r.parent = Nobody
         \/ /\ r.what = "worker" /\ r.of = "ours" /\ r.parent = "supervisor"
            /\ proc["supervisor"].what = "supervisor" /\ proc["supervisor"].of = "ours",
         \/ r.what # "host" /\ sidecar' = sidecar
         \/ step # "list" /\ sidecar' = p /\ (sidecar = Nobody \/ ~Replace!Alive(sidecar))
  PROVE  ReplaceInv'
<1>. USE ProcessConstants
<1>1. proc[p].what = "none" /\ proc' = [proc EXCEPT ![p] = r] /\ reused' = (reused \/ table[p].what # "none")
  BY DEF Replace!Born, Replace!Alive
<1>2. proc' \in [Pid -> Process] /\ Families(proc') /\ proc'[p] = r /\ \A c \in Pid \ {p} : proc'[c] = proc[c]
  BY <1>1, StartedIs DEF ReplaceInv
<1>3. reused' \in BOOLEAN /\ (~reused' => ~reused /\ table[p].what = "none")
  BY <1>1, Zenon DEF ReplaceInv, ReplaceTyped
<1>4. ReplaceTyped'
  BY <1>2, <1>3 DEF ReplaceInv, ReplaceTyped
<1>5. ~forgot' => Replace!Hosts' \subseteq {sidecar'}
  <2>1. CASE r.what # "host" /\ sidecar' = sidecar
    BY <1>2, <2>1 DEF ReplaceInv, Replace!Hosts
  <2>2. CASE sidecar' = p /\ (sidecar = Nobody \/ ~Replace!Alive(sidecar))
    BY <1>2, <2>2 DEF ReplaceInv, Replace!Hosts, Replace!Alive
  <2>. QED
    BY <2>1, <2>2
<1>6. step' = "list" => OneHostIn(proc')
  BY <1>2 DEF ReplaceInv, OneHostIn
<1>7. ~reused' => Track'
  <2>1. \A c \in Pid : \/ proc'[c].what = proc[c].what /\ proc'[c].of = proc[c].of
                       \/ proc'[c].what = "none" \/ table[c].what = "none" \/ reused'
    BY <1>2, <1>3
  <2>. QED
    BY <1>3, <2>1, WorldTracks DEF ReplaceInv, ReplaceTyped
<1>. QED
  BY <1>2, <1>4, <1>5, <1>6, <1>7 DEF ReplaceInv

LEMMA WorldSafe ==
  ASSUME ReplaceInv, NEW p \in Pid,
         Replace!Ends(p) \/ Replace!Reuses(p) \/ Replace!RivalStarts(p) \/ \E s \in Pid : Replace!Recovers(p, s)
  PROVE  ReplaceInv'
<1>. USE ProcessConstants
<1>1. CASE Replace!Ends(p)
  BY <1>1, EndsReplaceSafe
<1>2. CASE Replace!Reuses(p)
  <2>. DEFINE r == [what |-> "program", of |-> "theirs", parent |-> Nobody]
  <2>1. r \in Process /\ r.what = "program" /\ r.parent = Nobody
    BY DEF Process
  <2>2. Replace!Born(p, r) /\ UNCHANGED <<sidecar, runtimes, published, table, step, found, todo, signalled, forgot>>
    BY <1>2 DEF Replace!Reuses, Replace!Is
  <2>3. sidecar' \in Pid \cup {Nobody}
    BY <2>2 DEF ReplaceInv, ReplaceTyped
  <2>. HIDE DEF r
  <2>. QED
    BY <2>1, <2>2, <2>3, BornSafe
<1>3. CASE Replace!RivalStarts(p)
  <2>. DEFINE r == [what |-> "host", of |-> "ours", parent |-> Nobody]
  <2>1. r \in Process /\ r.what = "host" /\ r.parent = Nobody
    BY DEF Process
  <2>2. /\ Replace!Born(p, r) /\ UNCHANGED <<runtimes, published, table, step, found, todo, signalled, forgot>>
        /\ step # "list" /\ sidecar' = p /\ (sidecar = Nobody \/ ~Replace!Alive(sidecar))
    BY <1>3 DEF Replace!RivalStarts, Replace!Is
  <2>. HIDE DEF r
  <2>. QED
    BY <2>1, <2>2, BornSafe
<1>4. ASSUME NEW s \in Pid, Replace!Recovers(p, s) PROVE ReplaceInv'
  <2>1. proc[s].what = "supervisor" /\ proc[s].of = "ours"
    BY <1>4 DEF Replace!Recovers, Replace!Is
  <2>2. s = "supervisor"
    BY <2>1 DEF ReplaceInv, Families
  <2>. DEFINE r == [what |-> "worker", of |-> "ours", parent |-> s]
  <2>3. r \in Process /\ r.what = "worker" /\ r.of = "ours" /\ r.parent = "supervisor"
    BY <2>2 DEF Process
  <2>4. Replace!Born(p, r) /\ UNCHANGED <<sidecar, runtimes, published, table, step, found, todo, signalled, forgot>>
    BY <1>4 DEF Replace!Recovers, Replace!Is
  <2>5. sidecar' \in Pid \cup {Nobody}
    BY <2>4 DEF ReplaceInv, ReplaceTyped
  <2>6. proc["supervisor"].what = "supervisor" /\ proc["supervisor"].of = "ours" /\ r.what # "host" /\ sidecar' = sidecar
    BY <2>1, <2>2, <2>3, <2>4
  <2>. HIDE DEF r
  <2>. QED
    BY <2>3, <2>4, <2>5, <2>6, BornSafe
<1>. QED
  BY <1>1, <1>2, <1>3, <1>4

\* What a set in some order has in it.
LEMMA ListingIs ==
  ASSUME NEW S, S \subseteq Pid, NEW q \in Replace!Listing(S)
  PROVE  /\ q \in Seq(Pid)
         /\ \A i \in DOMAIN q : q[i] \in S
         /\ \A p \in S : \E i \in DOMAIN q : q[i] = p
<1>. USE ProcessConstants
<1>1. Replace!Cardinality(S) = Cardinality(S)
  BY DEF Replace!Cardinality, Cardinality
<1>2. Cardinality(S) \in Nat
  BY FS_Subset, FS_CardinalityType
<1>3. q \in [1 .. Cardinality(S) -> S] /\ \A p \in S : \E i \in DOMAIN q : q[i] = p
  BY <1>1 DEF Replace!Listing
<1>4. q \in Seq(S)
  BY <1>2, <1>3
<1>. QED
  BY <1>3, <1>4

LEMMA ListsSafe ==
  ASSUME ReplaceInv, Replace!Lists
  PROVE  ReplaceInv'
<1>1. /\ step = "list" /\ (table' = proc \/ table' = table) /\ step' \in {"find", "refused"}
      /\ UNCHANGED <<proc, sidecar, runtimes, published, found, todo, signalled, events, reused, forgot>>
  BY DEF Replace!Lists
<1>2. ReplaceTyped'
  BY <1>1 DEF ReplaceInv, ReplaceTyped
<1>3. Replace!Hosts' = Replace!Hosts
  BY <1>1 DEF Replace!Hosts
<1>4. Families(table') /\ OneHostIn(table')
  BY <1>1 DEF ReplaceInv
<1>5. \A p \in Pid : table'[p].what # "none" /\ proc'[p].what # "none" =>
                      proc'[p].what = table'[p].what /\ proc'[p].of = table'[p].of
  BY <1>1 DEF ReplaceInv
<1>6. signalled = {}
  BY <1>1 DEF ReplaceInv
<1>7. Track'
  BY <1>1, <1>5, <1>6 DEF Track
<1>. QED
  BY <1>1, <1>2, <1>3, <1>4, <1>6, <1>7 DEF ReplaceInv

\* What is stopped with the host: the supervisors that the descriptors name, and their children.
LEMMA GroupIsOwn ==
  ASSUME ReplaceInv, table["host"].what = "host", table["host"].of = "ours",
         NEW q \in Replace!StopOrder("host")
  PROVE  /\ q \in Seq(Pid)
         /\ \A i \in DOMAIN q : table[q[i]].what # "none" /\ Own(table[q[i]])
         /\ \A p \in Stopped : \E i \in DOMAIN q : q[i] = p
<1>. USE ProcessConstants
<1>. DEFINE S == {"host"} \cup Replace!Supervisors \cup UNION {Replace!ChildrenOf(s) : s \in Replace!Supervisors}
<1>1. Replace!Supervisors \subseteq {"supervisor", "foreign"} /\ S \subseteq Pid
  BY DEF ReplaceInv, ReplaceTyped, Replace!Supervisors, Replace!ChildrenOf
<1>2. q \in Replace!Listing(S)
  BY DEF Replace!StopOrder
<1>3. \A p \in S : table[p].what # "none" /\ Own(table[p])
  <2>1. ASSUME NEW s \in Replace!Supervisors PROVE table[s].what = "supervisor" /\ Own(table[s])
    BY DEF Replace!Supervisors, Replace!Strayed, Own
  <2>2. ASSUME NEW s \in Replace!Supervisors, NEW c \in Replace!ChildrenOf(s)
        PROVE  table[c].what = "worker" /\ table[c].of = "ours"
    <3>1. c \in Pid /\ table[c].parent = s /\ s \in {"supervisor", "foreign"}
      BY <1>1 DEF Replace!ChildrenOf
    <3>. QED
      BY <3>1 DEF ReplaceInv, Families
  <2>3. \A c \in UNION {Replace!ChildrenOf(s) : s \in Replace!Supervisors} : table[c].what = "worker" /\ table[c].of = "ours"
    BY <2>2
  <2>4. \A s \in Replace!Supervisors : table[s].what = "supervisor" /\ Own(table[s])
    BY <2>1
  <2>5. table["host"].what # "none" /\ Own(table["host"])
    BY DEF Own
  <2>6. \A c \in UNION {Replace!ChildrenOf(s) : s \in Replace!Supervisors} : table[c].what # "none" /\ Own(table[c])
    BY <2>3 DEF Own
  <2>. QED
    BY <2>4, <2>5, <2>6
<1>4. Stopped \subseteq S
  BY DEF Stopped
<1>. HIDE DEF S
<1>. QED
  BY <1>1, <1>2, <1>3, <1>4, ListingIs

LEMMA FindsSafe ==
  ASSUME ReplaceInv, Replace!Finds
  PROVE  ReplaceInv'
<1>. USE ProcessConstants
<1>1. step = "find" /\ found' = sidecar /\ UNCHANGED <<proc, sidecar, runtimes, published, table, signalled, events, reused, forgot>>
  BY DEF Replace!Finds
<1>2. \/ step' \in {"start", "forget", "refused"} /\ todo' = todo
      \/ /\ sidecar \in Pid /\ table[sidecar].what = "host" /\ table[sidecar].of = "ours"
         /\ step' = "stop" /\ todo' \in Replace!StopOrder(sidecar)
  BY DEF Replace!Finds, ReplaceInv, ReplaceTyped
<1>3. Replace!Hosts' = Replace!Hosts
  BY <1>1 DEF Replace!Hosts
<1>4. CASE step' \in {"start", "forget", "refused"} /\ todo' = todo
  <2>1. ReplaceTyped'
    BY <1>1, <1>4 DEF ReplaceInv, ReplaceTyped
  <2>2. ~reused' => Track'
    BY <1>1, <1>4 DEF ReplaceInv, Track
  <2>. QED
    BY <1>1, <1>3, <1>4, <2>1, <2>2 DEF ReplaceInv
<1>5. CASE /\ sidecar \in Pid /\ table[sidecar].what = "host" /\ table[sidecar].of = "ours"
           /\ step' = "stop" /\ todo' \in Replace!StopOrder(sidecar)
  <2>1. sidecar = "host"
    BY <1>5 DEF ReplaceInv, OneHostIn
  <2>2. /\ todo' \in Seq(Pid)
        /\ \A i \in DOMAIN todo' : table[todo'[i]].what # "none" /\ Own(table[todo'[i]])
        /\ \A p \in Stopped : \E i \in DOMAIN todo' : todo'[i] = p
    BY <1>5, <2>1, GroupIsOwn
  <2>3. ReplaceTyped'
    BY <1>1, <1>5, <2>2 DEF ReplaceInv, ReplaceTyped
  <2>4. ASSUME ~reused' PROVE Track'
    <3>1. Track /\ signalled = {}
      BY <1>1, <2>4 DEF ReplaceInv
    <3>2. Stopped' = Stopped /\ (Replace!Strayed' <=> Replace!Strayed)
      BY <1>1, TableStands DEF ReplaceInv
    <3>3. (\A p \in Stopped : Awaits(p))'
      BY <2>2, <3>2 DEF Awaits
    <3>4. \A p \in Pid : table'[p].what # "none" /\ proc'[p].what # "none" =>
            proc'[p].what = table'[p].what /\ proc'[p].of = table'[p].of
      BY <1>1, <3>1 DEF Track
    <3>5. \A i \in DOMAIN todo' : table'[todo'[i]].what # "none" /\ Own(table[todo[i]])'
      BY <1>1, <2>2, <3>2 DEF Own
    <3>. QED
      BY <1>1, <1>5, <3>1, <3>3, <3>4, <3>5 DEF Track
  <2>. QED
    BY <1>1, <1>3, <1>5, <2>1, <2>3, <2>4 DEF ReplaceInv
<1>. QED
  BY <1>2, <1>4, <1>5

\* One process that waited has been told to stop: it is gone, or waits on.
LEMMA StopsOne ==
  ASSUME ReplaceInv, todo # <<>>, UNCHANGED <<sidecar, runtimes, published, table, found, events, reused, forgot>>,
         \/ step \in {"stop", "stop-kill"} /\ step' \in {"stop", "stop-kill"}
         \/ step \in {"sweep", "sweep-kill"} /\ step' \in {"sweep", "sweep-kill"},
         \/ proc' = proc /\ todo' = todo
         \/ proc' = proc /\ todo' = Tail(todo) /\ ~Replace!Alive(Head(todo))
         \/ proc' = Replace!Without(Head(todo)) /\ todo' = Tail(todo),
         \/ signalled' = signalled
         \/ signalled' = signalled \cup {proc[Head(todo)]} /\ Replace!Alive(Head(todo))
  PROVE  ReplaceInv'
<1>. USE ProcessConstants
<1>. DEFINE h == Head(todo)
<1>0. todo \in Seq(Pid)
  BY DEF ReplaceInv, ReplaceTyped
<1>1. h \in Pid /\ h = todo[1] /\ 1 \in DOMAIN todo /\ Tail(todo) \in Seq(Pid)
  BY <1>0, TailIs
<1>2. /\ \A i \in DOMAIN Tail(todo) : i + 1 \in DOMAIN todo /\ Tail(todo)[i] = todo[i + 1]
      /\ \A i \in DOMAIN todo : i = 1 \/ \E j \in DOMAIN Tail(todo) : Tail(todo)[j] = todo[i]
  BY <1>0, TailIs, TailHas
<1>. HIDE DEF h
<1>3. /\ proc' \in [Pid -> Process] /\ Families(proc')
      /\ \A c \in Pid : proc'[c].what = "none" \/ (proc'[c].what = proc[c].what /\ proc'[c].of = proc[c].of)
      /\ todo' = todo \/ (todo' = Tail(todo) /\ proc'[h].what = "none")
  <2>1. CASE proc' = proc /\ (todo' = todo \/ (todo' = Tail(todo) /\ ~Replace!Alive(h)))
    BY <1>1, <2>1 DEF ReplaceInv, ReplaceTyped, Replace!Alive
  <2>2. CASE proc' = Replace!Without(h) /\ todo' = Tail(todo)
    <3>. DEFINE q == Replace!Without(h)
    <3>1. /\ q \in [Pid -> Process] /\ Families(q) /\ q[h].what = "none"
          /\ \A c \in Pid \ {h} : q[c].what = proc[c].what /\ q[c].of = proc[c].of
      <4>1. ReplaceTyped /\ Families(proc) /\ h \in Pid
        BY <1>1 DEF ReplaceInv
      <4>. QED
        BY <4>1, WithoutIs
    <3>. HIDE DEF q
    <3>2. proc' = q
      BY <2>2 DEF q
    <3>. QED
      BY <2>2, <3>1, <3>2
  <2>. QED
    BY <2>1, <2>2 DEF h
<1>4. ReplaceTyped'
  BY <1>1, <1>3 DEF ReplaceInv, ReplaceTyped
<1>5. Replace!Hosts' \subseteq Replace!Hosts
  BY <1>3 DEF Replace!Hosts
<1>6. ASSUME ~reused' PROVE Track'
  <2>1. Track
    BY <1>6 DEF ReplaceInv
  <2>2. \A p \in Pid : table[p].what # "none" /\ proc[p].what # "none" =>
                         proc[p].what = table[p].what /\ proc[p].of = table[p].of
    BY <2>1 DEF Track
  <2>3. \A p \in Pid : table'[p].what # "none" /\ proc'[p].what # "none" =>
                         proc'[p].what = table'[p].what /\ proc'[p].of = table'[p].of
    BY <1>3, <2>2
  <2>4. \A i \in DOMAIN todo : table[todo[i]].what # "none" /\ (Own(table[todo[i]]) \/ proc[todo[i]].what = "none")
    BY <2>1 DEF Track
  <2>0. /\ Stopped' = Stopped /\ Swept' = Swept /\ (Replace!Strayed' <=> Replace!Strayed)
        /\ \A p \in Stopped \cup Swept : p \in Pid /\ table[p].what # "none"
    BY TableStands DEF ReplaceInv
  <2>5. (\A q \in signalled : Own(q))'
    <3>1. Replace!Alive(h) => Own(proc[h])
      BY <1>1, <2>2, <2>4 DEF Replace!Alive, Own
    <3>2. \A q \in signalled : Own(q)
      BY <2>1 DEF Track
    <3>3. \A q \in signalled' : Own(q)
      BY <3>1, <3>2 DEF h
    <3>. QED
      BY <2>0, <3>3 DEF Own
  <2>6. \A i \in DOMAIN todo' : table'[todo'[i]].what # "none" /\ (Own(table[todo[i]])' \/ proc'[todo'[i]].what = "none")
    <3>. SUFFICES ASSUME NEW i \in DOMAIN todo'
         PROVE  table[todo'[i]].what # "none" /\ (Own(table[todo'[i]]) \/ proc'[todo'[i]].what = "none")
      BY <2>0 DEF Own
    <3>1. PICK k \in DOMAIN todo : todo'[i] = todo[k]
      BY <1>2, <1>3
    <3>2. todo[k] \in Pid
      BY <1>0
    <3>. QED
      BY <1>3, <2>4, <3>1, <3>2
  <2>7. ASSUME NEW p \in Pid, table[p].what # "none", Gone(p) \/ Awaits(p) PROVE Gone(p)' \/ Awaits(p)'
    <3>1. CASE Gone(p)
      BY <1>3, <2>7, <3>1 DEF Gone
    <3>2. CASE Awaits(p)
      <4>1. Awaits(p)' \/ (p = h /\ proc'[h].what = "none")
        BY <1>1, <1>2, <1>3, <3>2 DEF Awaits
      <4>. QED
        BY <2>7, <4>1 DEF Gone
    <3>. QED
      BY <2>7, <3>1, <3>2
  <2>8. \A p \in Pid : Gone(p) /\ table[p].what # "none" => Gone(p)'
    BY <1>3 DEF Gone
  <2>. QED
    BY <2>0, <2>1, <2>3, <2>5, <2>6, <2>7, <2>8 DEF Track
<1>. QED
  BY <1>3, <1>4, <1>5, <1>6 DEF ReplaceInv

LEMMA TerminatesSafe ==
  ASSUME ReplaceInv, Replace!Terminates
  PROVE  ReplaceInv'
<1>1. step \in {"stop", "sweep"} /\ todo # <<>> /\ UNCHANGED <<sidecar, runtimes, published, table, found, events, reused, forgot>>
  BY DEF Replace!Terminates
<1>2. CASE ~Replace!Alive(Head(todo)) /\ todo' = Tail(todo) /\ UNCHANGED <<proc, step, signalled>>
  BY <1>1, <1>2, StopsOne
<1>3. CASE /\ Replace!Alive(Head(todo)) /\ signalled' = signalled \cup {proc[Head(todo)]}
           /\ proc' = Replace!Without(Head(todo)) /\ todo' = Tail(todo) /\ step' = step
  BY <1>1, <1>3, StopsOne
<1>4. CASE /\ Replace!Alive(Head(todo)) /\ signalled' = signalled \cup {proc[Head(todo)]}
           /\ proc' = proc /\ todo' = todo /\ step' = IF step = "stop" THEN "stop-kill" ELSE "sweep-kill"
  BY <1>1, <1>4, StopsOne
<1>. QED
  BY <1>2, <1>3, <1>4 DEF Replace!Terminates, Replace!Signals

LEMMA KillsSafe ==
  ASSUME ReplaceInv, Replace!Kills
  PROVE  ReplaceInv'
<1>. DEFINE on == IF step = "stop-kill" THEN "stop" ELSE "sweep"
<1>1. step \in {"stop-kill", "sweep-kill"} /\ todo # <<>> /\ UNCHANGED <<sidecar, runtimes, published, table, found, events, reused, forgot>>
  BY DEF Replace!Kills
<1>2. CASE ~Replace!Alive(Head(todo)) /\ todo' = Tail(todo) /\ step' = on /\ UNCHANGED <<proc, signalled>>
  BY <1>1, <1>2, StopsOne
<1>3. CASE /\ Replace!Alive(Head(todo)) /\ signalled' = signalled \cup {proc[Head(todo)]}
           /\ proc' = Replace!Without(Head(todo)) /\ todo' = Tail(todo) /\ step' = on
  BY <1>1, <1>3, StopsOne
<1>4. CASE /\ Replace!Alive(Head(todo)) /\ signalled' = signalled \cup {proc[Head(todo)]}
           /\ proc' = proc /\ todo' = <<>> /\ step' = "refused"
  <2>1. todo \in Seq(Pid)
    BY DEF ReplaceInv, ReplaceTyped
  <2>2. Head(todo) \in Pid /\ Head(todo) = todo[1] /\ 1 \in DOMAIN todo
    BY <1>1, <2>1, TailIs
  <2>3. ReplaceTyped' /\ Replace!Hosts' = Replace!Hosts
    BY <1>1, <1>4 DEF ReplaceInv, ReplaceTyped, Replace!Hosts
  <2>4. ASSUME ~reused' PROVE Track'
    <3>1. Track
      BY <1>1, <2>4 DEF ReplaceInv
    <3>2. Own(proc[Head(todo)])
      BY <1>1, <1>4, <2>2, <3>1 DEF Track, Own, Replace!Alive
    <3>3. Replace!Strayed' <=> Replace!Strayed
      BY <1>1, TableStands DEF ReplaceInv
    <3>4. \A q \in signalled : Own(q)
      BY <3>1 DEF Track
    <3>5. (\A q \in signalled : Own(q))'
      BY <1>1, <1>4, <3>2, <3>3, <3>4 DEF Own
    <3>. QED
      BY <1>1, <1>4, <3>1, <3>5 DEF Track
  <2>. QED
    BY <1>1, <1>4, <2>3, <2>4 DEF ReplaceInv
<1>. QED
  BY <1>2, <1>3, <1>4 DEF Replace!Kills, Replace!Signals

\* The host's children that are left to sweep: its tools, and services that have ended by now or
\* that no descriptor names.
LEMMA SparesSafe ==
  ASSUME ReplaceInv, Replace!Spares
  PROVE  ReplaceInv'
<1>. USE ProcessConstants
<1>1. /\ step = "stop" /\ todo = <<>> /\ found = "host"
      /\ \/ step' = "sweep" /\ todo' \in Replace!Listing(Replace!ChildrenOf("host") \ Replace!Retained)
         \/ step' = "refused" /\ todo' = todo
      /\ UNCHANGED <<proc, sidecar, runtimes, published, table, found, signalled, events, reused, forgot>>
  BY DEF Replace!Spares, ReplaceInv
<1>2. CASE step' = "refused" /\ todo' = todo
  <2>1. ReplaceTyped' /\ Replace!Hosts' = Replace!Hosts
    BY <1>1, <1>2 DEF ReplaceInv, ReplaceTyped, Replace!Hosts
  <2>2. ASSUME ~reused' PROVE Track'
    <3>1. Track
      BY <1>1, <2>2 DEF ReplaceInv
    <3>2. (\A q \in signalled : Own(q)) /\ (Replace!Strayed' <=> Replace!Strayed)
      BY <1>1, <3>1, TableStands DEF ReplaceInv, Track
    <3>3. (\A q \in signalled : Own(q))'
      BY <1>1, <3>2 DEF Own
    <3>. QED
      BY <1>1, <1>2, <3>1, <3>3 DEF Track
  <2>. QED
    BY <1>1, <1>2, <2>1, <2>2 DEF ReplaceInv
<1>3. CASE step' = "sweep" /\ todo' \in Replace!Listing(Replace!ChildrenOf("host") \ Replace!Retained)
  <2>1. /\ todo' \in Seq(Pid)
        /\ \A i \in DOMAIN todo' : todo'[i] \in Replace!ChildrenOf("host") \ Replace!Retained
        /\ \A p \in Replace!ChildrenOf("host") \ Replace!Retained : \E i \in DOMAIN todo' : todo'[i] = p
    <3>1. Replace!ChildrenOf("host") \ Replace!Retained \subseteq Pid
      BY DEF Replace!ChildrenOf
    <3>. QED
      BY <1>3, <3>1, ListingIs
  <2>2. ReplaceTyped' /\ Replace!Hosts' = Replace!Hosts
    BY <1>1, <1>3, <2>1 DEF ReplaceInv, ReplaceTyped, Replace!Hosts
  <2>3. ASSUME ~reused' PROVE Track'
    <3>1. Track
      BY <1>1, <2>3 DEF ReplaceInv
    <3>2. \A p \in Pid : table[p].what # "none" /\ proc[p].what # "none" =>
                           proc[p].what = table[p].what /\ proc[p].of = table[p].of
      BY <1>1, <3>1 DEF Track
    <3>3. ASSUME NEW c \in Replace!ChildrenOf("host") \ Replace!Retained
          PROVE  c \in Pid /\ table[c].what # "none" /\ (Own(table[c]) \/ proc[c].what = "none")
      <4>1. c \in Pid /\ table[c].what # "none" /\ table[c].parent = "host"
        BY DEF Replace!ChildrenOf
      <4>2. table[c].what \in {"tool", "service"} /\ table[c].of = "ours" /\ (table[c].what = "service" => c = "pty")
        BY <4>1 DEF ReplaceInv, Families
      <4>3. proc[c].what # "none" /\ c = "pty" => published = {}
        BY <4>1 DEF ReplaceInv, ReplaceTyped, Replace!Retained, Replace!Alive
      <4>. QED
        BY <4>1, <4>2, <4>3 DEF Own
    <3>4. /\ Stopped' = Stopped /\ Swept' = Swept /\ (Replace!Strayed' <=> Replace!Strayed)
          /\ \A p \in Stopped \cup Swept : p \in Pid /\ table[p].what # "none"
      BY <1>1, TableStands DEF ReplaceInv
    <3>5. \A i \in DOMAIN todo' : table'[todo'[i]].what # "none" /\ (Own(table[todo[i]])' \/ proc'[todo'[i]].what = "none")
      <4>1. \A i \in DOMAIN todo' : table[todo'[i]].what # "none" /\ (Own(table[todo'[i]]) \/ proc[todo'[i]].what = "none")
        BY <2>1, <3>3
      <4>. QED
        BY <1>1, <3>4, <4>1 DEF Own
    <3>6. (\A q \in signalled : Own(q))'
      <4>1. \A q \in signalled : Own(q)
        BY <3>1 DEF Track
      <4>. QED
        BY <1>1, <3>4, <4>1 DEF Own
    <3>7. (\A p \in Stopped : Gone(p))'
      <4>1. \A p \in Stopped : Gone(p)
        BY <1>1, <3>1 DEF Track, Awaits
      <4>. QED
        BY <1>1, <3>4, <4>1 DEF Gone
    <3>8. (\A p \in Swept : Gone(p) \/ Awaits(p))'
      <4>1. ASSUME NEW p \in Swept PROVE Gone(p)' \/ Awaits(p)'
        <5>1. p \in Replace!ChildrenOf("host") /\ p \in Pid /\ table[p].what = "tool"
          BY DEF Swept, Replace!ChildrenOf
        <5>2. CASE p \in Replace!Retained
          <6>1. p = "pty"
            BY <5>2 DEF ReplaceInv, ReplaceTyped, Replace!Retained
          <6>. QED
            BY <5>1, <6>1 DEF ReplaceInv, Families
        <5>3. CASE p \notin Replace!Retained
          BY <2>1, <5>1, <5>3 DEF Awaits
        <5>. QED
          BY <5>2, <5>3
      <4>. QED
        BY <3>4, <4>1
    <3>. QED
      BY <1>1, <1>3, <3>1, <3>2, <3>5, <3>6, <3>7, <3>8 DEF Track
  <2>. QED
    BY <1>1, <1>3, <2>2, <2>3 DEF ReplaceInv
<1>. QED
  BY <1>1, <1>2, <1>3

LEMMA WatchesSafe ==
  ASSUME ReplaceInv, Replace!Watches
  PROVE  ReplaceInv'
<1>1. /\ step = "sweep" /\ todo = <<>> /\ step' \in {"forget", "refused"} /\ found = "host"
      /\ UNCHANGED <<proc, sidecar, runtimes, published, table, found, todo, signalled, events, reused, forgot>>
  BY DEF Replace!Watches, ReplaceInv
<1>2. ReplaceTyped' /\ Replace!Hosts' = Replace!Hosts
  BY <1>1 DEF ReplaceInv, ReplaceTyped, Replace!Hosts
<1>3. ASSUME ~reused' PROVE Track'
  <2>1. Track
    BY <1>1, <1>3 DEF ReplaceInv
  <2>2. /\ Stopped' = Stopped /\ Swept' = Swept /\ (Replace!Strayed' <=> Replace!Strayed)
        /\ \A p \in Stopped \cup Swept : p \in Pid /\ table[p].what # "none"
    BY <1>1, TableStands DEF ReplaceInv
  <2>3. (\A p \in Stopped \cup Swept : Gone(p))'
    <3>1. \A p \in Stopped \cup Swept : Gone(p)
      BY <1>1, <2>1 DEF Track, Awaits
    <3>. QED
      BY <1>1, <2>2, <3>1 DEF Gone
  <2>4. (\A q \in signalled : Own(q))'
    <3>1. \A q \in signalled : Own(q)
      BY <2>1 DEF Track
    <3>. QED
      BY <1>1, <2>2, <3>1 DEF Own
  <2>. QED
    BY <1>1, <2>1, <2>3, <2>4 DEF Track
<1>. QED
  BY <1>1, <1>2, <1>3 DEF ReplaceInv

LEMMA ForgetsSafe ==
  ASSUME ReplaceInv, Replace!ForgetsSidecar
  PROVE  ReplaceInv'
<1>. USE ProcessConstants
<1>1. /\ step = "forget" /\ forgot' = (forgot \/ Replace!Alive(sidecar))
      /\ sidecar' = Nobody /\ step' = "start"
      /\ UNCHANGED <<proc, runtimes, published, table, found, todo, signalled, events, reused>>
  BY DEF Replace!ForgetsSidecar
<1>2. forgot' \in BOOLEAN /\ (~forgot' => ~forgot /\ ~Replace!Alive(sidecar))
  BY <1>1, Zenon DEF ReplaceInv, ReplaceTyped
<1>3. ReplaceTyped'
  BY <1>1, <1>2 DEF ReplaceInv, ReplaceTyped
<1>4. ~forgot' => Replace!Hosts' \subseteq {sidecar'}
  BY <1>1, <1>2 DEF ReplaceInv, Replace!Hosts, Replace!Alive
<1>5. ~reused' => Track'
  <2>. SUFFICES ASSUME ~reused' PROVE Track'
    OBVIOUS
  <2>1. Track
    BY <1>1 DEF ReplaceInv
  <2>2. Stopped' = Stopped /\ Swept' = Swept /\ (Replace!Strayed' <=> Replace!Strayed)
    BY <1>1, TableStands DEF ReplaceInv
  <2>3. (\A q \in signalled : Own(q))'
    <3>1. \A q \in signalled : Own(q)
      BY <2>1 DEF Track
    <3>. QED
      BY <1>1, <2>2, <3>1 DEF Own
  <2>4. signalled' = {} \/ (found' = "host" /\ (\A p \in Stopped \cup Swept : Gone(p))')
    BY <1>1, <2>1, <2>2 DEF Track, Gone
  <2>. QED
    BY <1>1, <2>1, <2>3, <2>4 DEF Track
<1>. QED
  BY <1>1, <1>3, <1>4, <1>5 DEF ReplaceInv

LEMMA EnsuresSafe ==
  ASSUME ReplaceInv, Replace!Ensures
  PROVE  ReplaceInv'
<1>. USE ProcessConstants
<1>1. step = "start" /\ step' \in {"done", "refused"} /\ UNCHANGED <<runtimes, published, table, found, todo, signalled, events, reused, forgot>>
  BY DEF Replace!Ensures
<1>2. /\ proc' \in [Pid -> Process] /\ Families(proc') /\ sidecar' \in Pid \cup {Nobody}
      /\ \A c \in Pid : proc'[c] = proc[c] \/ proc'[c].what = "host"
      /\ ~forgot => Replace!Hosts' \subseteq {sidecar'}
  <2>1. CASE (Replace!Alive(sidecar) \/ step' = "refused") /\ proc' = proc /\ sidecar' = sidecar
    BY <2>1 DEF ReplaceInv, ReplaceTyped, Replace!Hosts
  <2>2. ASSUME step' = "done", NEW p \in Pid, ~Replace!Alive(sidecar), ~Replace!Alive(p), sidecar' = p,
               proc' = [proc EXCEPT ![p] = Replace!Is("host", "ours", Nobody)]
        PROVE  /\ proc' \in [Pid -> Process] /\ Families(proc') /\ sidecar' \in Pid \cup {Nobody}
               /\ \A c \in Pid : proc'[c] = proc[c] \/ proc'[c].what = "host"
               /\ ~forgot => Replace!Hosts' \subseteq {sidecar'}
    <3>. DEFINE r == Replace!Is("host", "ours", Nobody)
    <3>1. r \in Process /\ r.what = "host" /\ r.parent = Nobody
      BY DEF Process, Replace!Is
    <3>5. proc' = [proc EXCEPT ![p] = r]
      BY <2>2
    <3>. HIDE DEF r
    <3>2. proc[p].what = "none"
      BY <2>2 DEF Replace!Alive
    <3>3. proc' \in [Pid -> Process] /\ Families(proc') /\ proc'[p] = r /\ \A c \in Pid \ {p} : proc'[c] = proc[c]
      BY <3>1, <3>2, <3>5, StartedIs DEF ReplaceInv
    <3>4. ~forgot => Replace!Hosts' \subseteq {p}
      BY <2>2, <3>3 DEF ReplaceInv, Replace!Hosts, Replace!Alive
    <3>. QED
      BY <2>2, <3>1, <3>3, <3>4
  <2>. QED
    BY <2>1, <2>2 DEF Replace!Ensures
<1>3. ReplaceTyped'
  BY <1>1, <1>2 DEF ReplaceInv, ReplaceTyped
<1>4. ASSUME ~reused' PROVE Track'
  <2>1. Track
    BY <1>1, <1>4 DEF ReplaceInv
  <2>2. /\ Stopped' = Stopped /\ Swept' = Swept /\ (Replace!Strayed' <=> Replace!Strayed)
        /\ \A p \in Stopped \cup Swept : p \in Pid /\ table[p].what # "none"
    BY <1>1, TableStands DEF ReplaceInv
  <2>3. (\A q \in signalled : Own(q))'
    <3>1. \A q \in signalled : Own(q)
      BY <2>1 DEF Track
    <3>. QED
      BY <1>1, <2>2, <3>1 DEF Own
  <2>4. ASSUME NEW p \in Stopped \cup Swept, Gone(p) PROVE Gone(p)'
    <3>1. table[p].what # "host"
      <4>1. p \in Pid
        BY <2>2
      <4>2. table[p].what \in {"supervisor", "worker", "tool"}
        <5>1. CASE p \in Replace!Supervisors
          BY <5>1 DEF Replace!Supervisors
        <5>2. CASE p \in UNION {Replace!ChildrenOf(s) : s \in Replace!Supervisors}
          <6>1. PICK s \in Replace!Supervisors : p \in Replace!ChildrenOf(s)
            BY <5>2
          <6>2. s \in {"supervisor", "foreign"} /\ p \in Pid /\ table[p].parent = s
            BY <6>1 DEF ReplaceInv, ReplaceTyped, Replace!Supervisors, Replace!ChildrenOf
          <6>. QED
            BY <6>2 DEF ReplaceInv, Families
        <5>3. CASE p \in Swept
          BY <5>3 DEF Swept
        <5>. QED
          BY <5>1, <5>2, <5>3 DEF Stopped
      <4>. QED
        BY <4>2
    <3>. QED
      BY <1>1, <1>2, <2>2, <2>4, <3>1 DEF Gone
  <2>5. step' = "refused" => \A p \in Pid : table'[p].what # "none" /\ proc'[p].what # "none" =>
                               proc'[p].what = table'[p].what /\ proc'[p].of = table'[p].of
    <3>1. step' = "refused" => proc' = proc
      BY DEF Replace!Ensures
    <3>. QED
      BY <1>1, <2>1, <3>1 DEF Track
  <2>6. signalled' = {} \/ (found' = "host" /\ (\A p \in Stopped \cup Swept : Gone(p))')
    BY <1>1, <2>1, <2>2, <2>4 DEF Track
  <2>. QED
    BY <1>1, <2>1, <2>3, <2>5, <2>6 DEF Track
<1>. QED
  BY <1>1, <1>2, <1>3, <1>4 DEF ReplaceInv

LEMMA ReplaceElsewhere ==
  ASSUME ReplaceInv, UNCHANGED replace
  PROVE  ReplaceInv'
<1>. USE DEF replace
<1>1. ReplaceTyped' /\ Replace!Hosts' = Replace!Hosts
  BY DEF ReplaceInv, ReplaceTyped, Replace!Hosts
<1>2. Track => Track'
  BY DEF Track, Own, Gone, Awaits, Stopped, Swept, Replace!Supervisors, Replace!ChildrenOf, Replace!Strayed
<1>. QED
  BY <1>1, <1>2 DEF ReplaceInv

LEMMA OneHostLeftNow ==
  ASSUME ReplaceInv
  PROVE  Replace!OnlyItsOwn /\ Replace!OneHostLeft
<1>. USE ProcessConstants
<1>1. Replace!OnlyItsOwn
  BY DEF ReplaceInv, Track, Own, Replace!OnlyItsOwn
<1>2. ASSUME ~forgot PROVE Replace!Cardinality(Replace!Hosts) <= 1
  <2>1. Replace!Hosts \in SUBSET {sidecar}
    BY <1>2 DEF ReplaceInv
  <2>2. IsFiniteSet({sidecar}) /\ Cardinality({sidecar}) = 1
    BY FS_Singleton
  <2>3. Cardinality(Replace!Hosts) <= Cardinality({sidecar})
    BY <2>1, <2>2, FS_Subset
  <2>4. Replace!Cardinality(Replace!Hosts) = Cardinality(Replace!Hosts)
    BY DEF Replace!Cardinality, Cardinality
  <2>. QED
    BY <2>2, <2>3, <2>4
<1>3. ASSUME step = "done", ~reused, signalled # {}
      PROVE  \A p \in Replace!Supervisors \cup Replace!Leaves : proc[p].what # table[p].what
  <2>1. found = "host" /\ \A p \in Stopped \cup Swept : Gone(p)
    BY <1>3 DEF ReplaceInv, Track
  <2>2. Replace!Supervisors \cup Replace!Leaves \subseteq Stopped \cup Swept
    <3>. DEFINE U == UNION {Replace!ChildrenOf(s) : s \in Replace!Supervisors}
                T == {c \in Replace!ChildrenOf(found) : table[c].what = "tool"}
    <3>1. T \subseteq Swept
      BY <2>1 DEF Swept, Replace!ChildrenOf
    <3>2. Stopped = Replace!Supervisors \cup U
      BY Zenon DEF Stopped
    <3>3. Replace!Leaves = U \cup T
      BY Zenon DEF Replace!Leaves
    <3>. HIDE DEF U, T
    <3>. QED
      BY <3>1, <3>2, <3>3
  <2>. QED
    BY <2>1, <2>2 DEF Gone
<1>. QED
  BY <1>1, <1>2, <1>3 DEF Replace!OneHostLeft

\* ReplacesItsOwn: replacing the host signals that host, the supervisors its runtime descriptors
\* name, and their children and its own, no service of the directory that a descriptor names and
\* nobody else, but for another workspace's supervisor at a pid that a descriptor still names
\* (stop.rs:79-88); and it leaves one host, and none of the supervisors, workers and tools it listed;
\* unless a listed pid was given away, or the descriptor of a host that another launcher had started
\* was removed (stop.rs and replace.rs).
THEOREM OneHostIsLeft == Spec => []ReplacesItsOwn
<1>1. Init => ReplaceInv
  BY ReplaceBegins DEF Init
<1>2. ReplaceInv /\ [Next]_vars => ReplaceInv'
  <2>. SUFFICES ASSUME ReplaceInv, [Next]_vars PROVE ReplaceInv'
    OBVIOUS
  <2>1. CASE Replace!Replaces
    BY <2>1, ListsSafe, FindsSafe, TerminatesSafe, KillsSafe, SparesSafe, WatchesSafe, ForgetsSafe, EnsuresSafe
       DEF Replace!Replaces
  <2>2. CASE OfReplace
    BY <2>1, <2>2, WorldSafe DEF OfReplace, Replace!ReplaceNext
  <2>3. CASE UNCHANGED replace
    BY <2>3, ReplaceElsewhere
  <2>. QED
    BY <2>2, <2>3 DEF Next, OfStart, OfStore, OfLetters, OfWindow, OfDrafts, vars
<1>3. ReplaceInv => ReplacesItsOwn
  BY OneHostLeftNow DEF ReplacesItsOwn
<1>. QED
  BY <1>1, <1>2, <1>3, PTL DEF Spec

-----------------------------------------------------------------------------
\* ProjectWindows: letters are numbered as they are kept, and a reader has all up to its cursor.

Doors == [origin : Root, project : Root, agent : Agent, layout : Layout \cup {NoLayout}]
Mail  == [window : Nat, by : Root, sender : Root, destination : Root, key : Key, content : Content, sequence : Nat]
Sides(r, w) == {r.sender, r.destination} = {w.origin, w.project}

LetterInv ==
  /\ memory \in [windows : Seq(Doors), reports : Seq(Mail)] /\ document = memory
  /\ cursor \in 0 .. Len(memory.reports) /\ got \in Seq(Mail)
  /\ \A i \in DOMAIN memory.reports :
       LET r == memory.reports[i] IN
       r.sequence = i /\ r.window \in DOMAIN memory.windows /\ Sides(r, memory.windows[r.window])
  /\ \A i, j \in DOMAIN memory.reports :
       LET r == memory.reports[i]
           s == memory.reports[j] IN
       r.window = s.window /\ r.sender = s.sender /\ r.key = s.key => i = j
  /\ \A letter \in told : \E i \in DOMAIN memory.reports : memory.reports[i] = letter
  /\ Letters!Recipients = {} => got = <<>> /\ cursor = 0
  /\ Letters!InboxComplete

LEMMA AppendIs ==
  ASSUME NEW S, NEW s \in Seq(S), NEW x \in S
  PROVE  /\ Append(s, x) \in Seq(S) /\ Len(Append(s, x)) = Len(s) + 1 /\ Len(s) \in Nat
         /\ DOMAIN s = 1 .. Len(s) /\ DOMAIN Append(s, x) = 1 .. Len(s) + 1
         /\ \A i \in DOMAIN s : Append(s, x)[i] = s[i]
         /\ Append(s, x)[Len(s) + 1] = x
OBVIOUS

LEMMA LettersBegin ==
  ASSUME Letters!WindowsInit
  PROVE  LetterInv
<1>1. memory = [windows |-> <<>>, reports |-> <<>>] /\ document = memory /\ told = {} /\ cursor = 0 /\ got = <<>>
  BY DEF Letters!WindowsInit, Letters!Empty
<1>2. memory \in [windows : Seq(Doors), reports : Seq(Mail)] /\ got \in Seq(Mail)
  BY <1>1
<1>3. DOMAIN memory.reports = {} /\ Len(memory.reports) = 0 /\ DOMAIN got = {}
  BY <1>1
<1>4. Letters!InboxComplete
  BY <1>1, <1>3 DEF Letters!InboxComplete, Letters!Range, Letters!Addressed
<1>. QED
  BY <1>1, <1>2, <1>3, <1>4 DEF LetterInv

LEMMA WritesIs ==
  ASSUME LetterInv, NEW next, NEW letter, Letters!Writes(next, letter)
  PROVE  /\ document' = memory' /\ (memory' = next \/ memory' = memory)
         /\ told' = told \/ (memory' = next /\ told' = told \cup letter)
BY DEF LetterInv, Letters!Writes

\* A window is never lost and keeps its sides, so who is read for does not change once there is one.
LEMMA RecipientsStay ==
  ASSUME reader' = reader, DOMAIN memory.windows \subseteq DOMAIN memory'.windows,
         \A i \in DOMAIN memory.windows : /\ memory'.windows[i].origin = memory.windows[i].origin
                                          /\ memory'.windows[i].project = memory.windows[i].project
  PROVE  Letters!Recipients' = Letters!Recipients \/ Letters!Recipients = {}
<1>1. CASE ~reader.projectSide
  BY <1>1 DEF Letters!Recipients, Letters!Own
<1>2. CASE reader.projectSide
  <2>. DEFINE one == {j \in DOMAIN memory.windows : j = reader.window /\ memory.windows[j].origin = reader.root}
  <2>1. Letters!Recipients = {memory.windows[i].project : i \in one}
    BY <1>2 DEF Letters!Recipients
  <2>2. Letters!Recipients' = {memory'.windows[i].project : i \in {j \in DOMAIN memory'.windows : j = reader.window /\ memory'.windows[j].origin = reader.root}}
    BY <1>2 DEF Letters!Recipients
  <2>3. one = {} \/ one = {reader.window}
    OBVIOUS
  <2>4. CASE one = {}
    BY <2>1, <2>4
  <2>5. CASE one = {reader.window}
    <3>1. {j \in DOMAIN memory'.windows : j = reader.window /\ memory'.windows[j].origin = reader.root} = {reader.window}
      BY <2>5
    <3>2. memory'.windows[reader.window].project = memory.windows[reader.window].project
      BY <2>5
    <3>. QED
      BY <2>1, <2>2, <2>5, <3>1, <3>2
  <2>. QED
    BY <2>3, <2>4, <2>5
<1>. QED
  BY <1>1, <1>2

LEMMA OneRecipient ==
  ASSUME NEW a \in Letters!Recipients, NEW b \in Letters!Recipients
  PROVE  a = b
BY DEF Letters!Recipients

\* A reader that has nothing has all there is up to nothing.
LEMMA NoneYet ==
  ASSUME LetterInv, got = <<>>, cursor = 0, NEW recipient
  PROVE  Letters!Range(got) = {memory.reports[i] : i \in {j \in Letters!Addressed(recipient) : memory.reports[j].sequence <= cursor}}
<1>1. DOMAIN memory.reports = 1 .. Len(memory.reports) /\ Len(memory.reports) \in Nat
  BY DEF LetterInv
<1>2. {j \in Letters!Addressed(recipient) : memory.reports[j].sequence <= cursor} = {}
  BY <1>1 DEF LetterInv, Letters!Addressed
<1>3. DOMAIN got = {}
  OBVIOUS
<1>. QED
  BY <1>2, <1>3 DEF Letters!Range

LEMMA WindowsChange ==
  ASSUME LetterInv, memory' \in [windows : Seq(Doors), reports : Seq(Mail)], document' = memory',
         memory'.reports = memory.reports, told' = told, UNCHANGED <<reader, cursor, got>>,
         DOMAIN memory.windows \subseteq DOMAIN memory'.windows,
         \A i \in DOMAIN memory.windows : /\ memory'.windows[i].origin = memory.windows[i].origin
                                          /\ memory'.windows[i].project = memory.windows[i].project
  PROVE  LetterInv'
<1>1. Letters!Recipients' = Letters!Recipients \/ Letters!Recipients = {}
  BY RecipientsStay
<1>2. Letters!InboxComplete'
  <2>1. ASSUME NEW recipient \in Letters!Recipients'
        PROVE  Letters!Range(got') = {memory'.reports[i] : i \in {j \in Letters!Addressed(recipient)' : memory'.reports[j].sequence <= cursor'}}
    <3>0. Letters!Addressed(recipient)' = Letters!Addressed(recipient)
      BY DEF Letters!Addressed
    <3>. SUFFICES Letters!Range(got) = {memory.reports[i] : i \in {j \in Letters!Addressed(recipient) : memory.reports[j].sequence <= cursor}}
      BY <3>0
    <3>1. CASE recipient \in Letters!Recipients
      BY <3>1 DEF LetterInv, Letters!InboxComplete
    <3>2. CASE Letters!Recipients = {}
      BY <3>2, NoneYet DEF LetterInv
    <3>. QED
      BY <1>1, <2>1, <3>1, <3>2
  <2>3. \A k, l \in DOMAIN got : k < l => got[k].sequence < got[l].sequence
    BY DEF LetterInv, Letters!InboxComplete
  <2>. QED
    BY <2>1, <2>3 DEF Letters!InboxComplete, Letters!Range
<1>3. ASSUME NEW i \in DOMAIN memory'.reports
      PROVE  LET r == memory'.reports[i] IN
             r.sequence = i /\ r.window \in DOMAIN memory'.windows /\ Sides(r, memory'.windows[r.window])
  <2>1. i \in DOMAIN memory.reports
    OBVIOUS
  <2>. DEFINE r == memory.reports[i]
  <2>2. r.sequence = i /\ r.window \in DOMAIN memory.windows /\ Sides(r, memory.windows[r.window])
    BY <2>1 DEF LetterInv
  <2>3. Sides(r, memory'.windows[r.window])
    BY <2>2 DEF Sides
  <2>. QED
    BY <2>2, <2>3
<1>. QED
  BY <1>1, <1>2, <1>3 DEF LetterInv

LEMMA WritesNothing ==
  ASSUME LetterInv, Letters!Writes(memory, {}), UNCHANGED <<reader, cursor, got>>
  PROVE  LetterInv'
<1>1. document' = memory' /\ memory' = memory /\ told' = told
  BY WritesIs
<1>2. memory' \in [windows : Seq(Doors), reports : Seq(Mail)]
  BY <1>1 DEF LetterInv
<1>. QED
  BY <1>1, <1>2, WindowsChange

LEMMA CreateSafe ==
  ASSUME LetterInv, NEW origin \in Root, NEW project \in Root, NEW agent \in Agent, Letters!Create(origin, project, agent)
  PROVE  LetterInv'
<1>. DEFINE triple == [origin |-> origin, project |-> project, agent |-> agent, layout |-> NoLayout]
<1>1. triple \in Doors
  BY DEF Doors
<1>2. UNCHANGED <<reader, cursor, got>>
  BY DEF Letters!Create
<1>3. \/ Letters!Writes(memory, {})
      \/ Letters!Writes([memory EXCEPT !.windows = Append(@, triple)], {})
  BY DEF Letters!Create
<1>. HIDE DEF triple
<1>4. CASE Letters!Writes(memory, {})
  BY <1>2, <1>4, WritesNothing
<1>5. CASE Letters!Writes([memory EXCEPT !.windows = Append(@, triple)], {})
  <2>. DEFINE next == [memory EXCEPT !.windows = Append(@, triple)]
  <2>1. document' = memory' /\ told' = told /\ (memory' = memory \/ memory' = next)
    <3>1. Letters!Writes(next, {})
      BY <1>5
    <3>. HIDE DEF next
    <3>. QED
      BY <3>1, WritesIs
  <2>2. CASE memory' = memory
    BY <1>2, <2>1, <2>2, WindowsChange DEF LetterInv
  <2>3. CASE memory' = [memory EXCEPT !.windows = Append(@, triple)]
    <3>1. memory \in [windows : Seq(Doors), reports : Seq(Mail)] /\ memory.windows \in Seq(Doors)
      BY DEF LetterInv
    <3>2. memory'.windows = Append(memory.windows, triple) /\ memory'.reports = memory.reports
      BY <2>3, <3>1
    <3>3. /\ Append(memory.windows, triple) \in Seq(Doors)
          /\ DOMAIN memory.windows \subseteq DOMAIN Append(memory.windows, triple)
          /\ \A i \in DOMAIN memory.windows : Append(memory.windows, triple)[i] = memory.windows[i]
      BY <1>1, <3>1, AppendIs
    <3>4. memory' \in [windows : Seq(Doors), reports : Seq(Mail)]
      BY <2>3, <3>1, <3>3
    <3>. QED
      BY <1>2, <2>1, <3>2, <3>3, <3>4, WindowsChange
  <2>. QED
    BY <2>1, <2>2, <2>3
<1>. QED
  BY <1>3, <1>4, <1>5

LEMMA SaveLayoutSafe ==
  ASSUME LetterInv, NEW id, NEW layout \in Layout, Letters!SaveLayout(id, layout)
  PROVE  LetterInv'
<1>1. /\ id \in DOMAIN memory.windows /\ UNCHANGED <<reader, cursor, got>>
      /\ Letters!Writes([memory EXCEPT !.windows[id].layout = layout], {})
  BY DEF Letters!SaveLayout
<1>2. document' = memory' /\ told' = told /\ (memory' = memory \/ memory' = [memory EXCEPT !.windows[id].layout = layout])
  BY <1>1, WritesIs
<1>3. CASE memory' = memory
  BY <1>1, <1>2, <1>3, WindowsChange DEF LetterInv
<1>4. CASE memory' = [memory EXCEPT !.windows[id].layout = layout]
  <2>1. memory \in [windows : Seq(Doors), reports : Seq(Mail)] /\ memory.windows \in Seq(Doors) /\ memory.windows[id] \in Doors
    BY <1>1 DEF LetterInv
  <2>. DEFINE door == [memory.windows[id] EXCEPT !.layout = layout]
  <2>. DEFINE ws == [memory.windows EXCEPT ![id] = door]
  <2>2. memory' = [memory EXCEPT !.windows = ws]
    BY <1>4
  <2>3. door \in Doors /\ door.origin = memory.windows[id].origin /\ door.project = memory.windows[id].project
    BY <2>1 DEF Doors
  <2>. HIDE DEF door
  <2>4. ws \in Seq(Doors) /\ DOMAIN ws = DOMAIN memory.windows
    BY <1>1, <2>1, <2>3
  <2>5. \A i \in DOMAIN memory.windows : ws[i].origin = memory.windows[i].origin /\ ws[i].project = memory.windows[i].project
    BY <1>1, <2>1, <2>3
  <2>. HIDE DEF ws
  <2>6. memory'.windows = ws /\ memory'.reports = memory.reports /\ memory' \in [windows : Seq(Doors), reports : Seq(Mail)]
    BY <2>1, <2>2, <2>4
  <2>. QED
    BY <1>1, <1>2, <2>4, <2>5, <2>6, WindowsChange
<1>. QED
  BY <1>2, <1>3, <1>4

\* A letter that is new, kept under the next number.
LEMMA KeptLetter ==
  ASSUME LetterInv, NEW letter \in Mail, UNCHANGED <<reader, cursor, got>>,
         letter.sequence = Len(memory.reports) + 1, letter.window \in DOMAIN memory.windows,
         Sides(letter, memory.windows[letter.window]),
         Letters!Existing(letter.window, letter.sender, letter.key) = {},
         memory' = [memory EXCEPT !.reports = Append(@, letter)], document' = memory',
         told' = told \/ told' = told \cup {letter}
  PROVE  LetterInv'
<1>. DEFINE n == Len(memory.reports)
<1>1. /\ memory \in [windows : Seq(Doors), reports : Seq(Mail)] /\ memory.reports \in Seq(Mail)
      /\ cursor \in 0 .. Len(memory.reports)
  BY DEF LetterInv
<1>2. memory'.windows = memory.windows /\ memory'.reports = Append(memory.reports, letter)
  BY <1>1
<1>3. /\ memory'.reports \in Seq(Mail) /\ Len(memory'.reports) = n + 1 /\ n \in Nat
      /\ DOMAIN memory.reports = 1 .. n /\ DOMAIN memory'.reports = 1 .. n + 1
      /\ \A i \in 1 .. n : memory'.reports[i] = memory.reports[i]
      /\ memory'.reports[n + 1] = letter
  BY <1>1, <1>2, AppendIs
<1>4. memory' \in [windows : Seq(Doors), reports : Seq(Mail)]
  BY <1>1, <1>2, <1>3
<1>5. ASSUME NEW i \in DOMAIN memory'.reports
      PROVE  LET r == memory'.reports[i] IN
             r.sequence = i /\ r.window \in DOMAIN memory'.windows /\ Sides(r, memory'.windows[r.window])
  <2>1. CASE i = n + 1
    BY <1>2, <1>3, <2>1
  <2>2. CASE i \in 1 .. n
    BY <1>2, <1>3, <2>2 DEF LetterInv
  <2>. QED
    BY <1>3, <2>1, <2>2
<1>6. ASSUME NEW i \in DOMAIN memory'.reports, NEW j \in DOMAIN memory'.reports,
             memory'.reports[i].window = memory'.reports[j].window, memory'.reports[i].sender = memory'.reports[j].sender,
             memory'.reports[i].key = memory'.reports[j].key
      PROVE  i = j
  <2>1. \A k \in 1 .. n : ~(memory.reports[k].window = letter.window /\ memory.reports[k].sender = letter.sender /\ memory.reports[k].key = letter.key)
    BY <1>3 DEF Letters!Existing
  <2>2. CASE i \in 1 .. n /\ j \in 1 .. n
    <3>1. \A k, l \in DOMAIN memory.reports :
            (memory.reports[k].window = memory.reports[l].window /\ memory.reports[k].sender = memory.reports[l].sender
               /\ memory.reports[k].key = memory.reports[l].key) => k = l
      BY DEF LetterInv
    <3>2. memory'.reports[i] = memory.reports[i] /\ memory'.reports[j] = memory.reports[j]
      BY <1>3, <2>2
    <3>. QED
      BY <1>3, <1>6, <2>2, <3>1, <3>2
  <2>3. CASE i = n + 1 /\ j \in 1 .. n
    BY <1>3, <1>6, <2>1, <2>3
  <2>4. CASE j = n + 1 /\ i \in 1 .. n
    BY <1>3, <1>6, <2>1, <2>4
  <2>. QED
    BY <1>3, <2>2, <2>3, <2>4
<1>7. \A l \in told' : \E i \in DOMAIN memory'.reports : memory'.reports[i] = l
  <2>1. ASSUME NEW l \in told PROVE \E i \in DOMAIN memory'.reports : memory'.reports[i] = l
    <3>1. PICK i \in DOMAIN memory.reports : memory.reports[i] = l
      BY DEF LetterInv
    <3>. QED
      BY <1>3, <3>1
  <2>2. \E i \in DOMAIN memory'.reports : memory'.reports[i] = letter
    BY <1>3
  <2>. QED
    BY <2>1, <2>2
<1>8. Letters!Recipients' = Letters!Recipients
  BY <1>2 DEF Letters!Recipients, Letters!Own
<1>9. Letters!InboxComplete'
  <2>1. ASSUME NEW recipient \in Letters!Recipients'
        PROVE  Letters!Range(got') = {memory'.reports[i] : i \in {j \in Letters!Addressed(recipient)' : memory'.reports[j].sequence <= cursor'}}
    <3>. DEFINE old == {j \in Letters!Addressed(recipient) : memory.reports[j].sequence <= cursor}
    <3>. DEFINE new == {j \in Letters!Addressed(recipient)' : memory'.reports[j].sequence <= cursor'}
    <3>1. Letters!Range(got) = {memory.reports[i] : i \in old}
      BY <1>8 DEF LetterInv, Letters!InboxComplete
    <3>2. old \subseteq 1 .. n
      BY <1>3 DEF Letters!Addressed
    <3>3. new = old
      <4>1. \A j \in new : j \in 1 .. n
        BY <1>1, <1>3 DEF Letters!Addressed
      <4>2. ASSUME NEW j \in 1 .. n PROVE j \in new <=> j \in old
        BY <1>3 DEF Letters!Addressed
      <4>. QED
        BY <3>2, <4>1, <4>2
    <3>. HIDE DEF old, new
    <3>4. {memory'.reports[i] : i \in old} = {memory.reports[i] : i \in old}
      BY <1>3, <3>2
    <3>. QED
      BY <3>1, <3>3, <3>4 DEF new, Letters!Range
  <2>2. \A k, l \in DOMAIN got : k < l => got[k].sequence < got[l].sequence
    BY DEF LetterInv, Letters!InboxComplete
  <2>. QED
    BY <2>1, <2>2 DEF Letters!InboxComplete
<1>10. cursor' \in 0 .. Len(memory'.reports) /\ got' \in Seq(Mail) /\ (Letters!Recipients' = {} => got' = <<>> /\ cursor' = 0)
  BY <1>1, <1>3, <1>8 DEF LetterInv
<1>11. \A i, j \in DOMAIN memory'.reports :
         LET r == memory'.reports[i]
             s == memory'.reports[j] IN
         r.window = s.window /\ r.sender = s.sender /\ r.key = s.key => i = j
  BY <1>6
<1>. QED
  BY <1>4, <1>5, <1>7, <1>9, <1>10, <1>11 DEF LetterInv

LEMMA ReportSafe ==
  ASSUME LetterInv, NEW root \in Root, NEW id, NEW asProject, NEW claims, NEW key \in Key, NEW content \in Content,
         Letters!Report(root, id, asProject, claims, key, content)
  PROVE  LetterInv'
<1>. DEFINE w == memory.windows[id]
<1>. DEFINE sender == IF asProject THEN w.project ELSE root
<1>. DEFINE letter == [window |-> id, by |-> root, sender |-> sender,
                       destination |-> IF sender = w.origin THEN w.project ELSE w.origin,
                       key |-> key, content |-> content, sequence |-> Letters!NextSequence]
<1>1. id \in DOMAIN memory.windows /\ root \in {w.origin, w.project} /\ UNCHANGED <<reader, cursor, got>>
  BY DEF Letters!Report, Letters!Own
<1>2. id \in Nat /\ memory.reports \in Seq(Mail) /\ w \in Doors /\ memory \in [windows : Seq(Doors), reports : Seq(Mail)]
  BY <1>1 DEF LetterInv
<1>3. Letters!NextSequence = Len(memory.reports) + 1 /\ Letters!NextSequence \in Nat
  <2>1. DOMAIN memory.reports = 1 .. Len(memory.reports) /\ Len(memory.reports) \in Nat
    BY <1>2
  <2>2. CASE memory.reports = <<>>
    BY <2>1, <2>2 DEF Letters!NextSequence
  <2>3. CASE memory.reports # <<>>
    <3>1. Len(memory.reports) \in DOMAIN memory.reports
      BY <1>2, <2>1, <2>3, EmptySeq
    <3>2. memory.reports[Len(memory.reports)].sequence = Len(memory.reports)
      BY <3>1 DEF LetterInv
    <3>. QED
      BY <2>1, <2>3, <3>2 DEF Letters!NextSequence, Letters!Last
  <2>. QED
    BY <2>2, <2>3
<1>4. sender \in {w.origin, w.project} /\ sender \in Root
  BY <1>1, <1>2 DEF Doors
<1>5. /\ letter \in Mail /\ letter.sequence = Len(memory.reports) + 1 /\ letter.window = id /\ letter.sender = sender /\ letter.key = key
      /\ {letter.sender, letter.destination} = {w.origin, w.project}
  BY <1>2, <1>3, <1>4 DEF Mail, Doors
<1>6. \/ /\ Letters!Existing(id, sender, key) = {}
         /\ Letters!Writes([memory EXCEPT !.reports = Append(@, letter)], {letter})
      \/ \E i \in Letters!Existing(id, sender, key) : Letters!Writes(memory, {memory.reports[i]})
  BY DEF Letters!Report
<1>. HIDE DEF letter, sender
<1>7. CASE /\ Letters!Existing(id, sender, key) = {}
           /\ Letters!Writes([memory EXCEPT !.reports = Append(@, letter)], {letter})
  <2>1. /\ document' = memory' /\ (memory' = [memory EXCEPT !.reports = Append(@, letter)] \/ memory' = memory)
        /\ told' = told \/ (memory' = [memory EXCEPT !.reports = Append(@, letter)] /\ told' = told \cup {letter})
    BY <1>7, WritesIs
  <2>2. CASE memory' = [memory EXCEPT !.reports = Append(@, letter)]
    <3>1. Sides(letter, memory.windows[letter.window]) /\ letter.window \in DOMAIN memory.windows
      BY <1>1, <1>5 DEF Sides
    <3>2. Letters!Existing(letter.window, letter.sender, letter.key) = {}
      BY <1>5, <1>7
    <3>3. told' = told \/ told' = told \cup {letter}
      BY <2>1
    <3>. QED
      BY <1>1, <1>5, <2>1, <2>2, <3>1, <3>2, <3>3, KeptLetter
  <2>3. CASE memory' = memory /\ told' = told
    BY <1>1, <1>2, <2>1, <2>3, WindowsChange
  <2>. QED
    BY <2>1, <2>2, <2>3
<1>8. ASSUME NEW i \in Letters!Existing(id, sender, key), Letters!Writes(memory, {memory.reports[i]})
      PROVE  LetterInv'
  <2>1. document' = memory' /\ memory' = memory /\ (told' = told \/ told' = told \cup {memory.reports[i]})
    BY <1>8, WritesIs
  <2>2. i \in DOMAIN memory.reports
    BY DEF Letters!Existing
  <2>3. \A l \in told' : \E k \in DOMAIN memory.reports : memory.reports[k] = l
    BY <2>1, <2>2 DEF LetterInv
  <2>4. Letters!Recipients' = Letters!Recipients /\ (Letters!InboxComplete => Letters!InboxComplete')
    BY <1>1, <2>1 DEF Letters!Recipients, Letters!Own, Letters!InboxComplete, Letters!Addressed
  <2>. QED
    BY <1>1, <2>1, <2>3, <2>4 DEF LetterInv
<1>. QED
  BY <1>6, <1>7, <1>8

\* Letters put after those a reader has.
LEMMA ConcatIs ==
  ASSUME NEW S, NEW s \in Seq(S), NEW t \in Seq(S)
  PROVE  /\ s \o t \in Seq(S)
         /\ \A k \in DOMAIN (s \o t) : \/ k \in DOMAIN s /\ (s \o t)[k] = s[k]
                                       \/ k - Len(s) \in DOMAIN t /\ (s \o t)[k] = t[k - Len(s)] /\ k > Len(s)
         /\ \A k \in DOMAIN s : k \in DOMAIN (s \o t) /\ (s \o t)[k] = s[k] /\ k \in Nat /\ k <= Len(s)
         /\ \A k \in DOMAIN t : k + Len(s) \in DOMAIN (s \o t) /\ (s \o t)[k + Len(s)] = t[k]
         /\ Len(s) \in Nat
<1>1. /\ s \o t \in Seq(S) /\ Len(s) \in Nat /\ Len(t) \in Nat /\ DOMAIN s = 1 .. Len(s) /\ DOMAIN t = 1 .. Len(t)
      /\ DOMAIN (s \o t) = 1 .. Len(s) + Len(t)
      /\ \A k \in 1 .. Len(s) + Len(t) : (s \o t)[k] = IF k <= Len(s) THEN s[k] ELSE t[k - Len(s)]
  BY ConcatProperties
<1>2. ASSUME NEW k \in DOMAIN (s \o t)
      PROVE  \/ k \in DOMAIN s /\ (s \o t)[k] = s[k]
             \/ k - Len(s) \in DOMAIN t /\ (s \o t)[k] = t[k - Len(s)] /\ k > Len(s)
  BY <1>1
<1>. QED
  BY <1>1, <1>2

\* The letters of a page: none, or those the reader lacks up to the last of them.
PageOf(waiting) == [k \in 1 .. (IF Len(waiting) < Page THEN Len(waiting) ELSE Page) |-> memory.reports[waiting[k]]]

LEMMA PageIs ==
  ASSUME LetterInv, Page \in Nat, NEW S, S \subseteq DOMAIN memory.reports, NEW waiting \in Letters!InOrder(S)
  PROVE  LET taken == PageOf(waiting) IN
         /\ taken \in Seq(Mail)
         /\ \A k \in DOMAIN taken : waiting[k] \in S /\ taken[k] = memory.reports[waiting[k]] /\ taken[k].sequence = waiting[k]
         /\ \A k, l \in DOMAIN taken : k < l => taken[k].sequence < taken[l].sequence
         /\ taken # <<>> => /\ \A k \in DOMAIN taken : taken[k].sequence <= Letters!CursorOf(taken)
                            /\ Letters!CursorOf(taken) \in S
                            /\ \A i \in S : i <= Letters!CursorOf(taken) => \E k \in DOMAIN taken : taken[k] = memory.reports[i]
         /\ taken = <<>> => Letters!CursorOf(taken) = cursor /\ DOMAIN taken = {}
<1>. DEFINE taken == PageOf(waiting)
<1>. DEFINE n == IF Len(waiting) < Page THEN Len(waiting) ELSE Page
<1>1. /\ memory.reports \in Seq(Mail) /\ Len(memory.reports) \in Nat /\ DOMAIN memory.reports = 1 .. Len(memory.reports)
      /\ \A i \in DOMAIN memory.reports : memory.reports[i] \in Mail /\ memory.reports[i].sequence = i
  BY DEF LetterInv
<1>2. Cardinality(S) \in Nat
  <2>1. IsFiniteSet(1 .. Len(memory.reports))
    BY <1>1, FS_Interval
  <2>2. S \in SUBSET (1 .. Len(memory.reports))
    BY <1>1
  <2>3. IsFiniteSet(S)
    BY <2>1, <2>2, FS_Subset
  <2>. QED
    BY <2>3, FS_CardinalityType
<1>3. /\ waiting \in [1 .. Cardinality(S) -> S] /\ \A i \in S : \E k \in DOMAIN waiting : waiting[k] = i
      /\ \A k, l \in DOMAIN waiting : k < l => waiting[k] < waiting[l]
  BY DEF Letters!InOrder, Letters!Cardinality, Cardinality
<1>4. waiting \in Seq(S) /\ Len(waiting) = Cardinality(S) /\ DOMAIN waiting = 1 .. Len(waiting)
  BY <1>2, <1>3
<1>5. n \in Nat /\ n <= Len(waiting)
  BY <1>2, <1>4
<1>6. taken = [k \in 1 .. n |-> memory.reports[waiting[k]]]
  BY DEF PageOf
<1>. HIDE DEF n, taken
<1>7. \A k \in 1 .. n : k \in DOMAIN waiting /\ waiting[k] \in S /\ waiting[k] \in Nat
  BY <1>1, <1>3, <1>4, <1>5
<1>8. taken \in Seq(Mail) /\ DOMAIN taken = 1 .. n /\ Len(taken) = n
  BY <1>1, <1>5, <1>6, <1>7
<1>9. \A k \in DOMAIN taken : waiting[k] \in S /\ taken[k] = memory.reports[waiting[k]] /\ taken[k].sequence = waiting[k]
  BY <1>1, <1>6, <1>7, <1>8
<1>10. \A k, l \in DOMAIN taken : k < l => taken[k].sequence < taken[l].sequence
  <2>. SUFFICES ASSUME NEW k \in DOMAIN taken, NEW l \in DOMAIN taken, k < l
       PROVE  taken[k].sequence < taken[l].sequence
    OBVIOUS
  <2>1. k \in DOMAIN waiting /\ l \in DOMAIN waiting
    BY <1>7, <1>8
  <2>2. waiting[k] < waiting[l]
    BY <1>3, <2>1
  <2>. QED
    BY <1>9, <2>2
<1>11. ASSUME taken # <<>>
       PROVE  /\ \A k \in DOMAIN taken : taken[k].sequence <= Letters!CursorOf(taken)
              /\ Letters!CursorOf(taken) \in S
              /\ \A i \in S : i <= Letters!CursorOf(taken) => \E k \in DOMAIN taken : taken[k] = memory.reports[i]
  <2>1. n # 0
    BY <1>8, <1>11, EmptySeq
  <2>2. n \in DOMAIN taken /\ n \in 1 .. n
    BY <1>5, <1>8, <2>1
  <2>3. Letters!CursorOf(taken) = taken[n].sequence
    BY <1>8, <1>11 DEF Letters!CursorOf, Letters!Last
  <2>4. Letters!CursorOf(taken) = waiting[n]
    BY <1>9, <2>2, <2>3
  <2>5. \A k \in DOMAIN taken : taken[k].sequence <= waiting[n]
    <3>. SUFFICES ASSUME NEW k \in DOMAIN taken PROVE waiting[k] <= waiting[n]
      BY <1>9
    <3>1. k = n \/ k < n
      BY <1>5, <1>8
    <3>2. waiting[k] \in Nat /\ waiting[n] \in Nat /\ k \in DOMAIN waiting /\ n \in DOMAIN waiting
      BY <1>7, <1>8, <2>2
    <3>. QED
      BY <1>3, <3>1, <3>2
  <2>6. ASSUME NEW i \in S, i <= waiting[n] PROVE \E k \in DOMAIN taken : taken[k] = memory.reports[i]
    <3>1. PICK k \in DOMAIN waiting : waiting[k] = i
      BY <1>3
    <3>2. n \in DOMAIN waiting /\ waiting[n] \in Nat /\ waiting[k] \in Nat
      BY <1>1, <1>7, <2>2, <3>1
    <3>3. ~(n < k)
      BY <1>3, <2>6, <3>1, <3>2
    <3>4. k \in DOMAIN taken
      BY <1>4, <1>5, <1>8, <3>3, <3>2
    <3>. QED
      BY <1>9, <3>1, <3>4
  <2>. QED
    BY <1>7, <2>2, <2>4, <2>5, <2>6
<1>12. ASSUME taken = <<>> PROVE Letters!CursorOf(taken) = cursor /\ DOMAIN taken = {}
  BY <1>12 DEF Letters!CursorOf
<1>. QED
  BY <1>8, <1>9, <1>10, <1>11, <1>12 DEF taken

LEMMA InboxSafe ==
  ASSUME LetterInv, Page \in Nat, Letters!Inbox
  PROVE  LetterInv'
<1>1. PICK recipient \in Letters!Recipients :
        \E waiting \in Letters!InOrder({i \in Letters!Addressed(recipient) : memory.reports[i].sequence > cursor}) :
          LET taken == [k \in 1 .. (IF Len(waiting) < Page THEN Len(waiting) ELSE Page) |-> memory.reports[waiting[k]]] IN
          /\ got' = got \o taken /\ cursor' = Letters!CursorOf(taken)
          /\ UNCHANGED <<memory, document, told, reader, ends>>
  BY DEF Letters!Inbox
<1>. DEFINE S == {i \in Letters!Addressed(recipient) : memory.reports[i].sequence > cursor}
<1>2. PICK waiting \in Letters!InOrder(S) :
          LET taken == [k \in 1 .. (IF Len(waiting) < Page THEN Len(waiting) ELSE Page) |-> memory.reports[waiting[k]]] IN
          /\ got' = got \o taken /\ cursor' = Letters!CursorOf(taken)
          /\ UNCHANGED <<memory, document, told, reader, ends>>
  BY <1>1
<1>. DEFINE taken == PageOf(waiting)
<1>3. got' = got \o taken /\ cursor' = Letters!CursorOf(taken) /\ UNCHANGED <<memory, document, told, reader>>
  BY <1>2 DEF PageOf
<1>4. S \subseteq DOMAIN memory.reports
  BY DEF Letters!Addressed
<1>5. /\ taken \in Seq(Mail)
      /\ \A k \in DOMAIN taken : waiting[k] \in S /\ taken[k] = memory.reports[waiting[k]] /\ taken[k].sequence = waiting[k]
      /\ \A k, l \in DOMAIN taken : k < l => taken[k].sequence < taken[l].sequence
      /\ taken # <<>> => /\ \A k \in DOMAIN taken : taken[k].sequence <= Letters!CursorOf(taken)
                         /\ Letters!CursorOf(taken) \in S
                         /\ \A i \in S : i <= Letters!CursorOf(taken) => \E k \in DOMAIN taken : taken[k] = memory.reports[i]
      /\ taken = <<>> => Letters!CursorOf(taken) = cursor /\ DOMAIN taken = {}
  <2>. HIDE DEF S
  <2>. QED
    BY <1>4, PageIs
<1>. HIDE DEF taken
<1>6. /\ got \in Seq(Mail) /\ cursor \in 0 .. Len(memory.reports) /\ memory.reports \in Seq(Mail)
      /\ DOMAIN memory.reports = 1 .. Len(memory.reports) /\ Len(memory.reports) \in Nat
      /\ \A i \in DOMAIN memory.reports : memory.reports[i].sequence = i
  BY DEF LetterInv
<1>7. /\ got' \in Seq(Mail)
      /\ \A k \in DOMAIN got' : \/ k \in DOMAIN got /\ got'[k] = got[k]
                                \/ k - Len(got) \in DOMAIN taken /\ got'[k] = taken[k - Len(got)] /\ k > Len(got)
      /\ \A k \in DOMAIN got : k \in DOMAIN got' /\ got'[k] = got[k] /\ k \in Nat /\ k <= Len(got)
      /\ \A k \in DOMAIN taken : k + Len(got) \in DOMAIN got' /\ got'[k + Len(got)] = taken[k]
      /\ Len(got) \in Nat /\ DOMAIN got' \subseteq Nat /\ DOMAIN taken \subseteq Nat
  <2>1. DOMAIN taken \subseteq Nat
    BY <1>5
  <2>2. got' \in Seq(Mail)
    BY <1>3, <1>5, <1>6, ConcatIs
  <2>3. DOMAIN got' \subseteq Nat
    BY <2>2
  <2>4. /\ \A k \in DOMAIN (got \o taken) : \/ k \in DOMAIN got /\ (got \o taken)[k] = got[k]
                                            \/ k - Len(got) \in DOMAIN taken /\ (got \o taken)[k] = taken[k - Len(got)] /\ k > Len(got)
        /\ \A k \in DOMAIN got : k \in DOMAIN (got \o taken) /\ (got \o taken)[k] = got[k] /\ k \in Nat /\ k <= Len(got)
        /\ \A k \in DOMAIN taken : k + Len(got) \in DOMAIN (got \o taken) /\ (got \o taken)[k + Len(got)] = taken[k]
        /\ Len(got) \in Nat
    <3>1. got \in Seq(Mail) /\ taken \in Seq(Mail)
      BY <1>5, <1>6
    <3>. QED
      BY <3>1, ConcatIs
  <2>. QED
    BY <1>3, <2>1, <2>2, <2>3, <2>4, Zenon
<1>8. /\ Letters!Range(got) = {memory.reports[i] : i \in {j \in Letters!Addressed(recipient) : memory.reports[j].sequence <= cursor}}
      /\ \A k, l \in DOMAIN got : k < l => got[k].sequence < got[l].sequence
  BY DEF LetterInv, Letters!InboxComplete
<1>9. \A i \in S : i \in Letters!Addressed(recipient) /\ i \in DOMAIN memory.reports /\ i > cursor
  BY <1>4, <1>6
<1>10. cursor' \in 0 .. Len(memory.reports) /\ cursor' >= cursor
  BY <1>3, <1>4, <1>5, <1>6, <1>9
<1>11. \A k \in DOMAIN got : got[k].sequence \in Nat /\ got[k].sequence <= cursor
  <2>. SUFFICES ASSUME NEW k \in DOMAIN got PROVE got[k].sequence \in Nat /\ got[k].sequence <= cursor
    OBVIOUS
  <2>1. got[k] \in Letters!Range(got)
    BY DEF Letters!Range
  <2>2. PICK i \in {j \in Letters!Addressed(recipient) : memory.reports[j].sequence <= cursor} : got[k] = memory.reports[i]
    BY <1>8, <2>1
  <2>. QED
    BY <1>6, <2>2 DEF Letters!Addressed
<1>12. \A k, l \in DOMAIN got' : k < l => got'[k].sequence < got'[l].sequence
  <2>. SUFFICES ASSUME NEW k \in DOMAIN got', NEW l \in DOMAIN got', k < l PROVE got'[k].sequence < got'[l].sequence
    OBVIOUS
  <2>0. k \in Nat /\ l \in Nat
    BY <1>7
  <2>1. CASE k \in DOMAIN got /\ l \in DOMAIN got
    BY <1>7, <1>8, <2>1
  <2>2. CASE k \in DOMAIN got /\ l - Len(got) \in DOMAIN taken /\ got'[l] = taken[l - Len(got)]
    <3>. DEFINE m == l - Len(got)
    <3>1. m \in DOMAIN taken /\ got'[l] = taken[m]
      BY <2>2
    <3>. HIDE DEF m
    <3>2. got'[l].sequence = waiting[m] /\ waiting[m] \in S
      BY <1>5, <3>1
    <3>3. waiting[m] \in Nat /\ waiting[m] > cursor
      BY <1>6, <1>9, <3>2
    <3>4. got'[k] = got[k] /\ got[k].sequence \in Nat /\ got[k].sequence <= cursor
      BY <1>7, <1>11, <2>2
    <3>. QED
      BY <1>6, <3>2, <3>3, <3>4
  <2>3. CASE /\ k - Len(got) \in DOMAIN taken /\ got'[k] = taken[k - Len(got)]
             /\ l - Len(got) \in DOMAIN taken /\ got'[l] = taken[l - Len(got)]
    <3>1. k - Len(got) < l - Len(got)
      BY <1>7, <2>0
    <3>. QED
      BY <1>5, <2>3, <3>1
  <2>4. CASE l \in DOMAIN got /\ k > Len(got)
    BY <1>7, <2>0, <2>4
  <2>. QED
    BY <1>7, <2>1, <2>2, <2>3, <2>4
<1>13. Letters!Range(got') = {memory.reports[i] : i \in {j \in Letters!Addressed(recipient) : memory.reports[j].sequence <= cursor'}}
  <2>. DEFINE old == {j \in Letters!Addressed(recipient) : memory.reports[j].sequence <= cursor}
  <2>. DEFINE new == {j \in Letters!Addressed(recipient) : memory.reports[j].sequence <= cursor'}
  <2>0. \A j \in Letters!Addressed(recipient) : j \in DOMAIN memory.reports /\ memory.reports[j].sequence = j /\ j \in Nat
    BY <1>6 DEF Letters!Addressed
  <2>1. ASSUME NEW k \in DOMAIN got' PROVE \E i \in new : got'[k] = memory.reports[i]
    <3>1. CASE k \in DOMAIN got /\ got'[k] = got[k]
      <4>1. got[k] \in Letters!Range(got)
        BY <3>1 DEF Letters!Range
      <4>2. PICK i \in old : got[k] = memory.reports[i]
        BY <1>8, <4>1
      <4>3. i \in new
        BY <1>6, <1>10, <2>0, <4>2
      <4>. QED
        BY <3>1, <4>2, <4>3
    <3>2. CASE k - Len(got) \in DOMAIN taken /\ got'[k] = taken[k - Len(got)]
      <4>. DEFINE m == k - Len(got)
      <4>1. m \in DOMAIN taken /\ got'[k] = taken[m]
        BY <3>2
      <4>. HIDE DEF m
      <4>2. got'[k] = memory.reports[waiting[m]] /\ waiting[m] \in S /\ taken[m].sequence = waiting[m] /\ taken # <<>>
        BY <1>5, <4>1
      <4>3. waiting[m] <= cursor'
        BY <1>3, <1>5, <4>1, <4>2
      <4>4. waiting[m] \in new
        BY <1>9, <2>0, <4>2, <4>3
      <4>. QED
        BY <4>2, <4>4
    <3>. QED
      BY <1>7, <3>1, <3>2
  <2>2. ASSUME NEW i \in new PROVE \E k \in DOMAIN got' : got'[k] = memory.reports[i]
    <3>1. CASE i \in old
      <4>1. memory.reports[i] \in Letters!Range(got)
        BY <1>8, <3>1
      <4>2. PICK k \in DOMAIN got : got[k] = memory.reports[i]
        BY <4>1 DEF Letters!Range
      <4>. QED
        BY <1>7, <4>2
    <3>2. CASE i \notin old
      <4>1. i \in S /\ i <= cursor' /\ i > cursor
        BY <1>6, <2>0, <3>2
      <4>2. taken # <<>>
        BY <1>3, <1>5, <1>6, <1>10, <4>1, <2>0
      <4>3. PICK k \in DOMAIN taken : taken[k] = memory.reports[i]
        BY <1>3, <1>5, <4>1, <4>2
      <4>. QED
        BY <1>7, <4>3
    <3>. QED
      BY <3>1, <3>2
  <2>. HIDE DEF old, new
  <2>3. Letters!Range(got') = {memory.reports[i] : i \in new}
    BY <2>1, <2>2 DEF Letters!Range
  <2>. QED
    BY <2>3 DEF new
<1>14. Letters!Recipients' = Letters!Recipients /\ \A a : Letters!Addressed(a)' = Letters!Addressed(a)
  BY <1>3 DEF Letters!Recipients, Letters!Own, Letters!Addressed
<1>15. Letters!InboxComplete'
  <2>1. ASSUME NEW a \in Letters!Recipients'
        PROVE  Letters!Range(got') = {memory'.reports[i] : i \in {j \in Letters!Addressed(a)' : memory'.reports[j].sequence <= cursor'}}
    <3>1. a = recipient
      BY <1>14, OneRecipient
    <3>2. Letters!Addressed(a)' = Letters!Addressed(recipient) /\ memory' = memory
      BY <1>3, <1>14, <3>1
    <3>. QED
      BY <1>13, <3>2
  <2>. QED
    BY <1>12, <2>1 DEF Letters!InboxComplete
<1>. QED
  BY <1>3, <1>7, <1>10, <1>14, <1>15 DEF LetterInv

LEMMA LettersRestart ==
  ASSUME LetterInv, Letters!Restarts
  PROVE  LetterInv'
<1>1. memory' = memory /\ document' = document /\ UNCHANGED <<told, reader, cursor, got>>
  BY DEF LetterInv, Letters!Restarts
<1>. QED
  BY <1>1, WindowsChange DEF LetterInv

LEMMA LettersElsewhere ==
  ASSUME LetterInv, UNCHANGED letters
  PROVE  LetterInv'
BY WindowsChange DEF LetterInv, letters

LEMMA LettersAreThere ==
  ASSUME LetterInv
  PROVE  Letters!LettersArrive
<1>1. ASSUME NEW i \in DOMAIN memory.reports, NEW j \in DOMAIN memory.reports
      PROVE  LET r == memory.reports[i]
                 s == memory.reports[j]
                 w == memory.windows[r.window] IN
             /\ {r.sender, r.destination} = {w.origin, w.project}
             /\ (r.window = s.window /\ r.sender = s.sender /\ r.key = s.key) => i = j
  BY DEF LetterInv, Sides
<1>. QED
  BY <1>1 DEF LetterInv, Letters!LettersArrive, Letters!LettersKept

\* LettersArrive: a letter whose sender was answered is kept, on disk and in memory, for the side
\* that did not send it and once under its key, whatever is retried, fails or restarts; and a reader
\* has been given every letter that is its, up to its cursor, in order (windows.rs, report and inbox).
THEOREM EveryLetterArrives == Spec => []LettersArrive
<1>1. Init => LetterInv
  BY LettersBegin DEF Init
<1>2. LetterInv /\ [Next]_vars => LetterInv'
  <2>. SUFFICES ASSUME LetterInv, [Next]_vars PROVE LetterInv'
    OBVIOUS
  <2>1. CASE OfLetters
    BY <2>1, CreateSafe, SaveLayoutSafe, ReportSafe, InboxSafe, LettersRestart, ServicesConstants DEF OfLetters, Letters!WindowsNext
  <2>2. CASE UNCHANGED letters
    BY <2>2, LettersElsewhere
  <2>. QED
    BY <2>1, <2>2 DEF Next, OfStart, OfStore, OfReplace, OfWindow, OfDrafts, vars
<1>3. LetterInv => LettersArrive
  BY LettersAreThere DEF LettersArrive
<1>. QED
  BY <1>1, <1>2, <1>3, PTL DEF Spec

-----------------------------------------------------------------------------
\* ManagedWindow: who is about to hold each process that runs, and who is about to give up the name
\* of one that ended.

Wins  == [state : {"none", "running", "closed", "detached"}, registered : BOOLEAN, updating : BOOLEAN,
          watch : {"off", "on", "closed", "detached", "insert"}, next : 0 .. MaxViews]
Jobs  == [pc : {"idle", "prepare", "mark", "ask", "detach", "restart", "marking", "insert", "wait", "back", "gone",
                "backinsert", "backwait", "finish"},
          view : 0 .. MaxViews, asked : 0 .. MaxViews, closed : BOOLEAN, started : BOOLEAN, back : 0 .. MaxViews]
Calls == {"idle", "queue", "look", "same", "start", "insert", "wait", "remove", "leave", "done"}

WindowTyped ==
  /\ win \in [Views!View -> Wins] /\ held \in 0 .. MaxViews /\ job \in Jobs
  /\ opener = [o \in Opener |-> [pc |-> opener[o].pc, turn |-> opener[o].turn, view |-> opener[o].view]]
  /\ \A o \in Opener : opener[o].pc \in Calls /\ opener[o].view \in 0 .. MaxViews

\* Started and not yet in the map.
InCall(v) == \E o \in Opener : opener[o].pc = "insert" /\ opener[o].view = v
InJob(v) ==
  \/ job.pc = "marking" /\ job.asked = v
  \/ job.pc = "insert" /\ job.view = v
  \/ job.pc = "backinsert" /\ job.back = v
Known(v) == v # 0 /\ win[v].state # "none"

\* What is in a hand is new: nobody else has it, and no update has marked it.
CallsHand ==
  /\ \A o \in Opener : opener[o].pc = "insert" =>
       /\ Known(opener[o].view) /\ ~win[opener[o].view].updating
       /\ held # opener[o].view /\ ~InJob(opener[o].view)
       /\ \A p \in Opener : opener[p].pc = "insert" /\ opener[p].view = opener[o].view => p = o
  /\ \A o \in Opener : opener[o].pc \in {"wait", "remove"} => Known(opener[o].view)
  /\ \A o \in Opener : opener[o].pc = "remove" => ~Views!Running(opener[o].view)
JobsHand ==
  /\ held # 0 => Known(held)
  /\ job.pc # "idle" => Known(job.view)
  /\ job.pc = "idle" => job = Views!NoJob
  /\ job.pc = "marking" => Known(job.asked)
  /\ job.pc = "backinsert" => Known(job.back) /\ ~win[job.back].updating

\* Every process that runs is held or about to be.
Found == \A v \in Views!View : Views!Running(v) => held = v \/ InCall(v) \/ InJob(v)

\* A process that ended and is held, whose watcher or caller has yet to see to it.
SeenTo(v) ==
  \/ win[v].watch \in {"on", "closed", "detached"}
  \/ \E o \in Opener : opener[o].pc \in {"wait", "remove"} /\ opener[o].view = v

Watched ==
  \A v \in Views!View :
    /\ Views!Running(v) => win[v].watch = "on"
    /\ win[v].watch # "insert"
    /\ win[v].watch = "on" => win[v].state # "none"

Worked ==
  /\ job.pc \notin {"idle", "insert"} /\ Views!Running(job.view) => held = job.view
  /\ job.pc # "idle" /\ ~job.started /\ ~job.closed /\ Views!Running(job.view) => win[job.view].registered
  /\ job.pc = "gone" /\ job.started => ~Views!Running(job.view)
  /\ job.pc \in {"idle", "backwait", "finish"} /\ held # 0 =>
       /\ Views!Running(held) \/ SeenTo(held)
       /\ win[held].updating => /\ job.pc = "finish" /\ held = job.view
                                /\ Views!Running(held) /\ win[held].registered

WindowKept == WindowTyped /\ CallsHand /\ JobsHand /\ Found /\ Watched /\ Worked
WindowInv  == raced = {} => WindowKept

LEMMA WindowBegins ==
  ASSUME Views!WindowInit
  PROVE  WindowInv
<1>1. /\ win = [v \in Views!View |-> Views!NoWin] /\ held = 0 /\ job = Views!NoJob
      /\ opener = [o \in Opener |-> Views!NoCall]
  BY DEF Views!WindowInit
<1>2. Views!NoWin \in Wins /\ Views!NoWin.state = "none" /\ Views!NoWin.watch = "off"
  BY ServicesConstants DEF Views!NoWin, Wins
<1>3. Views!NoJob \in Jobs /\ Views!NoJob.pc = "idle"
  BY ServicesConstants DEF Views!NoJob, Jobs
<1>4. Views!NoCall = [pc |-> "idle", turn |-> 0, view |-> 0]
  BY DEF Views!NoCall
<1>5. WindowTyped
  <2>1. opener = [o \in Opener |-> [pc |-> opener[o].pc, turn |-> opener[o].turn, view |-> opener[o].view]]
    BY <1>1, <1>4
  <2>2. win \in [Views!View -> Wins] /\ held \in 0 .. MaxViews /\ job \in Jobs
    BY <1>1, <1>2, <1>3, ServicesConstants
  <2>. QED
    BY <1>1, <1>4, <2>1, <2>2, ServicesConstants DEF WindowTyped, Calls
<1>6. CallsHand
  BY <1>1, <1>4 DEF CallsHand
<1>7. JobsHand /\ Worked
  BY <1>1, <1>3 DEF JobsHand, Worked
<1>8. Found /\ Watched
  BY <1>1, <1>2 DEF Found, Watched, Views!Running
<1>. QED
  BY <1>5, <1>6, <1>7, <1>8 DEF WindowInv, WindowKept

\* One more process.
LEMMA StartIs ==
  ASSUME WindowTyped, Views!Free # {}
  PROVE  LET n == Views!Next1
             r == Views!Start[n] IN
         /\ n \in Views!View /\ win[n].state = "none" /\ Views!Start \in [Views!View -> Wins]
         /\ r.state = "running" /\ r.registered = FALSE /\ r.updating = FALSE /\ r.watch = "on"
         /\ \A v \in Views!View : v # n => Views!Start[v] = win[v]
<1>. DEFINE n == Views!Next1
<1>1. n \in Views!Free
  BY DEF Views!Next1
<1>2. n \in Views!View /\ win[n].state = "none"
  BY <1>1 DEF Views!Free
<1>. DEFINE z == Views!NoWin
<1>. DEFINE r == [z EXCEPT !.state = "running", !.watch = "on"]
<1>3. Views!Start = [win EXCEPT ![n] = r]
  BY Zenon DEF Views!Start
<1>4. z \in Wins /\ z.registered = FALSE /\ z.updating = FALSE
  BY ServicesConstants DEF Wins, Views!NoWin
<1>. HIDE DEF z
<1>5. r \in Wins /\ r.state = "running" /\ r.registered = FALSE /\ r.updating = FALSE /\ r.watch = "on"
  BY <1>4 DEF Wins
<1>. HIDE DEF n, r
<1>6. /\ Views!Start \in [Views!View -> Wins] /\ Views!Start[n] = r
      /\ \A v \in Views!View : v # n => Views!Start[v] = win[v]
  BY <1>2, <1>3, <1>5 DEF WindowTyped
<1>. QED
  BY <1>2, <1>5, <1>6 DEF n

\* One process changed.
LEMMA OneChanged ==
  ASSUME WindowTyped, NEW v \in Views!View, NEW r \in Wins, win' = [win EXCEPT ![v] = r]
  PROVE  win' \in [Views!View -> Wins] /\ win'[v] = r /\ \A w \in Views!View : w # v => win'[w] = win[w]
BY DEF WindowTyped

\* One caller went on.
LEMMA CallIs ==
  ASSUME WindowTyped, NEW o \in Opener, NEW pc \in Calls, NEW t, NEW v \in 0 .. MaxViews,
         opener' = [opener EXCEPT ![o] = [pc |-> pc, turn |-> t, view |-> v]]
  PROVE  /\ opener' = [p \in Opener |-> [pc |-> opener'[p].pc, turn |-> opener'[p].turn, view |-> opener'[p].view]]
         /\ \A p \in Opener : opener'[p].pc \in Calls /\ opener'[p].view \in 0 .. MaxViews
         /\ opener'[o].pc = pc /\ opener'[o].view = v
         /\ \A p \in Opener : p # o => opener'[p].pc = opener[p].pc /\ opener'[p].view = opener[p].view
<1>. DEFINE c == [pc |-> pc, turn |-> t, view |-> v]
<1>1. DOMAIN opener = Opener
  BY DEF WindowTyped
<1>2. opener' = [p \in Opener |-> IF p = o THEN c ELSE opener[p]]
  BY <1>1
<1>3. c = [pc |-> c.pc, turn |-> c.turn, view |-> c.view] /\ c.pc = pc /\ c.view = v
  OBVIOUS
<1>. HIDE DEF c
<1>4. opener'[o] = c /\ \A p \in Opener : p # o => opener'[p] = opener[p]
  BY <1>2
<1>5. \A p \in Opener : opener[p] = [pc |-> opener[p].pc, turn |-> opener[p].turn, view |-> opener[p].view]
  BY DEF WindowTyped
<1>6. \A p \in Opener : opener'[p] = [pc |-> opener'[p].pc, turn |-> opener'[p].turn, view |-> opener'[p].view]
  BY <1>3, <1>4, <1>5
<1>7. opener' = [p \in Opener |-> opener'[p]]
  BY <1>2
<1>. QED
  BY <1>3, <1>4, <1>6, <1>7 DEF WindowTyped

LEMMA KeptIs ==
  ASSUME WindowKept
  PROVE  /\ held \in 0 .. MaxViews /\ job \in Jobs /\ job.view \in 0 .. MaxViews /\ job.asked \in 0 .. MaxViews
         /\ job.back \in 0 .. MaxViews /\ \A o \in Opener : opener[o].view \in 0 .. MaxViews
         /\ \A v \in 0 .. MaxViews : v # 0 <=> v \in Views!View
         /\ Views!View \subseteq 0 .. MaxViews /\ 0 \notin Views!View
         /\ win \in [Views!View -> Wins] /\ \A v \in Views!View : win[v] \in Wins
<1>1. \A v \in 0 .. MaxViews : v # 0 <=> v \in Views!View
  BY ServicesConstants DEF Views!View
<1>2. Views!View \subseteq 0 .. MaxViews /\ 0 \notin Views!View
  BY ServicesConstants DEF Views!View
<1>. QED
  BY <1>1, <1>2 DEF WindowKept, WindowTyped, Jobs

\* Whoever is in a hand is known.
LEMMA InJobIsKnown ==
  ASSUME WindowKept, NEW v, InJob(v)
  PROVE  Known(v)
BY DEF WindowKept, JobsHand, InJob

\* Only one process changed, of those that were known: what others read of it.
LEMMA TypedStays ==
  ASSUME WindowKept, win' \in [Views!View -> Wins], held' \in 0 .. MaxViews, job' \in Jobs, opener' = opener
  PROVE  WindowTyped'
BY DEF WindowKept, WindowTyped

LEMMA RegistersSafe ==
  ASSUME WindowKept, NEW v \in Views!View, Views!Registers(v)
  PROVE  WindowKept'
<1>. DEFINE r == [win[v] EXCEPT !.registered = TRUE]
<1>1. win' = [win EXCEPT ![v] = r] /\ UNCHANGED <<held, turn, holds, opener, job, raced>>
  BY DEF Views!Registers, Views!Running
<1>2. /\ r \in Wins /\ r.state = win[v].state /\ r.updating = win[v].updating /\ r.watch = win[v].watch /\ r.registered = TRUE
  BY KeptIs DEF Wins
<1>. HIDE DEF r
<1>3. win' \in [Views!View -> Wins] /\ win'[v] = r /\ \A w \in Views!View : w # v => win'[w] = win[w]
  BY <1>1, <1>2, OneChanged DEF WindowKept
<1>4. \A w \in Views!View : /\ win'[w].state = win[w].state /\ win'[w].updating = win[w].updating
                            /\ win'[w].watch = win[w].watch /\ (win[w].registered => win'[w].registered)
  BY <1>2, <1>3
<1>5. \A w \in 0 .. MaxViews : (Known(w)' <=> Known(w)) /\ (Views!Running(w)' <=> Views!Running(w))
  BY <1>4, KeptIs DEF Known, Views!Running
<1>6. WindowTyped'
  BY <1>1, <1>3, KeptIs, TypedStays
<1>7. CallsHand'
  BY <1>1, <1>4, <1>5, KeptIs DEF WindowKept, CallsHand, InJob, Known
<1>8. JobsHand'
  BY <1>1, <1>4, <1>5, KeptIs DEF WindowKept, JobsHand, Known
<1>9. Found' /\ Watched'
  BY <1>1, <1>4, <1>5, KeptIs DEF WindowKept, Found, InCall, InJob, Watched
<1>10. Worked'
  BY <1>1, <1>4, <1>5, KeptIs DEF WindowKept, Worked, SeenTo
<1>. QED
  BY <1>6, <1>7, <1>8, <1>9, <1>10 DEF WindowKept

LEMMA ExitsSafe ==
  ASSUME WindowKept, raced' = {}, NEW v \in Views!View, NEW how \in {"closed", "detached"}, Views!Exits(v, how)
  PROVE  WindowKept'
<1>. DEFINE r == [win[v] EXCEPT !.state = how, !.registered = FALSE]
<1>1. /\ win[v].state = "running" /\ win' = [win EXCEPT ![v] = r] /\ UNCHANGED <<held, turn, holds, opener, job>>
      /\ ~(win[v].updating /\ job.pc = "finish")
  BY DEF Views!Exits, Views!Running
<1>2. /\ r \in Wins /\ r.state = how /\ r.updating = win[v].updating /\ r.watch = win[v].watch
  BY KeptIs DEF Wins
<1>. HIDE DEF r
<1>3. win' \in [Views!View -> Wins] /\ win'[v] = r /\ \A w \in Views!View : w # v => win'[w] = win[w]
  BY <1>1, <1>2, OneChanged DEF WindowKept
<1>4. \A w \in 0 .. MaxViews : (Known(w)' <=> Known(w)) /\ (Views!Running(w)' <=> Views!Running(w) /\ w # v)
  BY <1>1, <1>2, <1>3, KeptIs DEF Known, Views!Running
<1>5. \A w \in Views!View : win'[w].updating = win[w].updating /\ win'[w].watch = win[w].watch
  BY <1>2, <1>3
<1>6. WindowTyped'
  BY <1>1, <1>3, KeptIs, TypedStays
<1>7. CallsHand'
  BY <1>1, <1>4, <1>5, KeptIs DEF WindowKept, CallsHand, InJob, Known
<1>8. JobsHand'
  BY <1>1, <1>4, <1>5, KeptIs DEF WindowKept, JobsHand, Known
<1>9. Found'
  BY <1>1, <1>4, KeptIs DEF WindowKept, Found, InCall, InJob
<1>10. Watched'
  <2>. SUFFICES ASSUME NEW w \in Views!View
       PROVE  /\ Views!Running(w)' => win'[w].watch = "on"
              /\ win'[w].watch # "insert"
              /\ win'[w].watch = "on" => win'[w].state # "none"
    BY DEF Watched
  <2>. QED
    BY <1>2, <1>3, <1>4, <1>5, KeptIs DEF WindowKept, Watched
<1>11. Worked'
  <2>1. /\ job.pc \notin {"idle", "insert"} /\ Views!Running(job.view)' => held = job.view
        /\ job.pc # "idle" /\ ~job.started /\ ~job.closed /\ Views!Running(job.view)' => win'[job.view].registered
        /\ job.pc = "gone" /\ job.started => ~Views!Running(job.view)'
    BY <1>1, <1>3, <1>4, KeptIs DEF WindowKept, Worked
  <2>2. ASSUME job.pc \in {"idle", "backwait", "finish"}, held # 0
        PROVE  /\ Views!Running(held)' \/ SeenTo(held)'
               /\ win'[held].updating => /\ job.pc = "finish" /\ held = job.view
                                         /\ Views!Running(held)' /\ win'[held].registered
    <3>1. CASE held = v
      <4>1. win[v].watch = "on" /\ ~win[v].updating
        BY <1>1, <2>2, <3>1 DEF WindowKept, Watched, Worked, Views!Running
      <4>. QED
        BY <1>1, <1>5, <3>1, <4>1 DEF SeenTo
    <3>2. CASE held # v
      BY <1>1, <1>3, <1>4, <2>2, <3>2, KeptIs DEF WindowKept, Worked, SeenTo
    <3>. QED
      BY <3>1, <3>2
  <2>. QED
    BY <1>1, <2>1, <2>2 DEF Worked
<1>. QED
  BY <1>6, <1>7, <1>8, <1>9, <1>10, <1>11 DEF WindowKept

LEMMA JudgesSafe ==
  ASSUME WindowKept, NEW v \in Views!View, Views!Judges(v)
  PROVE  WindowKept'
<1>. DEFINE r == [win[v] EXCEPT !.watch = IF win[v].updating THEN "off" ELSE win[v].state]
<1>1. /\ win[v].state \in {"closed", "detached"} /\ win' = [win EXCEPT ![v] = r] /\ UNCHANGED <<held, turn, holds, opener, job>>
  BY DEF Views!Judges
<1>2. /\ r \in Wins /\ r.state = win[v].state /\ r.updating = win[v].updating /\ r.registered = win[v].registered
      /\ r.watch = IF win[v].updating THEN "off" ELSE win[v].state
  BY <1>1, KeptIs DEF Wins
<1>. HIDE DEF r
<1>3. win' \in [Views!View -> Wins] /\ win'[v] = r /\ \A w \in Views!View : w # v => win'[w] = win[w]
  BY <1>1, <1>2, OneChanged DEF WindowKept
<1>4. \A w \in 0 .. MaxViews : (Known(w)' <=> Known(w)) /\ (Views!Running(w)' <=> Views!Running(w)) /\ ~Views!Running(v)
  BY <1>1, <1>2, <1>3, KeptIs DEF Known, Views!Running
<1>5. \A w \in Views!View : win'[w].updating = win[w].updating /\ win'[w].registered = win[w].registered
  BY <1>2, <1>3
<1>6. WindowTyped'
  BY <1>1, <1>3, KeptIs, TypedStays
<1>7. CallsHand'
  BY <1>1, <1>4, <1>5, KeptIs DEF WindowKept, CallsHand, InJob, Known
<1>8. JobsHand'
  BY <1>1, <1>4, <1>5, KeptIs DEF WindowKept, JobsHand, Known
<1>9. Found'
  BY <1>1, <1>4, KeptIs DEF WindowKept, Found, InCall, InJob
<1>10. Watched'
  <2>. SUFFICES ASSUME NEW w \in Views!View
       PROVE  /\ Views!Running(w)' => win'[w].watch = "on"
              /\ win'[w].watch # "insert"
              /\ win'[w].watch = "on" => win'[w].state # "none"
    BY DEF Watched
  <2>. QED
    BY <1>1, <1>2, <1>3, <1>4, KeptIs DEF WindowKept, Watched
<1>11. Worked'
  <2>1. ASSUME job.pc \in {"idle", "backwait", "finish"}, held = v
        PROVE  ~win[v].updating /\ SeenTo(v)'
    BY <1>1, <1>2, <1>3, <1>4, <2>1, KeptIs DEF WindowKept, Worked, SeenTo
  <2>2. held # v /\ held # 0 => (SeenTo(held)' <=> SeenTo(held))
    BY <1>1, <1>3, KeptIs DEF SeenTo
  <2>. QED
    BY <1>1, <1>4, <1>5, <2>1, <2>2, KeptIs DEF WindowKept, Worked
<1>. QED
  BY <1>6, <1>7, <1>8, <1>9, <1>10, <1>11 DEF WindowKept

\* The name is given up, of a process that ended or of nobody.
LEMMA HeldByNone ==
  ASSUME WindowKept, NEW v \in 0 .. MaxViews, ~Views!Running(v), held \in {0, v}, held' = 0, job' = job,
         win' \in [Views!View -> Wins],
         \A w \in Views!View : /\ win'[w].state = win[w].state /\ win'[w].updating = win[w].updating
                               /\ win'[w].registered = win[w].registered /\ win'[w].watch # "insert"
                               /\ win'[w].watch = win[w].watch \/ (win'[w].watch # "on" /\ ~Views!Running(w)),
         WindowTyped',
         \A o \in Opener : \/ opener'[o].pc = opener[o].pc /\ opener'[o].view = opener[o].view
                           \/ opener[o].pc # "insert" /\ opener'[o].pc = "leave"
  PROVE  WindowKept'
<1>1. \A w \in 0 .. MaxViews : (Known(w)' <=> Known(w)) /\ (Views!Running(w)' <=> Views!Running(w))
  BY KeptIs DEF Known, Views!Running
<1>2. held # 0 => ~Views!Running(held)
  OBVIOUS
<1>3. CallsHand'
  BY <1>1, KeptIs DEF WindowKept, CallsHand, InJob, Known
<1>4. JobsHand'
  BY <1>1, KeptIs DEF WindowKept, JobsHand, Known
<1>5. Found'
  BY <1>1, <1>2, KeptIs DEF WindowKept, Found, InCall, InJob
<1>6. Watched'
  BY <1>1, KeptIs DEF WindowKept, Watched
<1>7. Worked'
  BY <1>1, <1>2, KeptIs DEF WindowKept, Worked, Views!Running
<1>. QED
  BY <1>3, <1>4, <1>5, <1>6, <1>7 DEF WindowKept

LEMMA ForgetsWindowSafe ==
  ASSUME WindowKept, raced' = {}, NEW v \in Views!View, Views!Forgets(v)
  PROVE  WindowKept'
<1>. DEFINE r == [win[v] EXCEPT !.watch = "off"]
<1>1. /\ win[v].watch = "closed" /\ win' = [win EXCEPT ![v] = r] /\ held' = 0 /\ UNCHANGED <<turn, holds, opener, job>>
      /\ held \in {0, v}
  BY DEF Views!Forgets
<1>2. /\ r \in Wins /\ r.state = win[v].state /\ r.updating = win[v].updating /\ r.registered = win[v].registered
      /\ r.watch = "off"
  BY <1>1, KeptIs DEF Wins
<1>. HIDE DEF r
<1>3. win' \in [Views!View -> Wins] /\ win'[v] = r /\ \A w \in Views!View : w # v => win'[w] = win[w]
  BY <1>1, <1>2, OneChanged DEF WindowKept
<1>4. ~Views!Running(v)
  BY <1>1 DEF WindowKept, Watched
<1>5. \A w \in Views!View : /\ win'[w].state = win[w].state /\ win'[w].updating = win[w].updating
                            /\ win'[w].registered = win[w].registered /\ win'[w].watch # "insert"
                            /\ win'[w].watch = win[w].watch \/ (win'[w].watch # "on" /\ ~Views!Running(w))
  BY <1>2, <1>3, <1>4 DEF WindowKept, Watched
<1>6. WindowTyped'
  BY <1>1, <1>3, KeptIs, TypedStays, ServicesConstants
<1>. QED
  BY <1>1, <1>3, <1>4, <1>5, <1>6, KeptIs, HeldByNone

LEMMA KeyboardUpdateSafe ==
  ASSUME WindowKept, raced' = {}, NEW v \in Views!View, Views!KeyboardUpdate(v)
  PROVE  WindowKept'
<1>1. /\ win[v].watch = "detached" /\ held \in {0, v} /\ ~Views!Busy /\ UNCHANGED <<held, turn, holds, opener>>
  BY DEF Views!KeyboardUpdate
<1>2. ~Views!Running(v)
  BY <1>1 DEF WindowKept, Watched
<1>3. CASE held = 0 /\ win' = [win EXCEPT ![v].watch = "off"] /\ job' = job
  <2>. DEFINE r == [win[v] EXCEPT !.watch = "off"]
  <2>1. win' = [win EXCEPT ![v] = r]
    BY <1>3
  <2>2. /\ r \in Wins /\ r.state = win[v].state /\ r.updating = win[v].updating /\ r.registered = win[v].registered
        /\ r.watch = "off"
    BY <1>1, KeptIs DEF Wins
  <2>. HIDE DEF r
  <2>3. win' \in [Views!View -> Wins] /\ win'[v] = r /\ \A w \in Views!View : w # v => win'[w] = win[w]
    BY <2>1, <2>2, OneChanged DEF WindowKept
  <2>4. \A w \in Views!View : /\ win'[w].state = win[w].state /\ win'[w].updating = win[w].updating
                              /\ win'[w].registered = win[w].registered /\ win'[w].watch # "insert"
                              /\ win'[w].watch = win[w].watch \/ (win'[w].watch # "on" /\ ~Views!Running(w))
    BY <1>2, <2>2, <2>3 DEF WindowKept, Watched
  <2>5. WindowTyped'
    BY <1>1, <1>3, <2>3, KeptIs, TypedStays
  <2>. QED
    BY <1>1, <1>2, <1>3, <2>3, <2>4, <2>5, KeptIs, HeldByNone
<1>4. CASE /\ held = v /\ win' = [win EXCEPT ![v].watch = "off", ![held].updating = TRUE]
           /\ job' = [Views!NoJob EXCEPT !.pc = "prepare", !.view = held, !.closed = TRUE]
  <2>. DEFINE a == [win[v] EXCEPT !.watch = "off"]
  <2>. DEFINE r == [a EXCEPT !.updating = TRUE]
  <2>1. win' = [win EXCEPT ![v] = r]
    <3>1. win' = [[win EXCEPT ![v] = a] EXCEPT ![v] = [[win EXCEPT ![v] = a][v] EXCEPT !.updating = TRUE]]
      BY <1>4
    <3>2. [win EXCEPT ![v] = a][v] = a
      BY KeptIs
    <3>3. [[win EXCEPT ![v] = a] EXCEPT ![v] = r] = [win EXCEPT ![v] = r]
      OBVIOUS
    <3>. QED
      BY <3>1, <3>2, <3>3
  <2>2. a \in Wins /\ a.state = win[v].state /\ a.watch = "off"
    BY KeptIs DEF Wins
  <2>. HIDE DEF a
  <2>3. r \in Wins /\ r.state = win[v].state /\ r.watch = "off"
    BY <2>2 DEF Wins
  <2>. HIDE DEF r
  <2>4. win' \in [Views!View -> Wins] /\ win'[v] = r /\ \A w \in Views!View : w # v => win'[w] = win[w]
    BY <2>1, <2>3, OneChanged DEF WindowKept
  <2>. DEFINE z == Views!NoJob
  <2>. DEFINE j == [z EXCEPT !.pc = "prepare", !.view = held, !.closed = TRUE]
  <2>5. z \in Jobs
    BY ServicesConstants DEF Views!NoJob, Jobs
  <2>. HIDE DEF z
  <2>6. j \in Jobs /\ j.pc = "prepare" /\ j.view = held /\ j.closed = TRUE
    BY <2>5, KeptIs DEF Jobs
  <2>7. job' = j
    BY <1>4 DEF z
  <2>. HIDE DEF j
  <2>8. \A w \in 0 .. MaxViews : (Known(w)' <=> Known(w)) /\ (Views!Running(w)' <=> Views!Running(w))
    BY <2>3, <2>4, KeptIs DEF Known, Views!Running
  <2>9. WindowTyped'
    BY <1>1, <2>4, <2>6, <2>7, KeptIs, TypedStays
  <2>10. CallsHand'
    BY <1>1, <1>4, <2>4, <2>6, <2>7, <2>8, KeptIs DEF WindowKept, CallsHand, InJob, Known
  <2>11. JobsHand'
    BY <1>1, <1>4, <2>6, <2>7, <2>8, KeptIs DEF WindowKept, JobsHand
  <2>12. Found'
    BY <1>1, <1>4, <2>6, <2>7, <2>8, KeptIs DEF WindowKept, Found, InCall, InJob, Views!Busy, JobsHand
  <2>13. Watched'
    BY <1>2, <2>3, <2>4, <2>8, KeptIs DEF WindowKept, Watched
  <2>14. Worked'
    BY <1>1, <1>2, <1>4, <2>6, <2>7, <2>8, KeptIs DEF Worked
  <2>. QED
    BY <2>9, <2>10, <2>11, <2>12, <2>13, <2>14 DEF WindowKept
<1>. QED
  BY <1>1, <1>3, <1>4, KeptIs DEF Views!KeyboardUpdate

LEMMA KeyboardInsertsSafe ==
  ASSUME WindowKept, NEW v \in Views!View, Views!KeyboardInserts(v)
  PROVE  WindowKept'
BY DEF WindowKept, Watched, Views!KeyboardInserts

\* A caller goes on with nothing in its hand, before or after, and none of its own that ended.
LEMMA CallGoesOn ==
  ASSUME WindowKept, NEW o \in Opener, NEW pc \in Calls \ {"insert", "wait", "remove"}, NEW t, NEW u \in 0 .. MaxViews,
         opener' = [opener EXCEPT ![o] = [pc |-> pc, turn |-> t, view |-> u]], UNCHANGED <<win, held, job>>,
         opener[o].pc \in {"wait", "remove"} => opener[o].pc = "wait" /\ Views!Running(opener[o].view),
         opener[o].pc # "insert"
  PROVE  WindowKept'
<1>1. /\ opener' = [p \in Opener |-> [pc |-> opener'[p].pc, turn |-> opener'[p].turn, view |-> opener'[p].view]]
      /\ \A p \in Opener : opener'[p].pc \in Calls /\ opener'[p].view \in 0 .. MaxViews
      /\ opener'[o].pc = pc /\ opener'[o].view = u
      /\ \A p \in Opener : p # o => opener'[p].pc = opener[p].pc /\ opener'[p].view = opener[p].view
  BY CallIs DEF WindowKept
<1>2. WindowTyped'
  BY <1>1 DEF WindowKept, WindowTyped
<1>3. CallsHand'
  BY <1>1 DEF WindowKept, CallsHand, InJob, Known, Views!Running
<1>4. JobsHand'
  BY DEF WindowKept, JobsHand, Known
<1>5. Found'
  BY <1>1 DEF WindowKept, Found, InCall, InJob, Views!Running
<1>6. Watched'
  BY DEF WindowKept, Watched, Views!Running
<1>7. Worked'
  <2>1. ASSUME held # 0, SeenTo(held), ~Views!Running(held) PROVE SeenTo(held)'
    BY <1>1, <2>1 DEF SeenTo
  <2>2. \A w : Views!Running(w)' <=> Views!Running(w)
    BY DEF Views!Running
  <2>. QED
    BY <2>1, <2>2 DEF WindowKept, Worked
<1>. QED
  BY <1>2, <1>3, <1>4, <1>5, <1>6, <1>7 DEF WindowKept

\* What Move() makes of a caller.
LEMMA MoveIs ==
  ASSUME WindowKept, NEW o \in Opener
  PROVE  /\ opener[o] = [pc |-> opener[o].pc, turn |-> opener[o].turn, view |-> opener[o].view]
         /\ \A pc : [opener[o] EXCEPT !.pc = pc] = [pc |-> pc, turn |-> opener[o].turn, view |-> opener[o].view]
         /\ \A pc, v : [opener[o] EXCEPT !.pc = pc, !.view = v] = [pc |-> pc, turn |-> opener[o].turn, view |-> v]
         /\ \A pc : [Views!NoCall EXCEPT !.pc = pc] = [pc |-> pc, turn |-> 0, view |-> 0]
         /\ \A pc, t : [Views!NoCall EXCEPT !.pc = pc, !.turn = t] = [pc |-> pc, turn |-> t, view |-> 0]
<1>. DEFINE c == opener[o]
<1>1. c = [pc |-> c.pc, turn |-> c.turn, view |-> c.view]
  BY DEF WindowKept, WindowTyped
<1>. HIDE DEF c
<1>2. \A pc : [c EXCEPT !.pc = pc] = [pc |-> pc, turn |-> c.turn, view |-> c.view]
  BY <1>1
<1>3. \A pc, v : [c EXCEPT !.pc = pc, !.view = v] = [pc |-> pc, turn |-> c.turn, view |-> v]
  <2>. SUFFICES ASSUME NEW pc, NEW v PROVE [c EXCEPT !.pc = pc, !.view = v] = [pc |-> pc, turn |-> c.turn, view |-> v]
    OBVIOUS
  <2>. DEFINE d == [c EXCEPT !.pc = pc]
  <2>1. d = [pc |-> pc, turn |-> c.turn, view |-> c.view]
    BY <1>2
  <2>2. [c EXCEPT !.pc = pc, !.view = v] = [d EXCEPT !.view = v]
    OBVIOUS
  <2>. HIDE DEF d
  <2>. QED
    BY <2>1, <2>2
<1>. DEFINE z == Views!NoCall
<1>4. z = [pc |-> "idle", turn |-> 0, view |-> 0]
  BY DEF Views!NoCall
<1>. HIDE DEF z
<1>5. \A pc : [z EXCEPT !.pc = pc] = [pc |-> pc, turn |-> 0, view |-> 0]
  BY <1>4
<1>6. \A pc, t : [z EXCEPT !.pc = pc, !.turn = t] = [pc |-> pc, turn |-> t, view |-> 0]
  <2>. SUFFICES ASSUME NEW pc, NEW t PROVE [z EXCEPT !.pc = pc, !.turn = t] = [pc |-> pc, turn |-> t, view |-> 0]
    OBVIOUS
  <2>. DEFINE d == [z EXCEPT !.pc = pc]
  <2>1. d = [pc |-> pc, turn |-> 0, view |-> 0]
    BY <1>5
  <2>2. [z EXCEPT !.pc = pc, !.turn = t] = [d EXCEPT !.turn = t]
    OBVIOUS
  <2>. HIDE DEF d
  <2>. QED
    BY <2>1, <2>2
<1>. QED
  BY <1>1, <1>2, <1>3, <1>5, <1>6 DEF c, z

LEMMA CallerMovesSafe ==
  ASSUME WindowKept, NEW o \in Opener, Views!TakesTurn(o) \/ Views!Enters(o) \/ Views!Looks(o) \/ Views!Leaves(o)
  PROVE  WindowKept'
<1>1. CASE Views!TakesTurn(o)
  <2>. DEFINE t == IF turn # 0 THEN turn ELSE CHOOSE n \in DOMAIN holds : \A p \in Opener : opener[p].turn # n
  <2>1. opener[o].pc = "idle" /\ UNCHANGED <<win, held, job>>
        /\ opener' = [opener EXCEPT ![o] = [Views!NoCall EXCEPT !.pc = "queue", !.turn = t]]
    BY <1>1 DEF Views!TakesTurn, Views!At, Views!Move
  <2>. HIDE DEF t
  <2>2. opener' = [opener EXCEPT ![o] = [pc |-> "queue", turn |-> t, view |-> 0]]
    BY <2>1, MoveIs
  <2>3. "queue" \in Calls \ {"insert", "wait", "remove"} /\ 0 \in 0 .. MaxViews
    BY ServicesConstants DEF Calls
  <2>4. opener[o].pc # "insert" /\ (opener[o].pc \in {"wait", "remove"} => opener[o].pc = "wait" /\ Views!Running(opener[o].view))
    BY <2>1
  <2>5. UNCHANGED <<win, held, job>>
    BY <2>1
  <2>. QED
    BY <2>2, <2>3, <2>4, <2>5, CallGoesOn
<1>2. CASE Views!Enters(o)
  <2>1. opener[o].pc = "queue" /\ UNCHANGED <<win, held, job>>
        /\ opener' = [opener EXCEPT ![o] = [opener[o] EXCEPT !.pc = "look"]]
    BY <1>2 DEF Views!Enters, Views!At, Views!Move
  <2>2. opener' = [opener EXCEPT ![o] = [pc |-> "look", turn |-> opener[o].turn, view |-> opener[o].view]]
    BY <2>1, MoveIs
  <2>3. "look" \in Calls \ {"insert", "wait", "remove"} /\ opener[o].view \in 0 .. MaxViews
    BY KeptIs DEF Calls
  <2>4. opener[o].pc # "insert" /\ (opener[o].pc \in {"wait", "remove"} => opener[o].pc = "wait" /\ Views!Running(opener[o].view))
    BY <2>1
  <2>5. UNCHANGED <<win, held, job>>
    BY <2>1
  <2>. QED
    BY <2>2, <2>3, <2>4, <2>5, CallGoesOn
<1>3. CASE Views!Looks(o)
  <2>1. opener[o].pc = "look" /\ UNCHANGED <<win, held, job>>
    BY <1>3 DEF Views!Looks, Views!At
  <2>2. \/ opener' = [opener EXCEPT ![o] = [opener[o] EXCEPT !.pc = "same", !.view = held]]
        \/ \E pc \in {"start", "leave"} : opener' = [opener EXCEPT ![o] = [opener[o] EXCEPT !.pc = pc]]
    BY <1>3 DEF Views!Looks, Views!Move
  <2>3. CASE opener' = [opener EXCEPT ![o] = [opener[o] EXCEPT !.pc = "same", !.view = held]]
    <3>1. opener' = [opener EXCEPT ![o] = [pc |-> "same", turn |-> opener[o].turn, view |-> held]]
      <4>1. \A pc, v : [opener[o] EXCEPT !.pc = pc, !.view = v] = [pc |-> pc, turn |-> opener[o].turn, view |-> v]
        BY MoveIs
      <4>2. [opener[o] EXCEPT !.pc = "same", !.view = held] = [pc |-> "same", turn |-> opener[o].turn, view |-> held]
        BY <4>1, Zenon
      <4>. QED
        BY <2>3, <4>2
    <3>2. "same" \in Calls \ {"insert", "wait", "remove"} /\ held \in 0 .. MaxViews
      BY KeptIs DEF Calls
    <3>3. opener[o].pc # "insert" /\ (opener[o].pc \in {"wait", "remove"} => opener[o].pc = "wait" /\ Views!Running(opener[o].view))
      BY <2>1
    <3>. QED
      BY <2>1, <3>1, <3>2, <3>3, CallGoesOn
  <2>4. ASSUME NEW pc \in {"start", "leave"}, opener' = [opener EXCEPT ![o] = [opener[o] EXCEPT !.pc = pc]]
        PROVE  WindowKept'
    <3>1. opener' = [opener EXCEPT ![o] = [pc |-> pc, turn |-> opener[o].turn, view |-> opener[o].view]]
      BY <2>4, MoveIs
    <3>. QED
      BY <2>1, <3>1, CallGoesOn, KeptIs DEF Calls
  <2>. QED
    BY <2>2, <2>3, <2>4
<1>4. CASE Views!Leaves(o)
  <2>1. opener[o].pc = "leave" /\ UNCHANGED <<win, held, job>>
        /\ opener' = [opener EXCEPT ![o] = [Views!NoCall EXCEPT !.pc = "done"]]
    BY <1>4 DEF Views!Leaves, Views!At, Views!Move
  <2>2. opener' = [opener EXCEPT ![o] = [pc |-> "done", turn |-> 0, view |-> 0]]
    BY <2>1, MoveIs
  <2>. QED
    <3>1. "done" \in Calls \ {"insert", "wait", "remove"} /\ 0 \in 0 .. MaxViews
      BY ServicesConstants DEF Calls
    <3>2. opener[o].pc # "insert" /\ (opener[o].pc \in {"wait", "remove"} => opener[o].pc = "wait" /\ Views!Running(opener[o].view))
      BY <2>1
    <3>3. UNCHANGED <<win, held, job>>
      BY <2>1
    <3>. QED
      BY <2>2, <3>1, <3>2, <3>3, CallGoesOn
<1>. QED
  BY <1>1, <1>2, <1>3, <1>4

\* A new process is nobody's yet.
LEMMA NewIsNobodys ==
  ASSUME WindowKept, Views!Free # {}, win' = Views!Start
  PROVE  \E n \in Views!View :
         /\ n = Views!Next1 /\ ~Known(n) /\ win' \in [Views!View -> Wins] /\ Known(n)'
         /\ win'[n].state = "running" /\ ~win'[n].updating /\ win'[n].watch = "on"
         /\ \A v \in Views!View : v # n => win'[v] = win[v]
         /\ \A v \in 0 .. MaxViews : Known(v) => v # n /\ v \in Views!View
         /\ \A v \in 0 .. MaxViews : v # n => (Known(v)' <=> Known(v)) /\ (Views!Running(v)' <=> Views!Running(v))
<1>. PICK n \in Views!View : n = Views!Next1
  BY StartIs DEF WindowKept
<1>1. /\ n \in Views!View /\ win[n].state = "none" /\ win' \in [Views!View -> Wins]
      /\ win'[n].state = "running" /\ win'[n].updating = FALSE /\ win'[n].watch = "on"
      /\ \A v \in Views!View : v # n => win'[v] = win[v]
  BY StartIs DEF WindowKept
<1>2. n # 0
  BY <1>1, KeptIs
<1>3. ~Known(n) /\ Known(n)'
  BY <1>1, <1>2 DEF Known
<1>4. \A v \in 0 .. MaxViews : Known(v) => v # n /\ v \in Views!View
  BY <1>3, KeptIs DEF Known
<1>5. \A v \in 0 .. MaxViews : v # n => (Known(v)' <=> Known(v)) /\ (Views!Running(v)' <=> Views!Running(v))
  BY <1>1, KeptIs DEF Known, Views!Running
<1>. QED
  BY <1>1, <1>3, <1>4, <1>5

LEMMA StartsSafe ==
  ASSUME WindowKept, NEW o \in Opener, Views!Starts(o)
  PROVE  WindowKept'
<1>1. opener[o].pc = "start" /\ Views!Free # {} /\ win' = Views!Start /\ UNCHANGED <<held, job>>
      /\ opener' = [opener EXCEPT ![o] = [opener[o] EXCEPT !.pc = "insert", !.view = Views!Next1]]
  BY DEF Views!Starts, Views!At, Views!Move
<1>2. PICK n \in Views!View :
      /\ n = Views!Next1 /\ ~Known(n) /\ win' \in [Views!View -> Wins] /\ Known(n)'
      /\ win'[n].state = "running" /\ ~win'[n].updating /\ win'[n].watch = "on"
      /\ \A v \in Views!View : v # n => win'[v] = win[v]
      /\ \A v \in 0 .. MaxViews : Known(v) => v # n /\ v \in Views!View
      /\ \A v \in 0 .. MaxViews : v # n => (Known(v)' <=> Known(v)) /\ (Views!Running(v)' <=> Views!Running(v))
  BY <1>1, NewIsNobodys
<1>3. opener' = [opener EXCEPT ![o] = [pc |-> "insert", turn |-> opener[o].turn, view |-> n]]
  <2>1. \A pc, v : [opener[o] EXCEPT !.pc = pc, !.view = v] = [pc |-> pc, turn |-> opener[o].turn, view |-> v]
    BY MoveIs
  <2>2. [opener[o] EXCEPT !.pc = "insert", !.view = n] = [pc |-> "insert", turn |-> opener[o].turn, view |-> n]
    BY <2>1, Zenon
  <2>. QED
    BY <1>1, <1>2, <2>2
<1>4. /\ opener' = [p \in Opener |-> [pc |-> opener'[p].pc, turn |-> opener'[p].turn, view |-> opener'[p].view]]
      /\ \A p \in Opener : opener'[p].pc \in Calls /\ opener'[p].view \in 0 .. MaxViews
      /\ opener'[o].pc = "insert" /\ opener'[o].view = n
      /\ \A p \in Opener : p # o => opener'[p].pc = opener[p].pc /\ opener'[p].view = opener[p].view
  <2>1. n \in 0 .. MaxViews /\ "insert" \in Calls
    BY <1>2, KeptIs DEF Calls
  <2>. QED
    BY <1>3, <2>1, CallIs DEF WindowKept
<1>5. WindowTyped'
  BY <1>1, <1>2, <1>4 DEF WindowKept, WindowTyped
<1>6. ~InJob(n) /\ held # n
  BY <1>2, InJobIsKnown, KeptIs DEF WindowKept, JobsHand
<1>7. \A v : InJob(v)' <=> InJob(v)
  BY <1>1 DEF InJob
<1>8. CallsHand'
  <2>1. ASSUME NEW p \in Opener, opener'[p].pc = "insert"
        PROVE  /\ Known(opener[p].view)' /\ ~win'[opener'[p].view].updating
               /\ held' # opener'[p].view /\ ~InJob(opener[p].view)'
               /\ \A q \in Opener : opener'[q].pc = "insert" /\ opener'[q].view = opener'[p].view => q = p
    <3>1. CASE p = o
      BY <1>1, <1>2, <1>4, <1>6, <1>7, <3>1, KeptIs DEF WindowKept, CallsHand
    <3>2. CASE p # o
      BY <1>1, <1>2, <1>4, <1>7, <2>1, <3>2, KeptIs DEF WindowKept, CallsHand
    <3>. QED
      BY <3>1, <3>2
  <2>2. \A p \in Opener : opener'[p].pc \in {"wait", "remove"} => Known(opener[p].view)'
    BY <1>2, <1>4, KeptIs DEF WindowKept, CallsHand
  <2>3. \A p \in Opener : opener'[p].pc = "remove" => ~Views!Running(opener[p].view)'
    BY <1>2, <1>4, KeptIs DEF WindowKept, CallsHand
  <2>. QED
    BY <2>1, <2>2, <2>3 DEF CallsHand
<1>9. JobsHand'
  BY <1>1, <1>2, KeptIs DEF WindowKept, JobsHand
<1>10. Found'
  BY <1>1, <1>2, <1>4, KeptIs DEF WindowKept, Found, InCall, InJob
<1>11. Watched'
  BY <1>2, KeptIs DEF WindowKept, Watched
<1>12. Worked'
  <2>1. job.pc # "idle" => job.view # n
    BY <1>2 DEF WindowKept, JobsHand
  <2>2. held # n /\ held # 0 /\ ~Views!Running(held) => (SeenTo(held) => SeenTo(held)')
    BY <1>1, <1>2, <1>4, KeptIs DEF SeenTo
  <2>. QED
    BY <1>1, <1>2, <1>6, <2>1, <2>2, KeptIs DEF WindowKept, Worked, JobsHand
<1>. QED
  BY <1>5, <1>8, <1>9, <1>10, <1>11, <1>12 DEF WindowKept

LEMMA InsertsSafe ==
  ASSUME WindowKept, raced' = {}, NEW o \in Opener, Views!Inserts(o)
  PROVE  WindowKept'
<1>. DEFINE n == opener[o].view
<1>1. opener[o].pc = "insert" /\ held' = n /\ UNCHANGED <<win, job>> /\ ~Views!Running(held)
      /\ opener' = [opener EXCEPT ![o] = [opener[o] EXCEPT !.pc = "wait"]]
  BY DEF Views!Inserts, Views!At, Views!Move, Views!Over
<1>2. Known(n) /\ ~win[n].updating /\ n \in 0 .. MaxViews /\ n # 0
  BY <1>1, KeptIs DEF WindowKept, CallsHand, Known
<1>3. opener' = [opener EXCEPT ![o] = [pc |-> "wait", turn |-> opener[o].turn, view |-> n]]
  BY <1>1, MoveIs
<1>4. /\ opener' = [p \in Opener |-> [pc |-> opener'[p].pc, turn |-> opener'[p].turn, view |-> opener'[p].view]]
      /\ \A p \in Opener : opener'[p].pc \in Calls /\ opener'[p].view \in 0 .. MaxViews
      /\ opener'[o].pc = "wait" /\ opener'[o].view = n
      /\ \A p \in Opener : p # o => opener'[p].pc = opener[p].pc /\ opener'[p].view = opener[p].view
  <2>1. "wait" \in Calls
    BY DEF Calls
  <2>. QED
    BY <1>2, <1>3, <2>1, CallIs DEF WindowKept
<1>5. WindowTyped'
  BY <1>1, <1>2, <1>4 DEF WindowKept, WindowTyped
<1>6. \A v : (Known(v)' <=> Known(v)) /\ (Views!Running(v)' <=> Views!Running(v)) /\ (InJob(v)' <=> InJob(v))
  BY <1>1 DEF Known, Views!Running, InJob
<1>7. CallsHand'
  BY <1>1, <1>2, <1>4, <1>6 DEF WindowKept, CallsHand
<1>8. JobsHand'
  BY <1>1, <1>2, <1>6 DEF WindowKept, JobsHand
<1>9. Found'
  BY <1>1, <1>4, <1>6 DEF WindowKept, Found, InCall
<1>10. Watched'
  BY <1>1, <1>6 DEF WindowKept, Watched
<1>11. Worked'
  <2>1. SeenTo(held)'
    BY <1>1, <1>4 DEF SeenTo
  <2>. QED
    BY <1>1, <1>2, <1>6, <2>1 DEF WindowKept, Worked
<1>. QED
  BY <1>5, <1>7, <1>8, <1>9, <1>10, <1>11 DEF WindowKept

LEMMA WaitsSafe ==
  ASSUME WindowKept, NEW o \in Opener, Views!Waits(o)
  PROVE  WindowKept'
<1>. PICK n \in 0 .. MaxViews : n = opener[o].view
  BY KeptIs
<1>1. opener[o].pc \in {"wait", "same"} /\ UNCHANGED <<held, job>>
  BY DEF Views!Waits, Views!At
<1>2. CASE UNCHANGED win /\ Views!Move(o, [opener[o] EXCEPT !.pc = "leave"]) /\ (Views!Running(n) \/ opener[o].pc = "same")
  <2>1. opener' = [opener EXCEPT ![o] = [pc |-> "leave", turn |-> opener[o].turn, view |-> opener[o].view]]
    BY <1>2, MoveIs DEF Views!Move
  <2>. QED
    BY <1>1, <1>2, <2>1, CallGoesOn, KeptIs DEF Calls
<1>3. CASE /\ ~win[n].registered /\ opener[o].pc = "wait" /\ Views!Move(o, [opener[o] EXCEPT !.pc = "remove"])
           /\ win' = [win EXCEPT ![n].state = IF @ = "running" THEN "closed" ELSE @]
  <2>1. n \in Views!View /\ Known(n)
    BY <1>3, KeptIs DEF WindowKept, CallsHand, Known
  <2>. DEFINE r == [win[n] EXCEPT !.state = IF win[n].state = "running" THEN "closed" ELSE win[n].state]
  <2>2. win' = [win EXCEPT ![n] = r]
    BY <1>3, <2>1
  <2>3. /\ r \in Wins /\ r.state = (IF win[n].state = "running" THEN "closed" ELSE win[n].state) /\ r.updating = win[n].updating
        /\ r.watch = win[n].watch /\ r.registered = win[n].registered
    BY <2>1, KeptIs DEF Wins
  <2>. HIDE DEF r
  <2>4. win' \in [Views!View -> Wins] /\ win'[n] = r /\ \A w \in Views!View : w # n => win'[w] = win[w]
    BY <2>1, <2>2, <2>3, OneChanged DEF WindowKept
  <2>5. opener' = [opener EXCEPT ![o] = [pc |-> "remove", turn |-> opener[o].turn, view |-> n]]
    BY <1>3, MoveIs DEF Views!Move
  <2>6. n \in 0 .. MaxViews /\ n # 0
    BY KeptIs, <2>1 DEF Known
  <2>7. /\ opener' = [p \in Opener |-> [pc |-> opener'[p].pc, turn |-> opener'[p].turn, view |-> opener'[p].view]]
        /\ \A p \in Opener : opener'[p].pc \in Calls /\ opener'[p].view \in 0 .. MaxViews
        /\ opener'[o].pc = "remove" /\ opener'[o].view = n
        /\ \A p \in Opener : p # o => opener'[p].pc = opener[p].pc /\ opener'[p].view = opener[p].view
    <3>1. "remove" \in Calls
      BY DEF Calls
    <3>. QED
      BY <2>5, <2>6, <3>1, CallIs DEF WindowKept
  <2>8. WindowTyped'
    BY <1>1, <2>4, <2>7 DEF WindowKept, WindowTyped
  <2>9. \A w \in 0 .. MaxViews : /\ Known(w)' <=> Known(w)
                                 /\ Views!Running(w)' <=> Views!Running(w) /\ w # n
    BY <2>1, <2>3, <2>4, KeptIs DEF Known, Views!Running
  <2>10. \A w \in Views!View : /\ win'[w].updating = win[w].updating /\ win'[w].watch = win[w].watch
                               /\ win'[w].registered = win[w].registered
    BY <2>3, <2>4
  <2>11. CallsHand'
    BY <1>1, <2>6, <2>7, <2>9, <2>10, <2>1, KeptIs DEF WindowKept, CallsHand, InJob, Known
  <2>12. JobsHand'
    BY <1>1, <2>9, <2>10, KeptIs DEF WindowKept, JobsHand, Known
  <2>13. Found'
    <3>1. ASSUME NEW v, InCall(v) PROVE InCall(v)'
      BY <1>3, <2>7, <3>1 DEF InCall
    <3>2. \A v : InJob(v)' <=> InJob(v)
      BY <1>1 DEF InJob
    <3>. QED
      BY <1>1, <2>9, <3>1, <3>2, KeptIs DEF WindowKept, Found
  <2>14. Watched'
    <3>1. \A w \in Views!View : win[w].state # "none" => win'[w].state # "none"
      BY <2>3, <2>4
    <3>. QED
      BY <2>9, <2>10, <3>1, KeptIs DEF WindowKept, Watched
  <2>15. Worked'
    <3>1. \A w \in Views!View : SeenTo(w) => SeenTo(w)'
      <4>1. \A p \in Opener : opener[p].pc \in {"wait", "remove"} => opener'[p].pc \in {"wait", "remove"} /\ opener'[p].view = opener[p].view
        BY <1>3, <2>7
      <4>. QED
        BY <2>10, <4>1 DEF SeenTo
    <3>2. SeenTo(n)'
      BY <2>7 DEF SeenTo
    <3>3. ~win[n].registered
      BY <1>3
    <3>4. /\ job.pc \notin {"idle", "insert"} /\ Views!Running(job.view)' => held = job.view
          /\ job.pc # "idle" /\ ~job.started /\ ~job.closed /\ Views!Running(job.view)' => win'[job.view].registered
          /\ job.pc = "gone" /\ job.started => ~Views!Running(job.view)'
      <4>1. job.view \in 0 .. MaxViews /\ (Views!Running(job.view) => job.view \in Views!View)
        BY KeptIs DEF Views!Running
      <4>. QED
        BY <1>1, <2>9, <2>10, <4>1 DEF WindowKept, Worked
    <3>5. ASSUME job.pc \in {"idle", "backwait", "finish"}, held # 0
          PROVE  /\ Views!Running(held)' \/ SeenTo(held)'
                 /\ win'[held].updating => /\ job.pc = "finish" /\ held = job.view
                                           /\ Views!Running(held)' /\ win'[held].registered
      <4>1. held \in Views!View
        BY <3>5, KeptIs
      <4>2. CASE held = n
        BY <1>1, <2>6, <2>10, <3>2, <3>3, <3>5, <4>1, <4>2 DEF WindowKept, Worked
      <4>3. CASE held # n
        BY <1>1, <2>9, <2>10, <3>1, <3>5, <4>1, <4>3, KeptIs DEF WindowKept, Worked
      <4>. QED
        BY <4>2, <4>3
    <3>. QED
      BY <1>1, <3>4, <3>5 DEF Worked
  <2>. QED
    BY <2>8, <2>11, <2>12, <2>13, <2>14, <2>15 DEF WindowKept
<1>. QED
  BY <1>1, <1>2, <1>3 DEF Views!Waits, Views!At

LEMMA RemovesSafe ==
  ASSUME WindowKept, raced' = {}, NEW o \in Opener, Views!Removes(o)
  PROVE  WindowKept'
<1>. PICK n \in 0 .. MaxViews : n = opener[o].view
  BY KeptIs
<1>1. opener[o].pc = "remove" /\ held' = 0 /\ UNCHANGED <<win, job>> /\ held \in {0, n}
      /\ opener' = [opener EXCEPT ![o] = [opener[o] EXCEPT !.pc = "leave"]]
  BY DEF Views!Removes, Views!At, Views!Move
<1>2. ~Views!Running(n) /\ n \in 0 .. MaxViews
  BY <1>1, KeptIs DEF WindowKept, CallsHand
<1>3. opener' = [opener EXCEPT ![o] = [pc |-> "leave", turn |-> opener[o].turn, view |-> n]]
  BY <1>1, MoveIs
<1>4. /\ opener' = [p \in Opener |-> [pc |-> opener'[p].pc, turn |-> opener'[p].turn, view |-> opener'[p].view]]
      /\ \A p \in Opener : opener'[p].pc \in Calls /\ opener'[p].view \in 0 .. MaxViews
      /\ opener'[o].pc = "leave" /\ opener'[o].view = n
      /\ \A p \in Opener : p # o => opener'[p].pc = opener[p].pc /\ opener'[p].view = opener[p].view
  <2>1. "leave" \in Calls
    BY DEF Calls
  <2>. QED
    BY <1>2, <1>3, <2>1, CallIs DEF WindowKept
<1>5. WindowTyped'
  <2>1. held' \in 0 .. MaxViews
    BY <1>1, ServicesConstants
  <2>. QED
    BY <1>1, <1>4, <2>1 DEF WindowKept, WindowTyped
<1>6. \A p \in Opener : \/ opener'[p].pc = opener[p].pc /\ opener'[p].view = opener[p].view
                        \/ opener[p].pc # "insert" /\ opener'[p].pc = "leave"
  BY <1>1, <1>4
<1>7. \A w \in Views!View : win[w].watch # "insert"
  BY DEF WindowKept, Watched
<1>. QED
  BY <1>1, <1>2, <1>5, <1>6, <1>7, KeptIs, HeldByNone

-----------------------------------------------------------------------------
\* ManagedWindow: the update.

JobPcs == {"idle", "prepare", "mark", "ask", "detach", "restart", "marking", "insert", "wait", "back", "gone",
           "backinsert", "backwait", "finish"}

\* What Goes() makes of the update, and what Goes() and one more field make of it.
LEMMA JobIs ==
  ASSUME NEW j \in Jobs, NEW pc \in JobPcs
  PROVE  LET k == [j EXCEPT !.pc = pc] IN
         /\ k \in Jobs /\ k.pc = pc /\ k.view = j.view /\ k.asked = j.asked /\ k.closed = j.closed
         /\ k.started = j.started /\ k.back = j.back
BY DEF Jobs, JobPcs

\* Nothing in its hand before or after: the update goes on to a step at which no window need be held.
LEMMA JobGoesOn ==
  ASSUME WindowKept, NEW pc \in {"mark", "ask", "detach", "restart", "back"},
         job.pc \notin {"idle", "marking", "insert", "backinsert"},
         job' = [job EXCEPT !.pc = pc], UNCHANGED <<win, held, opener>>
  PROVE  WindowKept'
<1>1. /\ job' \in Jobs /\ job'.pc = pc /\ job'.view = job.view /\ job'.closed = job.closed
      /\ job'.started = job.started
  <2>1. job \in Jobs /\ pc \in JobPcs
    BY KeptIs DEF JobPcs
  <2>. QED
    BY <2>1, JobIs
<1>2. \A w : (Known(w)' <=> Known(w)) /\ (Views!Running(w)' <=> Views!Running(w)) /\ ~InJob(w)' /\ ~InJob(w)
  BY <1>1 DEF Known, Views!Running, InJob
<1>3. WindowTyped'
  BY <1>1 DEF WindowKept, WindowTyped
<1>4. CallsHand' /\ Found' /\ Watched'
  BY <1>2 DEF WindowKept, CallsHand, Found, Watched, InCall
<1>5. JobsHand'
  BY <1>1, <1>2 DEF WindowKept, JobsHand
<1>6. Worked'
  BY <1>1, <1>2 DEF WindowKept, Worked
<1>. QED
  BY <1>3, <1>4, <1>5, <1>6 DEF WindowKept

\* The update is over: what the map holds runs or is seen to, and is marked only as the update's own.
LEMMA JobIsOver ==
  ASSUME WindowKept, job.pc \notin {"idle", "marking", "insert", "backinsert"},
         job' = [job EXCEPT !.pc = "finish"], UNCHANGED <<win, held, opener>>,
         held # 0 => /\ Views!Running(held) \/ SeenTo(held)
                     /\ win[held].updating => held = job.view /\ Views!Running(held) /\ win[held].registered
  PROVE  WindowKept'
<1>1. /\ job' \in Jobs /\ job'.pc = "finish" /\ job'.view = job.view /\ job'.closed = job.closed
      /\ job'.started = job.started
  <2>1. job \in Jobs /\ "finish" \in JobPcs
    BY KeptIs DEF JobPcs
  <2>. QED
    BY <2>1, JobIs
<1>2. \A w : (Known(w)' <=> Known(w)) /\ (Views!Running(w)' <=> Views!Running(w)) /\ ~InJob(w)' /\ ~InJob(w)
             /\ (SeenTo(w)' <=> SeenTo(w))
  BY <1>1 DEF Known, Views!Running, InJob, SeenTo
<1>3. WindowTyped'
  BY <1>1 DEF WindowKept, WindowTyped
<1>4. CallsHand' /\ Found' /\ Watched'
  BY <1>2 DEF WindowKept, CallsHand, Found, Watched, InCall
<1>5. JobsHand'
  BY <1>1, <1>2 DEF WindowKept, JobsHand
<1>6. Worked'
  BY <1>1, <1>2 DEF WindowKept, Worked
<1>. QED
  BY <1>3, <1>4, <1>5, <1>6 DEF WindowKept

\* A process is started for the update, to replace the one that was held or to put it back.
LEMMA JobStarts ==
  ASSUME WindowKept, Views!Free # {}, win' = Views!Start, NEW j \in Jobs, job' = j, UNCHANGED <<held, opener>>,
         job.pc \in {"restart", "gone"}, j.view = job.view, j.started = job.started, j.closed = job.closed,
         \/ j.pc = "marking" /\ j.asked = Views!Next1
         \/ j.pc = "backinsert" /\ j.back = Views!Next1
  PROVE  WindowKept'
<1>1. PICK n \in Views!View :
      /\ n = Views!Next1 /\ ~Known(n) /\ win' \in [Views!View -> Wins] /\ Known(n)'
      /\ win'[n].state = "running" /\ ~win'[n].updating /\ win'[n].watch = "on"
      /\ \A v \in Views!View : v # n => win'[v] = win[v]
      /\ \A v \in 0 .. MaxViews : Known(v) => v # n /\ v \in Views!View
      /\ \A v \in 0 .. MaxViews : v # n => (Known(v)' <=> Known(v)) /\ (Views!Running(v)' <=> Views!Running(v))
  BY NewIsNobodys
<1>2. \A v : ~InJob(v) /\ (InJob(v)' <=> v = n)
  BY <1>1 DEF InJob
<1>3. WindowTyped'
  BY <1>1, KeptIs, TypedStays
<1>4. CallsHand'
  <2>1. \A v \in 0 .. MaxViews : Known(v) => v # n /\ v \in Views!View /\ Known(v)' /\ win'[v] = win[v]
                                             /\ (Views!Running(v)' <=> Views!Running(v))
    BY <1>1
  <2>2. \A p \in Opener : opener[p].pc = "insert" => Known(opener[p].view)' /\ ~win'[opener[p].view].updating
                                                    /\ ~InJob(opener[p].view)'
    BY <1>2, <2>1, KeptIs DEF WindowKept, CallsHand
  <2>3. \A p \in Opener : opener[p].pc \in {"wait", "remove"} => Known(opener[p].view)'
    BY <2>1, KeptIs DEF WindowKept, CallsHand
  <2>4. \A p \in Opener : opener[p].pc = "remove" => ~Views!Running(opener[p].view)'
    BY <2>1, KeptIs DEF WindowKept, CallsHand
  <2>. QED
    BY <2>2, <2>3, <2>4, Zenon DEF WindowKept, CallsHand
<1>5. JobsHand'
  BY <1>1, KeptIs DEF WindowKept, JobsHand
<1>6. Found'
  BY <1>1, <1>2, KeptIs DEF WindowKept, Found, InCall
<1>7. Watched'
  BY <1>1, KeptIs DEF WindowKept, Watched
<1>8. Worked'
  <2>1. job.view # n /\ job.view \in Views!View
    BY <1>1, KeptIs DEF WindowKept, JobsHand
  <2>. QED
    BY <1>1, <2>1, KeptIs DEF WindowKept, Worked
<1>. QED
  BY <1>3, <1>4, <1>5, <1>6, <1>7, <1>8 DEF WindowKept

LEMMA UpdateSafe ==
  ASSUME WindowKept, Views!Update
  PROVE  WindowKept'
<1>1. /\ job.pc = "idle" /\ held # 0 /\ win[held].registered /\ UNCHANGED <<win, held, opener>>
      /\ job' = [Views!NoJob EXCEPT !.pc = "prepare", !.view = held]
  BY DEF Views!Update, Views!Busy, Views!Rest
<1>. DEFINE z == Views!NoJob
<1>. DEFINE j == [z EXCEPT !.pc = "prepare", !.view = held]
<1>2. z \in Jobs
  BY ServicesConstants DEF Views!NoJob, Jobs
<1>3. job' = j
  BY <1>1
<1>. HIDE DEF z
<1>4. j \in Jobs /\ j.pc = "prepare" /\ j.view = held
  BY <1>2, KeptIs DEF Jobs
<1>. HIDE DEF j
<1>5. \A w : (Known(w)' <=> Known(w)) /\ (Views!Running(w)' <=> Views!Running(w)) /\ ~InJob(w)' /\ ~InJob(w)
  BY <1>1, <1>3, <1>4 DEF Known, Views!Running, InJob
<1>6. WindowTyped'
  BY <1>1, <1>3, <1>4 DEF WindowKept, WindowTyped
<1>7. CallsHand' /\ Found' /\ Watched'
  BY <1>1, <1>5 DEF WindowKept, CallsHand, Found, Watched, InCall
<1>8. JobsHand' /\ Worked'
  BY <1>1, <1>3, <1>4, <1>5 DEF WindowKept, JobsHand, Worked
<1>. QED
  BY <1>6, <1>7, <1>8 DEF WindowKept

LEMMA StepsOnSafe ==
  ASSUME WindowKept, Views!Prepares \/ Views!AsksReload \/ Views!Detaches
  PROVE  WindowKept'
<1>1. /\ job.pc \notin {"idle", "marking", "insert", "backinsert"} /\ UNCHANGED <<win, held, opener>>
  BY DEF Views!Prepares, Views!AsksReload, Views!Detaches, Views!Rest
<1>2. \E pc \in {"mark", "ask", "detach", "restart", "back"} : job' = [job EXCEPT !.pc = pc]
  BY DEF Views!Prepares, Views!AsksReload, Views!Detaches, Views!Goes
<1>. QED
  BY <1>1, <1>2, JobGoesOn

LEMMA MarksSafe ==
  ASSUME WindowKept, Views!Marks
  PROVE  WindowKept'
<1>1. job.pc = "mark" /\ UNCHANGED <<held, opener>>
  BY DEF Views!Marks, Views!Rest
<1>2. PICK pc \in {"restart", "ask"} : job' = [job EXCEPT !.pc = pc, !.asked = held]
  BY DEF Views!Marks
<1>. DEFINE a == [job EXCEPT !.pc = pc]
<1>. DEFINE j == [a EXCEPT !.asked = held]
<1>3. job' = j
  BY <1>2
<1>4. a \in Jobs /\ a.pc = pc /\ a.view = job.view /\ a.started = job.started /\ a.closed = job.closed
  <2>1. job \in Jobs /\ pc \in JobPcs
    BY KeptIs DEF JobPcs
  <2>. QED
    BY <2>1, JobIs
<1>. HIDE DEF a
<1>5. j \in Jobs /\ j.pc = pc /\ j.view = job.view /\ j.started = job.started /\ j.closed = job.closed
  BY <1>4, KeptIs DEF Jobs
<1>. HIDE DEF j
<1>6. /\ win' \in [Views!View -> Wins]
      /\ \A w \in Views!View : /\ win'[w].state = win[w].state /\ win'[w].registered = win[w].registered
                               /\ win'[w].watch = win[w].watch
                               /\ w # held => win'[w].updating = win[w].updating
  <2>1. CASE held = 0 /\ win' = win
    BY <2>1, KeptIs
  <2>2. CASE held # 0 /\ win' = [win EXCEPT ![held].updating = TRUE]
    <3>. DEFINE r == [win[held] EXCEPT !.updating = TRUE]
    <3>1. held \in Views!View /\ win' = [win EXCEPT ![held] = r]
      BY <2>2, KeptIs
    <3>2. r \in Wins /\ r.state = win[held].state /\ r.registered = win[held].registered /\ r.watch = win[held].watch
      BY <3>1, KeptIs DEF Wins
    <3>. HIDE DEF r
    <3>3. win' \in [Views!View -> Wins] /\ win'[held] = r /\ \A w \in Views!View : w # held => win'[w] = win[w]
      BY <3>1, <3>2, OneChanged DEF WindowKept
    <3>. QED
      BY <3>2, <3>3
  <2>. QED
    BY <2>1, <2>2 DEF Views!Marks
<1>7. \A w \in 0 .. MaxViews : (Known(w)' <=> Known(w)) /\ (Views!Running(w)' <=> Views!Running(w))
  BY <1>6, KeptIs DEF Known, Views!Running
<1>8. \A w : ~InJob(w)' /\ ~InJob(w)
  BY <1>1, <1>3, <1>5 DEF InJob
<1>9. WindowTyped'
  BY <1>1, <1>3, <1>5, <1>6, KeptIs, TypedStays
<1>10. CallsHand'
  BY <1>1, <1>6, <1>7, <1>8, KeptIs DEF WindowKept, CallsHand, Known
<1>11. JobsHand'
  BY <1>1, <1>3, <1>5, <1>7, KeptIs DEF WindowKept, JobsHand
<1>12. Found' /\ Watched'
  BY <1>1, <1>6, <1>7, <1>8, KeptIs DEF WindowKept, Found, InCall, Watched
<1>13. Worked'
  BY <1>1, <1>3, <1>5, <1>6, <1>7, KeptIs DEF WindowKept, Worked, JobsHand, Known
<1>. QED
  BY <1>9, <1>10, <1>11, <1>12, <1>13 DEF WindowKept

LEMMA UpdateRestarts ==
  ASSUME WindowKept, Views!Restarts
  PROVE  WindowKept'
<1>1. job.pc = "restart" /\ UNCHANGED <<held, opener>>
  BY DEF Views!Restarts, Views!Rest
<1>2. CASE job' = [job EXCEPT !.pc = "back"] /\ UNCHANGED win
  BY <1>1, <1>2, JobGoesOn
<1>3. CASE held = 0 /\ job' = [job EXCEPT !.pc = "finish"] /\ UNCHANGED win
  BY <1>1, <1>3, JobIsOver
<1>4. CASE Views!Free # {} /\ win' = Views!Start /\ job' = [job EXCEPT !.pc = "marking", !.asked = Views!Next1]
  <2>. DEFINE a == [job EXCEPT !.pc = "marking"]
  <2>. DEFINE j == [a EXCEPT !.asked = Views!Next1]
  <2>1. job' = j
    BY <1>4
  <2>2. a \in Jobs /\ a.pc = "marking" /\ a.view = job.view /\ a.started = job.started /\ a.closed = job.closed
    <3>1. job \in Jobs /\ "marking" \in JobPcs
      BY KeptIs DEF JobPcs
    <3>. QED
      BY <3>1, JobIs
  <2>. HIDE DEF a
  <2>3. Views!Next1 \in 0 .. MaxViews
    BY <1>4, NewIsNobodys, KeptIs
  <2>4. /\ j \in Jobs /\ j.pc = "marking" /\ j.asked = Views!Next1 /\ j.view = job.view
        /\ j.started = job.started /\ j.closed = job.closed
    BY <2>2, <2>3 DEF Jobs
  <2>. HIDE DEF j
  <2>. QED
    BY <1>1, <1>4, <2>1, <2>4, JobStarts
<1>. QED
  BY <1>2, <1>3, <1>4 DEF Views!Restarts, Views!Goes

LEMMA MarksNewSafe ==
  ASSUME WindowKept, Views!MarksNew
  PROVE  WindowKept'
<1>. DEFINE n == job.asked
<1>1. /\ job.pc = "marking" /\ UNCHANGED <<held, opener>> /\ win' = [win EXCEPT ![n].updating = TRUE]
      /\ job' = [job EXCEPT !.pc = "insert", !.view = n, !.started = TRUE]
  BY DEF Views!MarksNew, Views!Rest
<1>2. Known(n) /\ n \in Views!View /\ InJob(n)
  BY <1>1, KeptIs DEF WindowKept, JobsHand, Known, InJob
<1>. DEFINE r == [win[n] EXCEPT !.updating = TRUE]
<1>3. win' = [win EXCEPT ![n] = r]
  BY <1>1
<1>4. r \in Wins /\ r.state = win[n].state /\ r.watch = win[n].watch
  BY <1>2, KeptIs DEF Wins
<1>. DEFINE a == [job EXCEPT !.pc = "insert"]
<1>. DEFINE b == [a EXCEPT !.view = n]
<1>. DEFINE j == [b EXCEPT !.started = TRUE]
<1>5. job' = j
  BY <1>1
<1>6. a \in Jobs /\ a.pc = "insert"
  BY KeptIs DEF Jobs
<1>. HIDE DEF a
<1>7. b \in Jobs /\ b.pc = "insert" /\ b.view = n
  BY <1>6, KeptIs DEF Jobs
<1>. HIDE DEF b
<1>8. j \in Jobs /\ j.pc = "insert" /\ j.view = n /\ j.started = TRUE
  BY <1>7 DEF Jobs
<1>. HIDE DEF j, r
<1>9. win' \in [Views!View -> Wins] /\ win'[n] = r /\ \A w \in Views!View : w # n => win'[w] = win[w]
  BY <1>2, <1>3, <1>4, OneChanged DEF WindowKept
<1>10. \A w \in 0 .. MaxViews : (Known(w)' <=> Known(w)) /\ (Views!Running(w)' <=> Views!Running(w))
  BY <1>2, <1>4, <1>9, KeptIs DEF Known, Views!Running
<1>11. \A w : InJob(w)' <=> InJob(w)
  BY <1>1, <1>5, <1>8 DEF InJob
<1>12. WindowTyped'
  BY <1>1, <1>5, <1>8, <1>9, KeptIs, TypedStays
<1>13. CallsHand'
  <2>1. ASSUME NEW p \in Opener, opener[p].pc = "insert"
        PROVE  /\ Known(opener[p].view)' /\ ~win'[opener[p].view].updating
               /\ held' # opener[p].view /\ ~InJob(opener[p].view)'
    <3>1. opener[p].view # n /\ opener[p].view \in Views!View
      BY <1>2, <2>1, KeptIs DEF WindowKept, CallsHand, Known
    <3>. QED
      BY <1>1, <1>9, <1>10, <1>11, <2>1, <3>1, KeptIs DEF WindowKept, CallsHand
  <2>. QED
    BY <1>1, <1>10, <2>1, KeptIs DEF WindowKept, CallsHand
<1>14. JobsHand'
  BY <1>1, <1>2, <1>5, <1>8, <1>10, KeptIs DEF WindowKept, JobsHand
<1>15. Found'
  BY <1>1, <1>10, <1>11, KeptIs DEF WindowKept, Found, InCall
<1>16. Watched'
  BY <1>4, <1>9, <1>10, KeptIs DEF WindowKept, Watched
<1>17. Worked'
  BY <1>5, <1>8 DEF Worked
<1>. QED
  BY <1>12, <1>13, <1>14, <1>15, <1>16, <1>17 DEF WindowKept

\* The map takes what the update has in its hand, over nobody that runs.
LEMMA JobInserts ==
  ASSUME WindowKept, ~Views!Running(held), UNCHANGED <<win, opener>>,
         NEW n \in 0 .. MaxViews, InJob(n), held' = n,
         NEW pc \in {"wait", "backwait"}, job' = [job EXCEPT !.pc = pc], Worked'
  PROVE  WindowKept'
<1>1. Known(n) /\ job.pc # "idle"
  BY InJobIsKnown DEF InJob
<1>2. job' \in Jobs /\ job'.pc = pc /\ job'.view = job.view
  <2>1. job \in Jobs /\ pc \in JobPcs
    BY KeptIs DEF JobPcs
  <2>. QED
    BY <2>1, JobIs
<1>3. \A w : /\ (Known(w)' <=> Known(w)) /\ (Views!Running(w)' <=> Views!Running(w)) /\ ~InJob(w)'
             /\ (InJob(w) => w = n)
  BY <1>2 DEF Known, Views!Running, InJob
<1>4. WindowTyped'
  BY <1>2 DEF WindowKept, WindowTyped
<1>5. CallsHand'
  BY <1>3 DEF WindowKept, CallsHand
<1>6. JobsHand'
  BY <1>1, <1>2, <1>3 DEF WindowKept, JobsHand
<1>7. Found'
  BY <1>3 DEF WindowKept, Found, InCall
<1>8. Watched'
  BY <1>3 DEF WindowKept, Watched
<1>. QED
  BY <1>4, <1>5, <1>6, <1>7, <1>8 DEF WindowKept

LEMMA InsertsNewSafe ==
  ASSUME WindowKept, raced' = {}, Views!InsertsNew
  PROVE  WindowKept'
<1>1. /\ job.pc = "insert" /\ ~Views!Running(held) /\ UNCHANGED <<win, opener>> /\ held' = job.view
      /\ job' = [job EXCEPT !.pc = "wait"]
  BY DEF Views!InsertsNew, Views!Over, Views!Goes
<1>2. job.view \in 0 .. MaxViews /\ InJob(job.view)
  BY <1>1, KeptIs DEF InJob
<1>3. /\ job'.pc = "wait" /\ job'.view = job.view /\ job'.started = job.started /\ job'.closed = job.closed
  <2>1. job \in Jobs /\ "wait" \in JobPcs
    BY KeptIs DEF JobPcs
  <2>. QED
    BY <1>1, <2>1, JobIs
<1>4. Worked'
  BY <1>1, <1>3 DEF WindowKept, Worked, Views!Running
<1>. QED
  BY <1>1, <1>2, <1>4, JobInserts

LEMMA InsertsBackSafe ==
  ASSUME WindowKept, raced' = {}, Views!InsertsBack
  PROVE  WindowKept'
<1>1. /\ job.pc = "backinsert" /\ ~Views!Running(held) /\ UNCHANGED <<win, opener>> /\ held' = job.back
      /\ job' = [job EXCEPT !.pc = "backwait"] /\ win[job.back].watch # "off"
  BY DEF Views!InsertsBack, Views!Over, Views!Goes
<1>2. job.back \in 0 .. MaxViews /\ InJob(job.back)
  BY <1>1, KeptIs DEF InJob
<1>3. /\ job'.pc = "backwait" /\ job'.view = job.view /\ job'.started = job.started /\ job'.closed = job.closed
  <2>1. job \in Jobs /\ "backwait" \in JobPcs
    BY KeptIs DEF JobPcs
  <2>. QED
    BY <1>1, <2>1, JobIs
<1>4. ~Views!Running(job.view)
  BY <1>1 DEF WindowKept, Worked
<1>5. job.back \in Views!View /\ ~win[job.back].updating
  BY <1>1, KeptIs DEF WindowKept, JobsHand, Known
<1>6. win[job.back].watch \in {"on", "closed", "detached"}
  BY <1>1, <1>5, KeptIs DEF WindowKept, Watched, Wins
<1>7. Worked'
  BY <1>1, <1>3, <1>4, <1>5, <1>6 DEF Worked, SeenTo, Views!Running
<1>. QED
  BY <1>1, <1>2, <1>7, JobInserts

LEMMA WaitsNewSafe ==
  ASSUME WindowKept, Views!WaitsNew \/ Views!WaitsBack
  PROVE  WindowKept'
<1>1. UNCHANGED <<win, held, opener>>
  BY DEF Views!WaitsNew, Views!WaitsBack, Views!Rest
<1>2. CASE /\ job.pc = "wait" /\ Views!Running(job.view) /\ win[job.view].registered
           /\ job' = [job EXCEPT !.pc = "finish"]
  <2>1. held = job.view
    BY <1>2 DEF WindowKept, Worked
  <2>. QED
    BY <1>1, <1>2, <2>1, JobIsOver
<1>3. CASE job.pc = "wait" /\ job' = [job EXCEPT !.pc = "back"]
  BY <1>1, <1>3, JobGoesOn
<1>4. CASE job.pc = "backwait" /\ job' = [job EXCEPT !.pc = "finish"]
  <2>1. held # 0 => (Views!Running(held) \/ SeenTo(held)) /\ ~win[held].updating
    BY <1>4 DEF WindowKept, Worked
  <2>. QED
    BY <1>1, <1>4, <2>1, JobIsOver
<1>. QED
  BY <1>2, <1>3, <1>4 DEF Views!WaitsNew, Views!WaitsBack, Views!Goes

LEMMA PutsBackSafe ==
  ASSUME WindowKept, Views!PutsBack
  PROVE  WindowKept'
<1>1. job.pc = "back" /\ UNCHANGED <<held, opener>>
  BY DEF Views!PutsBack, Views!Rest
<1>2. Known(job.view) /\ job.view \in Views!View /\ job.view # 0
  BY <1>1, KeptIs DEF WindowKept, JobsHand, Known
<1>3. /\ job' = [job EXCEPT !.pc = "gone"]
      /\ win' = IF job.started /\ Views!Running(job.view) THEN [win EXCEPT ![job.view].state = "closed"] ELSE win
  BY <1>2 DEF Views!PutsBack, Views!Goes
<1>4. /\ job' \in Jobs /\ job'.pc = "gone" /\ job'.view = job.view /\ job'.started = job.started /\ job'.closed = job.closed
  <2>1. job \in Jobs /\ "gone" \in JobPcs
    BY KeptIs DEF JobPcs
  <2>. QED
    BY <1>3, <2>1, JobIs
<1>5. /\ win' \in [Views!View -> Wins]
      /\ \A w \in Views!View : /\ win'[w].updating = win[w].updating /\ win'[w].watch = win[w].watch
                               /\ win'[w].registered = win[w].registered
                               /\ win'[w].state = win[w].state \/ (win[w].state # "none" /\ win'[w].state = "closed")
      /\ job.started => win'[job.view].state # "running"
  <2>1. CASE ~(job.started /\ Views!Running(job.view))
    BY <1>2, <1>3, <2>1, KeptIs DEF Views!Running
  <2>2. CASE job.started /\ Views!Running(job.view)
    <3>. DEFINE r == [win[job.view] EXCEPT !.state = "closed"]
    <3>1. win' = [win EXCEPT ![job.view] = r]
      BY <1>3, <2>2
    <3>2. /\ r \in Wins /\ r.updating = win[job.view].updating /\ r.registered = win[job.view].registered
          /\ r.watch = win[job.view].watch /\ r.state = "closed"
      BY <1>2, KeptIs DEF Wins
    <3>. HIDE DEF r
    <3>3. win' \in [Views!View -> Wins] /\ win'[job.view] = r /\ \A w \in Views!View : w # job.view => win'[w] = win[w]
      BY <1>2, <3>1, <3>2, OneChanged DEF WindowKept
    <3>. QED
      BY <1>2, <3>2, <3>3 DEF Known
  <2>. QED
    BY <2>1, <2>2
<1>6. \A w \in 0 .. MaxViews : (Known(w)' <=> Known(w)) /\ (Views!Running(w)' => Views!Running(w))
  BY <1>5, KeptIs DEF Known, Views!Running
<1>7. \A w : ~InJob(w)' /\ ~InJob(w)
  BY <1>1, <1>4 DEF InJob
<1>8. WindowTyped'
  BY <1>1, <1>4, <1>5, KeptIs, TypedStays
<1>9. CallsHand'
  BY <1>1, <1>5, <1>6, <1>7, KeptIs DEF WindowKept, CallsHand, Known
<1>10. JobsHand'
  BY <1>1, <1>4, <1>6, KeptIs DEF WindowKept, JobsHand
<1>11. Found'
  BY <1>1, <1>6, <1>7, KeptIs DEF WindowKept, Found, InCall
<1>12. Watched'
  <2>1. \A w \in Views!View : win[w].state # "none" => win'[w].state # "none"
    BY <1>5
  <2>. QED
    BY <1>5, <1>6, <2>1, KeptIs DEF WindowKept, Watched
<1>13. Worked'
  <2>1. job.started => ~Views!Running(job.view)'
    BY <1>4, <1>5 DEF Views!Running
  <2>2. Views!Running(job.view)' => Views!Running(job.view)
    BY <1>2, <1>4, <1>5 DEF Views!Running
  <2>. QED
    BY <1>1, <1>2, <1>4, <1>5, <2>1, <2>2 DEF WindowKept, Worked
<1>. QED
  BY <1>8, <1>9, <1>10, <1>11, <1>12, <1>13 DEF WindowKept

LEMMA RegardsSafe ==
  ASSUME WindowKept, raced' = {}, Views!Regards
  PROVE  WindowKept'
<1>1. job.pc = "gone" /\ UNCHANGED <<held, opener>>
  BY DEF Views!Regards
<1>2. CASE ~job.closed /\ Views!Running(job.view) /\ job' = [job EXCEPT !.pc = "finish"] /\ UNCHANGED win
  <2>1. held = job.view /\ win[job.view].registered
    BY <1>1, <1>2 DEF WindowKept, Worked
  <2>. QED
    BY <1>1, <1>2, <2>1, JobIsOver
<1>3. CASE /\ Views!Free # {} /\ win' = Views!Start
           /\ job' = [job EXCEPT !.pc = "backinsert", !.back = Views!Next1]
  <2>. DEFINE a == [job EXCEPT !.pc = "backinsert"]
  <2>. DEFINE j == [a EXCEPT !.back = Views!Next1]
  <2>1. job' = j
    BY <1>3
  <2>2. a \in Jobs /\ a.pc = "backinsert" /\ a.view = job.view /\ a.started = job.started /\ a.closed = job.closed
    <3>1. job \in Jobs /\ "backinsert" \in JobPcs
      BY KeptIs DEF JobPcs
    <3>. QED
      BY <3>1, JobIs
  <2>. HIDE DEF a
  <2>3. Views!Next1 \in 0 .. MaxViews
    BY <1>3, NewIsNobodys, KeptIs
  <2>4. /\ j \in Jobs /\ j.pc = "backinsert" /\ j.back = Views!Next1 /\ j.view = job.view
        /\ j.started = job.started /\ j.closed = job.closed
    BY <2>2, <2>3 DEF Jobs
  <2>. HIDE DEF j
  <2>. QED
    BY <1>1, <1>3, <2>1, <2>4, JobStarts
<1>. QED
  BY <1>2, <1>3 DEF Views!Regards, Views!Goes

LEMMA FinishesSafe ==
  ASSUME WindowKept, Views!Finishes
  PROVE  WindowKept'
<1>1. job.pc = "finish" /\ job' = Views!NoJob /\ UNCHANGED <<held, opener>>
  BY DEF Views!Finishes, Views!Rest
<1>2. Known(job.view) /\ job.view \in Views!View /\ job.view # 0
  BY <1>1, KeptIs DEF WindowKept, JobsHand, Known
<1>3. Views!NoJob \in Jobs /\ Views!NoJob.pc = "idle"
  BY ServicesConstants DEF Views!NoJob, Jobs
<1>. DEFINE r == [win[job.view] EXCEPT !.updating = FALSE]
<1>4. win' = [win EXCEPT ![job.view] = r]
  BY <1>2 DEF Views!Finishes
<1>5. /\ r \in Wins /\ r.updating = FALSE /\ r.registered = win[job.view].registered
      /\ r.watch = win[job.view].watch /\ r.state = win[job.view].state
  BY <1>2, KeptIs DEF Wins
<1>. HIDE DEF r
<1>6. win' \in [Views!View -> Wins] /\ win'[job.view] = r /\ \A w \in Views!View : w # job.view => win'[w] = win[w]
  BY <1>2, <1>4, <1>5, OneChanged DEF WindowKept
<1>7. \A w \in Views!View : /\ win'[w].state = win[w].state /\ win'[w].watch = win[w].watch
                            /\ win'[w].updating => win[w].updating /\ w # job.view
  BY <1>5, <1>6
<1>8. \A w \in 0 .. MaxViews : /\ Known(w)' <=> Known(w)
                               /\ Views!Running(w)' <=> Views!Running(w)
  BY <1>7, KeptIs DEF Known, Views!Running
<1>9. \A w : ~InJob(w)' /\ ~InJob(w)
  BY <1>1, <1>3 DEF InJob
<1>10. WindowTyped'
  BY <1>1, <1>3, <1>6, KeptIs, TypedStays
<1>11. CallsHand'
  BY <1>1, <1>7, <1>8, <1>9, KeptIs DEF WindowKept, CallsHand, Known
<1>12. JobsHand'
  BY <1>1, <1>3, <1>8, KeptIs DEF WindowKept, JobsHand
<1>13. Found' /\ Watched'
  BY <1>1, <1>7, <1>8, <1>9, KeptIs DEF WindowKept, Found, InCall, Watched
<1>14. Worked'
  <2>1. held # 0 => (Views!Running(held)' \/ SeenTo(held)') /\ ~win'[held].updating
    BY <1>1, <1>7, <1>8, KeptIs DEF WindowKept, Worked, SeenTo
  <2>. QED
    BY <1>1, <1>3, <2>1 DEF Worked
<1>. QED
  BY <1>10, <1>11, <1>12, <1>13, <1>14 DEF WindowKept

LEMMA WindowSettled ==
  ASSUME WindowInv
  PROVE  Views!HeldUnlessRaced
<1>. SUFFICES ASSUME WindowKept, Views!Settled
     PROVE  /\ held = 0 \/ Views!Running(held)
            /\ \A v \in Views!View : Views!Running(v) => held = v
  BY DEF WindowInv, Views!HeldUnlessRaced
<1>1. /\ job = Views!NoJob /\ job.pc = "idle" /\ \A o \in Opener : opener[o].pc \in {"idle", "done"}
      /\ \A v \in Views!View : win[v].watch \in {"on", "off"} /\ (win[v].watch = "on" => win[v].state = "running")
  BY DEF Views!Settled, Views!NoJob
<1>2. ASSUME held # 0 PROVE Views!Running(held)
  <2>1. held \in Views!View
    BY <1>2, KeptIs
  <2>2. Views!Running(held) \/ SeenTo(held)
    BY <1>1, <1>2 DEF WindowKept, Worked
  <2>3. SeenTo(held) => win[held].watch = "on"
    BY <1>1, <2>1 DEF SeenTo
  <2>. QED
    BY <1>1, <1>2, <2>1, <2>2, <2>3 DEF Views!Running
<1>3. \A v : ~InCall(v) /\ ~InJob(v)
  BY <1>1 DEF InCall, InJob
<1>. QED
  BY <1>2, <1>3 DEF WindowKept, Found

LEMMA WindowElsewhere ==
  ASSUME WindowInv, UNCHANGED window
  PROVE  WindowInv'
<1>1. UNCHANGED <<win, held, opener, job, raced>>
  BY DEF window
<1>. SUFFICES ASSUME raced' = {} PROVE WindowKept'
  BY DEF WindowInv
<1>2. WindowKept
  BY <1>1 DEF WindowInv
<1>3. \A w : /\ Known(w)' <=> Known(w)
             /\ Views!Running(w)' <=> Views!Running(w)
             /\ InJob(w)' <=> InJob(w)
             /\ InCall(w)' <=> InCall(w)
             /\ SeenTo(w)' <=> SeenTo(w)
  BY <1>1 DEF Known, Views!Running, InJob, InCall, SeenTo
<1>4. WindowTyped'
  BY <1>1, <1>2 DEF WindowKept, WindowTyped
<1>5. CallsHand' /\ JobsHand'
  BY <1>1, <1>2, <1>3 DEF WindowKept, CallsHand, JobsHand
<1>6. Found' /\ Watched' /\ Worked'
  BY <1>1, <1>2, <1>3 DEF WindowKept, Found, Watched, Worked
<1>. QED
  BY <1>4, <1>5, <1>6 DEF WindowKept

\* No race is forgotten.
LEMMA RacesAreKept ==
  ASSUME Views!WindowNext, raced' = {}
  PROVE  raced = {}
BY DEF Views!WindowNext, Views!Registers, Views!Exits, Views!Judges, Views!Forgets, Views!KeyboardUpdate, Views!KeyboardInserts,
       Views!Opens, Views!TakesTurn, Views!Enters, Views!Looks, Views!Starts, Views!Inserts, Views!Waits, Views!Removes,
       Views!Leaves, Views!Switches, Views!Update, Views!Prepares, Views!Marks, Views!AsksReload, Views!Detaches,
       Views!Restarts, Views!MarksNew, Views!InsertsNew, Views!WaitsNew, Views!PutsBack, Views!Regards,
       Views!InsertsBack, Views!WaitsBack, Views!Finishes, Views!Rest

LEMMA WindowStepSafe ==
  ASSUME WindowKept, raced' = {}, Views!WindowNext
  PROVE  WindowKept'
<1>1. ASSUME NEW v \in Views!View,
             \/ Views!Registers(v) \/ Views!Exits(v, "closed") \/ Views!Exits(v, "detached")
             \/ Views!Judges(v) \/ Views!Forgets(v) \/ Views!KeyboardUpdate(v) \/ Views!KeyboardInserts(v)
      PROVE  WindowKept'
  <2>1. ASSUME NEW how \in {"closed", "detached"}, Views!Exits(v, how) PROVE WindowKept'
    BY <2>1, ExitsSafe
  <2>2. CASE Views!Registers(v) \/ Views!Judges(v) \/ Views!KeyboardInserts(v)
    BY <2>2, RegistersSafe, JudgesSafe, KeyboardInsertsSafe
  <2>3. CASE Views!Forgets(v) \/ Views!KeyboardUpdate(v)
    BY <2>3, ForgetsWindowSafe, KeyboardUpdateSafe
  <2>. QED
    BY <1>1, <2>1, <2>2, <2>3
<1>2. ASSUME NEW o \in Opener, Views!Opens(o)
      PROVE  WindowKept'
  <2>1. CASE Views!TakesTurn(o) \/ Views!Enters(o) \/ Views!Looks(o) \/ Views!Leaves(o)
    BY <2>1, CallerMovesSafe
  <2>2. CASE Views!Starts(o) \/ Views!Waits(o)
    BY <2>2, StartsSafe, WaitsSafe
  <2>3. CASE Views!Inserts(o) \/ Views!Removes(o)
    BY <2>3, InsertsSafe, RemovesSafe
  <2>. QED
    BY <1>2, <2>1, <2>2, <2>3 DEF Views!Opens
<1>3. CASE Views!Switches
  BY <1>3, UpdateSafe, StepsOnSafe, MarksSafe, UpdateRestarts, MarksNewSafe, InsertsNewSafe, WaitsNewSafe, PutsBackSafe,
     RegardsSafe, InsertsBackSafe, FinishesSafe DEF Views!Switches
<1>. QED
  BY <1>1, <1>2, <1>3 DEF Views!WindowNext

\* HeldUnlessRaced: when no update is at work, no call is open and no watcher has anything left to
\* do, the views map holds the window that runs, or none when none does, unless one of the races the
\* module names was run (put_back of update.rs; open_view, wait_view and the watcher of runtime.rs).
THEOREM HeldIsRunning == Spec => []HeldUnlessRaced
<1>1. Init => WindowInv
  BY WindowBegins DEF Init
<1>2. WindowInv /\ [Next]_vars => WindowInv'
  <2>. SUFFICES ASSUME WindowInv, [Next]_vars PROVE WindowInv'
    OBVIOUS
  <2>1. CASE OfWindow
    <3>1. Views!WindowNext
      BY <2>1 DEF OfWindow
    <3>2. ASSUME raced' = {} PROVE WindowKept'
      BY <3>1, <3>2, RacesAreKept, WindowStepSafe DEF WindowInv
    <3>. QED
      BY <3>2 DEF WindowInv
  <2>2. CASE UNCHANGED window
    BY <2>2, WindowElsewhere
  <2>. QED
    BY <2>1, <2>2 DEF Next, OfStart, OfStore, OfReplace, OfLetters, OfDrafts, vars
<1>3. WindowInv => HeldUnlessRaced
  BY WindowSettled DEF HeldUnlessRaced
<1>. QED
  BY <1>1, <1>2, <1>3, PTL DEF Spec
=============================================================================
