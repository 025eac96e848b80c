---------------------------- MODULE ManagedWindow ----------------------------
(***************************************************************************)
(* One desktop window the supervisor manages, under its owner's name       *)
(* (red-supervisor: views.rs; open_desktop, open_view, start_view,         *)
(* wait_view and keyboard_update of runtime.rs; the desktop layer of       *)
(* update.rs).  Callers open it, an update replaces it, a person closes it *)
(* or detaches it for an update of his own, and the watcher of every       *)
(* process that was started judges its end.                                *)
(***************************************************************************)
EXTENDS Integers, FiniteSets

CONSTANTS
  Opener,         \* callers of open_desktop()
  Nobody,         \* no caller
  MaxViews        \* bound: processes started

VARIABLES
  win,            \* the processes: state, whether registered, `updating`, where the watcher is
  held,           \* the process the views map holds under the owner's name, 0 for none
  turn, holds,    \* the turn in the opening map, and who holds the lock of each turn
  opener, job,    \* the callers, and the one update that runs
  raced           \* history, what came in between: "late", an end as the update was over; "unmarked",
                  \* an end judged before its process was marked; "busy", a detached window restarted
                  \* beside an update; "turn", two callers at once; "other", another's entry removed or
                  \* overwritten; "dead", one inserted after its end; "unstarted", none could be started

windowVars == <<win, held, turn, holds, opener, job, raced>>

View == 1 .. MaxViews
NoWin == [state |-> "none", registered |-> FALSE, updating |-> FALSE, watch |-> "off", next |-> 0]
NoJob == [pc |-> "idle", view |-> 0, asked |-> 0, closed |-> FALSE, started |-> FALSE, back |-> 0]
NoCall == [pc |-> "idle", turn |-> 0, view |-> 0]

WindowInit ==
  /\ win = [v \in View |-> NoWin] /\ held = 0
  /\ turn = 0 /\ holds = [t \in 1 .. Cardinality(Opener) |-> Nobody]
  /\ opener = [o \in Opener |-> NoCall] /\ job = NoJob
  /\ raced = {}

Running(v) == v # 0 /\ win[v].state = "running"
Free  == {v \in View : win[v].state = "none"}
Next1 == CHOOSE v \in Free : TRUE
\* start_view(): a process with a watcher, and nothing in the map yet.
Start == [win EXCEPT ![Next1] = [NoWin EXCEPT !.state = "running", !.watch = "on"]]
Over  == {e \in {"other"} : Running(held)}
Busy  == job.pc # "idle"

-----------------------------------------------------------------------------
\* The windows themselves: registering with a worker, and ending, by a person's hand or their own.

Registers(v) ==
  /\ Running(v) /\ ~win[v].registered
  /\ win' = [win EXCEPT ![v].registered = TRUE]
  /\ UNCHANGED <<held, turn, holds, opener, job, raced>>

Exits(v, how) ==
  /\ Running(v)
  /\ win' = [win EXCEPT ![v].state = how, ![v].registered = FALSE]
  /\ raced' = raced \cup {e \in {"late"} : win[v].updating /\ job.pc = "finish"}
  /\ UNCHANGED <<held, turn, holds, opener, job>>

\* The watcher asks whether an update is at work, and only then acts.
Judges(v) ==
  /\ win[v].watch = "on" /\ win[v].state \in {"closed", "detached"}
  /\ win' = [win EXCEPT ![v].watch = IF win[v].updating THEN "off" ELSE win[v].state]
  /\ raced' = raced \cup {e \in {"unmarked"} : job.pc = "marking" /\ job.asked = v}
  /\ UNCHANGED <<held, turn, holds, opener, job>>

\* Closed: whatever the map holds under the name is forgotten.
Forgets(v) ==
  /\ win[v].watch = "closed"
  /\ held' = 0 /\ win' = [win EXCEPT ![v].watch = "off"]
  /\ raced' = raced \cup {e \in {"other"} : held \notin {0, v}}
  /\ UNCHANGED <<turn, holds, opener, job>>

\* Detached: keyboard_update() looks the window up again; busy, it starts it as it was.  A recovery
\* of the worker is busy as well, and the update is queued a moment after it was asked.
KeyboardUpdate(v) ==
  /\ win[v].watch = "detached"
  /\ \/ /\ held = 0 /\ win' = [win EXCEPT ![v].watch = "off"] /\ job' = job
     \/ /\ held # 0 /\ Busy /\ job' = job
        /\ \/ win' = [win EXCEPT ![v].watch = "off"]
           \/ Free # {} /\ win' = [Start EXCEPT ![v].watch = "insert", ![v].next = Next1]
     \/ /\ held # 0 /\ ~Busy
        /\ win' = [win EXCEPT ![v].watch = "off", ![held].updating = TRUE]
        /\ job' = [NoJob EXCEPT !.pc = "prepare", !.view = held, !.closed = TRUE]
  /\ raced' = raced \cup {e \in {"other"} : held \notin {0, v}} \cup {e \in {"busy"} : Busy}
  /\ UNCHANGED <<held, turn, holds, opener>>

KeyboardInserts(v) ==
  /\ win[v].watch = "insert"
  /\ held' = win[v].next /\ win' = [win EXCEPT ![v].watch = "off"]
  /\ UNCHANGED <<turn, holds, opener, job, raced>>

-----------------------------------------------------------------------------
\* open_desktop(): one caller at a time by the turn it found or made in the map.

Move(o, c) == opener' = [opener EXCEPT ![o] = c]
At(o, pc)  == opener[o].pc = pc

TakesTurn(o) ==
  /\ At(o, "idle")
  /\ LET t == IF turn # 0 THEN turn ELSE CHOOSE n \in DOMAIN holds : \A p \in Opener : opener[p].turn # n IN
     turn' = t /\ Move(o, [NoCall EXCEPT !.pc = "queue", !.turn = t])
  /\ UNCHANGED <<win, held, holds, job, raced>>

Enters(o) ==
  /\ At(o, "queue") /\ holds[opener[o].turn] = Nobody
  /\ holds' = [holds EXCEPT ![opener[o].turn] = o]
  /\ Move(o, [opener[o] EXCEPT !.pc = "look"])
  /\ raced' = raced \cup {e \in {"turn"} : \E t \in DOMAIN holds : holds[t] # Nobody}
  /\ UNCHANGED <<win, held, turn, job>>

\* Already open on this binding, whatever has become of it; or a snapshot, which may fail.
Looks(o) ==
  /\ At(o, "look")
  /\ \/ held # 0 /\ Move(o, [opener[o] EXCEPT !.pc = "same", !.view = held])
     \/ held = 0 /\ \E pc \in {"start", "leave"} : Move(o, [opener[o] EXCEPT !.pc = pc])
  /\ UNCHANGED <<win, held, turn, holds, job, raced>>

Starts(o) ==
  /\ At(o, "start") /\ Free # {}
  /\ win' = Start /\ Move(o, [opener[o] EXCEPT !.pc = "insert", !.view = Next1])
  /\ UNCHANGED <<held, turn, holds, job, raced>>

Inserts(o) ==
  /\ At(o, "insert")
  /\ held' = opener[o].view /\ Move(o, [opener[o] EXCEPT !.pc = "wait"])
  /\ raced' = raced \cup Over
  /\ UNCHANGED <<win, turn, holds, job>>

\* wait_view(): registered, exited, or not in time.  A window of its own that does not come is
\* stopped and its name given up.
Waits(o) ==
  /\ At(o, "wait") \/ At(o, "same")
  /\ LET v == opener[o].view IN
     \/ Running(v) /\ win[v].registered /\ Move(o, [opener[o] EXCEPT !.pc = "leave"]) /\ UNCHANGED win
     \/ ~win[v].registered /\ At(o, "same") /\ Move(o, [opener[o] EXCEPT !.pc = "leave"]) /\ UNCHANGED win
     \/ /\ ~win[v].registered /\ At(o, "wait") /\ Move(o, [opener[o] EXCEPT !.pc = "remove"])
        /\ win' = [win EXCEPT ![v].state = IF @ = "running" THEN "closed" ELSE @]
  /\ UNCHANGED <<held, turn, holds, job, raced>>

Removes(o) ==
  /\ At(o, "remove")
  /\ held' = 0 /\ Move(o, [opener[o] EXCEPT !.pc = "leave"])
  /\ raced' = raced \cup {e \in {"other"} : held \notin {0, opener[o].view}}
  /\ UNCHANGED <<win, turn, holds, job>>

\* The turn leaves the map with its first holder, and the others wait on.
Leaves(o) ==
  /\ At(o, "leave")
  /\ turn' = 0 /\ holds' = [holds EXCEPT ![opener[o].turn] = Nobody]
  /\ Move(o, [NoCall EXCEPT !.pc = "done"])
  /\ UNCHANGED <<win, held, job, raced>>

-----------------------------------------------------------------------------
\* The desktop layer of an update: switching() and put_back().

Goes(pc) == job' = [job EXCEPT !.pc = pc]
Rest     == UNCHANGED <<turn, holds, opener, raced>>

Update ==
  /\ ~Busy /\ held # 0 /\ win[held].registered
  /\ job' = [NoJob EXCEPT !.pc = "prepare", !.view = held]
  /\ UNCHANGED <<win, held>> /\ Rest

Prepares == job.pc = "prepare" /\ (Goes("mark") \/ Goes("back")) /\ UNCHANGED <<win, held>> /\ Rest

Marks ==
  /\ job.pc = "mark"
  /\ job' = [job EXCEPT !.pc = IF held = 0 \/ job.closed THEN "restart" ELSE "ask", !.asked = held]
  /\ win' = IF held = 0 THEN win ELSE [win EXCEPT ![held].updating = TRUE]
  /\ UNCHANGED held /\ Rest

\* The window is asked to reload and has some seconds to detach.
AsksReload ==
  /\ job.pc = "ask" /\ (Goes("detach") \/ Goes("back"))
  /\ UNCHANGED <<win, held>> /\ Rest
Detaches ==
  /\ job.pc = "detach"
  /\ Goes(IF win[job.asked].state = "detached" THEN "restart" ELSE "back")
  /\ UNCHANGED <<win, held>> /\ Rest

\* The descriptor is written, which may fail, and the next process started, which may fail too.
Restarts ==
  /\ job.pc = "restart"
  /\ \/ Goes("back") /\ UNCHANGED win
     \/ held = 0 /\ Goes("finish") /\ UNCHANGED win
     \/ held # 0 /\ Free # {} /\ win' = Start /\ job' = [job EXCEPT !.pc = "marking", !.asked = Next1]
  /\ UNCHANGED held /\ Rest
MarksNew ==
  /\ job.pc = "marking"
  /\ win' = [win EXCEPT ![job.asked].updating = TRUE]
  /\ job' = [job EXCEPT !.pc = "insert", !.view = job.asked, !.started = TRUE]
  /\ UNCHANGED held /\ Rest
InsertsNew ==
  /\ job.pc = "insert" /\ held' = job.view /\ Goes("wait")
  /\ raced' = raced \cup Over
  /\ UNCHANGED <<win, turn, holds, opener>>
WaitsNew ==
  /\ job.pc = "wait"
  /\ \/ Running(job.view) /\ win[job.view].registered /\ Goes("finish")
     \/ ~win[job.view].registered /\ Goes("back")
  /\ UNCHANGED <<win, held>> /\ Rest

\* put_back(): a replacement that runs is stopped; a window that is gone is started as it was.
PutsBack ==
  /\ job.pc = "back"
  /\ IF job.view = 0 THEN Goes("finish") /\ UNCHANGED win
     ELSE /\ Goes("gone")
          /\ win' = IF job.started /\ Running(job.view) THEN [win EXCEPT ![job.view].state = "closed"] ELSE win
  /\ UNCHANGED held /\ Rest
Regards ==
  /\ job.pc = "gone"
  /\ \/ (~job.closed /\ Running(job.view)) /\ Goes("finish") /\ UNCHANGED <<win, raced>>
     \/ /\ job.closed \/ ~Running(job.view)
        /\ \/ Goes("finish") /\ UNCHANGED win /\ raced' = raced \cup {"unstarted"}
           \/ /\ Free # {} /\ win' = Start
              /\ raced' = raced
              /\ job' = [job EXCEPT !.pc = "backinsert", !.back = Next1]
  /\ UNCHANGED <<held, turn, holds, opener>>
InsertsBack ==
  /\ job.pc = "backinsert" /\ held' = job.back /\ Goes("backwait")
  /\ raced' = raced \cup Over \cup {e \in {"dead"} : win[job.back].watch = "off"}
  /\ UNCHANGED <<win, turn, holds, opener>>
WaitsBack   == job.pc = "backwait" /\ Goes("finish") /\ UNCHANGED <<win, held>> /\ Rest
\* Mutant: the window stays marked as the update's.
FinishesMarked ==
  /\ job.pc = "finish"
  /\ job' = NoJob /\ UNCHANGED <<win, held>> /\ Rest

Finishes ==
  /\ job.pc = "finish"
  /\ win' = IF job.view = 0 THEN win ELSE [win EXCEPT ![job.view].updating = FALSE]
  /\ job' = NoJob /\ UNCHANGED held /\ Rest

Switches == \/ Update \/ Prepares \/ Marks \/ AsksReload \/ Detaches \/ Restarts \/ MarksNew \/ InsertsNew
            \/ WaitsNew \/ PutsBack \/ Regards \/ InsertsBack \/ WaitsBack \/ Finishes
Opens(o) == TakesTurn(o) \/ Enters(o) \/ Looks(o) \/ Starts(o) \/ Inserts(o) \/ Waits(o) \/ Removes(o) \/ Leaves(o)
WindowNext ==
  \/ \E v \in View : \/ Registers(v) \/ Exits(v, "closed") \/ Exits(v, "detached")
                     \/ Judges(v) \/ Forgets(v) \/ KeyboardUpdate(v) \/ KeyboardInserts(v)
  \/ \E o \in Opener : Opens(o)
  \/ Switches

-----------------------------------------------------------------------------
Settled ==
  /\ job = NoJob /\ \A o \in Opener : opener[o].pc \in {"idle", "done"}
  /\ \A v \in View : win[v].watch \in {"on", "off"} /\ (win[v].watch = "on" => win[v].state = "running")

\* Never two windows on one owner.
OneWindow == Cardinality({v \in View : Running(v)}) <= 1

\* When all is done, the map holds the window that runs, or none when none does: no window is lost
\* to close() and none that is gone keeps its name from being opened again.  Unless one of those
\* races was run.
HeldUnlessRaced == Settled /\ raced = {} =>
  /\ held = 0 \/ Running(held)
  /\ \A v \in View : Running(v) => held = v

WindowSpec == WindowInit /\ [][WindowNext]_windowVars
=============================================================================
