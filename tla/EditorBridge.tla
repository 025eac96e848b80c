---------------------------- MODULE EditorBridge ----------------------------
(***************************************************************************)
(* The editor a worker publishes for the agents of its panes (red-ide:     *)
(* red_ide.rs, bridge.rs, lock.rs; red-worker: editing.rs).  A worker      *)
(* starts a bridge process, which sweeps the lock files of dead workers,   *)
(* takes its port or waits for its predecessor to leave it, writes the     *)
(* port's lock file, and removes it again when the worker is replaced or   *)
(* gone.  Workspaces of one person share the directory of the locks.       *)
(***************************************************************************)
EXTENDS Naturals, FiniteSets

CONSTANTS
  Worker,       \* each starts one bridge
  Port,         \* the ports of the workspaces: a lock file is named after one
  PortOf,       \* the port each worker's workspace remembers
  Nobody,
  MaxKills      \* bound: bridge processes killed

VARIABLES
  worker,       \* the workers: off, up, replaced or gone
  bridge,       \* where each bridge process is
  closing,      \* the bridge was told to close, or its stdin is
  looked,       \* the lock files its sweep has been through
  ready,        \* whether it has the port: none while it does not know
  holder,       \* who listens on each port
  lockFile,     \* whose lock is at each port's name
  swept,        \* history: those whose lock was removed by a sweep that judged another's
  kills

bridgeVars == <<worker, bridge, closing, looked, ready, holder, lockFile, swept, kills>>

BridgeInit ==
  /\ worker = [w \in Worker |-> "off"]
  /\ bridge = [w \in Worker |-> "off"]
  /\ closing = [w \in Worker |-> FALSE]
  /\ looked = [w \in Worker |-> {}]
  /\ ready = [w \in Worker |-> "none"]
  /\ holder = [p \in Port |-> Nobody] /\ lockFile = [p \in Port |-> Nobody]
  /\ swept = {} /\ kills = 0

Goes(w, at)  == bridge' = [bridge EXCEPT ![w] = at]
Settles(w, r) == ready' = [ready EXCEPT ![w] = r]
Mine(w)      == PortOf[w]
Frees(w)     == holder' = [p \in Port |-> IF holder[p] = w THEN Nobody ELSE holder[p]]
Alive(w)     == worker[w] \in {"up", "replaced"}

-----------------------------------------------------------------------------
\* The worker: started_bridge(), retire(), and its end.

\* Without the host's pid nothing is published, swept or created.
Starts(w) ==
  /\ worker[w] = "off" /\ worker' = [worker EXCEPT ![w] = "up"]
  /\ \/ Goes(w, "sweep") /\ UNCHANGED ready
     \/ Goes(w, "unpublished") /\ Settles(w, "no")
  /\ UNCHANGED <<closing, looked, holder, lockFile, swept, kills>>

Replaced(w) ==
  /\ worker[w] = "up" /\ worker' = [worker EXCEPT ![w] = "replaced"]
  /\ closing' = [closing EXCEPT ![w] = TRUE]
  /\ UNCHANGED <<bridge, looked, ready, holder, lockFile, swept, kills>>

Ends(w) ==
  /\ Alive(w) /\ worker' = [worker EXCEPT ![w] = "gone"]
  /\ closing' = [closing EXCEPT ![w] = TRUE]
  /\ UNCHANGED <<bridge, looked, ready, holder, lockFile, swept, kills>>

-----------------------------------------------------------------------------
\* sweep(): the files by name; whose worker is gone is removed, by its name again.

Looks(w, p) ==
  /\ bridge[w] = "sweep" /\ p \notin looked[w]
  /\ looked' = [looked EXCEPT ![w] = @ \cup {p}]
  /\ IF lockFile[p] # Nobody /\ ~Alive(lockFile[p]) THEN Goes(w, p) ELSE UNCHANGED bridge
  /\ UNCHANGED <<worker, closing, ready, holder, lockFile, swept, kills>>

Removes(w, p) ==
  /\ bridge[w] = p /\ Goes(w, "sweep")
  /\ lockFile' = [lockFile EXCEPT ![p] = Nobody]
  /\ swept' = IF lockFile[p] # Nobody /\ Alive(lockFile[p]) THEN swept \cup {lockFile[p]} ELSE swept
  /\ UNCHANGED <<worker, closing, looked, ready, holder, kills>>

-----------------------------------------------------------------------------
\* start(): the port is taken, or waited for until the deadline or the closing.

Takes(w) ==
  /\ \/ bridge[w] = "sweep" /\ looked[w] = Port
     \/ bridge[w] = "retake" /\ ~closing[w]
  /\ IF holder[Mine(w)] = Nobody
     THEN holder' = [holder EXCEPT ![Mine(w)] = w] /\ Goes(w, "bound")
     ELSE holder' = holder /\ Goes(w, "retake")
  /\ UNCHANGED <<worker, closing, looked, ready, lockFile, swept, kills>>

\* Twenty seconds have passed, or close() ends the wait.
GivesUp(w) ==
  /\ bridge[w] = "retake" /\ Goes(w, "unpublished") /\ Settles(w, "no")
  /\ UNCHANGED <<worker, closing, looked, holder, lockFile, swept, kills>>

\* serve(): the lock is written when the port is held; a refused write lets the port go, and leaves
\* what was there, or what names nobody: the file is emptied before it is written (lock.rs:192).
Writes(w) ==
  /\ bridge[w] = "bound"
  /\ \/ /\ lockFile' = [lockFile EXCEPT ![Mine(w)] = w]
        /\ Goes(w, "serving") /\ Settles(w, "yes") /\ UNCHANGED holder
     \/ Frees(w) /\ Goes(w, "unpublished") /\ Settles(w, "no")
        /\ lockFile' \in {lockFile, [lockFile EXCEPT ![Mine(w)] = Nobody]}
  /\ UNCHANGED <<worker, closing, looked, swept, kills>>

-----------------------------------------------------------------------------
\* close(): nothing is awaited but a retake; the lock goes before the port does.

UnlinksLast(w) ==
  /\ closing[w] /\ bridge[w] = "serving" /\ Goes(w, "unlinked") /\ Frees(w)
  /\ UNCHANGED <<worker, closing, looked, ready, lockFile, swept, kills>>

Unlinks(w) ==
  /\ closing[w] /\ bridge[w] = "serving" /\ Goes(w, "unlinked")
  /\ lockFile' = [lockFile EXCEPT ![Mine(w)] = Nobody]
  /\ UNCHANGED <<worker, closing, looked, ready, holder, swept, kills>>

Releases(w) ==
  /\ \/ bridge[w] = "unlinked"
     \/ closing[w] /\ bridge[w] = "unpublished"
  /\ Goes(w, "shut") /\ Frees(w)
  /\ UNCHANGED <<worker, closing, looked, ready, lockFile, swept, kills>>

\* The bridge process is killed: its port is free, its lock stays.
Killed(w) ==
  /\ bridge[w] \notin {"off", "shut", "killed"} /\ kills < MaxKills
  /\ kills' = kills + 1 /\ Goes(w, "killed") /\ Frees(w)
  /\ UNCHANGED <<worker, closing, looked, ready, lockFile, swept>>

Working(w) == \/ \E p \in Port : Looks(w, p) \/ Removes(w, p)
              \/ Takes(w) \/ GivesUp(w) \/ Writes(w) \/ Unlinks(w) \/ Releases(w)

BridgeNext == \E w \in Worker : Starts(w) \/ Replaced(w) \/ Ends(w) \/ Killed(w) \/ Working(w)
BridgeSpec == BridgeInit /\ [][BridgeNext]_bridgeVars /\ \A w \in Worker : WF_bridgeVars(Working(w))
-----------------------------------------------------------------------------
\* An agent finds who serves, and only them: a bridge that has its port has its lock there until
\* it closes, and a lock names the one that listens, unless that one was killed or a sweep had
\* judged the lock of another (bridge.rs:109, start, serve and close; lock.rs:217, sweep).
LocksTell ==
  /\ \A w \in Worker \ swept : bridge[w] = "serving" /\ ~closing[w] => lockFile[Mine(w)] = w
  /\ \A p \in Port : lockFile[p] # Nobody /\ bridge[lockFile[p]] # "killed" => holder[p] = lockFile[p]

\* A successor that waits for the port takes it or says it did not (bridge.rs:138, ready).
RetakeSettles == \A w \in Worker : bridge[w] = "retake" ~> ready[w] # "none" \/ bridge[w] = "killed"

\* One that serves and is told to close, or whose worker ends, leaves no lock (bridge.rs:258, close).
LeavesNothing ==
  \A w \in Worker : closing[w] /\ bridge[w] \in {"serving", "retake"}
                      ~> lockFile[Mine(w)] # w \/ bridge[w] = "killed"
=============================================================================
