---------------------------- MODULE MCWorkspace ----------------------------
(***************************************************************************)
(* What a project's worker and its services keep for their callers, checked *)
(* side by side: the token, the games on the feed, a tracker's sign-in,     *)
(* what is remembered of devices and trackers, the language servers and the *)
(* editor a worker publishes.  A behaviour is of one part.                  *)
(***************************************************************************)
EXTENDS TokenLedger   \* its state is the part called tokens

CONSTANTS
  Pane, Device, Worker, First, None, MaxTicks, MaxResizes, MaxDrops,                             \* GameFeed
  SignIn, SignOut, Reader, Ports,                                                    \* TrackerGrant
  Process, Question, Refreshing, Listing, Never, MaxClock, MaxChange,                \* ProbeCache
  Doc, MaxStarts, GiveUp,                                                            \* LanguageServers
  Ide, Alone, MaxKills                                                               \* EditorBridge

ASSUME WorkspaceConstants ==
  /\ MaxChange \in Nat /\ MaxStarts \in Nat /\ None \notin Ide \cup {"workspace"}
  /\ IsFiniteSet(Worker) /\ IsFiniteSet(Pane)
  /\ Refreshing \subseteq Question /\ Listing \subseteq Question

VARIABLES part,
  call, pane, stale, resizes, wire, worker, queue, ofSession, open, saying, ring, ticks, overlapped,
  flow, ended, held, leaving, reading, file, expected,
  question, entry, loaded, kept, clock, truth, lastTrue,
  asking, starting, live, child, waiter, word, late,
  serves, bridge, closing, looked, ready, holder, lockFile, swept, kills

Games  == INSTANCE GameFeed WITH Call <- Pane, clock <- ticks, MaxClock <- MaxTicks
Grant  == INSTANCE TrackerGrant
Probes == INSTANCE ProbeCache WITH Call <- Question, call <- question, file <- kept
Lsp    == INSTANCE LanguageServers WITH asked <- asking, process <- child
\* Two workers of one workspace, and one of another that shares the directory.
Bridge == INSTANCE EditorBridge WITH Worker <- Ide, worker <- serves, Nobody <- None,
            Port <- {"ours", "theirs"}, PortOf <- [w \in Ide |-> IF w = Alone THEN "theirs" ELSE "ours"]

games  == <<call, pane, stale, resizes, wire, worker, queue, ofSession, open, saying, ring, ticks, overlapped>>
grant  == <<flow, ended, held, leaving, reading, file, expected>>
probes == <<question, entry, loaded, kept, clock, truth, lastTrue>>
lsp    == <<asking, starting, live, child, waiter, word, late>>
editor == <<serves, bridge, closing, looked, ready, holder, lockFile, swept, kills>>
all    == <<part, vars, games, grant, probes, lsp, editor>>

AnyInit == /\ part \in {"tokens", "games", "grant", "probes", "lsp", "editor"}
           /\ Init /\ Games!GameInit /\ Grant!GrantInit /\ Probes!ProbeInit
           /\ Lsp!LspInit /\ Bridge!BridgeInit
           /\ part # "grant" => file = None

OfTokens == part = "tokens" /\ Next /\ UNCHANGED <<part, games, grant, probes, lsp, editor>>
OfGames  == part = "games" /\ Games!GameNext /\ UNCHANGED <<part, vars, grant, probes, lsp, editor>>
OfGrant  == part = "grant" /\ Grant!GrantNext /\ UNCHANGED <<part, vars, games, probes, lsp, editor>>
OfProbes == part = "probes" /\ Probes!ProbeNext /\ UNCHANGED <<part, vars, games, grant, lsp, editor>>
OfLsp    == part = "lsp" /\ Lsp!LspNext /\ UNCHANGED <<part, vars, games, grant, probes, editor>>
OfEditor == part = "editor" /\ Bridge!BridgeNext /\ UNCHANGED <<part, vars, games, grant, probes, lsp>>
AnyNext == OfTokens \/ OfGames \/ OfGrant \/ OfProbes \/ OfLsp \/ OfEditor

\* Two requests of a game are followed, or one beside a worker that takes over or a record that
\* is announced again, which no cut comes beside.
Busy == {c \in Pane : call[c].pc # "idle"}
Eventful == stale # {} \/ resizes > 0 \/ \E w \in Worker \ {First} : worker[w].pc # "off"
MCFollowed == part = "games" =>
  /\ Cardinality(Busy) <= IF Eventful THEN 1 ELSE 2
  /\ resizes > 0 => \A w \in Worker : worker[w].drops = 0

\* A session that was resumed is followed for one tick of the ledger's clock.
MCResumed == part = "tokens" /\ (\A p \in Pid : process[p] # "unborn") => now <= 1

\* The threads of a sign-in, as GrantFairness has them.
GoesOn(s)  == part = "grant" /\ (Grant!Bind(s) \/ Grant!Hold(s) \/ Grant!Listener(s))
              /\ UNCHANGED <<part, vars, games, probes, lsp, editor>>
Expires(s) == part = "grant" /\ Grant!Deadline(s) /\ UNCHANGED <<part, vars, games, probes, lsp, editor>>
AnyFairness == \A s \in SignIn : WF_all(GoesOn(s)) /\ WF_all(Expires(s))

AnySpec == AnyInit /\ [][AnyNext]_all /\ AnyFairness
-----------------------------------------------------------------------------
\* The feed says of a game that it started once and ended once, by the same asker, whatever
\* worker is replaced, if one worker alone heard of it and it was not said to run after its end
\* (GameFeed, told_the_feed and inherit).
OnePairEach == Games!OnePairEach

\* What a sign-out emptied holds only what was signed in after it, or was being served, begun or
\* refreshed while it was emptied (TrackerGrant, sign-out and cancel).
SignedOutUnlessRaced == Grant!SignedOutUnlessRaced

\* The port a sign-in took is given back, unless who connected to it says nothing (TrackerGrant,
\* serve_callback and the deadline).
PortsComeBack == part = "grant" => Grant!PortsComeBack

\* An answer from a cache was true in the lifetime before the question, and a list that is asked
\* for again is as the server had it since (ProbeCache, Probes and Cache).
AnswersAreFresh == Probes!AnswersAreFresh

\* A language server that comes back is told of every open document, and nothing stands of what one
\* said that has ended, but what its reader found too late, and unless its end was passed over, as
\* is that of every server after which another was started (LanguageServers); the lock an agent finds
\* is that of the bridge that listens, and every such bridge has its lock, unless a sweep had
\* judged another's (EditorBridge).
EditorsAreServed == Lsp!DocumentsSurvive /\ Lsp!DeadSayNothing /\ Bridge!LocksTell
=============================================================================
