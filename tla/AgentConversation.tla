------------------------- MODULE AgentConversation -------------------------
(***************************************************************************)
(* Which conversation an agent's pane holds, and who says so.  The host    *)
(* composes a launch (red-agents: spawn.rs), the person at the pane may    *)
(* choose another conversation (agent.sh), the pane's launcher decides the *)
(* identity from the person's own arguments, a binding and the environment *)
(* (launch.rs, parsers.rs) and reports it (red_agent_launch.rs), and the   *)
(* CLI's own hook reports what it is in, each time it enters one           *)
(* (report.rs).  The host's record is what a restart resumes (panes.rs).   *)
(***************************************************************************)
EXTENDS Naturals

CONSTANTS
  Pane,
  Id,         \* conversations
  None,
  MaxMoves,   \* bound: conversations entered from inside a CLI
  MaxLost     \* bound: reports that do not arrive

VARIABLES
  recipe,     \* what this CLI declares: can it be told which to start, does it report
  pane,       \* each pane: where its launch is and what that carries
  record,     \* the pane's record at the host
  remembered, \* the conversations the store offers
  cli,        \* the conversation each CLI is in
  context,    \* the identity in the file the launch is bound by
  hooks,      \* reports of hooks on their way
  used,       \* ids that are given out
  moves, drops,
  been, amiss \* history: the conversations each pane's CLI was in; panes with a lost or overtaken report

conversationVars == <<recipe, pane, record, remembered, cli, context, hooks, used, moves, drops, been, amiss>>

NoPane == [pc |-> "none", env |-> None, resume |-> FALSE, args |-> "none", named |-> None, told |-> None]

ConversationInit ==
  /\ recipe \in [starts : BOOLEAN, reports : BOOLEAN]
  /\ pane = [p \in Pane |-> NoPane] /\ record = [p \in Pane |-> None] /\ remembered = {}
  /\ cli = [p \in Pane |-> None] /\ context = [p \in Pane |-> None] /\ hooks = {} /\ used = {}
  /\ moves = 0 /\ drops = 0 /\ been = [p \in Pane |-> {}] /\ amiss = {}

\* What the person's own arguments come to: nothing, a conversation, one that cannot be told, or a prompt.
OwnArgs == {"none", "names", "opaque", "prompt"}

Fresh == Id \ used
cliVars == <<cli, context, hooks, moves, drops, been>>

-----------------------------------------------------------------------------
\* The host: agent_pane_composition, and the record it leaves.

\* The conversation a launch claims, of the one it is asked for.
Claims(asked, minted) == IF recipe.starts /\ asked = None THEN minted ELSE asked

Composes(p, asked, resume, args) ==
  /\ asked # None => recipe.starts \/ resume
  /\ \E minted \in (IF recipe.starts /\ asked = None THEN Fresh ELSE {None}) :
       LET claim == Claims(asked, minted) IN
       /\ pane' = [pane EXCEPT ![p] = [NoPane EXCEPT !.pc = IF asked = None /\ args = "none" THEN "choose" ELSE "launch",
                                                      !.env = claim, !.resume = resume /\ claim # None, !.args = args]]
       /\ record' = [record EXCEPT ![p] = claim]
       /\ remembered' = remembered \cup ({claim} \ {None}) /\ used' = used \cup ({claim} \ {None})

Spawns(p) ==
  /\ pane[p].pc = "none"
  /\ \E asked \in remembered \cup {None}, resume \in BOOLEAN, args \in OwnArgs :
       Composes(p, asked, resume, args)
  /\ UNCHANGED <<recipe, cliVars, amiss>>

\* choose_conversation: a bare pane is offered what the project has, but for its own.
Chooses(p) ==
  /\ pane[p].pc = "choose"
  /\ \/ pane' = [pane EXCEPT ![p].pc = "launch"]
     \/ \E c \in remembered \ {pane[p].env} :
          ~pane[p].resume /\ pane' = [pane EXCEPT ![p].pc = "launch", ![p].env = c, ![p].resume = TRUE]
  /\ UNCHANGED <<recipe, record, remembered, cliVars, used, amiss>>

-----------------------------------------------------------------------------
\* The pane's launcher: agent_identity, what it reports and what it starts the CLI with.

\* Mutant: what the workspace says beats the person's own arguments.
IdentityOfEnv(p, own) ==
  IF pane[p].env # None /\ (recipe.starts \/ pane[p].resume) THEN [id |-> pane[p].env, source |-> "workspace"]
  ELSE IF pane[p].args = "names" THEN [id |-> own, source |-> "flag"]
  ELSE IF pane[p].args = "opaque" THEN [id |-> None, source |-> "unknown"]
  ELSE [id |-> None, source |-> "minted"]

\* recipe_identity: the person's own arguments beat what the workspace says.
Identity(p, own) ==
  IF pane[p].args = "names" THEN [id |-> own, source |-> "flag"]
  ELSE IF pane[p].args = "opaque" THEN [id |-> None, source |-> "unknown"]
  ELSE IF pane[p].env # None /\ (recipe.starts \/ pane[p].resume) THEN [id |-> pane[p].env, source |-> "workspace"]
  ELSE [id |-> None, source |-> "minted"]

\* The conversation a CLI is told of: one to resume or to start, if it takes either.
Told(p, identity, agentId) ==
  IF identity.source \in {"flag", "unknown"} THEN None
  ELSE IF pane[p].resume \/ recipe.starts THEN agentId ELSE None

\* A launch that names none claims none, unless its CLI is told the one that was minted.
Known(identity) == identity.source # "unknown" /\ (identity.id # None \/ recipe.starts)

\* launch_plan: the context the CLI is bound by, what is to be recorded and what the CLI is told.
Plans(p, own, identity, agentId) ==
  /\ context' = [context EXCEPT ![p] = agentId]
  /\ pane' = [pane EXCEPT ![p].pc = "report", ![p].named = own,
                          ![p].env = IF Known(identity) THEN agentId ELSE None,
                          ![p].told = Told(p, identity, agentId)]

Decides(p) ==
  /\ pane[p].pc = "launch"
  /\ \E own \in (IF pane[p].args = "names" THEN Id ELSE {None}) :
       LET identity == Identity(p, own) IN
       \E agentId \in (IF identity.id = None THEN Fresh ELSE {identity.id}) :
         /\ Plans(p, own, identity, agentId)
         /\ used' = used \cup {agentId} \cup ({own} \ {None})
  /\ UNCHANGED <<recipe, record, remembered, cli, hooks, moves, drops, been, amiss>>

\* record_conversation.
Recorded(p, conversation) ==
  /\ record' = [record EXCEPT ![p] = conversation]
  /\ remembered' = remembered \cup ({conversation} \ {None})

\* report_conversation: one that does not arrive is a lost record, not a lost session.
Reports(p) ==
  /\ pane[p].pc = "report" /\ pane' = [pane EXCEPT ![p].pc = "start"]
  /\ \/ Recorded(p, pane[p].env) /\ amiss' = amiss \ {p} /\ drops' = drops
     \/ drops < MaxLost /\ drops' = drops + 1 /\ amiss' = amiss \cup {p} /\ UNCHANGED <<record, remembered>>
  /\ UNCHANGED <<recipe, cli, context, hooks, used, moves, been>>

-----------------------------------------------------------------------------
\* The CLI, and its hook.

\* It is in the conversation now.  A hook that reports starts; those before it may still run.
Enters(p, c) ==
  /\ cli' = [cli EXCEPT ![p] = c] /\ been' = [been EXCEPT ![p] = @ \cup {c}] /\ used' = used \cup {c}
  /\ hooks' = IF recipe.reports THEN hooks \cup {[pane |-> p, says |-> c]} ELSE hooks

\* The person's own arguments come last and count; else it is told one, or takes one of its own.
StartsCli(p) ==
  /\ pane[p].pc = "start" /\ pane' = [pane EXCEPT ![p].pc = "runs"]
  /\ \E c \in (IF pane[p].args = "names" THEN {pane[p].named}
               ELSE IF pane[p].args = "opaque" THEN Fresh \cup remembered
               ELSE IF pane[p].told # None THEN {pane[p].told}
               ELSE Fresh) : Enters(p, c)
  /\ UNCHANGED <<recipe, record, remembered, context, moves, drops, amiss>>

\* The person resumes another, or starts one, inside the CLI.
Moves(p) ==
  /\ pane[p].pc = "runs" /\ moves < MaxMoves /\ moves' = moves + 1
  /\ \E c \in Fresh \cup remembered : c # cli[p] /\ Enters(p, c)
  /\ UNCHANGED <<recipe, pane, record, remembered, context, drops, amiss>>

\* report_session: the context is rewritten, then the record.  It is posted every time, and is lost
\* before the context is rewritten or after it.
HookReports(h) ==
  /\ hooks' = hooks \ {h}
  /\ \/ /\ context' = [context EXCEPT ![h.pane] = h.says] /\ Recorded(h.pane, h.says) /\ drops' = drops
        /\ amiss' = IF h.says = cli[h.pane] THEN amiss \ {h.pane} ELSE amiss \cup {h.pane}
     \/ /\ drops < MaxLost /\ drops' = drops + 1 /\ amiss' = amiss \cup {h.pane}
        /\ context' \in {context, [context EXCEPT ![h.pane] = h.says]} /\ UNCHANGED <<record, remembered>>
  /\ UNCHANGED <<recipe, pane, cli, used, moves, been>>

\* restart(): the pane is stopped, and its conversation resumed in a new one.
Restarts(p) ==
  /\ pane[p].pc = "runs" /\ record[p] # None
  /\ hooks' = {h \in hooks : h.pane # p} /\ cli' = [cli EXCEPT ![p] = None]
  /\ Composes(p, record[p], TRUE, "none")
  /\ UNCHANGED <<recipe, context, moves, drops, been, amiss>>

\* The CLI ends, or the pane is stopped; its place is another's.
Ends(p) ==
  /\ pane[p].pc \in {"choose", "start", "runs"}
  /\ pane' = [pane EXCEPT ![p] = NoPane] /\ record' = [record EXCEPT ![p] = None]
  /\ cli' = [cli EXCEPT ![p] = None] /\ been' = [been EXCEPT ![p] = {}]
  /\ hooks' = {h \in hooks : h.pane # p} /\ amiss' = amiss \ {p}
  /\ UNCHANGED <<recipe, remembered, context, used, moves, drops>>

ConversationNext ==
  \/ \E p \in Pane : Spawns(p) \/ Chooses(p) \/ Decides(p) \/ Reports(p) \/ StartsCli(p) \/ Moves(p)
                    \/ Restarts(p) \/ Ends(p)
  \/ \E h \in hooks : HookReports(h)

-----------------------------------------------------------------------------
ConversationTypeOK ==
  /\ \A p \in Pane : record[p] \in Id \cup {None} /\ cli[p] \in Id \cup {None}
  /\ remembered \subseteq used

\* What a pane's record names is a conversation its CLI was in, and the one it is in once the CLI
\* said so, unless a report was lost or came late; a launch that continues or forks one the CLI
\* names itself is recorded with none (record_conversation, launch_plan, report_session).
RecordNamesWhatRan ==
  \A p \in Pane : pane[p].pc = "runs" /\ p \notin amiss =>
    /\ record[p] \in been[p] \cup {None}
    /\ recipe.reports /\ (\A h \in hooks : h.pane # p) => record[p] = cli[p]

ConversationSpec == ConversationInit /\ [][ConversationNext]_conversationVars
=============================================================================
