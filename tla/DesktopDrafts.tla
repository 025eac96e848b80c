--------------------------- MODULE DesktopDrafts ---------------------------
(***************************************************************************)
(* A file in the editor tabs of the desktops (editor: app.c, net.c,        *)
(* main.c), and the draft the workspace keeps of it (red-store: store.rs). *)
(* A desktop sends its requests over one connection, one after the other,  *)
(* and hears the answers in its event loop; what is typed is checkpointed  *)
(* into a draft, and a desktop may go once its drafts are kept.  A text is *)
(* a number, and so is the version of a file that has it.  Files that are  *)
(* opened raw, and texts too long for a draft, are left out.               *)
(***************************************************************************)
EXTENDS Integers, Sequences, FiniteSets

CONSTANTS
  Window,       \* desktops with a tab on the file
  Slots,        \* requests a desktop may have pending
  MaxTyped,     \* bound: texts made, by typing or by somebody outside
  MaxLate       \* bound: requests performed after their desktop gave up on them

VARIABLES
  tab,          \* the tab of each desktop
  line,         \* its requests, the first of them being performed
  heard,        \* answers its event loop has not taken up
  late,         \* requests whose desktop no longer waits for them
  file, draft,  \* the text on disk, and the draft of it
  typed,        \* the texts made
  kept,         \* history: texts shown in a tab that reached the file
  crossed       \* history: desktops whose text met what the module cannot promise

draftVars == <<tab, line, heard, late, file, draft, typed, kept, crossed>>

NoText  == -1
NoDraft == [text |-> NoText, base |-> NoText, by |-> NoText]
\* `mine`: what the tab shows was typed there, and nobody asked to discard it.
Shut == [pc |-> "shut", text |-> NoText, revision |-> 0, saved |-> 0, checkpoint |-> 0, flight |-> FALSE,
         discarding |-> FALSE, version |-> NoText, mine |-> FALSE]

DraftInit ==
  /\ tab = [w \in Window |-> Shut] /\ line = [w \in Window |-> <<>>] /\ heard = [w \in Window |-> <<>>]
  /\ late = {} /\ file = 0 /\ draft = NoDraft /\ typed = 0 /\ kept = {} /\ crossed = {}

Elements(s)   == {s[i] : i \in DOMAIN s}
Pending(w)    == Len(line[w]) + Len(heard[w])
Asking(w, op) == \E r \in Elements(line[w]) \cup Elements(heard[w]) : r.op = op

\* What a request says, in the state it is asked in.
Said(w, op) ==
  IF op \in {"draft", "save"}
  THEN [op |-> op, text |-> tab[w].text, revision |-> tab[w].revision, base |-> tab[w].version]
  ELSE [op |-> op, text |-> NoText, revision |-> 0, base |-> NoText]

Dirty(t) == t.text # NoText /\ t.saved # t.revision
NeedsDraft(w) ==
  /\ Dirty(tab[w]) /\ ~tab[w].discarding /\ ~tab[w].flight /\ tab[w].checkpoint # tab[w].revision
  /\ ~Asking(w, "save")

-----------------------------------------------------------------------------
\* What a person does in a desktop.

Opens(w) ==
  /\ tab[w].pc = "shut"
  /\ tab' = [tab EXCEPT ![w].pc = "open"] /\ line' = [line EXCEPT ![w] = <<Said(w, "load")>>]
  /\ UNCHANGED <<heard, late, file, draft, typed, kept, crossed>>

\* Also while the desktop is closing; what is typed while a discard is answered is not taken.
Types(w) ==
  /\ tab[w].pc \in {"open", "closing"} /\ tab[w].text # NoText /\ ~tab[w].discarding /\ typed < MaxTyped
  /\ typed' = typed + 1
  /\ tab' = [tab EXCEPT ![w].text = typed + 1, ![w].revision = @ + 1, ![w].mine = TRUE]
  /\ UNCHANGED <<line, heard, late, file, draft, kept, crossed>>

\* checkpoint(), then `ops` as far as there are slots.
Sends(w, ops) ==
  LET all == (IF NeedsDraft(w) THEN <<"draft">> ELSE <<>>) \o ops
      n   == IF Len(all) <= Slots - Pending(w) THEN Len(all) ELSE Slots - Pending(w)
  IN  /\ line' = [line EXCEPT ![w] = @ \o [i \in 1 .. n |-> Said(w, all[i])]]
      /\ tab' = [tab EXCEPT ![w].flight = @ \/ (NeedsDraft(w) /\ n > 0)]

Saves(w) ==
  /\ tab[w].pc \in {"open", "closing"} /\ tab[w].text # NoText /\ ~Asking(w, "save")
  /\ Sends(w, <<"save">>)
  /\ UNCHANGED <<heard, late, file, draft, typed, kept, crossed>>

Discards(w) ==
  /\ tab[w].pc \in {"open", "closing"} /\ tab[w].text # NoText
  /\ tab' = [tab EXCEPT ![w].discarding = Pending(w) < Slots, ![w].mine = FALSE]
  /\ line' = [line EXCEPT ![w] = IF Pending(w) < Slots THEN Append(@, Said(w, "discard")) ELSE @]
  /\ UNCHANGED <<heard, late, file, draft, typed, kept, crossed>>

Closes(w) ==
  /\ tab[w].pc = "open" /\ tab' = [tab EXCEPT ![w].pc = "closing"]
  /\ UNCHANGED <<line, heard, late, file, draft, typed, kept, crossed>>

-----------------------------------------------------------------------------
\* The event loop.

\* A quarter of a second after the last edit, or at once while closing.
Ticks(w) ==
  /\ tab[w].pc \in {"open", "closing"} /\ NeedsDraft(w) /\ Pending(w) < Slots
  /\ Sends(w, <<>>)
  /\ UNCHANGED <<heard, late, file, draft, typed, kept, crossed>>

\* re_app_quit() with every answer taken up.
Unkept(t) == Dirty(t) /\ t.checkpoint # t.revision
Quits(w) ==
  /\ tab[w].pc = "closing" /\ ~NeedsDraft(w) /\ Pending(w) = 0
  /\ tab' = [tab EXCEPT ![w] = IF Unkept(@) THEN [@ EXCEPT !.pc = "open"] ELSE [Shut EXCEPT !.pc = "gone"]]
  /\ UNCHANGED <<line, heard, late, file, draft, typed, kept, crossed>>

\* Terminal input was not sent within two seconds.
StaysOpen(w) ==
  /\ tab[w].pc = "closing" /\ tab' = [tab EXCEPT ![w].pc = "open"]
  /\ UNCHANGED <<line, heard, late, file, draft, typed, kept, crossed>>

\* response(): an answer that failed.
Failed(t, a) ==
  [t EXCEPT !.flight = @ /\ a.op # "draft", !.discarding = FALSE, !.pc = IF @ = "closing" THEN "open" ELSE @]

\* A load replaces the editor, whatever it holds; a draft is of no saved revision.
Loaded(t, a) ==
  [t EXCEPT !.text = a.text, !.revision = 0, !.saved = IF a.drafted THEN -1 ELSE 0, !.checkpoint = 0,
            !.version = a.base, !.discarding = FALSE, !.mine = FALSE]

Saved(t, a) ==
  [t EXCEPT !.version = a.base, !.saved = a.revision, !.checkpoint = IF a.revision = t.revision THEN @ ELSE -1]

\* Mutant: the draft is taken to be of what the editor holds by now.
DraftedNow(t, a) == [t EXCEPT !.checkpoint = t.revision, !.flight = FALSE]

Drafted(t, a) == [t EXCEPT !.checkpoint = a.revision, !.flight = FALSE]

\* Answers about a former editor are taken for the new one's: its revisions begin at zero again.
Hears(w) ==
  /\ tab[w].pc \in {"open", "closing"} /\ heard[w] # <<>>
  /\ LET a == Head(heard[w])
         t == tab[w]
     IN  /\ tab' = [tab EXCEPT ![w] =
                      CASE ~a.ok -> Failed(t, a)
                        [] a.ok /\ a.op = "load" -> Loaded(t, a)
                        [] a.ok /\ a.op = "save" -> Saved(t, a)
                        [] a.ok /\ a.op = "draft" -> Drafted(t, a)
                        [] OTHER -> t]
         /\ line' = [line EXCEPT ![w] = IF a.ok /\ a.op = "discard" THEN Append(@, Said(w, "load")) ELSE @]
         /\ crossed' = crossed \cup {v \in {w} : a.ok /\ a.op = "load" /\ (Asking(w, "save") \/ Asking(w, "draft"))}
  /\ heard' = [heard EXCEPT ![w] = Tail(@)]
  /\ UNCHANGED <<late, file, draft, typed, kept>>

-----------------------------------------------------------------------------
\* The workspace: put_draft(), save_text(), discard_draft() and the file with its draft.

Refuses(r) == r.op = "save" /\ r.base # file

Performs(w, r) ==
  /\ file' = IF r.op = "save" /\ ~Refuses(r) THEN r.text ELSE file
  /\ kept' = (kept \cup {file'}) \cap {tab[v].text : v \in Window}
  /\ draft' = CASE r.op = "draft" -> [text |-> r.text, base |-> r.base, by |-> w]
                [] r.op = "discard" \/ (r.op = "save" /\ ~Refuses(r)) -> NoDraft
                [] OTHER -> draft

\* There is one draft of a file: another desktop's request takes a desktop's text from it.
TakenFrom(w, r) == {v \in Window \ {w} : draft.by = v /\ draft'.text # draft.text}

Shown(t, v, drafted) == [text |-> t, base |-> v, drafted |-> drafted]
Answer(r, ok) ==
  LET s == IF ~ok THEN Shown(NoText, NoText, FALSE)
           ELSE IF r.op # "load" THEN Shown(NoText, r.text, FALSE)
           ELSE IF draft = NoDraft THEN Shown(file, file, FALSE) ELSE Shown(draft.text, draft.base, TRUE)
  IN  [op |-> r.op, ok |-> ok, revision |-> IF ok THEN r.revision ELSE 0,
       text |-> s.text, base |-> s.base, drafted |-> s.drafted]

Answers(w, ok) ==
  /\ heard' = [heard EXCEPT ![w] = Append(@, Answer(Head(line[w]), ok))]
  /\ line' = [line EXCEPT ![w] = Tail(@)]

Serves(w) ==
  /\ line[w] # <<>>
  /\ LET r == Head(line[w]) IN
       /\ Performs(w, r) /\ Answers(w, ~Refuses(r))
       /\ crossed' = crossed \cup TakenFrom(w, r)
  /\ UNCHANGED <<tab, late, typed>>

\* No answer within its time, or the workspace could not read or write: the request was not
\* performed, was (a store that cannot write its file has changed what it holds), or will be.
TimesOut(w) ==
  /\ line[w] # <<>> /\ Answers(w, FALSE)
  /\ LET r == Head(line[w]) IN
     \/ late' = late /\ UNCHANGED <<file, draft, kept, crossed>>
     \/ late' = late /\ Performs(w, r) /\ crossed' = crossed \cup TakenFrom(w, r)
     \/ /\ Cardinality(late) < MaxLate /\ r.op # "load"
        /\ late' = late \cup {[by |-> w, request |-> r]}
        /\ UNCHANGED <<file, draft, kept, crossed>>
  /\ UNCHANGED <<tab, typed>>

\* A save that was given up, performed after a newer draft, discards it with the rest.
ServesLate ==
  /\ \E l \in late :
       /\ Performs(l.by, l.request) /\ late' = late \ {l}
       /\ crossed' = crossed \cup TakenFrom(l.by, l.request)
                             \cup {v \in {l.by} : draft.by = v /\ draft'.text # draft.text}
  /\ UNCHANGED <<tab, line, heard, typed>>

\* Somebody else writes the file.
Outside ==
  /\ typed < MaxTyped /\ typed' = typed + 1 /\ file' = typed + 1
  /\ UNCHANGED <<tab, line, heard, late, draft, kept, crossed>>

DraftNext ==
  \/ \E w \in Window :
       \/ Opens(w) \/ Types(w) \/ Saves(w) \/ Discards(w) \/ Closes(w)
       \/ Ticks(w) \/ Quits(w) \/ StaysOpen(w) \/ Hears(w) \/ Serves(w) \/ TimesOut(w)
  \/ ServesLate \/ Outside

-----------------------------------------------------------------------------
DraftTypeOK ==
  /\ \A w \in Window : Pending(w) <= Slots + 1 /\ tab[w].pc \in {"shut", "open", "closing", "gone"}
  /\ typed \in 0 .. MaxTyped /\ crossed \subseteq Window

\* A desktop that goes leaves what was typed in it, and not discarded, in the file or in the draft, unless its draft
\* was taken by another desktop, or by its own request performed late, or an answer about a former
\* editor was taken for this one's (app.c, re_app_quit and response).
Left(w) == tab[w].mine => tab[w].text \in kept \cup {draft.text}
QuitLosesNothing ==
  [][\A w \in Window : tab[w].pc # "gone" /\ tab'[w].pc = "gone" /\ w \notin crossed => Left(w)]_draftVars

DraftSpec == DraftInit /\ [][DraftNext]_draftVars
=============================================================================
