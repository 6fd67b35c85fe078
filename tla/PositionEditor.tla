--------------------------- MODULE PositionEditor ---------------------------
(***************************************************************************)
(* The window editor of the web client (ProjectPositionEditor.tsx with     *)
(* canvasStore.ts, positionDraft.ts, useAssemblyCalculation.ts,            *)
(* MeasurementPanel.tsx and UnsavedChangesGuard.tsx) against the           *)
(* optimistic lock of projects/service.py: save_position.                  *)
(*                                                                         *)
(* One tab edits one window.  What it shows lives in the canvas store and  *)
(* in React state that a refresh forgets; what it has not saved is also    *)
(* written, after a pause, to a draft in sessionStorage; what is saved is  *)
(* a row other people save too.  Every request is three steps: it leaves,  *)
(* the server acts, the answer is applied to whatever the tab is by then.  *)
(*                                                                         *)
(* A design stands for the drawing with its location and quantity, after   *)
(* the catalogue's unique values were filled in (resolveDefaults).         *)
(***************************************************************************)
EXTENDS Naturals, Sequences, FiniteSets

CONSTANTS
    Mine,        \* the designs the user draws
    Theirs,      \* the designs other people save
    Resolve,     \* [design -> design]: what the catalogue completes it to
    HistoryLimit,\* HISTORY_LIMIT of the canvas store
    Worlds       \* the tabs and users to look at, each as in TabWorlds

\* mode: the route the tab is opened on.  slow: a reload may fail or outlast the
\* draft's pause of 600 ms.  away: with an offered draft unanswered, the user may
\* leave the page (the save of a creation leaves it too) or go through a conflict.
\* measures: the measurements of the window are confirmed in this tab.
\* impatient: the banners' buttons are used while a save is in flight or within
\* the draft's pause of an edit.  The rest are bounds: the designs the user draws,
\* and how often each thing happens.
TabWorlds ==
    [mode : {"row", "new", "copy"}, slow : BOOLEAN, away : BOOLEAN,
     measures : BOOLEAN, impatient : BOOLEAN, draws : SUBSET Mine,
     edits : Nat, saves : Nat, others : Nat, visits : Nat, reloads : Nat]

\* initialInputs() of the store, and initial() of a new window.
Empty == "empty"

NewWindow == "blank"

Nothing == "none"

\* saved === null, and no retrieve in flight.
NoRow == [id |-> 0, ver |-> 0]

NoRetrieve == [st |-> "none", id |-> 0, ver |-> 0, design |-> Nothing]

Designs == Mine \cup Theirs \cup {Empty, NewWindow}

ASSUME EditorAssumption ==
    /\ {Empty, NewWindow, Nothing} \cap (Mine \cup Theirs) = {}
    /\ Mine \cap Theirs = {} /\ Theirs # {}
    /\ Resolve \in [Designs -> Designs]
    /\ \A d \in Designs : Resolve[Resolve[d]] = Resolve[d]
    /\ Resolve[Empty] = Empty /\ Resolve[NewWindow] = NewWindow
    /\ HistoryLimit \in Nat /\ HistoryLimit > 1
    /\ Worlds \subseteq TabWorlds

VARIABLES
    rows,      \* the server's rows of this window: [ver, design, by]
    page,      \* "gone" (not mounted) or "open"
    route,     \* the row the route names, 0 while creating
    canvas, past, future,   \* the canvas store
    ed,        \* the React state of PositionWorkspace
    settled,   \* the design the 250 ms pause let through
    calc,      \* the designs with a calculation in the query cache
    draft,     \* the draft in sessionStorage
    timer,     \* the 600 ms timer of the draft is running
    load,      \* positionsRetrieve in flight, and what it read
    reqs,      \* the saves sent so far
    probe,     \* the retrieve of MeasurementPanel's onSaved
    touched,   \* history: the canvas changed since the last conflict answer
    edit,      \* history: the user's newest edit not saved or given up
    known,     \* history: the <<row, version>> shown here or saved from here
    count,     \* history: [edits, others, visits, reloads]
    world      \* which of Worlds this behaviour is of; it never changes

editorVars == <<rows, page, route, canvas, past, future, ed, settled, calc, draft,
          timer, load, reqs, probe, touched, edit, known, count, world>>

store == <<canvas, past, future, touched>>

Fresh == [loaded |-> FALSE, saved |-> NoRow, baseline |-> Nothing, busy |-> FALSE,
          uncertain |-> FALSE, conflict |-> FALSE, pending |-> Nothing,
          result |-> Nothing]

\* A save is over for the tab once its `finally` has run.
Flying(r) == r.st \in {"sent", "ok", "conflict", "refused", "lost", "stored"}

mutationLock == \E i \in DOMAIN reqs : reqs[i].here /\ Flying(reqs[i])

\* baseline === null (a copy) is always dirty.
Dirty == ed.baseline = Nothing \/ canvas # ed.baseline

\* currentEvaluation: only of the design on the canvas, pause over.
currentEvaluation(c, s, k) == IF s = c /\ c \in k THEN c ELSE Nothing

-----------------------------------------------------------------------------
(* The two effects that run after every render: AssemblyEditor publishes    *)
(* the evaluation when it or the inputs changed, and the draft of a clean   *)
(* editor is removed.  e is the state the handler leaves, s the draft.      *)

Published(e) ==
    IF canvas' # canvas
       \/ currentEvaluation(canvas', settled', calc')
            # currentEvaluation(canvas, settled, calc)
    THEN currentEvaluation(canvas', settled', calc') ELSE e.result

\* `fresh`: the inputs are a new object even where their value is the same.
Redraw(e, s, fresh) ==
    LET clean == e.baseline # Nothing /\ canvas' = e.baseline
        runs == fresh \/ canvas' # canvas \/ <<e.loaded, e.baseline>> # <<ed.loaded, ed.baseline>>
    IN /\ ed' = [e EXCEPT !.result = Published(e)]
       /\ draft' = IF e.loaded /\ clean THEN Nothing ELSE s
       /\ timer' = IF runs THEN e.loaded /\ ~clean ELSE timer

Render(e, s) == Redraw(e, s, FALSE)

\* The effect that fills what the catalogue determines, without a history step.
Resolved(d) == Resolve[d]

Show(d) ==
    /\ canvas' = Resolved(d)
    /\ past' = <<>> /\ future' = <<>> /\ touched' = TRUE

\* commitInputs: past.slice(-(HISTORY_LIMIT - 1)) and the replaced inputs.
Committed ==
    LET n == Len(past)
    IN Append(SubSeq(past, IF n > HistoryLimit - 1 THEN n - HistoryLimit + 2 ELSE 1, n),
              canvas)

\* offerDraftIfDivergent: an equal draft is removed, another is offered.
Offer(d) == IF draft \in {Nothing, d} THEN ed.pending ELSE draft

EditorInit ==
    /\ world \in Worlds
    /\ rows = IF world.mode = "new" THEN <<>>
              ELSE <<[ver |-> 1, design |-> CHOOSE d \in Theirs : TRUE, by |-> "init"]>>
    /\ page = "gone" /\ route = (IF world.mode = "row" THEN 1 ELSE 0)
    /\ canvas = Empty /\ past = <<>> /\ future = <<>>
    /\ ed = Fresh /\ settled = Empty /\ calc = {}
    /\ draft = Nothing /\ timer = FALSE
    /\ load = NoRetrieve /\ reqs = <<>> /\ probe = NoRetrieve
    /\ touched = TRUE /\ edit = Nothing /\ known = {}
    /\ count = [edits |-> 0, others |-> 0, visits |-> 0, reloads |-> 0]

-----------------------------------------------------------------------------
(* Opening the page and loading the design.                                 *)

\* positionId || copyId
Source == IF route = 0 THEN 1 ELSE route

Asked(id) == [NoRetrieve EXCEPT !.st = "sent", !.id = id]

Answered(q) == [q EXCEPT !.st = "read", !.ver = rows[q.id].ver, !.design = rows[q.id].design]

Loading == load.st # "none"

\* The workspace mounts: a new window starts at once, others are retrieved.
OpenEditor ==
    /\ page = "gone" /\ count.visits < world.visits
    /\ page' = "open"
    /\ count' = [count EXCEPT !.visits = @ + 1]
    /\ IF route = 0 /\ world.mode = "new"
       THEN /\ Show(NewWindow) /\ settled' = NewWindow
            /\ UNCHANGED <<world, calc, load>>
            /\ Render([Fresh EXCEPT !.loaded = TRUE, !.baseline = NewWindow,
                                    !.pending = Offer(NewWindow)], draft)
       ELSE /\ load' = Asked(Source)
            /\ UNCHANGED <<world, store, ed, settled, calc, draft, timer>>
    /\ UNCHANGED <<world, rows, route, reqs, probe, edit, known>>

ServerReads ==
    /\ load.st = "sent"
    /\ load' = Answered(load)
    /\ UNCHANGED <<world, rows, page, route, store, ed, settled, calc, draft, timer, reqs, probe,
                   edit, known, count>>

\* The answer of the retrieve fills the store, the lock token and the baseline.
Loaded ==
    /\ load.st = "read"
    /\ load' = NoRetrieve
    /\ Show(load.design)
    /\ settled' = IF ed.loaded THEN settled ELSE canvas'
    /\ UNCHANGED calc
    /\ Redraw([ed EXCEPT !.loaded = TRUE, !.pending = Offer(load.design),
                 !.saved = IF route = 0 THEN NoRow ELSE [id |-> route, ver |-> load.ver],
                 !.baseline = IF route = 0 THEN Nothing ELSE load.design],
              IF draft = load.design THEN Nothing ELSE draft, TRUE)
    /\ known' = known \cup {<<load.id, load.ver>>}
    /\ edit' = IF edit = load.design THEN Nothing ELSE edit
    /\ UNCHANGED <<world, rows, page, route, reqs, probe, count>>

\* Only the message changes: a reload that fails leaves the store emptied.
LoadFails ==
    /\ Loading
    /\ ed.loaded => world.slow
    /\ load' = NoRetrieve
    /\ UNCHANGED <<world, rows, page, route, store, ed, settled, calc, draft, timer, reqs, probe,
                   edit, known, count>>

\* The cleanup of the load effect: answers in flight are no longer this
\* page's, and the store is emptied.
Cleanup(here) ==
    /\ reqs' = [i \in DOMAIN reqs |->
                  [reqs[i] EXCEPT !.live = FALSE, !.here = @ /\ here]]
    /\ Show(Empty)

\* "Volver a consultar" of the error screen; nothing was shown yet.
RetryLoad ==
    /\ page = "open" /\ ~ed.loaded /\ ~Loading
    /\ count.reloads < world.reloads
    /\ count' = [count EXCEPT !.reloads = @ + 1]
    /\ load' = Asked(Source) /\ Cleanup(TRUE)
    /\ UNCHANGED <<world, rows, page, route, ed, settled, calc, draft, timer, probe, edit, known>>

\* "Cargar la version guardada" of the conflict banner.
LoadSaved ==
    /\ ed.conflict /\ count.reloads < world.reloads
    /\ ed.busy \/ (touched /\ canvas \notin {draft, ed.baseline}) => world.impatient
    /\ ed.pending # Nothing => world.away
    /\ count' = [count EXCEPT !.reloads = @ + 1]
    /\ load' = Asked(Source) /\ Cleanup(TRUE)
    /\ UNCHANGED <<world, settled, calc>>
    /\ Render([ed EXCEPT !.conflict = FALSE], draft)
    /\ UNCHANGED <<world, rows, page, route, probe, edit, known>>

-----------------------------------------------------------------------------
(* Editing.  Everything that changes the canvas is disabled while busy.     *)

Editable == page = "open" /\ ed.loaded /\ ~ed.busy /\ (Loading => world.slow)

\* What the user's step leaves on the canvas is the newest unsaved edit.
Newest(c) == IF ed.baseline # Nothing /\ c = ed.baseline THEN Nothing ELSE c

Edit(d) ==
    /\ Editable /\ count.edits < world.edits /\ Resolved(d) # canvas
    /\ count' = [count EXCEPT !.edits = @ + 1]
    /\ canvas' = Resolved(d) /\ past' = Committed /\ future' = <<>> /\ touched' = TRUE
    /\ UNCHANGED <<world, settled, calc>>
    /\ Render([ed EXCEPT !.result = Nothing], draft)
    /\ edit' = Newest(Resolved(d))
    /\ UNCHANGED <<world, rows, page, route, load, reqs, probe, known>>

Undo ==
    /\ Editable /\ past # <<>>
    /\ canvas' = past[Len(past)]
    /\ past' = SubSeq(past, 1, Len(past) - 1)
    /\ future' = Append(future, canvas) /\ touched' = TRUE
    /\ UNCHANGED <<world, settled, calc>>
    /\ Render([ed EXCEPT !.result = Nothing], draft)
    /\ edit' = Newest(canvas')
    /\ UNCHANGED <<world, rows, page, route, load, reqs, probe, known, count>>

Redo ==
    /\ Editable /\ future # <<>>
    /\ canvas' = future[Len(future)]
    /\ future' = SubSeq(future, 1, Len(future) - 1)
    /\ past' = Append(past, canvas) /\ touched' = TRUE
    /\ UNCHANGED <<world, settled, calc>>
    /\ Render([ed EXCEPT !.result = Nothing], draft)
    /\ edit' = Newest(canvas')
    /\ UNCHANGED <<world, rows, page, route, load, reqs, probe, known, count>>

\* 250 ms without an edit: the calculation of this design may be asked for.
DesignSettles ==
    /\ page = "open" /\ settled # canvas
    /\ settled' = canvas
    /\ UNCHANGED <<world, calc, store>>
    /\ Render(ed, draft)
    /\ UNCHANGED <<world, rows, page, route, load, reqs, probe, edit, known, count>>

\* The engine answers for the settled design; it is cached from then on.  A
\* design without a series, or one the engine rejects, never gets here.
Calculated ==
    /\ page = "open" /\ settled \in Designs \ ({Empty, NewWindow} \cup calc)
    /\ calc' = calc \cup {settled}
    /\ UNCHANGED <<world, settled, store>>
    /\ Render(ed, draft)
    /\ UNCHANGED <<world, rows, page, route, load, reqs, probe, edit, known, count>>

\* 600 ms without a change of a dirty editor.
WriteDraft ==
    /\ timer
    /\ Loading => world.slow
    /\ draft' = canvas /\ timer' = FALSE
    /\ UNCHANGED <<world, rows, page, route, store, ed, settled, calc, load, reqs, probe,
                   edit, known, count>>

-----------------------------------------------------------------------------
(* Saving.                                                                  *)

SaveGuard == ~ed.uncertain /\ ~mutationLock /\ ed.result # Nothing /\ ~ed.busy

Save ==
    /\ page = "open" /\ ed.loaded /\ SaveGuard /\ Len(reqs) < world.saves
    /\ Loading => world.slow
    /\ route = 0 /\ ed.pending # Nothing => world.away
    /\ reqs' = Append(reqs, [saved |-> ed.saved, design |-> canvas,
                             st |-> "sent", ver |-> 0, id |-> 0,
                             live |-> TRUE, here |-> TRUE])
    /\ ed' = [ed EXCEPT !.busy = TRUE]
    /\ UNCHANGED <<world, rows, page, route, store, settled, calc, draft, timer, load, probe, edit,
                   known, count>>

Put(i, id, ver, r) ==
    /\ rows' = IF id \in DOMAIN rows THEN [rows EXCEPT ![id] = r] ELSE Append(rows, r)
    /\ reqs' = [reqs EXCEPT ![i].st = "ok", ![i].ver = ver, ![i].id = id]
    /\ known' = known \cup {<<id, ver>>}

\* MUTANT: updated_at is not compared.
save_position_blind(i) ==
    LET q == reqs[i]
        id == IF q.saved = NoRow THEN Len(rows) + 1 ELSE q.saved.id
        ver == IF q.saved = NoRow THEN 1 ELSE rows[q.saved.id].ver + 1
    IN /\ q.st = "sent"
       /\ Put(i, id, ver, [ver |-> ver, design |-> q.design, by |-> "me"])
       /\ UNCHANGED <<world, page, route, store, ed, settled, calc, draft, timer, load, probe, edit, count>>

\* save_position: unchanged() compares updated_at under the row's lock; the
\* write gives the row a new one.
save_position(i) ==
    LET q == reqs[i] IN
    /\ q.st = "sent"
    /\ IF q.saved = NoRow
       THEN Put(i, Len(rows) + 1, 1, [ver |-> 1, design |-> q.design, by |-> "me"])
       ELSE IF rows[q.saved.id].ver = q.saved.ver
            THEN Put(i, q.saved.id, q.saved.ver + 1,
                     [ver |-> q.saved.ver + 1, design |-> q.design, by |-> "me"])
            ELSE /\ reqs' = [reqs EXCEPT ![i].st = "conflict"]
                 /\ UNCHANGED <<world, rows, known>>
    /\ UNCHANGED <<world, page, route, store, ed, settled, calc, draft, timer, load, probe, edit, count>>

\* The server refuses: a closed or priced revision (editable(), a 409 like the
\* stale edit), or a design it does not accept (another 4xx).
refuse_position(i) ==
    /\ reqs[i].st = "sent"
    /\ \E s \in {"conflict", "refused"} : reqs' = [reqs EXCEPT ![i].st = s]
    /\ UNCHANGED <<world, rows, page, route, store, ed, settled, calc, draft, timer, load, probe,
                   edit, known, count>>

\* The connection fails before or after the server acted, or it answers 5xx.
Lose(i) ==
    /\ reqs[i].st \in {"sent", "ok", "conflict", "refused"}
    /\ reqs' = [reqs EXCEPT ![i].st = "lost"]
    /\ UNCHANGED <<world, rows, page, route, store, ed, settled, calc, draft, timer, load, probe,
                   edit, known, count>>

\* The answer of a page that reloaded or left only frees the lock.
Ignored(i) ==
    /\ reqs[i].st \in {"ok", "conflict", "refused", "lost"} /\ ~reqs[i].live
    /\ reqs' = [reqs EXCEPT ![i].st = "over"]
    /\ UNCHANGED <<world, rows, page, route, store, ed, settled, calc, draft, timer, load, probe,
                   edit, known, count>>

\* A saved design: the new token, the server's BOM as result, and a baseline
\* of the design that was sent.
Stored(i) ==
    LET q == reqs[i] IN
    /\ q.st = "ok" /\ q.live
    /\ reqs' = [reqs EXCEPT ![i].st = "stored"]
    /\ UNCHANGED <<world, store, settled, calc>>
    /\ Render([ed EXCEPT !.saved = [id |-> q.id, ver |-> q.ver],
                         !.result = q.design, !.baseline = q.design], draft)
    /\ edit' = IF edit = q.design THEN Nothing ELSE edit
    /\ UNCHANGED <<world, rows, page, route, load, probe, known, count>>

\* The project was refetched: the lock and busy end, and a creation moves to
\* the route of its row, where the workspace mounts anew.
Finish(i) ==
    /\ reqs[i].st = "stored"
    /\ IF reqs[i].live /\ route = 0
       THEN /\ route' = reqs[i].id /\ load' = Asked(route') /\ probe' = NoRetrieve
            /\ ed' = Fresh /\ draft' = Nothing /\ timer' = FALSE
            /\ Show(Empty)
            /\ reqs' = [j \in DOMAIN reqs |->
                          [reqs[j] EXCEPT !.live = FALSE, !.here = FALSE,
                                          !.st = IF j = i THEN "over" ELSE @]]
       ELSE /\ reqs' = [reqs EXCEPT ![i].st = "over"]
            /\ ed' = IF reqs[i].live THEN [ed EXCEPT !.busy = FALSE] ELSE ed
            /\ UNCHANGED <<world, route, load, probe, draft, timer, store>>
    /\ UNCHANGED <<world, rows, page, settled, calc, edit, known, count>>

\* MUTANT: a conflict does not write the draft.
FailedNoDraft(i) ==
    LET q == reqs[i]
        stale == q.st = "conflict" /\ q.saved # NoRow
    IN /\ q.st \in {"conflict", "refused", "lost"} /\ q.live
       /\ reqs' = [reqs EXCEPT ![i].st = "over"]
       /\ touched' = (touched /\ ~stale)
       /\ UNCHANGED <<world, canvas, past, future, settled, calc>>
       /\ Render([ed EXCEPT !.busy = FALSE,
                    !.uncertain = q.st = "lost" /\ q.saved = NoRow,
                    !.conflict = @ \/ stale], draft)
       /\ UNCHANGED <<world, rows, page, route, load, probe, edit, known, count>>

\* MUTANT: busy is not reset by an error.
FailedBusy(i) ==
    /\ reqs[i].st \in {"conflict", "refused", "lost"} /\ reqs[i].live
    /\ reqs' = [reqs EXCEPT ![i].st = "over"]
    /\ UNCHANGED <<world, rows, page, route, store, ed, settled, calc, draft, timer, load, probe,
                   edit, known, count>>

\* The catch branch: an uncertain create, a conflict whose edit is written to
\* the draft before anything reloads, or a plain error.
Failed(i) ==
    LET q == reqs[i]
        stale == q.st = "conflict" /\ q.saved # NoRow
    IN /\ q.st \in {"conflict", "refused", "lost"} /\ q.live
       /\ reqs' = [reqs EXCEPT ![i].st = "over"]
       /\ touched' = (touched /\ ~stale)
       /\ UNCHANGED <<world, canvas, past, future, settled, calc>>
       /\ Render([ed EXCEPT !.busy = FALSE,
                    !.uncertain = q.st = "lost" /\ q.saved = NoRow,
                    !.conflict = @ \/ stale],
                 IF stale THEN q.design ELSE draft)
       /\ UNCHANGED <<world, rows, page, route, load, probe, edit, known, count>>

-----------------------------------------------------------------------------
(* The offered draft, the measurements, leaving, and other people.          *)

\* "Recuperar borrador": not disabled by a save in flight.
Restore ==
    /\ page = "open" /\ ed.loaded /\ ed.pending # Nothing
    /\ ed.busy => world.impatient
    /\ Loading => world.slow
    /\ Show(ed.pending)
    /\ UNCHANGED <<world, settled, calc>>
    /\ Redraw([ed EXCEPT !.pending = Nothing], draft, TRUE)
    /\ edit' = Newest(Resolved(ed.pending))
    /\ UNCHANGED <<world, rows, page, route, load, reqs, probe, known, count>>

\* "Descartar" of the offer: the stored draft goes with it.
DropOffer ==
    /\ page = "open" /\ ed.loaded /\ ed.pending # Nothing
    /\ ed.busy => world.impatient
    /\ ed.conflict => world.away
    /\ Loading => world.slow
    /\ UNCHANGED <<world, store, settled, calc>>
    /\ Render([ed EXCEPT !.pending = Nothing], Nothing)
    /\ edit' = IF edit = canvas THEN edit ELSE Nothing
    /\ UNCHANGED <<world, rows, page, route, load, reqs, probe, known, count>>

\* MeasurementPanel: the confirmation checks the token and changes no row;
\* then onSaved asks for the row again.
Confirm ==
    /\ world.measures /\ page = "open" /\ ed.loaded /\ ed.saved # NoRow /\ ~Dirty
    /\ probe = NoRetrieve /\ ~Loading
    /\ rows[ed.saved.id].ver = ed.saved.ver
    /\ probe' = Asked(ed.saved.id)
    /\ UNCHANGED <<world, rows, page, route, store, ed, settled, calc, draft, timer, load, reqs,
                   edit, known, count>>

ProbeReads ==
    /\ probe.st = "sent"
    /\ probe' = Answered(probe)
    /\ UNCHANGED <<world, rows, page, route, store, ed, settled, calc, draft, timer, load, reqs,
                   edit, known, count>>

\* setSaved(r.data): the token alone, whatever happened since.
ProbeAnswers ==
    /\ probe.st = "read"
    /\ probe' = NoRetrieve
    /\ ed' = [ed EXCEPT !.saved = [id |-> probe.id, ver |-> probe.ver]]
    /\ UNCHANGED <<world, rows, page, route, store, settled, calc, draft, timer, load, reqs,
                   edit, known, count>>

Unmount ==
    /\ page' = "gone" /\ load' = NoRetrieve /\ probe' = NoRetrieve /\ ed' = Fresh
    /\ settled' = Empty /\ timer' = FALSE
    /\ Cleanup(FALSE)

\* UnsavedChangesGuard: a clean editor goes at once, a dirty one discards
\* (saving and continuing is a Save followed by this).
Leave ==
    /\ page = "open"
    /\ ed.pending # Nothing /\ ~Dirty => world.away
    /\ IF ed.loaded /\ Dirty THEN draft' = Nothing /\ edit' = Nothing
       ELSE UNCHANGED <<world, draft, edit>>
    /\ Unmount
    /\ UNCHANGED <<world, rows, route, calc, known, count>>

\* A refresh keeps sessionStorage only; a dirty page asks first, and whoever
\* goes on gives up what the draft does not hold yet.
Refresh ==
    /\ page = "open"
    /\ ed.pending # Nothing /\ ~Dirty => world.away
    /\ edit' = IF ed.loaded /\ Dirty THEN draft ELSE edit
    /\ calc' = {}
    /\ Unmount
    /\ UNCHANGED <<world, rows, route, draft, known, count>>

\* Somebody else saves the window this route names.
OtherSaves ==
    /\ route # 0 /\ count.others < world.others
    /\ \E d \in Theirs :
         rows' = [rows EXCEPT ![route] = [ver |-> @.ver + 1, design |-> d, by |-> "other"]]
    /\ count' = [count EXCEPT !.others = @ + 1]
    /\ UNCHANGED <<world, page, route, store, ed, settled, calc, draft, timer, load, reqs, probe,
                   edit, known>>

Arrives == \E i \in DOMAIN reqs :
             \/ save_position(i) \/ refuse_position(i) \/ Lose(i) \/ Ignored(i)
             \/ Stored(i) \/ Finish(i) \/ Failed(i)

EditorNext ==
    \/ OpenEditor \/ ServerReads \/ Loaded \/ LoadFails \/ RetryLoad \/ LoadSaved
    \/ \E d \in world.draws : Edit(d)
    \/ Undo \/ Redo \/ DesignSettles \/ Calculated \/ WriteDraft \/ Save \/ Arrives
    \/ Restore \/ DropOffer \/ Confirm \/ ProbeReads \/ ProbeAnswers
    \/ Leave \/ Refresh \/ OtherSaves

\* A request ends: the server acts or the connection fails, and the promise's
\* handlers run.  Nobody is forced to edit, save or leave.
EditorFairness == WF_editorVars(Arrives)

EditorSpec == EditorInit /\ [][EditorNext]_editorVars

EditorFairSpec == EditorSpec /\ EditorFairness

-----------------------------------------------------------------------------
(* Properties.                                                              *)

\* The lock token of a row of the server, or null.
Tokens == {NoRow} \cup [id : DOMAIN rows, ver : Nat]

\* A retrieve: not asked, on its way to a row, or the row as it was read.
Retrieves ==
    {NoRetrieve} \cup [st : {"sent"}, id : DOMAIN rows, ver : {0}, design : {Nothing}]
           \cup [st : {"read"}, id : DOMAIN rows, ver : Nat, design : Designs]

Requests ==
    [saved : Tokens, design : Designs,
     st : {"sent", "ok", "conflict", "refused", "lost", "stored", "over"},
     ver : Nat, id : 0..Len(rows), live : BOOLEAN, here : BOOLEAN]

\* Types, and the history of canvasStore.ts: what can be undone and redone
\* together never exceeds HISTORY_LIMIT, although redo pushes without a cut.
EditorTypeOK ==
    /\ world \in Worlds
    /\ rows \in Seq([ver : Nat, design : Designs, by : {"init", "me", "other"}])
    /\ page \in {"gone", "open"} /\ route \in 0..Len(rows)
    /\ canvas \in Designs /\ settled \in Designs /\ calc \subseteq Mine \cup Theirs
    /\ past \in Seq(Designs) /\ future \in Seq(Designs)
    /\ Len(past) + Len(future) <= HistoryLimit
    /\ ed \in [loaded : BOOLEAN, saved : Tokens, baseline : Designs \cup {Nothing},
               busy : BOOLEAN, uncertain : BOOLEAN, conflict : BOOLEAN,
               pending : Designs \cup {Nothing}, result : Designs \cup {Nothing}]
    /\ draft \in Designs \cup {Nothing} /\ edit \in Designs \cup {Nothing}
    /\ {load, probe} \subseteq Retrieves
    /\ reqs \in Seq(Requests) /\ Len(reqs) <= world.saves
    /\ timer \in BOOLEAN /\ touched \in BOOLEAN /\ known \subseteq Nat \X Nat
    /\ count \in [edits : Nat, others : Nat, visits : Nat, reloads : Nat]

\* A save from this tab never replaces a version of the window that was not
\* on its canvas: the token sent by save() is of a design that was loaded, where
\* the measurements panel does not refresh the token alone.
NoLostUpdate ==
    [][~world.measures =>
         \A i \in DOMAIN rows :
           rows'[i] # rows[i] /\ rows'[i].by = "me" => <<i, rows[i].ver>> \in known]_editorVars

\* A user who answers what the page offers before going on.
Patient == ~world.slow /\ ~world.away /\ ~world.impatient

\* The user's newest unsaved edit is on the canvas, in the draft or on offer
\* until it is saved or the user gives it up (the conflict banner: "Tus
\* cambios siguen aqui y en el borrador de esta pestana").
EditKept == Patient /\ edit # Nothing => edit \in {canvas, draft, ed.pending}

\* A save ends for the editor: the fields it disabled are enabled again, unless
\* the conflict banner is pressed while the save is in flight.
SaveSettles == ed.busy ~> ~ed.busy \/ world.impatient

=============================================================================
