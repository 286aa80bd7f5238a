------------------------------ MODULE PageTasks ------------------------------
(***************************************************************************)
(* What the window does with its documents: src/App.svelte and its three   *)
(* queues.  `opens` runs the bodies that open, show and close documents,   *)
(* one after the other (lib/serial.ts); `editing` runs the edit commands   *)
(* the same way; documentTasks (lib/documenttabs.ts) runs one save at a    *)
(* time, has edits refused while it does, and new bodies wait for it.      *)
(*                                                                         *)
(* The page is one thread: an action is what it does between two awaits.   *)
(* One pane is modelled, and of the document tasks the save.  The save     *)
(* command itself is SaveOver's subject, the model of a document Journal's *)
(***************************************************************************)
EXTENDS Naturals, Sequences, FiniteSets, SequencesExt

CONSTANTS Docs, NoDoc,  \* the files the reader works with
          MaxEdits,     \* bound: edits made of a document
          MaxRequests   \* bound: openings, closings and saves asked for

VARIABLES
    tabs,       \* the documents with a tab
    shown,      \* the document that is mounted (openView, edits, viewer)
    live,       \* the documents the backend has a model of
    opening,    \* a body is changing what is mounted
    draft,      \* a popup holds a note that is not an edit yet
    made,       \* made[d]: the edits of d the page has accepted
    editing,    \* the queue of edits
    pending,    \* pendingEdit: the edit made last of what is mounted
    model,      \* model[d]: the edits in the backend's model
    seen,       \* seen[d]: the edits in the state the page has (Edits.current)
    opens,      \* the queue of bodies, the first one running
    afterIdle,  \* the bodies that wait for documentTasks.idle
    saving,     \* the document task: where it is, and what it waits for
    requests    \* how often the reader has asked for something

edits == <<made, editing, pending, model, seen>>
vars == <<tabs, shown, live, opening, draft, edits, opens, afterIdle, saving, requests>>

Bound == [doc : Docs \cup {NoDoc}, nth : 0..MaxEdits]
NoBound == [doc |-> NoDoc, nth |-> 0]
\* Of a close of several tabs: those still to be closed, and what the one
\* question found or was told.
Body == [kind : {"open", "activate", "behind", "close", "several", "reopen"}, doc : Docs,
         at : {"queued", "ask", "settle", "wait", "mount", "confirm"}, until : Bound,
         rest : SUBSET Docs, asked : {"no", "nothing", "yes"}]
Task == [at : {"none", "settle", "wait", "settleAgain", "waitAgain", "call", "reopen"},
         doc : Docs \cup {NoDoc}, until : Bound]
NoTask == [at |-> "none", doc |-> NoDoc, until |-> NoBound]
\* The document is still mounted as when the edit was made, was taken down
\* since, or has been opened anew: then the edit is of a handle nobody has.
EditCommand == [doc : Docs, nth : 1..MaxEdits, view : {"here", "left", "gone"},
                at : {"queued", "sent", "answered"}, reply : 0..MaxEdits]

TypeOK ==
    /\ tabs \in SUBSET Docs /\ shown \in Docs \cup {NoDoc} /\ live \in SUBSET Docs
    /\ opening \in BOOLEAN /\ draft \in BOOLEAN
    /\ made \in [Docs -> 0..MaxEdits] /\ editing \in Seq(EditCommand) /\ pending \in Bound
    /\ model \in [Docs -> 0..MaxEdits] /\ seen \in [Docs -> 0..MaxEdits]
    /\ opens \in Seq(Body) /\ afterIdle \in SUBSET Body
    /\ saving \in Task /\ requests \in 0..MaxRequests

Init ==
    /\ tabs \in SUBSET Docs /\ live = tabs /\ shown \in tabs
    /\ opening = FALSE /\ draft = FALSE
    /\ made = [d \in Docs |-> 0] /\ editing = <<>> /\ pending = NoBound
    /\ model = [d \in Docs |-> 0] /\ seen = [d \in Docs |-> 0]
    /\ opens = <<>> /\ afterIdle = {} /\ saving = NoTask /\ requests = 0

documentBusy == saving.at # "none"

-----------------------------------------------------------------------------
\* Edits.

Queue(d) ==
    /\ made' = [made EXCEPT ![d] = @ + 1]
    /\ editing' = Append(editing,
          [doc |-> d, nth |-> made[d] + 1, view |-> "here", at |-> "queued", reply |-> 0])
    /\ pending' = [doc |-> d, nth |-> made[d] + 1]

\* mutant of MayEdit: a task that runs is not looked at
AnyTime == TRUE

\* applyEdit; what a task commits itself is let through (SettleDrafts).
MayEdit == ~documentBusy

MakeEdit ==
    /\ shown # NoDoc /\ MayEdit
    /\ made[shown] + (IF draft THEN 1 ELSE 0) < MaxEdits /\ Queue(shown)
    /\ UNCHANGED <<tabs, shown, live, opening, draft, model, seen, opens, afterIdle, saving,
                   requests>>

\* The reader types a note; it is an edit when its popup is closed.
Type ==
    /\ shown # NoDoc /\ ~draft /\ made[shown] < MaxEdits /\ draft' = TRUE
    /\ UNCHANGED <<tabs, shown, live, opening, edits, opens, afterIdle, saving, requests>>

\* mutant of MaySend: an edit does not wait for the one before it
AtOnce(i) == TRUE

\* Serial.run
MaySend(i) == i = 1

\* runEdit: a document that is not mounted has no model to send it to.
SendEdit(i) ==
    /\ editing[i].at = "queued" /\ MaySend(i)
    /\ editing' = IF editing[i].doc = shown /\ editing[i].view # "gone"
                  THEN [editing EXCEPT ![i].at = "sent"]
                  ELSE RemoveAt(editing, i)
    /\ UNCHANGED <<tabs, shown, live, opening, draft, made, pending, model, seen, opens,
                   afterIdle, saving, requests>>

\* The backend applies it, or refuses it, as it does one to a handle that is
\* closed: then it answers with no state.
ApplyEdit(i) ==
    LET d == editing[i].doc IN
    /\ editing[i].at = "sent"
    /\ \/ /\ d \in live /\ editing[i].view # "gone" /\ model' = [model EXCEPT ![d] = @ + 1]
          /\ editing' = [editing EXCEPT ![i].at = "answered", ![i].reply = model[d] + 1]
       \/ editing' = [editing EXCEPT ![i].at = "answered"] /\ UNCHANGED model
    /\ UNCHANGED <<tabs, shown, live, opening, draft, made, pending, seen, opens, afterIdle,
                   saving, requests>>

\* Edits.adopt: the state is the one that was answered last.
AdoptEdit(i) ==
    /\ editing[i].at = "answered" /\ editing' = RemoveAt(editing, i)
    /\ seen' = IF editing[i].reply = 0 THEN seen
               ELSE [seen EXCEPT ![editing[i].doc] = editing[i].reply]
    /\ UNCHANGED <<tabs, shown, live, opening, draft, made, pending, model, opens, afterIdle,
                   saving, requests>>

\* settleDrafts closes the popups and waits for pendingEdit, the edit made last
\* since the document was mounted, and so for those the queue has before it.
SettleDrafts ==
    /\ draft' = FALSE
    /\ IF draft /\ shown # NoDoc THEN Queue(shown) ELSE UNCHANGED <<made, editing, pending>>
    /\ UNCHANGED <<model, seen>>

\* mutant of IsSettled: the edits are not waited for
NotAwaited(until) == TRUE

IsSettled(until) ==
    \A i \in DOMAIN editing : editing[i].doc = until.doc => editing[i].nth > until.nth

\* unmountDocument: what is under way is of a view that was left, and there is
\* no pendingEdit.
Left ==
    [i \in DOMAIN editing |->
        [editing[i] EXCEPT !.view = IF @ = "here" THEN "left" ELSE @]]

-----------------------------------------------------------------------------
\* The reader asks.  A body that is not a save's own reopen waits for idle.

Queued(kind, d) ==
    [kind |-> kind, doc |-> d, at |-> "queued", until |-> NoBound, rest |-> {}, asked |-> "no"]

Asked == requests < MaxRequests /\ requests' = requests + 1

Enqueue(b, queue) ==
    IF documentBusy /\ b.kind # "behind"
    THEN afterIdle' = afterIdle \cup {b} /\ opens' = queue
    ELSE opens' = Append(queue, b) /\ UNCHANGED afterIdle

\* Several tabs are closed from one that stays.
Ask ==
    /\ Asked
    /\ \E d \in Docs :
          \/ \E kind \in {"open", "activate", "behind", "close"} :
                /\ kind \in {"activate", "close"} => d \in tabs
                /\ Enqueue(Queued(kind, d), opens)
          \/ \E others \in SUBSET (tabs \ {d}) :
                /\ d \in tabs /\ others \cup {d} # tabs
                /\ Enqueue([Queued("several", d) EXCEPT !.rest = others], opens)
    /\ UNCHANGED <<tabs, shown, live, opening, draft, edits, saving>>

Idle ==
    /\ ~documentBusy
    /\ \E b \in afterIdle : afterIdle' = afterIdle \ {b} /\ opens' = Append(opens, b)
    /\ UNCHANGED <<tabs, shown, live, opening, draft, edits, saving, requests>>

\* saveDocument: refused while a document is opening or a task runs.
AskSave ==
    /\ Asked /\ ~opening /\ ~documentBusy /\ shown # NoDoc
    /\ saving' = [NoTask EXCEPT !.at = "settle"]
    /\ UNCHANGED <<tabs, shown, live, opening, draft, edits, opens, afterIdle>>

-----------------------------------------------------------------------------
\* The bodies of `opens`.
body == Head(opens)
Running(at) == opens # <<>> /\ body.at = at /\ UNCHANGED <<saving, requests>>
Goes(to) == opens' = [opens EXCEPT ![1].at = to] /\ UNCHANGED afterIdle

\* closeTabs closes one tab after the other, in any order here: the next is
\* asked for when the one before it is done.
Leaves(ds, asked) ==
    IF ds = {} THEN opens' = Tail(opens) /\ UNCHANGED afterIdle
    ELSE \E d \in ds :
            Enqueue([Queued("close", d) EXCEPT !.rest = ds \ {d}, !.asked = asked], Tail(opens))

BodyEnds == opening' = FALSE /\ Leaves(body.rest, body.asked)

\* A document not to be opened, shown or closed ends its body at once.
Start ==
    /\ Running("queued")
    /\ LET d == body.doc  IN
       CASE (body.kind = "behind" /\ d \notin tabs) ->
              Goes("ask") /\ UNCHANGED opening
         [] body.kind = "several" -> Goes("settle") /\ UNCHANGED opening
         [] body.kind = "reopen" \/ (body.kind = "open" /\ d \notin tabs) ->
              opening' = TRUE /\ Goes("ask")
         [] body.kind = "close" /\ d \in tabs -> opening' = TRUE /\ Goes("settle")
         [] body.kind \in {"open", "activate"} /\ d \in tabs /\ d # shown ->
              opening' = TRUE /\ Goes("settle")
         [] OTHER -> Leaves(body.rest, body.asked) /\ UNCHANGED opening
    /\ UNCHANGED <<tabs, shown, live, draft, edits>>

\* What is under way of a handle that is replaced.
Gone(d) ==
    [i \in DOMAIN editing |-> IF editing[i].doc # d THEN editing[i]
                              ELSE [editing[i] EXCEPT !.view = "gone", !.reply = 0]]

\* openOrAsk: the backend opens the document anew, or refuses to.  A tab that
\* was shown on the handle that is replaced is the one that is taken down.
Opened ==
    /\ Running("ask")
    /\ LET d == body.doc IN
       \/ /\ live' = live \cup {d} /\ editing' = Gone(d)
          /\ model' = [model EXCEPT ![d] = 0] /\ seen' = [seen EXCEPT ![d] = 0]
          /\ shown' = IF shown = d THEN NoDoc ELSE shown
          /\ draft' = (draft /\ shown # d)
          /\ IF body.kind = "behind"
             THEN Leaves({}, "no") /\ tabs' = tabs \cup {d}
             ELSE Goes("settle") /\ UNCHANGED tabs
          /\ UNCHANGED opening
       \/ /\ IF body.kind = "behind" THEN Leaves({}, "no") /\ UNCHANGED opening ELSE BodyEnds
          /\ UNCHANGED <<tabs, shown, draft, live, model, seen, editing>>
    /\ UNCHANGED <<made, pending>>

Settle ==
    /\ Running("settle") /\ SettleDrafts
    /\ opens' = [opens EXCEPT ![1].at = "wait", ![1].until = pending']
    /\ UNCHANGED <<tabs, shown, live, opening, afterIdle>>

\* openDocument: what is mounted is taken down; the frame that is waited for
\* is the end of it.
Unmount ==
    /\ Running("wait") /\ IsSettled(body.until) /\ body.kind \notin {"close", "several"}
    /\ shown' = NoDoc /\ draft' = FALSE /\ Goes("mount")
    /\ editing' = Left /\ pending' = NoBound
    /\ UNCHANGED <<tabs, live, opening, made, model, seen>>

\* A document that cannot be mounted is abandoned; one that was opened for it
\* is closed again.
Mount ==
    /\ Running("mount") /\ BodyEnds
    /\ LET d == body.doc IN
       \/ shown' = d /\ tabs' = tabs \cup {d} /\ UNCHANGED live
       \/ /\ live' = IF body.kind = "activate" \/ (body.kind = "open" /\ d \in tabs) THEN live
                     ELSE live \ {d}
          /\ UNCHANGED <<shown, tabs>>
    /\ UNCHANGED <<draft, edits>>

\* closeTab removes the tab and closes the document; another one is shown.
Removes(d) ==
    /\ tabs' = tabs \ {d} /\ live' = live \ {d}
    /\ IF shown = d THEN shown' = NoDoc /\ draft' = FALSE /\ editing' = Left /\ pending' = NoBound
       ELSE UNCHANGED <<shown, draft, editing, pending>>
    /\ IF shown = d /\ tabs' # {}
       THEN /\ \E next \in tabs' :
                  opens' = <<[body EXCEPT !.kind = "activate", !.doc = next, !.at = "settle"]>>
                           \o Tail(opens)
            /\ UNCHANGED <<opening, afterIdle>>
       ELSE BodyEnds
    /\ UNCHANGED <<made, model, seen>>

dirty(d) == seen[d] > 0

Close ==
    /\ Running("wait") /\ IsSettled(body.until) /\ body.kind = "close"
    /\ IF body.asked = "no" /\ dirty(body.doc)
       THEN Goes("confirm") /\ UNCHANGED <<tabs, shown, live, opening, draft, edits>>
       ELSE Removes(body.doc)

\* closeTabs' one question, about the tabs that are still there.
CloseSeveral ==
    /\ Running("wait") /\ IsSettled(body.until) /\ body.kind = "several"
    /\ IF \E d \in ({body.doc} \cup body.rest) \cap tabs : dirty(d) THEN Goes("confirm")
       ELSE Leaves({body.doc} \cup body.rest, "nothing")
    /\ UNCHANGED <<tabs, shown, live, opening, draft, edits>>

\* The reader agrees, or has the tabs kept.
Confirm ==
    /\ Running("confirm")
    /\ \/ body.kind = "close" /\ Removes(body.doc)
       \/ /\ \/ body.kind = "several" /\ Leaves({body.doc} \cup body.rest, "yes")
             \/ Leaves({}, "no")
          /\ opening' = FALSE /\ UNCHANGED <<tabs, shown, live, draft, edits>>

-----------------------------------------------------------------------------
\* The save.
Saving(at) == saving.at = at /\ UNCHANGED requests
TaskEnds == saving' = NoTask

SaveSettles ==
    /\ Saving("settle") \/ Saving("settleAgain")
    /\ SettleDrafts
    /\ saving' = [saving EXCEPT !.at = IF saving.at = "settle" THEN "wait" ELSE "waitAgain",
                            !.until = pending']
    /\ UNCHANGED <<tabs, shown, live, opening, opens, afterIdle>>

\* The document that is mounted by now is the one to be saved; beforeWrite
\* settles once more.
SaveBegins ==
    /\ Saving("wait") /\ IsSettled(saving.until)
    /\ IF shown = NoDoc THEN TaskEnds
       ELSE saving' = [saving EXCEPT !.at = "settleAgain", !.doc = shown]
    /\ UNCHANGED <<tabs, shown, live, opening, draft, edits, opens, afterIdle>>

\* A signature may be asked about.
SaveIsSure ==
    /\ Saving("waitAgain") /\ IsSettled(saving.until)
    /\ TaskEnds \/ saving' = [saving EXCEPT !.at = "call"]
    /\ UNCHANGED <<tabs, shown, live, opening, draft, edits, opens, afterIdle>>

\* mutant of ReopenWaits: the reopen waits for idle like any other
LikeAnyOther == TRUE

ReopenWaits == FALSE

\* save_document refuses, or has closed the document, saved or not: the page
\* forgets what is mounted, with the popups that are open, and opens the file
\* again.
SaveAnswers ==
    LET again == Queued("reopen", saving.doc) IN
    /\ Saving("call")
    /\ \/ TaskEnds /\ UNCHANGED <<shown, live, draft, editing, opens, afterIdle>>
       \/ /\ saving.doc \in live /\ model[saving.doc] > 0
          /\ live' = live \ {saving.doc} /\ saving' = [saving EXCEPT !.at = "reopen"]
          /\ shown' = NoDoc /\ draft' = FALSE /\ editing' = Left
          /\ IF ReopenWaits THEN afterIdle' = afterIdle \cup {again} /\ UNCHANGED opens
             ELSE opens' = Append(opens, again) /\ UNCHANGED afterIdle
    /\ UNCHANGED <<tabs, opening, made, pending, model, seen>>

SaveEnds ==
    /\ Saving("reopen") /\ TaskEnds
    /\ \A b \in afterIdle \cup ToSet(opens) : b.kind # "reopen"
    /\ UNCHANGED <<tabs, shown, live, opening, draft, edits, opens, afterIdle>>

-----------------------------------------------------------------------------
\* The reader's events come when no promise is left to be followed: a body that
\* can start has started, and nothing waits for edits that are answered.
Followed ==
    /\ opens # <<>> => /\ body.at \notin {"queued", "settle"}
                       /\ body.at = "wait" => ~IsSettled(body.until)
    /\ afterIdle # {} => documentBusy
    /\ saving.at \notin {"settle", "settleAgain"}
    /\ saving.at = "wait" => ~IsSettled(saving.until)

Reader == Followed /\ (MakeEdit \/ Type \/ Ask \/ AskSave)

EditStep == \E i \in DOMAIN editing : SendEdit(i) \/ ApplyEdit(i) \/ AdoptEdit(i)

BodyStep == Idle \/ Start \/ Opened \/ Settle \/ Unmount \/ Mount \/ Close
            \/ CloseSeveral \/ Confirm

SaveStep == SaveSettles \/ SaveBegins \/ SaveIsSure \/ SaveAnswers \/ SaveEnds

Next == Reader \/ EditStep \/ BodyStep \/ SaveStep

Spec == Init /\ [][Next]_vars

-----------------------------------------------------------------------------
\* A save takes every edit the page had accepted of the document it saves since
\* it was mounted: none is on its way when the backend makes its plan, and none
\* is accepted that would be lost with the model (the comments on pendingEdit and
\* applyEdit).  Two exceptions: a body that was queued behind one that opens a
\* tab may run beside the save, and what it commits while it settles is not
\* waited for; and what was on its way when the document was taken down and
\* mounted again is no longer pendingEdit (NoEditIsMissed).
Beside == opens # <<>> /\ body.kind # "behind"

SaveTakesEveryEdit ==
    saving.at = "call" /\ ~Beside =>
        \A i \in DOMAIN editing : editing[i].doc = saving.doc => editing[i].view # "here"

\* What the comment on pendingEdit says without the second exception: no edit
\* the document's model could still take is unanswered when a save is made.
NoEditIsMissed ==
    saving.at = "call" /\ ~Beside =>
        \A i \in DOMAIN editing : editing[i].doc = saving.doc => editing[i].view = "gone"

\* Once the replies are in, the window shows the state its document's model is
\* in, whatever the order they came in (the comment on `editing`).  What was sent
\* to a handle that was replaced answers for no model.
WindowShowsTheModel ==
    \A d \in tabs \cap live :
        (\A i \in DOMAIN editing : editing[i].doc = d => editing[i].view = "gone")
        => seen[d] = model[d]

\* A tab that is closed without a question loses no edit but those that were
\* made after its close had begun to settle, and those on their way when the
\* document was last taken down (the comment on closeTab).  One of several that
\* are closed together is not asked about again (AskedOnceIsEnough).
LateAnswers(d) == {i \in DOMAIN editing :
    /\ editing[i].doc = d /\ editing[i].reply > 0
    /\ editing[i].view = "left" \/ editing[i].nth > body.until.nth}

NothingIsClosedUnasked ==
    [][\A d \in tabs \ tabs' :
          \/ body.at = "confirm" \/ body.asked # "no"
          \/ model[d] <= Cardinality(LateAnswers(d))]_vars

\* What the comment on closeTab says of `asked`: the caller has asked about the
\* unsaved work, so where its question found none there is none.
AskedOnceIsEnough ==
    opens # <<>> /\ body.kind = "close" /\ body.asked = "nothing" /\ body.at = "wait"
    /\ IsSettled(body.until) => ~dirty(body.doc)

\* The queues never wait for each other in a circle: while there is anything
\* to do, something can be done (the comment in openPath).
NothingIsStuck ==
    documentBusy \/ opens # <<>> \/ afterIdle # {} \/ editing # <<>> =>
        ENABLED (EditStep \/ BodyStep \/ SaveStep)
=============================================================================
