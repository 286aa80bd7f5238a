---------------------------- MODULE MCDocuments ----------------------------
(* What is behind a tab, for TLC: the table of what the backend holds, the  *)
(* save over a file, and the queues of the page.  They share no variable;   *)
(* `part` is the one that moves, so that their states are added up and not  *)
(* multiplied.  The table moves twice: with one document more, or with a    *)
(* page that is reloaded; and so do the queues: with one file less, or with *)
(* one request less.                                                        *)
EXTENDS DocumentTable, SequencesExt, TLC

CONSTANTS MaxForeign,                           \* of SaveOver
          Docs, NoDoc, MaxEdits, MaxRequests    \* of PageTasks

ASSUME DocumentsAssumption ==
    MaxForeign \in Nat /\ NoDoc \notin Docs /\ MaxEdits \in Nat /\ MaxRequests \in Nat

VARIABLES
    part,
    file, tail, named, was, foreign, hash, print, dirty, pc, mode, verified, handle,
    staged, disk, opened, ending, late, blind, running,
    tabs, shown, live, opening, draft, made, editing, pending, model, seen,
    opens, afterIdle, saving, requests

Save == INSTANCE SaveOver
Page == INSTANCE PageTasks

saveVars == <<file, tail, named, was, foreign, hash, print, dirty, pc, mode, verified,
              handle, staged, disk, opened, ending, late, blind, running>>
pageVars == <<tabs, shown, live, opening, draft, made, editing, pending, model, seen,
              opens, afterIdle, saving, requests>>

CallSymmetry == Permutations(Calls)

OneLess == CHOOSE d \in Docs : TRUE

MCInit ==
    /\ part \in {"table", "reload", "save", "page", "tabs"}
    /\ Init /\ Save!Init /\ Page!Init
    /\ part # "save" => hash = "waiting"
    /\ part = "page" => OneLess \notin tabs
    /\ part # "page" => tabs = Docs
    /\ part \notin {"page", "tabs"} => shown = OneLess

TableNext ==
    /\ Next /\ UNCHANGED <<part, saveVars, pageVars>>
    /\ \/ part = "table" /\ UNCHANGED reloads
       \/ part = "reload" /\ pool'[MaxHandles] = "none"

PageNext ==
    /\ Page!Next /\ UNCHANGED <<part, vars, saveVars>>
    /\ \/ part = "page" /\ \A b \in ToSet(opens') \cup afterIdle' : b.doc # OneLess
       \/ part = "tabs" /\ requests' < MaxRequests

MCNext ==
    \/ TableNext
    \/ part = "save" /\ Save!Next /\ UNCHANGED <<part, vars, pageVars>>
    \/ PageNext

MCSpec == MCInit /\ [][MCNext]_<<part, vars, saveVars, pageVars>>

\* Every variable of the part that moves has its type; the others are as they
\* began.
AllTypesOK ==
    /\ part \in {"table", "reload"} => TypeOK
    /\ part = "save" => Save!TypeOK
    /\ part \in {"page", "tabs"} => Page!TypeOK

\* The properties of SaveOver, stated there.
OldOrNew == part = "save" => Save!OldOrNew
SavedIsWhatWasOpened == part = "save" => Save!SavedIsWhatWasOpened
HonestEnding == part = "save" => Save!HonestEnding

\* The properties of PageTasks, stated there.
SaveTakesEveryEdit == part \in {"page", "tabs"} => Page!SaveTakesEveryEdit
WindowShowsTheModel == part \in {"page", "tabs"} => Page!WindowShowsTheModel
NothingIsStuck == part \in {"page", "tabs"} => Page!NothingIsStuck
NothingIsClosedUnasked == Page!NothingIsClosedUnasked
=============================================================================
