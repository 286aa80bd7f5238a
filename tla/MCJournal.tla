------------------------------- MODULE MCJournal -------------------------------
(* The pages and what refers to them, for TLC: the journal that changes     *)
(* them, and the search that walks their order.  They share no variable;    *)
(* `part` is the one that moves, so that their states are added up and not  *)
(* multiplied.  The journal moves under two names, of which one edits the   *)
(* first opened page with every command there is, and the other every       *)
(* opened page with those that bring neither a mark nor another file.       *)
EXTENDS Journal

CONSTANTS f1, f2,
          RunPages, CopyChunk, MaxMatches, Pages, MaxScans, MaxReorders, MaxFailures    \* of SearchWalk

ASSUME SearchAssumption ==
    /\ RunPages \in Nat \ {0} /\ CopyChunk \in Nat \ {0} /\ Pages \in Nat \ {0, 1}
    /\ MaxScans \in Nat /\ MaxFailures \in Nat

VARIABLES
    part,
    order, walk, scan, matches, unread, running, problem, mark, scans, reorders, failures

Search == INSTANCE SearchWalk

searchVars == <<order, walk, scan, matches, unread, running, problem, mark, scans,
                reorders, failures>>

\* Two files; two pages of the first, the second page put before the first.
TwoFiles == {[file |-> f1, pages |-> <<1>>],
             [file |-> f1, pages |-> <<2, 1>>],
             [file |-> f2, pages |-> <<1>>]}

\* Each name's journal.
OneOpenedPage == \A k \in 1..Len(journal) :
    LET c == journal[k].cmd
    IN  /\ "page" \in DOMAIN c => c.page # 2
        /\ "after" \in DOMAIN c => c.after # 2

PagesAlone == \A k \in 1..Len(journal) : journal[k].cmd.kind \notin {"annotate", "import"}

MCInit ==
    /\ part \in {"journal", "pages", "search"} /\ Init /\ Search!Init
    /\ part # "search" => \A n \in 1..Pages : order[n] = [doc |-> "opened", page |-> n]

MCNext ==
    \/ part = "journal" /\ Next /\ OneOpenedPage' /\ UNCHANGED <<part, searchVars>>
    \/ part = "pages" /\ Next /\ PagesAlone' /\ UNCHANGED <<part, searchVars>>
    \/ part = "search" /\ Search!Next /\ UNCHANGED <<part, vars>>

MCSpec == MCInit /\ [][MCNext]_<<part, vars, searchVars>>

\* Every variable of the part that moves has its type; the others are as they
\* began.
AllTypesOK ==
    /\ part # "search" => TypeOK
    /\ part = "search" => Search!TypeOK

\* The properties of SearchWalk, stated there.
ListIsInReadingOrder == part = "search" => Search!ListIsInReadingOrder
MarksAreTheHits == part = "search" => Search!MarksAreTheHits
=============================================================================
