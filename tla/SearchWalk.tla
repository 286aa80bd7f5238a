------------------------------ MODULE SearchWalk ------------------------------
(***************************************************************************)
(* The search of src/lib/search.ts: a walk asks the backend for the hits   *)
(* of a run of pages at a time, while the reader starts other searches,    *)
(* clears them and edits the pages, and what is found can be marked for    *)
(* removal (redactMatches of App.svelte, matchQuadsByPage of viewer.ts).   *)
(*                                                                         *)
(* A page is an address, a file and a page of it; a slot is a place in the *)
(* order the reader sees.  Every page has a hit of its own, and one that   *)
(* starts on it and ends on whatever page follows it on the screen.        *)
(***************************************************************************)
EXTENDS Naturals, Sequences, FiniteSets, SequencesExt, Functions

CONSTANTS RunPages,     \* RUN_PAGES
          CopyChunk,    \* COPY_CHUNK
          MaxMatches,   \* MAX_MATCHES_TO_MARK
          Pages,        \* bound: the slots of the order to begin with
          MaxScans, MaxReorders, MaxFailures    \* bounds

Slots == 1..Pages
Address == [doc : {"opened", "inserted"}, page : 1..Pages]
NoPage == [doc |-> "none", page |-> 0]
NoCarry == [page |-> 0, of |-> NoPage]

\* Where on its page a hit is: its own at 2, the one that leaves the page
\* starts at 4 and ends before 1 on the next.
Infinity == 9
Entry(page, from, to) == [page |-> page, from |-> from, to |-> to]

\* The entries of s at these places, in their order.
Subsequence(s, places) ==
    LET kept[n \in 0..Len(s)] ==
            IF n = 0 THEN <<>>
            ELSE IF n \in places THEN Append(kept[n - 1], s[n]) ELSE kept[n - 1]
    IN  kept[Len(s)]

NoWalk == [pc |-> "none", plan |-> <<>>, scoped |-> FALSE, at |-> 1,
           carried |-> NoCarry, asked |-> <<>>, sources |-> <<>>, carry |-> NoPage]
NoMark == [at |-> "none", pages |-> <<>>, hits |-> <<>>, slots |-> <<>>, texts |-> <<>>,
           out |-> {}]

VARIABLES
    order,      \* addressOf: the page each slot draws
    walk,       \* the walks, by the number of their scan; a superseded one goes on
    scan,       \* the scan whose generation is the present one; 0: cancelled
    matches, unread, running, problem,  \* Search, of the present scan
    mark,       \* the marking of all hits
    scans, reorders, failures           \* bounds: what there has been of each

list == <<matches, unread, running, problem>>
vars == <<order, walk, scan, list, mark, scans, reorders, failures>>

Hit == [from : Slots, to : Slots, text : Address \X Address]

TypeOK ==
    /\ order \in Seq(Address) /\ IsInjective(order) /\ order # <<>>
    /\ scan \in 0..scans /\ scans \in 0..MaxScans
    /\ DOMAIN walk = 1..MaxScans
    /\ \A g \in 1..MaxScans :
          /\ walk[g].pc \in {"none", "run", "page", "join", "ended"}
          /\ (walk[g].pc = "none") <=> (g > scans)
          /\ walk[g].at \in 1..Len(walk[g].plan) + 1
          /\ walk[g].pc \in {"run", "page", "join"} /\ g = scan => walk[g].asked # <<>>
          /\ Len(walk[g].asked) = Len(walk[g].sources)
    /\ matches \in Seq(Hit) /\ unread \in Nat
    /\ running \in BOOLEAN /\ problem \in BOOLEAN
    /\ mark.at \in {"none", "loading", "given"}

\* A file as it is, or a page less and a page of another, inside it or at its
\* end.
Init ==
    /\ LET file(k) == [n \in 1..k |-> [doc |-> "opened", page |-> n]]
           other == [doc |-> "inserted", page |-> 2]
       IN  order \in {file(Pages)} \cup {InsertAt(file(Pages - 1), i, other) : i \in {2, Pages}}
    /\ walk = [g \in 1..MaxScans |-> NoWalk] /\ scan = 0
    /\ matches = <<>> /\ unread = 0 /\ running = FALSE /\ problem = FALSE
    /\ mark = NoMark /\ scans = 0 /\ reorders = 0 /\ failures = 0

-----------------------------------------------------------------------------
\* The walk.

Addressable(slot) == slot \in DOMAIN order

\* Entry i + 1 can be in one request with entry i: the next slot, and the next
\* page of the same file.
Continues(plan, i) ==
    LET slot == plan[i].page IN
    /\ plan[i + 1].page = slot + 1 /\ Addressable(slot + 1)
    /\ order[slot + 1].doc = order[slot].doc
    /\ order[slot + 1].page = order[slot].page + 1

\* runFrom
RunFrom(plan, at) ==
    LET IsRun(n) == /\ at + n - 1 <= Len(plan)
                    /\ \A i \in at..at + n - 2 : Continues(plan, i)
        n == CHOOSE k \in 1..RunPages : IsRun(k) /\ (k < RunPages => ~IsRun(k + 1))
    IN  [i \in 1..n |-> plan[at + i - 1].page]

\* The tail of the page before goes to the page after it.
CarryInto(carried, slot) == IF carried.page = slot - 1 THEN carried.of ELSE NoPage

\* A request names one file, that of its first slot, and pages of it.
Asks(w, kind, slots) ==
    [w EXCEPT !.pc = kind, !.asked = slots,
              !.sources = [i \in DOMAIN slots |-> [order[slots[i]] EXCEPT !.doc = order[slots[1]].doc]],
              !.carry = CarryInto(w.carried, slots[1])]

\* A run asks, and a page alone where there is no run.
AsksFrom(w, at) ==
    LET slots == RunFrom(w.plan, at)
    IN  Asks([w EXCEPT !.at = at], IF Len(slots) > 1 THEN "run" ELSE "page", slots)

Ended(w) == [w EXCEPT !.pc = "ended", !.asked = <<>>, !.sources = <<>>, !.carry = NoPage]

\* A walk that wrapped has not looked across the break it began behind.
LooksBehind(w) ==
    /\ ~w.scoped /\ Len(w.plan) > 1 /\ w.plan[1].page > 1
    /\ w.carried # NoCarry /\ Addressable(w.plan[1].page)

\* The next request, or the end.  A slot with no page any more is passed over.
Onward(w) ==
    LET left == {i \in w.at..Len(w.plan) : Addressable(w.plan[i].page)} IN
    IF left # {} THEN AsksFrom(w, CHOOSE i \in left : \A j \in left : i <= j)
    ELSE LET past == [w EXCEPT !.at = Len(w.plan) + 1] IN
         IF LooksBehind(past) THEN Asks(past, "join", <<past.plan[1].page>>) ELSE Ended(past)

\* A superseded walk keeps what it asked for, and what it may still ask for: it
\* asks again only after a run.
Superseded(w) ==
    IF w.pc \in {"none", "ended"} THEN [NoWalk EXCEPT !.pc = w.pc]
    ELSE IF w.pc = "run" THEN w ELSE [w EXCEPT !.carried = NoCarry, !.at = 1]

\* A walk at its end says that nothing runs.
Goes(g, w) ==
    /\ walk' = [walk EXCEPT ![g] = IF g = scan THEN w ELSE Superseded(w)]
    /\ running' = (running /\ w.pc # "ended")

-----------------------------------------------------------------------------
\* What a page answers, and what of it is filed.

Own(slot, a) == [from |-> slot, to |-> slot, text |-> <<a, a>>]
Join(slot, before, a) == [from |-> slot - 1, to |-> slot, text |-> <<before, a>>]

\* Entirely inside the scope: measured where it starts and where it ends.
InScope(plan, hit) ==
    LET starts == IF hit.from = hit.to THEN 2 ELSE 4
        ends == IF hit.from = hit.to THEN 3 ELSE 1
    IN  /\ \E e \in Range(plan) : e.page = hit.from /\ starts >= e.from
        /\ \E e \in Range(plan) : e.page = hit.to /\ ends <= e.to

\* joinsOnly
Takes(w, hit) == w.pc = "join" => hit.from # hit.to

\* The backend gives a page of a run the tail of the page asked for before it,
\* when they are neighbours in the file.
Before(w, i) ==
    IF i = 1 THEN w.carry
    ELSE IF w.sources[i].page = w.sources[i - 1].page + 1 THEN w.sources[i - 1] ELSE NoPage

\* The hits of the first n answers, in slots: across the break, then its own.
HitsOf(w, n) ==
    [k \in 1..2 * n |->
        LET i == (k + 1) \div 2 IN
        IF k = 2 * i - 1 THEN Join(w.asked[i], Before(w, i), w.sources[i])
        ELSE Own(w.asked[i], w.sources[i])]

\* file takes what is in scope.
Filed(w, n) ==
    LET hits == HitsOf(w, n)
    IN  Subsequence(hits, {k \in DOMAIN hits :
            hits[k].text[1] # NoPage /\ Takes(w, hits[k]) /\ InScope(w.plan, hits[k])})

After(w, n) ==
    [w EXCEPT !.at = IF w.pc = "join" THEN @ ELSE @ + n,
              !.carried = [page |-> w.asked[n], of |-> w.sources[n]]]

Unanswered(w) ==
    [w EXCEPT !.at = IF w.pc = "join" THEN @ ELSE @ + 1, !.carried = NoCarry]

Resumed(w, rest) == IF w.pc = "join" THEN Ended(rest) ELSE Onward(rest)

Outstanding(g) ==
    /\ walk[g].pc \in {"run", "page", "join"}
    /\ UNCHANGED <<order, scan, mark, scans, reorders>>

\* mutant of Present: a reply is filed whoever asked
AnyReply(g) == TRUE

\* generation === this.generation
Present(g) == g = scan

\* A reply of a prefix of what was asked for.
Reply(g) ==
    LET w == walk[g] IN
    /\ Outstanding(g) /\ Present(g)
    /\ \E n \in 1..Len(w.asked) :
          /\ matches' = matches \o Filed(w, n)
          /\ Goes(g, Resumed(w, After(w, n)))
    /\ UNCHANGED <<unread, problem, failures>>

\* The pattern is not one: every page says so, and the first that answers is
\* enough.
ReplyWithProblem(g) ==
    /\ Outstanding(g) /\ Present(g) /\ walk[g].at = unread + 1
    /\ problem' = TRUE /\ Goes(g, Ended(walk[g]))
    /\ UNCHANGED <<matches, unread, failures>>

\* A reply to a search nobody is running any more.
ReplyTooLate(g) ==
    /\ Outstanding(g) /\ ~Present(g)
    /\ walk' = [walk EXCEPT ![g] = Superseded(Ended(@))]
    /\ UNCHANGED <<list, failures>>

Fails(g) == Outstanding(g) /\ failures < MaxFailures /\ failures' = failures + 1

\* A page that cannot be read is counted and passed over.
PageFails(g) ==
    /\ walk[g].pc # "run" /\ Fails(g)
    /\ IF Present(g)
       THEN /\ unread' = unread + 1
            /\ Goes(g, Resumed(walk[g], Unanswered(walk[g])))
       ELSE walk' = [walk EXCEPT ![g] = Superseded(Ended(@))] /\ UNCHANGED <<unread, running>>
    /\ UNCHANGED <<matches, problem>>

\* A run that fails says nothing of its pages: the first is asked for alone,
\* whoever is searching by now, and passed over if it has gone.
RunFails(g) ==
    LET w == walk[g]
        slot == w.plan[w.at].page
    IN
    /\ w.pc = "run" /\ Fails(g)
    /\ Goes(g, IF Addressable(slot) THEN Asks(w, "page", <<slot>>) ELSE Onward(w))
    /\ UNCHANGED <<matches, unread, problem>>

-----------------------------------------------------------------------------
\* The reader.

Emptied == matches' = <<>>

\* The whole document from a page and round again, or the selection's pages,
\* of which the first and the last may be cut.
Whole(from) ==
    LET n == Len(order) IN [i \in 1..n |-> Entry(((from + i - 2) % n) + 1, 0, Infinity)]

Selection(first, last, from, to) ==
    [i \in 1..last - first + 1 |->
        Entry(first + i - 1, IF i = 1 THEN from ELSE 0,
              IF first + i - 1 = last THEN to ELSE Infinity)]

\* cancel: what was asked for is not withdrawn.
Cancelled == [g \in DOMAIN walk |-> Superseded(walk[g])]

\* run
Search(plan, scoped) ==
    LET g == scans + 1 IN
    /\ scans < MaxScans /\ scans' = g /\ scan' = g
    /\ walk' = [Cancelled EXCEPT ![g] = Onward([NoWalk EXCEPT !.plan = plan, !.scoped = scoped])]
    /\ Emptied /\ unread' = 0 /\ problem' = FALSE /\ running' = TRUE
    /\ UNCHANGED <<order, mark, reorders, failures>>

SearchAll == \E from \in DOMAIN order : Search(Whole(from), FALSE)

SearchSelection ==
    \E first \in DOMAIN order, last \in DOMAIN order, cut \in {<<0, 2>>, <<5, Infinity>>} :
        first <= last /\ Search(Selection(first, last, cut[1], cut[2]), TRUE)

\* clear
Cleared ==
    /\ scan' = 0 /\ walk' = Cancelled /\ running' = FALSE
    /\ Emptied /\ unread' = 0 /\ problem' = FALSE

Clear ==
    /\ scan # 0 /\ Cleared
    /\ UNCHANGED <<order, mark, scans, reorders, failures>>

\* A page is deleted or moved: the viewer adopts the order, and setPages.
Reorder ==
    /\ reorders < MaxReorders /\ reorders' = reorders + 1 /\ Len(order) > 1
    /\ order' \in {RemoveAt(order, i) : i \in DOMAIN order}
                  \cup {Tail(order) \o <<Head(order)>>}
    /\ Cleared
    /\ UNCHANGED <<mark, scans, failures>>

-----------------------------------------------------------------------------
\* Marking every hit.

\* completeForMarking
completeForMarking == ~running /\ unread = 0 /\ Len(matches) <= MaxMatches

\* matchHalves: a hit over a break is a half on each page.
HalvesOf(hits, slot) ==
    {[part |-> IF h.from = h.to THEN "own" ELSE IF h.from = slot THEN "tail" ELSE "head",
      slot |-> slot] : h \in {k \in Range(hits) : slot \in {k.from, k.to}}}

\* The text of the next few slots is asked for, of the pages they draw by now.
Chunk(slots) == SubSeq(slots, 1, IF CopyChunk < Len(slots) THEN CopyChunk ELSE Len(slots))

Loads(slots) == [i \in DOMAIN Chunk(slots) |-> order[slots[i]]]

Mark ==
    LET hit == {s \in DOMAIN order : \E h \in Range(matches) : s \in {h.from, h.to}}
        slots == Subsequence([s \in DOMAIN order |-> s], hit)
    IN
    /\ mark.at = "none" /\ matches # <<>> /\ completeForMarking
    /\ mark' = [at |-> "loading", pages |-> order, hits |-> matches, slots |-> slots,
                texts |-> Loads(slots), out |-> {}]
    /\ UNCHANGED <<order, walk, scan, list, scans, reorders, failures>>

\* mutant of SamePages: the pages are taken to be the same
NeverEdited == TRUE

\* sameOrder
SamePages == order = mark.pages

\* The pages were edited, or one could not be read: nothing is marked.
MarkRefuses ==
    /\ mark.at = "loading"
    /\ \/ ~SamePages /\ UNCHANGED failures
       \/ failures < MaxFailures /\ failures' = failures + 1
    /\ mark' = NoMark
    /\ UNCHANGED <<order, walk, scan, list, scans, reorders>>

MarkLoads ==
    LET rest == SubSeq(mark.slots, Len(mark.texts) + 1, Len(mark.slots))
        found == UNION {{[page |-> mark.pages[h.slot], text |-> mark.texts[i], part |-> h.part] :
                           h \in HalvesOf(mark.hits, mark.slots[i])} : i \in DOMAIN mark.texts}
    IN
    /\ mark.at = "loading" /\ SamePages
    /\ mark' = [mark EXCEPT !.out = @ \cup found, !.slots = rest,
                            !.texts = [i \in DOMAIN Chunk(rest) |->
                                IF rest[i] \in DOMAIN order THEN order[rest[i]] ELSE NoPage],
                            !.at = IF rest = <<>> THEN "given" ELSE "loading"]
    /\ UNCHANGED <<order, walk, scan, list, scans, reorders, failures>>

\* The pages were handed over: they are edits now.
MarkEnds ==
    /\ mark.at = "given" /\ mark' = NoMark
    /\ UNCHANGED <<order, walk, scan, list, scans, reorders, failures>>

WalkStep ==
    \E g \in 1..MaxScans :
        Reply(g) \/ ReplyWithProblem(g) \/ ReplyTooLate(g) \/ PageFails(g) \/ RunFails(g)

Reader == SearchAll \/ SearchSelection \/ Clear \/ Reorder \/ Mark

Next == WalkStep \/ Reader \/ MarkRefuses \/ MarkLoads \/ MarkEnds

Spec == Init /\ [][Next]_vars

-----------------------------------------------------------------------------
\* The hits there are, in the order of the walk: each page's own, and the one
\* that leaves it for the page below.
AllHits(plan) ==
    LET slot(k) == plan[(k + 1) \div 2].page
        hits == [k \in 1..2 * Len(plan) |->
            IF k % 2 = 1 THEN Own(slot(k), order[slot(k)])
            ELSE Join(slot(k) + 1, order[slot(k)],
                      IF slot(k) = Len(order) THEN NoPage ELSE order[slot(k) + 1])]
    IN  Subsequence(hits, {k \in DOMAIN hits :
                               hits[k].text[2] # NoPage /\ InScope(plan, hits[k])})

\* The list is what there is, in reading order from where the search began, each
\* hit once and on the page it is on, however the replies were cut short, late
\* or lost; a page that could not be read hides no hit but its own and the two
\* at its breaks (the comments on matches, Search.generation and visit).
ListIsInReadingOrder ==
    IF scan = 0 THEN matches = <<>> ELSE
    LET all == AllHits(walk[scan].plan) IN
    /\ matches = Subsequence(all, {k \in DOMAIN all : all[k] \in Range(matches)})
    /\ unread = 0 => IsPrefix(matches, all)
    /\ walk[scan].pc = "ended" /\ ~problem => Len(all) <= Len(matches) + 3 * unread

\* What is handed over to be marked is every half of every hit of the list, on
\* the page its text was read from, or nothing, whatever is edited while the
\* pages are loaded (the comments on matchQuadsByPage).
Halves == {[page |-> h.text[1], text |-> h.text[1],
            part |-> IF h.from = h.to THEN "own" ELSE "tail"] : h \in Range(mark.hits)}
          \cup {[page |-> h.text[2], text |-> h.text[2], part |-> "head"] :
                  h \in {k \in Range(mark.hits) : k.from # k.to}}

MarksAreTheHits == mark.at = "given" => mark.out = Halves

\* Every page has been searched before every hit is marked: a list that may be
\* marked is the whole of it (the comment on completeForMarking).
MarkedListIsWhole ==
    matches # <<>> /\ completeForMarking => matches = AllHits(walk[scan].plan)
=============================================================================
