------------------------------- MODULE SaveOver -------------------------------
(***************************************************************************)
(* Saving a document over the file it was opened from, while other         *)
(* programs write to that file and the machine may stop: the order of      *)
(* src-tauri/src/save_order.rs, the two writers of save.rs, the stamp and  *)
(* the deferred hash of fingerprint.rs and edits.rs.                       *)
(*                                                                         *)
(* A file is an inode and what it holds.  Its bytes are a number: 0 is     *)
(* what the reader opened, and each write of another program makes new     *)
(* ones, of the same length or another, under a new modification time or   *)
(* the one the file was opened with.  What a save adds is the tail.  An    *)
(* action is one file operation.                                           *)
(***************************************************************************)
EXTENDS Naturals

CONSTANT MaxForeign     \* bound: writes of other programs

\* Inode 1 was opened, the n-th foreign file is n + 1, the staged file the last.
Inodes == 1..MaxForeign + 2
Staged == MaxForeign + 2
Tails == {"none", "part", "body", "whole", "torn"}
Fingerprint == [bytes : 0..MaxForeign, len : 0..2, modified : 0..MaxForeign]
Original == [bytes |-> 0, len |-> 1, modified |-> 0]
NoPrint == [bytes |-> 0, len |-> 0, modified |-> 0]

InWindow == {"rename", "body", "syncBody", "trailer", "syncTrailer", "reread",
             "cutBack", "name"}
PcValues == InWindow \cup {"idle", "plan", "check", "read", "write", "sync", "close",
                           "verify", "open", "meta", "ended"}

VARIABLES
    file,       \* file[i]: what inode i holds, without the tail of the save
    tail,       \* tail[i]: how much of a save it holds
    named,      \* the inode that has the name; 0: none
    was,        \* the inode that had it before the save's rename
    foreign,    \* the writes other programs have made
    hash,       \* the hash: "waiting", "reading", "read", "taken" or "none"
    print,      \* Open::opened_as, or what has been read of it
    dirty,      \* the model has an unsaved edit
    pc,         \* where the save is
    mode,       \* save::Mode
    verified,   \* Ready::verified: the file as the save found it
    handle,     \* the inode the save has open; 0: none
    staged,     \* the file staged beside the source, and of which bytes it is
    disk,       \* the part of the save that is surely on the disk
    opened,     \* the reader has the document
    ending,     \* how the save ended, and what its message says of the file
    late,       \* another program wrote after the save's last look
    blind,      \* or wrote what a look at length and time could not tell
    running     \* the machine has not stopped

content == <<file, tail, named, was>>
model == <<hash, print, dirty>>
world == <<foreign, late, blind, running>>
vars == <<content, model, world, pc, mode, verified, handle, staged, disk, opened, ending>>

TypeOK ==
    /\ file \in [Inodes -> Fingerprint] /\ tail \in [Inodes -> Tails]
    /\ named \in Inodes \cup {0} /\ was \in Inodes \cup {0} /\ foreign \in 0..MaxForeign
    /\ hash \in {"waiting", "reading", "read", "taken", "none"} /\ print \in Fingerprint
    /\ dirty \in BOOLEAN /\ pc \in PcValues /\ mode \in {"append", "rewrite"}
    /\ verified \in Fingerprint /\ handle \in Inodes \cup {0}
    /\ staged \in [at : {"none", "partial", "whole"}, bytes : 0..MaxForeign]
    /\ disk \in Tails /\ opened \in BOOLEAN
    /\ ending \in [how : {"none", "refused", "afterClose", "saved"},
                   told : {"nothing", "untouched", "putBack", "notPutBack", "elsewhere"}]
    /\ late \in BOOLEAN /\ blind \in BOOLEAN /\ running \in BOOLEAN

NoStaged == [at |-> "none", bytes |-> 0]

\* A document just opened: the hash waits for the first edit, except where
\* documents are copied.
Init ==
    /\ file = [i \in Inodes |-> Original] /\ tail = [i \in Inodes |-> "none"]
    /\ named = 1 /\ was = 0 /\ foreign = 0
    /\ hash \in {"waiting", "reading"} /\ print = NoPrint /\ dirty = FALSE
    /\ pc = "idle" /\ mode = "rewrite" /\ verified = NoPrint /\ handle = 0
    /\ staged = NoStaged /\ disk = "none" /\ opened = TRUE
    /\ ending = [how |-> "none", told |-> "nothing"]
    /\ late = FALSE /\ blind = FALSE /\ running = TRUE

-----------------------------------------------------------------------------
\* Other programs, on what has the name.

Foreign ==
    /\ running /\ pc # "ended" /\ foreign < MaxForeign
    /\ foreign' = foreign + 1 /\ late' = (late \/ pc \in InWindow)
    /\ UNCHANGED <<was, model, running, pc, mode, verified, handle, staged, disk, opened, ending>>

\* Where the save has only the length and the time to go by: until the file is
\* hashed, Moved; from the reading that compares it to the last look, Agrees.
ByStamp(i) ==
    \/ i = 1 /\ hash \in {"waiting", "reading", "read"}
    \/ pc \in {"read", "write", "sync", "close", "verify", "open", "meta"}

\* `cp -p` and `rsync --times` give a file the time it had.
ForeignWrites(i) ==
    \E len \in {1, 2}, modified \in {Original.modified, foreign + 1} :
        /\ file' = [file EXCEPT ![i] =
              [bytes |-> foreign + 1, len |-> len, modified |-> modified]]
        /\ tail' = [tail EXCEPT ![i] = "none"]
        /\ blind' = (blind \/ (len = Original.len /\ modified = Original.modified /\ ByStamp(i)))

RewriteInPlace == Foreign /\ named # 0 /\ ForeignWrites(named) /\ UNCHANGED named

Replace == Foreign /\ named' = foreign + 2 /\ ForeignWrites(named')

Remove == Foreign /\ named # 0 /\ named' = 0 /\ UNCHANGED <<file, tail, blind>>

-----------------------------------------------------------------------------
\* The model of the document, and the thread that hashes the file it was
\* opened from through the handle it was opened with.

Wake == hash' = IF hash = "waiting" THEN "reading" ELSE hash

Others == UNCHANGED <<content, world, mode, verified, handle, staged, disk, opened, ending>>

Edit ==
    /\ running /\ opened /\ ~dirty /\ dirty' = TRUE /\ Wake
    /\ UNCHANGED <<print, pc>> /\ Others

HashReads ==
    /\ running /\ hash = "reading" /\ hash' = "read" /\ print' = file[1]
    /\ UNCHANGED <<dirty, pc>> /\ Others

\* mutant of Moved: the stamp taken at the open is not looked at again
NeverMoved == FALSE

\* Opened::moved: the stamp of the handle is no longer the one taken at the open.
Moved == file[1].len # Original.len \/ file[1].modified # Original.modified

\* The hash is taken, or cannot be.
HashSettles ==
    /\ running /\ hash = "read"
    /\ \/ hash' = "taken" /\ ~Moved
       \/ hash' = "none"
    /\ UNCHANGED <<print, dirty, pc>> /\ Others

-----------------------------------------------------------------------------
Step(from) == running /\ pc = from /\ UNCHANGED world
Goes(to) == pc' = to /\ UNCHANGED ending
Ended(how, what) == pc' = "ended" /\ ending' = [how |-> how, told |-> what]
Refused == Ended("refused", "nothing")

\* save_over: there has to be something to save.
Save ==
    /\ Step("idle")
    /\ IF dirty THEN Goes("plan") ELSE Refused
    /\ UNCHANGED <<content, model, mode, verified, handle, staged, disk, opened>>

\* The plan waits for the hash; a file that cannot be measured is rewritten.
Plan ==
    /\ Step("plan") /\ hash \in {"taken", "none"} /\ Goes("check")
    /\ mode' \in IF named = 0 THEN {"rewrite"} ELSE {"append", "rewrite"}
    /\ UNCHANGED <<content, model, verified, handle, staged, disk, opened>>

\* compare_deeply opens what has the name and measures it ...
Check ==
    /\ Step("check")
    /\ \/ /\ hash = "taken" /\ named # 0 /\ file[named].len = print.len
          /\ verified' = [file[named] EXCEPT !.bytes = 0] /\ handle' = named /\ Goes("read")
       \/ Refused /\ UNCHANGED <<verified, handle>>
    /\ UNCHANGED <<content, model, mode, staged, disk, opened>>

\* ... and then reads it.
Read ==
    /\ Step("read") /\ handle' = 0
    /\ IF file[handle].bytes = print.bytes THEN Goes("write") ELSE Refused
    /\ UNCHANGED <<content, model, mode, verified, staged, disk, opened>>

\* stage opens the file by name once more and rewrites it beside itself; an
\* append is built by a worker, and measured.
Write ==
    /\ Step("write")
    /\ \/ /\ mode = "rewrite" /\ named # 0 /\ Goes("sync")
          /\ staged' = [at |-> "partial", bytes |-> file[named].bytes]
          /\ tail' = [tail EXCEPT ![Staged] = "whole"]
       \/ mode = "append" /\ Goes("close") /\ UNCHANGED <<staged, tail>>
       \/ Refused /\ UNCHANGED <<staged, tail>>
    /\ UNCHANGED <<file, named, was, model, mode, verified, handle, disk, opened>>

\* mutant of Discarded: what failed is left beside the file
LeftBehind == staged

\* remove_file of the staged file
Discarded == NoStaged

\* The inode the save writes to.
Ours == IF mode = "rewrite" THEN Staged ELSE handle

\* mutant of Flushed: what was written is left to the system's buffers
NotFlushed == disk

\* sync_data
Flushed == tail[Ours]

\* The staged file is flushed, or its writing failed.
Sync ==
    /\ Step("sync")
    /\ \/ staged' = [staged EXCEPT !.at = "whole"] /\ disk' = Flushed /\ Goes("close")
       \/ staged' = Discarded /\ UNCHANGED disk /\ Refused
    /\ UNCHANGED <<content, model, mode, verified, handle, opened>>

\* close_model and close_document: the reader has to open it again.
Close ==
    /\ Step("close") /\ opened' = FALSE
    /\ Goes(IF mode = "rewrite" THEN "verify" ELSE "open")
    /\ UNCHANGED <<content, model, mode, verified, handle, staged, disk>>

\* mutant of Agrees: the same length is taken for the same file
AgreesInLength(i) == file[i].len = verified.len

\* agrees_with_metadata
Agrees(i) == file[i].len = verified.len /\ file[i].modified = verified.modified

\* verify_before_commit
Verify ==
    /\ Step("verify")
    /\ IF named # 0 /\ Agrees(named) THEN Goes("rename") /\ UNCHANGED staged
       ELSE staged' = Discarded /\ Ended("afterClose", "untouched")
    /\ UNCHANGED <<content, model, mode, verified, handle, disk, opened>>

\* commit; its retries only make the window longer.  The directory is not
\* flushed: the name may yet be found on the old file.
Rename ==
    /\ Step("rename")
    /\ \/ /\ named' = Staged /\ was' = named
          /\ staged' = NoStaged /\ Ended("saved", "nothing")
          /\ file' = [file EXCEPT ![Staged].bytes = staged.bytes]
       \/ /\ staged' = Discarded /\ Ended("afterClose", "nothing")
          /\ UNCHANGED <<file, named, was>>
    /\ UNCHANGED <<tail, model, mode, verified, handle, disk, opened>>

-----------------------------------------------------------------------------
\* append_in_place: the check, the writes and the roll-back go through one
\* handle.

Landing(from) ==
    /\ Step(from)
    /\ UNCHANGED <<file, named, was, model, mode, verified, staged, opened>>

Open ==
    /\ Landing("open") /\ handle' = named /\ UNCHANGED <<tail, disk>>
    /\ IF named = 0 THEN Ended("afterClose", "nothing") ELSE Goes("meta")

Meta ==
    /\ Landing("meta") /\ UNCHANGED <<tail, disk, handle>>
    /\ \/ Agrees(handle) /\ Goes("body")
       \/ Ended("afterClose", "untouched")

\* mutant of Target: the name is looked up again
ByName == IF named = 0 THEN handle ELSE named

Target == handle

Body ==
    /\ Landing("body") /\ UNCHANGED <<disk, handle>>
    /\ \/ tail' = [tail EXCEPT ![Target] = "body"] /\ Goes("syncBody")
       \/ tail' = [tail EXCEPT ![Target] = "part"] /\ Goes("cutBack")

SyncBody ==
    /\ Landing("syncBody") /\ UNCHANGED <<tail, handle>>
    /\ \/ disk' = Flushed /\ Goes("trailer")
       \/ UNCHANGED disk /\ Goes("cutBack")

\* A few dozen bytes, which land in one sector or not at all.
Trailer ==
    /\ Landing("trailer") /\ UNCHANGED <<disk, handle>>
    /\ \/ /\ tail' = [tail EXCEPT ![Target] = IF @ = "body" THEN "whole" ELSE "torn"]
          /\ Goes("syncTrailer")
       \/ UNCHANGED tail /\ Goes("cutBack")

SyncTrailer ==
    /\ Landing("syncTrailer") /\ UNCHANGED <<tail, handle>>
    /\ \/ disk' = Flushed /\ Goes("reread")
       \/ UNCHANGED disk /\ Goes("cutBack")

Reread ==
    /\ Landing("reread") /\ UNCHANGED <<tail, disk, handle>>
    /\ Goes("name") \/ Goes("cutBack")

CutBack ==
    /\ Landing("cutBack") /\ UNCHANGED <<disk, handle>>
    /\ \/ tail' = [tail EXCEPT ![Target] = "none"] /\ Ended("afterClose", "putBack")
       \/ UNCHANGED tail /\ Ended("afterClose", "notPutBack")

\* The name is asked about last, and nothing is rolled back.
Name ==
    /\ Landing("name") /\ UNCHANGED <<tail, disk, handle>>
    /\ IF named = handle THEN Ended("saved", "nothing") ELSE Ended("afterClose", "elsewhere")

-----------------------------------------------------------------------------
\* What of a tail is found again when d of it was surely on the disk.
Survivors(d, t) ==
    IF d = t THEN {t}
    ELSE IF d = "none" /\ t = "whole" THEN Tails
    ELSE {d, t} \cup (IF "body" \in {d, t} /\ "whole" \notin {d, t} THEN {"part"} ELSE {})

\* The program dies and the machine with it; a rename may not have reached the
\* disk.
Stops ==
    /\ running /\ running' = FALSE
    /\ IF Ours = 0 THEN UNCHANGED tail
       ELSE \E t \in Survivors(disk, tail[Ours]) : tail' = [tail EXCEPT ![Ours] = t]
    /\ named' \in IF mode = "rewrite" /\ ending.how = "saved" THEN {named, was} ELSE {named}
    /\ UNCHANGED <<file, was, model, foreign, late, blind, pc, mode, verified, handle, staged,
                   disk, opened, ending>>

SaveStep ==
    \/ Save \/ Plan \/ Check \/ Read \/ Write \/ Sync \/ Close \/ Verify \/ Rename
    \/ Open \/ Meta \/ Body \/ SyncBody \/ Trailer \/ SyncTrailer \/ Reread \/ CutBack
    \/ Name

Next ==
    \/ RewriteInPlace \/ Replace \/ Remove
    \/ Edit \/ HashReads \/ HashSettles
    \/ SaveStep
    \/ Stops

Spec == Init /\ [][Next]_vars

-----------------------------------------------------------------------------
\* Whenever the machine stops, what has the name is the file it was or the file
\* with the whole of the save: never a trailer whose body is not there (the
\* comments on append_in_place and write_in_two).
OldOrNew == named # 0 /\ ~late => tail[named] # "torn"

\* A save that says it landed landed on the bytes the reader opened: no write of
\* another program is overwritten that was made before the save's last look,
\* whether it came before the hash, under it, between the checks or while the
\* file was staged, unless it kept the length and the time where the code admits
\* that it only looks at these (`blind`: fingerprint.rs, Opened::moved and
\* agrees_shallowly; save.rs, verify_before_commit).  And if the machine stops
\* the file has the whole of the save or, where a rename was lost, is the one
\* the reader opened.
SavedIsWhatWasOpened ==
    ending.how = "saved" /\ ~late =>
        /\ named # 0
        /\ tail[named] = "whole" \/ (~running /\ named = was /\ tail[was] = "none")
        /\ ~blind => file[named].bytes = Original.bytes

Untouched == \A i \in Inodes \ {Staged} : tail[i] = "none"

\* A save that did not land says so truly: a refusal leaves the document open,
\* the file alone and nothing beside it; a failure after the close leaves
\* nothing beside it, and the file as its message says it is.
HonestEnding ==
    /\ ending.how = "refused" => opened /\ Untouched
    /\ ending.how \in {"refused", "afterClose"} => staged.at = "none"
    /\ ending.how = "afterClose" =>
          /\ ~opened
          /\ ending.told \in {"nothing", "untouched"} => Untouched
          /\ ending.told = "putBack" /\ running => Untouched
          /\ ending.told = "elsewhere" /\ named # 0 => tail[named] = "none"
=============================================================================
