---------------------------- MODULE SaveOverProofs ----------------------------
(***************************************************************************)
(* Theorems about SaveOver, for any number of writes of other programs:    *)
(* what has the name is the old file or the new one, a save that landed    *)
(* landed on what was opened, and what the reader is told is true.         *)
(***************************************************************************)
EXTENDS SaveOver, TLAPS

Writing == {"body", "syncBody", "trailer", "syncTrailer", "reread", "name", "cutBack"}
Before == {"idle", "plan", "check", "read", "write"}
Compared == {"write", "sync", "close", "verify", "open", "meta"}

\* The staged file gets the name only when the save is over, and the save has
\* no handle on it before.
NameWhere ==
    /\ named = Staged => ending.how = "saved" /\ mode = "rewrite"
    /\ handle # Staged /\ was # Staged
    /\ pc \in {"read", "meta"} \cup Writing => handle # 0
    /\ pc \in Before => staged = NoStaged
    /\ pc \in Before \cup {"sync"} => disk = "none"
    /\ pc \in {"idle", "plan", "sync", "verify", "rename"} => mode = "rewrite"
    /\ pc \in {"open", "meta"} \cup Writing => mode = "append"
    /\ mode = "append" => staged = NoStaged
    /\ mode = "append" /\ pc \in {"sync", "close", "open", "meta"} => disk = "none"
    /\ (ending.how = "none") <=> (pc # "ended")

\* The document is open until the save closes it.
OpenWhere == opened <=> (pc \in Before \cup {"sync", "close"} \/ ending.how = "refused")

\* A write of another program leaves its mark in the bytes.
WriteShows == \A i \in Inodes \ {Staged} : file[i] = Original \/ file[i].bytes # 0

\* The length and the time are those of the file as it was opened.
StampKept(i) == file[i].len = Original.len /\ file[i].modified = Original.modified

\* Where the save has the length and the time to go by, they tell.
StampTells(i) == file[i] = Original \/ ~StampKept(i)

\* A hash that was taken is that of the file as it was opened.
HashIsOfOriginal ==
    /\ ~blind /\ hash \in {"waiting", "reading", "read"} => StampTells(1)
    /\ ~blind /\ hash = "read" => print = Original \/ ~StampKept(1)
    /\ ~blind /\ hash = "taken" => print = Original

\* What the save compared is the file as it was opened, and what has the name
\* since then is that file or can be told from it.
ComparedIsOriginal ==
    /\ pc = "read" /\ ~blind =>
          /\ hash = "taken" /\ (named \in {0, handle} \/ ~StampKept(named))
          /\ file[handle] = Original => verified.modified = 0 /\ verified.len = 1
    /\ pc \in Compared /\ ~blind =>
          /\ verified.modified = 0 /\ verified.len = 1
          /\ named # 0 => StampTells(named)
          /\ pc = "meta" => StampTells(handle)

\* So is what it staged, unless another file has the name by now; and what the
\* rename replaces.
StagedIsOriginal ==
    /\ mode = "rewrite" /\ pc \in {"sync", "close", "verify"} /\ ~blind /\ named # 0
          /\ file[named] = Original => staged.bytes = 0
    /\ pc = "rename" /\ ~blind => staged.bytes = 0
    /\ pc = "rename" /\ ~late => named # 0 /\ (~blind => file[named] = Original)
    /\ mode = "rewrite" /\ running /\ pc \in {"sync", "close", "verify", "rename"}
          => tail[Staged] = "whole"
    /\ mode = "rewrite" /\ pc \in {"close", "verify", "rename"} => disk = "whole"

\* Of the files that are not the staged one only the one appended to has a
\* tail, and not before the append.
TailWhere ==
    /\ \A i \in Inodes \ {Staged} :
          mode = "rewrite" \/ i # handle => tail[i] = "none"
    /\ pc \in Before \cup {"sync", "close", "open", "meta"} => Untouched

\* How much of a tail may be in the buffers when d of it is on the disk.
Sound(d, t) ==
    \/ d = "none" /\ t \in {"none", "part", "body"}
    \/ d = "body" /\ t \in {"none", "body", "whole"}
    \/ d = "whole" /\ t \in {"none", "whole"}

\* While nobody else writes, the append goes on as it was meant to.
AppendInOrder ==
    mode = "append" /\ handle # 0 /\ ~late =>
        /\ tail[handle] # "torn"
        /\ running => Sound(disk, tail[handle])
        /\ pc \in Writing /\ ~blind => file[handle] = Original
        /\ running =>
              /\ pc = "body" => tail[handle] = "none" /\ disk = "none"
              /\ pc \in {"syncBody", "trailer"} => tail[handle] = "body"
              /\ pc = "trailer" => disk = "body"
              /\ pc = "syncTrailer" => tail[handle] = "whole" /\ disk = "body"
              /\ pc \in {"reread", "name"} => tail[handle] = "whole" /\ disk = "whole"

\* A save that ended well put the whole of itself on the disk, on what was
\* opened; where its rename was lost the old file has the name.
SavedWhole ==
    ending.how = "saved" /\ ~late =>
        /\ Ours # 0 /\ tail[Ours] = "whole" /\ disk = "whole"
        /\ ~blind => file[Ours].bytes = 0
        /\ mode = "append" => named = Ours
        /\ mode = "rewrite" =>
              /\ named = Ours \/ (~running /\ named = was)
              /\ was # 0 /\ (~blind => file[was].bytes = 0)

\* A save that did not says of the file what is so.
ToldTruly ==
    /\ ending.how = "refused" => Untouched /\ disk = "none"
    /\ ending.how \in {"refused", "afterClose"} => staged.at = "none"
    /\ ending.how = "afterClose" =>
          /\ ending.told \in {"nothing", "untouched"} =>
                Untouched /\ (mode = "append" => disk = "none")
          /\ ending.told = "putBack" /\ running => Untouched
          /\ ending.told = "elsewhere" => mode = "append" /\ named # handle

SaveInv ==
    /\ TypeOK /\ NameWhere /\ OpenWhere /\ WriteShows /\ HashIsOfOriginal /\ ComparedIsOriginal
    /\ StagedIsOriginal /\ TailWhere /\ AppendInOrder /\ SavedWhole /\ ToldTruly

-----------------------------------------------------------------------------
LEMMA InodeFacts ==
    ASSUME MaxForeign \in Nat
    PROVE  /\ Staged \in Inodes /\ 1 \in Inodes \ {Staged} /\ 0 \notin Inodes
           /\ \A n \in 0..MaxForeign : n < MaxForeign =>
                 n + 1 \in 1..MaxForeign /\ n + 2 \in Inodes \ {Staged}
    BY DEF Inodes, Staged

\* What another program does leaves no tail of the save in the file it writes.
LEMMA ForeignFacts ==
    ASSUME MaxForeign \in Nat, TypeOK, RewriteInPlace \/ Replace \/ Remove
    PROVE  /\ \A i \in Inodes : tail'[i] \in {tail[i], "none"}
           /\ (blind => blind') /\ was' = was
           /\ pc # "ended" /\ (pc \in InWindow => late') /\ (late => late')
           /\ UNCHANGED <<model, running, pc, mode, verified, handle, staged, disk, opened, ending>>
<1>1. PICK k \in Inodes : UNCHANGED tail \/ tail' = [tail EXCEPT ![k] = "none"]
  BY InodeFacts DEF RewriteInPlace, Replace, Remove, Foreign, ForeignWrites, TypeOK
<1>2. \A i \in Inodes : tail'[i] \in {tail[i], "none"}
  BY <1>1 DEF TypeOK
<1>3. (blind => blind') /\ was' = was
  <2>1. was' = was
    BY DEF RewriteInPlace, Replace, Remove, Foreign
  <2>2. \/ blind' = blind
        \/ ForeignWrites(named) \/ ForeignWrites(named')
    BY DEF RewriteInPlace, Replace, Remove
  <2>3. blind => blind'
    BY <2>2 DEF ForeignWrites
  <2> QED  BY <2>1, <2>3
<1> QED  BY <1>2, <1>3 DEF RewriteInPlace, Replace, Remove, Foreign

\* What it writes has bytes of its own, and a length or a time of its own where
\* nothing else is looked at.
LEMMA WriteFacts ==
    ASSUME MaxForeign \in Nat, TypeOK, Foreign, NEW i \in Inodes, ForeignWrites(i)
    PROVE  /\ file' \in [Inodes -> Fingerprint] /\ file'[i].bytes # 0
           /\ \A j \in Inodes : j # i => file'[j] = file[j] /\ tail'[j] = tail[j]
           /\ blind' \in BOOLEAN /\ (blind => blind')
           /\ ByStamp(i) /\ StampKept(i)' => blind'
           /\ file'[i] # Original
<1>1. PICK len \in {1, 2}, modified \in {0, foreign + 1} :
         /\ file' = [file EXCEPT ![i] =
               [bytes |-> foreign + 1, len |-> len, modified |-> modified]]
         /\ blind' = (blind \/ (len = 1 /\ modified = 0 /\ ByStamp(i)))
  BY DEF ForeignWrites, Original
<1>2. foreign + 1 \in 1..MaxForeign
  BY InodeFacts DEF Foreign, TypeOK
<1>3. [bytes |-> foreign + 1, len |-> len, modified |-> modified] \in Fingerprint
  BY <1>2 DEF Fingerprint
<1>4. file' \in [Inodes -> Fingerprint] /\ \A j \in Inodes : j # i => file'[j] = file[j]
  BY <1>1, <1>3 DEF TypeOK
<1>9. \A j \in Inodes : j # i => tail'[j] = tail[j]
  BY DEF ForeignWrites, TypeOK
<1>5. file'[i] = [bytes |-> foreign + 1, len |-> len, modified |-> modified]
  BY <1>1 DEF TypeOK
<1>6. file'[i].bytes # 0 /\ file'[i] # Original
  BY <1>2, <1>5 DEF Original
<1>7. blind' \in BOOLEAN /\ (blind => blind')
  BY <1>1 DEF TypeOK
<1>8. StampKept(i)' => len = 1 /\ modified = 0
  BY <1>5 DEF StampKept, Original
<1> QED  BY <1>1, <1>4, <1>6, <1>7, <1>8, <1>9

-----------------------------------------------------------------------------
\* Types, by what they are about.
StagedFile == [at : {"none", "partial", "whole"}, bytes : 0..MaxForeign]
Ending == [how : {"none", "refused", "afterClose", "saved"},
           told : {"nothing", "untouched", "putBack", "notPutBack", "elsewhere"}]

FilesTyped ==
    /\ file \in [Inodes -> Fingerprint] /\ tail \in [Inodes -> Tails]
    /\ named \in Inodes \cup {0} /\ was \in Inodes \cup {0} /\ foreign \in 0..MaxForeign
ControlTyped ==
    /\ hash \in {"waiting", "reading", "read", "taken", "none"}
    /\ pc \in PcValues /\ mode \in {"append", "rewrite"}
    /\ handle \in Inodes \cup {0} /\ disk \in Tails
RecordsTyped ==
    /\ print \in Fingerprint /\ verified \in Fingerprint
    /\ staged \in StagedFile /\ ending \in Ending
FlagsTyped ==
    /\ dirty \in BOOLEAN /\ opened \in BOOLEAN /\ late \in BOOLEAN /\ blind \in BOOLEAN
    /\ running \in BOOLEAN

LEMMA TypeParts == TypeOK <=> FilesTyped /\ ControlTyped /\ RecordsTyped /\ FlagsTyped
  BY DEF TypeOK, FilesTyped, ControlTyped, RecordsTyped, FlagsTyped, StagedFile, Ending

LEMMA RecordFacts ==
    ASSUME MaxForeign \in Nat
    PROVE  /\ NoStaged \in StagedFile /\ Original \in Fingerprint
           /\ \A p \in Fingerprint : p.bytes \in 0..MaxForeign /\ [p EXCEPT !.bytes = 0] \in Fingerprint
           /\ \A p \in Fingerprint, n \in 0..MaxForeign : [p EXCEPT !.bytes = n] \in Fingerprint
           /\ \A n \in 0..MaxForeign : [at |-> "partial", bytes |-> n] \in StagedFile
           /\ \A s \in StagedFile : s.bytes \in 0..MaxForeign /\ [s EXCEPT !.at = "whole"] \in StagedFile
           /\ \A how \in {"none", "refused", "afterClose", "saved"} :
              \A told \in {"nothing", "untouched", "putBack", "notPutBack", "elsewhere"} :
                 [how |-> how, told |-> told] \in Ending
  BY DEF NoStaged, StagedFile, Fingerprint, Original, Ending

LEMMA FilesTypedStep ==
    ASSUME MaxForeign \in Nat, FilesTyped, ControlTyped, RecordsTyped, [Next]_vars
    PROVE  FilesTyped'
<1> USE InodeFacts, RecordFacts DEF FilesTyped, ControlTyped, RecordsTyped, Fingerprint,
           Tails, StagedFile, Step, Goes, Ended, Refused, Landing, Foreign, world,
           content, model
<1>1. CASE RewriteInPlace
  BY <1>1 DEF RewriteInPlace, ForeignWrites
<1>2. CASE Replace
  BY <1>2 DEF Replace, ForeignWrites
<1>3. CASE Remove
  BY <1>3 DEF Remove
<1>4. CASE Edit
  BY <1>4 DEF Edit, Wake, Others
<1>5. CASE HashReads
  BY <1>5 DEF HashReads, Others
<1>6. CASE HashSettles
  BY <1>6 DEF HashSettles, Others, Moved
<1>7. CASE Save
  BY <1>7 DEF Save
<1>8. CASE Plan
  BY <1>8 DEF Plan
<1>9. CASE Check
  BY <1>9 DEF Check
<1>10. CASE Read
  BY <1>10 DEF Read
<1>11. CASE Write
  BY ZenonT(30), <1>11 DEF Write
<1>12. CASE Sync
  BY <1>12 DEF Sync, Discarded, Flushed, Ours
<1>13. CASE Close
  BY <1>13 DEF Close
<1>14. CASE Verify
  BY <1>14 DEF Verify, Discarded, Agrees
<1>15. CASE Rename
  <2>1. /\ tail' = tail /\ UNCHANGED foreign
        /\ named' \in {named, Staged} /\ was' \in {was, named}
        /\ file' = file \/ file' = [file EXCEPT ![Staged] = [file[Staged] EXCEPT !.bytes = staged.bytes]]
    BY <1>15 DEF Rename
  <2>2. file[Staged] \in Fingerprint /\ staged.bytes \in 0..MaxForeign
    OBVIOUS
  <2>3. [file[Staged] EXCEPT !.bytes = staged.bytes] \in Fingerprint
    BY <2>2
  <2> HIDE DEF Fingerprint
  <2>4. file' \in [Inodes -> Fingerprint]
    BY ZenonT(30), <2>1, <2>3
  <2> QED  BY <2>1, <2>4
<1>16. CASE Open
  BY <1>16 DEF Open
<1>17. CASE Meta
  BY <1>17 DEF Meta, Agrees
<1>18. CASE Body
  <2>1. \/ tail' = tail
        \/ \E s \in Tails : tail' = [tail EXCEPT ![handle] = s]
    BY <1>18 DEF Body, Target, Tails
  <2>2. tail' \in [Inodes -> Tails]
    BY <2>1
  <2> QED  BY <1>18, <2>2 DEF Body
<1>19. CASE SyncBody
  BY <1>19 DEF SyncBody, Flushed, Ours
<1>20. CASE Trailer
  <2>1. \/ tail' = tail
        \/ \E s \in Tails : tail' = [tail EXCEPT ![handle] = s]
    BY <1>20 DEF Trailer, Target, Tails
  <2>2. tail' \in [Inodes -> Tails]
    BY <2>1
  <2> QED  BY <1>20, <2>2 DEF Trailer
<1>21. CASE SyncTrailer
  BY <1>21 DEF SyncTrailer, Flushed, Ours
<1>22. CASE Reread
  BY <1>22 DEF Reread
<1>23. CASE CutBack
  <2>1. \/ tail' = tail
        \/ \E s \in Tails : tail' = [tail EXCEPT ![handle] = s]
    BY <1>23 DEF CutBack, Target, Tails
  <2>2. tail' \in [Inodes -> Tails]
    BY <2>1
  <2> QED  BY <1>23, <2>2 DEF CutBack
<1>24. CASE Name
  BY <1>24 DEF Name
<1>25. CASE Stops
  <2>1. \/ tail' = tail
        \/ \E s \in Tails : tail' = [tail EXCEPT ![Ours] = s]
    BY <1>25 DEF Stops, Survivors, Tails
  <2>2. tail' \in [Inodes -> Tails]
    BY ZenonT(30), <2>1
  <2> QED  BY <1>25, <2>2 DEF Stops
<1>26. CASE UNCHANGED vars
  BY <1>26 DEF vars
<1> QED  BY <1>1, <1>2, <1>3, <1>4, <1>5, <1>6, <1>7, <1>8, <1>9, <1>10, <1>11, <1>12,
            <1>13, <1>14, <1>15, <1>16, <1>17, <1>18, <1>19, <1>20, <1>21, <1>22, <1>23,
            <1>24, <1>25, <1>26 DEF Next, SaveStep

LEMMA ControlTypedStep ==
    ASSUME MaxForeign \in Nat, FilesTyped, ControlTyped, NameWhere, [Next]_vars
    PROVE  ControlTyped'
<1> USE InodeFacts DEF ControlTyped, FilesTyped, Tails, PcValues, InWindow, NameWhere,
           Writing, Before, Step, Goes, Ended, Refused, Landing, Foreign, world,
           content, model
<1>1. CASE RewriteInPlace
  BY <1>1 DEF RewriteInPlace, ForeignWrites
<1>2. CASE Replace
  BY <1>2 DEF Replace, ForeignWrites
<1>3. CASE Remove
  BY <1>3 DEF Remove
<1>4. CASE Edit
  BY <1>4 DEF Edit, Wake, Others
<1>5. CASE HashReads
  BY <1>5 DEF HashReads, Others
<1>6. CASE HashSettles
  BY <1>6 DEF HashSettles, Others, Moved
<1>7. CASE Save
  BY <1>7 DEF Save
<1>8. CASE Plan
  BY <1>8 DEF Plan
<1>9. CASE Check
  BY <1>9 DEF Check
<1>10. CASE Read
  BY <1>10 DEF Read
<1>11. CASE Write
  BY <1>11 DEF Write
<1>12. CASE Sync
  BY <1>12 DEF Sync, Discarded, Flushed, Ours
<1>13. CASE Close
  BY <1>13 DEF Close
<1>14. CASE Verify
  BY <1>14 DEF Verify, Discarded, Agrees
<1>15. CASE Rename
  BY <1>15 DEF Rename, Discarded
<1>16. CASE Open
  BY <1>16 DEF Open
<1>17. CASE Meta
  BY <1>17 DEF Meta, Agrees
<1>18. CASE Body
  BY <1>18 DEF Body, Target
<1>19. CASE SyncBody
  BY <1>19 DEF SyncBody, Flushed, Ours
<1>20. CASE Trailer
  BY <1>20 DEF Trailer, Target
<1>21. CASE SyncTrailer
  BY <1>21 DEF SyncTrailer, Flushed, Ours
<1>22. CASE Reread
  BY <1>22 DEF Reread
<1>23. CASE CutBack
  BY <1>23 DEF CutBack, Target
<1>24. CASE Name
  BY <1>24 DEF Name
<1>25. CASE Stops
  BY <1>25 DEF Stops, Survivors, Ours
<1>26. CASE UNCHANGED vars
  BY <1>26 DEF vars
<1> QED  BY <1>1, <1>2, <1>3, <1>4, <1>5, <1>6, <1>7, <1>8, <1>9, <1>10, <1>11, <1>12,
            <1>13, <1>14, <1>15, <1>16, <1>17, <1>18, <1>19, <1>20, <1>21, <1>22, <1>23,
            <1>24, <1>25, <1>26 DEF Next, SaveStep

LEMMA RecordsTypedStep ==
    ASSUME MaxForeign \in Nat, FilesTyped, ControlTyped, RecordsTyped, NameWhere, [Next]_vars
    PROVE  RecordsTyped'
<1> USE InodeFacts, RecordFacts DEF RecordsTyped, FilesTyped, NameWhere, Before,
           Writing, Step, Goes, Ended, Refused, Landing, Foreign, world, content, model
<1>1. CASE RewriteInPlace
  BY <1>1 DEF RewriteInPlace, ForeignWrites
<1>2. CASE Replace
  BY <1>2 DEF Replace, ForeignWrites
<1>3. CASE Remove
  BY <1>3 DEF Remove
<1>4. CASE Edit
  BY <1>4 DEF Edit, Wake, Others
<1>5. CASE HashReads
  BY <1>5 DEF HashReads, Others
<1>6. CASE HashSettles
  BY <1>6 DEF HashSettles, Others, Moved
<1>7. CASE Save
  BY <1>7 DEF Save
<1>8. CASE Plan
  BY <1>8 DEF Plan
<1>9. CASE Check
  BY <1>9 DEF Check
<1>10. CASE Read
  BY <1>10 DEF Read
<1>11. CASE Write
  <2>1. /\ UNCHANGED <<print, verified>> /\ ending' \in {ending, [how |-> "refused", told |-> "nothing"]}
        /\ \/ staged' = staged
           \/ named \in Inodes /\ staged' = [at |-> "partial", bytes |-> file[named].bytes]
    BY <1>11 DEF Write
  <2>2. named \in Inodes => file[named].bytes \in 0..MaxForeign
    BY DEF Fingerprint
  <2> QED  BY <2>1, <2>2
<1>12. CASE Sync
  BY <1>12 DEF Sync, Discarded, Flushed, Ours
<1>13. CASE Close
  BY <1>13 DEF Close
<1>14. CASE Verify
  BY <1>14 DEF Verify, Discarded, Agrees
<1>15. CASE Rename
  BY <1>15 DEF Rename, Discarded
<1>16. CASE Open
  BY <1>16 DEF Open
<1>17. CASE Meta
  BY <1>17 DEF Meta, Agrees
<1>18. CASE Body
  BY <1>18 DEF Body, Target
<1>19. CASE SyncBody
  BY <1>19 DEF SyncBody, Flushed, Ours
<1>20. CASE Trailer
  BY <1>20 DEF Trailer, Target
<1>21. CASE SyncTrailer
  BY <1>21 DEF SyncTrailer, Flushed, Ours
<1>22. CASE Reread
  BY <1>22 DEF Reread
<1>23. CASE CutBack
  BY <1>23 DEF CutBack, Target
<1>24. CASE Name
  BY <1>24 DEF Name
<1>25. CASE Stops
  BY <1>25 DEF Stops, Survivors, Ours
<1>26. CASE UNCHANGED vars
  BY <1>26 DEF vars
<1> QED  BY <1>1, <1>2, <1>3, <1>4, <1>5, <1>6, <1>7, <1>8, <1>9, <1>10, <1>11, <1>12,
            <1>13, <1>14, <1>15, <1>16, <1>17, <1>18, <1>19, <1>20, <1>21, <1>22, <1>23,
            <1>24, <1>25, <1>26 DEF Next, SaveStep

LEMMA FlagsTypedStep ==
    ASSUME MaxForeign \in Nat, FlagsTyped, [Next]_vars
    PROVE  FlagsTyped'
<1> USE InodeFacts DEF FlagsTyped, Step, Goes, Ended, Refused, Landing, Foreign, world,
           content, model
<1>1. CASE RewriteInPlace
  BY <1>1 DEF RewriteInPlace, ForeignWrites
<1>2. CASE Replace
  BY <1>2 DEF Replace, ForeignWrites
<1>3. CASE Remove
  BY <1>3 DEF Remove
<1>4. CASE Edit
  BY <1>4 DEF Edit, Wake, Others
<1>5. CASE HashReads
  BY <1>5 DEF HashReads, Others
<1>6. CASE HashSettles
  BY <1>6 DEF HashSettles, Others, Moved
<1>7. CASE Save
  BY <1>7 DEF Save
<1>8. CASE Plan
  BY <1>8 DEF Plan
<1>9. CASE Check
  BY <1>9 DEF Check
<1>10. CASE Read
  BY <1>10 DEF Read
<1>11. CASE Write
  BY <1>11 DEF Write
<1>12. CASE Sync
  BY <1>12 DEF Sync, Discarded, Flushed, Ours
<1>13. CASE Close
  BY <1>13 DEF Close
<1>14. CASE Verify
  BY <1>14 DEF Verify, Discarded, Agrees
<1>15. CASE Rename
  BY <1>15 DEF Rename, Discarded
<1>16. CASE Open
  BY <1>16 DEF Open
<1>17. CASE Meta
  BY <1>17 DEF Meta, Agrees
<1>18. CASE Body
  BY <1>18 DEF Body, Target
<1>19. CASE SyncBody
  BY <1>19 DEF SyncBody, Flushed, Ours
<1>20. CASE Trailer
  BY <1>20 DEF Trailer, Target
<1>21. CASE SyncTrailer
  BY <1>21 DEF SyncTrailer, Flushed, Ours
<1>22. CASE Reread
  BY <1>22 DEF Reread
<1>23. CASE CutBack
  BY <1>23 DEF CutBack, Target
<1>24. CASE Name
  BY <1>24 DEF Name
<1>25. CASE Stops
  BY <1>25 DEF Stops, Survivors, Ours
<1>26. CASE UNCHANGED vars
  BY <1>26 DEF vars
<1> QED  BY <1>1, <1>2, <1>3, <1>4, <1>5, <1>6, <1>7, <1>8, <1>9, <1>10, <1>11, <1>12,
            <1>13, <1>14, <1>15, <1>16, <1>17, <1>18, <1>19, <1>20, <1>21, <1>22, <1>23,
            <1>24, <1>25, <1>26 DEF Next, SaveStep

-----------------------------------------------------------------------------
\* The parts of the invariant, one after the other: each rests on those before it.
LEMMA NameWhereStep ==
    ASSUME MaxForeign \in Nat, TypeOK, NameWhere, [Next]_vars
    PROVE  NameWhere'
<1> USE InodeFacts DEF NameWhere, TypeOK, PcValues, InWindow, Before, Writing, NoStaged,
           Step, Goes, Ended, Refused, Landing, Foreign, world, content, model
<1>1. CASE RewriteInPlace
  BY <1>1 DEF RewriteInPlace, ForeignWrites
<1>2. CASE Replace
  BY <1>2 DEF Replace, ForeignWrites
<1>3. CASE Remove
  BY <1>3 DEF Remove
<1>4. CASE Edit
  BY <1>4 DEF Edit, Wake, Others
<1>5. CASE HashReads
  BY <1>5 DEF HashReads, Others
<1>6. CASE HashSettles
  BY <1>6 DEF HashSettles, Others, Moved
<1>7. CASE Save
  BY <1>7 DEF Save
<1>8. CASE Plan
  BY <1>8 DEF Plan
<1>9. CASE Check
  BY <1>9 DEF Check
<1>10. CASE Read
  BY <1>10 DEF Read
<1>11. CASE Write
  BY <1>11 DEF Write
<1>12. CASE Sync
  BY <1>12 DEF Sync, Discarded, Flushed, Ours
<1>13. CASE Close
  BY <1>13 DEF Close
<1>14. CASE Verify
  BY <1>14 DEF Verify, Discarded, Agrees
<1>15. CASE Rename
  BY <1>15 DEF Rename, Discarded
<1>16. CASE Open
  BY <1>16 DEF Open
<1>17. CASE Meta
  BY <1>17 DEF Meta, Agrees
<1>18. CASE Body
  BY <1>18 DEF Body, Target
<1>19. CASE SyncBody
  BY <1>19 DEF SyncBody, Flushed, Ours
<1>20. CASE Trailer
  BY <1>20 DEF Trailer, Target
<1>21. CASE SyncTrailer
  BY <1>21 DEF SyncTrailer, Flushed, Ours
<1>22. CASE Reread
  BY <1>22 DEF Reread
<1>23. CASE CutBack
  BY <1>23 DEF CutBack, Target
<1>24. CASE Name
  BY <1>24 DEF Name
<1>25. CASE Stops
  BY <1>25 DEF Stops, Survivors, Ours
<1>26. CASE UNCHANGED vars
  BY <1>26 DEF vars
<1> QED  BY <1>1, <1>2, <1>3, <1>4, <1>5, <1>6, <1>7, <1>8, <1>9, <1>10, <1>11, <1>12,
            <1>13, <1>14, <1>15, <1>16, <1>17, <1>18, <1>19, <1>20, <1>21, <1>22, <1>23,
            <1>24, <1>25, <1>26 DEF Next, SaveStep

LEMMA OpenWhereStep ==
    ASSUME MaxForeign \in Nat, TypeOK, NameWhere, OpenWhere, [Next]_vars
    PROVE  OpenWhere'
<1> USE InodeFacts DEF OpenWhere, NameWhere, Before, Writing, NoStaged, Step, Goes,
           Ended, Refused, Landing, Foreign, world, content, model
<1>1. CASE RewriteInPlace
  BY <1>1 DEF RewriteInPlace, ForeignWrites
<1>2. CASE Replace
  BY <1>2 DEF Replace, ForeignWrites
<1>3. CASE Remove
  BY <1>3 DEF Remove
<1>4. CASE Edit
  BY <1>4 DEF Edit, Wake, Others
<1>5. CASE HashReads
  BY <1>5 DEF HashReads, Others
<1>6. CASE HashSettles
  BY <1>6 DEF HashSettles, Others, Moved
<1>7. CASE Save
  BY <1>7 DEF Save
<1>8. CASE Plan
  BY <1>8 DEF Plan
<1>9. CASE Check
  BY <1>9 DEF Check
<1>10. CASE Read
  BY <1>10 DEF Read
<1>11. CASE Write
  BY <1>11 DEF Write
<1>12. CASE Sync
  BY <1>12 DEF Sync, Discarded, Flushed, Ours
<1>13. CASE Close
  BY <1>13 DEF Close
<1>14. CASE Verify
  BY <1>14 DEF Verify, Discarded, Agrees
<1>15. CASE Rename
  BY <1>15 DEF Rename, Discarded
<1>16. CASE Open
  BY <1>16 DEF Open
<1>17. CASE Meta
  BY <1>17 DEF Meta, Agrees
<1>18. CASE Body
  BY <1>18 DEF Body, Target
<1>19. CASE SyncBody
  BY <1>19 DEF SyncBody, Flushed, Ours
<1>20. CASE Trailer
  BY <1>20 DEF Trailer, Target
<1>21. CASE SyncTrailer
  BY <1>21 DEF SyncTrailer, Flushed, Ours
<1>22. CASE Reread
  BY <1>22 DEF Reread
<1>23. CASE CutBack
  BY <1>23 DEF CutBack, Target
<1>24. CASE Name
  BY <1>24 DEF Name
<1>25. CASE Stops
  BY <1>25 DEF Stops, Survivors, Ours
<1>26. CASE UNCHANGED vars
  BY <1>26 DEF vars
<1> QED  BY <1>1, <1>2, <1>3, <1>4, <1>5, <1>6, <1>7, <1>8, <1>9, <1>10, <1>11, <1>12,
            <1>13, <1>14, <1>15, <1>16, <1>17, <1>18, <1>19, <1>20, <1>21, <1>22, <1>23,
            <1>24, <1>25, <1>26 DEF Next, SaveStep

LEMMA WriteShowsStep ==
    ASSUME MaxForeign \in Nat, TypeOK, NameWhere, WriteShows, [Next]_vars
    PROVE  WriteShows'
<1> USE InodeFacts DEF WriteShows, TypeOK, NameWhere, Before, Writing, NoStaged,
           Original, NoPrint, Fingerprint, Step, Goes, Ended, Refused, Landing, Foreign,
           world, content, model
<1>1. CASE RewriteInPlace
  BY <1>1 DEF RewriteInPlace, ForeignWrites
<1>2. CASE Replace
  BY <1>2 DEF Replace, ForeignWrites
<1>3. CASE Remove
  BY <1>3 DEF Remove
<1>4. CASE Edit
  BY <1>4 DEF Edit, Wake, Others
<1>5. CASE HashReads
  BY <1>5 DEF HashReads, Others
<1>6. CASE HashSettles
  BY <1>6 DEF HashSettles, Others, Moved
<1>7. CASE Save
  BY <1>7 DEF Save
<1>8. CASE Plan
  BY <1>8 DEF Plan
<1>9. CASE Check
  BY <1>9 DEF Check
<1>10. CASE Read
  BY <1>10 DEF Read
<1>11. CASE Write
  BY <1>11 DEF Write
<1>12. CASE Sync
  BY <1>12 DEF Sync, Discarded, Flushed, Ours
<1>13. CASE Close
  BY <1>13 DEF Close
<1>14. CASE Verify
  BY <1>14 DEF Verify, Discarded, Agrees
<1>15. CASE Rename
  BY <1>15 DEF Rename, Discarded
<1>16. CASE Open
  BY <1>16 DEF Open
<1>17. CASE Meta
  BY <1>17 DEF Meta, Agrees
<1>18. CASE Body
  BY <1>18 DEF Body, Target
<1>19. CASE SyncBody
  BY <1>19 DEF SyncBody, Flushed, Ours
<1>20. CASE Trailer
  BY <1>20 DEF Trailer, Target
<1>21. CASE SyncTrailer
  BY <1>21 DEF SyncTrailer, Flushed, Ours
<1>22. CASE Reread
  BY <1>22 DEF Reread
<1>23. CASE CutBack
  BY <1>23 DEF CutBack, Target
<1>24. CASE Name
  BY <1>24 DEF Name
<1>25. CASE Stops
  BY <1>25 DEF Stops, Survivors, Ours
<1>26. CASE UNCHANGED vars
  BY <1>26 DEF vars
<1> QED  BY <1>1, <1>2, <1>3, <1>4, <1>5, <1>6, <1>7, <1>8, <1>9, <1>10, <1>11, <1>12,
            <1>13, <1>14, <1>15, <1>16, <1>17, <1>18, <1>19, <1>20, <1>21, <1>22, <1>23,
            <1>24, <1>25, <1>26 DEF Next, SaveStep

LEMMA HashIsOfOriginalStep ==
    ASSUME MaxForeign \in Nat, TypeOK, WriteShows, HashIsOfOriginal, [Next]_vars
    PROVE  HashIsOfOriginal'
<1> USE InodeFacts DEF StampTells, StampKept, HashIsOfOriginal, TypeOK, WriteShows, Original, NoPrint,
           Fingerprint, Step, Goes, Ended, Refused, Landing, Foreign, world, content,
           model
<1>1. CASE RewriteInPlace
  <2>1. named \in Inodes /\ named' = named /\ Foreign /\ ForeignWrites(named)
    BY <1>1 DEF RewriteInPlace
  <2> QED  BY <2>1, WriteFacts DEF ByStamp
<1>2. CASE Replace
  <2>1. named' = foreign + 2 /\ foreign + 2 \in Inodes \ {Staged}
        /\ foreign + 2 # 1 /\ Foreign /\ ForeignWrites(foreign + 2)
    BY <1>2 DEF Replace
  <2> QED  BY <2>1, WriteFacts DEF ByStamp
<1>3. CASE Remove
  BY <1>3 DEF Remove
<1>4. CASE Edit
  BY <1>4 DEF Edit, Wake, Others
<1>5. CASE HashReads
  BY <1>5 DEF HashReads, Others
<1>6. CASE HashSettles
  BY <1>6 DEF HashSettles, Others, Moved
<1>7. CASE Save
  BY <1>7 DEF Save
<1>8. CASE Plan
  BY <1>8 DEF Plan
<1>9. CASE Check
  BY <1>9 DEF Check
<1>10. CASE Read
  BY <1>10 DEF Read
<1>11. CASE Write
  BY <1>11 DEF Write
<1>12. CASE Sync
  BY <1>12 DEF Sync, Discarded, Flushed, Ours
<1>13. CASE Close
  BY <1>13 DEF Close
<1>14. CASE Verify
  BY <1>14 DEF Verify, Discarded, Agrees
<1>15. CASE Rename
  BY <1>15 DEF Rename, Discarded
<1>16. CASE Open
  BY <1>16 DEF Open
<1>17. CASE Meta
  BY <1>17 DEF Meta, Agrees
<1>18. CASE Body
  BY <1>18 DEF Body, Target
<1>19. CASE SyncBody
  BY <1>19 DEF SyncBody, Flushed, Ours
<1>20. CASE Trailer
  BY <1>20 DEF Trailer, Target
<1>21. CASE SyncTrailer
  BY <1>21 DEF SyncTrailer, Flushed, Ours
<1>22. CASE Reread
  BY <1>22 DEF Reread
<1>23. CASE CutBack
  BY <1>23 DEF CutBack, Target
<1>24. CASE Name
  BY <1>24 DEF Name
<1>25. CASE Stops
  BY <1>25 DEF Stops, Survivors, Ours
<1>26. CASE UNCHANGED vars
  BY <1>26 DEF vars
<1> QED  BY <1>1, <1>2, <1>3, <1>4, <1>5, <1>6, <1>7, <1>8, <1>9, <1>10, <1>11, <1>12,
            <1>13, <1>14, <1>15, <1>16, <1>17, <1>18, <1>19, <1>20, <1>21, <1>22, <1>23,
            <1>24, <1>25, <1>26 DEF Next, SaveStep

LEMMA ComparedIsOriginalStep ==
    ASSUME MaxForeign \in Nat, TypeOK, NameWhere, WriteShows, HashIsOfOriginal, ComparedIsOriginal, [Next]_vars
    PROVE  ComparedIsOriginal'
<1> USE InodeFacts DEF StampTells, StampKept, ComparedIsOriginal, TypeOK, NameWhere, WriteShows,
           HashIsOfOriginal, Compared, Before, Writing, NoStaged, Original, NoPrint,
           Fingerprint, Step, Goes, Ended, Refused, Landing, Foreign, world, content,
           model
<1>1. CASE RewriteInPlace
  <2>1. named \in Inodes /\ named' = named /\ Foreign /\ ForeignWrites(named)
    BY <1>1 DEF RewriteInPlace
  <2> QED  BY <2>1, WriteFacts DEF ByStamp
<1>2. CASE Replace
  <2>1. named' = foreign + 2 /\ foreign + 2 \in Inodes \ {Staged}
        /\ foreign + 2 # 1 /\ Foreign /\ ForeignWrites(foreign + 2)
    BY <1>2 DEF Replace
  <2> QED  BY <2>1, WriteFacts DEF ByStamp
<1>3. CASE Remove
  BY <1>3 DEF Remove
<1>4. CASE Edit
  BY <1>4 DEF Edit, Wake, Others
<1>5. CASE HashReads
  BY <1>5 DEF HashReads, Others
<1>6. CASE HashSettles
  BY <1>6 DEF HashSettles, Others, Moved
<1>7. CASE Save
  BY <1>7 DEF Save
<1>8. CASE Plan
  BY <1>8 DEF Plan
<1>9. CASE Check
  BY <1>9 DEF Check
<1>10. CASE Read
  BY <1>10 DEF Read
<1>11. CASE Write
  BY <1>11 DEF Write
<1>12. CASE Sync
  BY <1>12 DEF Sync, Discarded, Flushed, Ours
<1>13. CASE Close
  BY <1>13 DEF Close
<1>14. CASE Verify
  BY <1>14 DEF Verify, Discarded, Agrees
<1>15. CASE Rename
  BY <1>15 DEF Rename, Discarded
<1>16. CASE Open
  BY <1>16 DEF Open
<1>17. CASE Meta
  BY <1>17 DEF Meta, Agrees
<1>18. CASE Body
  BY <1>18 DEF Body, Target
<1>19. CASE SyncBody
  BY <1>19 DEF SyncBody, Flushed, Ours
<1>20. CASE Trailer
  BY <1>20 DEF Trailer, Target
<1>21. CASE SyncTrailer
  BY <1>21 DEF SyncTrailer, Flushed, Ours
<1>22. CASE Reread
  BY <1>22 DEF Reread
<1>23. CASE CutBack
  BY <1>23 DEF CutBack, Target
<1>24. CASE Name
  BY <1>24 DEF Name
<1>25. CASE Stops
  BY <1>25 DEF Stops, Survivors, Ours
<1>26. CASE UNCHANGED vars
  BY <1>26 DEF vars
<1> QED  BY <1>1, <1>2, <1>3, <1>4, <1>5, <1>6, <1>7, <1>8, <1>9, <1>10, <1>11, <1>12,
            <1>13, <1>14, <1>15, <1>16, <1>17, <1>18, <1>19, <1>20, <1>21, <1>22, <1>23,
            <1>24, <1>25, <1>26 DEF Next, SaveStep

LEMMA StagedIsOriginalStep ==
    ASSUME MaxForeign \in Nat, TypeOK, NameWhere, WriteShows, HashIsOfOriginal, ComparedIsOriginal, StagedIsOriginal, [Next]_vars
    PROVE  StagedIsOriginal'
<1> USE InodeFacts DEF StampTells, StampKept, StagedIsOriginal, TypeOK, NameWhere, WriteShows,
           HashIsOfOriginal, ComparedIsOriginal, Compared, Before, Writing, NoStaged,
           Original, NoPrint, Fingerprint, Step, Goes, Ended, Refused, Landing, Foreign,
           world, content, model
<1>1. CASE RewriteInPlace
  <2>1. named \in Inodes /\ named' = named /\ Foreign /\ ForeignWrites(named)
    BY <1>1 DEF RewriteInPlace
  <2> QED  BY <2>1, WriteFacts DEF ByStamp, InWindow
<1>2. CASE Replace
  <2>1. named' = foreign + 2 /\ foreign + 2 \in Inodes \ {Staged}
        /\ foreign + 2 # 1 /\ Foreign /\ ForeignWrites(foreign + 2)
    BY <1>2 DEF Replace
  <2>2. file'[foreign + 2] # Original /\ tail'[Staged] = tail[Staged] /\ (blind => blind')
    BY <2>1, WriteFacts
  <2>3. file'[named'] # Original
    BY <2>1, <2>2
  <2>4. pc = "rename" => late'
    BY <1>2 DEF Replace, InWindow
  <2>5. UNCHANGED <<pc, mode, staged, disk, running>>
    BY <1>2 DEF Replace
  <2> QED  BY <2>2, <2>3, <2>4, <2>5
<1>3. CASE Remove
  BY <1>3 DEF Remove, InWindow
<1>4. CASE Edit
  BY <1>4 DEF Edit, Wake, Others
<1>5. CASE HashReads
  BY <1>5 DEF HashReads, Others
<1>6. CASE HashSettles
  BY <1>6 DEF HashSettles, Others, Moved
<1>7. CASE Save
  BY <1>7 DEF Save
<1>8. CASE Plan
  BY <1>8 DEF Plan
<1>9. CASE Check
  BY <1>9 DEF Check
<1>10. CASE Read
  BY <1>10 DEF Read
<1>11. CASE Write
  BY <1>11 DEF Write
<1>12. CASE Sync
  BY <1>12 DEF Sync, Discarded, Flushed, Ours
<1>13. CASE Close
  BY <1>13 DEF Close
<1>14. CASE Verify
  BY <1>14 DEF Verify, Discarded, Agrees
<1>15. CASE Rename
  BY <1>15 DEF Rename, Discarded
<1>16. CASE Open
  BY <1>16 DEF Open
<1>17. CASE Meta
  BY <1>17 DEF Meta, Agrees
<1>18. CASE Body
  BY <1>18 DEF Body, Target
<1>19. CASE SyncBody
  BY <1>19 DEF SyncBody, Flushed, Ours
<1>20. CASE Trailer
  BY <1>20 DEF Trailer, Target
<1>21. CASE SyncTrailer
  BY <1>21 DEF SyncTrailer, Flushed, Ours
<1>22. CASE Reread
  BY <1>22 DEF Reread
<1>23. CASE CutBack
  BY <1>23 DEF CutBack, Target
<1>24. CASE Name
  BY <1>24 DEF Name
<1>25. CASE Stops
  BY <1>25 DEF Stops, Survivors, Ours
<1>26. CASE UNCHANGED vars
  BY <1>26 DEF vars
<1> QED  BY <1>1, <1>2, <1>3, <1>4, <1>5, <1>6, <1>7, <1>8, <1>9, <1>10, <1>11, <1>12,
            <1>13, <1>14, <1>15, <1>16, <1>17, <1>18, <1>19, <1>20, <1>21, <1>22, <1>23,
            <1>24, <1>25, <1>26 DEF Next, SaveStep

LEMMA TailWhereStep ==
    ASSUME MaxForeign \in Nat, TypeOK, NameWhere, TailWhere, [Next]_vars
    PROVE  TailWhere'
<1> USE InodeFacts DEF TailWhere, TypeOK, NameWhere, Untouched, Before, Writing,
           NoStaged, Step, Goes, Ended, Refused, Landing, Foreign, world, content, model
<1>1. CASE RewriteInPlace
  BY <1>1 DEF RewriteInPlace, ForeignWrites
<1>2. CASE Replace
  BY <1>2 DEF Replace, ForeignWrites
<1>3. CASE Remove
  BY <1>3 DEF Remove
<1>4. CASE Edit
  BY <1>4 DEF Edit, Wake, Others
<1>5. CASE HashReads
  BY <1>5 DEF HashReads, Others
<1>6. CASE HashSettles
  BY <1>6 DEF HashSettles, Others, Moved
<1>7. CASE Save
  BY <1>7 DEF Save
<1>8. CASE Plan
  BY <1>8 DEF Plan
<1>9. CASE Check
  BY <1>9 DEF Check
<1>10. CASE Read
  BY <1>10 DEF Read
<1>11. CASE Write
  BY <1>11 DEF Write
<1>12. CASE Sync
  BY <1>12 DEF Sync, Discarded, Flushed, Ours
<1>13. CASE Close
  BY <1>13 DEF Close
<1>14. CASE Verify
  BY <1>14 DEF Verify, Discarded, Agrees
<1>15. CASE Rename
  BY <1>15 DEF Rename, Discarded
<1>16. CASE Open
  BY <1>16 DEF Open
<1>17. CASE Meta
  BY <1>17 DEF Meta, Agrees
<1>18. CASE Body
  BY <1>18 DEF Body, Target
<1>19. CASE SyncBody
  BY <1>19 DEF SyncBody, Flushed, Ours
<1>20. CASE Trailer
  BY <1>20 DEF Trailer, Target
<1>21. CASE SyncTrailer
  BY <1>21 DEF SyncTrailer, Flushed, Ours
<1>22. CASE Reread
  BY <1>22 DEF Reread
<1>23. CASE CutBack
  BY <1>23 DEF CutBack, Target
<1>24. CASE Name
  BY <1>24 DEF Name
<1>25. CASE Stops
  BY <1>25 DEF Stops, Survivors, Ours
<1>26. CASE UNCHANGED vars
  BY <1>26 DEF vars
<1> QED  BY <1>1, <1>2, <1>3, <1>4, <1>5, <1>6, <1>7, <1>8, <1>9, <1>10, <1>11, <1>12,
            <1>13, <1>14, <1>15, <1>16, <1>17, <1>18, <1>19, <1>20, <1>21, <1>22, <1>23,
            <1>24, <1>25, <1>26 DEF Next, SaveStep

LEMMA AppendInOrderStep ==
    ASSUME MaxForeign \in Nat, TypeOK, NameWhere, WriteShows, ComparedIsOriginal, TailWhere, AppendInOrder, [Next]_vars
    PROVE  AppendInOrder'
<1> USE InodeFacts DEF StampTells, StampKept, AppendInOrder, TypeOK, NameWhere, WriteShows, ComparedIsOriginal,
           Compared, TailWhere, Untouched, Sound, Original, Fingerprint, Before,
           Writing, NoStaged, PcValues, InWindow, Step, Goes, Ended, Refused, Landing,
           Foreign, world, content, model
<1>1. CASE RewriteInPlace
  <2> USE DEF Tails
  <2>1. ASSUME mode' = "append", handle' # 0, ~late'
        PROVE  ~late /\ handle' = handle /\ handle \in Inodes /\ pc' = pc /\ pc \notin Writing
               /\ tail'[handle] \in {tail[handle], "none"} /\ running' = running /\ disk' = disk
    BY <1>1, <2>1, ForeignFacts DEF InWindow
  <2> QED  BY <2>1, ForeignFacts, <1>1
<1>2. CASE Replace
  <2> USE DEF Tails
  <2>1. ASSUME mode' = "append", handle' # 0, ~late'
        PROVE  ~late /\ handle' = handle /\ handle \in Inodes /\ pc' = pc /\ pc \notin Writing
               /\ tail'[handle] \in {tail[handle], "none"} /\ running' = running /\ disk' = disk
    BY <1>2, <2>1, ForeignFacts DEF InWindow
  <2> QED  BY <2>1, ForeignFacts, <1>2
<1>3. CASE Remove
  BY <1>3 DEF Remove
<1>4. CASE Edit
  BY <1>4 DEF Edit, Wake, Others
<1>5. CASE HashReads
  BY <1>5 DEF HashReads, Others
<1>6. CASE HashSettles
  BY <1>6 DEF HashSettles, Others, Moved
<1>7. CASE Save
  BY <1>7 DEF Save
<1>8. CASE Plan
  BY <1>8 DEF Plan
<1>9. CASE Check
  BY <1>9 DEF Check
<1>10. CASE Read
  BY <1>10 DEF Read
<1>11. CASE Write
  BY <1>11 DEF Write
<1>12. CASE Sync
  BY <1>12 DEF Sync, Discarded, Flushed, Ours
<1>13. CASE Close
  BY <1>13 DEF Close
<1>14. CASE Verify
  BY <1>14 DEF Verify, Discarded, Agrees
<1>15. CASE Rename
  BY <1>15 DEF Rename, Discarded
<1>16. CASE Open
  BY <1>16 DEF Open
<1>17. CASE Meta
  BY <1>17 DEF Meta, Agrees
<1>18. CASE Body
  BY <1>18 DEF Body, Target
<1>19. CASE SyncBody
  BY <1>19 DEF SyncBody, Flushed, Ours
<1>20. CASE Trailer
  BY <1>20 DEF Trailer, Target
<1>21. CASE SyncTrailer
  BY <1>21 DEF SyncTrailer, Flushed, Ours
<1>22. CASE Reread
  BY <1>22 DEF Reread
<1>23. CASE CutBack
  BY <1>23 DEF CutBack, Target
<1>24. CASE Name
  BY <1>24 DEF Name
<1>25. CASE Stops
  BY <1>25 DEF Stops, Survivors, Ours
<1>26. CASE UNCHANGED vars
  BY <1>26 DEF vars
<1> QED  BY <1>1, <1>2, <1>3, <1>4, <1>5, <1>6, <1>7, <1>8, <1>9, <1>10, <1>11, <1>12,
            <1>13, <1>14, <1>15, <1>16, <1>17, <1>18, <1>19, <1>20, <1>21, <1>22, <1>23,
            <1>24, <1>25, <1>26 DEF Next, SaveStep

LEMMA SavedWholeStep ==
    ASSUME MaxForeign \in Nat, TypeOK, NameWhere, StagedIsOriginal, AppendInOrder, SavedWhole, [Next]_vars
    PROVE  SavedWhole'
<1> USE InodeFacts DEF SavedWhole, TypeOK, NameWhere, StagedIsOriginal, AppendInOrder,
           Original, Ours, Staged, Fingerprint, Before, Writing, NoStaged, Step, Goes,
           Ended, Refused, Landing, Foreign, world, content, model
<1>1. CASE RewriteInPlace
  BY <1>1 DEF RewriteInPlace, ForeignWrites
<1>2. CASE Replace
  BY <1>2 DEF Replace, ForeignWrites
<1>3. CASE Remove
  BY <1>3 DEF Remove
<1>4. CASE Edit
  BY <1>4 DEF Edit, Wake, Others
<1>5. CASE HashReads
  BY <1>5 DEF HashReads, Others
<1>6. CASE HashSettles
  BY <1>6 DEF HashSettles, Others, Moved
<1>7. CASE Save
  BY <1>7 DEF Save
<1>8. CASE Plan
  BY <1>8 DEF Plan
<1>9. CASE Check
  BY <1>9 DEF Check
<1>10. CASE Read
  BY <1>10 DEF Read
<1>11. CASE Write
  BY <1>11 DEF Write
<1>12. CASE Sync
  BY <1>12 DEF Sync, Discarded, Flushed, Ours
<1>13. CASE Close
  BY <1>13 DEF Close
<1>14. CASE Verify
  BY <1>14 DEF Verify, Discarded, Agrees
<1>15. CASE Rename
  <2>1. Staged \in Inodes /\ file[Staged] \in Fingerprint /\ running /\ pc = "rename"
    BY <1>15 DEF Rename
  <2>2. ending'.how = "saved" =>
           /\ named' = Staged /\ was' = named /\ named # Staged /\ tail' = tail
           /\ disk' = disk /\ mode' = mode /\ mode = "rewrite" /\ late' = late /\ blind' = blind
           /\ file' = [file EXCEPT ![Staged].bytes = staged.bytes]
    BY <1>15, <2>1 DEF Rename, Discarded
  <2>3. ending'.how = "saved" =>
           file'[Staged].bytes = staged.bytes
           /\ (named \in Inodes => file'[named] = file[named])
    BY <2>1, <2>2
  <2> QED  BY <2>1, <2>2, <2>3
<1>16. CASE Open
  BY <1>16 DEF Open
<1>17. CASE Meta
  BY <1>17 DEF Meta, Agrees
<1>18. CASE Body
  BY <1>18 DEF Body, Target
<1>19. CASE SyncBody
  BY <1>19 DEF SyncBody, Flushed, Ours
<1>20. CASE Trailer
  BY <1>20 DEF Trailer, Target
<1>21. CASE SyncTrailer
  BY <1>21 DEF SyncTrailer, Flushed, Ours
<1>22. CASE Reread
  BY <1>22 DEF Reread
<1>23. CASE CutBack
  BY <1>23 DEF CutBack, Target
<1>24. CASE Name
  BY <1>24 DEF Name
<1>25. CASE Stops
  BY <1>25 DEF Stops, Survivors, Ours
<1>26. CASE UNCHANGED vars
  BY <1>26 DEF vars
<1> QED  BY <1>1, <1>2, <1>3, <1>4, <1>5, <1>6, <1>7, <1>8, <1>9, <1>10, <1>11, <1>12,
            <1>13, <1>14, <1>15, <1>16, <1>17, <1>18, <1>19, <1>20, <1>21, <1>22, <1>23,
            <1>24, <1>25, <1>26 DEF Next, SaveStep

LEMMA ToldTrulyStep ==
    ASSUME MaxForeign \in Nat, TypeOK, NameWhere, TailWhere, AppendInOrder, ToldTruly, [Next]_vars
    PROVE  ToldTruly'
<1> USE InodeFacts DEF ToldTruly, TypeOK, NameWhere, TailWhere, Untouched, Before,
           Writing, NoStaged, Step, Goes, Ended, Refused, Landing, Foreign, world,
           content, model
<1>1. CASE RewriteInPlace
  BY <1>1 DEF RewriteInPlace, ForeignWrites
<1>2. CASE Replace
  BY <1>2 DEF Replace, ForeignWrites
<1>3. CASE Remove
  BY <1>3 DEF Remove
<1>4. CASE Edit
  BY <1>4 DEF Edit, Wake, Others
<1>5. CASE HashReads
  BY <1>5 DEF HashReads, Others
<1>6. CASE HashSettles
  BY <1>6 DEF HashSettles, Others, Moved
<1>7. CASE Save
  BY <1>7 DEF Save
<1>8. CASE Plan
  BY <1>8 DEF Plan
<1>9. CASE Check
  BY <1>9 DEF Check
<1>10. CASE Read
  BY <1>10 DEF Read
<1>11. CASE Write
  BY <1>11 DEF Write
<1>12. CASE Sync
  BY <1>12 DEF Sync, Discarded, Flushed, Ours
<1>13. CASE Close
  BY <1>13 DEF Close
<1>14. CASE Verify
  BY <1>14 DEF Verify, Discarded, Agrees
<1>15. CASE Rename
  BY <1>15 DEF Rename, Discarded
<1>16. CASE Open
  BY <1>16 DEF Open
<1>17. CASE Meta
  BY <1>17 DEF Meta, Agrees
<1>18. CASE Body
  BY <1>18 DEF Body, Target
<1>19. CASE SyncBody
  BY <1>19 DEF SyncBody, Flushed, Ours
<1>20. CASE Trailer
  BY <1>20 DEF Trailer, Target
<1>21. CASE SyncTrailer
  BY <1>21 DEF SyncTrailer, Flushed, Ours
<1>22. CASE Reread
  BY <1>22 DEF Reread
<1>23. CASE CutBack
  BY <1>23 DEF CutBack, Target
<1>24. CASE Name
  BY <1>24 DEF Name
<1>25. CASE Stops
  BY <1>25 DEF Stops, Survivors, Ours
<1>26. CASE UNCHANGED vars
  BY <1>26 DEF vars
<1> QED  BY <1>1, <1>2, <1>3, <1>4, <1>5, <1>6, <1>7, <1>8, <1>9, <1>10, <1>11, <1>12,
            <1>13, <1>14, <1>15, <1>16, <1>17, <1>18, <1>19, <1>20, <1>21, <1>22, <1>23,
            <1>24, <1>25, <1>26 DEF Next, SaveStep

-----------------------------------------------------------------------------
\* The invariant holds of a document that has just been opened.
LEMMA InitSaveInv == ASSUME MaxForeign \in Nat, Init  PROVE SaveInv
<1> USE InodeFacts DEF Init
<1>1. TypeOK
  <2>1. NoPrint \in Fingerprint /\ Original \in Fingerprint
    BY DEF NoPrint, Fingerprint, Original
  <2>2. FilesTyped
    BY <2>1 DEF FilesTyped, Tails
  <2>3. ControlTyped
    BY DEF ControlTyped, PcValues, Tails
  <2>4. RecordsTyped
    BY <2>1, RecordFacts DEF RecordsTyped
  <2>5. FlagsTyped
    BY DEF FlagsTyped
  <2> QED  BY <2>2, <2>3, <2>4, <2>5, TypeParts
<1>2. NameWhere /\ OpenWhere
  BY DEF NameWhere, OpenWhere, Before, Writing, Staged, NoStaged
<1>3. WriteShows /\ HashIsOfOriginal /\ ComparedIsOriginal /\ StagedIsOriginal
  BY DEF WriteShows, HashIsOfOriginal, ComparedIsOriginal, StagedIsOriginal, Compared, StampTells
<1>4. TailWhere /\ AppendInOrder /\ SavedWhole /\ ToldTruly
  BY DEF TailWhere, AppendInOrder, SavedWhole, ToldTruly, Untouched
<1> QED  BY <1>1, <1>2, <1>3, <1>4 DEF SaveInv

\* Every step keeps it.
LEMMA NextKeepsSaveInv == ASSUME MaxForeign \in Nat, SaveInv, [Next]_vars  PROVE SaveInv'
<1>1. TypeOK'
  <2>1. FilesTyped /\ ControlTyped /\ RecordsTyped /\ FlagsTyped /\ NameWhere
    BY TypeParts DEF SaveInv
  <2>2. FilesTyped' /\ ControlTyped' /\ RecordsTyped' /\ FlagsTyped'
    BY <2>1, FilesTypedStep, ControlTypedStep, RecordsTypedStep, FlagsTypedStep
  <2>3. (TypeOK <=> FilesTyped /\ ControlTyped /\ RecordsTyped /\ FlagsTyped)'
    BY TypeParts, PTL
  <2> QED  BY <2>2, <2>3
<1>2. NameWhere' /\ OpenWhere' /\ WriteShows' /\ HashIsOfOriginal' /\ ComparedIsOriginal'
  BY NameWhereStep, OpenWhereStep, WriteShowsStep, HashIsOfOriginalStep,
     ComparedIsOriginalStep DEF SaveInv
<1>3. StagedIsOriginal' /\ TailWhere' /\ AppendInOrder' /\ SavedWhole' /\ ToldTruly'
  BY StagedIsOriginalStep, TailWhereStep, AppendInOrderStep, SavedWholeStep,
     ToldTrulyStep DEF SaveInv
<1> QED  BY <1>1, <1>2, <1>3 DEF SaveInv

\* The invariant, for every run of a save.
THEOREM SaveIsSound == ASSUME MaxForeign \in Nat  PROVE Spec => []SaveInv
<1>1. Init => SaveInv
  BY InitSaveInv
<1>2. SaveInv /\ [Next]_vars => SaveInv'
  BY NextKeepsSaveInv
<1> QED  BY <1>1, <1>2, PTL DEF Spec

\* Every variable of the save keeps its type.
THEOREM SaveTypes == ASSUME MaxForeign \in Nat  PROVE Spec => []TypeOK
<1>1. SaveInv => TypeOK
  BY DEF SaveInv
<1> QED  BY <1>1, SaveIsSound, PTL

\* Whenever the machine stops, and whatever of the buffers reached the disk, the
\* file under the name is the one that was there or the one with the whole save
\* (save.rs, write_in_two and append_in_place).
THEOREM NeverTorn == ASSUME MaxForeign \in Nat  PROVE Spec => []OldOrNew
<1>1. SaveInv => OldOrNew
  <2> SUFFICES ASSUME SaveInv, named # 0, ~late  PROVE tail[named] # "torn"
    BY DEF OldOrNew
  <2> USE DEF SaveInv
  <2>1. named \in Inodes
    BY DEF TypeOK
  <2>2. CASE named = Staged
    BY <2>2 DEF NameWhere, SavedWhole, Ours
  <2>3. CASE named # Staged /\ (mode = "rewrite" \/ named # handle)
    BY <2>1, <2>3 DEF TailWhere
  <2>4. CASE mode = "append" /\ named = handle
    BY <2>4 DEF AppendInOrder
  <2> QED  BY <2>2, <2>3, <2>4 DEF TypeOK
<1> QED  BY <1>1, SaveIsSound, PTL

\* A save that says it landed landed on the bytes the reader opened, whatever
\* other programs wrote before its last look (save_order.rs, fingerprint.rs), a
\* write excepted that keeps the length and the time while the save only looks
\* at these.  After a stop of the machine the name has the file with the whole
\* save or, its rename lost, the one that was opened.
THEOREM SavedOverWhatWasOpened ==
    ASSUME MaxForeign \in Nat  PROVE Spec => []SavedIsWhatWasOpened
<1>1. SaveInv => SavedIsWhatWasOpened
  <2> SUFFICES ASSUME SaveInv, ending.how = "saved", ~late
               PROVE  /\ named # 0
                      /\ tail[named] = "whole" \/ (~running /\ named = was /\ tail[was] = "none")
                      /\ ~blind => file[named].bytes = 0
    BY DEF SavedIsWhatWasOpened, Original
  <2> USE DEF SaveInv, SavedWhole
  <2>1. CASE named = Ours
    BY <2>1
  <2>2. CASE named # Ours
    <3>1. /\ mode = "rewrite" /\ ~running /\ named = was /\ was # 0
          /\ ~blind => file[was].bytes = 0
      BY <2>2 DEF TypeOK
    <3>2. tail[was] = "none"
      BY <3>1 DEF TypeOK, NameWhere, TailWhere
    <3> QED  BY <3>1, <3>2
  <2> QED  BY <2>1, <2>2
<1> QED  BY <1>1, SaveIsSound, PTL

\* What the reader is told of a save that did not land is so, the document is
\* open exactly when it was refused, and nothing is left beside the file.
THEOREM EndingsAreTrue == ASSUME MaxForeign \in Nat  PROVE Spec => []HonestEnding
<1>1. SaveInv => HonestEnding
  <2> SUFFICES ASSUME SaveInv  PROVE HonestEnding
    OBVIOUS
  <2> USE DEF SaveInv
  <2>1. ending.how = "refused" => opened /\ Untouched
    BY DEF OpenWhere, ToldTruly
  <2>2. ending.how \in {"refused", "afterClose"} => staged.at = "none"
    BY DEF ToldTruly
  <2>3. ASSUME ending.how = "afterClose"  PROVE ~opened
    BY <2>3 DEF OpenWhere, NameWhere, Before
  <2>4. ending.how = "afterClose" =>
           /\ ending.told \in {"nothing", "untouched"} => Untouched
           /\ ending.told = "putBack" /\ running => Untouched
    BY DEF ToldTruly
  <2>5. ASSUME ending.how = "afterClose", ending.told = "elsewhere", named # 0
        PROVE  tail[named] = "none"
    <3>1. mode = "append" /\ named # handle /\ named \in Inodes \ {Staged}
      BY <2>5 DEF ToldTruly, NameWhere, TypeOK
    <3> QED  BY <3>1 DEF TailWhere
  <2> QED  BY <2>1, <2>2, <2>3, <2>4, <2>5 DEF HonestEnding
<1> QED  BY <1>1, SaveIsSound, PTL
=============================================================================
