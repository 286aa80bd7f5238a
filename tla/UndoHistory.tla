------------------------------ MODULE UndoHistory ------------------------------
(***************************************************************************)
(* What undo and redo promise: a document has the states before it and the *)
(* states ahead of it, a press moves by one, and an edit gives up what is  *)
(* ahead.  Edits of one gesture with nothing between them are one state.   *)
(* A state is a document and the gesture that made it; what an edit may    *)
(* make of a document is not this module's subject.                        *)
(***************************************************************************)
EXTENDS Sequences, SequencesExt

CONSTANTS Opened,       \* the state the document is opened in
          NoGesture

VARIABLES past, present, ahead

Init == past = <<>> /\ present = Opened /\ ahead = <<>>

OneGesture(a, b) == a.gesture = b.gesture /\ a.gesture # NoGesture

Edit ==
    /\ ~OneGesture(present, present')
    /\ past' = Append(past, present)
    /\ ahead' = <<>>

\* A further edit of the gesture that made the present state.
Amend ==
    /\ OneGesture(present, present')
    /\ ahead' = <<>>
    /\ UNCHANGED past

Undo ==
    /\ past # <<>>
    /\ present' = Last(past)
    /\ past' = Front(past)
    /\ ahead' = <<present>> \o ahead

Redo ==
    /\ ahead # <<>>
    /\ present' = Head(ahead)
    /\ ahead' = Tail(ahead)
    /\ past' = Append(past, present)

Next == Edit \/ Amend \/ Undo \/ Redo

Spec == Init /\ [][Next]_<<past, present, ahead>>
=============================================================================
