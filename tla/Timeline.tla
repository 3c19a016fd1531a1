------------------------------ MODULE Timeline ------------------------------
(***************************************************************************)
(* What rstui-core's History promises: a linear timeline of documents.  An *)
(* edit starts a step, or continues the open run of a coalesced one, and   *)
(* forgets the future; undo goes one step back, and redo is its inverse.   *)
(***************************************************************************)
EXTENDS Naturals, Sequences, SequencesExt

CONSTANTS Docs, Depth    \* Depth: steps that are kept; 0: all

VARIABLES
    doc,      \* the document
    past,     \* the documents undo goes back to, the next one last
    future,   \* the documents redo goes on to, the next one last
    run       \* a coalesced run is open

vars == <<doc, past, future, run>>

Init ==
    /\ doc \in Docs
    /\ past = <<>> /\ future = <<>>
    /\ run = FALSE

Kept(s) == IF Depth # 0 /\ Len(s) >= Depth THEN Tail(s) ELSE s

Edit ==
    \E d \in Docs \ {doc}, coalesce \in BOOLEAN :
        /\ doc' = d
        /\ past' = IF coalesce /\ run THEN past ELSE Kept(Append(past, doc))
        /\ run' = coalesce
        /\ future' = <<>>

Undo ==
    /\ past # <<>>
    /\ doc' = Last(past)
    /\ past' = Front(past)
    /\ future' = Append(future, doc)
    /\ run' = FALSE

Redo ==
    /\ future # <<>>
    /\ doc' = Last(future)
    /\ past' = Kept(Append(past, doc))
    /\ future' = Front(future)
    /\ run' = FALSE

Next == Edit \/ Undo \/ Redo

Spec == Init /\ [][Next]_vars
=============================================================================
