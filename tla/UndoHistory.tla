---------------------------- MODULE UndoHistory ----------------------------
(***************************************************************************)
(* An application that uses rstui-core's History the way its documentation *)
(* says: it records the document after each committed edit, and assigns    *)
(* what undo and redo return to the document.                              *)
(***************************************************************************)
EXTENDS UndoStack

CONSTANT Docs    \* the values a document may have

VARIABLES
    doc,      \* the document
    hist,     \* its History
    redoes    \* the application is one that calls redo; never changes

vars == <<doc, hist, redoes>>

TypeOK ==
    /\ doc \in Docs
    /\ hist \in Histories(Docs) /\ hist.undo # <<>>
    /\ redoes \in BOOLEAN

Init ==
    /\ doc \in Docs
    /\ hist = Fresh(doc)
    /\ redoes \in BOOLEAN

(* An edit may leave the document as it was. *)
Edit ==
    \E d \in Docs, coalesce \in BOOLEAN :
        doc' = d /\ hist' = Record(hist, d, coalesce) /\ UNCHANGED redoes

Undo ==
    /\ CanUndo(hist)
    /\ doc' = Undone(hist)
    /\ hist' = AfterUndo(hist, doc)
    /\ UNCHANGED redoes

Redo ==
    /\ redoes /\ CanRedo(hist)
    /\ doc' = Redone(hist)
    /\ hist' = AfterRedo(hist, doc)
    /\ UNCHANGED redoes

Next == Edit \/ Undo \/ Redo

Spec == Init /\ [][Next]_vars

-----------------------------------------------------------------------------
(* A bounded history holds at most Cap documents, those that can be redone *)
(* included, in whatever order it is used.                                 *)
DepthBounded == Cap # 0 => Len(hist.undo) + Len(hist.redo) <= Cap

Line == INSTANCE Timeline WITH
            past <- Front(hist.undo), future <- hist.redo,
            run <- hist.coalescing, Depth <- Cap

(* To an application that never redoes, History is the linear timeline its *)
(* documentation describes: a run is one step, an edit that changes        *)
(* nothing is none, and the oldest step goes when the bound is reached.    *)
ImplementsTimeline == Line!Init /\ [][redoes \/ Line!Next]_(Line!vars)

(* And so it is to one that redoes: redo is the exact inverse of undo.  In *)
(* no run: the code's redo pushes the document it leaves (README).         *)
RedoesOnTimeline == Line!Spec
=============================================================================
