------------------------------ MODULE EditMode ------------------------------
(***************************************************************************)
(* rstui-git-review, app.rs: the file editor of the review and its undo,   *)
(* which records the buffer before each mutating key, where UndoHistory    *)
(* records it after.                                                       *)
(*                                                                         *)
(* A text is numbered by when it came to be.  The buffer is a text and a   *)
(* caret: two buffers that differ in the caret only are different values   *)
(* to the history.                                                         *)
(***************************************************************************)
EXTENDS UndoStack

CONSTANTS
    Carets,      \* the caret's places
    MaxTexts,    \* bound of the model: texts that come to be
    MaxSteps     \* bound of the model: steps held when an edit begins

VARIABLES
    editor,      \* the buffer
    undo,        \* its history
    opened,      \* the text that was opened
    latest       \* the latest text that came to be

vars == <<editor, undo, opened, latest>>

Buffers == [text : 0..MaxTexts, caret : Carets]

TypeOK ==
    /\ editor \in Buffers
    /\ undo \in Histories(Buffers) /\ undo.undo # <<>>
    /\ latest \in 0..MaxTexts /\ opened \in 0..latest

(* A file has been opened. *)
Init ==
    /\ editor \in [text : {0}, caret : Carets]
    /\ undo = Fresh(editor)
    /\ opened = 0 /\ latest = 0

(* A file that is opened over the history of the one before. *)
OpenKeepsHistory ==
    /\ latest < MaxTexts
    /\ editor' \in [text : {latest + 1}, caret : Carets]
    /\ opened' = latest + 1 /\ latest' = latest + 1
    /\ UNCHANGED undo

(* Another file is opened: its buffer seeds a new history. *)
Open ==
    /\ latest < MaxTexts
    /\ editor' \in [text : {latest + 1}, caret : Carets]
    /\ undo' = Fresh(editor')
    /\ opened' = latest + 1 /\ latest' = latest + 1

HasSteps == Len(undo.undo) <= MaxSteps

NewText ==
    /\ latest < MaxTexts
    /\ editor' \in [text : {latest + 1}, caret : Carets]
    /\ latest' = latest + 1

(* A typed character: its run is coalesced. *)
Type ==
    /\ HasSteps /\ NewText
    /\ undo' = Record(undo, editor, TRUE)
    /\ UNCHANGED opened

(* Enter, a paste, or a character that replaces the selection. *)
Insert ==
    /\ HasSteps /\ NewText
    /\ undo' = Record(undo, editor, FALSE)
    /\ UNCHANGED opened

(* Backspace or Delete; with nothing to delete the text stays. *)
Delete ==
    /\ HasSteps
    /\ NewText \/ UNCHANGED <<editor, latest>>
    /\ undo' = Record(undo, editor, FALSE)
    /\ UNCHANGED opened

MoveCaret ==
    /\ \E c \in Carets : editor' = [editor EXCEPT !.caret = c]
    /\ UNCHANGED <<undo, opened, latest>>

Undo ==
    /\ CanUndo(undo)
    /\ editor' = Undone(undo)
    /\ undo' = AfterUndo(undo, editor)
    /\ UNCHANGED <<opened, latest>>

Redo ==
    /\ CanRedo(undo)
    /\ editor' = Redone(undo)
    /\ undo' = AfterRedo(undo, editor)
    /\ UNCHANGED <<opened, latest>>

Next == Open \/ Type \/ Insert \/ Delete \/ MoveCaret \/ Undo \/ Redo

Spec == Init /\ [][Next]_vars

-----------------------------------------------------------------------------
(* Undo and redo stay within the file that is open: neither brings back a  *)
(* text of a file that was edited before.                                  *)
UndoStaysInFile == [][Undo \/ Redo => editor'.text >= opened]_vars

(* As long as the text is not the one that was opened, undo has somewhere  *)
(* to go.  In no run: the code drops the snapshot of the first edit, which *)
(* equals the seed (README).                                               *)
EditRecoverable == editor.text # opened => CanUndo(undo)
=============================================================================
