--------------------------- MODULE HistoryClients ---------------------------
(***************************************************************************)
(* The two clients of rstui-core's History side by side: an application    *)
(* that records after each edit (UndoHistory) and the editor of the        *)
(* review, which records before (EditMode).  They share the depth and no   *)
(* state.                                                                  *)
(***************************************************************************)
EXTENDS UndoHistory

CONSTANTS Carets, MaxTexts, MaxSteps    \* of EditMode
VARIABLES editor, undo, opened, latest

editorVars == <<editor, undo, opened, latest>>

E == INSTANCE EditMode

-----------------------------------------------------------------------------
(* Undo and redo in the review's editor bring back texts of the file that  *)
(* is open, never one of a file that was edited before it.                 *)
UndoStaysInFile == E!UndoStaysInFile
=============================================================================
