--------------------------- MODULE MCUndoHistory ---------------------------
(* Instances of HistoryClients for TLC: a behaviour is of one client. *)
EXTENDS HistoryClients

VARIABLE client

MCDocs   == {"a", "b", "c"}
MCCarets == {"here", "there"}

NoEditor ==
    /\ editor = [text |-> 0, caret |-> "here"]
    /\ undo = Fresh(editor)
    /\ opened = 0 /\ latest = 0

NoApp ==
    /\ doc = "a"
    /\ hist = Fresh(doc)
    /\ redoes = FALSE

MCInit ==
    \/ client = "app" /\ Init /\ NoEditor
    \/ client = "editor" /\ E!Init /\ NoApp

AppNext    == client = "app" /\ Next /\ UNCHANGED <<client, editorVars>>
EditorNext == client = "editor" /\ E!Next /\ UNCHANGED <<client, vars>>

MCSpec == MCInit /\ [][AppNext \/ EditorNext]_<<client, vars, editorVars>>
=============================================================================
