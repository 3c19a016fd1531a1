------------------------------ MODULE UndoStack ------------------------------
(***************************************************************************)
(* rstui-core, undo.rs: the value type History, as operators on a record.  *)
(* The last element of a sequence is the top of the code's Vec.            *)
(***************************************************************************)
EXTENDS Naturals, Sequences, SequencesExt

CONSTANT Cap    \* retained depth of the undo stack; 0: unbounded

ASSUME CapAssumption == Cap \in Nat

Histories(S) == [undo : Seq(S), redo : Seq(S), coalescing : BOOLEAN]

Fresh(initial) == [undo |-> <<initial>>, redo |-> <<>>, coalescing |-> FALSE]

Trim(s) == IF Cap # 0 /\ Len(s) > Cap THEN Tail(s) ELSE s

(* A run that its first keystroke merges into the step before it. *)
RecordMergesFirst(h, state, coalesce) ==
    IF Last(h.undo) = state
        THEN h
    ELSE IF coalesce
        THEN [h EXCEPT !.undo = Append(Front(@), state), !.redo = <<>>]
        ELSE [undo |-> Trim(Append(h.undo, state)), redo |-> <<>>,
              coalescing |-> coalesce]

(* snapshot_coalesced; snapshot passes FALSE. *)
Record(h, state, coalesce) ==
    IF Last(h.undo) = state
        THEN h
    ELSE IF coalesce /\ h.coalescing
        THEN [h EXCEPT !.undo = Append(Front(@), state), !.redo = <<>>]
        ELSE [undo |-> Trim(Append(h.undo, state)), redo |-> <<>>,
              coalescing |-> coalesce]

CanUndo(h) == Len(h.undo) >= 2
CanRedo(h) == h.redo # <<>>

(* What undo and redo return, and what they leave. *)
Undone(h) == Last(Front(h.undo))

AfterUndo(h, current) ==
    [undo |-> Front(h.undo), redo |-> Append(h.redo, current), coalescing |-> FALSE]

Redone(h) == Last(h.redo)

AfterRedo(h, current) ==
    [undo |-> Trim(Append(h.undo, current)), redo |-> Front(h.redo),
     coalescing |-> FALSE]
=============================================================================
