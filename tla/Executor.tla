------------------------------ MODULE Executor ------------------------------
(***************************************************************************)
(* What an off-loop CommandExecutor (rstui-runtime, run.rs) promises the   *)
(* loop: a deferred job sends one message, or none if its work panics or   *)
(* the loop is over.  RunLoop relies on this and on nothing else; a pool   *)
(* of workers (CommandPool) implements it.                                 *)
(***************************************************************************)
CONSTANTS
    Jobs,      \* the closures the loop may defer
    Panicky    \* the closures whose work may panic

VARIABLES
    fate,   \* what became of each job
    over    \* the loop has returned

vars == <<fate, over>>

Init ==
    /\ fate = [j \in Jobs |-> "new"]
    /\ over = FALSE

(* CommandExecutor::perform and ::timer return None. *)
Defer(j) ==
    /\ ~over /\ fate[j] = "new"
    /\ fate' = [fate EXCEPT ![j] = "deferred"]
    /\ UNCHANGED over

(* The message is in the result channel. *)
Answer(j) ==
    /\ fate[j] = "deferred"
    /\ fate' = [fate EXCEPT ![j] = "sent"]
    /\ UNCHANGED over

(* No message will come. *)
Lose(j) ==
    /\ fate[j] = "deferred"
    /\ over \/ j \in Panicky
    /\ fate' = [fate EXCEPT ![j] = "lost"]
    /\ UNCHANGED over

Return ==
    /\ ~over
    /\ over' = TRUE
    /\ UNCHANGED fate

Next == Return \/ \E j \in Jobs : Defer(j) \/ Answer(j) \/ Lose(j)

Spec == Init /\ [][Next]_vars
=============================================================================
