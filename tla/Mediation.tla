------------------------------ MODULE Mediation -----------------------------
(***************************************************************************)
(* What the plugin host promises of the calls of one run (rstui-plugin-    *)
(* host): one call at a time, an effect only for a call that the policy    *)
(* allows and the plugin's own hook did not veto, at most one effect and   *)
(* one answer for each call, and the report lists the answers in order.    *)
(* A run may end at any point, also between an effect and its answer.      *)
(***************************************************************************)
EXTENDS Naturals, Sequences

CONSTANTS Asks, Allowed

VARIABLES
    hooked,     \* the manifest subscribes to before_capability
    asked,      \* the call in hand, a sequence of at most one [id, ask]
    word,       \* what the hook said of it
    effect,     \* what became of its effect
    report,     \* the calls answered
    over

vars == <<hooked, asked, word, effect, report, over>>

Init ==
    /\ hooked \in BOOLEAN
    /\ asked = <<>> /\ word = "none" /\ effect = "none"
    /\ report = <<>> /\ over = FALSE

Ask ==
    /\ ~over /\ asked = <<>>
    /\ asked' \in Seq([id : Nat, ask : Asks]) /\ Len(asked') = 1
    /\ UNCHANGED <<hooked, word, effect, report, over>>

(* The hook is asked of nothing but an allowed call. *)
Say ==
    /\ ~over /\ hooked /\ word = "none"
    /\ asked # <<>> /\ asked[1].ask \in Allowed
    /\ word' \in {"continue", "veto"}
    /\ UNCHANGED <<hooked, asked, effect, report, over>>

Perform ==
    /\ ~over /\ effect = "none"
    /\ asked # <<>> /\ asked[1].ask \in Allowed
    /\ hooked => word = "continue"
    /\ effect' \in {"ok", "failed"}
    /\ UNCHANGED <<hooked, asked, word, report, over>>

Outcome ==
    IF word = "veto" THEN "vetoed" ELSE IF effect = "none" THEN "denied" ELSE effect

Answer ==
    /\ ~over /\ asked # <<>>
    /\ effect # "none" \/ word = "veto" \/ asked[1].ask \notin Allowed
    /\ report' = Append(report, [id |-> asked[1].id, ask |-> asked[1].ask, verdict |-> Outcome])
    /\ asked' = <<>> /\ word' = "none" /\ effect' = "none"
    /\ UNCHANGED <<hooked, over>>

End == ~over /\ over' = TRUE /\ UNCHANGED <<hooked, asked, word, effect, report>>

Next == Ask \/ Say \/ Perform \/ Answer \/ End

Spec == Init /\ [][Next]_vars
=============================================================================
