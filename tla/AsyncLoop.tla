------------------------------ MODULE AsyncLoop -----------------------------
(***************************************************************************)
(* run_async (rstui-runtime, run.rs): one task that selects over input,    *)
(* command results and ticks.  The select is biased: it polls input, then  *)
(* the result channel, then the ticker, and takes the first that is ready; *)
(* anything may become ready between two of these polls.  The commands run *)
(* off the loop (TokioCommandExecutor).                                    *)
(***************************************************************************)
EXTENDS Settle, Functions

CONSTANTS
    Rate,           \* the period tick_rate returns when it returns Some
    BurstBudget,    \* COALESCE_TIME_BUDGET
    CoalesceLimit,  \* COALESCE_LIMIT
    MaxInbox        \* bound of the model: events the source buffers

ASSUME AsyncAssumption ==
    /\ ~Inline
    /\ Rate \in Nat \ {0} /\ BurstBudget \in Nat
    /\ CoalesceLimit \in Nat /\ MaxInbox \in Nat \ {0}

VARIABLES
    pc,         \* the point of run_async
    site,       \* the caller of the settle in progress: init, input, result, tick
    changed,    \* this batch must repaint
    coalesced,  \* events, or results, folded after the first one of the batch
    rate,       \* last_rate
    asks,       \* tick_rate of the app's present state
    fresh,      \* the screen shows the app's state and the terminal's size
    tick,       \* time left until the ticker's next multiple, or Never
    due,        \* a multiple has passed that no tick has been taken for
    burst,      \* time left of the batch's COALESCE_TIME_BUDGET
    inbox, eof, \* events of the source, and whether it has ended
    results,    \* the channel of off-loop messages
    crashed,    \* off-loop messages whose work panicked
    folded      \* messages update has seen

clock == <<tick, due, burst>>
loop  == <<pc, site, changed, coalesced, rate>>
app   == <<asks, fresh>>
world == <<inbox, eof, results, crashed>>
vars  == <<settleVars, clock, loop, app, world, folded>>

Never  == -1
Events == {"key", "resize"}
Ended  == pc \in {"stopped", "failed", "panicked"}

TypeOK ==
    /\ SettleTypeOK
    /\ pc \in {"settle", "present", "top", "input", "result", "tick", "idle", "burst",
               "drain", "stopped", "failed", "panicked"}
    /\ site \in {"init", "input", "result", "tick"}
    /\ changed \in BOOLEAN /\ rate \in BOOLEAN /\ asks \in BOOLEAN
    /\ fresh \in BOOLEAN /\ due \in BOOLEAN /\ eof \in BOOLEAN
    /\ coalesced \in 0..CoalesceLimit
    /\ tick \in (1..Rate) \cup {Never}
    /\ burst \in 0..BurstBudget
    /\ inbox \in Seq(Events) /\ results \in Seq(Nat)
    /\ crashed \subseteq Nat /\ folded \subseteq Nat

Init ==
    /\ SettleInit /\ todo \in Commands /\ Len(todo) <= MaxMessages
    /\ pc = "settle" /\ site = "init"
    /\ changed = FALSE /\ coalesced = 0 /\ rate = FALSE
    /\ asks \in BOOLEAN /\ fresh = FALSE
    /\ tick = Never /\ due = FALSE /\ burst = 0
    /\ inbox = <<>> /\ eof = FALSE
    /\ results = <<>> /\ crashed = {} /\ folded = {}

(* A step that only moves control. *)
Goto(p) ==
    /\ pc' = p
    /\ UNCHANGED <<settleVars, clock, site, changed, coalesced, rate, app, world, folded>>

-----------------------------------------------------------------------------
(* update(message), whose command goes to settle. *)
Step ==
    /\ \E cmd \in Offered : Submit(cmd)
    /\ pc' = "settle"
    /\ asks' \in BOOLEAN
    /\ fresh' = FALSE

(* A burst that goes on after a quit. *)
ReturnIgnoresQuit(quit) ==
    CASE site = "input" -> "burst" [] site = "result" -> "drain" [] OTHER -> "present"

(* Where control goes when a settle returns: a quit ends the batch, which  *)
(* has a change to show.                                                   *)
Return(quit) ==
    IF quit THEN "present"
    ELSE CASE site = "input" -> "burst" [] site = "result" -> "drain" [] OTHER -> "present"

SettleWork ==
    /\ pc = "settle" /\ DispatchWork
    /\ UNCHANGED <<clock, loop, app, world, folded>>

SettleQuit ==
    /\ pc = "settle" /\ DispatchQuit
    /\ pc' = Return(TRUE)
    /\ UNCHANGED <<clock, site, changed, coalesced, rate, app, world, folded>>

SettleReturn == pc = "settle" /\ Settled /\ Goto(Return(FALSE))

(* render, after the first settle and after every arm that changed         *)
(* something; then the loop's condition.                                   *)
Present ==
    /\ pc = "present"
    /\ fresh' = TRUE
    /\ pc' = IF running THEN "top" ELSE "stopped"
    /\ UNCHANGED <<settleVars, clock, site, changed, coalesced, rate, asks, world, folded>>

PresentFails == pc = "present" /\ Goto("failed")

(* A ticker that is rebuilt in every iteration. *)
ArmAlways ==
    /\ pc = "top"
    /\ rate' = asks /\ due' = FALSE
    /\ tick' = IF asks THEN Rate ELSE Never
    /\ pc' = "input"
    /\ UNCHANGED <<settleVars, burst, site, changed, coalesced, app, world, folded>>

(* The top of the loop: the ticker is rebuilt when tick_rate has changed.  *)
Arm ==
    /\ pc = "top"
    /\ rate' = asks
    /\ \/ asks = rate /\ UNCHANGED <<tick, due>>
       \/ asks # rate /\ due' = FALSE /\ tick' = IF asks THEN Rate ELSE Never
    /\ pc' = "input"
    /\ UNCHANGED <<settleVars, burst, site, changed, coalesced, app, world, folded>>

-----------------------------------------------------------------------------
(* handle_input: on_event makes a message of the event or ignores it. *)
HandleInput(event, before) ==
    /\ inbox' = Tail(inbox)
    /\ site' = "input"
    /\ \/ changed' = TRUE /\ Step
       \/ /\ changed' = (before \/ event = "resize")
          /\ fresh' = (fresh /\ event # "resize")
          /\ pc' = "burst"
          /\ UNCHANGED <<settleVars, asks>>
    /\ UNCHANGED <<tick, due, rate, eof, results, crashed, folded>>

(* The input arm: an event, the first of a batch ... *)
InputEvent ==
    /\ pc = "input" /\ inbox # <<>>
    /\ HandleInput(Head(inbox), FALSE)
    /\ coalesced' = 0 /\ burst' = BurstBudget

(* ... or the end of the input ... *)
InputEof ==
    /\ pc = "input" /\ inbox = <<>> /\ eof
    /\ running' = FALSE /\ pc' = "stopped"
    /\ UNCHANGED <<todo, pending, steps, issued, offloop, clock, site, changed, coalesced,
                   rate, app, world, folded>>

(* ... or an error; or nothing yet. *)
InputFails == pc \in {"input", "burst"} /\ Goto("failed")

InputPending == pc = "input" /\ inbox = <<>> /\ ~eof /\ Goto("result")

(* A batch that judges the repaint by its last event alone. *)
BurstLastOnly ==
    /\ pc = "burst" /\ inbox # <<>>
    /\ coalesced < CoalesceLimit /\ burst > 0
    /\ HandleInput(Head(inbox), FALSE)
    /\ coalesced' = coalesced + 1
    /\ UNCHANGED burst

(* The batch takes the events that are ready ... *)
Burst ==
    /\ pc = "burst" /\ inbox # <<>>
    /\ coalesced < CoalesceLimit /\ burst > 0
    /\ HandleInput(Head(inbox), changed)
    /\ coalesced' = coalesced + 1
    /\ UNCHANGED burst

BurstFull == coalesced = CoalesceLimit \/ burst = 0

(* ... up to its limits, the first pending poll or the end of the input.   *)
BurstEnd ==
    /\ pc = "burst" /\ (inbox = <<>> \/ BurstFull)
    /\ running' = (BurstFull \/ ~eof)
    /\ pc' = IF changed THEN "present" ELSE IF running' THEN "top" ELSE "stopped"
    /\ UNCHANGED <<todo, pending, steps, issued, offloop, clock, site, changed, coalesced,
                   rate, app, world, folded>>

-----------------------------------------------------------------------------
FoldResult ==
    /\ results # <<>>
    /\ results' = Tail(results)
    /\ folded' = folded \cup {Head(results)}
    /\ site' = "result"
    /\ Step
    /\ UNCHANGED <<clock, changed, rate, inbox, eof, crashed>>

(* A result arm that waits for an app that does not tick. *)
ResultUnlessTicking == pc = "result" /\ ~rate /\ FoldResult /\ coalesced' = 0

(* The result arm: one result and those queued behind it. *)
Result == pc = "result" /\ FoldResult /\ coalesced' = 0

ResultPending == pc = "result" /\ results = <<>> /\ Goto("tick")

Drain ==
    pc = "drain" /\ coalesced < CoalesceLimit /\ FoldResult /\ coalesced' = coalesced + 1

DrainEnd ==
    pc = "drain" /\ (results = <<>> \/ coalesced = CoalesceLimit) /\ Goto("present")

(* The tick arm: the ticker goes on to its next multiple, the missed ones  *)
(* skipped.                                                                *)
Tick ==
    /\ pc = "tick" /\ due
    /\ due' = FALSE
    /\ site' = "tick"
    /\ \/ Step
       \/ pc' = "present" /\ UNCHANGED <<settleVars, app>>
    /\ UNCHANGED <<tick, burst, changed, coalesced, rate, world, folded>>

TickPending == pc = "tick" /\ ~due /\ Goto("idle")

(* The task sleeps until a source wakes it. *)
Wake == pc = "idle" /\ (inbox # <<>> \/ eof \/ results # <<>> \/ due) /\ Goto("input")

-----------------------------------------------------------------------------
(* spawn_blocking, or the timer's task, has its message. *)
WorkDone(m) ==
    /\ m \in offloop
    /\ offloop' = offloop \ {m}
    /\ results' = IF Ended THEN results ELSE Append(results, m)
    /\ UNCHANGED <<todo, pending, steps, running, issued, clock, loop, app, inbox, eof,
                   crashed, folded>>

WorkPanics(m) ==
    /\ m \in offloop
    /\ offloop' = offloop \ {m}
    /\ crashed' = crashed \cup {m}
    /\ UNCHANGED <<todo, pending, steps, running, issued, clock, loop, app, inbox, eof,
                   results, folded>>

Arrive(event) ==
    /\ ~Ended /\ ~eof /\ Len(inbox) < MaxInbox
    /\ inbox' = Append(inbox, event)
    /\ UNCHANGED <<settleVars, clock, loop, app, eof, results, crashed, folded>>

InputEnds ==
    /\ ~Ended /\ ~eof
    /\ eof' = TRUE
    /\ UNCHANGED <<settleVars, clock, loop, app, inbox, results, crashed, folded>>

(* One unit of time passes. *)
Advance ==
    /\ ~Ended /\ (tick # Never \/ burst > 0)
    /\ burst' = IF burst > 0 THEN burst - 1 ELSE 0
    /\ tick' = IF tick = Never THEN Never ELSE IF tick = 1 THEN Rate ELSE tick - 1
    /\ due' = (due \/ tick = 1)
    /\ UNCHANGED <<settleVars, loop, app, world, folded>>

Loop ==
    \/ SettleWork \/ SettleQuit \/ SettleReturn \/ Present \/ Arm
    \/ InputEvent \/ InputEof \/ InputPending \/ Burst \/ BurstEnd
    \/ Result \/ ResultPending \/ Drain \/ DrainEnd
    \/ Tick \/ TickPending \/ Wake

World ==
    \/ \E m \in offloop : WorkDone(m) \/ WorkPanics(m)
    \/ \E event \in Events : Arrive(event)
    \/ InputEnds

Over == Ended /\ UNCHANGED vars

Next == Loop \/ PresentFails \/ InputFails \/ World \/ Advance \/ Over

Spec == Init /\ [][Next]_vars

(* The task is polled and time passes; nothing is asked of the source or   *)
(* of the workers.                                                         *)
FairSpec == Spec /\ WF_vars(Loop) /\ WF_vars(Advance)

-----------------------------------------------------------------------------
(* Whenever the task sleeps, and when it returns the app, the last frame   *)
(* shows every update and the terminal's present size, although batches    *)
(* and idle events skip repaints.                                          *)
ScreenCurrent == pc \in {"idle", "stopped"} => fresh

(* Once a quit settled, update never runs again: nothing of the batch, no  *)
(* result and no tick.  (The synchronous loops still serve a due tick.)    *)
QuitIsFinal == [][~running => ~Step]_vars

(* on_tick is called only of an app that asks for ticks at that moment,    *)
(* although input and results may stop the ticking after it fell due.      *)
TickOnlyWhenAsked == [][Tick => asks]_vars

(* "The cadence is a stable wall-clock schedule input does not reset": an  *)
(* app that goes on asking has ticks fall due for ever.                    *)
CadenceHolds == <>[]asks => []<>(due \/ Ended)

(* What the order of the select promises.  Results are folded if the poll  *)
(* of the input is pending again and again.  An app that goes on asking    *)
(* goes on getting ticks if input and results are both pending again and   *)
(* again: however often either of them is served in between, neither sets  *)
(* the ticker back.                                                        *)
ServedWhenQuiet ==
    /\ []<>(pc = "result" \/ Ended) =>
          \A m \in 1..MaxMessages : m \in Range(results) ~> m \in folded \/ Ended
    /\ <>[]asks /\ []<>(pc = "tick" \/ Ended) => []<><<Tick>>_vars \/ <>Ended

(* Until the task is over each deferred effect is in exactly one place: at *)
(* work, in the channel, folded, or its work panicked.  None is lost, also *)
(* of a batch that a quit cut short, and none is folded twice.  In no run: *)
(* a theorem of AsyncLoop_proofs.                                          *)
EachResultOnce ==
    ~Ended =>
        /\ offloop \cup Range(results) \cup crashed \cup folded = 1..issued
        /\ IsInjective(results)
        /\ offloop \cap (Range(results) \cup crashed \cup folded) = {}
        /\ Range(results) \cap (crashed \cup folded) = {}
        /\ crashed \cap folded = {}

(* "The wall-clock budget caps a never-ending flood so the tick/repaint    *)
(* cadence is never starved": a due tick is taken.  In no run: the code    *)
(* does not keep it, since the select polls input and results first        *)
(* (README).                                                               *)
TickServed == due ~> ~due \/ Ended

(* What became of each deferred effect, as Executor tells it.              *)
fate ==
    [m \in 1..MaxMessages |-> IF m > issued THEN "new"
                              ELSE IF m \in offloop THEN "deferred"
                              ELSE IF m \in crashed THEN "lost" ELSE "sent"]

Exec == INSTANCE Executor WITH Jobs <- 1..MaxMessages, Panicky <- 1..MaxMessages,
                               over <- Ended

(* run_async with the runtime's threads is a client with its Executor: it  *)
(* defers nothing twice and nothing once it has returned, and a job sends  *)
(* at most one message.  In no run: a theorem of AsyncLoop_proofs.         *)
KeepsToExecutor == Exec!Spec
=============================================================================
