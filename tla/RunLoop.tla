------------------------------ MODULE RunLoop -------------------------------
(***************************************************************************)
(* run_core (rstui-runtime, run.rs): the one loop behind run, run_threaded *)
(* and run_pooled, from Terminal::new to the return of the app.            *)
(*                                                                         *)
(* The loop is one thread; pc is the point it has reached.  Beside it run  *)
(* the input device (inbox, eof), the off-loop workers (offloop, results,  *)
(* crashed) and the clock.  An Instant is kept as the time left until it,  *)
(* a Duration as a number of units; Advance lets one unit pass anywhere.   *)
(***************************************************************************)
EXTENDS Settle, Functions

CONSTANTS
    Rate,           \* the period tick_rate returns when it returns Some
    TickChoices,    \* what tick_rate may be: FALSE is None, TRUE is Some(Rate)
    PollInterval,   \* COMMAND_POLL_INTERVAL
    BurstBudget,    \* COALESCE_TIME_BUDGET
    CoalesceLimit,  \* COALESCE_LIMIT
    MaxInbox        \* bound of the model: events the device buffers

ASSUME RunLoopAssumption ==
    /\ Rate \in Nat \ {0}
    /\ TickChoices \subseteq BOOLEAN /\ TickChoices # {}
    /\ PollInterval \in Nat \ {0}
    /\ BurstBudget \in Nat
    /\ CoalesceLimit \in Nat
    /\ MaxInbox \in Nat \ {0}

VARIABLES
    pc,         \* the point of run_core
    site,       \* the caller of the settle in progress: init, drain, input, tick
    changed,    \* changed / drained_any: this iteration must repaint
    coalesced,  \* events folded after the first one of the batch
    rate,       \* the local rate: tick_rate as read at the top of the iteration
    asks,       \* tick_rate of the app's present state
    fresh,      \* the screen shows the app's state and the terminal's size
    tick,       \* time left until next_tick, or Never
    wait,       \* time left of the poll's timeout, or Never
    burst,      \* time left of the batch's COALESCE_TIME_BUDGET
    since,      \* time since the last tick, counted up to Rate
    inbox,      \* events the input device has buffered
    eof,        \* the input has ended
    results,    \* the channel of off-loop messages
    crashed,    \* off-loop messages whose work panicked
    folded      \* messages update has seen

clock == <<tick, wait, burst, since>>
loop  == <<pc, site, changed, coalesced, rate>>
app   == <<asks, fresh>>
world == <<inbox, eof, results, crashed>>
vars  == <<settleVars, clock, loop, app, world, folded>>

Never  == -1
Events == {"key", "resize"}
Native == Events \cup {"other"}  \* "other": a native event rstui does not model
Points == {"settle", "drain", "arm", "poll", "coalesce", "duetick", "present",
           "stopped", "failed", "panicked"}
Ended  == pc \in {"stopped", "failed", "panicked"}

TypeOK ==
    /\ SettleTypeOK
    /\ pc \in Points
    /\ site \in {"init", "drain", "input", "tick"}
    /\ changed \in BOOLEAN /\ rate \in BOOLEAN /\ asks \in BOOLEAN
    /\ fresh \in BOOLEAN /\ eof \in BOOLEAN
    /\ coalesced \in 0..CoalesceLimit
    /\ tick \in (0..Rate) \cup {Never}
    /\ wait \in Nat \cup {Never}
    /\ burst \in 0..BurstBudget
    /\ since \in 0..Rate
    /\ inbox \in Seq(Native)
    /\ results \in Seq(Nat)
    /\ crashed \subseteq Nat
    /\ folded \subseteq Nat

(* init() ran and its command is about to be settled. *)
Init ==
    /\ SettleInit /\ todo \in Commands /\ Len(todo) <= MaxMessages
    /\ pc = "settle" /\ site = "init"
    /\ changed = FALSE /\ coalesced = 0 /\ rate = FALSE
    /\ asks \in TickChoices /\ fresh = FALSE
    /\ tick = Never /\ wait = Never /\ burst = 0 /\ since = Rate
    /\ inbox = <<>> /\ eof = FALSE
    /\ results = <<>> /\ crashed = {} /\ folded = {}

-----------------------------------------------------------------------------
(* update(message): the app's state changes, its screen is out of date and *)
(* the command it returns goes to settle.                                  *)
Step ==
    /\ \E cmd \in Offered : Submit(cmd)
    /\ pc' = "settle"
    /\ asks' \in TickChoices
    /\ fresh' = FALSE

(* A loop that goes back to its poll without draining the results. *)
IterateSkipsDrain == "arm"

(* The top of the while loop. *)
Iterate == IF Inline THEN "arm" ELSE "drain"

(* A coalescing drain that does not look at the outcome of its settle. *)
ReturnIgnoresQuit(quit) ==
    CASE site = "input" -> "coalesce"
      [] site = "drain" -> IF quit THEN "present" ELSE "drain"
      [] OTHER -> "present"

(* Where control goes when the settle called from site returns. *)
Return(quit) ==
    CASE site = "input" -> IF quit THEN "duetick" ELSE "coalesce"
      [] site = "drain" -> IF quit THEN "present" ELSE "drain"
      [] OTHER -> "present"

SettleWork ==
    /\ pc = "settle" /\ DispatchWork
    /\ UNCHANGED <<clock, loop, app, world, folded>>

SettleQuit ==
    /\ pc = "settle" /\ DispatchQuit
    /\ pc' = Return(TRUE)
    /\ UNCHANGED <<clock, site, changed, coalesced, rate, app, world, folded>>

SettleFold ==
    /\ pc = "settle"
    /\ \E cmd \in Offered : Fold(cmd)
    /\ asks' \in TickChoices
    /\ fresh' = FALSE
    /\ folded' = folded \cup {Head(pending)}
    /\ UNCHANGED <<clock, loop, world>>

SettlePanic ==
    /\ pc = "settle" /\ OverBudget
    /\ pc' = "panicked"
    /\ UNCHANGED <<settleVars, clock, site, changed, coalesced, rate, app,
                   world, folded>>

SettleReturn ==
    /\ pc = "settle" /\ Settled
    /\ pc' = Return(FALSE)
    /\ UNCHANGED <<settleVars, clock, site, changed, coalesced, rate, app,
                   world, folded>>

-----------------------------------------------------------------------------
(* A drain that forgets that a result changed the app. *)
DrainResultUnmarked ==
    /\ pc = "drain" /\ results # <<>>
    /\ results' = Tail(results)
    /\ folded' = folded \cup {Head(results)}
    /\ site' = "drain"
    /\ Step
    /\ UNCHANGED <<clock, changed, coalesced, rate, inbox, eof, crashed>>

(* The off-loop loop folds every result that has arrived ... *)
DrainResult ==
    /\ pc = "drain" /\ results # <<>>
    /\ results' = Tail(results)
    /\ folded' = folded \cup {Head(results)}
    /\ site' = "drain" /\ changed' = TRUE
    /\ Step
    /\ UNCHANGED <<clock, coalesced, rate, inbox, eof, crashed>>

(* ... until try_recv finds none, and repaints if there was one. *)
DrainEmpty ==
    /\ pc = "drain" /\ results = <<>>
    /\ site' = "drain"
    /\ pc' = IF changed THEN "present" ELSE "arm"
    /\ UNCHANGED <<settleVars, clock, changed, coalesced, rate, app, world, folded>>

(* tick_rate is read, next_tick is armed or cleared and the timeout chosen. *)
Arm ==
    /\ pc = "arm"
    /\ rate' = asks
    /\ tick' = IF ~asks THEN Never ELSE IF tick = Never THEN Rate ELSE tick
    /\ wait' = IF Inline \/ (tick' # Never /\ tick' < PollInterval)
               THEN tick' ELSE PollInterval
    /\ pc' = "poll"
    /\ UNCHANGED <<settleVars, burst, since, site, changed, coalesced, app,
                   world, folded>>

(* handle_input: on_event makes a message of the event or ignores it.  A   *)
(* resize changes what view reads, message or not.                         *)
HandleInput(event, before) ==
    /\ inbox' = Tail(inbox)
    /\ site' = "input"
    /\ \/ changed' = TRUE /\ Step
       \/ /\ changed' = (before \/ event = "resize")
          /\ fresh' = (fresh /\ event # "resize")
          /\ pc' = "coalesce"
          /\ UNCHANGED <<settleVars, asks>>
    /\ UNCHANGED <<rate, eof, results, crashed, folded>>

(* The next thing the device has is an event rstui models, or is not. *)
Ready   == inbox # <<>> /\ Head(inbox) \in Events
Foreign == inbox # <<>> /\ Head(inbox) \notin Events

(* poll_event returned Some: the first event of a batch. *)
PollEvent ==
    /\ pc = "poll" /\ Ready
    /\ HandleInput(Head(inbox), FALSE)
    /\ coalesced' = 0 /\ burst' = BurstBudget
    /\ UNCHANGED <<tick, wait, since>>

(* A drain of the input that only an empty device ends. *)
CoalesceUnbounded ==
    /\ pc = "coalesce" /\ Ready
    /\ HandleInput(Head(inbox), changed)
    /\ UNCHANGED <<clock, coalesced>>

(* The coalescing drain folds the next event that is already there ... *)
Coalesce ==
    /\ pc = "coalesce" /\ Ready
    /\ coalesced < CoalesceLimit /\ burst > 0
    /\ HandleInput(Head(inbox), changed)
    /\ coalesced' = coalesced + 1
    /\ UNCHANGED clock

(* ... and ends at its count or its time limit, or when a poll that does   *)
(* not block returns None: the burst is over, or what was read is foreign. *)
CoalesceEnd ==
    /\ pc = "coalesce"
    /\ \/ /\ inbox = <<>> \/ coalesced = CoalesceLimit \/ burst = 0
          /\ UNCHANGED inbox
       \/ /\ Foreign /\ coalesced < CoalesceLimit /\ burst > 0
          /\ inbox' = Tail(inbox)
    /\ pc' = "duetick"
    /\ UNCHANGED <<settleVars, clock, site, changed, coalesced, rate, app,
                   eof, results, crashed, folded>>

(* A tick: next_tick is armed anew from now and on_tick makes a message or *)
(* none.  Every tick is followed by a repaint.                             *)
Tick ==
    /\ tick' = Rate /\ since' = 0
    /\ site' = "tick" /\ changed' = TRUE
    /\ \/ Step
       \/ pc' = "present" /\ UNCHANGED <<settleVars, app>>
    /\ UNCHANGED <<wait, burst, coalesced, rate, eof, results, crashed, folded>>

(* A loop that ticks only when its poll times out. *)
NoTickInBatch == FALSE

(* A tick fell due while a batch was folded: the deadline is past, under   *)
(* the rate that was read before the batch.                                *)
TickInBatch == rate /\ tick = 0

DueTick == pc = "duetick" /\ TickInBatch /\ Tick /\ UNCHANGED inbox

NoDueTick ==
    /\ pc = "duetick" /\ ~TickInBatch
    /\ pc' = IF changed THEN "present" ELSE Iterate
    /\ UNCHANGED <<settleVars, clock, site, changed, coalesced, rate, app,
                   world, folded>>

(* poll_event returns None to a bounded wait: it timed out, the source has *)
(* ended, or, sooner than either, the one event it read is foreign.        *)
PollNone ==
    /\ wait # Never
    /\ \/ inbox = <<>> /\ (wait = 0 \/ eof) /\ UNCHANGED inbox
       \/ Foreign /\ inbox' = Tail(inbox)

(* ... and the app is ticking. *)
PollTick == pc = "poll" /\ rate /\ PollNone /\ Tick

(* ... and it is not: off the loop this is the wake-up that drains the     *)
(* results.                                                                *)
PollWake ==
    /\ pc = "poll" /\ ~rate /\ PollNone
    /\ pc' = Iterate
    /\ UNCHANGED <<settleVars, clock, site, changed, coalesced, rate, app,
                   eof, results, crashed, folded>>

(* The unbounded wait reads past what rstui does not model. *)
PollSkip ==
    /\ pc = "poll" /\ wait = Never /\ Foreign
    /\ inbox' = Tail(inbox)
    /\ UNCHANGED <<settleVars, clock, loop, app, eof, results, crashed, folded>>

(* The unbounded wait of the inline loop returned None: input is over. *)
PollEof ==
    /\ pc = "poll" /\ inbox = <<>> /\ eof /\ wait = Never
    /\ running' = FALSE
    /\ pc' = "stopped"
    /\ UNCHANGED <<todo, pending, steps, issued, offloop, clock, site, changed,
                   coalesced, rate, app, world, folded>>

(* RunError::Input. *)
PollFails ==
    /\ pc \in {"poll", "coalesce"}
    /\ pc' = "failed"
    /\ UNCHANGED <<settleVars, clock, site, changed, coalesced, rate, app,
                   world, folded>>

(* render: view and flush.  After the first frame, the results or a batch  *)
(* control goes where the source's loop goes.                              *)
Present ==
    /\ pc = "present"
    /\ fresh' = TRUE /\ changed' = FALSE
    /\ pc' = IF ~running THEN "stopped"
             ELSE IF site = "drain" THEN "arm" ELSE Iterate
    /\ UNCHANGED <<settleVars, clock, site, coalesced, rate, asks, world, folded>>

(* RunError::Backend. *)
PresentFails ==
    /\ pc = "present"
    /\ pc' = "failed"
    /\ UNCHANGED <<settleVars, clock, site, changed, coalesced, rate, app,
                   world, folded>>

-----------------------------------------------------------------------------
(* A channel that drops a message while another one waits in it. *)
WorkDoneDrops(m) ==
    /\ m \in offloop
    /\ offloop' = offloop \ {m}
    /\ results' = IF Ended \/ results # <<>> THEN results ELSE Append(results, m)
    /\ UNCHANGED <<todo, pending, steps, running, issued, clock, loop, app,
                   inbox, eof, crashed, folded>>

(* The work of a deferred effect ends.  Once the loop has returned its     *)
(* receiver is gone and the send fails silently.                           *)
WorkDone(m) ==
    /\ m \in offloop
    /\ offloop' = offloop \ {m}
    /\ results' = IF Ended THEN results ELSE Append(results, m)
    /\ UNCHANGED <<todo, pending, steps, running, issued, clock, loop, app,
                   inbox, eof, crashed, folded>>

(* The work panics on its own thread: there is no message. *)
WorkPanics(m) ==
    /\ m \in offloop
    /\ offloop' = offloop \ {m}
    /\ crashed' = crashed \cup {m}
    /\ UNCHANGED <<todo, pending, steps, running, issued, clock, loop, app,
                   inbox, eof, results, folded>>

Arrive(event) ==
    /\ ~Ended /\ ~eof /\ Len(inbox) < MaxInbox
    /\ inbox' = Append(inbox, event)
    /\ UNCHANGED <<settleVars, clock, loop, app, eof, results, crashed, folded>>

InputEnds ==
    /\ ~Ended /\ ~eof
    /\ eof' = TRUE
    /\ UNCHANGED <<settleVars, clock, loop, app, inbox, results, crashed, folded>>

Less(t) == IF t > 0 THEN t - 1 ELSE t

(* One unit of time passes. *)
Advance ==
    /\ ~Ended
    /\ tick > 0 \/ wait > 0 \/ burst > 0 \/ since < Rate
    /\ tick' = Less(tick) /\ wait' = Less(wait) /\ burst' = Less(burst)
    /\ since' = IF since < Rate THEN since + 1 ELSE since
    /\ UNCHANGED <<settleVars, loop, app, world, folded>>

Loop ==
    \/ SettleWork \/ SettleQuit \/ SettleFold \/ SettlePanic \/ SettleReturn
    \/ DrainResult \/ DrainEmpty \/ Arm
    \/ PollEvent \/ PollTick \/ PollWake \/ PollSkip \/ PollEof
    \/ Coalesce \/ CoalesceEnd \/ DueTick \/ NoDueTick
    \/ Present

Failure == PollFails \/ PresentFails

World ==
    \/ \E m \in offloop : WorkDone(m) \/ WorkPanics(m)
    \/ \E event \in Native : Arrive(event)
    \/ InputEnds

(* run_core has returned (or unwound): nothing but the workers moves. *)
Over == Ended /\ UNCHANGED vars

Next == Loop \/ Failure \/ World \/ Advance \/ Over

Spec == Init /\ [][Next]_vars

(* The loop's thread is scheduled and time passes; nothing is asked of the *)
(* device or of the workers.                                               *)
Fairness == WF_vars(Loop) /\ WF_vars(Advance)

FairSpec == Spec /\ Fairness

-----------------------------------------------------------------------------
(* "So the screen is meaningful": whenever the loop waits for input, and   *)
(* when it returns normally, the last frame shows every update and the     *)
(* terminal's present size, although batches, drains and idle events skip  *)
(* repaints.                                                               *)
ScreenCurrent == pc \in {"poll", "stopped"} => fresh

(* The k numbers up to n. *)
Run(n, k) == [i \in 1..k |-> n - k + i]

(* Inline, the messages not yet folded are the latest ones, oldest first:  *)
(* a cascade of commands is folded breadth first and in order, with no     *)
(* message skipped.                                                        *)
FoldOrder == Inline /\ running => pending = Run(issued, Len(pending))

(* Inline, every message a command produced has been folded before the     *)
(* next input event is read.                                               *)
SettledBeforeInput ==
    Inline /\ pc \in {"poll", "coalesce"} => folded = 1..issued

(* While the program runs, each deferred effect is in exactly one place:   *)
(* still working, in the channel, in settle's queue, folded, or its work   *)
(* panicked.  None is lost and none is folded twice.                       *)
EachResultOnce ==
    running /\ ~Ended =>
        /\ offloop \cup Range(results) \cup Range(pending)
               \cup crashed \cup folded = 1..issued
        /\ Cardinality(offloop) + Len(results) + Len(pending)
               + Cardinality(crashed) + Cardinality(folded) = issued

(* A tick never comes sooner than its period after the tick before it.  In *)
(* no run: the loop takes every None of a poll for the end of the period   *)
(* (README).                                                               *)
TickCadence == [][DueTick \/ PollTick => since = Rate]_vars

(* What does hold: the tick of a batch keeps the cadence.  One at the poll *)
(* comes early only when the poll ended early: off the loop after a whole  *)
(* poll interval, else because input has ended or the poll read an event   *)
(* rstui does not model.  In no run: a theorem of RunLoop_proofs.          *)
EarlyTickCause ==
    [][/\ DueTick => since = Rate
       /\ PollTick => \/ since = Rate
                      \/ ~Inline /\ since >= PollInterval
                      \/ eof \/ inbox' # inbox]_vars

(* Once a quit settled, no input event and no result reaches update: only  *)
(* a tick that fell due in the batch of the quit is still served.          *)
QuitEndsInput == [][~running /\ pc' = "settle" => site' = "tick"]_vars

(* A due tick is served, or the app stops ticking, even while events never *)
(* cease to arrive.                                                        *)
TickServed == tick = 0 ~> tick # 0 \/ Ended

(* A change reaches the screen even while events never cease to arrive.    *)
RepaintServed == ~fresh ~> fresh \/ Ended

(* A result in the channel is folded unless the program stops first.       *)
ResultServed ==
    \A m \in 1..MaxMessages :
        m \in Range(results) ~> m \in folded \/ Ended

(* What became of each deferred effect, as Executor tells it.              *)
fate ==
    [m \in 1..MaxMessages |-> IF m > issued THEN "new"
                              ELSE IF m \in offloop THEN "deferred"
                              ELSE IF m \in crashed THEN "lost" ELSE "sent"]

Exec == INSTANCE Executor WITH Jobs <- 1..MaxMessages, Panicky <- 1..MaxMessages,
                               over <- Ended

(* Off the loop, the loop with its workers is a client with its Executor:  *)
(* it defers nothing twice and nothing once it has returned, and a job     *)
(* sends at most one message.  In no run: a theorem of RunLoop_proofs.     *)
KeepsToExecutor == ~Inline => Exec!Spec
=============================================================================
