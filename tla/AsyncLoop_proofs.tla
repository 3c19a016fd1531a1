-------------------------- MODULE AsyncLoop_proofs --------------------------
(* Theorems about AsyncLoop, for every value of its constants. *)
EXTENDS AsyncLoop, SequenceTheorems, TLAPS

-----------------------------------------------------------------------------
(* Sequences stay sequences under the operations of a queue. *)
LEMMA QueueType ==
    ASSUME NEW S
    PROVE  /\ <<>> \in Seq(S)
           /\ \A s \in Seq(S), e \in S : Append(s, e) \in Seq(S)
           /\ \A s \in Seq(S) : s # <<>> => Head(s) \in S /\ Tail(s) \in Seq(S)
<1>1. <<>> \in Seq(S)
  BY EmptySeq
<1>2. ASSUME NEW s \in Seq(S), NEW e \in S PROVE Append(s, e) \in Seq(S)
  BY AppendProperties
<1>3. ASSUME NEW s \in Seq(S), s # <<>> PROVE Head(s) \in S /\ Tail(s) \in Seq(S)
  BY <1>3, HeadTailProperties
<1> QED BY <1>1, <1>2, <1>3

(* An empty queue has no elements. *)
LEMMA EmptyQueue == Range(<<>>) = {} /\ IsInjective(<<>>) /\ Len(<<>>) = 0
BY EmptySeq, LenProperties DEF Range, IsInjective

(* What a push adds. *)
LEMMA PushQueue ==
    ASSUME NEW S, NEW s \in Seq(S), NEW e \in S
    PROVE  /\ Len(Append(s, e)) = Len(s) + 1
           /\ Range(Append(s, e)) = Range(s) \cup {e}
           /\ IsInjective(s) /\ e \notin Range(s) => IsInjective(Append(s, e))
<1> DEFINE t == Append(s, e)
<1>1. /\ Len(s) \in Nat /\ DOMAIN s = 1..Len(s)
      /\ t \in Seq(S) /\ Len(t) = Len(s) + 1 /\ DOMAIN t = 1..(Len(s) + 1)
      /\ \A i \in 1..Len(s) : t[i] = s[i]
      /\ t[Len(s) + 1] = e
  BY AppendProperties, LenProperties
<1> HIDE DEF t
<1>2. Range(t) = Range(s) \cup {e}
  BY <1>1 DEF Range
<1>3. IsInjective(s) /\ e \notin Range(s) => IsInjective(t)
  BY <1>1 DEF Range, IsInjective
<1> QED BY <1>1, <1>2, <1>3 DEF t

(* What a pop removes. *)
LEMMA PopQueue ==
    ASSUME NEW S, NEW s \in Seq(S), s # <<>>
    PROVE  /\ Len(s) >= 1 /\ Len(Tail(s)) = Len(s) - 1
           /\ Range(s) = Range(Tail(s)) \cup {Head(s)}
           /\ IsInjective(s) => IsInjective(Tail(s)) /\ Head(s) \notin Range(Tail(s))
<1> DEFINE t == Tail(s)
<1>1. /\ Len(s) \in Nat \ {0} /\ DOMAIN s = 1..Len(s)
      /\ Len(t) = Len(s) - 1 /\ DOMAIN t = 1..(Len(s) - 1)
      /\ \A i \in 1..(Len(s) - 1) : t[i] = s[i + 1]
      /\ Head(s) = s[1]
  BY EmptySeq, HeadTailProperties, LenProperties
<1> HIDE DEF t
<1>2. ASSUME NEW i \in 1..Len(s), i # 1 PROVE i - 1 \in 1..(Len(s) - 1) /\ s[i] = t[i - 1]
  BY <1>1, <1>2
<1>3. \A i \in 1..(Len(s) - 1) : i + 1 \in 1..Len(s) /\ t[i] = s[i + 1]
  BY <1>1
<1>4. Range(s) = Range(t) \cup {Head(s)}
  <2>1. \A x \in Range(t) \cup {Head(s)} : x \in Range(s)
    BY <1>1, <1>3, 1 \in 1..Len(s) DEF Range
  <2>2. ASSUME NEW i \in 1..Len(s) PROVE s[i] \in Range(t) \cup {Head(s)}
    BY <1>1, <1>2 DEF Range
  <2>3. \A x \in Range(s) : \E i \in 1..Len(s) : x = s[i]
    BY <1>1 DEF Range
  <2>4. \A x \in Range(s) : x \in Range(t) \cup {Head(s)}
    BY <2>2, <2>3
  <2> QED BY <2>1, <2>4
<1>5. ASSUME IsInjective(s) PROVE IsInjective(t)
  <2>1. ASSUME NEW i \in 1..(Len(s) - 1), NEW k \in 1..(Len(s) - 1), t[i] = t[k]
        PROVE  i = k
    <3>1. s[i + 1] = s[k + 1] /\ i + 1 \in DOMAIN s /\ k + 1 \in DOMAIN s
      BY <1>1, <1>3, <2>1
    <3>2. i + 1 = k + 1
      BY <1>5, <3>1 DEF IsInjective
    <3> QED BY <3>2
  <2> QED BY <1>1, <2>1 DEF IsInjective
<1>6. ASSUME IsInjective(s), NEW i \in 1..(Len(s) - 1) PROVE t[i] # Head(s)
  <2>1. s[i + 1] # s[1]
    BY <1>1, <1>3, <1>6 DEF IsInjective
  <2> QED BY <1>1, <1>3, <2>1
<1>7. IsInjective(s) => Head(s) \notin Range(t)
  BY <1>1, <1>6 DEF Range
<1>8. Len(s) >= 1
  BY <1>1
<1> QED BY <1>1, <1>4, <1>5, <1>7, <1>8 DEF t

-----------------------------------------------------------------------------
Points == {"settle", "present", "top", "input", "result", "tick", "idle", "burst",
           "drain", "stopped", "failed", "panicked"}

(* update's part of a step. *)
LEMMA StepType ==
    ASSUME TypeOK, Step
    PROVE  SettleTypeOK' /\ pc' = "settle" /\ asks' \in BOOLEAN /\ fresh' = FALSE
<1>1. PICK cmd \in Offered : Submit(cmd)
  BY DEF Step
<1>2. SettleTypeOK'
  BY <1>1, SettleAssumption, QueueType DEF TypeOK, SettleTypeOK, Offered, Submit
<1> QED BY <1>2 DEF Step

LEMMA HandleInputType ==
    ASSUME TypeOK, inbox # <<>>, NEW before \in BOOLEAN,
           HandleInput(Head(inbox), before),
           coalesced' \in 0..CoalesceLimit, burst' \in 0..BurstBudget
    PROVE  TypeOK'
<1>1. inbox' \in Seq(Events)
  BY QueueType DEF TypeOK, HandleInput
<1>2. /\ SettleTypeOK' /\ pc' \in Points
      /\ asks' \in BOOLEAN /\ fresh' \in BOOLEAN /\ changed' \in BOOLEAN
  <2>1. CASE changed' = TRUE /\ Step
    BY <2>1, StepType DEF Points
  <2>2. CASE changed' = (before \/ Head(inbox) = "resize")
             /\ fresh' = (fresh /\ Head(inbox) # "resize")
             /\ pc' = "burst" /\ UNCHANGED <<settleVars, asks>>
    BY <2>2 DEF TypeOK, SettleTypeOK, settleVars, Points
  <2> QED BY <2>1, <2>2 DEF HandleInput
<1>3. UNCHANGED <<tick, due, rate, eof, results, crashed, folded>> /\ site' = "input"
  BY DEF HandleInput
<1> QED BY <1>1, <1>2, <1>3 DEF TypeOK, Points

(* A result taken from the channel. *)
LEMMA FoldResultType ==
    ASSUME TypeOK, FoldResult, coalesced' \in 0..CoalesceLimit
    PROVE  TypeOK'
<1>1. results' \in Seq(Nat) /\ folded' \subseteq Nat
  BY QueueType DEF TypeOK, FoldResult
<1>2. SettleTypeOK' /\ pc' = "settle" /\ asks' \in BOOLEAN /\ fresh' = FALSE
  BY StepType DEF FoldResult
<1> QED BY <1>1, <1>2 DEF TypeOK, FoldResult, clock

LEMMA TypeInit == Init => TypeOK
<1> SUFFICES ASSUME Init PROVE TypeOK
  OBVIOUS
<1>1. SettleTypeOK
  BY SettleAssumption, QueueType DEF Init, SettleInit, SettleTypeOK
<1>2. inbox \in Seq(Events) /\ results \in Seq(Nat)
  BY QueueType DEF Init
<1>3. coalesced \in 0..CoalesceLimit /\ burst \in 0..BurstBudget
  BY AsyncAssumption DEF Init
<1> QED BY <1>1, <1>2, <1>3 DEF Init, TypeOK

(* Every step of run_async and of its surroundings keeps the types. *)
LEMMA TypeStep == TypeOK /\ [Next]_vars => TypeOK'
<1> SUFFICES ASSUME TypeOK, [Next]_vars PROVE TypeOK'
  OBVIOUS
<1> USE DEF clock, app, world
<1>g. ASSUME NEW p \in Points, Goto(p) PROVE TypeOK'
  BY <1>g DEF Goto, TypeOK, SettleTypeOK, settleVars, Points
<1>1. CASE SettleWork
  <2>1. todo' \in Seq(Effects) /\ issued' \in Nat /\ issued + 1 \in Nat
    BY <1>1 DEF TypeOK, SettleTypeOK, SettleWork, DispatchWork
  <2>2. offloop' = offloop \cup {issued + 1} /\ UNCHANGED <<pending, steps, running>>
    BY <1>1, AsyncAssumption DEF SettleWork, DispatchWork
  <2> QED BY <1>1, <2>1, <2>2 DEF TypeOK, SettleTypeOK, SettleWork, loop
<1>2. CASE SettleQuit
  <2>1. pc' \in Points
    BY <1>2 DEF SettleQuit, Return, Points
  <2>2. SettleTypeOK'
    BY <1>2, QueueType DEF TypeOK, SettleTypeOK, SettleQuit, DispatchQuit
  <2> QED BY <1>2, <2>1, <2>2 DEF TypeOK, SettleQuit, Points
<1>3. CASE SettleReturn
  BY <1>3, <1>g DEF SettleReturn, Return, TypeOK, Points
<1>4. CASE Present
  BY <1>4 DEF Present, TypeOK, SettleTypeOK, settleVars
<1>5. CASE Arm
  <2>1. /\ tick' = tick \/ tick' = Rate \/ tick' = Never
        /\ due' = due \/ due' = FALSE
    BY <1>5 DEF Arm
  <2>2. Rate \in 1..Rate
    BY AsyncAssumption
  <2>3. tick' \in (1..Rate) \cup {Never} /\ due' \in BOOLEAN
    BY <2>1, <2>2 DEF TypeOK
  <2> QED BY <1>5, <2>3 DEF Arm, TypeOK, SettleTypeOK, settleVars
<1>6. CASE InputEvent
  <2>1. coalesced' \in 0..CoalesceLimit /\ burst' \in 0..BurstBudget
    BY <1>6, AsyncAssumption DEF InputEvent
  <2> QED BY <1>6, <2>1, HandleInputType DEF InputEvent
<1>7. CASE Burst
  <2>1. coalesced' \in 0..CoalesceLimit /\ burst' \in 0..BurstBudget
    BY <1>7, AsyncAssumption DEF Burst, TypeOK
  <2> QED BY <1>7, <2>1, HandleInputType DEF Burst, TypeOK
<1>8. CASE InputEof
  BY <1>8 DEF InputEof, TypeOK, SettleTypeOK
<1>9. CASE BurstEnd
  <2>1. running' \in BOOLEAN /\ pc' \in {"present", "top", "stopped"}
    BY <1>9 DEF BurstEnd, BurstFull, TypeOK
  <2> QED BY <1>9, <2>1 DEF BurstEnd, TypeOK, SettleTypeOK
<1>10. CASE InputPending \/ ResultPending \/ DrainEnd \/ TickPending \/ Wake
            \/ PresentFails \/ InputFails
  BY <1>10, <1>g DEF InputPending, ResultPending, DrainEnd, TickPending, Wake,
                     PresentFails, InputFails, Points
<1>11. CASE Result
  BY <1>11, FoldResultType, AsyncAssumption DEF Result
<1>12. CASE Drain
  <2>1. coalesced' \in 0..CoalesceLimit
    BY <1>12, AsyncAssumption DEF Drain, TypeOK
  <2> QED BY <1>12, <2>1, FoldResultType DEF Drain
<1>13. CASE Tick
  <2>1. /\ SettleTypeOK' /\ pc' \in {"settle", "present"}
        /\ asks' \in BOOLEAN /\ fresh' \in BOOLEAN
    <3>1. CASE Step
      BY <3>1, StepType
    <3>2. CASE pc' = "present" /\ UNCHANGED <<settleVars, app>>
      BY <3>2 DEF TypeOK, SettleTypeOK, settleVars
    <3> QED BY <1>13, <3>1, <3>2 DEF Tick
  <2> QED BY <1>13, <2>1 DEF Tick, TypeOK
<1>14. ASSUME NEW m \in offloop, WorkDone(m) \/ WorkPanics(m) PROVE TypeOK'
  <2>1. m \in Nat
    BY DEF TypeOK, SettleTypeOK
  <2>2. results' \in Seq(Nat)
    <3>1. results' = results \/ results' = Append(results, m)
      BY <1>14 DEF WorkDone, WorkPanics
    <3> QED BY <2>1, <3>1, QueueType DEF TypeOK
  <2>3. /\ offloop' \subseteq Nat /\ crashed' \subseteq Nat
        /\ UNCHANGED <<todo, pending, steps, running, issued, clock, loop, app, inbox, eof,
                       folded>>
    BY <1>14, <2>1 DEF TypeOK, SettleTypeOK, WorkDone, WorkPanics
  <2> QED BY <2>2, <2>3 DEF TypeOK, SettleTypeOK, loop
<1>15. ASSUME NEW event \in Events, Arrive(event) PROVE TypeOK'
  <2>1. inbox' \in Seq(Events)
    BY <1>15, QueueType DEF TypeOK, Arrive
  <2> QED BY <1>15, <2>1 DEF TypeOK, SettleTypeOK, settleVars, Arrive, loop
<1>16. CASE InputEnds
  BY <1>16 DEF InputEnds, TypeOK, SettleTypeOK, settleVars, loop
<1>17. CASE Advance
  <2>1. burst' \in 0..BurstBudget /\ tick' \in (1..Rate) \cup {Never} /\ due' \in BOOLEAN
    BY <1>17, AsyncAssumption DEF Advance, TypeOK, Never
  <2> QED BY <1>17, <2>1 DEF Advance, TypeOK, SettleTypeOK, settleVars, loop
<1>18. CASE UNCHANGED vars
  BY <1>18 DEF vars, TypeOK, SettleTypeOK, settleVars, loop
<1> QED
  BY <1>1, <1>2, <1>3, <1>4, <1>5, <1>6, <1>7, <1>8, <1>9, <1>10, <1>11, <1>12,
     <1>13, <1>14, <1>15, <1>16, <1>17, <1>18 DEF Next, Loop, World, Over

(* Type correctness: the batch stays within its limits, and the ticker     *)
(* within its period.                                                      *)
THEOREM TypeCorrect == Spec => []TypeOK
BY TypeInit, TypeStep, PTL DEF Spec

-----------------------------------------------------------------------------
(* Why no frame is stale: from the top of the loop to the select, and in a *)
(* batch that will not repaint, the screen is current; an update of a      *)
(* batch marks the batch as changed.                                       *)
ScreenInv ==
    /\ pc \in {"top", "input", "result", "tick", "idle", "stopped"} => fresh
    /\ pc = "burst" => fresh \/ changed
    /\ pc = "settle" /\ site = "input" => changed

(* A quit settles only on the way to the last frame. *)
QuitInv ==
    pc \in {"settle", "top", "input", "result", "tick", "idle", "burst", "drain"} => running

(* The ticker and its due tick belong to an app that asked for ticks when  *)
(* the loop was last at its top, and no update comes between.              *)
TickInv ==
    /\ pc \in {"input", "result", "tick", "idle"} => rate = asks
    /\ due \/ tick # Never => rate

LoopInv == TypeOK /\ ScreenInv /\ QuitInv /\ TickInv

LEMMA LoopInit == Init => LoopInv
<1> SUFFICES ASSUME Init PROVE ScreenInv /\ QuitInv /\ TickInv
  BY TypeInit DEF LoopInv
<1> QED BY DEF Init, SettleInit, ScreenInv, QuitInv, TickInv

LEMMA LoopStep == LoopInv /\ [Next]_vars => LoopInv'
<1> SUFFICES ASSUME LoopInv, [Next]_vars PROVE ScreenInv' /\ QuitInv' /\ TickInv'
  BY TypeStep DEF LoopInv
<1> USE DEF LoopInv, ScreenInv, QuitInv, TickInv, clock, loop, app, world, settleVars
<1>1. CASE SettleWork
  BY <1>1 DEF SettleWork, DispatchWork
<1>a. CASE SettleQuit
  BY <1>a DEF SettleQuit, DispatchQuit, Return
<1>2. CASE SettleReturn
  BY <1>2 DEF SettleReturn, Return, Goto, TypeOK
<1>3. CASE Present
  BY <1>3 DEF Present
<1>4. CASE Arm
  BY <1>4 DEF Arm, TypeOK
<1>5. CASE InputEvent \/ Burst
  <2>1. \E before \in BOOLEAN : HandleInput(Head(inbox), before) /\ (fresh \/ before)
    <3>1. CASE InputEvent
      BY <3>1 DEF InputEvent
    <3>2. CASE Burst
      BY <3>2 DEF Burst, TypeOK
    <3> QED BY <1>5, <3>1, <3>2
  <2>2. PICK before \in BOOLEAN : HandleInput(Head(inbox), before) /\ (fresh \/ before)
    BY <2>1
  <2>3. running
    BY <1>5 DEF InputEvent, Burst
  <2>4. UNCHANGED <<tick, due, rate>>
    BY <2>2 DEF HandleInput
  <2>5. CASE changed' = TRUE /\ Step
    BY <2>3, <2>4, <2>5 DEF Step, Submit
  <2>6. CASE /\ changed' = (before \/ Head(inbox) = "resize")
             /\ fresh' = (fresh /\ Head(inbox) # "resize")
             /\ pc' = "burst" /\ UNCHANGED <<settleVars, asks>>
    <3>2. fresh' \/ changed'
      BY <2>2, <2>6
    <3> QED BY <2>3, <2>4, <2>6, <3>2
  <2> QED BY <2>2, <2>5, <2>6 DEF HandleInput
<1>6. CASE InputEof \/ BurstEnd
  BY <1>6 DEF InputEof, BurstEnd
<1>7. CASE InputPending \/ ResultPending \/ TickPending \/ Wake
  BY <1>7 DEF InputPending, ResultPending, TickPending, Wake, Goto
<1>8. CASE DrainEnd \/ PresentFails \/ InputFails
  BY <1>8 DEF DrainEnd, PresentFails, InputFails, Goto
<1>9. CASE Result \/ Drain
  BY <1>9 DEF Result, Drain, FoldResult, Step, Submit
<1>10. CASE Tick
  <2>1. running /\ due' = FALSE /\ UNCHANGED <<tick, rate>> /\ site' = "tick"
    BY <1>10 DEF Tick
  <2>2. CASE Step
    BY <2>1, <2>2 DEF Step, Submit
  <2>3. CASE pc' = "present"
    BY <2>1, <2>3
  <2> QED BY <1>10, <2>2, <2>3 DEF Tick
<1>11. CASE World
  <2>1. UNCHANGED <<pc, site, changed, coalesced, rate, asks, fresh, tick, due, running>>
    BY <1>11 DEF World, WorkDone, WorkPanics, Arrive, InputEnds
  <2> QED BY <2>1
<1>12. CASE Advance
  BY <1>12 DEF Advance, TypeOK, Never
<1>13. CASE UNCHANGED vars
  BY <1>13 DEF vars
<1> QED
  BY <1>1, <1>a, <1>2, <1>3, <1>4, <1>5, <1>6, <1>7, <1>8, <1>9, <1>10, <1>11, <1>12,
     <1>13 DEF Next, Loop, Over

LEMMA LoopInvariant == Spec => []LoopInv
BY LoopInit, LoopStep, PTL DEF Spec

(* Whenever the task sleeps, and when it returns, the screen shows every   *)
(* update, whatever became ready between two polls of the select and       *)
(* however batches skip repaints.                                          *)
THEOREM ScreenAlwaysCurrent == Spec => []ScreenCurrent
<1>1. LoopInv => ScreenCurrent
  BY DEF LoopInv, ScreenInv, ScreenCurrent
<1> QED BY <1>1, LoopInvariant, PTL

(* Nothing starts a program that has quit. *)
LEMMA RunningStays == ASSUME LoopInv, [Next]_vars, running' PROVE running
<1> USE DEF settleVars, SettleTypeOK, TypeOK, LoopInv
<1>1. CASE SettleWork \/ SettleQuit \/ SettleReturn \/ Present \/ Arm
  BY <1>1 DEF SettleWork, DispatchWork, SettleQuit, DispatchQuit, SettleReturn, Goto,
              Present, Arm
<1>2. CASE InputEvent \/ Burst \/ InputEof \/ BurstEnd
  BY <1>2 DEF InputEvent, Burst, HandleInput, Step, Submit, InputEof, BurstEnd, QuitInv
<1>3. CASE Result \/ Drain \/ Tick
  BY <1>3 DEF Result, Drain, FoldResult, Tick, Step, Submit
<1>4. CASE InputPending \/ ResultPending \/ TickPending \/ Wake \/ DrainEnd
           \/ PresentFails \/ InputFails
  BY <1>4 DEF InputPending, ResultPending, TickPending, Wake, DrainEnd, PresentFails,
              InputFails, Goto
<1>5. CASE World \/ Advance \/ UNCHANGED vars
  BY <1>5 DEF World, WorkDone, WorkPanics, Arrive, InputEnds, Advance, vars
<1> QED BY <1>1, <1>2, <1>3, <1>4, <1>5 DEF Next, Loop, Over

(* Once a quit has settled update never runs again, whatever events,       *)
(* results and ticks are ready.                                            *)
THEOREM QuitAlwaysFinal == Spec => QuitIsFinal
<1>1. LoopInv /\ LoopInv' /\ [Next]_vars => [~running => ~Step]_vars
  BY RunningStays DEF LoopInv, QuitInv, Step
<1> QED BY <1>1, LoopInvariant, PTL DEF Spec, QuitIsFinal

(* on_tick is called only of an app that asks for ticks at that moment.    *)
THEOREM TicksAreAskedFor == Spec => TickOnlyWhenAsked
<1>1. LoopInv => [Tick => asks]_vars
  BY DEF LoopInv, TickInv, Tick
<1> QED BY <1>1, LoopInvariant, PTL DEF Spec, TickOnlyWhenAsked
-----------------------------------------------------------------------------
(* No message is queued in a settle, and none is lost or doubled.          *)
ResultInv == pending = <<>> /\ EachResultOnce

LEMMA ResultInit == Init => ResultInv
<1> SUFFICES ASSUME Init PROVE ResultInv
  OBVIOUS
<1>1. /\ pending = <<>> /\ offloop = {} /\ results = <<>> /\ crashed = {} /\ folded = {}
      /\ issued = 0
  BY DEF Init, SettleInit
<1>2. Range(results) = {} /\ IsInjective(results) /\ 1..issued = {}
  BY <1>1, EmptyQueue
<1> QED BY <1>1, <1>2 DEF ResultInv, EachResultOnce

(* A step that ends the task, or leaves the messages where they are.       *)
LEMMA StillOnce ==
    ASSUME ResultInv, Ended => Ended', pending' = <<>>,
           UNCHANGED <<issued, offloop, results, crashed, folded>>
    PROVE  ResultInv'
BY DEF ResultInv, EachResultOnce

LEMMA ResultStep == TypeOK /\ ResultInv /\ [Next]_vars => ResultInv'
<1> SUFFICES ASSUME TypeOK, ResultInv, [Next]_vars PROVE ResultInv'
  OBVIOUS
<1> USE DEF clock, loop, app, world
<1>0. results \in Seq(Nat) /\ issued \in Nat /\ pending = <<>>
  BY DEF TypeOK, SettleTypeOK, ResultInv
<1>1. CASE SettleWork
  <2>1. /\ offloop' = offloop \cup {issued + 1} /\ issued' = issued + 1
        /\ UNCHANGED <<pending, pc, results, crashed, folded>>
    BY <1>1, AsyncAssumption DEF SettleWork, DispatchWork
  <2>2. issued + 1 \notin 1..issued /\ 1..(issued + 1) = (1..issued) \cup {issued + 1}
    BY <1>0
  <2> QED BY <1>0, <2>1, <2>2 DEF ResultInv, EachResultOnce, Ended
<1>2. CASE SettleQuit
  BY <1>2, StillOnce DEF SettleQuit, DispatchQuit, Ended
<1>3. CASE \E p \in Points : ~Ended /\ Goto(p)
  BY <1>0, <1>3, StillOnce DEF Goto, settleVars
<1>4. CASE SettleReturn \/ InputPending \/ ResultPending \/ DrainEnd \/ TickPending \/ Wake
           \/ PresentFails \/ InputFails
  <2>1. ~Ended
    BY <1>4 DEF SettleReturn, InputPending, ResultPending, DrainEnd, TickPending, Wake,
                PresentFails, InputFails, Goto, Ended
  <2>2. Return(FALSE) \in Points
    BY DEF Return, Points
  <2> QED BY <1>3, <1>4, <2>1, <2>2
          DEF SettleReturn, InputPending, ResultPending, DrainEnd, TickPending, Wake,
              PresentFails, InputFails, Points
<1>5. CASE Present \/ Arm \/ InputEof \/ BurstEnd
  BY <1>0, <1>5, StillOnce DEF Present, Arm, InputEof, BurstEnd, settleVars, Ended
<1>6. CASE InputEvent \/ Burst
  <2>1. \E before \in BOOLEAN : HandleInput(Head(inbox), before)
    BY <1>6 DEF InputEvent, Burst, TypeOK
  <2>2. PICK before \in BOOLEAN : HandleInput(Head(inbox), before)
    BY <2>1
  <2>3. ~Ended /\ UNCHANGED <<results, crashed, folded>>
    BY <1>6, <2>2 DEF InputEvent, Burst, HandleInput, Ended
  <2>4. pending' = <<>> /\ UNCHANGED <<issued, offloop>>
    BY <1>0, <2>2 DEF HandleInput, Step, Submit, settleVars
  <2> QED BY <2>3, <2>4, StillOnce
<1>7. CASE Result \/ Drain
  <2>1. FoldResult /\ ~Ended
    BY <1>7 DEF Result, Drain, Ended
  <2>2. /\ Range(results) = Range(results') \cup {Head(results)}
        /\ IsInjective(results) =>
              IsInjective(results') /\ Head(results) \notin Range(results')
    BY <1>0, <2>1, PopQueue DEF FoldResult
  <2>3. /\ folded' = folded \cup {Head(results)} /\ pending' = <<>>
        /\ UNCHANGED <<offloop, issued, crashed>>
    BY <2>1 DEF FoldResult, Step, Submit
  <2> QED BY <2>1, <2>2, <2>3 DEF ResultInv, EachResultOnce
<1>8. CASE Tick
  <2>1. ~Ended /\ UNCHANGED <<results, crashed, folded>>
    BY <1>8 DEF Tick, Ended
  <2>2. pending' = <<>> /\ UNCHANGED <<issued, offloop>>
    BY <1>0, <1>8 DEF Tick, Step, Submit, settleVars
  <2> QED BY <2>1, <2>2, StillOnce
<1>9. ASSUME NEW m \in offloop, WorkDone(m) PROVE ResultInv'
  <2>1. /\ offloop' = offloop \ {m} /\ UNCHANGED <<pending, pc, issued, crashed, folded>>
        /\ ~Ended => results' = Append(results, m)
    BY <1>9 DEF WorkDone
  <2>2. m \in Nat
    BY DEF TypeOK, SettleTypeOK
  <2>3. /\ Range(Append(results, m)) = Range(results) \cup {m}
        /\ IsInjective(results) /\ m \notin Range(results) => IsInjective(Append(results, m))
    BY <1>0, <2>2, PushQueue
  <2> QED BY <1>0, <2>1, <2>3 DEF ResultInv, EachResultOnce, Ended
<1>10. ASSUME NEW m \in offloop, WorkPanics(m) PROVE ResultInv'
  <2>1. /\ offloop' = offloop \ {m} /\ crashed' = crashed \cup {m}
        /\ UNCHANGED <<pending, pc, issued, results, folded>>
    BY <1>10 DEF WorkPanics
  <2> QED BY <1>0, <2>1 DEF ResultInv, EachResultOnce, Ended
<1>11. ASSUME NEW event \in Events, Arrive(event) PROVE ResultInv'
  BY <1>0, <1>11, StillOnce DEF Arrive, settleVars, Ended
<1>12. CASE InputEnds \/ Advance \/ UNCHANGED vars
  BY <1>0, <1>12, StillOnce DEF InputEnds, Advance, vars, settleVars, Ended
<1> QED
  BY <1>1, <1>2, <1>4, <1>5, <1>6, <1>7, <1>8, <1>9, <1>10, <1>11, <1>12
     DEF Next, Loop, World, Over

(* run_async folds every message it deferred once: none is lost and none   *)
(* doubled in the batches of the result arm, by a quit or by a panic.      *)
THEOREM ResultsFoldedOnce == Spec => []EachResultOnce
<1>1. ResultInv => EachResultOnce
  BY DEF ResultInv
<1>2. TypeOK /\ TypeOK' /\ ResultInv /\ [Next]_vars => ResultInv'
  BY ResultStep
<1> QED BY <1>1, <1>2, ResultInit, TypeCorrect, PTL DEF Spec
-----------------------------------------------------------------------------
(* What the loop owes an executor: room for the effects of the command in  *)
(* hand, and no number given to two effects.                               *)
ClientInv ==
    /\ issued + Len(todo) <= MaxMessages
    /\ offloop \cup crashed \subseteq 1..issued
    /\ offloop \cap crashed = {}

LEMMA ClientInit == Init => ClientInv
BY DEF Init, SettleInit, ClientInv

(* A step that defers nothing, of a command that fits.                     *)
LEMMA ClientKept ==
    ASSUME TypeOK, ClientInv, UNCHANGED <<issued, offloop, crashed>>,
           \/ UNCHANGED todo
           \/ todo' = <<>>
           \/ \E cmd \in Offered : todo' = cmd
    PROVE  ClientInv'
<1>1. issued \in Nat /\ Len(todo) \in Nat /\ Len(<<>>) = 0
  BY LenProperties, EmptyQueue DEF TypeOK, SettleTypeOK
<1>2. issued' + Len(todo') <= MaxMessages
  BY <1>1, SettleAssumption DEF ClientInv, Offered
<1> QED BY <1>2 DEF ClientInv

LEMMA ClientStep == TypeOK /\ ClientInv /\ [Next]_vars => ClientInv'
<1> SUFFICES ASSUME TypeOK, ClientInv, [Next]_vars PROVE ClientInv'
  OBVIOUS
<1> USE DEF clock, loop, app, world, settleVars
<1>0. issued \in Nat /\ todo \in Seq(Effects) /\ Len(todo) \in Nat
  BY LenProperties DEF TypeOK, SettleTypeOK
<1>1. CASE SettleWork
  <2>1. /\ issued' = issued + 1 /\ todo # <<>> /\ todo' = Tail(todo)
        /\ offloop' = offloop \cup {issued + 1} /\ UNCHANGED crashed
    BY <1>1, AsyncAssumption DEF SettleWork, DispatchWork
  <2>2. Len(todo') = Len(todo) - 1
    BY <1>0, <2>1, PopQueue
  <2>3. issued' + Len(todo') <= MaxMessages
    BY <1>0, <2>1, <2>2 DEF ClientInv
  <2>4. issued + 1 \notin 1..issued /\ 1..(issued + 1) = (1..issued) \cup {issued + 1}
    BY <1>0
  <2> QED BY <2>1, <2>3, <2>4 DEF ClientInv
<1>2. CASE SettleQuit \/ Present \/ Arm \/ InputEof \/ BurstEnd
  BY <1>2, ClientKept DEF SettleQuit, DispatchQuit, Present, Arm, InputEof, BurstEnd
<1>3. CASE SettleReturn \/ InputPending \/ ResultPending \/ DrainEnd \/ TickPending \/ Wake
           \/ PresentFails \/ InputFails
  BY <1>3, ClientKept
     DEF SettleReturn, InputPending, ResultPending, DrainEnd, TickPending, Wake, PresentFails,
         InputFails, Goto
<1>4. CASE Result \/ Drain
  BY <1>4, ClientKept DEF Result, Drain, FoldResult, Step, Submit
<1>5. CASE InputEvent \/ Burst
  BY <1>5, ClientKept DEF InputEvent, Burst, HandleInput, Step, Submit
<1>6. CASE Tick
  BY <1>6, ClientKept DEF Tick, Step, Submit
<1>7. ASSUME NEW m \in offloop, WorkDone(m) \/ WorkPanics(m) PROVE ClientInv'
  BY <1>7 DEF WorkDone, WorkPanics, ClientInv
<1>8. CASE (\E event \in Events : Arrive(event)) \/ InputEnds \/ Advance \/ UNCHANGED vars
  BY <1>8, ClientKept DEF Arrive, InputEnds, Advance, vars
<1> QED
  BY <1>1, <1>2, <1>3, <1>4, <1>5, <1>6, <1>7, <1>8 DEF Next, Loop, World, Over

(* One effect has a new fate.                                              *)
LEMMA FateMoves ==
    ASSUME NEW m \in 1..MaxMessages, NEW f, fate'[m] = f,
           \A i \in 1..MaxMessages : i # m => fate'[i] = fate[i]
    PROVE  fate' = [fate EXCEPT ![m] = f]
<1>1. /\ DOMAIN fate = 1..MaxMessages /\ DOMAIN fate' = 1..MaxMessages
      /\ fate = [i \in 1..MaxMessages |-> fate[i]]
      /\ fate' = [i \in 1..MaxMessages |-> fate'[i]]
  BY DEF fate
<1> QED BY <1>1

(* A step that defers nothing is none to the executor, or the return.      *)
LEMMA FatesKept ==
    ASSUME UNCHANGED <<issued, offloop, crashed>>, Ended => Ended'
    PROVE  [Exec!Next]_(Exec!vars)
<1>1. UNCHANGED fate
  BY DEF fate
<1>2. CASE Ended' = Ended
  BY <1>1, <1>2 DEF Exec!vars
<1>3. CASE Ended' # Ended
  <2>1. ~Ended /\ Ended' /\ Ended' = TRUE
    BY <1>3 DEF Ended
  <2>2. Exec!Return
    BY <1>1, <2>1 DEF Exec!Return
  <2> QED BY <2>2 DEF Exec!Next
<1> QED BY <1>2, <1>3

LEMMA ExecutorStep ==
    ASSUME TypeOK, ClientInv, [Next]_vars
    PROVE  [Exec!Next]_(Exec!vars)
<1> USE DEF clock, loop, app, world, settleVars
<1>0. /\ issued \in Nat /\ MaxMessages \in Nat /\ todo \in Seq(Effects) /\ Len(todo) \in Nat
      /\ offloop \cup crashed \subseteq 1..issued /\ offloop \cap crashed = {}
      /\ issued <= MaxMessages
  <2>1. issued \in Nat /\ todo \in Seq(Effects) /\ Len(todo) \in Nat
    BY LenProperties DEF TypeOK, SettleTypeOK
  <2> QED BY <2>1, SettleAssumption DEF ClientInv
<1>1. CASE SettleWork
  <2> DEFINE n == issued + 1
  <2>1. /\ issued' = n /\ offloop' = offloop \cup {n} /\ todo # <<>>
        /\ UNCHANGED <<pc, crashed>> /\ pc = "settle"
    BY <1>1, AsyncAssumption DEF SettleWork, DispatchWork
  <2>2. Len(todo) >= 1
    BY <1>0, <2>1, PopQueue
  <2>3. n \in 1..MaxMessages
    BY <1>0, <2>2 DEF ClientInv
  <2>4. fate[n] = "new" /\ fate'[n] = "deferred"
    BY <1>0, <2>1, <2>3 DEF fate
  <2>5. \A i \in 1..MaxMessages : i # n => fate'[i] = fate[i]
    BY <1>0, <2>1 DEF fate
  <2> HIDE DEF n
  <2>6. fate' = [fate EXCEPT ![n] = "deferred"]
    BY <2>3, <2>4, <2>5, FateMoves
  <2>7. ~Ended /\ Ended' = Ended
    BY <2>1 DEF Ended
  <2>8. Exec!Defer(n)
    BY <2>4, <2>6, <2>7 DEF Exec!Defer
  <2> QED BY <2>3, <2>8 DEF Exec!Next
<1>2. ASSUME NEW m \in offloop, WorkDone(m) \/ WorkPanics(m) PROVE Exec!Next
  <2>1. /\ offloop' = offloop \ {m} /\ UNCHANGED <<issued, pc>>
        /\ m \in 1..MaxMessages /\ m \notin crashed
    BY <1>0, <1>2 DEF WorkDone, WorkPanics
  <2>2. fate[m] = "deferred" /\ Ended' = Ended
    BY <1>0, <2>1 DEF fate, Ended
  <2>3. CASE WorkDone(m)
    <3>1. fate'[m] = "sent" /\ \A i \in 1..MaxMessages : i # m => fate'[i] = fate[i]
      BY <1>0, <2>1, <2>3 DEF WorkDone, fate
    <3>2. fate' = [fate EXCEPT ![m] = "sent"]
      BY <2>1, <3>1, FateMoves
    <3>3. Exec!Answer(m)
      BY <2>2, <3>2 DEF Exec!Answer
    <3> QED BY <2>1, <3>3 DEF Exec!Next
  <2>4. CASE WorkPanics(m)
    <3>1. fate'[m] = "lost" /\ \A i \in 1..MaxMessages : i # m => fate'[i] = fate[i]
      BY <1>0, <2>1, <2>4 DEF WorkPanics, fate
    <3>2. fate' = [fate EXCEPT ![m] = "lost"]
      BY <2>1, <3>1, FateMoves
    <3>3. Exec!Lose(m)
      BY <2>1, <2>2, <3>2 DEF Exec!Lose
    <3> QED BY <2>1, <3>3 DEF Exec!Next
  <2> QED BY <1>2, <2>3, <2>4
<1>3. CASE SettleQuit \/ Present \/ Arm \/ InputEof \/ BurstEnd
  BY <1>3, FatesKept DEF SettleQuit, DispatchQuit, Present, Arm, InputEof, BurstEnd, Ended
<1>4. CASE SettleReturn \/ InputPending \/ ResultPending \/ DrainEnd \/ TickPending \/ Wake
           \/ PresentFails \/ InputFails
  BY <1>4, FatesKept
     DEF SettleReturn, InputPending, ResultPending, DrainEnd, TickPending, Wake, PresentFails,
         InputFails, Goto, Ended
<1>5. CASE Result \/ Drain \/ InputEvent \/ Burst
  BY <1>5, FatesKept
     DEF Result, Drain, FoldResult, InputEvent, Burst, HandleInput, Step, Submit, Ended
<1>6. CASE Tick
  BY <1>6, FatesKept DEF Tick, Step, Submit, Ended
<1>7. CASE (\E event \in Events : Arrive(event)) \/ InputEnds \/ Advance \/ UNCHANGED vars
  BY <1>7, FatesKept DEF Arrive, InputEnds, Advance, vars, Ended
<1> QED
  BY <1>1, <1>2, <1>3, <1>4, <1>5, <1>6, <1>7 DEF Next, Loop, World, Over

(* run_async is a client that keeps to the contract of its executor, and   *)
(* that contract covers all the runtime's threads do to it.                *)
THEOREM LoopKeepsToExecutor == Spec => KeepsToExecutor
<1>1. Init => Exec!Init
  <2> SUFFICES ASSUME Init PROVE Exec!Init
    OBVIOUS
  <2>1. issued = 0 /\ ~Ended
    BY DEF Init, SettleInit, Ended
  <2>2. fate = [m \in 1..MaxMessages |-> "new"]
    BY <2>1, SettleAssumption DEF fate
  <2> QED BY <2>1, <2>2 DEF Exec!Init, Ended
<1>2. TypeOK /\ TypeOK' /\ ClientInv /\ [Next]_vars => ClientInv'
  BY ClientStep
<1>3. TypeOK /\ ClientInv /\ [Next]_vars => [Exec!Next]_(Exec!vars)
  BY ExecutorStep
<1> QED BY <1>1, <1>2, <1>3, ClientInit, TypeCorrect, PTL DEF Spec, KeepsToExecutor, Exec!Spec
=============================================================================
