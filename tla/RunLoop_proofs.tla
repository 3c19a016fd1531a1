--------------------------- MODULE RunLoop_proofs ---------------------------
(* Theorems about RunLoop, for every value of its constants. *)
EXTENDS RunLoop, FiniteSetTheorems, SequenceTheorems, TLAPS

-----------------------------------------------------------------------------
(* Sequences stay sequences under the operations of a queue. *)
LEMMA QueueType ==
    ASSUME NEW S
    PROVE  /\ <<>> \in Seq(S)
           /\ \A s \in Seq(S), e \in S : Append(s, e) \in Seq(S)
           /\ \A s \in Seq(S) : s # <<>> => Head(s) \in S /\ Tail(s) \in Seq(S)
<1>1. <<>> \in Seq(S)
  BY EmptySeq
<1>2. ASSUME NEW s \in Seq(S), NEW e \in S PROVE Append(s, e) \in Seq(S)
  BY AppendProperties
<1>3. ASSUME NEW s \in Seq(S), s # <<>> PROVE Head(s) \in S /\ Tail(s) \in Seq(S)
  BY <1>3, HeadTailProperties
<1> QED BY <1>1, <1>2, <1>3

(* An empty queue has no elements. *)
LEMMA EmptyQueue == Range(<<>>) = {} /\ IsInjective(<<>>) /\ Len(<<>>) = 0
BY EmptySeq, LenProperties DEF Range, IsInjective

(* What a push adds. *)
LEMMA PushQueue ==
    ASSUME NEW S, NEW s \in Seq(S), NEW e \in S
    PROVE  /\ Len(Append(s, e)) = Len(s) + 1
           /\ Range(Append(s, e)) = Range(s) \cup {e}
           /\ IsInjective(s) /\ e \notin Range(s) => IsInjective(Append(s, e))
<1> DEFINE t == Append(s, e)
<1>1. /\ Len(s) \in Nat /\ DOMAIN s = 1..Len(s)
      /\ t \in Seq(S) /\ Len(t) = Len(s) + 1 /\ DOMAIN t = 1..(Len(s) + 1)
      /\ \A i \in 1..Len(s) : t[i] = s[i]
      /\ t[Len(s) + 1] = e
  BY AppendProperties, LenProperties
<1> HIDE DEF t
<1>2. Range(t) = Range(s) \cup {e}
  BY <1>1 DEF Range
<1>3. IsInjective(s) /\ e \notin Range(s) => IsInjective(t)
  BY <1>1 DEF Range, IsInjective
<1> QED BY <1>1, <1>2, <1>3 DEF t

(* What a pop removes. *)
LEMMA PopQueue ==
    ASSUME NEW S, NEW s \in Seq(S), s # <<>>
    PROVE  /\ Len(s) >= 1 /\ Len(Tail(s)) = Len(s) - 1
           /\ Range(s) = Range(Tail(s)) \cup {Head(s)}
           /\ IsInjective(s) => IsInjective(Tail(s)) /\ Head(s) \notin Range(Tail(s))
<1> DEFINE t == Tail(s)
<1>1. /\ Len(s) \in Nat \ {0} /\ DOMAIN s = 1..Len(s)
      /\ Len(t) = Len(s) - 1 /\ DOMAIN t = 1..(Len(s) - 1)
      /\ \A i \in 1..(Len(s) - 1) : t[i] = s[i + 1]
      /\ Head(s) = s[1]
  BY EmptySeq, HeadTailProperties, LenProperties
<1> HIDE DEF t
<1>2. ASSUME NEW i \in 1..Len(s), i # 1 PROVE i - 1 \in 1..(Len(s) - 1) /\ s[i] = t[i - 1]
  BY <1>1, <1>2
<1>3. \A i \in 1..(Len(s) - 1) : i + 1 \in 1..Len(s) /\ t[i] = s[i + 1]
  BY <1>1
<1>4. Range(s) = Range(t) \cup {Head(s)}
  <2>1. \A x \in Range(t) \cup {Head(s)} : x \in Range(s)
    BY <1>1, <1>3, 1 \in 1..Len(s) DEF Range
  <2>2. ASSUME NEW i \in 1..Len(s) PROVE s[i] \in Range(t) \cup {Head(s)}
    BY <1>1, <1>2 DEF Range
  <2>3. \A x \in Range(s) : \E i \in 1..Len(s) : x = s[i]
    BY <1>1 DEF Range
  <2>4. \A x \in Range(s) : x \in Range(t) \cup {Head(s)}
    BY <2>2, <2>3
  <2> QED BY <2>1, <2>4
<1>5. ASSUME IsInjective(s) PROVE IsInjective(t)
  <2>1. ASSUME NEW i \in 1..(Len(s) - 1), NEW k \in 1..(Len(s) - 1), t[i] = t[k]
        PROVE  i = k
    <3>1. s[i + 1] = s[k + 1] /\ i + 1 \in DOMAIN s /\ k + 1 \in DOMAIN s
      BY <1>1, <1>3, <2>1
    <3>2. i + 1 = k + 1
      BY <1>5, <3>1 DEF IsInjective
    <3> QED BY <3>2
  <2> QED BY <1>1, <2>1 DEF IsInjective
<1>6. ASSUME IsInjective(s), NEW i \in 1..(Len(s) - 1) PROVE t[i] # Head(s)
  <2>1. s[i + 1] # s[1]
    BY <1>1, <1>3, <1>6 DEF IsInjective
  <2> QED BY <1>1, <1>3, <2>1
<1>7. IsInjective(s) => Head(s) \notin Range(t)
  BY <1>1, <1>6 DEF Range
<1>8. Len(s) >= 1
  BY <1>1
<1> QED BY <1>1, <1>4, <1>5, <1>7, <1>8 DEF t

-----------------------------------------------------------------------------
(* What dispatching a new command does to the types. *)
LEMMA SubmitType ==
    ASSUME SettleTypeOK, NEW cmd \in Offered, Submit(cmd)
    PROVE  SettleTypeOK'
BY SettleAssumption, QueueType DEF SettleTypeOK, Offered, Submit

(* Each step of settle keeps its types. *)
LEMMA SettleStepType ==
    ASSUME SettleTypeOK,
           \/ DispatchWork \/ DispatchQuit \/ \E cmd \in Offered : Fold(cmd)
    PROVE  SettleTypeOK'
<1>1. CASE DispatchWork
  <2>1. todo' \in Seq(Effects)
    BY <1>1 DEF SettleTypeOK, DispatchWork
  <2>2. issued' \in Nat /\ issued + 1 \in Nat
    BY <1>1 DEF SettleTypeOK, DispatchWork
  <2>3. pending' \in Seq(Nat)
    <3>1. pending' = pending \/ pending' = Append(pending, issued + 1)
      BY <1>1 DEF DispatchWork
    <3> QED BY <2>2, <3>1, QueueType DEF SettleTypeOK
  <2>4. offloop' \subseteq Nat
    <3>1. offloop' = offloop \/ offloop' = offloop \cup {issued + 1}
      BY <1>1 DEF DispatchWork
    <3> QED BY <2>2, <3>1 DEF SettleTypeOK
  <2>5. steps' \in 0..Budget /\ running' \in BOOLEAN
    BY <1>1 DEF SettleTypeOK, DispatchWork
  <2> QED BY <2>1, <2>2, <2>3, <2>4, <2>5 DEF SettleTypeOK
<1>2. CASE DispatchQuit
  BY <1>2, QueueType DEF SettleTypeOK, DispatchQuit
<1>3. ASSUME NEW cmd \in Offered, Fold(cmd) PROVE SettleTypeOK'
  BY <1>3, SettleAssumption, QueueType DEF SettleTypeOK, Offered, Fold
<1> QED BY <1>1, <1>2, <1>3

(* The app's reaction to a message. *)
LEMMA StepType ==
    ASSUME TypeOK, Step
    PROVE  SettleTypeOK' /\ pc' \in Points /\ asks' \in BOOLEAN /\ fresh' \in BOOLEAN
BY SubmitType, RunLoopAssumption DEF TypeOK, Step, Points

LEMMA HandleInputType ==
    ASSUME TypeOK, inbox # <<>>, NEW before \in BOOLEAN,
           HandleInput(Head(inbox), before),
           coalesced' \in 0..CoalesceLimit, burst' \in 0..BurstBudget,
           UNCHANGED <<tick, wait, since>>
    PROVE  TypeOK'
<1>1. inbox' \in Seq(Native)
  BY QueueType DEF TypeOK, HandleInput
<1>2. /\ SettleTypeOK' /\ pc' \in Points
      /\ asks' \in BOOLEAN /\ fresh' \in BOOLEAN /\ changed' \in BOOLEAN
  <2>1. CASE changed' = TRUE /\ Step
    BY <2>1, StepType
  <2>2. CASE changed' = (before \/ Head(inbox) = "resize")
             /\ fresh' = (fresh /\ Head(inbox) # "resize")
             /\ pc' = "coalesce" /\ UNCHANGED <<settleVars, asks>>
    BY <2>2 DEF TypeOK, SettleTypeOK, settleVars, Points
  <2> QED BY <2>1, <2>2 DEF HandleInput
<1>3. /\ UNCHANGED <<rate, eof, results, crashed, folded, tick, wait, since>>
      /\ site' = "input"
  BY DEF HandleInput
<1> QED BY <1>1, <1>2, <1>3 DEF TypeOK

(* The device's queue without its head. *)
LEMMA InboxTail == TypeOK /\ inbox # <<>> => Tail(inbox) \in Seq(Native) /\ Tail(inbox) # inbox
<1> SUFFICES ASSUME TypeOK, inbox # <<>>
             PROVE  Tail(inbox) \in Seq(Native) /\ Tail(inbox) # inbox
  OBVIOUS
<1>1. inbox \in Seq(Native)
  BY DEF TypeOK
<1> DEFINE rest == Tail(inbox)
<1>2. Len(inbox) \in Nat /\ Len(rest) = Len(inbox) - 1
  BY <1>1, PopQueue, LenProperties
<1> HIDE DEF rest
<1>3. ASSUME rest = inbox PROVE FALSE
  <2>1. Len(rest) = Len(inbox)
    BY <1>3
  <2> QED BY <1>2, <2>1
<1>4. rest \in Seq(Native)
  BY <1>1, QueueType DEF rest
<1> QED BY <1>3, <1>4 DEF rest

LEMMA TickType == ASSUME TypeOK, Tick, inbox' \in Seq(Native) PROVE TypeOK'
<1>1. /\ SettleTypeOK' /\ pc' \in Points
      /\ asks' \in BOOLEAN /\ fresh' \in BOOLEAN
  <2>1. CASE Step
    BY <2>1, StepType
  <2>2. CASE pc' = "present" /\ UNCHANGED <<settleVars, app>>
    BY <2>2 DEF TypeOK, SettleTypeOK, settleVars, app, Points
  <2> QED BY <2>1, <2>2 DEF Tick
<1> QED BY <1>1, RunLoopAssumption DEF TypeOK, Tick

-----------------------------------------------------------------------------
LEMMA TypeInit == Init => TypeOK
<1> SUFFICES ASSUME Init PROVE TypeOK
  OBVIOUS
<1>1. SettleTypeOK
  BY SettleAssumption, QueueType DEF Init, SettleInit, SettleTypeOK
<1>2. inbox \in Seq(Native) /\ results \in Seq(Nat)
  BY QueueType DEF Init
<1>3. /\ coalesced \in 0..CoalesceLimit /\ burst \in 0..BurstBudget
      /\ since \in 0..Rate
  BY RunLoopAssumption DEF Init
<1>4. /\ changed \in BOOLEAN /\ rate \in BOOLEAN /\ asks \in BOOLEAN
      /\ fresh \in BOOLEAN /\ eof \in BOOLEAN
  BY RunLoopAssumption DEF Init
<1>5. /\ pc \in Points /\ site \in {"init", "drain", "input", "tick"}
      /\ tick \in (0..Rate) \cup {Never} /\ wait \in Nat \cup {Never}
      /\ crashed \subseteq Nat /\ folded \subseteq Nat
  BY DEF Init, Points
<1> QED BY <1>1, <1>2, <1>3, <1>4, <1>5 DEF TypeOK

(* Every step of run_core and of its surroundings keeps the types. *)
LEMMA TypeStep == TypeOK /\ [Next]_vars => TypeOK'
<1> SUFFICES ASSUME TypeOK, [Next]_vars PROVE TypeOK'
  OBVIOUS
<1> USE DEF clock, loop, app, world
<1>1. CASE SettleWork
  BY <1>1, SettleStepType DEF TypeOK, SettleWork
<1>2. CASE SettleQuit
  BY <1>2, SettleStepType DEF TypeOK, SettleQuit, Return, Points
<1>3. CASE SettleFold
  <2>1. SettleTypeOK' /\ pending # <<>>
    BY <1>3, SettleStepType DEF TypeOK, SettleFold, Fold
  <2>2. folded' \subseteq Nat
    BY <1>3, <2>1, QueueType DEF TypeOK, SettleTypeOK, SettleFold
  <2> QED BY <1>3, <2>1, <2>2, RunLoopAssumption DEF TypeOK, SettleFold
<1>4. CASE SettlePanic
  BY <1>4 DEF TypeOK, SettleTypeOK, settleVars, SettlePanic, Points
<1>5. CASE SettleReturn
  BY <1>5 DEF TypeOK, SettleTypeOK, settleVars, SettleReturn, Return, Points
<1>6. CASE DrainResult
  <2>1. results' \in Seq(Nat) /\ folded' \subseteq Nat
    BY <1>6, QueueType DEF TypeOK, DrainResult
  <2>2. /\ SettleTypeOK' /\ pc' \in Points
        /\ asks' \in BOOLEAN /\ fresh' \in BOOLEAN
    BY <1>6, StepType DEF DrainResult
  <2> QED BY <1>6, <2>1, <2>2 DEF TypeOK, DrainResult
<1>7. CASE DrainEmpty
  BY <1>7 DEF TypeOK, SettleTypeOK, settleVars, DrainEmpty, Points
<1>8. CASE Arm
  <2>1. tick' \in (0..Rate) \cup {Never}
    BY <1>8, RunLoopAssumption DEF TypeOK, Arm, Never
  <2>2. wait' = tick' \/ wait' = PollInterval
    BY <1>8 DEF Arm
  <2>3. wait' \in Nat \cup {Never}
    BY <2>1, <2>2, RunLoopAssumption
  <2>4. pc' \in Points /\ rate' \in BOOLEAN
    BY <1>8 DEF TypeOK, Arm, Points
  <2>5. UNCHANGED <<settleVars, burst, since, site, changed, coalesced, asks,
                    fresh, inbox, eof, results, crashed, folded>>
    BY <1>8 DEF Arm
  <2>6. SettleTypeOK'
    BY <2>5 DEF TypeOK, SettleTypeOK, settleVars
  <2> QED BY <2>1, <2>3, <2>4, <2>5, <2>6 DEF TypeOK
<1>9. CASE PollEvent
  <2>1. coalesced' \in 0..CoalesceLimit /\ burst' \in 0..BurstBudget
    BY <1>9, RunLoopAssumption DEF PollEvent
  <2>2. FALSE \in BOOLEAN
    OBVIOUS
  <2> QED BY <1>9, <2>1, <2>2, HandleInputType DEF PollEvent, Ready
<1>10. CASE PollTick
  <2>1. inbox' \in Seq(Native)
    BY <1>10, InboxTail DEF PollTick, PollNone, Foreign, TypeOK
  <2> QED BY <1>10, <2>1, TickType DEF PollTick
<1>11. CASE PollWake \/ PollSkip
  <2>1. inbox' \in Seq(Native)
    BY <1>11, InboxTail DEF PollWake, PollNone, PollSkip, Foreign, TypeOK
  <2> QED BY <1>11, <2>1
          DEF TypeOK, SettleTypeOK, settleVars, PollWake, PollSkip, Iterate, Points
<1>12. CASE PollEof
  BY <1>12 DEF TypeOK, SettleTypeOK, PollEof, Points
<1>13. CASE Coalesce
  <2>1. coalesced' \in 0..CoalesceLimit
    BY <1>13, RunLoopAssumption DEF TypeOK, Coalesce
  <2> QED BY <1>13, <2>1, HandleInputType DEF TypeOK, Coalesce, Ready
<1>14. CASE CoalesceEnd
  <2>1. inbox' \in Seq(Native)
    BY <1>14, InboxTail DEF CoalesceEnd, Foreign, TypeOK
  <2> QED BY <1>14, <2>1 DEF TypeOK, SettleTypeOK, settleVars, CoalesceEnd, Points
<1>15. CASE DueTick
  <2>1. inbox' \in Seq(Native)
    BY <1>15 DEF DueTick, TypeOK
  <2> QED BY <1>15, <2>1, TickType DEF DueTick
<1>16. CASE NoDueTick
  BY <1>16 DEF TypeOK, SettleTypeOK, settleVars, NoDueTick, Iterate, Points
<1>17. CASE Present
  BY <1>17 DEF TypeOK, SettleTypeOK, settleVars, Present, Iterate, Points
<1>18. CASE Failure
  BY <1>18 DEF TypeOK, SettleTypeOK, settleVars, Failure, PollFails, PresentFails, Points
<1>19. ASSUME NEW m \in offloop, WorkDone(m) PROVE TypeOK'
  <2>1. results' \in Seq(Nat) /\ offloop' \subseteq Nat
    <3>1. m \in Nat
      BY DEF TypeOK, SettleTypeOK
    <3>2. results' = results \/ results' = Append(results, m)
      BY <1>19 DEF WorkDone
    <3>3. offloop' \subseteq offloop
      BY <1>19 DEF WorkDone
    <3> QED BY <3>1, <3>2, <3>3, QueueType DEF TypeOK, SettleTypeOK
  <2> QED BY <1>19, <2>1 DEF TypeOK, SettleTypeOK, WorkDone
<1>20. ASSUME NEW m \in offloop, WorkPanics(m) PROVE TypeOK'
  BY <1>20 DEF TypeOK, SettleTypeOK, WorkPanics
<1>21. ASSUME NEW event \in Native, Arrive(event) PROVE TypeOK'
  <2>1. inbox' \in Seq(Native)
    BY <1>21, QueueType DEF TypeOK, Arrive
  <2> QED BY <1>21, <2>1 DEF TypeOK, SettleTypeOK, settleVars, Arrive
<1>22. CASE InputEnds
  BY <1>22 DEF TypeOK, SettleTypeOK, settleVars, InputEnds
<1>23. CASE Advance
  BY <1>23, RunLoopAssumption
     DEF TypeOK, SettleTypeOK, settleVars, Advance, Less, Never
<1>24. CASE UNCHANGED vars
  BY <1>24 DEF TypeOK, SettleTypeOK, settleVars, vars
<1> QED
  BY <1>1, <1>2, <1>3, <1>4, <1>5, <1>6, <1>7, <1>8, <1>9, <1>10, <1>11,
     <1>12, <1>13, <1>14, <1>15, <1>16, <1>17, <1>18, <1>19, <1>20, <1>21,
     <1>22, <1>23, <1>24 DEF Next, Loop, World, Over

(* Type correctness of run_core, for every command budget, tick period and *)
(* bound.                                                                  *)
THEOREM TypeCorrect == Spec => []TypeOK
BY TypeInit, TypeStep, PTL DEF Spec

-----------------------------------------------------------------------------
(* Why the screen is current where the loop waits: at every point before   *)
(* that, an update the screen lacks is recorded in changed, and the loop   *)
(* passes no point of rest with changed set.                               *)
ScreenInv ==
    /\ pc \in {"arm", "poll", "stopped"} => fresh /\ ~changed
    /\ pc \in {"drain", "coalesce", "duetick"} => fresh \/ changed
    /\ pc = "settle" => site = "init" \/ changed

LEMMA ScreenInit == Init => ScreenInv
BY DEF Init, ScreenInv

LEMMA ScreenStep == TypeOK /\ ScreenInv /\ [Next]_vars => ScreenInv'
<1> SUFFICES ASSUME TypeOK, ScreenInv, [Next]_vars PROVE ScreenInv'
  OBVIOUS
<1> USE DEF ScreenInv, clock, loop, app, world
<1>1. CASE SettleWork
  BY <1>1 DEF SettleWork
<1>2. CASE SettleQuit
  BY <1>2 DEF SettleQuit, Return, TypeOK
<1>3. CASE SettleFold
  BY <1>3 DEF SettleFold
<1>4. CASE SettlePanic
  BY <1>4 DEF SettlePanic
<1>5. CASE SettleReturn
  BY <1>5 DEF SettleReturn, Return, TypeOK
<1>6. CASE DrainResult
  BY <1>6 DEF DrainResult, Step
<1>7. CASE DrainEmpty
  BY <1>7 DEF DrainEmpty
<1>8. CASE Arm
  BY <1>8 DEF Arm
<1>9. CASE PollEvent
  BY <1>9 DEF PollEvent, HandleInput, Step, TypeOK
<1>10. CASE PollTick
  BY <1>10 DEF PollTick, Tick, Step
<1>11. CASE PollWake \/ PollSkip
  BY <1>11 DEF PollWake, PollSkip, Iterate
<1>12. CASE PollEof
  BY <1>12 DEF PollEof
<1>13. CASE Coalesce
  BY <1>13 DEF Coalesce, HandleInput, Step, TypeOK
<1>14. CASE CoalesceEnd
  BY <1>14 DEF CoalesceEnd
<1>15. CASE DueTick
  BY <1>15 DEF DueTick, Tick, Step
<1>16. CASE NoDueTick
  BY <1>16 DEF NoDueTick, Iterate
<1>17. CASE Present
  BY <1>17 DEF Present, Iterate
<1>18. CASE Failure
  BY <1>18 DEF Failure, PollFails, PresentFails
<1>19. CASE World
  BY <1>19 DEF World, WorkDone, WorkPanics, Arrive, InputEnds
<1>20. CASE Advance
  BY <1>20 DEF Advance
<1>21. CASE UNCHANGED vars
  BY <1>21 DEF vars
<1> QED
  BY <1>1, <1>2, <1>3, <1>4, <1>5, <1>6, <1>7, <1>8, <1>9, <1>10, <1>11,
     <1>12, <1>13, <1>14, <1>15, <1>16, <1>17, <1>18, <1>19, <1>20, <1>21
     DEF Next, Loop, Over

(* Whenever run_core waits for input, and when it returns normally, the    *)
(* screen shows every update: however batches, drains and idle events are  *)
(* coalesced, no repaint that matters is skipped.                          *)
THEOREM ScreenAlwaysCurrent == Spec => []ScreenCurrent
<1>1. TypeOK /\ ScreenInv => ScreenCurrent
  BY DEF ScreenInv, ScreenCurrent
<1> QED
  BY <1>1, TypeInit, TypeStep, ScreenInit, ScreenStep, PTL DEF Spec

-----------------------------------------------------------------------------
(* Why inline commands are folded in order and completely: the messages    *)
(* folded so far are the first ones issued, those pending are the rest in  *)
(* order, and outside settle none is left.                                 *)
OrderInv ==
    /\ Inline => offloop = {} /\ results = <<>> /\ pc # "drain" /\ site # "drain"
    /\ Inline /\ running =>
        /\ Len(pending) <= issued
        /\ pending = Run(issued, Len(pending))
        /\ folded = 1..(issued - Len(pending))
        /\ pc \notin {"settle", "panicked"} => todo = <<>> /\ pending = <<>>

LEMMA OrderInit == Init => OrderInv
<1> SUFFICES ASSUME Init PROVE OrderInv
  OBVIOUS
<1>1. Len(pending) = 0 /\ issued = 0 /\ folded = {} /\ pending = <<>>
  BY DEF Init, SettleInit
<1>2. pending = Run(0, 0) /\ folded = 1..(0 - 0)
  BY <1>1 DEF Run
<1> QED BY <1>1, <1>2 DEF Init, SettleInit, OrderInv

(* Appending the next number to a run of consecutive numbers.              *)
LEMMA AppendNext ==
    ASSUME NEW n \in Nat, NEW seq \in Seq(Nat), Len(seq) <= n,
           seq = Run(n, Len(seq)),
           NEW new, new = Append(seq, n + 1)
    PROVE  /\ Len(new) = Len(seq) + 1
           /\ new = Run(n + 1, Len(new))
<1>1. Len(seq) \in Nat
  BY LenProperties
<1>2. new \in Seq(Nat) /\ Len(new) = Len(seq) + 1
  BY AppendProperties
<1>3. ASSUME NEW i \in 1..Len(new) PROVE new[i] = (n + 1) - Len(new) + i
  <2>1. CASE i \in 1..Len(seq)
    BY <1>1, <1>2, <2>1, AppendProperties DEF Run
  <2>2. CASE i = Len(seq) + 1
    BY <1>1, <1>2, <2>2, AppendProperties
  <2> QED BY <1>1, <1>2, <2>1, <2>2
<1>4. new = [i \in 1..Len(new) |-> new[i]]
  BY <1>2, LenProperties
<1> QED BY <1>2, <1>3, <1>4 DEF Run

(* Removing the oldest of a run of consecutive numbers.                    *)
LEMMA TailOfRun ==
    ASSUME NEW n \in Nat, NEW seq \in Seq(Nat), Len(seq) <= n, seq # <<>>,
           seq = Run(n, Len(seq)),
           NEW rest, rest = Tail(seq)
    PROVE  /\ Head(seq) = n - Len(seq) + 1
           /\ Len(rest) = Len(seq) - 1
           /\ rest = Run(n, Len(rest))
<1>1. Len(seq) \in Nat \ {0}
  BY EmptySeq
<1>2. rest \in Seq(Nat) /\ Len(rest) = Len(seq) - 1
      /\ \A i \in 1..Len(rest) : rest[i] = seq[i + 1]
  BY HeadTailProperties
<1>3. Head(seq) = seq[1]
  BY <1>1
<1>4. seq[1] = n - Len(seq) + 1
  BY <1>1 DEF Run
<1>5. ASSUME NEW i \in 1..Len(rest) PROVE rest[i] = n - Len(rest) + i
  <2>1. i + 1 \in 1..Len(seq)
    BY <1>1, <1>2
  <2>2. seq[i + 1] = n - Len(seq) + (i + 1)
    BY <2>1 DEF Run
  <2> QED BY <1>1, <1>2, <2>2
<1>6. rest = [i \in 1..Len(rest) |-> rest[i]]
  BY <1>2, LenProperties
<1> QED BY <1>2, <1>3, <1>4, <1>5, <1>6 DEF Run

(* A new command meets an empty queue wherever update is called outside of *)
(* settle.                                                                 *)
LEMMA StepOrder ==
    ASSUME TypeOK, OrderInv, Step, pc \notin {"settle", "panicked"},
           offloop' = offloop, running' = running, issued' = issued,
           Inline => results' = results /\ folded' = folded /\ site' # "drain"
    PROVE  OrderInv'
<1>1. pending' = <<>> /\ pc' = "settle"
  BY DEF Step, Submit
<1>2. CASE Inline /\ running
  BY <1>1, <1>2 DEF OrderInv
<1>3. CASE ~(Inline /\ running)
  BY <1>1, <1>3 DEF OrderInv
<1> QED BY <1>2, <1>3

(* A step that leaves settle's state and the workers alone.                *)
LEMMA IdleOrder ==
    ASSUME OrderInv, pc \notin {"settle", "panicked"},
           UNCHANGED <<todo, pending, running, issued, offloop, folded>>,
           Inline => results' = results /\ pc' # "drain" /\ site' # "drain"
    PROVE  OrderInv'
BY DEF OrderInv

LEMMA OrderStep == TypeOK /\ OrderInv /\ [Next]_vars => OrderInv'
<1> SUFFICES ASSUME TypeOK, OrderInv, [Next]_vars PROVE OrderInv'
  OBVIOUS
<1> USE DEF clock, loop, app, world
<1>0. pending \in Seq(Nat) /\ issued \in Nat
  BY DEF TypeOK, SettleTypeOK
<1>1. CASE SettleWork
  <2>1. CASE Inline /\ running
    <3>1. pending' = Append(pending, issued + 1) /\ issued' = issued + 1
      BY <1>1, <2>1 DEF SettleWork, DispatchWork
    <3>2. Len(pending) <= issued
          /\ pending = Run(issued, Len(pending))
      BY <2>1 DEF OrderInv
    <3>3. /\ Len(pending') = Len(pending) + 1
          /\ pending' = Run(issued + 1, Len(pending'))
      BY <1>0, <3>1, <3>2, AppendNext
    <3>4. folded' = 1..(issued' - Len(pending'))
      <4>1. folded' = 1..(issued - Len(pending))
        BY <1>1, <2>1 DEF SettleWork, OrderInv
      <4>2. issued' - Len(pending') = issued - Len(pending)
        BY <1>0, <3>1, <3>3, LenProperties
      <4> QED BY <4>1, <4>2
    <3>5. Len(pending') <= issued'
      BY <1>0, <3>1, <3>2, <3>3, LenProperties
    <3>6. pc' = "settle" /\ site' # "drain" /\ offloop' = {} /\ results' = <<>>
      BY <1>1, <2>1 DEF SettleWork, DispatchWork, OrderInv
    <3> QED BY <3>1, <3>3, <3>4, <3>5, <3>6 DEF OrderInv
  <2>2. CASE ~(Inline /\ running)
    BY <1>1, <2>2 DEF SettleWork, DispatchWork, OrderInv
  <2> QED BY <2>1, <2>2
<1>2. CASE SettleQuit
  BY <1>2 DEF SettleQuit, DispatchQuit, Return, OrderInv, TypeOK
<1>3. CASE SettleFold
  <2>1. CASE Inline /\ running
    <3>1. /\ pending # <<>> /\ pending' = Tail(pending)
          /\ issued' = issued /\ folded' = folded \cup {Head(pending)}
      BY <1>3 DEF SettleFold, Fold
    <3>2. Len(pending) <= issued
          /\ pending = Run(issued, Len(pending))
      BY <2>1 DEF OrderInv
    <3>3. /\ Head(pending) = issued - Len(pending) + 1
          /\ Len(pending') = Len(pending) - 1
          /\ pending' = Run(issued, Len(pending'))
      BY <1>0, <3>1, <3>2, TailOfRun
    <3>4. folded' = 1..(issued' - Len(pending'))
      <4>1. folded = 1..(issued - Len(pending))
        BY <2>1 DEF OrderInv
      <4> QED BY <1>0, <3>1, <3>2, <3>3, <4>1, LenProperties
    <3>5. Len(pending') <= issued'
      BY <1>0, <3>1, <3>2, <3>3, LenProperties
    <3>6. pc' = "settle" /\ site' # "drain" /\ offloop' = {} /\ results' = <<>>
      BY <1>3, <2>1 DEF SettleFold, Fold, OrderInv
    <3> QED BY <3>1, <3>3, <3>4, <3>5, <3>6 DEF OrderInv
  <2>2. CASE ~(Inline /\ running)
    BY <1>3, <2>2 DEF SettleFold, Fold, OrderInv
  <2> QED BY <2>1, <2>2
<1>4. CASE SettlePanic
  BY <1>4 DEF SettlePanic, settleVars, OrderInv
<1>5. CASE SettleReturn
  BY <1>5 DEF SettleReturn, Settled, settleVars, Return, OrderInv, TypeOK
<1>6. CASE DrainResult
  <2>1. ~Inline
    BY <1>6 DEF DrainResult, OrderInv
  <2> QED BY <1>6, <2>1, StepOrder DEF DrainResult, Step, Submit
<1>7. CASE DrainEmpty
  <2>1. ~Inline
    BY <1>7 DEF DrainEmpty, OrderInv
  <2> QED BY <1>7, <2>1, IdleOrder DEF DrainEmpty, settleVars
<1>8. CASE Arm
  BY <1>8, IdleOrder DEF Arm, settleVars, OrderInv
<1>9. CASE PollEvent \/ Coalesce
  <2>1. \E before \in {FALSE, changed} : HandleInput(Head(inbox), before)
    BY <1>9 DEF PollEvent, Coalesce
  <2>2. PICK before \in {FALSE, changed} : HandleInput(Head(inbox), before)
    BY <2>1
  <2>3. pc \notin {"settle", "panicked"}
    BY <1>9 DEF PollEvent, Coalesce
  <2>4. site' = "input" /\ results' = results /\ folded' = folded
    BY <2>2 DEF HandleInput
  <2>5. CASE Step
    BY <2>3, <2>4, <2>5, StepOrder DEF Step, Submit
  <2>6. CASE pc' = "coalesce" /\ UNCHANGED <<settleVars, asks>>
    BY <2>3, <2>4, <2>6, IdleOrder DEF settleVars
  <2> QED BY <2>2, <2>5, <2>6 DEF HandleInput
<1>10. CASE PollTick \/ DueTick
  <2>1. Tick /\ pc \notin {"settle", "panicked"}
    BY <1>10 DEF PollTick, DueTick
  <2>2. site' = "tick" /\ results' = results /\ folded' = folded
    BY <2>1 DEF Tick
  <2>3. CASE Step
    BY <2>1, <2>2, <2>3, StepOrder DEF Step, Submit
  <2>4. CASE pc' = "present" /\ UNCHANGED <<settleVars, app>>
    BY <2>1, <2>2, <2>4, IdleOrder DEF settleVars
  <2> QED BY <2>1, <2>3, <2>4 DEF Tick
<1>11. CASE PollWake \/ PollSkip \/ CoalesceEnd \/ NoDueTick \/ Present
  BY <1>11, IdleOrder
     DEF PollWake, PollSkip, CoalesceEnd, NoDueTick, Present, Iterate, settleVars, OrderInv
<1>12. CASE PollEof
  BY <1>12 DEF PollEof, OrderInv
<1>13. CASE Failure
  BY <1>13, IdleOrder DEF Failure, PollFails, PresentFails, settleVars, OrderInv
<1>14. ASSUME NEW m \in offloop, WorkDone(m) \/ WorkPanics(m) PROVE OrderInv'
  <2>1. ~Inline
    BY DEF OrderInv
  <2> QED BY <2>1 DEF OrderInv
<1>15. ASSUME NEW event \in Native, Arrive(event) PROVE OrderInv'
  BY <1>15 DEF Arrive, settleVars, OrderInv
<1>16. CASE InputEnds \/ Advance \/ UNCHANGED vars
  BY <1>16 DEF InputEnds, Advance, vars, settleVars, OrderInv
<1> QED
  BY <1>1, <1>2, <1>3, <1>4, <1>5, <1>6, <1>7, <1>8, <1>9, <1>10, <1>11,
     <1>12, <1>13, <1>14, <1>15, <1>16 DEF Next, Loop, World, Over

LEMMA OrderInvariant == Spec => []OrderInv
BY TypeInit, TypeStep, OrderInit, OrderStep, PTL DEF Spec

(* Inline commands fold breadth first, in the order their effects were     *)
(* dispatched, for every budget and every command an app may return.       *)
THEOREM FoldsInOrder == Spec => []FoldOrder
<1>1. OrderInv => FoldOrder
  BY DEF OrderInv, FoldOrder
<1> QED BY <1>1, OrderInvariant, PTL

-----------------------------------------------------------------------------
(* Where the loop can be once a quit has settled: on its way out, or in    *)
(* the settle of a tick that fell due during the last batch.               *)
QuitInv ==
    /\ pc \in {"arm", "poll", "coalesce", "drain"} => running
    /\ pc = "settle" => running \/ site = "tick"
    /\ pc = "duetick" => running \/ changed

LEMMA QuitInit == Init => QuitInv
BY DEF Init, SettleInit, QuitInv

LEMMA QuitStep == TypeOK /\ ScreenInv /\ QuitInv /\ [Next]_vars => QuitInv'
<1> SUFFICES ASSUME TypeOK, ScreenInv, QuitInv, [Next]_vars PROVE QuitInv'
  OBVIOUS
<1> USE DEF QuitInv, clock, loop, app, world, settleVars
<1>1. CASE SettleWork \/ SettleFold
  BY <1>1 DEF SettleWork, DispatchWork, SettleFold, Fold
<1>2. CASE SettleQuit
  BY <1>2 DEF SettleQuit, DispatchQuit, Return, TypeOK, ScreenInv
<1>3. CASE SettlePanic
  BY <1>3 DEF SettlePanic
<1>4. CASE SettleReturn
  BY <1>4 DEF SettleReturn, Return, TypeOK
<1>5. CASE DrainResult \/ DrainEmpty \/ Arm
  BY <1>5 DEF DrainResult, DrainEmpty, Arm, Step, Submit
<1>6. CASE PollEvent \/ Coalesce
  BY <1>6 DEF PollEvent, Coalesce, HandleInput, Step, Submit
<1>7. CASE PollTick \/ DueTick
  BY <1>7 DEF PollTick, DueTick, Tick, Step, Submit
<1>8. CASE PollWake \/ PollSkip \/ CoalesceEnd \/ NoDueTick \/ Present
  BY <1>8 DEF PollWake, PollSkip, CoalesceEnd, NoDueTick, Present, Iterate
<1>9. CASE PollEof \/ Failure
  BY <1>9 DEF PollEof, Failure, PollFails, PresentFails
<1>10. CASE World
  BY <1>10 DEF World, WorkDone, WorkPanics, Arrive, InputEnds
<1>11. CASE Advance \/ UNCHANGED vars
  BY <1>11 DEF Advance, vars
<1> QED
  BY <1>1, <1>2, <1>3, <1>4, <1>5, <1>6, <1>7, <1>8, <1>9, <1>10, <1>11
     DEF Next, Loop, Over

LEMMA QuitInvariant == Spec => [](TypeOK /\ QuitInv)
BY TypeInit, TypeStep, ScreenInit, ScreenStep, QuitInit, QuitStep, PTL DEF Spec

(* No input event is read while an inline message is left to fold: the     *)
(* turn of one event is over before the next event is looked at.           *)
THEOREM SettlesBeforeInput == Spec => []SettledBeforeInput
<1>1. TypeOK /\ QuitInv /\ OrderInv => SettledBeforeInput
  <2> SUFFICES ASSUME TypeOK, QuitInv, OrderInv, Inline, pc \in {"poll", "coalesce"}
               PROVE  folded = 1..issued
    BY DEF SettledBeforeInput
  <2>1. pending = <<>> /\ folded = 1..(issued - Len(pending))
    BY DEF OrderInv, QuitInv
  <2>2. Len(pending) = 0 /\ issued \in Nat
    BY <2>1 DEF TypeOK, SettleTypeOK
  <2>3. issued - Len(pending) = issued
    BY <2>2
  <2> QED BY <2>1, <2>3
<1> QED BY <1>1, QuitInvariant, OrderInvariant, PTL

(* A program that has quit does not run again. *)
LEMMA RunningStays == ASSUME [Next]_vars PROVE running' => running
<1> USE DEF clock, loop, app, world, settleVars
<1>1. CASE SettleWork \/ SettleFold \/ SettleQuit \/ SettlePanic \/ SettleReturn
  BY <1>1 DEF SettleWork, DispatchWork, SettleFold, Fold, SettleQuit, DispatchQuit,
              SettlePanic, SettleReturn
<1>2. CASE DrainResult \/ DrainEmpty \/ Arm
  BY <1>2 DEF DrainResult, DrainEmpty, Arm, Step, Submit
<1>3. CASE PollEvent \/ Coalesce \/ PollTick \/ DueTick
  BY <1>3 DEF PollEvent, Coalesce, HandleInput, PollTick, DueTick, Tick, Step, Submit
<1>4. CASE PollWake \/ PollSkip \/ CoalesceEnd \/ NoDueTick \/ Present \/ PollEof \/ Failure
  BY <1>4 DEF PollWake, PollSkip, CoalesceEnd, NoDueTick, Present, PollEof, Failure,
              PollFails, PresentFails
<1>5. CASE World \/ Advance \/ UNCHANGED vars
  BY <1>5 DEF World, WorkDone, WorkPanics, Arrive, InputEnds, Advance, vars
<1> QED BY <1>1, <1>2, <1>3, <1>4, <1>5 DEF Next, Loop, Over

(* Whatever the app and the executor, a settled quit is the end of input   *)
(* and of results: only a due tick still reaches update.                   *)
THEOREM QuitEndsFolding == Spec => QuitEndsInput
<1>1. QuitInv /\ QuitInv' /\ [Next]_vars => [~running /\ pc' = "settle" => site' = "tick"]_vars
  BY RunningStays DEF QuitInv
<1> QED BY <1>1, QuitInvariant, PTL DEF Spec, QuitEndsInput

(* Once a quit settled, update never runs again. *)
QuitIsFinal == [][~running => pc' # "settle"]_vars

(* In an app that never ticks, update runs only while the program does.    *)
UntickedInv == rate = FALSE /\ asks = FALSE /\ (pc = "settle" => running)

LEMMA UntickedStep ==
    ASSUME TickChoices = {FALSE}, QuitInv, UntickedInv, [Next]_vars
    PROVE  UntickedInv'
<1> USE DEF UntickedInv, clock, loop, app, world, settleVars
<1>1. CASE SettleWork \/ SettleFold
  BY <1>1 DEF SettleWork, DispatchWork, SettleFold, Fold
<1>2. CASE SettleQuit \/ SettlePanic \/ SettleReturn
  BY <1>2 DEF SettleQuit, DispatchQuit, SettlePanic, SettleReturn, Return
<1>3. CASE DrainResult \/ DrainEmpty \/ Arm
  BY <1>3 DEF DrainResult, DrainEmpty, Arm, Step, Submit, QuitInv
<1>4. CASE PollEvent \/ Coalesce
  BY <1>4 DEF PollEvent, Coalesce, HandleInput, Step, Submit, QuitInv
<1>5. CASE PollTick \/ DueTick
  BY <1>5 DEF PollTick, DueTick, TickInBatch
<1>6. CASE PollWake \/ PollSkip \/ CoalesceEnd \/ NoDueTick \/ Present
  BY <1>6 DEF PollWake, PollSkip, CoalesceEnd, NoDueTick, Present, Iterate
<1>7. CASE PollEof \/ Failure
  BY <1>7 DEF PollEof, Failure, PollFails, PresentFails
<1>8. CASE World
  BY <1>8 DEF World, WorkDone, WorkPanics, Arrive, InputEnds
<1>9. CASE Advance \/ UNCHANGED vars
  BY <1>9 DEF Advance, vars
<1> QED
  BY <1>1, <1>2, <1>3, <1>4, <1>5, <1>6, <1>7, <1>8, <1>9 DEF Next, Loop, Over

(* An app whose tick_rate is always None: once a quit has settled, update  *)
(* never runs again.                                                       *)
THEOREM UntickedQuitIsFinal ==
    ASSUME TickChoices = {FALSE}
    PROVE  Spec => QuitIsFinal
<1>1. Init => UntickedInv
  BY DEF Init, SettleInit, UntickedInv
<1>2. QuitInv /\ UntickedInv /\ [Next]_vars => UntickedInv'
  BY UntickedStep
<1>3. QuitInv /\ UntickedInv /\ [Next]_vars => [~running => pc' # "settle"]_vars
  <2> SUFFICES ASSUME QuitInv, UntickedInv, [Next]_vars, ~running, pc' = "settle"
               PROVE  UNCHANGED vars
    OBVIOUS
  <2>1. UntickedInv'
    BY UntickedStep
  <2>2. running'
    BY <2>1 DEF UntickedInv
  <2> QED BY <2>2, RunningStays
<1> QED BY <1>1, <1>2, <1>3, QuitInvariant, PTL DEF Spec, QuitIsFinal

-----------------------------------------------------------------------------
(* Off the loop no message is ever queued, and while the program runs the  *)
(* places a deferred message can be in do not overlap.  Inline no work can *)
(* panic away from the loop.                                               *)
Apart ==
    /\ IsInjective(results)
    /\ offloop \cap (Range(results) \cup crashed \cup folded) = {}
    /\ Range(results) \cap (crashed \cup folded) = {}
    /\ crashed \cap folded = {}
    /\ offloop \cup Range(results) \cup crashed \cup folded = 1..issued

ResultInv ==
    /\ Inline => crashed = {}
    /\ ~Inline => pending = <<>>
    /\ ~Inline /\ running /\ ~Ended => Apart

LEMMA ResultInit == Init => ResultInv
<1> SUFFICES ASSUME Init PROVE ResultInv
  OBVIOUS
<1>1. /\ pending = <<>> /\ offloop = {} /\ results = <<>> /\ crashed = {} /\ folded = {}
      /\ issued = 0
  BY DEF Init, SettleInit
<1>2. Range(results) = {} /\ IsInjective(results) /\ 1..issued = {}
  BY <1>1, EmptyQueue
<1> QED BY <1>1, <1>2 DEF ResultInv, Apart

(* A step that ends the program, or leaves the messages where they are.    *)
LEMMA StillApart ==
    ASSUME ResultInv, running' => running, Ended => Ended',
           UNCHANGED <<issued, offloop, results, crashed, folded>>,
           ~Inline => pending' = <<>>
    PROVE  ResultInv'
BY DEF ResultInv, Apart

LEMMA StepApart ==
    ASSUME ResultInv, Step, ~Ended, UNCHANGED <<offloop, results, crashed, folded>>
    PROVE  ResultInv'
BY DEF ResultInv, Apart, Step, Submit

LEMMA ResultStep == TypeOK /\ OrderInv /\ ResultInv /\ [Next]_vars => ResultInv'
<1> SUFFICES ASSUME TypeOK, OrderInv, ResultInv, [Next]_vars PROVE ResultInv'
  OBVIOUS
<1> USE DEF clock, loop, app, world
<1>0. /\ pending \in Seq(Nat) /\ results \in Seq(Nat) /\ issued \in Nat
      /\ ~Inline => pending = <<>>
  BY DEF TypeOK, SettleTypeOK, ResultInv
<1>1. CASE SettleWork
  <2>1. CASE Inline
    BY <1>1, <2>1 DEF SettleWork, ResultInv
  <2>2. CASE ~Inline
    <3>1. /\ offloop' = offloop \cup {issued + 1} /\ issued' = issued + 1
          /\ UNCHANGED <<pending, running, pc, results, crashed, folded>>
      BY <1>1, <2>2 DEF SettleWork, DispatchWork
    <3>2. issued + 1 \notin 1..issued /\ 1..(issued + 1) = (1..issued) \cup {issued + 1}
      BY <1>0
    <3>3. Apart => Apart'
      BY <3>1, <3>2 DEF Apart
    <3> QED BY <2>2, <3>1, <3>3 DEF ResultInv, Ended
  <2> QED BY <2>1, <2>2
<1>2. CASE SettleQuit
  BY <1>2, StillApart DEF SettleQuit, DispatchQuit, Return, Ended
<1>3. CASE SettleFold
  <2>1. Inline
    BY <1>0, <1>3 DEF SettleFold, Fold
  <2> QED BY <1>3, <2>1 DEF SettleFold, ResultInv
<1>4. CASE SettlePanic \/ SettleReturn
  BY <1>0, <1>4, StillApart DEF SettlePanic, SettleReturn, Return, settleVars, Ended
<1>5. CASE DrainResult
  <2>1. ~Inline
    BY <1>5 DEF DrainResult, OrderInv
  <2>2. /\ Range(results) = Range(results') \cup {Head(results)}
        /\ IsInjective(results) =>
              IsInjective(results') /\ Head(results) \notin Range(results')
    BY <1>0, <1>5, PopQueue DEF DrainResult
  <2>3. /\ folded' = folded \cup {Head(results)} /\ pending' = <<>>
        /\ UNCHANGED <<offloop, issued, running, crashed>> /\ pc = "drain"
    BY <1>5 DEF DrainResult, Step, Submit
  <2>4. Apart => Apart'
    BY <2>2, <2>3 DEF Apart
  <2> QED BY <2>1, <2>3, <2>4 DEF ResultInv, Ended
<1>6. CASE DrainEmpty \/ Arm
  BY <1>0, <1>6, StillApart DEF DrainEmpty, Arm, settleVars, Ended
<1>7. CASE PollEvent \/ Coalesce
  <2>1. \E before \in {FALSE, changed} : HandleInput(Head(inbox), before)
    BY <1>7 DEF PollEvent, Coalesce
  <2>2. PICK before \in {FALSE, changed} : HandleInput(Head(inbox), before)
    BY <2>1
  <2>3. ~Ended /\ UNCHANGED <<results, crashed, folded>>
    BY <1>7, <2>2 DEF PollEvent, Coalesce, HandleInput, Ended
  <2>4. CASE Step
    BY <2>3, <2>4, StepApart DEF Step, Submit
  <2>5. CASE UNCHANGED settleVars
    BY <1>0, <2>3, <2>5, StillApart DEF settleVars
  <2> QED BY <2>2, <2>4, <2>5 DEF HandleInput
<1>8. CASE PollTick \/ DueTick
  <2>1. Tick /\ ~Ended
    BY <1>8 DEF PollTick, DueTick, Ended
  <2>2. UNCHANGED <<results, crashed, folded>>
    BY <2>1 DEF Tick
  <2>3. CASE Step
    BY <2>1, <2>2, <2>3, StepApart DEF Step, Submit
  <2>4. CASE UNCHANGED settleVars
    BY <1>0, <2>1, <2>2, <2>4, StillApart DEF settleVars
  <2> QED BY <2>1, <2>3, <2>4 DEF Tick
<1>9. CASE PollWake \/ PollSkip \/ CoalesceEnd \/ NoDueTick \/ Present
  BY <1>0, <1>9, StillApart
     DEF PollWake, PollSkip, CoalesceEnd, NoDueTick, Present, Iterate, settleVars, Ended
<1>10. CASE PollEof \/ Failure
  BY <1>0, <1>10, StillApart DEF PollEof, Failure, PollFails, PresentFails, settleVars, Ended
<1>11. ASSUME NEW m \in offloop, WorkDone(m) PROVE ResultInv'
  <2>1. ~Inline
    BY DEF OrderInv
  <2>2. /\ offloop' = offloop \ {m} /\ UNCHANGED <<pending, running, pc, issued, crashed, folded>>
        /\ ~Ended => results' = Append(results, m)
    BY <1>11 DEF WorkDone
  <2>3. m \in Nat
    BY DEF TypeOK, SettleTypeOK
  <2>4. /\ ~Ended => Range(results') = Range(results) \cup {m}
        /\ ~Ended /\ IsInjective(results) /\ m \notin Range(results) => IsInjective(results')
    <3>1. /\ Range(Append(results, m)) = Range(results) \cup {m}
          /\ IsInjective(results) /\ m \notin Range(results) =>
                IsInjective(Append(results, m))
      BY <1>0, <2>3, PushQueue
    <3> QED BY <2>2, <3>1
  <2>5. ~Ended /\ Apart => Apart'
    BY <2>2, <2>4 DEF Apart
  <2> QED BY <2>1, <2>2, <2>5 DEF ResultInv, Ended
<1>12. ASSUME NEW m \in offloop, WorkPanics(m) PROVE ResultInv'
  <2>1. ~Inline
    BY DEF OrderInv
  <2>2. /\ offloop' = offloop \ {m} /\ crashed' = crashed \cup {m}
        /\ UNCHANGED <<pending, running, pc, issued, results, folded>>
    BY <1>12 DEF WorkPanics
  <2>3. Apart => Apart'
    BY <2>2 DEF Apart
  <2> QED BY <2>1, <2>2, <2>3 DEF ResultInv, Ended
<1>13. ASSUME NEW event \in Native, Arrive(event) PROVE ResultInv'
  BY <1>0, <1>13, StillApart DEF Arrive, settleVars, Ended
<1>14. CASE InputEnds \/ Advance \/ UNCHANGED vars
  BY <1>0, <1>14, StillApart DEF InputEnds, Advance, vars, settleVars, Ended
<1> QED
  BY <1>1, <1>2, <1>3, <1>4, <1>5, <1>6, <1>7, <1>8, <1>9, <1>10, <1>11, <1>12, <1>13,
     <1>14 DEF Next, Loop, World, Over

(* A queue without repetitions has as many elements as places.             *)
LEMMA RangeCount ==
    ASSUME NEW S, NEW s \in Seq(S), IsInjective(s)
    PROVE  IsFiniteSet(Range(s)) /\ Cardinality(Range(s)) = Len(s)
<1>1. Len(s) \in Nat /\ DOMAIN s = 1..Len(s)
  BY LenProperties
<1>2. IsFiniteSet(1..Len(s)) /\ Cardinality(1..Len(s)) = Len(s)
  BY <1>1, FS_Interval
<1>3. s \in [1..Len(s) -> Range(s)]
  BY <1>1 DEF Range
<1>4. s \in Bijection(1..Len(s), Range(s))
  BY <1>1, <1>3 DEF Range, Bijection, Injection, Surjection, IsInjective
<1>5. ExistsBijection(1..Len(s), Range(s))
  BY <1>4 DEF ExistsBijection
<1> QED BY <1>2, <1>5, FS_Bijection

(* The sizes of two finite sets that do not overlap add up. *)
LEMMA DisjointCount ==
    ASSUME NEW S, NEW T, IsFiniteSet(S), IsFiniteSet(T), S \cap T = {}
    PROVE  /\ IsFiniteSet(S \cup T)
           /\ Cardinality(S) \in Nat /\ Cardinality(T) \in Nat
           /\ Cardinality(S \cup T) = Cardinality(S) + Cardinality(T)
<1>1. Cardinality(S \cap T) = 0
  BY FS_EmptySet
<1>2. Cardinality(S) \in Nat /\ Cardinality(T) \in Nat
  BY FS_CardinalityType
<1>3. /\ IsFiniteSet(S \cup T)
      /\ Cardinality(S \cup T) = Cardinality(S) + Cardinality(T) - Cardinality(S \cap T)
  BY FS_Union
<1>4. Cardinality(S) + Cardinality(T) - 0 = Cardinality(S) + Cardinality(T)
  BY <1>2
<1> QED BY <1>1, <1>2, <1>3, <1>4

(* Every message whose work the loop deferred is in one place and folded   *)
(* once, for every executor, in whatever order the results come and        *)
(* whatever work panics.                                                   *)
THEOREM ResultsFoldedOnce == Spec => []EachResultOnce
<1>1. ASSUME TypeOK, OrderInv, ResultInv PROVE EachResultOnce
  <2> SUFFICES ASSUME running, ~Ended
               PROVE  /\ offloop \cup Range(results) \cup Range(pending)
                             \cup crashed \cup folded = 1..issued
                      /\ Cardinality(offloop) + Len(results) + Len(pending)
                             + Cardinality(crashed) + Cardinality(folded) = issued
    BY DEF EachResultOnce
  <2>0. issued \in Nat /\ results \in Seq(Nat) /\ pending \in Seq(Nat)
    BY <1>1 DEF TypeOK, SettleTypeOK
  <2>1. IsFiniteSet(1..issued) /\ Cardinality(1..issued) = issued
    BY <2>0, FS_Interval
  <2>2. CASE Inline
    <3> DEFINE k == Len(pending)
    <3>1. /\ offloop = {} /\ results = <<>> /\ crashed = {}
          /\ k <= issued /\ pending = Run(issued, k) /\ folded = 1..(issued - k)
      BY <1>1, <2>2 DEF OrderInv, ResultInv
    <3>2. k \in Nat /\ DOMAIN pending = 1..k
      BY <2>0, LenProperties
    <3>3. \A i \in 1..k : pending[i] = issued - k + i
      BY <3>1 DEF Run
    <3> HIDE DEF k
    <3>4. Range(pending) = (issued - k + 1)..issued
      <4>1. \A i \in 1..k : pending[i] \in (issued - k + 1)..issued
        BY <2>0, <3>1, <3>2, <3>3
      <4>2. ASSUME NEW n \in (issued - k + 1)..issued
            PROVE  n - (issued - k) \in 1..k /\ pending[n - (issued - k)] = n
        BY <2>0, <3>1, <3>2, <3>3
      <4> QED BY <3>2, <4>1, <4>2 DEF Range
    <3>5. Cardinality(folded) = issued - k
      BY <2>0, <3>1, <3>2, FS_Interval
    <3>6. Cardinality({}) = 0 /\ Len(results) = 0 /\ Range(results) = {}
      BY <3>1, FS_EmptySet, EmptyQueue
    <3>7. Range(pending) \cup folded = 1..issued
      BY <2>0, <3>1, <3>2, <3>4
    <3> QED BY <2>0, <3>1, <3>2, <3>5, <3>6, <3>7 DEF k
  <2>3. CASE ~Inline
    <3>1. Apart /\ pending = <<>>
      BY <1>1, <2>3 DEF ResultInv
    <3>2. Len(pending) = 0 /\ Range(pending) = {}
      BY <3>1, EmptyQueue
    <3>3. IsFiniteSet(Range(results)) /\ Cardinality(Range(results)) = Len(results)
      BY <2>0, <3>1, RangeCount DEF Apart
    <3>4. IsFiniteSet(offloop) /\ IsFiniteSet(crashed) /\ IsFiniteSet(folded)
      <4>1. offloop \subseteq 1..issued /\ crashed \subseteq 1..issued
            /\ folded \subseteq 1..issued
        BY <3>1 DEF Apart
      <4> QED BY <2>1, <4>1, FS_Subset
    <3> DEFINE U == offloop \cup Range(results)
               V == crashed \cup folded
    <3>5. /\ IsFiniteSet(U) /\ Cardinality(offloop) \in Nat /\ Len(results) \in Nat
          /\ Cardinality(U) = Cardinality(offloop) + Len(results)
      BY <3>1, <3>3, <3>4, DisjointCount DEF Apart
    <3>6. /\ IsFiniteSet(V) /\ Cardinality(crashed) \in Nat /\ Cardinality(folded) \in Nat
          /\ Cardinality(V) = Cardinality(crashed) + Cardinality(folded)
      BY <3>1, <3>4, DisjointCount DEF Apart
    <3>7. U \cap V = {} /\ U \cup V = 1..issued
      BY <3>1 DEF Apart
    <3> HIDE DEF U, V
    <3>8. Cardinality(U) + Cardinality(V) = issued
      BY <2>1, <3>5, <3>6, <3>7, DisjointCount
    <3>9. offloop \cup Range(results) \cup Range(pending) \cup crashed \cup folded = 1..issued
      BY <3>2, <3>7 DEF U, V
    <3> QED BY <3>2, <3>5, <3>6, <3>8, <3>9
  <2> QED BY <2>2, <2>3
<1>2. TypeOK /\ OrderInv /\ ResultInv => EachResultOnce
  BY <1>1
<1> QED
  BY <1>2, TypeInit, TypeStep, OrderInit, OrderStep, ResultInit, ResultStep, PTL DEF Spec
-----------------------------------------------------------------------------
(* The deadline of the tick is at least a period after the last tick, and  *)
(* the timeout of a poll is that deadline or, off the loop, an interval    *)
(* that began after the last tick.                                         *)
CadenceInv ==
    /\ tick # Never => tick + since >= Rate
    /\ pc = "poll" =>
          \/ wait = tick
          \/ ~Inline /\ wait # Never /\ (since = Rate \/ wait + since >= PollInterval)

LEMMA CadenceStep == TypeOK /\ CadenceInv /\ [Next]_vars => CadenceInv'
<1> SUFFICES ASSUME TypeOK, CadenceInv, [Next]_vars PROVE CadenceInv'
  OBVIOUS
<1> USE DEF clock, loop, CadenceInv
<1>0. /\ tick \in Nat \cup {Never} /\ wait \in Nat \cup {Never} /\ since \in 0..Rate
      /\ Rate \in Nat /\ PollInterval \in Nat /\ Never = -1
  BY RunLoopAssumption DEF TypeOK, Never
<1>1. CASE /\ UNCHANGED <<tick, wait, since>> /\ pc' # "poll"
  BY <1>1
<1>2. CASE SettleWork \/ SettleFold \/ World
  BY <1>2 DEF SettleWork, SettleFold, World, WorkDone, WorkPanics, Arrive, InputEnds
<1>3. CASE SettleQuit \/ SettleReturn \/ SettlePanic
  BY <1>1, <1>3 DEF SettleQuit, SettleReturn, SettlePanic, Return
<1>4. CASE DrainResult \/ DrainEmpty
  BY <1>1, <1>4 DEF DrainResult, DrainEmpty, Step
<1>5. CASE Arm
  <2>1. tick' # Never => tick' + since' >= Rate
    BY <1>0, <1>5 DEF Arm
  <2>2. wait' = tick' \/ (~Inline /\ wait' = PollInterval)
    BY <1>5 DEF Arm
  <2> QED BY <1>0, <1>5, <2>1, <2>2 DEF Arm
<1>6. CASE PollEvent \/ Coalesce
  <2>1. UNCHANGED <<tick, wait, since>>
    BY <1>6 DEF PollEvent, Coalesce
  <2>2. pc' # "poll"
    BY <1>6 DEF PollEvent, Coalesce, HandleInput, Step
  <2> QED BY <1>1, <2>1, <2>2
<1>7. CASE PollWake \/ PollSkip \/ PollEof \/ CoalesceEnd \/ NoDueTick \/ Present \/ Failure
  BY <1>1, <1>7 DEF PollWake, PollSkip, PollEof, CoalesceEnd, NoDueTick, Present, Failure, PollFails,
                    PresentFails, Iterate
<1>8. CASE PollTick \/ DueTick
  <2>1. tick' = Rate /\ since' = 0 /\ pc' # "poll"
    BY <1>8 DEF PollTick, DueTick, Tick, Step
  <2> QED BY <1>0, <2>1
<1>9. CASE Advance
  <2>1. pc' = pc /\ tick' = Less(tick) /\ wait' = Less(wait)
    BY <1>9 DEF Advance
  <2>2. since' = IF since < Rate THEN since + 1 ELSE since
    BY <1>9 DEF Advance
  <2> QED BY <1>0, <2>1, <2>2 DEF Less
<1>10. CASE UNCHANGED vars
  BY <1>10 DEF vars
<1> QED
  BY <1>2, <1>3, <1>4, <1>5, <1>6, <1>7, <1>8, <1>9, <1>10 DEF Next, Loop, Over

LEMMA CadenceInvariant == Spec => [](TypeOK /\ CadenceInv)
<1>1. Init => CadenceInv
  BY DEF Init, CadenceInv
<1>2. TypeOK /\ TypeOK' /\ CadenceInv /\ [Next]_vars => CadenceInv'
  BY CadenceStep
<1> QED BY <1>1, <1>2, TypeCorrect, PTL DEF Spec

(* The tick of a batch is served at the deadline of the tick, that of a    *)
(* poll when its wait is over or it ended early.                           *)
LEMMA BatchTickTime == ASSUME TypeOK, CadenceInv, DueTick PROVE since = Rate
<1>0. since \in 0..Rate /\ Rate \in Nat /\ tick = 0 /\ Never = -1
  BY RunLoopAssumption DEF TypeOK, DueTick, TickInBatch, Never
<1> QED BY <1>0 DEF CadenceInv

LEMMA PollTickTime ==
    ASSUME TypeOK, CadenceInv, PollTick
    PROVE  \/ since = Rate
           \/ ~Inline /\ since >= PollInterval
           \/ eof \/ inbox' # inbox
<1>0. /\ tick \in Nat \cup {Never} /\ since \in 0..Rate /\ Rate \in Nat /\ PollInterval \in Nat
      /\ Never = -1
  BY RunLoopAssumption DEF TypeOK, Never
<1>1. CASE Foreign
  BY <1>1, InboxTail DEF PollTick, PollNone, Foreign
<1>2. CASE wait = 0
  BY <1>0, <1>2 DEF PollTick, CadenceInv
<1>3. Foreign \/ wait = 0 \/ eof
  BY DEF PollTick, PollNone
<1> QED BY <1>1, <1>2, <1>3

(* Behind every executor, however batches, drains and changes of tick_rate *)
(* fall, the tick of a batch never comes before its period is over, and an *)
(* early tick of the poll has one of three causes: the poll interval, the  *)
(* end of input, or an event the poll read and rstui does not model.       *)
THEOREM EarlyTicksHaveCause == Spec => EarlyTickCause
<1>1. TypeOK /\ CadenceInv =>
          [/\ DueTick => since = Rate
           /\ PollTick => \/ since = Rate
                          \/ ~Inline /\ since >= PollInterval
                          \/ eof \/ inbox' # inbox]_vars
  BY BatchTickTime, PollTickTime
<1> QED BY <1>1, CadenceInvariant, PTL DEF Spec, EarlyTickCause
-----------------------------------------------------------------------------
(* What the loop owes an executor: room for the effects of the command in  *)
(* hand, and no number given to two effects.                               *)
ClientInv ==
    /\ issued + Len(todo) <= MaxMessages
    /\ offloop \cup crashed \subseteq 1..issued
    /\ offloop \cap crashed = {}

LEMMA ClientInit == Init => ClientInv
BY DEF Init, SettleInit, ClientInv

(* A step that defers nothing, of a command that fits.                     *)
LEMMA ClientKept ==
    ASSUME TypeOK, ClientInv, UNCHANGED <<issued, offloop, crashed>>,
           \/ UNCHANGED todo
           \/ todo' = <<>>
           \/ \E cmd \in Offered : todo' = cmd
    PROVE  ClientInv'
<1>1. issued \in Nat /\ Len(todo) \in Nat /\ Len(<<>>) = 0
  BY LenProperties, EmptyQueue DEF TypeOK, SettleTypeOK
<1>2. issued' + Len(todo') <= MaxMessages
  BY <1>1, SettleAssumption DEF ClientInv, Offered
<1> QED BY <1>2 DEF ClientInv

LEMMA ClientStep == TypeOK /\ ClientInv /\ [Next]_vars => ClientInv'
<1> SUFFICES ASSUME TypeOK, ClientInv, [Next]_vars PROVE ClientInv'
  OBVIOUS
<1> USE DEF clock, loop, app, world, settleVars
<1>0. issued \in Nat /\ todo \in Seq(Effects) /\ Len(todo) \in Nat
  BY LenProperties DEF TypeOK, SettleTypeOK
<1>1. CASE SettleWork
  <2>1. /\ issued' = issued + 1 /\ todo # <<>> /\ todo' = Tail(todo)
        /\ offloop' \subseteq offloop \cup {issued + 1} /\ UNCHANGED crashed
    BY <1>1 DEF SettleWork, DispatchWork
  <2>2. Len(todo') = Len(todo) - 1
    BY <1>0, <2>1, PopQueue
  <2>3. issued' + Len(todo') <= MaxMessages
    BY <1>0, <2>1, <2>2 DEF ClientInv
  <2>4. issued + 1 \notin 1..issued /\ 1..(issued + 1) = (1..issued) \cup {issued + 1}
    BY <1>0
  <2> QED BY <2>1, <2>3, <2>4 DEF ClientInv
<1>2. CASE SettleQuit \/ SettleFold
  BY <1>2, ClientKept DEF SettleQuit, DispatchQuit, SettleFold, Fold
<1>3. CASE SettlePanic \/ SettleReturn \/ DrainEmpty \/ Arm \/ PollWake \/ PollSkip \/ PollEof
           \/ CoalesceEnd \/ NoDueTick \/ Present \/ Failure
  BY <1>3, ClientKept
     DEF SettlePanic, SettleReturn, DrainEmpty, Arm, PollWake, PollSkip, PollEof, CoalesceEnd, NoDueTick,
         Present, Failure, PollFails, PresentFails
<1>4. CASE DrainResult
  BY <1>4, ClientKept DEF DrainResult, Step, Submit
<1>5. CASE PollEvent \/ Coalesce
  BY <1>5, ClientKept DEF PollEvent, Coalesce, HandleInput, Step, Submit
<1>6. CASE PollTick \/ DueTick
  BY <1>6, ClientKept DEF PollTick, DueTick, Tick, Step, Submit
<1>7. ASSUME NEW m \in offloop, WorkDone(m) \/ WorkPanics(m) PROVE ClientInv'
  BY <1>7 DEF WorkDone, WorkPanics, ClientInv
<1>8. CASE (\E event \in Native : Arrive(event)) \/ InputEnds \/ Advance \/ UNCHANGED vars
  BY <1>8, ClientKept DEF Arrive, InputEnds, Advance, vars
<1> QED
  BY <1>1, <1>2, <1>3, <1>4, <1>5, <1>6, <1>7, <1>8 DEF Next, Loop, World, Over

(* One effect has a new fate.                                              *)
LEMMA FateMoves ==
    ASSUME NEW m \in 1..MaxMessages, NEW f, fate'[m] = f,
           \A i \in 1..MaxMessages : i # m => fate'[i] = fate[i]
    PROVE  fate' = [fate EXCEPT ![m] = f]
<1>1. /\ DOMAIN fate = 1..MaxMessages /\ DOMAIN fate' = 1..MaxMessages
      /\ fate = [i \in 1..MaxMessages |-> fate[i]]
      /\ fate' = [i \in 1..MaxMessages |-> fate'[i]]
  BY DEF fate
<1> QED BY <1>1

(* A step that defers nothing is none to the executor, or the return.      *)
LEMMA FatesKept ==
    ASSUME UNCHANGED <<issued, offloop, crashed>>, Ended => Ended'
    PROVE  [Exec!Next]_(Exec!vars)
<1>1. UNCHANGED fate
  BY DEF fate
<1>2. CASE Ended' = Ended
  BY <1>1, <1>2 DEF Exec!vars
<1>3. CASE Ended' # Ended
  <2>1. ~Ended /\ Ended' /\ Ended' = TRUE
    BY <1>3 DEF Ended
  <2>2. Exec!Return
    BY <1>1, <2>1 DEF Exec!Return
  <2> QED BY <2>2 DEF Exec!Next
<1> QED BY <1>2, <1>3

LEMMA ExecutorStep ==
    ASSUME ~Inline, TypeOK, ClientInv, [Next]_vars
    PROVE  [Exec!Next]_(Exec!vars)
<1> USE DEF clock, loop, app, world, settleVars
<1>0. /\ issued \in Nat /\ MaxMessages \in Nat /\ todo \in Seq(Effects) /\ Len(todo) \in Nat
      /\ offloop \cup crashed \subseteq 1..issued /\ offloop \cap crashed = {}
      /\ issued <= MaxMessages
  <2>1. issued \in Nat /\ todo \in Seq(Effects) /\ Len(todo) \in Nat
    BY LenProperties DEF TypeOK, SettleTypeOK
  <2> QED BY <2>1, SettleAssumption DEF ClientInv
<1>1. CASE SettleWork
  <2> DEFINE n == issued + 1
  <2>1. /\ issued' = n /\ offloop' = offloop \cup {n} /\ todo # <<>>
        /\ UNCHANGED <<pc, crashed>> /\ pc = "settle"
    BY <1>1 DEF SettleWork, DispatchWork
  <2>2. Len(todo) >= 1
    BY <1>0, <2>1, PopQueue
  <2>3. n \in 1..MaxMessages
    BY <1>0, <2>2 DEF ClientInv
  <2>4. fate[n] = "new" /\ fate'[n] = "deferred"
    BY <1>0, <2>1, <2>3 DEF fate
  <2>5. \A i \in 1..MaxMessages : i # n => fate'[i] = fate[i]
    BY <1>0, <2>1 DEF fate
  <2> HIDE DEF n
  <2>6. fate' = [fate EXCEPT ![n] = "deferred"]
    BY <2>3, <2>4, <2>5, FateMoves
  <2>7. ~Ended /\ Ended' = Ended
    BY <2>1 DEF Ended
  <2>8. Exec!Defer(n)
    BY <2>4, <2>6, <2>7 DEF Exec!Defer
  <2> QED BY <2>3, <2>8 DEF Exec!Next
<1>2. ASSUME NEW m \in offloop, WorkDone(m) \/ WorkPanics(m) PROVE Exec!Next
  <2>1. /\ offloop' = offloop \ {m} /\ UNCHANGED <<issued, pc>>
        /\ m \in 1..MaxMessages /\ m \notin crashed
    BY <1>0, <1>2 DEF WorkDone, WorkPanics
  <2>2. fate[m] = "deferred" /\ Ended' = Ended
    BY <1>0, <2>1 DEF fate, Ended
  <2>3. CASE WorkDone(m)
    <3>1. fate'[m] = "sent" /\ \A i \in 1..MaxMessages : i # m => fate'[i] = fate[i]
      BY <1>0, <2>1, <2>3 DEF WorkDone, fate
    <3>2. fate' = [fate EXCEPT ![m] = "sent"]
      BY <2>1, <3>1, FateMoves
    <3>3. Exec!Answer(m)
      BY <2>2, <3>2 DEF Exec!Answer
    <3> QED BY <2>1, <3>3 DEF Exec!Next
  <2>4. CASE WorkPanics(m)
    <3>1. fate'[m] = "lost" /\ \A i \in 1..MaxMessages : i # m => fate'[i] = fate[i]
      BY <1>0, <2>1, <2>4 DEF WorkPanics, fate
    <3>2. fate' = [fate EXCEPT ![m] = "lost"]
      BY <2>1, <3>1, FateMoves
    <3>3. Exec!Lose(m)
      BY <2>1, <2>2, <3>2 DEF Exec!Lose
    <3> QED BY <2>1, <3>3 DEF Exec!Next
  <2> QED BY <1>2, <2>3, <2>4
<1>3. CASE SettleQuit \/ SettleFold \/ SettlePanic \/ SettleReturn
  BY <1>3, FatesKept
     DEF SettleQuit, DispatchQuit, SettleFold, Fold, SettlePanic, SettleReturn, Ended
<1>4. CASE DrainEmpty \/ Arm \/ PollWake \/ PollSkip \/ PollEof \/ CoalesceEnd \/ NoDueTick
           \/ Present \/ Failure
  BY <1>4, FatesKept
     DEF DrainEmpty, Arm, PollWake, PollSkip, PollEof, CoalesceEnd, NoDueTick, Present, Failure,
         PollFails, PresentFails, Ended
<1>5. CASE DrainResult \/ PollEvent \/ Coalesce
  BY <1>5, FatesKept DEF DrainResult, PollEvent, Coalesce, HandleInput, Step, Submit, Ended
<1>6. CASE PollTick \/ DueTick
  BY <1>6, FatesKept DEF PollTick, DueTick, Tick, Step, Submit, Ended
<1>7. CASE (\E event \in Native : Arrive(event)) \/ InputEnds \/ Advance \/ UNCHANGED vars
  BY <1>7, FatesKept DEF Arrive, InputEnds, Advance, vars, Ended
<1> QED
  BY <1>1, <1>2, <1>3, <1>4, <1>5, <1>6, <1>7 DEF Next, Loop, World, Over

(* Off the loop, run_core is a client that keeps to the contract of its    *)
(* executor, and that contract covers all its workers do to it.            *)
THEOREM LoopKeepsToExecutor == Spec => KeepsToExecutor
<1> SUFFICES ASSUME ~Inline PROVE Spec => Exec!Spec
  BY DEF KeepsToExecutor
<1>1. Init => Exec!Init
  <2> SUFFICES ASSUME Init PROVE Exec!Init
    OBVIOUS
  <2>1. issued = 0 /\ ~Ended
    BY DEF Init, SettleInit, Ended
  <2>2. fate = [m \in 1..MaxMessages |-> "new"]
    BY <2>1, SettleAssumption DEF fate
  <2> QED BY <2>1, <2>2 DEF Exec!Init, Ended
<1>2. TypeOK /\ TypeOK' /\ ClientInv /\ [Next]_vars => ClientInv'
  BY ClientStep
<1>3. TypeOK /\ ClientInv /\ [Next]_vars => [Exec!Next]_(Exec!vars)
  BY ExecutorStep
<1> QED BY <1>1, <1>2, <1>3, ClientInit, TypeCorrect, PTL DEF Spec, Exec!Spec
=============================================================================
