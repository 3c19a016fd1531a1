------------------------- MODULE CommandPool_proofs -------------------------
(* Theorems about CommandPool, for every set of workers and of jobs. *)
EXTENDS CommandPool, FiniteSetTheorems, SequenceTheorems, TLAPS

-----------------------------------------------------------------------------
(* Sequences stay sequences under the operations of a queue. *)
LEMMA QueueType ==
    ASSUME NEW S
    PROVE  /\ <<>> \in Seq(S)
           /\ \A s \in Seq(S), e \in S : Append(s, e) \in Seq(S)
           /\ \A s \in Seq(S) : s # <<>> => Head(s) \in S /\ Tail(s) \in Seq(S)
<1>1. <<>> \in Seq(S)
  BY EmptySeq
<1>2. ASSUME NEW s \in Seq(S), NEW e \in S PROVE Append(s, e) \in Seq(S)
  BY AppendProperties
<1>3. ASSUME NEW s \in Seq(S), s # <<>> PROVE Head(s) \in S /\ Tail(s) \in Seq(S)
  BY <1>3, HeadTailProperties
<1> QED BY <1>1, <1>2, <1>3

(* An empty queue has no elements. *)
LEMMA EmptyQueue == Range(<<>>) = {} /\ IsInjective(<<>>) /\ Len(<<>>) = 0
BY EmptySeq, LenProperties DEF Range, IsInjective

(* What a push adds. *)
LEMMA PushQueue ==
    ASSUME NEW S, NEW s \in Seq(S), NEW e \in S
    PROVE  /\ Len(Append(s, e)) = Len(s) + 1
           /\ Range(Append(s, e)) = Range(s) \cup {e}
           /\ IsInjective(s) /\ e \notin Range(s) => IsInjective(Append(s, e))
<1> DEFINE t == Append(s, e)
<1>1. /\ Len(s) \in Nat /\ DOMAIN s = 1..Len(s)
      /\ t \in Seq(S) /\ Len(t) = Len(s) + 1 /\ DOMAIN t = 1..(Len(s) + 1)
      /\ \A i \in 1..Len(s) : t[i] = s[i]
      /\ t[Len(s) + 1] = e
  BY AppendProperties, LenProperties
<1> HIDE DEF t
<1>2. Range(t) = Range(s) \cup {e}
  BY <1>1 DEF Range
<1>3. IsInjective(s) /\ e \notin Range(s) => IsInjective(t)
  BY <1>1 DEF Range, IsInjective
<1> QED BY <1>1, <1>2, <1>3 DEF t

(* What a pop removes. *)
LEMMA PopQueue ==
    ASSUME NEW S, NEW s \in Seq(S), s # <<>>
    PROVE  /\ Len(s) >= 1 /\ Len(Tail(s)) = Len(s) - 1
           /\ Range(s) = Range(Tail(s)) \cup {Head(s)}
           /\ IsInjective(s) => IsInjective(Tail(s)) /\ Head(s) \notin Range(Tail(s))
<1> DEFINE t == Tail(s)
<1>1. /\ Len(s) \in Nat \ {0} /\ DOMAIN s = 1..Len(s)
      /\ Len(t) = Len(s) - 1 /\ DOMAIN t = 1..(Len(s) - 1)
      /\ \A i \in 1..(Len(s) - 1) : t[i] = s[i + 1]
      /\ Head(s) = s[1]
  BY EmptySeq, HeadTailProperties, LenProperties
<1> HIDE DEF t
<1>2. ASSUME NEW i \in 1..Len(s), i # 1 PROVE i - 1 \in 1..(Len(s) - 1) /\ s[i] = t[i - 1]
  BY <1>1, <1>2
<1>3. \A i \in 1..(Len(s) - 1) : i + 1 \in 1..Len(s) /\ t[i] = s[i + 1]
  BY <1>1
<1>4. Range(s) = Range(t) \cup {Head(s)}
  <2>1. \A x \in Range(t) \cup {Head(s)} : x \in Range(s)
    BY <1>1, <1>3, 1 \in 1..Len(s) DEF Range
  <2>2. ASSUME NEW i \in 1..Len(s) PROVE s[i] \in Range(t) \cup {Head(s)}
    BY <1>1, <1>2 DEF Range
  <2>3. \A x \in Range(s) : \E i \in 1..Len(s) : x = s[i]
    BY <1>1 DEF Range
  <2>4. \A x \in Range(s) : x \in Range(t) \cup {Head(s)}
    BY <2>2, <2>3
  <2> QED BY <2>1, <2>4
<1>5. ASSUME IsInjective(s) PROVE IsInjective(t)
  <2>1. ASSUME NEW i \in 1..(Len(s) - 1), NEW k \in 1..(Len(s) - 1), t[i] = t[k]
        PROVE  i = k
    <3>1. s[i + 1] = s[k + 1] /\ i + 1 \in DOMAIN s /\ k + 1 \in DOMAIN s
      BY <1>1, <1>3, <2>1
    <3>2. i + 1 = k + 1
      BY <1>5, <3>1 DEF IsInjective
    <3> QED BY <3>2
  <2> QED BY <1>1, <2>1 DEF IsInjective
<1>6. ASSUME IsInjective(s), NEW i \in 1..(Len(s) - 1) PROVE t[i] # Head(s)
  <2>1. s[i + 1] # s[1]
    BY <1>1, <1>3, <1>6 DEF IsInjective
  <2> QED BY <1>1, <1>3, <2>1
<1>7. IsInjective(s) => Head(s) \notin Range(t)
  BY <1>1, <1>6 DEF Range
<1>8. Len(s) >= 1
  BY <1>1
<1> QED BY <1>1, <1>4, <1>5, <1>7, <1>8 DEF t

-----------------------------------------------------------------------------
(* One worker moves to x. *)
LEMMA Moves ==
    ASSUME TypeOK, NEW w \in Workers, NEW x \in Idle \cup Jobs,
           worker' = [worker EXCEPT ![w] = x]
    PROVE  /\ worker' \in [Workers -> Idle \cup Jobs]
           /\ worker'[w] = x /\ \A v \in Workers \ {w} : worker'[v] = worker[v]
           /\ x \in Jobs => Busy' = Busy \cup {w}
           /\ x \in Idle => Busy' = Busy \ {w}
           /\ x = "check" => Looking' = Looking \cup {w}
           /\ x # "check" => Looking' = Looking \ {w}
           /\ x = "parked" => Parked' = Parked \cup {w}
           /\ x # "parked" => Parked' = Parked \ {w}
<1>1. /\ worker' \in [Workers -> Idle \cup Jobs]
      /\ worker'[w] = x /\ \A v \in Workers \ {w} : worker'[v] = worker[v]
  BY DEF TypeOK
<1>2. (x \in Jobs => Busy' = Busy \cup {w}) /\ (x \in Idle => Busy' = Busy \ {w})
  BY <1>1, PoolAssumption DEF Busy
<1>3. /\ x = "check" => Looking' = Looking \cup {w}
      /\ x # "check" => Looking' = Looking \ {w}
  BY <1>1 DEF Looking
<1>4. /\ x = "parked" => Parked' = Parked \cup {w}
      /\ x # "parked" => Parked' = Parked \ {w}
  BY <1>1 DEF Parked
<1> QED BY <1>1, <1>2, <1>3, <1>4

(* The sets a count is taken of are finite. *)
LEMMA Finite ==
    ASSUME TypeOK
    PROVE  /\ IsFiniteSet(Parked) /\ IsFiniteSet(Looking) /\ IsFiniteSet(Busy)
           /\ \A S \in SUBSET Jobs : IsFiniteSet(S)
<1>1. Parked \in SUBSET Workers /\ Looking \in SUBSET Workers /\ Busy \in SUBSET Workers
  BY DEF Parked, Looking, Busy
<1> QED BY <1>1, FS_Subset, PoolAssumption

-----------------------------------------------------------------------------
LEMMA TypeInit == Init => TypeOK
BY QueueType DEF Init, TypeOK, Idle

LEMMA TypeStep == TypeOK /\ [Next]_vars => TypeOK'
<1> SUFFICES ASSUME TypeOK, [Next]_vars PROVE TypeOK'
  OBVIOUS
<1>t. Timers \subseteq Jobs
  BY PoolAssumption
<1>1. ASSUME NEW j \in Jobs, Perform(j) \/ WakeTimer(j) PROVE TypeOK'
  <2>1. queue' \in Seq(Jobs)
    BY <1>1, QueueType DEF TypeOK, Perform, WakeTimer, Push
  <2> QED BY <1>1, <2>1 DEF TypeOK, Perform, WakeTimer, Push
<1>2. ASSUME NEW j \in Jobs, StartTimer(j) PROVE TypeOK'
  BY <1>t, <1>2 DEF TypeOK, StartTimer
<1>3. ASSUME NEW j \in Jobs, Notify(j) PROVE TypeOK'
  <2>1. worker' \in [Workers -> Idle \cup Jobs]
    BY <1>3 DEF TypeOK, Notify, Parked, Idle
  <2> QED BY <1>3, <2>1 DEF TypeOK, Notify
<1>4. CASE Close \/ DropReceiver
  BY <1>4 DEF TypeOK, Close, DropReceiver, LoopIdle
<1>5. CASE NotifyAll
  <2>1. worker' \in [Workers -> Idle \cup Jobs]
    BY <1>5 DEF TypeOK, NotifyAll, Idle
  <2> QED BY <1>5, <2>1 DEF TypeOK, NotifyAll
<1>6. ASSUME NEW w \in Workers, Take(w) PROVE TypeOK'
  <2>1. Head(queue) \in Jobs /\ queue' \in Seq(Jobs)
    BY <1>6, QueueType DEF TypeOK, Take
  <2>2. worker' \in [Workers -> Idle \cup Jobs]
    BY <1>6, <2>1 DEF TypeOK, Take
  <2> QED BY <1>6, <2>1, <2>2 DEF TypeOK, Take
<1>7. ASSUME NEW w \in Workers, Exit(w) \/ Park(w) \/ WakeSpuriously(w) PROVE TypeOK'
  <2>1. worker' \in [Workers -> Idle \cup Jobs]
    BY <1>7 DEF TypeOK, Exit, Park, WakeSpuriously, Idle
  <2> QED BY <1>7, <2>1 DEF TypeOK, Exit, Park, WakeSpuriously
<1>8. ASSUME NEW w \in Workers, Work(w) PROVE TypeOK'
  <2>1. worker' \in [Workers -> Idle \cup Jobs]
    BY <1>8 DEF TypeOK, Work, Finish, Panic, Idle
  <2> QED BY <1>8, <2>1, PoolAssumption DEF TypeOK, Work, Finish, Panic
<1>9. CASE UNCHANGED vars
  BY <1>9 DEF TypeOK, vars
<1> QED BY <1>1, <1>2, <1>3, <1>4, <1>5, <1>6, <1>7, <1>8, <1>9
        DEF Next, Submitters, Look, Over

(* Type correctness: in particular no thread but a timer's ever sleeps and *)
(* a worker runs jobs the loop has deferred.                               *)
THEOREM TypeCorrect == Spec => []TypeOK
BY TypeInit, TypeStep, PTL DEF Spec

------------------------------------------------------------------------

-----------------------------------------------------------------------------
(* The places a deferred job can be in do not overlap. *)
Apart ==
    /\ IsInjective(queue)
    /\ \A w, v \in Busy : worker[w] = worker[v] => w = v
    /\ asleep \cap (Range(queue) \cup Running \cup sent \cup lost) = {}
    /\ Range(queue) \cap (Running \cup sent \cup lost) = {}
    /\ Running \cap (sent \cup lost) = {}
    /\ sent \cap lost = {}

Places ==
    /\ Apart
    /\ asleep \cup Range(queue) \cup Running \cup sent \cup lost = issued
    /\ notifying \subseteq issued \ asleep

(* What a move of one worker does to the jobs that run. *)
LEMMA RunningMoves ==
    ASSUME TypeOK, Apart, NEW w \in Workers, NEW x \in Idle \cup Jobs,
           worker' = [worker EXCEPT ![w] = x]
    PROVE  /\ worker[w] \in Idle /\ x \in Idle => Running' = Running
           /\ worker[w] \in Jobs /\ x \in Idle =>
                 w \in Busy /\ worker[w] \in Running /\ Running' = Running \ {worker[w]}
           /\ worker[w] \in Idle /\ x \in Jobs =>
                 w \notin Busy /\ Running' = Running \cup {x}
<1>1. /\ worker'[w] = x /\ \A v \in Workers \ {w} : worker'[v] = worker[v]
      /\ x \in Jobs => Busy' = Busy \cup {w}
      /\ x \in Idle => Busy' = Busy \ {w}
  BY Moves
<1>2. Busy \subseteq Workers /\ \A v \in Workers : v \in Busy <=> worker[v] \in Jobs
  BY DEF Busy
<1>3. Running = {worker[v] : v \in Busy} /\ Running' = {worker'[v] : v \in Busy'}
  BY DEF Running
<1>4. ~(worker[w] \in Jobs /\ worker[w] \in Idle)
  BY PoolAssumption
<1>5. ASSUME worker[w] \in Idle, x \in Idle PROVE Running' = Running
  BY <1>1, <1>2, <1>3, <1>4, <1>5
<1>6. ASSUME worker[w] \in Jobs, x \in Idle
      PROVE  w \in Busy /\ worker[w] \in Running /\ Running' = Running \ {worker[w]}
  <2>1. \A v \in Busy : worker[v] = worker[w] => v = w
    BY <1>2, <1>6 DEF Apart
  <2> QED BY <1>1, <1>2, <1>3, <1>6, <2>1
<1>7. ASSUME worker[w] \in Idle, x \in Jobs
      PROVE  w \notin Busy /\ Running' = Running \cup {x}
  BY <1>1, <1>2, <1>3, <1>4, <1>7
<1> QED BY <1>5, <1>6, <1>7

(* A push of a job that is in no place, or only asleep. *)
LEMMA PushPlaces ==
    ASSUME TypeOK, Places, NEW j \in Jobs, Push(j), UNCHANGED <<worker, sent, lost>>,
           \/ j \notin issued /\ issued' = issued \cup {j} /\ UNCHANGED asleep
           \/ j \in asleep /\ asleep' = asleep \ {j} /\ UNCHANGED issued
    PROVE  Places'
<1>1. j \notin Range(queue) /\ j \notin Running /\ j \notin sent /\ j \notin lost
  BY DEF Places, Apart
<1>2. Range(queue') = Range(queue) \cup {j} /\ IsInjective(queue')
  BY <1>1, PushQueue DEF TypeOK, Places, Apart, Push
<1>3. Busy' = Busy /\ Running' = Running
  BY DEF Busy, Running
<1>4. \A w, v \in Busy' : worker'[w] = worker'[v] => w = v
  BY <1>3 DEF Places, Apart
<1> QED BY <1>1, <1>2, <1>3, <1>4 DEF Places, Apart, Push

LEMMA PlacesInit == Init => Places
<1> SUFFICES ASSUME Init PROVE Places
  OBVIOUS
<1>1. Busy = {} /\ Running = {}
  BY PoolAssumption DEF Init, Busy, Running, Idle
<1>2. Range(queue) = {} /\ IsInjective(queue)
  BY EmptyQueue DEF Init
<1> QED BY <1>1, <1>2 DEF Init, Places, Apart

(* No worker takes a job or leaves one. *)
IdleMoves ==
    \A v \in Workers :
        \/ worker'[v] = worker[v]
        \/ worker'[v] \in Idle /\ worker[v] \in Idle

LEMMA PlacesStep == TypeOK /\ Places /\ [Next]_vars => Places'
<1> SUFFICES ASSUME TypeOK, Places, [Next]_vars PROVE Places'
  OBVIOUS
<1>a. Apart
  BY DEF Places
<1>k. "check" \in Idle /\ "parked" \in Idle /\ "exited" \in Idle /\ "dead" \in Idle
  BY DEF Idle
<1>s. ASSUME UNCHANGED <<queue, asleep, issued, sent, lost>>, notifying' \subseteq notifying,
             IdleMoves
      PROVE  Places'
  <2>1. Busy' = Busy /\ \A v \in Busy : v \in Workers /\ worker'[v] = worker[v]
    BY <1>s, PoolAssumption DEF Busy, IdleMoves
  <2>2. Running' = Running
    BY <2>1 DEF Running
  <2> QED BY <1>s, <2>1, <2>2 DEF Places, Apart
<1>1. ASSUME NEW j \in Jobs, Perform(j) PROVE Places'
  BY <1>1, PushPlaces DEF Perform
<1>2. ASSUME NEW j \in Jobs, WakeTimer(j) PROVE Places'
  BY <1>2, PushPlaces DEF WakeTimer
<1>3. ASSUME NEW j \in Jobs, StartTimer(j) PROVE Places'
  <2>1. Busy' = Busy /\ Running' = Running /\ UNCHANGED worker
    BY <1>3 DEF StartTimer, Busy, Running
  <2>2. /\ j \notin issued /\ issued' = issued \cup {j} /\ asleep' = asleep \cup {j}
        /\ UNCHANGED <<queue, notifying, sent, lost>>
    BY <1>3 DEF StartTimer
  <2> QED BY <2>1, <2>2 DEF Places, Apart
<1>4. ASSUME NEW j \in Jobs, Notify(j) PROVE Places'
  <2>1. IdleMoves
    BY <1>4, <1>k DEF TypeOK, Notify, Parked, IdleMoves
  <2> QED BY <1>4, <1>s, <2>1 DEF Notify
<1>5. CASE Close \/ DropReceiver
  BY <1>5, <1>s DEF Close, DropReceiver, IdleMoves
<1>6. CASE NotifyAll
  <2>1. IdleMoves
    BY <1>6, <1>k DEF NotifyAll, IdleMoves
  <2> QED BY <1>6, <1>s, <2>1 DEF NotifyAll
<1>7. ASSUME NEW w \in Workers, Take(w) PROVE Places'
  <2> DEFINE j == Head(queue)
  <2>1. /\ j \in Jobs /\ worker[w] \in Idle /\ queue # <<>>
        /\ worker' = [worker EXCEPT ![w] = j] /\ queue' = Tail(queue)
        /\ UNCHANGED <<asleep, notifying, issued, sent, lost>>
    BY <1>7, <1>k, QueueType DEF TypeOK, Take
  <2> HIDE DEF j
  <2>2. /\ Range(queue) = Range(queue') \cup {j}
        /\ IsInjective(queue') /\ j \notin Range(queue')
    BY <2>1, PopQueue DEF TypeOK, Places, Apart, j
  <2>3. Running' = Running \cup {j} /\ Busy' = Busy \cup {w} /\ w \notin Busy
        /\ worker'[w] = j /\ \A v \in Workers \ {w} : worker'[v] = worker[v]
    BY <1>a, <2>1, Moves, RunningMoves
  <2>4. \A v, u \in Busy' : worker'[v] = worker'[u] => v = u
    <3>1. \A v \in Busy : v \in Workers \ {w} /\ worker[v] \in Running
      BY <2>3 DEF Busy, Running
    <3>2. j \notin Running
      BY <2>2 DEF Places, Apart
    <3> QED BY <2>3, <3>1, <3>2 DEF Places, Apart
  <2> QED BY <2>1, <2>2, <2>3, <2>4 DEF Places, Apart
<1>8. ASSUME NEW w \in Workers, Exit(w) \/ Park(w) \/ WakeSpuriously(w) PROVE Places'
  <2>1. IdleMoves
    BY <1>8, <1>k DEF TypeOK, Exit, Park, WakeSpuriously, IdleMoves
  <2> QED BY <1>8, <1>s, <2>1 DEF Exit, Park, WakeSpuriously
<1>9. ASSUME NEW w \in Workers, Work(w) PROVE Places'
  <2> DEFINE j == worker[w]
  <2>1. PICK x \in Idle : worker' = [worker EXCEPT ![w] = x]
    BY <1>9, <1>k DEF Work, Finish, Panic
  <2>2. /\ j \in Jobs /\ UNCHANGED <<queue, asleep, notifying, issued>>
        /\ \/ sent' = sent \cup {j} /\ UNCHANGED lost
           \/ lost' = lost \cup {j} /\ UNCHANGED sent
    BY <1>9, PoolAssumption DEF Work, Finish, Panic
  <2> HIDE DEF j
  <2>3. j \in Running /\ Running' = Running \ {j}
    BY <1>a, <2>1, <2>2, RunningMoves DEF j
  <2>4. Busy' \subseteq Busy /\ \A v \in Busy' : worker'[v] = worker[v]
    BY <2>1, Moves DEF Busy
  <2>5. \A v, u \in Busy' : worker'[v] = worker'[u] => v = u
    BY <2>4 DEF Places, Apart
  <2> QED BY <2>2, <2>3, <2>5 DEF Places, Apart
<1>10. CASE UNCHANGED vars
  <2>1. Busy' = Busy /\ Running' = Running
    BY <1>10 DEF vars, Busy, Running
  <2> QED BY <1>10, <2>1 DEF vars, Places, Apart
<1> QED BY <1>1, <1>2, <1>3, <1>4, <1>5, <1>6, <1>7, <1>8, <1>9, <1>10
        DEF Next, Submitters, Look, Over

-----------------------------------------------------------------------------
PoolInv == TypeOK /\ Places

LEMMA PoolInvariant == Spec => []PoolInv
<1>1. Init => PoolInv
  BY TypeInit, PlacesInit DEF PoolInv
<1>2. PoolInv /\ [Next]_vars => PoolInv'
  BY TypeStep, PlacesStep DEF PoolInv
<1> QED BY <1>1, <1>2, PTL DEF Spec

(* How the balance of jobs against wakeups moves: a push brings its        *)
(* notification, a notification is spent only on a parked worker, a worker *)
(* that takes a job takes it off the queue, and one parks at an empty      *)
(* queue only.                                                             *)
LEMMA ConservingStep ==
    PoolInv /\ PoolInv' /\ WorkConserving /\ [Next]_vars => WorkConserving'
<1> SUFFICES ASSUME PoolInv, PoolInv', WorkConserving, [Next]_vars
             PROVE  WorkConserving'
  OBVIOUS
<1> DEFINE q == Len(queue)
           n == Cardinality(notifying)
           k == Cardinality(Looking)
<1>t. TypeOK /\ TypeOK'
  BY DEF PoolInv
<1>n. IsFiniteSet(notifying) /\ IsFiniteSet(notifying')
  BY <1>t, FS_Subset, PoolAssumption DEF TypeOK
<1>k. IsFiniteSet(Looking) /\ IsFiniteSet(Looking')
  <2>1. Looking \in SUBSET Workers /\ Looking' \in SUBSET Workers
    BY DEF Looking
  <2> QED BY <2>1, FS_Subset, PoolAssumption
<1>q. q \in Nat /\ q' \in Nat /\ n \in Nat /\ n' \in Nat /\ k \in Nat /\ k' \in Nat
  BY <1>t, <1>n, <1>k, FS_CardinalityType, LenProperties DEF TypeOK
<1>h. Parked = {} \/ q <= n + k
  BY DEF WorkConserving
<1>g. ASSUME Parked' = {} \/ q' <= n' + k' PROVE WorkConserving'
  BY <1>g DEF WorkConserving
<1>s. UNCHANGED worker => Parked' = Parked /\ Looking' = Looking
  BY DEF Parked, Looking
<1>i. /\ "check" \in Idle /\ "parked" \in Idle /\ "exited" \in Idle /\ "dead" \in Idle
      /\ \A w \in Workers : w \in Looking <=> worker[w] = "check"
  BY DEF Idle, Looking
<1> HIDE DEF q, n, k
<1>1. ASSUME NEW j \in Jobs, Perform(j) \/ WakeTimer(j) PROVE WorkConserving'
  <2>1. UNCHANGED worker /\ Push(j) /\ (j \notin issued \/ j \in asleep)
    BY <1>1 DEF Perform, WakeTimer
  <2>2. j \notin notifying
    BY <2>1 DEF PoolInv, Places
  <2>3. q' = q + 1
    BY <1>t, <2>1, PushQueue DEF TypeOK, Push, q
  <2>4. n' = n + 1
    BY <1>n, <2>1, <2>2, FS_AddElement DEF Push, n
  <2>5. k' = k /\ Parked' = Parked
    BY <1>s, <2>1 DEF k
  <2> QED BY <1>g, <1>h, <1>q, <2>3, <2>4, <2>5
<1>2. ASSUME NEW j \in Jobs, StartTimer(j) PROVE WorkConserving'
  BY <1>2, <1>s DEF StartTimer, WorkConserving
<1>3. ASSUME NEW j \in Jobs, Notify(j) PROVE WorkConserving'
  <2>1. n' = n - 1 /\ q' = q
    BY <1>3, <1>n, FS_RemoveElement DEF Notify, n, q
  <2>2. ASSUME NEW w \in Parked, worker' = [worker EXCEPT ![w] = "check"]
        PROVE  WorkConserving'
    <3>1. w \in Workers /\ w \notin Looking /\ Looking' = Looking \cup {w}
      BY <1>i, <1>t, <2>2, Moves DEF Parked, Looking
    <3>2. k' = k + 1
      BY <1>k, <3>1, FS_AddElement DEF k
    <3> QED BY <1>g, <1>h, <1>q, <2>1, <2>2, <3>2
  <2>3. CASE Parked = {} /\ UNCHANGED worker
    BY <1>g, <1>s, <2>3
  <2> QED BY <1>3, <2>2, <2>3 DEF Notify
<1>4. CASE Close \/ DropReceiver
  BY <1>4, <1>s DEF Close, DropReceiver, WorkConserving
<1>5. CASE NotifyAll
  <2>1. Parked' = {}
    BY <1>5 DEF NotifyAll, Parked
  <2> QED BY <1>g, <2>1
<1>6. ASSUME NEW w \in Workers, Take(w) PROVE WorkConserving'
  <2> DEFINE j == Head(queue)
  <2>1. j \in Jobs /\ q' = q - 1 /\ UNCHANGED notifying /\ worker[w] = "check"
        /\ worker' = [worker EXCEPT ![w] = j]
    BY <1>6, <1>t, QueueType, PopQueue DEF TypeOK, Take, q
  <2>2. j # "check" /\ j # "parked"
    BY <1>i, <2>1, PoolAssumption
  <2> HIDE DEF j
  <2>3. Looking' = Looking \ {w} /\ Parked' = Parked \ {w}
    BY <1>t, <2>1, <2>2, Moves
  <2>4. k' = k - 1
    BY <1>i, <1>k, <2>1, <2>3, FS_RemoveElement DEF k
  <2> QED BY <1>g, <1>h, <1>q, <2>1, <2>3, <2>4 DEF n
<1>7. ASSUME NEW w \in Workers, Exit(w) \/ Park(w) PROVE WorkConserving'
  <2>1. q' = 0
    BY <1>7, EmptyQueue DEF Exit, Park, q
  <2>2. \A a, b \in Nat : 0 <= a + b
    OBVIOUS
  <2>3. q' <= n' + k'
    BY <1>q, <2>1, <2>2
  <2> QED BY <1>g, <2>3
<1>8. ASSUME NEW w \in Workers, NEW x \in {"check", "dead"},
             worker' = [worker EXCEPT ![w] = x], worker[w] # "check",
             UNCHANGED <<queue, notifying>>
      PROVE  WorkConserving'
  <2>1. Parked' \subseteq Parked /\ (Looking' = Looking \cup {w} \/ Looking' = Looking \ {w})
    <3>1. CASE x = "check"
      BY <1>8, <1>i, <1>t, <3>1, Moves
    <3>2. CASE x = "dead"
      <4>1. worker' = [worker EXCEPT ![w] = "dead"] /\ "dead" \in Idle \cup Jobs
        BY <1>8, <1>i, <3>2
      <4>2. "dead" # "check" /\ "dead" # "parked"
        OBVIOUS
      <4>3. Looking' = Looking \ {w} /\ Parked' = Parked \ {w}
        BY <1>t, <4>1, <4>2, Moves
      <4> QED BY <4>3
    <3> QED BY <3>1, <3>2
  <2>2. w \notin Looking
    BY <1>8, <1>i
  <2>3. k' >= k
    BY <1>k, <1>q, <2>1, <2>2, FS_AddElement, FS_RemoveElement DEF k
  <2> QED BY <1>8, <1>g, <1>h, <1>q, <2>1, <2>3 DEF q, n
<1>9. ASSUME NEW w \in Workers, WakeSpuriously(w) \/ Work(w) PROVE WorkConserving'
  <2>1. worker[w] # "check"
    BY <1>9, <1>i, PoolAssumption DEF WakeSpuriously, Work, Finish, Panic
  <2> QED BY <1>8, <1>9, <2>1 DEF WakeSpuriously, Work, Finish, Panic
<1>10. CASE UNCHANGED vars
  BY <1>10, <1>s DEF vars, WorkConserving
<1> QED BY <1>1, <1>2, <1>3, <1>4, <1>5, <1>6, <1>7, <1>9, <1>10
        DEF Next, Submitters, Look, Over

(* No wakeup is lost, whatever the numbers of workers, jobs and timers.    *)
THEOREM NoLostWakeup == Spec => []WorkConserving
<1>1. Init => WorkConserving
  BY DEF Init, WorkConserving, Parked
<1> QED BY <1>1, ConservingStep, PoolInvariant, PTL DEF Spec

-----------------------------------------------------------------------------
(* What the loop can tell of a job, before and after a step. *)
LEMMA FateOf ==
    ASSUME NEW j \in Jobs
    PROVE  /\ j \in sent => fate[j] = "sent"
           /\ j \in lost /\ j \notin sent => fate[j] = "lost"
           /\ j \in issued /\ j \notin lost /\ j \notin sent => fate[j] = "deferred"
           /\ j \notin issued /\ j \notin lost /\ j \notin sent => fate[j] = "new"
           /\ j \in sent' => fate'[j] = "sent"
           /\ j \in lost' /\ j \notin sent' => fate'[j] = "lost"
           /\ j \in issued' /\ j \notin lost' /\ j \notin sent' => fate'[j] = "deferred"
           /\ j \notin issued' /\ j \notin lost' /\ j \notin sent' => fate'[j] = "new"
BY DEF fate

LEMMA FateKept ==
    ASSUME UNCHANGED <<issued, sent, lost>>
    PROVE  UNCHANGED fate
BY DEF fate

LEMMA FateMoves ==
    ASSUME NEW j \in Jobs, NEW f,
           \A i \in Jobs \ {j} :
              /\ i \in sent' <=> i \in sent
              /\ i \in lost' <=> i \in lost
              /\ i \in issued' <=> i \in issued,
           fate'[j] = f
    PROVE  fate' = [fate EXCEPT ![j] = f]
<1>1. \A i \in Jobs \ {j} : fate'[i] = fate[i]
  BY FateOf
<1>2. /\ DOMAIN fate = Jobs /\ DOMAIN fate' = Jobs
      /\ fate = [i \in Jobs |-> fate[i]] /\ fate' = [i \in Jobs |-> fate'[i]]
  BY DEF fate
<1> QED BY <1>1, <1>2

LEMMA ExecutorStep ==
    PoolInv /\ PoolInv' /\ [Next]_vars => [Exec!Next]_(Exec!vars)
<1> SUFFICES ASSUME PoolInv, PoolInv', [Next]_vars PROVE [Exec!Next]_(Exec!vars)
  OBVIOUS
<1>n. Exec!Next <=> \/ Exec!Return
                    \/ \E j \in Jobs : Exec!Defer(j) \/ Exec!Answer(j) \/ Exec!Lose(j)
  BY DEF Exec!Next
<1>s. UNCHANGED <<issued, sent, lost, loop>> => UNCHANGED Exec!vars
  BY FateKept DEF Exec!vars, closed
<1>i. /\ sent \subseteq issued /\ lost \subseteq issued /\ sent \cap lost = {}
      /\ issued \subseteq Jobs
  BY DEF PoolInv, Places, Apart, TypeOK
<1>1. ASSUME NEW j \in Jobs, Perform(j) \/ StartTimer(j) PROVE Exec!Next
  <2>1. /\ j \notin issued /\ issued' = issued \cup {j} /\ UNCHANGED <<sent, lost, loop>>
        /\ loop = "open"
    BY <1>1 DEF Perform, StartTimer, LoopIdle
  <2>2. fate[j] = "new" /\ fate'[j] = "deferred"
    BY <1>i, <2>1, FateOf
  <2>3. fate' = [fate EXCEPT ![j] = "deferred"]
    BY <2>1, <2>2, FateMoves
  <2>4. Exec!Defer(j)
    BY <2>1, <2>2, <2>3 DEF Exec!Defer, closed
  <2> QED BY <1>n, <2>4
<1>2. CASE Close
  <2>1. UNCHANGED fate /\ ~closed /\ closed'
    BY <1>2, FateKept DEF Close, LoopIdle, closed
  <2> QED BY <1>n, <2>1 DEF Exec!Return
<1>3. ASSUME NEW w \in Workers, Work(w) PROVE Exec!Next
  <2> DEFINE j == worker[w]
  <2>1. j \in Jobs /\ UNCHANGED <<issued, loop>>
    BY <1>3, PoolAssumption DEF Work, Finish, Panic
  <2>2. j \in issued /\ j \notin sent /\ j \notin lost
    <3>1. j \in Running
      BY <2>1 DEF Running, Busy
    <3> QED BY <3>1 DEF PoolInv, Places, Apart
  <2>3. fate[j] = "deferred"
    BY <2>1, <2>2, FateOf
  <2>4. \/ sent' = sent \cup {j} /\ UNCHANGED lost
        \/ lost' = lost \cup {j} /\ UNCHANGED sent /\ (loop = "gone" \/ j \in Panicky)
    BY <1>3, PoolAssumption DEF Work, Finish, Panic
  <2> HIDE DEF j
  <2>5. CASE sent' = sent \cup {j} /\ UNCHANGED lost
    <3>1. fate'[j] = "sent"
      BY <2>1, <2>5, FateOf
    <3>2. fate' = [fate EXCEPT ![j] = "sent"]
      BY <2>1, <2>5, <3>1, FateMoves
    <3>3. Exec!Answer(j)
      BY <2>1, <2>3, <3>2 DEF Exec!Answer, closed
    <3> QED BY <1>n, <2>1, <3>3
  <2>6. CASE lost' = lost \cup {j} /\ UNCHANGED sent /\ (loop = "gone" \/ j \in Panicky)
    <3>1. fate'[j] = "lost"
      BY <2>1, <2>2, <2>6, FateOf
    <3>2. fate' = [fate EXCEPT ![j] = "lost"]
      BY <2>1, <2>6, <3>1, FateMoves
    <3>3. Exec!Lose(j)
      BY <2>1, <2>3, <2>6, <3>2 DEF Exec!Lose, closed
    <3> QED BY <1>n, <2>1, <3>3
  <2> QED BY <2>4, <2>5, <2>6
<1>4. ASSUME NEW j \in Jobs, WakeTimer(j) \/ Notify(j) PROVE UNCHANGED Exec!vars
  BY <1>4, <1>s DEF WakeTimer, Notify
<1>5. CASE NotifyAll \/ DropReceiver
  <2>1. UNCHANGED <<issued, sent, lost>> /\ closed /\ closed'
    BY <1>5 DEF NotifyAll, DropReceiver, closed
  <2> QED BY <2>1, FateKept DEF Exec!vars
<1>6. ASSUME NEW w \in Workers, Look(w) \/ WakeSpuriously(w) PROVE UNCHANGED Exec!vars
  BY <1>6, <1>s DEF Look, Take, Exit, Park, WakeSpuriously
<1>7. CASE UNCHANGED vars
  BY <1>7, <1>s DEF vars
<1> QED BY <1>1, <1>2, <1>3, <1>4, <1>5, <1>6, <1>7 DEF Next, Submitters, Over

(* The pool is an executor: seen from the loop, every deferred job is      *)
(* answered at most once, and lost only by a panic or after the return.    *)
THEOREM PoolImplementsExecutor == Spec => ImplementsExecutor
<1>1. Init => Exec!Init
  <2>1. Init => fate = [j \in Jobs |-> "new"]
    BY DEF Init, fate
  <2> QED BY <2>1 DEF Init, Exec!Init, closed
<1> QED BY <1>1, ExecutorStep, PoolInvariant, PTL DEF Spec, ImplementsExecutor, Exec!Spec

-----------------------------------------------------------------------------
(* The count of the places agrees with the count of the deferred jobs. *)
Counted ==
    Cardinality(asleep) + Len(queue) + Cardinality(Busy)
        + Cardinality(sent) + Cardinality(lost) = Cardinality(issued)

LEMMA CountedStep ==
    PoolInv /\ PoolInv' /\ Counted /\ [Next]_vars => Counted'
<1> SUFFICES ASSUME PoolInv, PoolInv', Counted, [Next]_vars PROVE Counted'
  OBVIOUS
<1> DEFINE a == Cardinality(asleep)
           q == Len(queue)
           b == Cardinality(Busy)
           s == Cardinality(sent)
           l == Cardinality(lost)
           i == Cardinality(issued)
<1>t. TypeOK /\ TypeOK'
  BY DEF PoolInv
<1>f. /\ IsFiniteSet(asleep) /\ IsFiniteSet(Busy) /\ IsFiniteSet(sent)
      /\ IsFiniteSet(lost) /\ IsFiniteSet(issued)
  BY <1>t, Finite, PoolAssumption DEF TypeOK
<1>n. /\ a \in Nat /\ q \in Nat /\ b \in Nat /\ s \in Nat /\ l \in Nat /\ i \in Nat
  BY <1>t, <1>f, FS_CardinalityType, LenProperties DEF TypeOK
<1>h. a + q + b + s + l = i
  BY DEF Counted
<1>g. ASSUME a' + q' + b' + s' + l' = i' PROVE Counted'
  BY <1>g DEF Counted
<1>w. UNCHANGED worker => b' = b
  BY DEF Busy
<1>k. /\ "check" \in Idle /\ "parked" \in Idle /\ "exited" \in Idle /\ "dead" \in Idle
      /\ \A w \in Workers : w \in Busy <=> worker[w] \in Jobs
      /\ \A w \in Workers : worker[w] \in Idle => w \notin Busy
  BY PoolAssumption DEF Idle, Busy
<1> HIDE DEF a, q, b, s, l, i
<1>1. ASSUME NEW j \in Jobs, Perform(j) PROVE Counted'
  <2>1. q' = q + 1
    BY <1>1, <1>t, PushQueue DEF Perform, Push, TypeOK, q
  <2>2. i' = i + 1
    BY <1>1, <1>f, FS_AddElement DEF Perform, i
  <2>3. b' = b /\ a' = a /\ s' = s /\ l' = l
    BY <1>1, <1>w DEF Perform, a, s, l
  <2> QED BY <1>g, <1>h, <1>n, <2>1, <2>2, <2>3
<1>2. ASSUME NEW j \in Jobs, StartTimer(j) PROVE Counted'
  <2>1. j \notin issued /\ j \notin asleep
    BY <1>2 DEF StartTimer, PoolInv, Places
  <2>2. i' = i + 1 /\ a' = a + 1
    BY <1>2, <1>f, <2>1, FS_AddElement DEF StartTimer, i, a
  <2>3. b' = b /\ q' = q /\ s' = s /\ l' = l
    BY <1>2, <1>w DEF StartTimer, q, s, l
  <2> QED BY <1>g, <1>h, <1>n, <2>2, <2>3
<1>3. ASSUME NEW j \in Jobs, WakeTimer(j) PROVE Counted'
  <2>1. q' = q + 1
    BY <1>3, <1>t, PushQueue DEF WakeTimer, Push, TypeOK, q
  <2>2. a' = a - 1
    BY <1>3, <1>f, FS_RemoveElement DEF WakeTimer, a
  <2>3. b' = b /\ i' = i /\ s' = s /\ l' = l
    BY <1>3, <1>w DEF WakeTimer, i, s, l
  <2> QED BY <1>g, <1>h, <1>n, <2>1, <2>2, <2>3
<1>4. ASSUME NEW w \in Workers, Take(w) PROVE Counted'
  <2> DEFINE j == Head(queue)
  <2>1. j \in Jobs /\ q' = q - 1 /\ worker[w] \in Idle /\ worker' = [worker EXCEPT ![w] = j]
    BY <1>4, <1>k, <1>t, QueueType, PopQueue DEF TypeOK, Take, q
  <2> HIDE DEF j
  <2>2. Busy' = Busy \cup {w} /\ w \notin Busy
    BY <1>k, <1>t, <2>1, Moves
  <2>3. b' = b + 1
    BY <1>f, <2>2, FS_AddElement DEF b
  <2>4. a' = a /\ i' = i /\ s' = s /\ l' = l
    BY <1>4 DEF Take, a, i, s, l
  <2> QED BY <1>g, <1>h, <1>n, <2>1, <2>3, <2>4
<1>5. ASSUME NEW w \in Workers, Work(w) PROVE Counted'
  <2> DEFINE j == worker[w]
  <2>1. PICK r \in Idle : worker' = [worker EXCEPT ![w] = r]
    BY <1>5, <1>k DEF Work, Finish, Panic
  <2>2. /\ j \in Jobs /\ UNCHANGED <<queue, asleep, issued>>
        /\ \/ sent' = sent \cup {j} /\ UNCHANGED lost
           \/ lost' = lost \cup {j} /\ UNCHANGED sent
    BY <1>5, PoolAssumption DEF Work, Finish, Panic
  <2>3. w \in Busy /\ j \notin sent /\ j \notin lost
    <3>1. w \in Busy /\ j \in Running
      BY <1>k, <2>2 DEF Running
    <3> QED BY <3>1 DEF PoolInv, Places, Apart
  <2> HIDE DEF j
  <2>4. Busy' = Busy \ {w}
    BY <1>t, <2>1, Moves
  <2>5. b' = b - 1
    BY <1>f, <2>3, <2>4, FS_RemoveElement DEF b
  <2>6. s' + l' = s + l + 1
    <3>1. CASE sent' = sent \cup {j} /\ UNCHANGED lost
      <4>1. s' = s + 1 /\ l' = l
        BY <1>f, <2>3, <3>1, FS_AddElement DEF s, l
      <4> QED BY <1>n, <4>1
    <3>2. CASE lost' = lost \cup {j} /\ UNCHANGED sent
      <4>1. l' = l + 1 /\ s' = s
        BY <1>f, <2>3, <3>2, FS_AddElement DEF s, l
      <4> QED BY <1>n, <4>1
    <3> QED BY <2>2, <3>1, <3>2
  <2>7. a' = a /\ q' = q /\ i' = i
    BY <2>2 DEF a, q, i
  <2>8. s' \in Nat /\ l' \in Nat
    <3>1. IsFiniteSet(sent') /\ IsFiniteSet(lost')
      BY <1>f, <2>2, FS_AddElement
    <3> QED BY <3>1, FS_CardinalityType DEF s, l
  <2>9. \A y, z \in Nat : y + z = s + l + 1 => a + q + (b - 1) + y + z = i
    BY <1>h, <1>n
  <2>10. a + q + (b - 1) + s' + l' = i
    BY <2>6, <2>8, <2>9
  <2> QED BY <1>g, <2>5, <2>7, <2>10
<1>s. ASSUME UNCHANGED <<queue, asleep, issued, sent, lost>>, Busy' = Busy PROVE Counted'
  BY <1>s DEF Counted
<1>6. ASSUME NEW j \in Jobs, Notify(j) PROVE Counted'
  <2>1. ASSUME NEW w \in Parked, worker' = [worker EXCEPT ![w] = "check"]
        PROVE  Busy' = Busy
    <3>1. w \in Workers /\ w \notin Busy
      BY <1>k, <2>1 DEF Parked
    <3>2. Busy' = Busy \ {w}
      BY <1>k, <1>t, <2>1, <3>1, Moves
    <3> QED BY <3>1, <3>2
  <2>2. Busy' = Busy
    BY <1>6, <2>1 DEF Notify, Busy
  <2> QED BY <1>6, <1>s, <2>2 DEF Notify
<1>7. CASE Close \/ DropReceiver
  BY <1>7, <1>s DEF Close, DropReceiver, Busy
<1>8. CASE NotifyAll
  <2>1. Busy' = Busy
    BY <1>8, <1>k, PoolAssumption DEF NotifyAll, Busy
  <2> QED BY <1>8, <1>s, <2>1 DEF NotifyAll
<1>9. ASSUME NEW w \in Workers, Exit(w) \/ Park(w) \/ WakeSpuriously(w) PROVE Counted'
  <2>1. PICK x \in Idle : worker' = [worker EXCEPT ![w] = x]
    BY <1>9, <1>k DEF Exit, Park, WakeSpuriously
  <2>2. w \notin Busy
    BY <1>9, <1>k DEF Exit, Park, WakeSpuriously
  <2>3. Busy' = Busy \ {w}
    BY <1>t, <2>1, Moves
  <2>4. Busy' = Busy
    BY <2>2, <2>3
  <2> QED BY <1>9, <1>s, <2>4 DEF Exit, Park, WakeSpuriously
<1>10. CASE UNCHANGED vars
  BY <1>10, <1>s DEF vars, Busy
<1> QED BY <1>1, <1>2, <1>3, <1>4, <1>5, <1>6, <1>7, <1>8, <1>9, <1>10
        DEF Next, Submitters, Look, Over

(* No job is lost, taken twice or answered twice, whatever the numbers of  *)
(* workers and jobs and wherever they panic.                               *)
THEOREM EachJobInOnePlace == Spec => []JobInOnePlace
<1>1. Init => Counted
  <2>1. Init => Busy = {}
    BY PoolAssumption DEF Init, Busy, Idle
  <2> QED BY <2>1, FS_EmptySet, EmptyQueue DEF Init, Counted
<1>2. PoolInv /\ Counted => JobInOnePlace
  BY DEF PoolInv, Places, Counted, JobInOnePlace
<1> QED BY <1>1, <1>2, CountedStep, PoolInvariant, PTL DEF Spec
=============================================================================
