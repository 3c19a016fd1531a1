------------------------- MODULE Lifecycles_proofs --------------------------
(***************************************************************************)
(* Proofs about TerminalLifecycle and, as L, about PluginLink, for any     *)
(* options, plugins, traffic and room: whoever restores the terminal, it   *)
(* ends out of every mode; and what a plugin says reaches the reducer in   *)
(* order, once, and none left out.                                         *)
(***************************************************************************)
EXTENDS MCLifecycles, SequenceTheorems, TLAPS

-----------------------------------------------------------------------------
(* Where the main thread is, and what each part of the state holds. *)
Typed ==
    /\ options \in SUBSET Modes
    /\ pc \in {"enter", "loop", "panic", "drop", "again", "ended"}
    /\ todo \in [Threads -> SUBSET Modes]
    /\ on \in SUBSET Modes
    /\ keyboard \in [{"main", "alt"} -> Nat]
    /\ restores \in Nat
    /\ {caught, entered, overtaken} \subseteq BOOLEAN

(* What a thread has still to leave: main leaves nothing while it enters.   *)
Leaving(t) == IF t = "main" /\ pc \in {"enter", "ended"} THEN {} ELSE todo[t]

(* Every mode the terminal is in is on the list of who restores it, and the    *)
(* signal thread's list is short of what is entered behind its back alone.     *)
Listed ==
    /\ on \subseteq options
    /\ pc = "enter" => todo["main"] \subseteq options
    /\ pc \in {"panic", "drop", "again"} => on \subseteq todo["main"]
    /\ caught => restores > 0
    /\ caught /\ ~ overtaken => on \subseteq todo["signal"]

(* Until the second restore one thread at most restores, and none before the first. *)
OneRestores ==
    /\ pc = "loop" => todo["main"] = {}
    /\ pc = "enter" => ~ entered
    /\ pc = "loop" => entered
    /\ pc \in {"panic", "drop", "again"} => restores > 0
    /\ restores = 0 => \A t \in Threads : Leaving(t) = {}
    /\ restores < 2 => \A t, u \in Threads : t = u \/ Leaving(t) = {} \/ Leaving(u) = {}

(* The alternate screen, once entered, is there until the keyboard is popped. *)
AltStays ==
    (/\ restores < 2 /\ "alt" \in options
     /\ pc = "enter" => "alt" \notin todo["main"]
     /\ entered \/ pc = "enter"
     /\ restores = 0 \/ \E t \in Threads : "kitty" \in Leaving(t))
        => "alt" \in on

(* The inductive invariant of the terminal. *)
TerminalInv == Typed /\ Listed /\ OneRestores /\ AltStays /\ RestoredAtEnd /\ PanicReadable

-----------------------------------------------------------------------------
(* What the lists of the two orders come to. *)
LEMMA ModesAre ==
    /\ Modes = {"raw", "alt", "mouse", "paste", "focus", "kitty"}
    /\ \A m \in Modes : \A modes : First(Released, m, modes) => m \in modes
    /\ \A modes : First(Released, "alt", modes) => "kitty" \notin modes
    /\ \A m \in Modes : \A modes : First(Acquired, m, modes) => m \in modes
<1>1. Modes = {"raw", "alt", "mouse", "paste", "focus", "kitty"}
  <2>1. DOMAIN Acquired = 1 .. 6
    BY DEF Acquired
  <2> QED BY <2>1 DEF Modes, Acquired
<1>2. ASSUME NEW modes, First(Released, "alt", modes) PROVE "kitty" \notin modes
  <2>1. DOMAIN Released = 1 .. 6 /\ Released[2] = "kitty" /\ Released[6] = "alt"
    BY DEF Released
  <2> QED BY <1>2, <2>1 DEF First
<1> QED BY <1>1, <1>2 DEF First

(* The guard has entered nothing yet. *)
LEMMA TerminalInit == Init => TerminalInv
<1> SUFFICES ASSUME Init PROVE TerminalInv
  OBVIOUS
<1>1. Typed
  <2>1. options \subseteq Modes
    BY OptionsAssumption DEF Init
  <2>2. keyboard \in [{"main", "alt"} -> Nat]
    BY DEF Init
  <2>3. todo \in [Threads -> SUBSET Modes]
    BY <2>1 DEF Init, Threads
  <2> QED BY <2>1, <2>2, <2>3 DEF Init, Typed
<1>2. Listed /\ OneRestores /\ AltStays
  BY DEF Init, Listed, OneRestores, AltStays, Leaving, Threads
<1>3. RestoredAtEnd /\ PanicReadable
  BY DEF Init, RestoredAtEnd, PanicReadable
<1> QED BY <1>1, <1>2, <1>3 DEF TerminalInv

(* One step of every thread, for each part of the invariant. *)
LEMMA TerminalTyped == TerminalInv /\ [Next]_vars => Typed'
<1> SUFFICES ASSUME TerminalInv, [Next]_vars PROVE Typed'
  OBVIOUS
<1> USE ModesAre DEF TerminalInv, Typed
<1>1. CASE EnterMode
  <2>1. Screen \in {"main", "alt"}
    BY DEF Screen
  <2>2. PICK m \in Modes :
          /\ on' = on \cup ({m} \ {"kitty"})
          /\ keyboard' = IF m = "kitty" THEN [keyboard EXCEPT ![Screen] = @ + 1] ELSE keyboard
          /\ todo' = [todo EXCEPT !["main"] = @ \ {m}]
    BY <1>1 DEF EnterMode
  <2>3. keyboard' \in [{"main", "alt"} -> Nat]
    BY <2>1, <2>2
  <2>4. todo' \in [Threads -> SUBSET Modes] /\ on' \in SUBSET Modes
    BY <2>2 DEF Threads
  <2> QED BY <1>1, <2>3, <2>4 DEF EnterMode
<1>2. CASE Entered
  BY <1>2 DEF Entered
<1>3. CASE EnterFails
  BY <1>3 DEF EnterFails, Threads
<1>4. CASE LoopReturns
  BY <1>4 DEF LoopReturns, Threads
<1>5. CASE Panics
  BY <1>5 DEF Panics, Threads
<1>6. CASE Tells
  BY <1>6 DEF Tells, Threads
<1>7. CASE WorkerPanics
  BY <1>7 DEF WorkerPanics, Threads
<1>8. CASE Signal
  BY <1>8 DEF Signal, Threads
<1>9. ASSUME NEW t \in Threads, LeaveMode(t) PROVE Typed'
  <2>1. Screen \in {"main", "alt"}
    BY DEF Screen
  <2>2. PICK m \in Modes :
          /\ on' = on \ {m}
          /\ keyboard' = IF m = "kitty" /\ keyboard[Screen] > 0
                         THEN [keyboard EXCEPT ![Screen] = @ - 1] ELSE keyboard
          /\ todo' = [todo EXCEPT ![t] = @ \ {m}]
    BY <1>9 DEF LeaveMode
  <2>3. keyboard' \in [{"main", "alt"} -> Nat]
    <3>1. CASE m = "kitty" /\ keyboard[Screen] > 0
      <4>1. keyboard[Screen] - 1 \in Nat
        BY <2>1, <3>1
      <4> QED BY <2>1, <2>2, <3>1, <4>1
    <3>2. CASE ~ (m = "kitty" /\ keyboard[Screen] > 0)
      BY <2>2, <3>2
    <3> QED BY <3>1, <3>2
  <2>4. todo' \in [Threads -> SUBSET Modes] /\ on' \in SUBSET Modes
    BY <2>2
  <2> QED BY <1>9, <2>3, <2>4 DEF LeaveMode
<1>10. CASE End
  BY <1>10 DEF End
<1>11. CASE UNCHANGED vars
  BY <1>11 DEF vars
<1>12. CASE RestoresAgain
  BY <1>12 DEF RestoresAgain, Threads
<1> QED BY <1>1, <1>2, <1>3, <1>4, <1>5, <1>6, <1>7, <1>8, <1>9, <1>10, <1>11,
           <1>12 DEF Next

(* A mode joins the terminal and the list of its restorer together; it leaves both. *)
LEMMA TerminalListed == TerminalInv /\ [Next]_vars => Listed' /\ RestoredAtEnd' /\ PanicReadable'
<1> SUFFICES ASSUME TerminalInv, [Next]_vars
             PROVE  Listed' /\ RestoredAtEnd' /\ PanicReadable'
  OBVIOUS
<1> USE DEF TerminalInv, Listed, RestoredAtEnd, PanicReadable
<1>0. "main" \in Threads /\ "signal" \in Threads /\ "worker" \in Threads
      /\ todo \in [Threads -> SUBSET Modes] /\ on \subseteq Modes /\ options \subseteq Modes
      /\ restores \in Nat
  BY DEF Threads, Typed
<1>1. CASE EnterMode
  <2>1. PICK m \in Modes :
          /\ First(Acquired, m, todo["main"])
          /\ on' = on \cup ({m} \ {"kitty"})
          /\ todo' = [todo EXCEPT !["main"] = @ \ {m}]
    BY <1>1 DEF EnterMode
  <2>2. m \in options
    BY <1>1, <2>1, ModesAre DEF EnterMode
  <2>3. on' \subseteq options' /\ todo'["main"] \subseteq options' /\ (caught' => overtaken')
    BY <1>0, <1>1, <2>1, <2>2 DEF EnterMode
  <2> QED BY <1>0, <1>1, <2>3 DEF EnterMode
<1>2. CASE Entered
  BY <1>0, <1>2 DEF Entered
<1>3. CASE EnterFails
  BY <1>0, <1>3 DEF EnterFails
<1>4. CASE LoopReturns
  BY <1>0, <1>4 DEF LoopReturns
<1>5. CASE Panics
  BY <1>0, <1>5 DEF Panics
<1>6. CASE Tells
  BY <1>0, <1>6 DEF Tells
<1>7. CASE WorkerPanics
  BY <1>0, <1>7 DEF WorkerPanics
<1>8. CASE Signal
  BY <1>0, <1>8 DEF Signal
<1>9. ASSUME NEW t \in Threads, LeaveMode(t)
      PROVE  Listed' /\ RestoredAtEnd' /\ PanicReadable'
  <2>1. PICK m \in Modes : on' = on \ {m} /\ todo' = [todo EXCEPT ![t] = @ \ {m}]
    BY <1>9 DEF LeaveMode
  <2>2. \A u \in Threads : on \subseteq todo[u] => on' \subseteq todo'[u]
    BY <1>0, <2>1
  <2>3. pc # "enter" \/ todo'["main"] = todo["main"]
    BY <1>0, <1>9, <2>1 DEF LeaveMode
  <2> QED BY <1>0, <1>9, <2>1, <2>2, <2>3 DEF LeaveMode
<1>10. CASE End
  BY <1>0, <1>10 DEF End
<1>11. CASE UNCHANGED vars
  BY <1>11 DEF vars
<1>12. CASE RestoresAgain
  BY <1>0, <1>12 DEF RestoresAgain
<1> QED BY <1>1, <1>2, <1>3, <1>4, <1>5, <1>6, <1>7, <1>8, <1>9, <1>10, <1>11,
           <1>12 DEF Next

(* No second restore, and the screen is left after the keyboard is popped. *)
LEMMA TerminalOne == TerminalInv /\ [Next]_vars => OneRestores' /\ AltStays'
<1> SUFFICES ASSUME TerminalInv, [Next]_vars PROVE OneRestores' /\ AltStays'
  OBVIOUS
<1> USE DEF TerminalInv, OneRestores, AltStays, Leaving
<1>0. Threads = {"main", "worker", "signal"} /\ todo \in [Threads -> SUBSET Modes]
      /\ restores \in Nat
  BY DEF Threads, Typed
<1>1. CASE EnterMode
  <2>1. PICK m \in Modes :
          /\ on' = on \cup ({m} \ {"kitty"})
          /\ todo' = [todo EXCEPT !["main"] = @ \ {m}]
    BY <1>1 DEF EnterMode
  <2>2. "alt" \in todo["main"] => "alt" \in todo'["main"] \/ "alt" \in on'
    BY <1>0, <2>1
  <2>3. on \subseteq on' /\ \A t \in Threads : Leaving(t)' = Leaving(t)
    BY <1>0, <1>1, <2>1 DEF EnterMode
  <2> QED BY <1>0, <1>1, <2>2, <2>3 DEF EnterMode
<1>2. CASE Entered
  BY <1>0, <1>2 DEF Entered
<1>3. CASE EnterFails
  BY <1>0, <1>3 DEF EnterFails
<1>4. CASE LoopReturns
  BY <1>0, <1>4 DEF LoopReturns
<1>5. CASE Panics
  BY <1>0, <1>5 DEF Panics
<1>6. CASE Tells
  BY <1>0, <1>6 DEF Tells
<1>7. CASE WorkerPanics
  BY <1>0, <1>7 DEF WorkerPanics
<1>8. CASE Signal
  BY <1>0, <1>8 DEF Signal
<1>9. ASSUME NEW t \in Threads, LeaveMode(t) PROVE OneRestores' /\ AltStays'
  <2>1. PICK m \in Modes : /\ First(Released, m, todo[t])
                           /\ on' = on \ {m} /\ todo' = [todo EXCEPT ![t] = @ \ {m}]
    BY <1>9 DEF LeaveMode
  <2>2. m \in todo[t] /\ (m = "alt" => "kitty" \notin todo[t])
    BY <2>1, ModesAre
  <2>3. pc' = pc /\ restores' = restores /\ options' = options /\ entered' = entered
    BY <1>9 DEF LeaveMode
  <2>4. \A u \in Threads : todo'[u] = IF u = t THEN todo[t] \ {m} ELSE todo[u]
    BY <1>0, <2>1
  <2>5. Leaving(t) = todo[t] /\ Leaving(t) # {}
    BY <1>9, <2>2 DEF LeaveMode
  <2>6. \A u \in Threads : Leaving(u)' \subseteq Leaving(u)
    BY <2>3, <2>4
  <2>7. OneRestores'
    BY <1>0, <2>3, <2>4, <2>6
  <2>8. CASE m = "alt"
    BY <1>0, <2>2, <2>3, <2>4, <2>5, <2>6, <2>8
  <2>9. CASE m # "alt"
    BY <1>0, <1>9, <2>1, <2>3, <2>4, <2>5, <2>6, <2>9 DEF LeaveMode
  <2> QED BY <2>7, <2>8, <2>9
<1>10. CASE End
  BY <1>0, <1>10 DEF End
<1>11. CASE UNCHANGED vars
  BY <1>11 DEF vars
<1>12. CASE RestoresAgain
  BY <1>0, <1>12 DEF RestoresAgain
<1> QED BY <1>1, <1>2, <1>3, <1>4, <1>5, <1>6, <1>7, <1>8, <1>9, <1>10, <1>11,
           <1>12 DEF Next

(* All of it holds, whatever options an application has chosen. *)
THEOREM TerminalInvariant == Spec => []TerminalInv
<1>1. TerminalInv /\ [Next]_vars => TerminalInv'
  BY TerminalTyped, TerminalListed, TerminalOne DEF TerminalInv
<1> QED BY <1>1, TerminalInit, PTL DEF Spec

(* Return, error, panic or signal: the terminal is out of every mode (lifecycle.rs, *)
(* shell.rs, signal.rs), but for a signal while the guard enters them.             *)
THEOREM TerminalRestored == Spec => []RestoredAtEnd
<1>1. TerminalInv => RestoredAtEnd
  BY DEF TerminalInv
<1> QED BY <1>1, TerminalInvariant, PTL

(* The panic message is printed out of raw mode, on the user's own screen (shell.rs). *)
THEOREM PanicIsReadable == Spec => []PanicReadable
<1>1. TerminalInv => PanicReadable
  BY DEF TerminalInv
<1> QED BY <1>1, TerminalInvariant, PTL

(* The first restore of a whole guard pops its own keyboard entry (queue_leave_sequence). *)
THEOREM KeyboardIsKept == Spec => KeyboardKept
<1> DEFINE Kept == keyboard'["main"] < keyboard["main"] =>
                      restores > 1 \/ ~ entered \/ "alt" \notin options
<1>1. TerminalInv /\ [Next]_vars => [Kept]_vars
  <2> SUFFICES ASSUME TerminalInv, [Next]_vars, keyboard'["main"] < keyboard["main"],
                      restores < 2, entered, "alt" \in options
               PROVE  FALSE
    BY DEF TerminalInv, Typed
  <2>0. keyboard \in [{"main", "alt"} -> Nat]
    BY DEF TerminalInv, Typed
  <2>1. CASE EnterMode
    BY <2>1 DEF EnterMode, TerminalInv, OneRestores
  <2>2. ASSUME NEW t \in Threads, LeaveMode(t) PROVE FALSE
    <3>1. PICK m \in Modes : /\ First(Released, m, todo[t])
                             /\ keyboard' = IF m = "kitty" /\ keyboard[Screen] > 0
                                  THEN [keyboard EXCEPT ![Screen] = @ - 1] ELSE keyboard
      BY <2>2 DEF LeaveMode
    <3>2. m = "kitty" /\ Screen = "main"
      BY <2>0, <3>1
    <3>3. "kitty" \in Leaving(t)
      BY <2>2, <3>1, <3>2, ModesAre DEF LeaveMode, Leaving
    <3>4. pc # "enter"
      BY DEF TerminalInv, OneRestores
    <3>5. "alt" \in on
      BY <3>3, <3>4 DEF TerminalInv, AltStays
    <3> QED BY <3>2, <3>5 DEF Screen
  <2>3. CASE ~ EnterMode /\ ~ \E t \in Threads : LeaveMode(t)
    <3>1. keyboard' = keyboard
      BY <2>3 DEF Next, Entered, EnterFails, LoopReturns, RestoresAgain, Panics, Tells,
                  WorkerPanics, Signal, End, vars
    <3> QED BY <2>0, <3>1
  <2> QED BY <2>1, <2>2, <2>3
<1> QED BY <1>1, TerminalInvariant, PTL DEF Spec, KeyboardKept

-----------------------------------------------------------------------------
(* Any two elements of s are in R, the earlier one first. *)
Ordered(s, R) == \A i, j \in DOMAIN s : i < j => <<s[i], s[j]>> \in R

Less == {o \in Nat \X Nat : o[1] < o[2]}

(* Every element of A is less than every element of B. *)
Below(A, B) == \A a \in A, b \in B : a < b

Items == [from : L!Plugins, n : Nat]

(* The actions of p among the items A: number 0 is a log line of the client's. *)
Of(p, A) == {a \in A : a.from = p /\ a.n # 0}
Numbers(p, A) == {a.n : a \in Of(p, A)}

(* The items of p are in the order of their numbers. *)
LessOf(p) ==
    {o \in Items \X Items :
        o[1] \in Of(p, Items) /\ o[2] \in Of(p, Items) => o[1].n < o[2].n}

(* The stages of an action: written, posted, received, applied. *)
Written(p) == L!Range(outbox[p])
Posted(p) == Numbers(p, L!Range(posted))
Mailed(p) == Numbers(p, mail)
Applied(p) == L!Range(applied[p])

LinksTyped ==
    /\ said \in [L!Plugins -> Seq(BOOLEAN)]
    /\ outbox \in [L!Plugins -> Seq(Nat \ {0})] /\ applied \in [L!Plugins -> Seq(Nat \ {0})]
    /\ posted \in Seq(Items) /\ mail \subseteq Items
    /\ link \in [L!Plugins -> {"spawn", "write", "read", "look", "kill", "gone"}]
    /\ reader \in [L!Plugins -> BOOLEAN] /\ running \in [L!Plugins -> BOOLEAN]
    /\ subs \in {0, 1}

(* One subscription, or the action it has received. *)
OneMail == mail # {} => subs = 0 /\ \E a \in Items : mail = {a}

(* A plugin's actions move through the stages in order. *)
InOrder(p) ==
    /\ Ordered(outbox[p], Less) /\ Ordered(posted, LessOf(p)) /\ Ordered(applied[p], Less)
    /\ Below(Posted(p), Written(p))
    /\ Below(Mailed(p), Posted(p) \cup Written(p))
    /\ Below(Applied(p), Mailed(p) \cup Posted(p) \cup Written(p))
    /\ Written(p) \subseteq 1 .. Len(said[p])
    /\ Posted(p) \cup Mailed(p) \cup Applied(p) \subseteq L!Fit(p)

(* None is left out while anybody listens, and none before one that is applied. *)
NoneLost(p) ==
    /\ L!HostHeld => L!Fit(p) \subseteq Written(p) \cup Posted(p) \cup Mailed(p) \cup Applied(p)
    /\ \A m \in Applied(p), n \in L!Fit(p) : n < m => n \in Applied(p)

(* What a stdio reader has read decodes, and a plugin not yet started has said nothing. *)
ReadsOn(p) ==
    /\ p \in Stdio /\ reader[p] => \A n \in 1 .. Len(said[p]) : n \in Written(p) \/ said[p][n]
    /\ link[p] = "spawn" => ~ running[p] /\ said[p] = <<>>

Flow(p) == InOrder(p) /\ NoneLost(p) /\ ReadsOn(p)

(* The inductive invariant of the links. *)
LinksInv == LinksTyped /\ OneMail /\ \A p \in L!Plugins : Flow(p)

-----------------------------------------------------------------------------
(* What a push and a pop do to a sequence in order. *)
LEMMA OrderedPush ==
    ASSUME NEW S, NEW s \in Seq(S), NEW e \in S
    PROVE  /\ Append(s, e) \in Seq(S) /\ L!Range(Append(s, e)) = L!Range(s) \cup {e}
           /\ \A R : Ordered(s, R) /\ (\A x \in L!Range(s) : <<x, e>> \in R)
                        => Ordered(Append(s, e), R)
<1> DEFINE t == Append(s, e)
<1>1. /\ Len(s) \in Nat /\ DOMAIN s = 1 .. Len(s)
      /\ t \in Seq(S) /\ DOMAIN t = 1 .. (Len(s) + 1)
      /\ \A i \in 1 .. Len(s) : t[i] = s[i]
      /\ t[Len(s) + 1] = e
  BY AppendProperties, LenProperties
<1> HIDE DEF t
<1>2. L!Range(t) = L!Range(s) \cup {e}
  BY <1>1 DEF L!Range
<1>3. ASSUME NEW R, Ordered(s, R), \A x \in L!Range(s) : <<x, e>> \in R,
             NEW i \in 1 .. (Len(s) + 1), NEW j \in 1 .. (Len(s) + 1), i < j
      PROVE  <<t[i], t[j]>> \in R
  <2>1. i \in 1 .. Len(s) /\ t[i] = s[i] /\ s[i] \in L!Range(s)
    BY <1>1, <1>3 DEF L!Range
  <2>2. CASE j = Len(s) + 1
    BY <1>1, <1>3, <2>1, <2>2
  <2>3. CASE j # Len(s) + 1
    <3>1. j \in 1 .. Len(s) /\ t[j] = s[j]
      BY <1>1, <2>3
    <3> QED BY <1>1, <1>3, <2>1, <3>1 DEF Ordered
  <2> QED BY <2>2, <2>3
<1>4. \A R : Ordered(s, R) /\ (\A x \in L!Range(s) : <<x, e>> \in R) => Ordered(t, R)
  BY <1>1, <1>3 DEF Ordered
<1> QED BY <1>1, <1>2, <1>4 DEF t

LEMMA OrderedPop ==
    ASSUME NEW S, NEW s \in Seq(S), s # <<>>
    PROVE  /\ Tail(s) \in Seq(S) /\ Head(s) \in S
           /\ L!Range(s) = L!Range(Tail(s)) \cup {Head(s)}
           /\ \A R : Ordered(s, R) => /\ Ordered(Tail(s), R)
                                     /\ \A x \in L!Range(Tail(s)) : <<Head(s), x>> \in R
<1> DEFINE t == Tail(s)
<1>1. /\ Len(s) \in Nat \ {0} /\ DOMAIN s = 1 .. Len(s)
      /\ t \in Seq(S) /\ Head(s) \in S /\ DOMAIN t = 1 .. (Len(s) - 1)
      /\ \A i \in 1 .. (Len(s) - 1) : t[i] = s[i + 1]
      /\ Head(s) = s[1]
  BY EmptySeq, HeadTailProperties, LenProperties
<1> HIDE DEF t
<1>2. \A i \in 1 .. (Len(s) - 1) : i + 1 \in DOMAIN s /\ t[i] = s[i + 1] /\ 1 < i + 1
  BY <1>1
<1>3. L!Range(s) = L!Range(t) \cup {Head(s)}
  <2>1. \A x \in L!Range(t) \cup {Head(s)} : x \in L!Range(s)
    BY <1>1, <1>2, 1 \in 1 .. Len(s) DEF L!Range
  <2>2. ASSUME NEW i \in 1 .. Len(s) PROVE s[i] \in L!Range(t) \cup {Head(s)}
    <3>1. CASE i = 1
      BY <1>1, <3>1
    <3>2. CASE i # 1
      <4>1. i - 1 \in 1 .. (Len(s) - 1) /\ t[i - 1] = s[i]
        BY <1>1, <3>2
      <4> QED BY <1>1, <4>1 DEF L!Range
    <3> QED BY <3>1, <3>2
  <2> QED BY <1>1, <2>1, <2>2 DEF L!Range
<1>4. ASSUME NEW R, Ordered(s, R)
      PROVE  Ordered(t, R) /\ \A x \in L!Range(t) : <<Head(s), x>> \in R
  <2>1. ASSUME NEW i \in 1 .. (Len(s) - 1) PROVE <<s[1], t[i]>> \in R
    <3>1. 1 \in DOMAIN s
      BY <1>1
    <3> QED BY <1>2, <1>4, <3>1 DEF Ordered
  <2>2. ASSUME NEW i \in 1 .. (Len(s) - 1), NEW j \in 1 .. (Len(s) - 1), i < j
        PROVE  <<t[i], t[j]>> \in R
    <3>1. i + 1 < j + 1
      BY <2>2
    <3> QED BY <1>2, <1>4, <3>1 DEF Ordered
  <2> QED BY <1>1, <2>1, <2>2 DEF Ordered, L!Range
<1> QED BY <1>1, <1>3, <1>4 DEF t

(* One item more among the items. *)
LEMMA NumbersAdd ==
    ASSUME NEW p, NEW A, NEW a
    PROVE  Numbers(p, A \cup {a}) = Numbers(p, A) \cup (IF a.from = p /\ a.n # 0 THEN {a.n} ELSE {})
BY DEF Numbers, Of

(* Nobody has said anything yet. *)
LEMMA LinksInit == L!Init => LinksInv
<1> SUFFICES ASSUME L!Init PROVE LinksInv
  OBVIOUS
<1>1. \A S : <<>> \in Seq(S) /\ DOMAIN <<>> = {} /\ Len(<<>>) = 0
  BY EmptySeq
<1>2. LinksTyped
  BY <1>1 DEF L!Init, LinksTyped
<1>3. ASSUME NEW p \in L!Plugins PROVE Flow(p)
  <2>1. outbox[p] = <<>> /\ applied[p] = <<>> /\ posted = <<>> /\ mail = {} /\ said[p] = <<>>
        /\ reader[p] = FALSE /\ running[p] = FALSE
    BY DEF L!Init
  <2>2. Written(p) = {} /\ Posted(p) = {} /\ Mailed(p) = {} /\ Applied(p) = {} /\ L!Fit(p) = {}
    BY <1>1, <2>1 DEF Written, Posted, Mailed, Applied, Numbers, Of, L!Range, L!Fit
  <2>3. InOrder(p)
    BY <1>1, <2>1, <2>2 DEF InOrder, Ordered, Below
  <2> QED BY <1>1, <2>1, <2>2, <2>3 DEF Flow, NoneLost, ReadsOn
<1> QED BY <1>2, <1>3 DEF LinksInv, OneMail, L!Init

(* A step that moves no action keeps the invariant, if it starts no reader. *)
LEMMA Unmoved ==
    ASSUME LinksInv, UNCHANGED <<said, outbox, posted, mail, applied>>,
           subs' \in {0, subs}, L!HostHeld' => L!HostHeld,
           link' \in [L!Plugins -> {"spawn", "write", "read", "look", "kill", "gone"}],
           reader' \in [L!Plugins -> BOOLEAN], running' \in [L!Plugins -> BOOLEAN],
           \A p \in L!Plugins : /\ reader'[p] => reader[p]
                                /\ running'[p] => running[p]
                                /\ link'[p] = "spawn" => link[p] = "spawn"
    PROVE  LinksInv'
<1>1. LinksTyped' /\ OneMail'
  BY DEF LinksInv, LinksTyped, OneMail
<1>2. ASSUME NEW p \in L!Plugins PROVE Flow(p)'
  <2>1. Flow(p)
    BY DEF LinksInv
  <2>2. InOrder(p)'
    BY <2>1 DEF Flow, InOrder, Written, Posted, Mailed, Applied, Numbers, L!Fit, L!Clean
  <2>3. NoneLost(p)'
    BY <2>1 DEF Flow, NoneLost, Written, Posted, Mailed, Applied, Numbers, L!Fit, L!Clean
  <2>4. ReadsOn(p)'
    BY <2>1 DEF Flow, ReadsOn, Written
  <2> QED BY <2>2, <2>3, <2>4 DEF Flow
<1> QED BY <1>1, <1>2 DEF LinksInv

(* Another plugin's step that appends at most an item of its own changes nothing of p's. *)
LEMMA OthersMoved ==
    ASSUME LinksInv, NEW p \in L!Plugins,
           said'[p] = said[p], outbox'[p] = outbox[p], UNCHANGED <<applied, mail>>,
           Posted(p)' = Posted(p), Ordered(posted, LessOf(p))',
           L!HostHeld' => L!HostHeld, reader'[p] => reader[p],
           link'[p] = "spawn" => link[p] = "spawn", running'[p] => running[p]
    PROVE  Flow(p)'
<1>1. Flow(p)
  BY DEF LinksInv
<1>2. L!Fit(p)' = L!Fit(p) /\ Written(p)' = Written(p) /\ Mailed(p)' = Mailed(p)
      /\ Applied(p)' = Applied(p)
  BY DEF L!Fit, L!Clean, Written, Mailed, Applied, Numbers, Of
<1>3. InOrder(p)'
  BY <1>1, <1>2 DEF Flow, InOrder
<1>4. NoneLost(p)'
  BY <1>1, <1>2 DEF Flow, NoneLost
<1>5. ReadsOn(p)'
  BY <1>1, <1>2 DEF Flow, ReadsOn
<1> QED BY <1>3, <1>4, <1>5 DEF Flow

(* What is posted: an item of p's with a number above those before it. *)
LEMMA PostedItem ==
    ASSUME LinksTyped, NEW p \in L!Plugins, NEW n \in Nat,
           posted' = Append(posted, [from |-> p, n |-> n])
    PROVE  /\ posted' \in Seq(Items)
           /\ Posted(p)' = Posted(p) \cup ({n} \ {0})
           /\ \A q \in L!Plugins : q # p => Posted(q)' = Posted(q)
           /\ \A q \in L!Plugins :
                Ordered(posted, LessOf(q)) /\ (q = p /\ n # 0 => \A m \in Posted(p) : m < n)
                    => Ordered(posted, LessOf(q))'
<1> DEFINE a == [from |-> p, n |-> n]
<1>1. a \in Items /\ a.from = p /\ a.n = n
  BY DEF Items
<1>2. posted' = Append(posted, a)
  OBVIOUS
<1> HIDE DEF a
<1>3. posted \in Seq(Items)
  BY DEF LinksTyped
<1>4. /\ posted' \in Seq(Items) /\ L!Range(posted') = L!Range(posted) \cup {a}
      /\ \A R : Ordered(posted, R) /\ (\A x \in L!Range(posted) : <<x, a>> \in R) => Ordered(posted', R)
  BY <1>1, <1>2, <1>3, OrderedPush
<1>5. L!Range(posted) \subseteq Items
  BY <1>3, RangeOfSeq DEF L!Range, Range
<1>6. \A q : Posted(q)' = Posted(q) \cup (IF a.from = q /\ a.n # 0 THEN {a.n} ELSE {})
  BY <1>4, NumbersAdd DEF Posted
<1>7. ASSUME NEW q \in L!Plugins, Ordered(posted, LessOf(q)),
             q = p /\ n # 0 => \A m \in Posted(p) : m < n
      PROVE  Ordered(posted', LessOf(q))
  <2>1. ASSUME NEW x \in L!Range(posted) PROVE <<x, a>> \in LessOf(q)
    <3>1. CASE x \in Of(q, Items) /\ a \in Of(q, Items)
      <4>1. q = p /\ n # 0 /\ x.n \in Posted(p)
        BY <1>1, <2>1, <3>1 DEF Of, Posted, Numbers
      <4>2. x.n < a.n
        BY <1>1, <1>7, <4>1
      <4> QED BY <1>1, <1>5, <4>2 DEF LessOf
    <3>2. CASE ~ (x \in Of(q, Items) /\ a \in Of(q, Items))
      BY <1>1, <1>5, <3>2 DEF LessOf
    <3> QED BY <3>1, <3>2
  <2> QED BY <1>4, <1>7, <2>1
<1>8. LessOf(1)' = LessOf(1) /\ \A q : LessOf(q)' = LessOf(q)
  BY DEF LessOf, Of, Items
<1> QED BY <1>1, <1>4, <1>6, <1>7, <1>8

(* A link takes what its plugin wrote first, and posts it if it counts. *)
LEMMA Taken ==
    ASSUME LinksInv, NEW p \in L!Plugins, outbox[p] # <<>>,
           outbox' = [outbox EXCEPT ![p] = Tail(@)],
           \/ posted' = posted /\ (L!HostHeld => Head(outbox[p]) \notin L!Fit(p))
           \/ /\ Head(outbox[p]) \in L!Fit(p)
              /\ posted' = Append(posted, [from |-> p, n |-> Head(outbox[p])]),
           UNCHANGED <<said, subs, mail, applied, life, link, running>>,
           reader' \in [L!Plugins -> BOOLEAN],
           \A q \in L!Plugins : reader'[q] => reader[q],
           p \in Stdio /\ reader'[p] => said[p][Head(outbox[p])]
    PROVE  LinksInv'
<1> DEFINE h == Head(outbox[p])
<1>0. /\ outbox \in [L!Plugins -> Seq(Nat \ {0})] /\ posted \in Seq(Items) /\ Flow(p) /\ LinksTyped
      /\ L!HostHeld' = L!HostHeld
  BY DEF LinksInv, LinksTyped, L!HostHeld
<1>1. /\ Tail(outbox[p]) \in Seq(Nat \ {0}) /\ h \in Nat \ {0}
      /\ Written(p) = L!Range(Tail(outbox[p])) \cup {h}
      /\ Ordered(Tail(outbox[p]), Less)
      /\ \A n \in L!Range(Tail(outbox[p])) : <<h, n>> \in Less
  <2>1. Ordered(outbox[p], Less)
    BY <1>0 DEF Flow, InOrder
  <2> QED BY <1>0, <2>1, OrderedPop DEF Written
<1>2. outbox'[p] = Tail(outbox[p]) /\ \A q \in L!Plugins : q # p => outbox'[q] = outbox[q]
  BY <1>0
<1>3. outbox' \in [L!Plugins -> Seq(Nat \ {0})]
  BY <1>0, <1>1
<1>4. Written(p) = Written(p)' \cup {h} /\ \A n \in Written(p)' : h < n
  BY <1>1, <1>2 DEF Written, Less
<1> HIDE DEF h
<1>5. \A m \in Posted(p) : m < h
  BY <1>0, <1>4 DEF Flow, InOrder, Below
<1>6. /\ posted' \in Seq(Items)
      /\ Posted(p)' = Posted(p) \/ (h \in L!Fit(p) /\ Posted(p)' = Posted(p) \cup {h})
      /\ L!HostHeld /\ h \in L!Fit(p) => h \in Posted(p)'
      /\ \A q \in L!Plugins : q # p => Posted(q)' = Posted(q)
      /\ \A q \in L!Plugins : Ordered(posted, LessOf(q))'
  <2>0. \A q \in L!Plugins : Ordered(posted, LessOf(q))
    BY DEF LinksInv, Flow, InOrder
  <2>1. CASE posted' = posted /\ (L!HostHeld => h \notin L!Fit(p))
    <3>1. \A q : LessOf(q)' = LessOf(q)
      BY DEF LessOf, Of, Items
    <3>2. \A q : Posted(q)' = Posted(q)
      BY <2>1 DEF Posted, Numbers, Of, L!Range
    <3>3. \A q \in L!Plugins : Ordered(posted, LessOf(q))'
      BY <2>0, <2>1, <3>1 DEF Ordered
    <3> QED BY <1>0, <2>1, <3>2, <3>3
  <2>2. CASE h \in L!Fit(p) /\ posted' = Append(posted, [from |-> p, n |-> h])
    <3>1. h \in Nat /\ h # 0
      BY <1>1
    <3>2. /\ posted' \in Seq(Items) /\ Posted(p)' = Posted(p) \cup ({h} \ {0})
          /\ \A q \in L!Plugins : q # p => Posted(q)' = Posted(q)
          /\ \A q \in L!Plugins :
                Ordered(posted, LessOf(q)) /\ (q = p /\ h # 0 => \A m \in Posted(p) : m < h)
                    => Ordered(posted, LessOf(q))'
      BY <1>0, <2>2, <3>1, PostedItem
    <3>3. Posted(p)' = Posted(p) \cup {h}
      BY <3>1, <3>2
    <3> QED BY <1>5, <2>0, <2>2, <3>2, <3>3
  <2>3. \/ posted' = posted /\ (L!HostHeld => h \notin L!Fit(p))
        \/ h \in L!Fit(p) /\ posted' = Append(posted, [from |-> p, n |-> h])
    BY DEF h
  <2> QED BY <2>1, <2>2, <2>3
<1>7. L!Fit(p)' = L!Fit(p) /\ Mailed(p)' = Mailed(p) /\ Applied(p)' = Applied(p)
  BY DEF L!Fit, L!Clean, Mailed, Applied, Numbers, Of
<1>8. InOrder(p)'
  <2>1. Below(Posted(p)', Written(p)')
    BY <1>0, <1>4, <1>6 DEF Flow, InOrder, Below
  <2>2. Below(Mailed(p)', Posted(p)' \cup Written(p)')
    BY <1>0, <1>4, <1>6, <1>7 DEF Flow, InOrder, Below
  <2>3. Below(Applied(p)', Mailed(p)' \cup Posted(p)' \cup Written(p)')
    BY <1>0, <1>4, <1>6, <1>7 DEF Flow, InOrder, Below
  <2>4. Ordered(outbox[p], Less)' /\ Ordered(applied[p], Less)'
    BY <1>0, <1>1, <1>2 DEF Flow, InOrder, Ordered, Less
  <2>5. Written(p)' \subseteq 1 .. Len(said'[p])
        /\ Posted(p)' \cup Mailed(p)' \cup Applied(p)' \subseteq L!Fit(p)'
    BY <1>0, <1>4, <1>6, <1>7 DEF Flow, InOrder
  <2> QED BY <1>6, <2>1, <2>2, <2>3, <2>4, <2>5 DEF InOrder, Below
<1>9. NoneLost(p)'
  BY <1>0, <1>4, <1>6, <1>7 DEF Flow, NoneLost
<1>10. ReadsOn(p)'
  BY <1>0, <1>4 DEF Flow, ReadsOn, h
<1>11. ASSUME NEW q \in L!Plugins PROVE Flow(q)'
  <2>1. CASE q = p
    BY <1>8, <1>9, <1>10, <2>1 DEF Flow
  <2>2. CASE q # p
    BY <1>0, <1>2, <1>6, <2>2, OthersMoved
  <2> QED BY <2>1, <2>2
<1>12. LinksTyped' /\ OneMail'
  BY <1>3, <1>6 DEF LinksInv, LinksTyped, OneMail
<1> QED BY <1>11, <1>12 DEF LinksInv

(* A plugin that starts has said nothing; of one that cannot, a log line tells. *)
LEMMA Spawned == ASSUME LinksInv, NEW p \in L!Plugins, L!Spawn(p) PROVE LinksInv'
<1>0. /\ posted \in Seq(Items) /\ LinksTyped /\ Flow(p) /\ said[p] = <<>>
      /\ UNCHANGED <<said, outbox, mail, applied, subs, life>>
  BY DEF LinksInv, LinksTyped, Flow, ReadsOn, L!Spawn, L!AppIdle
<1>1. /\ L!HostHeld' = L!HostHeld
      /\ \A q \in L!Plugins : q # p => /\ reader'[q] = reader[q] /\ running'[q] = running[q]
                                       /\ link'[q] = link[q]
      /\ link'[p] # "spawn"
      /\ link' \in [L!Plugins -> {"spawn", "write", "read", "look", "kill", "gone"}]
      /\ reader' \in [L!Plugins -> BOOLEAN] /\ running' \in [L!Plugins -> BOOLEAN]
  <2>1. /\ link' \in {[link EXCEPT ![p] = "write"], [link EXCEPT ![p] = "gone"]}
        /\ \/ UNCHANGED <<running, reader>>
           \/ /\ running' = [running EXCEPT ![p] = TRUE]
              /\ reader' = [reader EXCEPT ![p] = p \in Stdio]
    BY DEF L!Spawn, L!Go
  <2>2. (p \in Stdio) \in BOOLEAN
    OBVIOUS
  <2>3. /\ reader' \in [L!Plugins -> BOOLEAN] /\ running' \in [L!Plugins -> BOOLEAN]
        /\ \A q \in L!Plugins : q # p => reader'[q] = reader[q] /\ running'[q] = running[q]
    BY <1>0, <2>1, <2>2, Zenon DEF LinksTyped
  <2>4. /\ link' \in [L!Plugins -> {"spawn", "write", "read", "look", "kill", "gone"}]
        /\ link'[p] # "spawn" /\ \A q \in L!Plugins : q # p => link'[q] = link[q]
    BY <1>0, <2>1 DEF LinksTyped
  <2> QED BY <1>0, <2>3, <2>4 DEF L!HostHeld
<1>2. /\ posted' \in Seq(Items)
      /\ \A q \in L!Plugins : Posted(q)' = Posted(q) /\ Ordered(posted, LessOf(q))'
  <2>0. \A q \in L!Plugins : Ordered(posted, LessOf(q))
    BY DEF LinksInv, Flow, InOrder
  <2>1. CASE posted' = posted
    <3>1. \A q : Posted(q)' = Posted(q) /\ LessOf(q)' = LessOf(q)
      BY <2>1 DEF Posted, Numbers, Of, L!Range, LessOf, Items
    <3> QED BY <1>0, <2>0, <2>1, <3>1 DEF Ordered
  <2>2. CASE posted' = Append(posted, [from |-> p, n |-> 0])
    BY <1>0, <2>0, <2>2, PostedItem
  <2> QED BY <2>1, <2>2 DEF L!Spawn, L!Post
<1>3. ASSUME NEW q \in L!Plugins PROVE Flow(q)'
  <2>1. CASE q # p
    BY <1>0, <1>1, <1>2, <2>1, OthersMoved
  <2>2. CASE q = p
    <3>1. L!Fit(p)' = L!Fit(p) /\ Written(p)' = Written(p) /\ Mailed(p)' = Mailed(p)
          /\ Applied(p)' = Applied(p)
      BY <1>0 DEF L!Fit, L!Clean, Written, Mailed, Applied, Numbers, Of
    <3>2. InOrder(p)'
      BY <1>0, <1>2, <3>1 DEF Flow, InOrder
    <3>3. NoneLost(p)'
      BY <1>0, <1>1, <1>2, <3>1 DEF Flow, NoneLost
    <3>4. ReadsOn(p)'
      BY <1>0, <1>1, EmptySeq DEF ReadsOn
    <3> QED BY <2>2, <3>2, <3>3, <3>4 DEF Flow
  <2> QED BY <2>1, <2>2
<1>4. LinksTyped' /\ OneMail'
  BY <1>0, <1>1, <1>2 DEF LinksInv, LinksTyped, OneMail
<1> QED BY <1>3, <1>4 DEF LinksInv

(* A plugin writes the next of its messages. *)
LEMMA Spoken == ASSUME LinksInv, NEW p \in L!Plugins, L!Says(p) PROVE LinksInv'
<1> DEFINE e == Len(said[p]) + 1
<1>0. /\ UNCHANGED <<posted, mail, applied, subs, life, link, reader, running>> /\ Flow(p)
      /\ said[p] \in Seq(BOOLEAN) /\ outbox[p] \in Seq(Nat \ {0}) /\ Len(said[p]) \in Nat
      /\ L!HostHeld' = L!HostHeld /\ running[p]
  BY LenProperties DEF LinksInv, LinksTyped, L!Says, L!AppIdle, L!HostHeld
<1>1. /\ outbox' = [outbox EXCEPT ![p] = Append(@, e)]
      /\ \E ok \in BOOLEAN : said' = [said EXCEPT ![p] = Append(@, ok)]
  BY DEF L!Says
<1>2. /\ said' \in [L!Plugins -> Seq(BOOLEAN)] /\ Len(said'[p]) = e
      /\ \A n \in 1 .. Len(said[p]) : said'[p][n] = said[p][n]
      /\ \A q \in L!Plugins : q # p => said'[q] = said[q]
  <2>1. PICK ok \in BOOLEAN : said' = [said EXCEPT ![p] = Append(@, ok)]
    BY <1>1
  <2>2. said'[p] = Append(said[p], ok)
    BY <2>1 DEF LinksInv, LinksTyped
  <2> QED BY <1>0, <2>1, <2>2, AppendProperties DEF LinksInv, LinksTyped
<1>3. \A n \in Written(p) : n < e
  BY <1>0 DEF Flow, InOrder
<1>4. /\ outbox' \in [L!Plugins -> Seq(Nat \ {0})] /\ Written(p)' = Written(p) \cup {e}
      /\ Ordered(outbox[p], Less)' /\ \A q \in L!Plugins : q # p => outbox'[q] = outbox[q]
  <2>1. e \in Nat \ {0} /\ outbox'[p] = Append(outbox[p], e)
    BY <1>0, <1>1 DEF LinksInv, LinksTyped
  <2>2. /\ Append(outbox[p], e) \in Seq(Nat \ {0})
        /\ L!Range(Append(outbox[p], e)) = L!Range(outbox[p]) \cup {e}
        /\ Ordered(outbox[p], Less) /\ (\A x \in L!Range(outbox[p]) : <<x, e>> \in Less)
              => Ordered(Append(outbox[p], e), Less)
    BY <1>0, <2>1, OrderedPush
  <2>3. \A x \in L!Range(outbox[p]) : <<x, e>> \in Less
    BY <1>0, <1>3, <2>1 DEF Less, Written, Flow, InOrder
  <2>4. Ordered(outbox'[p], Less)
    BY <1>0, <2>1, <2>2, <2>3 DEF Flow, InOrder
  <2>5. Less' = Less
    BY DEF Less
  <2> QED BY <1>1, <2>1, <2>2, <2>4, <2>5 DEF Written, LinksInv, LinksTyped, Ordered
<1>5. /\ DOMAIN said[p] = 1 .. Len(said[p]) /\ DOMAIN said'[p] = 1 .. e
      /\ Mailed(p)' = Mailed(p) /\ Applied(p)' = Applied(p) /\ Posted(p)' = Posted(p)
  <2>1. said'[p] \in Seq(BOOLEAN)
    BY <1>2
  <2>2. DOMAIN said[p] = 1 .. Len(said[p]) /\ DOMAIN said'[p] = 1 .. e
    BY <1>0, <1>2, <2>1, LenProperties
  <2> QED BY <1>0, <2>2 DEF Mailed, Applied, Posted, Numbers, Of, L!Range
<1> HIDE DEF e
<1>6. /\ L!Fit(p) \subseteq 1 .. Len(said[p]) /\ L!Fit(p) \subseteq L!Fit(p)'
      /\ L!Fit(p)' \subseteq L!Fit(p) \cup {e}
  <2>1. e = Len(said[p]) + 1 /\ Len(said[p]) \in Nat
    BY <1>0 DEF e
  <2>2. ASSUME NEW n \in 1 .. Len(said[p]) PROVE n \in L!Fit(p)' <=> n \in L!Fit(p)
    <3>1. n \in 1 .. e /\ said'[p][n] = said[p][n]
      BY <1>2, <2>1
    <3>2. \A j \in 1 .. n : said'[p][j] = said[p][j]
      BY <1>2, <2>1
    <3> QED BY <1>5, <3>1, <3>2 DEF L!Fit, L!Clean
  <2>3. L!Fit(p) \subseteq 1 .. Len(said[p]) /\ L!Fit(p)' \subseteq 1 .. e
    BY <1>5 DEF L!Fit
  <2> QED BY <2>1, <2>2, <2>3
<1>7. \A n \in Posted(p) \cup Mailed(p) \cup Applied(p) : n \in L!Fit(p) /\ n < e
  BY <1>0, <1>6 DEF Flow, InOrder, e
<1>8. InOrder(p)'
  <2>1. /\ Below(Posted(p)', Written(p)') /\ Below(Mailed(p)', Posted(p)' \cup Written(p)')
        /\ Below(Applied(p)', Mailed(p)' \cup Posted(p)' \cup Written(p)')
    BY <1>0, <1>4, <1>5, <1>7 DEF Flow, InOrder, Below
  <2>2. /\ Ordered(posted, LessOf(p))' /\ Ordered(applied[p], Less)'
    BY <1>0 DEF Flow, InOrder, Ordered, LessOf, Less, Of, Items
  <2>3. /\ Written(p)' \subseteq 1 .. Len(said'[p])
        /\ Posted(p)' \cup Mailed(p)' \cup Applied(p)' \subseteq L!Fit(p)'
    <3>1. e = Len(said[p]) + 1 /\ Len(said[p]) \in Nat /\ Len(said'[p]) = e
          /\ Written(p) \subseteq 1 .. Len(said[p])
      BY <1>0, <1>2 DEF e, Flow, InOrder
    <3>2. Written(p)' \subseteq 1 .. e
      BY <1>4, <3>1
    <3> QED BY <1>5, <1>6, <1>7, <3>1, <3>2
  <2> QED BY <1>4, <2>1, <2>2, <2>3 DEF InOrder, Below
<1>9. NoneLost(p)'
  <2>1. L!HostHeld' => L!Fit(p)' \subseteq Written(p)' \cup Posted(p)' \cup Mailed(p)' \cup Applied(p)'
    BY <1>0, <1>4, <1>5, <1>6 DEF Flow, NoneLost
  <2>2. ASSUME NEW m \in Applied(p), NEW n \in L!Fit(p)', n < m PROVE n \in Applied(p)
    <3>1. n # e
      <4>1. m < e /\ m \in 1 .. Len(said[p])
        BY <1>6, <1>7
      <4> QED BY <1>0, <2>2, <4>1 DEF e
    <3> QED BY <1>0, <1>6, <2>2, <3>1 DEF Flow, NoneLost
  <2> QED BY <1>5, <2>1, <2>2 DEF NoneLost
<1>10. ReadsOn(p)'
  <2>1. link'[p] # "spawn"
    BY <1>0 DEF Flow, ReadsOn
  <2>2. ASSUME p \in Stdio, reader[p], NEW n \in 1 .. e PROVE n \in Written(p)' \/ said'[p][n]
    <3>1. n = e \/ n \in 1 .. Len(said[p])
      BY <1>0 DEF e
    <3> QED BY <1>0, <1>2, <1>4, <2>2, <3>1 DEF Flow, ReadsOn
  <2> QED BY <1>0, <1>2, <2>1, <2>2 DEF ReadsOn
<1>11. ASSUME NEW q \in L!Plugins PROVE Flow(q)'
  <2>1. CASE q = p
    BY <1>8, <1>9, <1>10, <2>1 DEF Flow
  <2>2. CASE q # p
    <3>1. Posted(q)' = Posted(q) /\ Ordered(posted, LessOf(q))'
      BY <1>0 DEF LinksInv, Flow, InOrder, Posted, Numbers, Of, L!Range, Ordered, LessOf, Items
    <3> QED BY <1>0, <1>2, <1>4, <2>2, <3>1, OthersMoved
  <2> QED BY <2>1, <2>2
<1>12. LinksTyped' /\ OneMail'
  BY <1>0, <1>2, <1>4 DEF LinksInv, LinksTyped, OneMail
<1> QED BY <1>11, <1>12 DEF LinksInv

(* The subscription receives the first item of the merged channel. *)
LEMMA Received == LinksInv /\ L!Receive => LinksInv'
<1> SUFFICES ASSUME LinksInv, L!Receive PROVE LinksInv'
  OBVIOUS
<1> DEFINE a == Head(posted)
<1>0. /\ UNCHANGED <<said, outbox, applied, life, link, reader, running>> /\ LinksTyped
      /\ posted \in Seq(Items) /\ posted # <<>> /\ posted' = Tail(posted)
      /\ mail = {} /\ mail' = mail \cup {a} /\ subs' = 0
      /\ L!HostHeld
  BY DEF LinksInv, LinksTyped, OneMail, L!Receive, L!linkVars, L!HostHeld
<1>1. /\ posted' \in Seq(Items) /\ a \in Items /\ L!Range(posted) = L!Range(posted') \cup {a}
      /\ \A R : Ordered(posted, R) => /\ Ordered(posted', R)
                                      /\ \A x \in L!Range(posted') : <<a, x>> \in R
  BY <1>0, OrderedPop
<1> HIDE DEF a
<1>2. ASSUME NEW p \in L!Plugins PROVE Flow(p)'
  <2>0. Flow(p)
    BY DEF LinksInv
  <2>1. L!Fit(p)' = L!Fit(p) /\ Written(p)' = Written(p) /\ Applied(p)' = Applied(p)
    BY <1>0 DEF L!Fit, L!Clean, Written, Applied
  <2>2. /\ Mailed(p)' = IF a.from = p /\ a.n # 0 THEN {a.n} ELSE {}
        /\ Posted(p) = Posted(p)' \cup Mailed(p)'
        /\ Mailed(p) = {}
    <3>1. Mailed(p) = {}
      BY <1>0 DEF Mailed, Numbers, Of
    <3>2. Mailed(p)' = Mailed(p) \cup (IF a.from = p /\ a.n # 0 THEN {a.n} ELSE {})
      BY <1>0, NumbersAdd DEF Mailed
    <3>3. Posted(p) = Numbers(p, L!Range(posted')) \cup (IF a.from = p /\ a.n # 0 THEN {a.n} ELSE {})
      BY <1>1, NumbersAdd DEF Posted
    <3> QED BY <3>1, <3>2, <3>3 DEF Posted
  <2>3. Ordered(posted', LessOf(p)) /\ \A x \in L!Range(posted') : <<a, x>> \in LessOf(p)
    BY <1>1, <2>0 DEF Flow, InOrder
  <2>4. Below(Mailed(p)', Posted(p)')
    <3>1. ASSUME NEW m \in Mailed(p)', NEW n \in Posted(p)' PROVE m < n
      <4>1. m = a.n /\ a.from = p /\ a.n # 0
        BY <2>2, <3>1
      <4>2. PICK x \in L!Range(posted') : x.from = p /\ x.n # 0 /\ x.n = n
        BY <3>1 DEF Posted, Numbers, Of
      <4>3. x \in Items
        <5>1. L!Range(posted') = Range(posted')
          BY DEF L!Range, Range
        <5> QED BY <1>1, <5>1, RangeOfSeq
      <4>4. a \in Of(p, Items) /\ x \in Of(p, Items) /\ <<a, x>> \in LessOf(p)
        BY <1>1, <2>3, <4>1, <4>2, <4>3 DEF Of
      <4> QED BY <4>1, <4>2, <4>4 DEF LessOf
    <3> QED BY <3>1 DEF Below
  <2>5. Ordered(posted, LessOf(p))' /\ Ordered(outbox[p], Less)' /\ Ordered(applied[p], Less)'
    BY <1>0, <2>0, <2>3 DEF Flow, InOrder, Ordered, LessOf, Less, Of, Items
  <2>6. InOrder(p)'
    <3>1. /\ Below(Posted(p)', Written(p)') /\ Below(Mailed(p)', Posted(p)' \cup Written(p)')
          /\ Below(Applied(p)', Mailed(p)' \cup Posted(p)' \cup Written(p)')
      BY <2>0, <2>1, <2>2, <2>4 DEF Flow, InOrder, Below
    <3>2. /\ Written(p)' \subseteq 1 .. Len(said'[p])
          /\ Posted(p)' \cup Mailed(p)' \cup Applied(p)' \subseteq L!Fit(p)'
      BY <1>0, <2>0, <2>1, <2>2 DEF Flow, InOrder
    <3> QED BY <2>5, <3>1, <3>2 DEF InOrder, Below
  <2>7. NoneLost(p)'
    BY <1>0, <2>0, <2>1, <2>2 DEF Flow, NoneLost
  <2>8. ReadsOn(p)'
    BY <1>0, <2>0, <2>1 DEF Flow, ReadsOn
  <2> QED BY <2>6, <2>7, <2>8 DEF Flow
<1>3. LinksTyped' /\ OneMail'
  BY <1>0, <1>1 DEF LinksTyped, OneMail
<1> QED BY <1>2, <1>3 DEF LinksInv

(* The reducer applies what was received. *)
LEMMA Folded == ASSUME LinksInv, NEW a \in mail, L!Fold(a) PROVE LinksInv'
<1>0. /\ UNCHANGED <<said, outbox, posted, life, link, reader, running>> /\ LinksTyped
      /\ a \in Items /\ mail = {a} /\ mail' = {} /\ subs' = 1
      /\ L!HostHeld /\ L!HostHeld'
  BY DEF LinksInv, LinksTyped, OneMail, L!Fold, L!linkVars, L!HostHeld
<1>1. applied' = IF a.n = 0 THEN applied ELSE [applied EXCEPT ![a.from] = Append(@, a.n)]
  BY DEF L!Fold
<1>2. a.from \in L!Plugins /\ a.n \in Nat
  BY <1>0 DEF Items
<1>3. ASSUME NEW p \in L!Plugins
      PROVE  /\ applied'[p] \in Seq(Nat \ {0}) /\ Ordered(applied'[p], Less)
             /\ Applied(p)' = Applied(p) \cup Mailed(p)
  <2>0. Flow(p) /\ applied[p] \in Seq(Nat \ {0}) /\ applied \in [L!Plugins -> Seq(Nat \ {0})]
    BY DEF LinksInv, LinksTyped
  <2>1. Mailed(p) = IF a.from = p /\ a.n # 0 THEN {a.n} ELSE {}
    BY <1>0 DEF Mailed, Numbers, Of
  <2>2. CASE a.from = p /\ a.n # 0
    <3>1. applied'[p] = Append(applied[p], a.n)
      BY <1>1, <2>0, <2>2
    <3>2. /\ Append(applied[p], a.n) \in Seq(Nat \ {0})
          /\ L!Range(Append(applied[p], a.n)) = L!Range(applied[p]) \cup {a.n}
          /\ Ordered(applied[p], Less) /\ (\A x \in L!Range(applied[p]) : <<x, a.n>> \in Less)
                => Ordered(Append(applied[p], a.n), Less)
      BY <1>2, <2>0, <2>2, OrderedPush
    <3>3. ASSUME NEW x \in L!Range(applied[p]) PROVE <<x, a.n>> \in Less
      <4>1. x \in Nat
        BY <2>0, RangeOfSeq DEF L!Range, Range
      <4>2. x < a.n
        BY <2>0, <2>1, <2>2, <3>3 DEF Flow, InOrder, Below, Applied
      <4> QED BY <1>2, <4>1, <4>2 DEF Less
    <3> QED BY <2>0, <2>1, <2>2, <3>1, <3>2, <3>3 DEF Applied, Flow, InOrder
  <2>3. CASE ~ (a.from = p /\ a.n # 0)
    <3>1. applied'[p] = applied[p]
      BY <1>1, <1>2, <2>0, <2>3
    <3> QED BY <2>0, <2>1, <2>3, <3>1 DEF Applied, Flow, InOrder
  <2> QED BY <2>2, <2>3
<1>4. ASSUME NEW p \in L!Plugins PROVE Flow(p)'
  <2>0. Flow(p)
    BY DEF LinksInv
  <2>1. /\ L!Fit(p)' = L!Fit(p) /\ Written(p)' = Written(p) /\ Posted(p)' = Posted(p)
        /\ Mailed(p)' = {} /\ Applied(p)' = Applied(p) \cup Mailed(p)
    BY <1>0, <1>3 DEF L!Fit, L!Clean, Written, Posted, Mailed, Numbers, Of, L!Range
  <2>2. Mailed(p) = IF a.from = p /\ a.n # 0 THEN {a.n} ELSE {}
    BY <1>0 DEF Mailed, Numbers, Of
  <2>3. Ordered(posted, LessOf(p))' /\ Ordered(outbox[p], Less)' /\ Ordered(applied[p], Less)'
    BY <1>0, <1>3, <2>0 DEF Flow, InOrder, Ordered, LessOf, Less, Of, Items
  <2>4. InOrder(p)'
    <3>1. /\ Below(Posted(p)', Written(p)') /\ Below(Mailed(p)', Posted(p)' \cup Written(p)')
          /\ Below(Applied(p)', Mailed(p)' \cup Posted(p)' \cup Written(p)')
      BY <2>0, <2>1 DEF Flow, InOrder, Below
    <3>2. /\ Written(p)' \subseteq 1 .. Len(said'[p])
          /\ Posted(p)' \cup Mailed(p)' \cup Applied(p)' \subseteq L!Fit(p)'
      BY <1>0, <2>0, <2>1 DEF Flow, InOrder
    <3> QED BY <2>3, <3>1, <3>2 DEF InOrder, Below
  <2>5. NoneLost(p)'
    <3>1. L!Fit(p) \subseteq Written(p) \cup Posted(p) \cup Mailed(p) \cup Applied(p)
      BY <1>0, <2>0 DEF Flow, NoneLost
    <3>2. ASSUME NEW m \in Applied(p) \cup Mailed(p), NEW n \in L!Fit(p), n < m
          PROVE  n \in Applied(p) \cup Mailed(p)
      <4>1. CASE m \in Applied(p)
        BY <2>0, <3>2, <4>1 DEF Flow, NoneLost
      <4>2. CASE m \in Mailed(p)
        <5>1. \A k \in Written(p) \cup Posted(p) : m < k /\ k \in Int /\ m \in Int
          <6>1. Written(p) \cup Posted(p) \cup Mailed(p) \subseteq Int
            <7>1. Len(said[p]) \in Nat /\ DOMAIN said[p] = 1 .. Len(said[p])
              BY LenProperties DEF LinksInv, LinksTyped
            <7> QED BY <2>0, <7>1 DEF Flow, InOrder, L!Fit
          <6> QED BY <2>0, <4>2, <6>1 DEF Flow, InOrder, Below
        <5>2. n \notin Written(p) \cup Posted(p)
          BY <3>2, <5>1
        <5> QED BY <3>1, <5>2
      <4> QED BY <4>1, <4>2, <3>2
    <3> QED BY <2>1, <3>1, <3>2 DEF NoneLost
  <2>6. ReadsOn(p)'
    BY <1>0, <2>0, <2>1 DEF Flow, ReadsOn
  <2> QED BY <2>4, <2>5, <2>6 DEF Flow
<1>5. applied' \in [L!Plugins -> Seq(Nat \ {0})]
  BY <1>0, <1>1, <1>3 DEF LinksTyped
<1>6. LinksTyped' /\ OneMail'
  BY <1>0, <1>5 DEF LinksTyped, OneMail
<1> QED BY <1>4, <1>6 DEF LinksInv

(* What a plugin wrote first counts if it decodes, and over stdio if a reader is there. *)
LEMMA FirstCounts ==
    ASSUME LinksInv, NEW p \in L!Plugins, outbox[p] # <<>>, p \in Stdio => reader[p]
    PROVE  Head(outbox[p]) \in L!Fit(p) <=> said[p][Head(outbox[p])]
<1> DEFINE h == Head(outbox[p])
<1>0. Flow(p) /\ outbox[p] \in Seq(Nat \ {0}) /\ said[p] \in Seq(BOOLEAN)
  BY DEF LinksInv, LinksTyped
<1>1. /\ Len(said[p]) \in Nat /\ DOMAIN said[p] = 1 .. Len(said[p])
      /\ h \in Written(p) /\ \A n \in Written(p) : n = h \/ h < n
  <2>1. Ordered(outbox[p], Less)
    BY <1>0 DEF Flow, InOrder
  <2>2. /\ L!Range(outbox[p]) = L!Range(Tail(outbox[p])) \cup {h}
        /\ \A x \in L!Range(Tail(outbox[p])) : <<h, x>> \in Less
    BY <1>0, <2>1, OrderedPop
  <2> QED BY <1>0, <2>2, LenProperties DEF Written, Less
<1> HIDE DEF h
<1>2. h \in 1 .. Len(said[p])
  BY <1>0, <1>1 DEF Flow, InOrder
<1>3. ASSUME p \in Stdio, NEW j \in 1 .. h, j # h PROVE said[p][j]
  <2>1. j \in 1 .. Len(said[p]) /\ j < h
    BY <1>1, <1>2, <1>3
  <2>2. j \notin Written(p)
    BY <1>1, <1>2, <2>1
  <2> QED BY <1>0, <1>3, <2>1, <2>2 DEF Flow, ReadsOn
<1>4. h \in L!Fit(p) <=> said[p][h]
  BY <1>1, <1>2, <1>3 DEF L!Fit, L!Clean
<1> QED BY <1>4 DEF h

(* The two ways in which a link reads. *)
LEMMA ReadStdioStep == ASSUME LinksInv, NEW p \in L!Plugins, L!ReadStdio(p) PROVE LinksInv'
<1>0. /\ UNCHANGED <<said, subs, mail, applied, life, link, running>>
      /\ LinksTyped /\ p \in Stdio /\ reader[p] /\ L!HostHeld' = L!HostHeld
  BY DEF LinksInv, L!ReadStdio, L!AppIdle, L!HostHeld
<1>1. /\ reader' \in [L!Plugins -> BOOLEAN]
      /\ \A q \in L!Plugins : reader'[q] => reader[q]
  <2>1. \E b \in BOOLEAN : reader' = [reader EXCEPT ![p] = b]
    BY Zenon DEF L!ReadStdio, L!HostHeld
  <2> QED BY <1>0, <2>1 DEF LinksTyped
<1>2. CASE outbox' = outbox /\ posted' = posted
  BY <1>0, <1>1, <1>2, Unmoved DEF LinksTyped
<1>3. CASE /\ outbox[p] # <<>> /\ said[p][Head(outbox[p])] /\ L!Post(p, Head(outbox[p]))
           /\ outbox' = [outbox EXCEPT ![p] = Tail(@)]
  <2>1. Head(outbox[p]) \in L!Fit(p)
    BY <1>0, <1>3, FirstCounts
  <2>2. \/ posted' = posted /\ (L!HostHeld => Head(outbox[p]) \notin L!Fit(p))
        \/ /\ Head(outbox[p]) \in L!Fit(p)
           /\ posted' = Append(posted, [from |-> p, n |-> Head(outbox[p])])
    BY <1>3, <2>1 DEF L!Post
  <2> QED BY <1>0, <1>1, <1>3, <2>2, Taken
<1> QED BY <1>2, <1>3 DEF L!ReadStdio

LEMMA RecvShmStep == ASSUME LinksInv, NEW p \in L!Plugins, L!RecvShm(p) PROVE LinksInv'
<1>0. /\ UNCHANGED <<said, subs, mail, applied, life, running, reader>>
      /\ LinksTyped /\ p \notin Stdio /\ L!HostHeld' = L!HostHeld
  BY KindsAssumption DEF LinksInv, L!RecvShm, L!AppIdle, L!HostHeld
<1>1. CASE outbox[p] = <<>>
  <2>1. /\ UNCHANGED <<outbox, posted>> /\ link' = [link EXCEPT ![p] = "look"]
    BY <1>1 DEF L!RecvShm, L!Go
  <2> QED BY <1>0, <2>1, Unmoved DEF LinksTyped
<1>2. CASE outbox[p] # <<>>
  <2>1. /\ outbox' = [outbox EXCEPT ![p] = Tail(@)] /\ link' = link
        /\ IF said[p][Head(outbox[p])] THEN L!Post(p, Head(outbox[p])) ELSE posted' = posted
    BY <1>2 DEF L!RecvShm
  <2>2. Head(outbox[p]) \in L!Fit(p) <=> said[p][Head(outbox[p])]
    BY <1>0, <1>2, FirstCounts
  <2>3. \/ posted' = posted /\ (L!HostHeld => Head(outbox[p]) \notin L!Fit(p))
        \/ /\ Head(outbox[p]) \in L!Fit(p)
           /\ posted' = Append(posted, [from |-> p, n |-> Head(outbox[p])])
    BY <2>1, <2>2 DEF L!Post
  <2>4. reader' \in [L!Plugins -> BOOLEAN] /\ \A q \in L!Plugins : reader'[q] => reader[q]
    BY <1>0 DEF LinksTyped
  <2> QED BY <1>0, <1>2, <2>1, <2>3, <2>4, Taken
<1> QED BY <1>1, <1>2

(* The steps of links, plugins and application that move no action. *)
LEMMA LinkStep ==
    ASSUME LinksInv, NEW p \in L!Plugins,
           \/ L!WriteStdio(p) \/ L!SendShm(p) \/ L!Look(p) \/ L!Kill(p) \/ L!Dropped(p)
           \/ L!Reads(p) \/ L!Ends(p)
    PROVE  LinksInv'
<1>0. LinksTyped
  BY DEF LinksInv
<1>1. UNCHANGED <<said, outbox, posted, mail, applied, subs>> /\ L!HostHeld' = L!HostHeld
  BY DEF L!WriteStdio, L!SendShm, L!Look, L!Kill, L!Dropped, L!Reads, L!Ends, L!AppIdle, L!HostHeld
<1>2. link' = link \/ \E to \in {"write", "read", "look", "kill", "gone"} : link' = [link EXCEPT ![p] = to]
  BY DEF L!WriteStdio, L!SendShm, L!Look, L!Kill, L!Dropped, L!Reads, L!Ends, L!Go
<1>3. reader' = reader \/ reader' = [reader EXCEPT ![p] = FALSE]
  BY DEF L!WriteStdio, L!SendShm, L!Look, L!Kill, L!Dropped, L!Reads, L!Ends
<1>4. running' = running \/ running' = [running EXCEPT ![p] = FALSE]
  BY DEF L!WriteStdio, L!SendShm, L!Look, L!Kill, L!Dropped, L!Reads, L!Ends
<1>5. /\ link' \in [L!Plugins -> {"spawn", "write", "read", "look", "kill", "gone"}]
      /\ \A q \in L!Plugins : link'[q] = "spawn" => link[q] = "spawn"
  BY <1>0, <1>2 DEF LinksTyped
<1>6. /\ reader' \in [L!Plugins -> BOOLEAN] /\ \A q \in L!Plugins : reader'[q] => reader[q]
      /\ running' \in [L!Plugins -> BOOLEAN] /\ \A q \in L!Plugins : running'[q] => running[q]
  BY <1>0, <1>3, <1>4 DEF LinksTyped
<1> QED BY <1>0, <1>1, <1>5, <1>6, Unmoved DEF LinksTyped

LEMMA ClientStep ==
    ASSUME LinksInv,
           \/ L!Happens \/ L!ReceiveEnd \/ L!Quit \/ L!Fails \/ L!TearDown \/ L!Exit
           \/ UNCHANGED L!vars
    PROVE  LinksInv'
<1>0. LinksTyped
  BY DEF LinksInv
<1>1. UNCHANGED <<said, outbox, posted, mail, applied, link, reader, running>>
  BY DEF L!Happens, L!ReceiveEnd, L!Quit, L!Fails, L!TearDown, L!Exit, L!LinksIdle, L!vars,
         L!linkVars, L!appVars
<1>2. subs' \in {0, subs} /\ (life' = "up" => life = "up") /\ (subs' > 0 => subs > 0)
  BY <1>0 DEF LinksTyped, L!Happens, L!ReceiveEnd, L!Quit, L!Fails, L!TearDown, L!Exit, L!vars,
              L!linkVars, L!appVars
<1>3. L!HostHeld' => L!HostHeld
  BY <1>2 DEF L!HostHeld
<1> QED BY <1>0, <1>1, <1>2, <1>3, Unmoved DEF LinksTyped

(* All of it holds, for any plugins, traffic and room. *)
THEOREM LinksInvariant == L!Spec => []LinksInv
<1>1. ASSUME LinksInv, [L!Next]_L!vars PROVE LinksInv'
  <2>1. ASSUME NEW p \in L!Plugins, L!LinkWork(p) \/ L!ReadStdio(p) \/ L!Dropped(p) \/ L!Says(p)
                                      \/ L!Reads(p) \/ L!Ends(p)
        PROVE  LinksInv'
    BY <1>1, <2>1, Spawned, ReadStdioStep, RecvShmStep, LinkStep, Spoken DEF L!LinkWork
  <2>2. CASE L!Client
    <3>1. CASE L!Receive
      BY <1>1, <3>1, Received
    <3>2. CASE \E a \in mail : L!Fold(a)
      BY <1>1, <3>2, Folded
    <3> QED BY <1>1, <2>2, <3>1, <3>2, ClientStep DEF L!Client
  <2> QED BY <1>1, <2>1, <2>2, ClientStep DEF L!Next
<1> QED BY <1>1, LinksInit, PTL DEF L!Spec

(* Actions reach the reducer in order and once each, none left out before the *)
(* first malformed one, and over stdio none after it (plugin/host.rs).        *)
THEOREM ActionsKeepOrder == L!Spec => []ActionsInOrder
<1>1. LinksInv => ActionsInOrder
  <2> SUFFICES ASSUME LinksInv, NEW p \in L!Plugins
               PROVE  /\ L!Range(applied[p]) \subseteq L!Fit(p)
                      /\ \A i, j \in DOMAIN applied[p] : i < j => applied[p][i] < applied[p][j]
                      /\ \A m \in L!Range(applied[p]), n \in L!Due(p) :
                            n < m => n \in L!Range(applied[p])
    BY DEF ActionsInOrder, L!ActionsInOrder
  <2>1. Flow(p)
    BY DEF LinksInv
  <2>2. \A i, j \in DOMAIN applied[p] : i < j => applied[p][i] < applied[p][j]
    BY <2>1 DEF Flow, InOrder, Ordered, Less
  <2>3. L!Due(p) \subseteq L!Fit(p)
    <3>1. DOMAIN said[p] = 1 .. Len(said[p]) /\ Len(said[p]) \in Nat
      BY LenProperties DEF LinksInv, LinksTyped
    <3>2. ASSUME NEW n \in 1 .. Len(said[p]), L!Clean(p, n) PROVE said[p][n]
      BY <3>1, <3>2, n \in 1 .. n DEF L!Clean
    <3> QED BY <3>1, <3>2 DEF L!Due, L!Fit
  <2> QED BY <2>1, <2>2, <2>3 DEF Flow, InOrder, NoneLost, Applied
<1> QED BY <1>1, LinksInvariant, PTL
=============================================================================
