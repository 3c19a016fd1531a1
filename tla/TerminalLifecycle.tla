------------------------- MODULE TerminalLifecycle -------------------------
(***************************************************************************)
(* rstui-crossterm, lifecycle.rs, shell.rs and signal.rs: who puts the     *)
(* terminal into its modes and who takes it out of them.  The main thread  *)
(* enters them through its TerminalGuard, whose drop leaves them.  A panic *)
(* of any thread runs the panic hook first, and a termination signal wakes *)
(* a thread that restores and exits: three threads may write the same      *)
(* sequence, one mode at a time, in any interleaving.                      *)
(*                                                                         *)
(* A mode is raw mode or one an escape sequence turns on and off.  The     *)
(* keyboard protocol is a stack of the terminal's, one for each screen,    *)
(* and whoever started the program may have an entry on the main one.      *)
(***************************************************************************)
EXTENDS Naturals, Sequences

CONSTANT OptionSets      \* the LifecycleOptions an application may choose

\* A mutant: the modes are left in the order they were entered in.
LeftForwards == <<"raw", "alt", "mouse", "paste", "focus", "kitty">>

\* The order in which the guard enters the modes; they are left in another:
\* raw mode first, then the escapes backwards.
Acquired == <<"raw", "alt", "mouse", "paste", "focus", "kitty">>

Released == <<"raw", "kitty", "focus", "paste", "mouse", "alt">>

Modes == {Acquired[i] : i \in DOMAIN Acquired}

ASSUME OptionsAssumption == OptionSets \subseteq SUBSET Modes

\* The threads that may restore the terminal.
Threads == {"main", "worker", "signal"}

VARIABLES
    options,    \* TerminalGuard.active, and what run_app_with was given
    pc,         \* where the main thread is
    todo,       \* for each thread, the modes it has still to enter or leave
    on,         \* the modes the terminal is in, but for the keyboard's
    keyboard,   \* the entries on the keyboard stack of each screen
    caught,     \* the signal thread has a signal
    told,       \* the panic message is printed: on which screen, if at all
    restores,   \* history: restores and drops begun
    entered,    \* history: the guard was made whole
    overtaken   \* history: a mode was entered while another thread restored

vars == <<options, pc, todo, on, keyboard, caught, told, restores, entered, overtaken>>

TypeOK ==
    /\ options \in OptionSets
    /\ pc \in {"enter", "loop", "panic", "drop", "again", "ended"}
    /\ todo \in [Threads -> SUBSET Modes]
    /\ on \subseteq Modes \ {"kitty"}
    /\ keyboard \in [{"main", "alt"} -> 0 .. 2]
    /\ told \in {"no", "readable", "lost"}
    /\ restores \in 0 .. 4
    /\ {caught, entered, overtaken} \subseteq BOOLEAN

\* Of these modes, m is the one whose turn it is.
First(order, m, modes) ==
    /\ m \in modes
    /\ \A i, j \in DOMAIN order : i < j /\ order[j] = m => order[i] \notin modes

\* The hooks are installed; the guard is about to be made.
Init ==
    /\ options \in OptionSets
    /\ pc = "enter"
    /\ todo = [t \in Threads |-> IF t = "main" THEN options ELSE {}]
    /\ on = {}
    /\ keyboard \in [main : {0, 1}, alt : {0}]
    /\ told = "no" /\ restores = 0
    /\ caught = FALSE /\ entered = FALSE /\ overtaken = FALSE

Screen == IF "alt" \in on THEN "alt" ELSE "main"

-----------------------------------------------------------------------------
\* One mode is entered; the keyboard's flags are pushed on the screen's stack.
EnterMode ==
    /\ pc = "enter"
    /\ \E m \in Modes :
        /\ First(Acquired, m, todo["main"])
        /\ on' = on \cup ({m} \ {"kitty"})
        /\ keyboard' = IF m = "kitty" THEN [keyboard EXCEPT ![Screen] = @ + 1] ELSE keyboard
        /\ todo' = [todo EXCEPT !["main"] = @ \ {m}]
    /\ overtaken' = (overtaken \/ restores > 0)
    /\ UNCHANGED <<options, pc, caught, told, restores, entered>>

Entered ==
    /\ pc = "enter" /\ todo["main"] = {}
    /\ pc' = "loop"
    /\ entered' = TRUE
    /\ UNCHANGED <<options, todo, on, keyboard, caught, told, restores, overtaken>>

\* A mutant: the guard is dropped with what is entered so far not yet noted.
EnterFailsUnnoted ==
    /\ pc = "enter" /\ todo["main"] # {}
    /\ pc' = "drop"
    /\ todo' = [todo EXCEPT !["main"] = {}]
    /\ restores' = restores + 1
    /\ UNCHANGED <<options, on, keyboard, caught, told, entered, overtaken>>

\* A step fails: the half-made guard is dropped, all its options active.
EnterFails ==
    /\ pc = "enter" /\ todo["main"] # {}
    /\ pc' = "drop"
    /\ todo' = [todo EXCEPT !["main"] = options]
    /\ restores' = restores + 1
    /\ UNCHANGED <<options, on, keyboard, caught, told, entered, overtaken>>

\* The loop returns, with the application or an error: the terminal is dropped.
LoopReturns ==
    /\ pc = "loop"
    /\ pc' = "drop"
    /\ todo' = [todo EXCEPT !["main"] = options]
    /\ restores' = restores + 1
    /\ UNCHANGED <<options, on, keyboard, caught, told, entered, overtaken>>

\* A client of agents restores the full preset once more when its loop has returned
\* without an error; run_app does not.
RestoresAgain ==
    /\ pc = "drop" /\ todo["main"] = {} /\ entered /\ told = "no"
    /\ pc' = "again"
    /\ todo' = [todo EXCEPT !["main"] = Modes]
    /\ restores' = restores + 1
    /\ UNCHANGED <<options, on, keyboard, caught, told, entered, overtaken>>

\* A mutant: the hook that was there before is called first.
PanicTellsFirst ==
    /\ pc = "loop"
    /\ pc' = "panic"
    /\ told' = IF on = {} THEN "readable" ELSE "lost"
    /\ todo' = [todo EXCEPT !["main"] = Modes]
    /\ restores' = restores + 1
    /\ UNCHANGED <<options, on, keyboard, caught, entered, overtaken>>

\* The reducer or the view panics: the hook restores the full preset.
Panics ==
    /\ pc = "loop"
    /\ pc' = "panic"
    /\ todo' = [todo EXCEPT !["main"] = Modes]
    /\ restores' = restores + 1
    /\ UNCHANGED <<options, on, keyboard, caught, told, entered, overtaken>>

\* Then it calls the hook before it, which prints; then the stack unwinds.
Tells ==
    /\ pc = "panic" /\ todo["main"] = {}
    /\ pc' = "drop"
    /\ told' = IF told = "no" THEN (IF on = {} THEN "readable" ELSE "lost") ELSE told
    /\ todo' = [todo EXCEPT !["main"] = options]
    /\ restores' = restores + 1
    /\ UNCHANGED <<options, on, keyboard, caught, entered, overtaken>>

\* Work off the loop panics: the same hook runs, in a thread of no consequence.
WorkerPanics ==
    /\ pc = "loop" /\ todo["worker"] = {} /\ restores = 0
    /\ todo' = [todo EXCEPT !["worker"] = Modes]
    /\ restores' = restores + 1
    /\ UNCHANGED <<options, pc, on, keyboard, caught, told, entered, overtaken>>

\* SIGTERM, SIGHUP, SIGINT or SIGQUIT wakes the signal thread; the first is all it takes.
Signal ==
    /\ pc # "ended" /\ ~ caught
    /\ caught' = TRUE
    /\ todo' = [todo EXCEPT !["signal"] = Modes]
    /\ restores' = restores + 1
    /\ UNCHANGED <<options, pc, on, keyboard, told, entered, overtaken>>

\* A mode is left; leaving one that was never entered changes nothing, but a
\* pop takes whatever entry is on the keyboard stack of the screen.
LeaveMode(t) ==
    /\ pc # "ended"
    /\ t = "main" => pc \in {"panic", "drop", "again"}
    /\ \E m \in Modes :
        /\ First(Released, m, todo[t])
        /\ on' = on \ {m}
        /\ keyboard' = IF m = "kitty" /\ keyboard[Screen] > 0
                       THEN [keyboard EXCEPT ![Screen] = @ - 1] ELSE keyboard
        /\ todo' = [todo EXCEPT ![t] = @ \ {m}]
    /\ UNCHANGED <<options, pc, caught, told, restores, entered, overtaken>>

\* A mutant: the signal thread restores and does not exit.
EndOfMain ==
    /\ pc \in {"drop", "again"} /\ todo["main"] = {}
    /\ pc' = "ended"
    /\ UNCHANGED <<options, todo, caught, on, keyboard, told, restores, entered, overtaken>>

\* The main thread returns from main, or the signal thread exits the process.
End ==
    /\ pc # "ended"
    /\ \/ pc \in {"drop", "again"} /\ todo["main"] = {}
       \/ caught /\ todo["signal"] = {}
    /\ pc' = "ended"
    /\ UNCHANGED <<options, todo, caught, on, keyboard, told, restores, entered, overtaken>>

Next ==
    \/ EnterMode \/ Entered \/ EnterFails \/ LoopReturns \/ RestoresAgain
    \/ Panics \/ Tells \/ WorkerPanics \/ Signal \/ \E t \in Threads : LeaveMode(t)
    \/ End

\* The threads run; the application need neither return nor panic.
Fairness == WF_vars(LeaveMode("signal")) /\ WF_vars(End)

Spec == Init /\ [][Next]_vars /\ Fairness

-----------------------------------------------------------------------------
\* However the process ends (return, error, panic or signal), the terminal is
\* out of every mode: of raw mode and of what the escape sequences turned on.
\* What is left out is a signal that arrives while the guard enters the modes.
RestoredAtEnd == pc = "ended" /\ ~ overtaken => on = {}

\* A restore takes only what the guard has put on the keyboard stack: the pop
\* comes before the alternate screen is left.  It holds of a guard that is
\* whole and on the alternate screen, and of the first restore only: a panic
\* restores twice, as does the client of agents whenever it returns without an
\* error, and the second pop is from the stack of the main screen.
KeyboardKept ==
    [][keyboard'["main"] < keyboard["main"] =>
          restores > 1 \/ ~ entered \/ "alt" \notin options]_vars

\* The panic message is printed on the user's own screen, out of raw mode.
PanicReadable == told # "lost"

\* A termination signal ends the process, whatever the main thread is doing.
SignalEnds == caught ~> pc = "ended"
=============================================================================
