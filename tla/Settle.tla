------------------------------- MODULE Settle -------------------------------
(***************************************************************************)
(* The reducer core every loop of rstui-runtime shares: Cmd::dispatch      *)
(* (cmd.rs) and settle (run.rs).                                           *)
(*                                                                         *)
(* A command is a sequence of effects.  "work" stands for perform and for  *)
(* both timers: each hands a closure to the executor, which either runs it *)
(* now and yields its message (InlineExecutor) or takes it off the loop.   *)
(* A message is the number of the effect that produces it, so that the     *)
(* order of effects and the order of messages can be compared.             *)
(*                                                                         *)
(* What update does to the application is not modelled: it may return any  *)
(* command of Commands.  The modules that extend this one say when a       *)
(* settle begins and what follows it.                                      *)
(***************************************************************************)
EXTENDS Integers, Sequences, FiniteSets

CONSTANTS
    Inline,       \* TRUE: InlineExecutor; FALSE: an off-loop executor
    Commands,     \* the commands init and update may return
    Budget,       \* DEFAULT_COMMAND_BUDGET
    MaxMessages   \* bound of the model: "work" effects the app may return

Effects == {"quit", "work"}

ASSUME SettleAssumption ==
    /\ Inline \in BOOLEAN
    /\ Commands \subseteq Seq(Effects)
    /\ <<>> \in Commands
    /\ Budget \in Nat \ {0}
    /\ MaxMessages \in Nat

VARIABLES
    todo,      \* effects of the command being dispatched that are left
    pending,   \* settle's queue of messages, oldest first
    steps,     \* updates of this settle so far
    running,   \* FALSE once a quit settled
    issued,    \* how many "work" effects reached the executor
    offloop    \* messages whose work runs off the loop

settleVars == <<todo, pending, steps, running, issued, offloop>>

SettleTypeOK ==
    /\ todo \in Seq(Effects)
    /\ pending \in Seq(Nat)
    /\ steps \in 0..Budget
    /\ running \in BOOLEAN
    /\ issued \in Nat
    /\ offloop \subseteq Nat

SettleInit ==
    /\ pending = <<>>
    /\ steps = 0
    /\ running = TRUE
    /\ issued = 0
    /\ offloop = {}

-----------------------------------------------------------------------------
(* Commands small enough for the bound: once it is spent the app returns   *)
(* only commands without effects.                                          *)
Offered == {cmd \in Commands : issued + Len(cmd) <= MaxMessages}

(* The entry of settle: dispatch cmd with an empty queue of messages.      *)
Submit(cmd) ==
    /\ todo' = cmd
    /\ pending' = <<>>
    /\ steps' = 0
    /\ UNCHANGED <<running, issued, offloop>>

(* Effect::Quit: the rest of the command and every queued message are      *)
(* dropped; settle returns Quit.                                           *)
DispatchQuit ==
    /\ todo # <<>> /\ Head(todo) = "quit"
    /\ todo' = <<>>
    /\ pending' = <<>>
    /\ running' = FALSE
    /\ UNCHANGED <<steps, issued, offloop>>

(* Folding depth first: a message goes to the front of the queue. *)
DispatchWorkDepthFirst ==
    /\ todo # <<>> /\ Head(todo) = "work"
    /\ todo' = Tail(todo)
    /\ issued' = issued + 1
    /\ \/ /\ Inline
          /\ pending' = <<issued + 1>> \o pending /\ UNCHANGED offloop
       \/ /\ ~Inline
          /\ offloop' = offloop \cup {issued + 1} /\ UNCHANGED pending
    /\ UNCHANGED <<steps, running>>

(* Effect::Perform and Effect::Timer: Some(message) joins the queue, None  *)
(* leaves the loop.                                                        *)
DispatchWork ==
    /\ todo # <<>> /\ Head(todo) = "work"
    /\ todo' = Tail(todo)
    /\ issued' = issued + 1
    /\ \/ /\ Inline
          /\ pending' = Append(pending, issued + 1) /\ UNCHANGED offloop
       \/ /\ ~Inline
          /\ offloop' = offloop \cup {issued + 1} /\ UNCHANGED pending
    /\ UNCHANGED <<steps, running>>

(* One turn of settle's loop: the oldest message is folded and update      *)
(* returns cmd.                                                            *)
Fold(cmd) ==
    /\ todo = <<>> /\ pending # <<>>
    /\ steps < Budget
    /\ todo' = cmd
    /\ pending' = Tail(pending)
    /\ steps' = steps + 1
    /\ UNCHANGED <<running, issued, offloop>>

(* The assertion settle panics on. *)
OverBudget == todo = <<>> /\ pending # <<>> /\ steps = Budget

(* The queue is empty: settle returns Running. *)
Settled == todo = <<>> /\ pending = <<>>
=============================================================================
