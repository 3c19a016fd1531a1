---------------------------- MODULE CommandPool -----------------------------
(***************************************************************************)
(* PooledCommandExecutor (rstui-runtime, run.rs): a fixed set of worker    *)
(* threads that take jobs from one queue, behind one Mutex with a Condvar. *)
(*                                                                         *)
(* A section under the mutex is one step; what the code does after it      *)
(* drops the guard (notify_one, notify_all, running the job) is a step of  *)
(* its own.  Submitting threads are the loop's, which performs one command *)
(* at a time, and one thread per timer.                                    *)
(***************************************************************************)
EXTENDS Naturals, Sequences, FiniteSets, Functions

CONSTANTS
    Workers,    \* the threads of the pool
    Jobs,       \* the closures the loop may defer
    Timers,     \* those that wait on a thread of their own first
    Panicky     \* the jobs whose work may panic

Idle == {"check", "parked", "exited", "dead"}

ASSUME PoolAssumption ==
    /\ Workers # {} /\ IsFiniteSet(Workers) /\ IsFiniteSet(Jobs)
    /\ Timers \subseteq Jobs
    /\ Jobs \cap Idle = {}
    /\ Panicky \subseteq Jobs

VARIABLES
    queue,      \* jobs pushed and not taken
    worker,     \* what each worker does: the job it runs, or a point of its loop
    asleep,     \* timers whose delay has not elapsed
    notifying,  \* jobs whose submitter has pushed and not yet notified
    loop,       \* the loop: open, closed (Drop set the flag), notified, gone
    issued,     \* jobs the loop has deferred
    sent,       \* jobs whose message reached the result channel
    lost        \* jobs that ended without a message

vars == <<queue, worker, asleep, notifying, loop, issued, sent, lost>>

closed  == loop # "open"
Parked  == {w \in Workers : worker[w] = "parked"}
Looking == {w \in Workers : worker[w] = "check"}
Busy    == {w \in Workers : worker[w] \in Jobs}
Running == {worker[w] : w \in Busy}

TypeOK ==
    /\ queue \in Seq(Jobs)
    /\ worker \in [Workers -> Idle \cup Jobs]
    /\ loop \in {"open", "closed", "notified", "gone"}
    /\ asleep \subseteq Timers /\ notifying \subseteq Jobs
    /\ issued \subseteq Jobs /\ sent \subseteq Jobs /\ lost \subseteq Jobs

(* A worker thread that cannot be spawned is ignored; at least one is up.  *)
Init ==
    /\ \E up \in SUBSET Workers :
          /\ up # {}
          /\ worker = [w \in Workers |-> IF w \in up THEN "check" ELSE "dead"]
    /\ queue = <<>>
    /\ loop = "open"
    /\ asleep = {} /\ notifying = {} /\ issued = {} /\ sent = {} /\ lost = {}

-----------------------------------------------------------------------------
(* The loop's own submit has come to its end. *)
LoopIdle == loop = "open" /\ notifying \subseteq Timers

(* The locked half of PoolShared::submit. *)
Push(j) ==
    /\ queue' = Append(queue, j)
    /\ notifying' = notifying \cup {j}

(* CommandExecutor::perform. *)
Perform(j) ==
    /\ LoopIdle /\ j \in Jobs \ (issued \cup Timers)
    /\ Push(j)
    /\ issued' = issued \cup {j}
    /\ UNCHANGED <<worker, asleep, loop, sent, lost>>

(* CommandExecutor::timer: a thread of its own sleeps through the delay. *)
StartTimer(j) ==
    /\ LoopIdle /\ j \in Timers \ issued
    /\ asleep' = asleep \cup {j}
    /\ issued' = issued \cup {j}
    /\ UNCHANGED <<queue, worker, notifying, loop, sent, lost>>

(* The delay elapsed; the timer's thread submits whatever became of the    *)
(* pool meanwhile.                                                         *)
WakeTimer(j) ==
    /\ j \in asleep
    /\ asleep' = asleep \ {j}
    /\ Push(j)
    /\ UNCHANGED <<worker, loop, issued, sent, lost>>

(* A submit that notifies only when it found the queue empty. *)
NotifyFirstOnly(j) ==
    /\ j \in notifying
    /\ notifying' = notifying \ {j}
    /\ \/ /\ Len(queue) <= 1
          /\ \E w \in Parked : worker' = [worker EXCEPT ![w] = "check"]
       \/ /\ Parked = {} \/ Len(queue) > 1
          /\ UNCHANGED worker
    /\ UNCHANGED <<queue, asleep, loop, issued, sent, lost>>

(* Condvar::notify_one: one parked worker, if there is any, looks again.   *)
Notify(j) ==
    /\ j \in notifying
    /\ notifying' = notifying \ {j}
    /\ \/ \E w \in Parked : worker' = [worker EXCEPT ![w] = "check"]
       \/ Parked = {} /\ UNCHANGED worker
    /\ UNCHANGED <<queue, asleep, loop, issued, sent, lost>>

(* Drop: the flag is set under the lock ... *)
Close ==
    /\ LoopIdle
    /\ loop' = "closed"
    /\ UNCHANGED <<queue, worker, asleep, notifying, issued, sent, lost>>

(* A Drop that wakes a single worker. *)
NotifyOneOnClose ==
    /\ loop = "closed"
    /\ loop' = "notified"
    /\ \/ \E w \in Parked : worker' = [worker EXCEPT ![w] = "check"]
       \/ Parked = {} /\ UNCHANGED worker
    /\ UNCHANGED <<queue, asleep, notifying, issued, sent, lost>>

(* ... and every parked worker is woken. *)
NotifyAll ==
    /\ loop = "closed"
    /\ loop' = "notified"
    /\ worker' = [w \in Workers |-> IF worker[w] = "parked" THEN "check" ELSE worker[w]]
    /\ UNCHANGED <<queue, asleep, notifying, issued, sent, lost>>

(* run_pooled's locals drop in reverse order: the receiver after the pool. *)
DropReceiver ==
    /\ loop = "notified"
    /\ loop' = "gone"
    /\ UNCHANGED <<queue, worker, asleep, notifying, issued, sent, lost>>

-----------------------------------------------------------------------------
(* The locked half of pool_worker: a job is taken before the flag is       *)
(* looked at, so a closed pool is drained.                                 *)
Take(w) ==
    /\ worker[w] = "check" /\ queue # <<>>
    /\ worker' = [worker EXCEPT ![w] = Head(queue)]
    /\ queue' = Tail(queue)
    /\ UNCHANGED <<asleep, notifying, loop, issued, sent, lost>>

(* A worker that looks at the flag before the queue. *)
ExitUndrained(w) ==
    /\ worker[w] = "check" /\ closed
    /\ worker' = [worker EXCEPT ![w] = "exited"]
    /\ UNCHANGED <<queue, asleep, notifying, loop, issued, sent, lost>>

Exit(w) ==
    /\ worker[w] = "check" /\ queue = <<>> /\ closed
    /\ worker' = [worker EXCEPT ![w] = "exited"]
    /\ UNCHANGED <<queue, asleep, notifying, loop, issued, sent, lost>>

(* Condvar::wait gives the lock up and parks in one step. *)
Park(w) ==
    /\ worker[w] = "check" /\ queue = <<>> /\ ~closed
    /\ worker' = [worker EXCEPT ![w] = "parked"]
    /\ UNCHANGED <<queue, asleep, notifying, loop, issued, sent, lost>>

(* A Condvar may wake a waiter nobody notified. *)
WakeSpuriously(w) ==
    /\ worker[w] = "parked"
    /\ worker' = [worker EXCEPT ![w] = "check"]
    /\ UNCHANGED <<queue, asleep, notifying, loop, issued, sent, lost>>

(* A result channel with a single place. *)
FinishOneSlot(w) ==
    /\ worker[w] \in Jobs
    /\ worker' = [worker EXCEPT ![w] = "check"]
    /\ \/ loop # "gone" /\ sent = {} /\ sent' = {worker[w]} /\ UNCHANGED lost
       \/ /\ loop = "gone" \/ sent # {}
          /\ lost' = lost \cup {worker[w]} /\ UNCHANGED sent
    /\ UNCHANGED <<queue, asleep, notifying, loop, issued>>

(* The job returns: its message is sent, in vain once the receiver is gone. *)
Finish(w) ==
    /\ worker[w] \in Jobs
    /\ worker' = [worker EXCEPT ![w] = "check"]
    /\ \/ loop # "gone" /\ sent' = sent \cup {worker[w]} /\ UNCHANGED lost
       \/ loop = "gone" /\ lost' = lost \cup {worker[w]} /\ UNCHANGED sent
    /\ UNCHANGED <<queue, asleep, notifying, loop, issued>>

(* The job panics.  It runs outside the lock, so nothing is poisoned; the  *)
(* unwinding ends its worker's thread.                                     *)
Panic(w) ==
    /\ worker[w] \in Panicky
    /\ worker' = [worker EXCEPT ![w] = "dead"]
    /\ lost' = lost \cup {worker[w]}
    /\ UNCHANGED <<queue, asleep, notifying, loop, issued, sent>>

-----------------------------------------------------------------------------
Submitters ==
    \/ \E j \in Jobs : Perform(j) \/ StartTimer(j) \/ WakeTimer(j) \/ Notify(j)
    \/ Close \/ NotifyAll \/ DropReceiver

Look(w) == Take(w) \/ Exit(w) \/ Park(w)
Work(w) == Finish(w) \/ Panic(w)

(* Every thread is at its end: the program has moved on. *)
Over == loop = "gone" /\ UNCHANGED vars

Next == Submitters \/ (\E w \in Workers : Look(w) \/ WakeSpuriously(w) \/ Work(w)) \/ Over

Spec == Init /\ [][Next]_vars

(* Every thread is scheduled, delays elapse and jobs end.  The loop need   *)
(* not defer anything, nor return.                                         *)
Fairness ==
    /\ \A j \in Jobs : WF_vars(WakeTimer(j)) /\ WF_vars(Notify(j))
    /\ WF_vars(NotifyAll) /\ WF_vars(DropReceiver)
    /\ \A w \in Workers : WF_vars(Look(w)) /\ WF_vars(Work(w))

FairSpec == Spec /\ Fairness

-----------------------------------------------------------------------------
(* No wakeup is lost: while a worker is parked, each queued job has a      *)
(* notification on its way or a worker about to look.  (One notification   *)
(* per push, sent after the lock is dropped; a notified worker may find    *)
(* its job taken by a busy one that came back first.)                      *)
WorkConserving ==
    Parked # {} => Len(queue) <= Cardinality(notifying) + Cardinality(Looking)

(* Every job the loop deferred is in exactly one place: its timer, the     *)
(* queue, one worker, sent or lost.                                        *)
JobInOnePlace ==
    /\ asleep \cup Range(queue) \cup Running \cup sent \cup lost = issued
    /\ Cardinality(asleep) + Len(queue) + Cardinality(Busy)
           + Cardinality(sent) + Cardinality(lost) = Cardinality(issued)

(* A job that was queued before the pool closed is run to its end, also    *)
(* when the pool closes before a worker comes to it, unless panics have    *)
(* ended every worker: none is replaced.                                   *)
JobServed ==
    \A j \in Jobs :
        j \in Range(queue) /\ ~closed
            ~> j \in sent \cup lost \/ \A w \in Workers : worker[w] = "dead"

(* "They exit promptly once Drop closes the pool": no worker stays parked. *)
WorkersRetire ==
    closed ~> \A w \in Workers : worker[w] \in {"exited", "dead"}

(* The pool is an off-loop executor. *)
fate ==
    [j \in Jobs |-> IF j \in sent THEN "sent"
                    ELSE IF j \in lost THEN "lost"
                    ELSE IF j \in issued THEN "deferred" ELSE "new"]

Exec == INSTANCE Executor WITH over <- closed

ImplementsExecutor == Exec!Spec
=============================================================================
