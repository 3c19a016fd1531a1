----------------------------- MODULE AcpClient -----------------------------
(***************************************************************************)
(* The ACP client: the application (app.rs), which holds the handle of one *)
(* driver at a time and shows one permission request at a time, the        *)
(* drivers it has started, and the subscriptions between them.  A          *)
(* subscription is a blocking task that receives one event from the driver *)
(* it was made for and posts it to the reducer; folding the event makes    *)
(* the next subscription, for the driver the application holds then.       *)
(*                                                                         *)
(* The user may prompt, cancel, change the model, sign in, answer, go to   *)
(* the agent picker and connect to another agent, also while one is        *)
(* connected: the first driver is then dropped, not told.  Overlays and    *)
(* the open permission request take the keys, in that order.  An event     *)
(* from a driver the application has left is folded like any other.        *)
(***************************************************************************)
EXTENDS AcpDriver

CONSTANT MaxCmds     \* bound: commands of the user that reach a driver, answers aside

VARIABLES
    driver,      \* ChatApp.driver: the connection it holds, 0 for none
    subs,        \* subscriptions that block in recv, for each connection
    mail,        \* events received and not yet folded, in any order
    prompt,      \* ChatApp.pending_permission: its id, and the agent that asked
    streaming,   \* ChatApp.streaming
    overlays,    \* the pickers open over the screen
    screen,
    signIn,      \* auth_methods is not empty
    opened,      \* connections made so far
    spent,       \* commands sent so far
    quitting,
    switched,    \* history: the user has left a driver that still ran
    dropped      \* history: a prompt was thrown away by a driver waiting for a sign-in

appVars == <<driver, subs, mail, prompt, streaming, overlays, screen, signIn,
             opened, spent, quitting, switched, dropped>>
vars == <<driverVars, appVars>>

Requests == {[from |-> c, id |-> i] : c \in Conns, i \in 1 .. MaxAsks}

TypeOK ==
    /\ DriverTypeOK
    /\ driver \in 0 .. MaxConns
    /\ subs \in [Conns -> Nat]
    /\ mail \subseteq [from : Conns, event : Events]
    /\ prompt \subseteq Requests /\ Cardinality(prompt) =< 1
    /\ overlays \subseteq {"set", "auth"}
    /\ screen \in {"picker", "chat"}
    /\ opened \in 0 .. MaxConns /\ spent \in 0 .. MaxCmds
    /\ {streaming, signIn, quitting, switched, dropped} \subseteq BOOLEAN

Init ==
    /\ DriverInit
    /\ driver = 0
    /\ subs = [c \in Conns |-> 0]
    /\ mail = {} /\ prompt = {} /\ overlays = {}
    /\ screen = "picker"
    /\ opened = 0 /\ spent = 0
    /\ streaming = FALSE /\ signIn = FALSE /\ quitting = FALSE
    /\ switched = FALSE /\ dropped = FALSE

(***************************************************************************)
(* Steps of the drivers, and of the tasks that receive from them.          *)
(***************************************************************************)

AppStays(c) ==
    /\ dropped' = (dropped \/ (stage[c] = "auth" /\ cmds'[c] # cmds[c] /\ NextIs(c, "prompt")))
    /\ UNCHANGED <<driver, subs, mail, prompt, streaming, overlays, screen, signIn,
                   opened, spent, quitting, switched>>

DriverActs(c) == DriverWork(c) /\ AppStays(c)

\* Two bounds.  Once the application has quit, nobody folds an event, and of the
\* drivers only the way to their end is followed.  Notes of the driver it holds
\* change nothing when they are folded: only those of one it has left may come.
AgentActs(c) ==
    /\ ~ quitting
    /\ AgentWork(c) \/ (driver # c /\ AgentNotes(c))
    /\ AppStays(c)

\* A handle is one the application holds or one in a waiting subscription.
Hold(d, s) == held' = [c \in Conns |-> d = c \/ s[c] > 0]

\* What recv yields: the first event, or Disconnected when no sender is left.
Deliver(c, e) ==
    /\ mail' = mail \cup {[from |-> c, event |-> e]}
    /\ subs' = [subs EXCEPT ![c] = @ - 1]
    /\ Hold(driver, subs')
    /\ UNCHANGED <<driver, prompt, streaming, overlays, screen, signIn, opened, spent,
                   quitting, switched, dropped>>
    /\ UNCHANGED <<stage, cmds, turns, perms, asked>>

Receive(c) ==
    /\ subs[c] > 0 /\ events[c] # <<>> /\ ~ quitting
    /\ [from |-> c, event |-> Head(events[c])] \notin mail
    /\ events' = [events EXCEPT ![c] = Tail(@)]
    /\ Deliver(c, Head(events[c]))

ReceiveEnd(c) ==
    /\ subs[c] > 0 /\ events[c] = <<>> /\ ~ quitting
    /\ stage[c] = "gone" /\ turns[c] = 0
    /\ [from |-> c, event |-> Disconnected] \notin mail
    /\ UNCHANGED events
    /\ Deliver(c, Disconnected)

(***************************************************************************)
(* Folding an event: handle_acp, then the next subscription.               *)
(***************************************************************************)

\* The rest of handle_acp: the spinner, the sign-in picker, the screen, the driver.
Reflect(m) ==
    /\ streaming' = (streaming /\ m.event.kind \notin {"turnEnded", "error", "disconnected"})
    /\ signIn' = (signIn \/ m.event.kind = "auth")
    /\ overlays' = IF m.event.kind = "auth" THEN overlays \cup {"auth"} ELSE overlays
    /\ screen' = CASE m.event.kind = "ready" -> "chat"
                   [] m.event.kind = "disconnected" -> "picker"
                   [] OTHER -> screen
    /\ driver' = IF m.event.kind = "disconnected" THEN 0 ELSE driver

Asking(m) == {[from |-> m.from, id |-> m.event.id]}

\* A mutant: an error closes the request that is shown.
ShowErrorCloses(m) ==
    /\ prompt' = CASE m.event.kind = "permission" -> Asking(m)
                   [] m.event.kind = "error" -> {}
                   [] OTHER -> prompt
    /\ Reflect(m)

\* A permission request takes the place of one that is open.
Show(m) ==
    /\ prompt' = IF m.event.kind = "permission" THEN Asking(m) ELSE prompt
    /\ Reflect(m)

\* A mutant: an error ends the subscription.
ResubscribeUnlessError(d, e) ==
    IF d = 0 \/ e \in {Disconnected, Error} THEN subs ELSE [subs EXCEPT ![d] = @ + 1]

\* The next subscription, for the driver d held now, unless e was the last event.
Resubscribe(d, e) ==
    IF d = 0 \/ e = Disconnected THEN subs ELSE [subs EXCEPT ![d] = @ + 1]

FoldEvent(m) ==
    /\ m \in mail /\ ~ quitting
    /\ mail' = mail \ {m}
    /\ Show(m)
    /\ subs' = Resubscribe(driver', m.event)
    /\ Hold(driver', subs')
    /\ UNCHANGED <<stage, cmds, events, turns, perms, asked>>
    /\ UNCHANGED <<opened, spent, quitting, switched, dropped>>

(***************************************************************************)
(* The user.                                                               *)
(***************************************************************************)

\* The keys reach the screen when nothing is open over it.
KeysFree == overlays = {} /\ prompt = {} /\ ~ quitting

\* DriverHandle::send: a dead driver drops the command.
Send(cmd) ==
    /\ cmds' = IF driver = 0 \/ stage[driver] = "gone" THEN cmds
               ELSE [cmds EXCEPT ![driver] = Append(@, cmd)]
    /\ UNCHANGED <<stage, events, turns, perms, asked, held>>

Spend == spent < MaxCmds /\ spent' = spent + 1

\* A prompt, typed, or submitted by a click on a form, which no overlay takes.
Prompt ==
    /\ ~ quitting /\ driver # 0 /\ Spend
    /\ streaming' = TRUE
    /\ Send([kind |-> "prompt"])
    /\ UNCHANGED <<driver, subs, mail, prompt, overlays, screen, signIn, opened,
                   quitting, switched, dropped>>

Cancel ==
    /\ KeysFree /\ screen = "chat" /\ driver # 0 /\ Spend
    /\ Send([kind |-> "cancel"])
    /\ UNCHANGED <<driver, subs, mail, prompt, streaming, overlays, screen, signIn, opened,
                   quitting, switched, dropped>>

\* /model, /mode and /resume; /login
OpenOverlay ==
    /\ KeysFree /\ screen = "chat"
    /\ \/ overlays' = {"set"} /\ spent < MaxCmds
       \/ overlays' = {"auth"} /\ signIn /\ spent < MaxCmds
    /\ UNCHANGED <<driverVars, driver, subs, mail, prompt, streaming, screen, signIn, opened,
                   spent, quitting, switched, dropped>>

\* The pickers: the model, mode and session pickers come before the sign-in.
Front == IF "set" \in overlays THEN "set" ELSE "auth"

Pick ==
    /\ overlays # {} /\ ~ quitting /\ Spend
    /\ overlays' = overlays \ {Front}
    /\ Send([kind |-> Front])
    /\ UNCHANGED <<driver, subs, mail, prompt, streaming, screen, signIn, opened,
                   quitting, switched, dropped>>

Dismiss ==
    /\ overlays # {} /\ ~ quitting
    /\ overlays' = overlays \ {Front}
    /\ UNCHANGED <<driverVars, driver, subs, mail, prompt, streaming, screen, signIn, opened,
                   spent, quitting, switched, dropped>>

\* Enter or Esc at the permission request.
Answer ==
    /\ prompt # {} /\ overlays = {} /\ ~ quitting
    /\ prompt' = {}
    /\ \E r \in prompt : Send([kind |-> "answer", id |-> r.id, shown |-> r.from])
    /\ UNCHANGED <<driver, subs, mail, streaming, overlays, screen, signIn, opened, spent,
                   quitting, switched, dropped>>

\* /agents, /new
Agents ==
    /\ KeysFree /\ screen = "chat" /\ opened < MaxConns
    /\ screen' = "picker"
    /\ UNCHANGED <<driverVars, driver, subs, mail, prompt, streaming, overlays, signIn, opened,
                   spent, quitting, switched, dropped>>

Connect(c) ==
    /\ screen' = "chat"
    /\ driver' = c
    /\ opened' = c
    /\ subs' = [subs EXCEPT ![c] = @ + 1]
    /\ Go(c, "spawn")
    /\ Hold(c, subs')
    /\ switched' = (switched \/ driver # 0)
    /\ UNCHANGED <<cmds, events, turns, perms, asked>>
    /\ UNCHANGED <<mail, prompt, streaming, overlays, signIn, spent, quitting, dropped>>

\* A mutant: the picker takes its keys before the open request does.
PickAgentUnder ==
    /\ overlays = {} /\ ~ quitting /\ screen = "picker" /\ opened < MaxConns
    /\ Connect(opened + 1)

PickAgent ==
    /\ KeysFree /\ screen = "picker" /\ opened < MaxConns
    /\ Connect(opened + 1)

\* Messages are not folded any more; the drivers are told or find out.
Quit ==
    /\ ~ quitting
    /\ quitting' = TRUE
    /\ Send([kind |-> "shutdown"])
    /\ UNCHANGED <<driver, subs, mail, prompt, streaming, overlays, screen, signIn, opened,
                   spent, switched, dropped>>

User == Prompt \/ Cancel \/ OpenOverlay \/ Pick \/ Dismiss \/ Answer \/ Agents \/ PickAgent \/ Quit

Next ==
    \/ \E c \in Conns : DriverActs(c) \/ AgentActs(c) \/ Receive(c) \/ ReceiveEnd(c)
    \/ \E m \in mail : FoldEvent(m)
    \/ User

Spec == Init /\ [][Next]_vars

(***************************************************************************)
(* The drivers and the subscriptions are tasks of a fair runtime, the      *)
(* reducer folds what it is sent, and the agents answer what they are      *)
(* asked (a reply or an error; the handshake has its timeout besides).     *)
(* The user closes the pickers and answers the request on the screen.      *)
(***************************************************************************)
Fairness ==
    /\ \A c \in Conns : WF_vars(DriverActs(c))
    /\ \A c \in Conns : WF_vars(Receive(c) \/ ReceiveEnd(c))
    /\ \A c \in Conns : WF_vars(\E m \in mail : m.from = c /\ FoldEvent(m))
    /\ WF_vars(Answer) /\ WF_vars(Dismiss)

FairSpec == Spec /\ Fairness

(***************************************************************************)
(* Properties.                                                             *)
(***************************************************************************)

\* What the driver d has said and the application has not folded.
Unread(d) == {events[d][i] : i \in DOMAIN events[d]}
    \cup {m.event : m \in {x \in mail : x.from = d}}

\* The connected driver is always listened to: a subscription waits for its
\* next event, or the event it received has still to be folded (acp_subscription,
\* re-armed by the reducer, never lapses while there is a driver).  And each driver
\* by one subscription only, as two would take events in order and post them in
\* any order: as long as the user leaves an agent only when it is gone.
OneListener ==
    /\ driver # 0 => subs[driver] > 0 \/ \E m \in mail : m.from = driver
    /\ ~ switched =>
           \A c \in Conns : subs[c] + Cardinality({m \in mail : m.from = c}) =< 1

\* A choice goes to the handler of the request that was on the screen when it was made.
AnswerTo(c) == cmds[c] # <<>> /\ perms'[c] # perms[c] /\ stage'[c] = "ready" /\ cmds'[c] = Tail(cmds[c])
RightAnswer == [][\A c \in Conns : AnswerTo(c) => Head(cmds[c]).shown = c]_vars
RightAnswerAlone ==
    [][~ switched => \A c \in Conns : AnswerTo(c) => Head(cmds[c]).shown = c]_vars

\* The newest request an agent waits on is on its way to the user, on the
\* screen, or answered and on its way back.
RequestTracked ==
    ~ switched => \A c \in Conns : c = driver /\ asked[c] \in perms[c] =>
        \/ [kind |-> "permission", id |-> asked[c]] \in Unread(c)
        \/ [from |-> c, id |-> asked[c]] \in prompt
        \/ \E i \in DOMAIN cmds[c] : cmds[c][i].kind = "answer" /\ cmds[c][i].id = asked[c]

\* The spinner turns while something is owed that will stop it: a prompt to
\* be sent, a turn to be ended, or the event that says so.
SpinnerOwed ==
    streaming /\ ~ switched /\ ~ dropped =>
        /\ driver # 0
        /\ \/ turns[driver] > 0
           \/ \E i \in DOMAIN cmds[driver] : cmds[driver][i].kind = "prompt"
           \/ Unread(driver) \cap {TurnEnded, Error, Disconnected} # {}
           \/ stage[driver] = "gone"

\* A driver no handle leads to stops, and its agent with it, when its
\* library does not keep replies back (Overlap).
Released == \A c \in Conns : (stage[c] # "none" /\ ~ held[c]) ~> (stage[c] = "gone")

\* Every request is answered, or its connection ends: what lets the agent go on.
\* In no run: a second request takes the place of an open one (README).
RequestAnswered ==
    \A c \in Conns, i \in 1 .. MaxAsks : (i \in perms[c]) ~> (i \notin perms[c] \/ quitting)

=============================================================================
