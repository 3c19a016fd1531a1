----------------------------- MODULE AcpDriver -----------------------------
(***************************************************************************)
(* The driver task of the ACP client (acp/driver.rs): one task for each    *)
(* agent process, between the agent's JSON-RPC connection and the two      *)
(* channels of its DriverHandle.  It brings the connection up              *)
(* (initialize, session/new, authenticate), then takes one command of the  *)
(* application after the other.  A prompt runs in a task of its own; a     *)
(* change of model, mode or session is awaited in the command loop.  A     *)
(* permission request of the agent is handled by a task that enters its id *)
(* in perm_map, tells the application and waits for the choice.            *)
(*                                                                         *)
(* The agent is any agent that speaks the protocol: it may refuse, fail or *)
(* vanish.  An event that the application only draws (text, tool calls,    *)
(* plans, a status line, the acknowledgement of a change) is a "note", and *)
(* notes may come at any time.                                             *)
(***************************************************************************)
EXTENDS Naturals, Sequences, FiniteSets

CONSTANTS
    MaxConns,    \* bound: agents connected to in one behaviour
    MaxAsks,     \* bound: permission requests of one agent
    Overlap      \* whether the JSON-RPC library runs a handler, and hands out
                 \* replies, while an earlier handler still waits

Conns == 1 .. MaxConns

ASSUME ConnsAssumption == MaxConns \in Nat /\ MaxAsks \in Nat

VARIABLES
    stage,       \* where run() stands, for each connection
    cmds,        \* the commands sent and not yet received (cmd_tx, cmd_rx)
    events,      \* the events sent and not yet received (ev_tx, ev_rx)
    turns,       \* the prompt tasks that wait for the agent's reply
    perms,       \* perm_map: the requests whose handlers wait for a choice
    asked,       \* perm_ids: the requests there have been
    held         \* whether some DriverHandle still exists: the channels' other ends

driverVars == <<stage, cmds, events, turns, perms, asked, held>>

Commands == [kind : {"prompt", "cancel", "set", "auth", "shutdown"}]
    \cup [kind : {"answer"}, id : 1 .. MaxAsks, shown : Conns]

Events == [kind : {"note", "ready", "auth", "turnEnded", "error", "disconnected"}]
    \cup [kind : {"permission"}, id : 1 .. MaxAsks]

Note == [kind |-> "note"]
Ready == [kind |-> "ready"]
Auth == [kind |-> "auth"]
TurnEnded == [kind |-> "turnEnded"]
Error == [kind |-> "error"]
Disconnected == [kind |-> "disconnected"]

Stages == {"none", "spawn", "init", "session", "auth", "authing", "ready", "setting", "gone"}
Connected == {"init", "session", "auth", "authing", "ready", "setting"}

DriverTypeOK ==
    /\ stage \in [Conns -> Stages]
    /\ cmds \in [Conns -> Seq(Commands)]
    /\ events \in [Conns -> Seq(Events)]
    /\ turns \in [Conns -> Nat]
    /\ perms \in [Conns -> SUBSET (1 .. MaxAsks)]
    /\ asked \in [Conns -> 0 .. MaxAsks]
    /\ held \in [Conns -> BOOLEAN]

DriverInit ==
    /\ stage = [c \in Conns |-> "none"]
    /\ cmds = [c \in Conns |-> <<>>]
    /\ events = [c \in Conns |-> <<>>]
    /\ turns = [c \in Conns |-> 0]
    /\ perms = [c \in Conns |-> {}]
    /\ asked = [c \in Conns |-> 0]
    /\ held = [c \in Conns |-> FALSE]

\* An event sent when no handle is left is lost: the receiver is gone.
Emit(c, es) == events' = IF held[c] THEN [events EXCEPT ![c] = @ \o es] ELSE events

Go(c, s) == stage' = [stage EXCEPT ![c] = s]

\* run() returns, with its error or without: the agent is killed, the
\* handlers are dropped with the connection, Disconnected is the task's word.
Close(c, es) ==
    /\ Go(c, "gone")
    /\ perms' = [perms EXCEPT ![c] = {}]
    /\ Emit(c, es \o <<Disconnected>>)
    /\ UNCHANGED <<cmds, turns, asked, held>>

\* The process cannot be started, a reply of the handshake is an error or
\* does not come in time, or the connection breaks.
Fail(c) == stage[c] \in Connected \cup {"spawn"} /\ Close(c, <<Error>>)

\* The reply to a request awaited in run(): it comes when no handler blocks
\* the library.
Replied(c) == Overlap \/ perms[c] = {}

Spawn(c) ==
    /\ stage[c] = "spawn"
    /\ Go(c, "init")
    /\ UNCHANGED <<cmds, events, turns, perms, asked, held>>

Initialized(c) ==
    /\ stage[c] = "init"
    /\ Go(c, "session") /\ Emit(c, <<Ready>>)
    /\ UNCHANGED <<cmds, turns, perms, asked, held>>

SessionStarts(c) ==
    /\ stage[c] = "session"
    /\ Go(c, "ready") /\ Emit(c, <<Ready>>)
    /\ UNCHANGED <<cmds, turns, perms, asked, held>>

SessionRefused(c) ==
    /\ stage[c] = "session"
    /\ Go(c, "auth") /\ Emit(c, <<Auth>>)
    /\ UNCHANGED <<cmds, turns, perms, asked, held>>

Authenticated(c) ==
    /\ stage[c] = "authing"
    /\ Go(c, "session")
    /\ UNCHANGED <<cmds, events, turns, perms, asked, held>>

AuthFails(c) ==
    /\ stage[c] = "authing"
    /\ Go(c, "auth") /\ Emit(c, <<Error, Auth>>)
    /\ UNCHANGED <<cmds, turns, perms, asked, held>>

\* The command at the head of the channel.
NextIs(c, kind) == cmds[c] # <<>> /\ Head(cmds[c]).kind = kind
Received(c) == cmds' = [cmds EXCEPT ![c] = Tail(@)]

\* The loop that waits for a sign-in: every other command is thrown away.
AuthTakes(c) ==
    /\ stage[c] = "auth"
    /\ NextIs(c, "auth")
    /\ Received(c)
    /\ Go(c, "authing")
    /\ UNCHANGED <<events, turns, perms, asked, held>>

AuthIgnores(c) ==
    /\ stage[c] = "auth"
    /\ \E kind \in {"prompt", "cancel", "set", "answer"} : NextIs(c, kind)
    /\ Received(c)
    /\ UNCHANGED <<stage, events, turns, perms, asked, held>>

\* A mutant: the end of the channel goes unnoticed.
StopsWhenTold(c) ==
    /\ stage[c] \in {"auth", "ready"}
    /\ NextIs(c, "shutdown")
    /\ Close(c, <<>>)

\* Shutdown, or every sender dropped: both loops end.
Stops(c) ==
    /\ stage[c] \in {"auth", "ready"}
    /\ NextIs(c, "shutdown") \/ (cmds[c] = <<>> /\ ~ held[c])
    /\ Close(c, <<>>)

TakePrompt(c) ==
    /\ stage[c] = "ready"
    /\ NextIs(c, "prompt")
    /\ Received(c)
    /\ turns' = [turns EXCEPT ![c] = @ + 1]
    /\ UNCHANGED <<stage, events, perms, asked, held>>

\* Cancel is a notification; Authenticate is out of place here.
TakeNothing(c) ==
    /\ stage[c] = "ready"
    /\ NextIs(c, "cancel") \/ NextIs(c, "auth")
    /\ Received(c)
    /\ UNCHANGED <<stage, events, turns, perms, asked, held>>

TakeSet(c) ==
    /\ stage[c] = "ready"
    /\ NextIs(c, "set")
    /\ Received(c)
    /\ Go(c, "setting")
    /\ UNCHANGED <<events, turns, perms, asked, held>>

TakeAnswer(c) ==
    /\ stage[c] = "ready"
    /\ NextIs(c, "answer")
    /\ Received(c)
    /\ perms' = [perms EXCEPT ![c] = @ \ {Head(cmds[c]).id}]
    /\ UNCHANGED <<stage, events, turns, asked, held>>

\* The agent answers session/set_model, set_mode or load, with or without error.
SetReplied(c) ==
    /\ stage[c] = "setting" /\ Replied(c)
    /\ Go(c, "ready")
    /\ \E es \in {<<>>, <<Error>>} : Emit(c, es)
    /\ UNCHANGED <<cmds, turns, perms, asked, held>>

\* An agent asks, in a turn or while it loads a session.
AgentAsks(c) ==
    /\ stage[c] \in {"ready", "setting"}
    /\ asked[c] < MaxAsks
    /\ Replied(c)
    /\ asked' = [asked EXCEPT ![c] = @ + 1]
    /\ perms' = [perms EXCEPT ![c] = @ \cup {asked'[c]}]
    /\ Emit(c, <<[kind |-> "permission", id |-> asked'[c]]>>)
    /\ UNCHANGED <<stage, cmds, turns, held>>

\* A mutant: the end of a turn is not told.
TurnEndsSilently(c) ==
    /\ stage[c] \in {"ready", "setting"} /\ turns[c] > 0 /\ perms[c] = {}
    /\ turns' = [turns EXCEPT ![c] = @ - 1]
    /\ UNCHANGED <<stage, events, cmds, perms, asked, held>>

\* It ends the turn when its requests are answered.
TurnEnds(c) ==
    /\ stage[c] \in {"ready", "setting"} /\ turns[c] > 0 /\ perms[c] = {}
    /\ turns' = [turns EXCEPT ![c] = @ - 1]
    /\ Emit(c, <<TurnEnded>>)
    /\ UNCHANGED <<stage, cmds, perms, asked, held>>

\* A turn the agent refuses, or that the end of the connection cuts off.
TurnFails(c) ==
    /\ turns[c] > 0 /\ Replied(c)
    /\ turns' = [turns EXCEPT ![c] = @ - 1]
    /\ Emit(c, <<Error>>)
    /\ UNCHANGED <<stage, cmds, perms, asked, held>>

\* Output of the agent, or a status line of the driver's own, when nothing else
\* waits to be received (a bound).
AgentNotes(c) ==
    /\ stage[c] \in Connected \cup {"spawn"}
    /\ held[c] /\ events[c] = <<>>
    /\ Emit(c, <<Note>>)
    /\ UNCHANGED <<stage, cmds, turns, perms, asked, held>>

\* What the task goes on with, when the agent answers what it is asked.
DriverWork(c) ==
    \/ Spawn(c) \/ Initialized(c) \/ SessionStarts(c)
    \/ Authenticated(c)
    \/ AuthTakes(c) \/ AuthIgnores(c) \/ Stops(c)
    \/ TakePrompt(c) \/ TakeNothing(c) \/ TakeSet(c) \/ TakeAnswer(c)
    \/ SetReplied(c)

\* What the agent and the connection may do to it.
AgentWork(c) ==
    \/ Fail(c) \/ SessionRefused(c) \/ AuthFails(c)
    \/ AgentAsks(c) \/ TurnEnds(c) \/ TurnFails(c)

=============================================================================
