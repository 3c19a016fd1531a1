---------------------------- MODULE MCLifecycles ----------------------------
(***************************************************************************)
(* Instances of TerminalLifecycle and of PluginLink for TLC: what the end  *)
(* of a client has to undo, in the terminal and in its processes.  A       *)
(* behaviour is of one of the two; the other rests at its end, where it    *)
(* has no step left.                                                       *)
(***************************************************************************)
EXTENDS TerminalLifecycle, TLC

CONSTANTS Stdio, Shm, Room, MaxTraffic

\* A plugin is launched with --shm or without.
ASSUME KindsAssumption == Stdio \cap Shm = {}

VARIABLES launched, queue, link, shutting, reader, running, closed, inbox, outbox, said,
          posted, subs, mail, applied, life, shutdownSent, sent

links == <<launched, queue, link, shutting, reader, running, closed, inbox, outbox, said,
           posted, subs, mail, applied, life, shutdownSent, sent>>

L == INSTANCE PluginLink

\* The full-screen preset, a full screen without the mouse, an inline tool, none.
Presets == {Modes, Modes \ {"mouse"}, Modes \ {"alt", "mouse"}, {}}

\* Either plugin alone with room for a conversation, and both together.
Launches == ({"pipe"} :> 3) @@ ({"ring"} :> 3) @@ ({"pipe", "ring"} :> 1)

NoLinks ==
    /\ launched = {} /\ life = "exited" /\ shutdownSent = FALSE /\ sent = 0
    /\ queue = [p \in L!Plugins |-> <<>>]
    /\ inbox = queue /\ outbox = queue /\ said = queue /\ applied = queue
    /\ link = [p \in L!Plugins |-> "gone"]
    /\ shutting = [p \in L!Plugins |-> FALSE]
    /\ reader = shutting /\ running = shutting /\ closed = shutting
    /\ posted = <<>> /\ subs = 0 /\ mail = {}

NoTerminal ==
    /\ options = {} /\ pc = "ended" /\ todo = [t \in Threads |-> {}]
    /\ on = {} /\ keyboard = [main |-> 0, alt |-> 0]
    /\ caught = FALSE /\ told = "no" /\ restores = 0 /\ entered = FALSE /\ overtaken = FALSE

MCInit == (Init /\ NoLinks) \/ (L!Init /\ NoTerminal)

MCNext ==
    \/ Next /\ UNCHANGED links
    \/ L!Next /\ UNCHANGED vars

MCSpec == MCInit /\ [][MCNext]_<<vars, links>> /\ Fairness /\ L!Fairness

\* A plugin's actions are applied in order and once each, none left out before the
\* first malformed one, and over stdio none after it (the links of plugin/host.rs).
ActionsInOrder == L!ActionsInOrder

\* What a plugin said before it ended is applied as long as the application runs.
LastWordsHeard == L!LastWordsHeard

\* A client that quits ends, unless one of its --shm links can not.
ClientExits == L!ClientExits
=============================================================================
