------------------------------ MODULE PluginHost ----------------------------
(***************************************************************************)
(* PluginHost::run_plugin (rstui-plugin-host, host.rs): one run of a       *)
(* plugin, from its spawn to the report.  The host's thread, the thread    *)
(* that reads the plugin's stdout into a bounded channel, the plugin and   *)
(* the clock are concurrent.                                               *)
(***************************************************************************)
EXTENDS PluginProcess, Functions

CONSTANTS
    Allowed,    \* the requests the policy allows
    InboxRoom,  \* frames the reader's channel holds
    Manifests   \* the sets of hooks a manifest may subscribe to

Hooks == {"session_start", "before_capability", "session_end"}

ASSUME HostAssumption ==
    Allowed \subseteq Asks /\ InboxRoom \in Nat \ {0} /\ Manifests \subseteq SUBSET Hooks

VARIABLES
    hooks,      \* the hooks the manifest subscribes to
    host,       \* where run_plugin is
    armed,      \* its recv has looked at the clock and waits in the channel
    late,       \* the deadline has passed
    lateEffects,        \* effects run since then
    hookId,     \* the id of the next veto dispatch
    asked, word, effect, report,    \* as in Mediation
    performed,  \* the ids of the calls whose effect was run
    result,     \* how the run ended
    reader,     \* the reader thread: none, reading, sending or done
    held,       \* what it is sending
    inbox       \* what is in its channel

runVars    == <<hooks, late>>
callVars   == <<asked, word, effect, report, performed, lateEffects, hookId>>
readerVars == <<reader, held, inbox>>
hostVars   == <<host, armed, result>>
vars == <<runVars, callVars, readerVars, hostVars, plugVars>>

Closed == Frame("closed", 0, "none")    \* ReaderItem::Closed

Receiving == host \in {"ready", "loop", "verdict"}
Writing   == host \in {"initialize", "session", "dispatch", "reply", "closing"}

Init ==
    /\ PluginInit
    /\ hooks \in Manifests
    /\ host = "start" /\ armed = FALSE /\ result = "none" /\ late = FALSE
    /\ hookId = 1 /\ lateEffects = 0
    /\ asked = <<>> /\ word = "none" /\ effect = "none"
    /\ report = <<>> /\ performed = <<>>
    /\ reader = "none" /\ held = <<>> /\ inbox = <<>>

-----------------------------------------------------------------------------
Become(pc) == host' = pc /\ UNCHANGED <<armed, result>>

(* run_plugin returns: its channel and its handle on the process are       *)
(* dropped, and with the handle the host's end of stdin.                   *)
Returns(how) ==
    /\ host' = "ended" /\ result' = how
    /\ armed' = FALSE /\ stdin' = FALSE
    /\ inbox' = <<>>
    /\ UNCHANGED <<runVars, callVars, reader, held>>

(* Fail closed: the process is killed unless it is gone already. *)
Abandon(how) ==
    /\ Returns(how)
    /\ IF process = "running" THEN Ends("killed") ELSE UNCHANGED <<process, ears, mouth, toPlugin>>
    /\ UNCHANGED <<kind, wrote, sdkVars, toHost, drain>>

Refuse ==
    /\ host = "start"
    /\ \E how \in {"ApiVersionMismatch", "Spawn"} : Returns(how)
    /\ UNCHANGED <<kind, process, wrote, sdkVars, toPlugin, toHost, ears, mouth, drain>>

(* The process is up, its stdout handed to the reader thread. *)
Spawn ==
    /\ host = "start"
    /\ Become("initialize")
    /\ process' = "running" /\ stdin' = TRUE /\ ears' = TRUE /\ mouth' = TRUE /\ drain' = TRUE
    /\ reader' = "reading"
    /\ UNCHANGED <<runVars, callVars, held, inbox, kind, wrote, sdkVars, toPlugin, toHost>>

-----------------------------------------------------------------------------
(* A frame into the plugin's stdin: waits while the pipe is full. *)
Send(f) ==
    /\ ears /\ Len(toPlugin) < PipeRoom
    /\ toPlugin' = Append(toPlugin, f)
    /\ UNCHANGED <<runVars, readerVars, kind, process, wrote, sdkVars, toHost, stdin, ears, mouth, drain>>

(* A write fails on a broken pipe, and where the frame carries what the    *)
(* plugin or an effect has said, on a frame longer than one may be.        *)
WriteFails(pc) ==
    /\ host = pc
    /\ ~ears \/ pc \in {"dispatch", "reply"}
    /\ Abandon("Protocol")

WriteInitialize ==
    \/ /\ host = "initialize"
       /\ Send(Frame("Initialize", 0, "none"))
       /\ Become("ready") /\ UNCHANGED callVars
    \/ WriteFails("initialize")

(* The session-start failure that only reports. *)
WriteSessionUnkilled ==
    \/ /\ host = "session"
       /\ Send(Frame("HookDispatch", 0, "session_start"))
       /\ Become("loop") /\ UNCHANGED callVars
    \/ /\ host = "session" /\ ~ears
       /\ Returns("Protocol")
       /\ UNCHANGED <<kind, process, wrote, sdkVars, toPlugin, toHost, ears, mouth, drain>>

WriteSession ==
    \/ /\ host = "session"
       /\ Send(Frame("HookDispatch", 0, "session_start"))
       /\ Become("loop") /\ UNCHANGED callVars
    \/ WriteFails("session")

(* dispatch_veto_hook. *)
WriteDispatch ==
    \/ /\ host = "dispatch"
       /\ Send(Frame("HookDispatch", hookId, "before_capability"))
       /\ hookId' = hookId + 1
       /\ Become("verdict")
       /\ UNCHANGED <<asked, word, effect, report, performed, lateEffects>>
    \/ WriteFails("dispatch")

RunEffect ==
    /\ host = "effect"
    /\ effect' \in {"ok", "failed"}
    /\ performed' = Append(performed, asked[1].id)
    /\ lateEffects' = lateEffects + IF late THEN 1 ELSE 0
    /\ Become("reply")
    /\ UNCHANGED <<asked, word, report, hookId, runVars, readerVars, plugVars>>

Verdict ==
    IF word = "veto" THEN "vetoed" ELSE IF effect = "none" THEN "denied" ELSE effect

(* A report of what the policy decided, not of what was answered. *)
WriteReplyReportsPolicy ==
    \/ /\ host = "reply"
       /\ Send(Frame("CapabilityResponse", asked[1].id, Verdict))
       /\ report' = Append(report, [id |-> asked[1].id, ask |-> asked[1].ask,
                                   verdict |-> IF asked[1].ask \in Allowed THEN "ok" ELSE "denied"])
       /\ asked' = <<>> /\ word' = "none" /\ effect' = "none"
       /\ Become("loop")
       /\ UNCHANGED <<performed, lateEffects, hookId>>
    \/ WriteFails("reply")

(* The answer echoes the call's id; the call goes into the report. *)
WriteReply ==
    \/ /\ host = "reply"
       /\ Send(Frame("CapabilityResponse", asked[1].id, Verdict))
       /\ report' = Append(report, [id |-> asked[1].id, ask |-> asked[1].ask, verdict |-> Verdict])
       /\ asked' = <<>> /\ word' = "none" /\ effect' = "none"
       /\ Become("loop")
       /\ UNCHANGED <<performed, lateEffects, hookId>>
    \/ WriteFails("reply")

(* The end of the conversation: a last dispatch, whose failure is ignored. *)
WriteEnd ==
    /\ host = "closing"
    /\ \/ Send(Frame("HookDispatch", 0, "session_end"))
       \/ ~ears /\ UNCHANGED <<runVars, readerVars, plugVars>>
    /\ Become("hangup")
    /\ UNCHANGED callVars

HangUp ==
    /\ host = "hangup"
    /\ stdin' = FALSE
    /\ Become("waiting")
    /\ UNCHANGED <<runVars, callVars, readerVars, kind, process, wrote, sdkVars,
                   toPlugin, toHost, ears, mouth, drain>>

Wait ==
    /\ host = "waiting" /\ process \in {"exited", "killed"}
    /\ Returns("report")
    /\ UNCHANGED <<kind, process, wrote, sdkVars, toPlugin, toHost, ears, mouth, drain>>

-----------------------------------------------------------------------------
(* FrameChannel::recv: the clock first, then a wait for what is left. *)
RecvArm ==
    /\ Receiving /\ ~armed /\ ~late
    /\ armed' = TRUE
    /\ UNCHANGED <<host, result, runVars, callVars, readerVars, plugVars>>

(* A deadline that is enforced between frames only. *)
RecvLateBetween ==
    /\ Receiving /\ late /\ ~armed
    /\ Abandon("TimedOut")

RecvLate ==
    /\ Receiving /\ late
    /\ armed => inbox = <<>>
    /\ Abandon("TimedOut")

Take ==
    /\ armed /\ inbox # <<>>
    /\ inbox' = Tail(inbox)
    /\ armed' = FALSE
    /\ UNCHANGED <<result, runVars, reader, held, plugVars>>

Got(type) == Receiving /\ armed /\ inbox # <<>> /\ Head(inbox).type = type

(* A frame that does not belong here, or does not decode, ends the run. *)
GotWrong ==
    /\ Receiving /\ armed /\ inbox # <<>>
    /\ LET f == Head(inbox) IN
       \/ /\ host = "ready" /\ f.type # "Ready" /\ Abandon("Handshake")
       \/ /\ host = "loop" /\ f.type \notin {"CapabilityCall", "Log", "closed"}
          /\ Abandon("MisdirectedFrame")
       \/ /\ host = "loop" /\ f.type = "CapabilityCall" /\ f.body = Malformed
          /\ Abandon("MalformedCall")
       \/ /\ host = "verdict" /\ f.type = "closed" /\ Abandon("Handshake")
       \/ /\ host = "verdict" /\ f.type # "closed"
          /\ f.type # "HookResult" \/ f.id # hookId - 1
          /\ Abandon("MisdirectedFrame")
       \/ /\ host = "verdict" /\ f.type = "HookResult" /\ f.id = hookId - 1
          /\ f.body = Malformed
          /\ Abandon("MalformedCall")

GotReady ==
    /\ host = "ready" /\ Got("Ready") /\ Take
    /\ host' = IF "session_start" \in hooks THEN "session" ELSE "loop"
    /\ UNCHANGED callVars

GotLog ==
    /\ host = "loop" /\ Got("Log") /\ Take
    /\ UNCHANGED <<host, callVars>>

(* The policy is asked first, the hook only of what the policy allows. *)
GotCallUnjudged ==
    /\ host = "loop" /\ Got("CapabilityCall") /\ Head(inbox).body \in Asks /\ Take
    /\ asked' = <<[id |-> Head(inbox).id, ask |-> Head(inbox).body]>>
    /\ host' = IF "before_capability" \in hooks THEN "dispatch" ELSE "effect"
    /\ UNCHANGED <<word, effect, report, performed, lateEffects, hookId>>

GotCall ==
    /\ host = "loop" /\ Got("CapabilityCall") /\ Head(inbox).body \in Asks /\ Take
    /\ asked' = <<[id |-> Head(inbox).id, ask |-> Head(inbox).body]>>
    /\ host' = IF Head(inbox).body \notin Allowed THEN "reply"
               ELSE IF "before_capability" \in hooks THEN "dispatch" ELSE "effect"
    /\ UNCHANGED <<word, effect, report, performed, lateEffects, hookId>>

(* A hook whose word is heard and not heeded. *)
GotVerdictDeaf ==
    /\ host = "verdict" /\ Got("HookResult") /\ Take
    /\ Head(inbox).id = hookId - 1 /\ Head(inbox).body # Malformed
    /\ word' = "continue"
    /\ host' = "effect"
    /\ UNCHANGED <<asked, effect, report, performed, lateEffects, hookId>>

GotVerdict ==
    /\ host = "verdict" /\ Got("HookResult") /\ Take
    /\ Head(inbox).id = hookId - 1 /\ Head(inbox).body # Malformed
    /\ word' = Head(inbox).body
    /\ host' = IF word' = "veto" THEN "reply" ELSE "effect"
    /\ UNCHANGED <<asked, effect, report, performed, lateEffects, hookId>>

GotEnd ==
    /\ host = "loop" /\ Got("closed") /\ Take
    /\ host' = IF "session_end" \in hooks THEN "closing" ELSE "hangup"
    /\ UNCHANGED callVars

-----------------------------------------------------------------------------
(* The reader thread: one frame from the pipe.  The end of the stream and  *)
(* bytes that are no frame both close the conversation.                    *)
ReaderRead ==
    /\ reader = "reading"
    /\ \/ /\ toHost # <<>>
          /\ held' = <<IF Head(toHost) = Garbled THEN Closed ELSE Head(toHost)>>
          /\ toHost' = Tail(toHost)
       \/ /\ toHost = <<>> /\ ~mouth
          /\ held' = <<Closed>> /\ UNCHANGED toHost
    /\ reader' = "sending"
    /\ UNCHANGED <<inbox, runVars, callVars, hostVars, kind, process, wrote, sdkVars,
                   toPlugin, stdin, ears, mouth, drain>>

(* The reader ends: nobody drains the pipe any more. *)
ReaderEnds ==
    /\ reader' = "done" /\ drain' = FALSE
    /\ UNCHANGED <<runVars, callVars, hostVars, kind, process, wrote, sdkVars,
                   toPlugin, toHost, stdin, ears, mouth>>

ReaderSend ==
    /\ reader = "sending"
    /\ \/ /\ host # "ended" /\ Len(inbox) < InboxRoom
          /\ inbox' = Append(inbox, held[1]) /\ held' = <<>>
          /\ \/ held[1] = Closed /\ ReaderEnds
             \/ /\ held[1] # Closed /\ reader' = "reading"
                /\ UNCHANGED <<runVars, callVars, hostVars, plugVars>>
       \/ host = "ended" /\ held' = <<>> /\ UNCHANGED inbox /\ ReaderEnds

(* The time budget runs out. *)
Deadline ==
    /\ ~late /\ host \notin {"start", "ended"}
    /\ late' = TRUE
    /\ UNCHANGED <<hooks, callVars, readerVars, hostVars, plugVars>>

-----------------------------------------------------------------------------
Recv == \/ RecvArm \/ RecvLate \/ GotWrong \/ GotReady \/ GotLog \/ GotCall
        \/ GotVerdict \/ GotEnd

HostWrite == WriteInitialize \/ WriteSession \/ WriteDispatch \/ WriteReply \/ WriteEnd

HostMove == Spawn \/ Recv \/ RunEffect \/ HangUp \/ Wait

HostStep == HostMove \/ HostWrite

ReaderStep == ReaderRead \/ ReaderSend

Plugin == PluginStep /\ UNCHANGED <<runVars, callVars, readerVars, hostVars>>

Next == Refuse \/ HostStep \/ ReaderStep \/ Plugin \/ Deadline

Spec == Init /\ [][Next]_vars

(* The host's threads are scheduled, effects come to an end and time       *)
(* passes.  Of the plugin nothing is assumed: its program and its hook     *)
(* handler may hang for ever.  Nor does a write into an open pipe end: of  *)
(* a frame longer than the pipe the plugin has to read some first.         *)
FairSpec ==
    /\ Spec
    /\ WF_vars(HostMove) /\ WF_vars(HostWrite /\ ~ears)
    /\ WF_vars(ReaderStep) /\ WF_vars(Deadline)

-----------------------------------------------------------------------------
TypeOK ==
    /\ kind \in Kinds /\ process \in {"none", "running", "exited", "killed"}
    /\ app \in {"boot", "hello", "free", "await", "serving", "confused"}
    /\ host \in {"start", "initialize", "ready", "session", "loop", "dispatch", "verdict",
                 "effect", "reply", "closing", "hangup", "waiting", "ended"}
    /\ reader \in {"none", "reading", "sending", "done"}
    /\ armed \in BOOLEAN /\ late \in BOOLEAN /\ lateEffects \in Nat /\ hookId \in Nat
    /\ Len(toPlugin) <= PipeRoom /\ Len(toHost) <= PipeRoom /\ Len(inbox) <= InboxRoom
    /\ Len(asked) <= 1 /\ Len(owed) <= 1 /\ Len(held) <= 1
    /\ word \in {"none", "continue", "veto"} /\ effect \in {"none", "ok", "failed"}

(* A plugin written with the SDK is never ended as one that broke the      *)
(* protocol, whatever it asks, logs or vetoes and whichever hooks it has   *)
(* subscribed to: the host's strict wait for a HookResult relies on the    *)
(* SDK serving a dispatch before it sends anything else.  The exception is *)
(* a program that goes on after a veto whose reason was too long to send.  *)
(* Nor is the SDK ever answered under an id it does not wait for.          *)
SdkNeverMisjudged ==
    kind = "sdk" =>
        /\ result # "MalformedCall"
        /\ result = "MisdirectedFrame" => owed # <<>> /\ app # "serving"
        /\ app # "confused"

(* The answers an SDK program has got are those of the report, call by     *)
(* call, over both pipes, with hooks and requests that were never sent in  *)
(* between.                                                                *)
AnswersReported ==
    kind = "sdk" =>
        /\ Len(heard) <= Len(report)
        /\ \A n \in DOMAIN heard :
              heard[n] = [id |-> report[n].id, verdict |-> report[n].verdict]

(* No effect is run for a call whose own hook handler objected to it, nor  *)
(* for one the policy does not allow, and for none twice.                  *)
NoEffectAgainstVeto ==
    /\ effect # "none" => asked[1].ask \in Allowed
    /\ kind = "sdk" =>
        /\ Range(performed) \cap objected = {}
        /\ IsInjective(performed)

(* A run leaves no process behind: however run_plugin ends, the plugin has *)
(* exited or was killed (the safety half of NothingLeft).                  *)
NoOrphan == host = "ended" => process # "running"

(* What the deadline leaves open: the frame that an already waiting recv   *)
(* gets may still run one effect, and no second.                           *)
OneLateEffect == lateEffects <= 1

(* The host is where only the plugin lets it go on. *)
HeldUp == (host = "waiting" /\ process = "running") \/ (Writing /\ ears)

(* The deadline ends the run, unless the host is held up for ever writing  *)
(* to a plugin that keeps its stdin open, or waiting for it to exit.       *)
DeadlineEndsRun == <>late => <>(host = "ended" \/ []HeldUp)

(* A run leaves nothing behind: however run_plugin ends, the plugin has    *)
(* exited or was killed, and the reader thread is gone some time later,    *)
(* also one that waits with a frame for a full channel.                    *)
NothingLeft == host = "ended" ~> [](process # "running" /\ reader \in {"none", "done"})

(* "`timeout` bounds the whole run and is enforced both between frames and *)
(* while the host is blocked waiting for one" (run_plugin).  In no run: the *)
(* code keeps no more of it than DeadlineEndsRun (README).                 *)
TimeoutBoundsRun == late ~> host = "ended"

Med == INSTANCE Mediation WITH hooked <- "before_capability" \in hooks, over <- host = "ended"

(* The run is a mediation. *)
ImplementsMediation == Med!Spec
=============================================================================
