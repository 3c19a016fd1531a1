-------------------------- MODULE PluginHost_proofs -------------------------
(* Theorems about PluginHost: for every plugin, policy and manifest and    *)
(* for pipes and channels of any length.                                   *)
EXTENDS PluginHost, SequenceTheorems, TLAPS

-----------------------------------------------------------------------------
(* Sequences stay sequences under the operations of a queue. *)
LEMMA QueueType ==
    ASSUME NEW S
    PROVE  /\ <<>> \in Seq(S)
           /\ \A s \in Seq(S), e \in S : Append(s, e) \in Seq(S)
           /\ \A s \in Seq(S) : s # <<>> => Head(s) \in S /\ Tail(s) \in Seq(S)
<1>1. <<>> \in Seq(S)
  BY EmptySeq
<1>2. ASSUME NEW s \in Seq(S), NEW e \in S PROVE Append(s, e) \in Seq(S)
  BY AppendProperties
<1>3. ASSUME NEW s \in Seq(S), s # <<>> PROVE Head(s) \in S /\ Tail(s) \in Seq(S)
  BY <1>3, HeadTailProperties
<1> QED BY <1>1, <1>2, <1>3

(* An empty queue has no elements. *)
LEMMA EmptyQueue == Range(<<>>) = {} /\ IsInjective(<<>>) /\ Len(<<>>) = 0
BY EmptySeq, LenProperties DEF Range, IsInjective

(* What a push adds. *)
LEMMA PushQueue ==
    ASSUME NEW S, NEW s \in Seq(S), NEW e \in S
    PROVE  /\ Len(Append(s, e)) = Len(s) + 1
           /\ Range(Append(s, e)) = Range(s) \cup {e}
           /\ IsInjective(s) /\ e \notin Range(s) => IsInjective(Append(s, e))
<1> DEFINE t == Append(s, e)
<1>1. /\ Len(s) \in Nat /\ DOMAIN s = 1..Len(s)
      /\ t \in Seq(S) /\ Len(t) = Len(s) + 1 /\ DOMAIN t = 1..(Len(s) + 1)
      /\ \A i \in 1..Len(s) : t[i] = s[i]
      /\ t[Len(s) + 1] = e
  BY AppendProperties, LenProperties
<1> HIDE DEF t
<1>2. Range(t) = Range(s) \cup {e}
  BY <1>1 DEF Range
<1>3. IsInjective(s) /\ e \notin Range(s) => IsInjective(t)
  BY <1>1 DEF Range, IsInjective
<1> QED BY <1>1, <1>2, <1>3 DEF t

(* What a pop removes. *)
LEMMA PopQueue ==
    ASSUME NEW S, NEW s \in Seq(S), s # <<>>
    PROVE  /\ Len(s) >= 1 /\ Len(Tail(s)) = Len(s) - 1
           /\ Range(s) = Range(Tail(s)) \cup {Head(s)}
           /\ IsInjective(s) => IsInjective(Tail(s)) /\ Head(s) \notin Range(Tail(s))
<1> DEFINE t == Tail(s)
<1>1. /\ Len(s) \in Nat \ {0} /\ DOMAIN s = 1..Len(s)
      /\ Len(t) = Len(s) - 1 /\ DOMAIN t = 1..(Len(s) - 1)
      /\ \A i \in 1..(Len(s) - 1) : t[i] = s[i + 1]
      /\ Head(s) = s[1]
  BY EmptySeq, HeadTailProperties, LenProperties
<1> HIDE DEF t
<1>2. ASSUME NEW i \in 1..Len(s), i # 1 PROVE i - 1 \in 1..(Len(s) - 1) /\ s[i] = t[i - 1]
  BY <1>1, <1>2
<1>3. \A i \in 1..(Len(s) - 1) : i + 1 \in 1..Len(s) /\ t[i] = s[i + 1]
  BY <1>1
<1>4. Range(s) = Range(t) \cup {Head(s)}
  <2>1. \A x \in Range(t) \cup {Head(s)} : x \in Range(s)
    BY <1>1, <1>3, 1 \in 1..Len(s) DEF Range
  <2>2. ASSUME NEW i \in 1..Len(s) PROVE s[i] \in Range(t) \cup {Head(s)}
    BY <1>1, <1>2 DEF Range
  <2>3. \A x \in Range(s) : \E i \in 1..Len(s) : x = s[i]
    BY <1>1 DEF Range
  <2>4. \A x \in Range(s) : x \in Range(t) \cup {Head(s)}
    BY <2>2, <2>3
  <2> QED BY <2>1, <2>4
<1>5. ASSUME IsInjective(s) PROVE IsInjective(t)
  <2>1. ASSUME NEW i \in 1..(Len(s) - 1), NEW k \in 1..(Len(s) - 1), t[i] = t[k]
        PROVE  i = k
    <3>1. s[i + 1] = s[k + 1] /\ i + 1 \in DOMAIN s /\ k + 1 \in DOMAIN s
      BY <1>1, <1>3, <2>1
    <3>2. i + 1 = k + 1
      BY <1>5, <3>1 DEF IsInjective
    <3> QED BY <3>2
  <2> QED BY <1>1, <2>1 DEF IsInjective
<1>6. ASSUME IsInjective(s), NEW i \in 1..(Len(s) - 1) PROVE t[i] # Head(s)
  <2>1. s[i + 1] # s[1]
    BY <1>1, <1>3, <1>6 DEF IsInjective
  <2> QED BY <1>1, <1>3, <2>1
<1>7. IsInjective(s) => Head(s) \notin Range(t)
  BY <1>1, <1>6 DEF Range
<1>8. Len(s) >= 1
  BY <1>1
<1> QED BY <1>1, <1>4, <1>5, <1>7, <1>8 DEF t

(* In s, nothing but elements of B comes after one of A. *)
After(s, A, B) == \A i, j \in DOMAIN s : i < j /\ s[i] \in A => s[j] \in B

(* What a push and a pop keep of an order. *)
LEMMA PushAfter ==
    ASSUME NEW S, NEW s \in Seq(S), NEW e \in S, NEW A, NEW B,
           After(s, A, B), e \in B \/ Range(s) \cap A = {}
    PROVE  After(Append(s, e), A, B)
<1> DEFINE t == Append(s, e)
<1>1. /\ Len(s) \in Nat /\ DOMAIN s = 1..Len(s) /\ DOMAIN t = 1..(Len(s) + 1)
      /\ \A i \in 1..Len(s) : t[i] = s[i]
      /\ t[Len(s) + 1] = e
  BY AppendProperties, LenProperties
<1> HIDE DEF t
<1>2. \A i \in 1..Len(s) : s[i] \in A => e \in B
  BY <1>1 DEF Range
<1>3. ASSUME NEW i \in 1..(Len(s) + 1), NEW j \in 1..(Len(s) + 1), i < j, t[i] \in A
      PROVE  t[j] \in B
  <2>1. i \in 1..Len(s)
    BY <1>1, <1>3
  <2>2. CASE j = Len(s) + 1
    BY <1>1, <1>2, <1>3, <2>1, <2>2
  <2>3. CASE j # Len(s) + 1
    <3>1. j \in 1..Len(s)
      BY <1>1, <2>3
    <3> QED BY <1>1, <1>3, <2>1, <3>1 DEF After
  <2> QED BY <2>2, <2>3
<1> QED BY <1>1, <1>3 DEF After, t

LEMMA PopAfter ==
    ASSUME NEW S, NEW s \in Seq(S), s # <<>>, NEW A, NEW B, After(s, A, B)
    PROVE  /\ After(Tail(s), A, B)
           /\ Head(s) \in A => Range(Tail(s)) \subseteq B
<1> DEFINE t == Tail(s)
<1>1. /\ Len(s) \in Nat \ {0} /\ DOMAIN s = 1..Len(s) /\ DOMAIN t = 1..(Len(s) - 1)
      /\ \A i \in 1..(Len(s) - 1) : t[i] = s[i + 1]
      /\ Head(s) = s[1]
  BY EmptySeq, HeadTailProperties, LenProperties
<1> HIDE DEF t
<1>2. \A i \in 1..(Len(s) - 1) : i + 1 \in DOMAIN s /\ t[i] = s[i + 1] /\ 1 < i + 1
  BY <1>1
<1>3. ASSUME Head(s) \in A, NEW i \in 1..(Len(s) - 1) PROVE t[i] \in B
  <2>1. 1 \in DOMAIN s
    BY <1>1
  <2> QED BY <1>1, <1>2, <1>3, <2>1 DEF After
<1>4. ASSUME NEW i \in 1..(Len(s) - 1), NEW j \in 1..(Len(s) - 1), i < j, t[i] \in A
      PROVE  t[j] \in B
  <2>1. i + 1 < j + 1
    BY <1>4
  <2> QED BY <1>2, <1>4, <2>1 DEF After
<1>5. After(t, A, B)
  BY <1>1, <1>4 DEF After
<1>6. Head(s) \in A => Range(t) \subseteq B
  BY <1>1, <1>3 DEF Range
<1> QED BY <1>5, <1>6 DEF t

-----------------------------------------------------------------------------
(* What the two directions carry. *)
Says  == {"continue", "veto", Malformed}
Words == {"none", "session_start", "before_capability", "session_end",
          "ok", "failed", "vetoed", "denied"}

Types == {"Initialize", "Ready", "Log", "CapabilityCall", "CapabilityResponse",
          "HookDispatch", "HookResult", "garbled", "closed"}

FromFrames == {f \in [type : Types, id : Nat, body : Asks \cup Says \cup {"none"}] :
                  f.type = "HookResult" => f.body \in Says}
ToFrames   == [type : Types, id : Nat, body : Words]
Calls      == [id : Nat, ask : Asks]

PipesTyped ==
    /\ toHost \in Seq(FromFrames) /\ owed \in Seq(FromFrames)
    /\ toPlugin \in Seq(ToFrames)
    /\ nextId \in Nat
    /\ app = "serving" => owed # <<>>

HostTyped ==
    /\ held \in Seq(FromFrames) /\ inbox \in Seq(FromFrames)
    /\ reader = "sending" => held # <<>>
    /\ hookId \in Nat /\ asked \in Seq(Calls)
    /\ word \in {"none", "continue", "veto"} /\ effect \in {"none", "ok", "failed"}

LEMMA FrameTyped ==
    ASSUME NEW t \in Types, NEW i \in Nat, NEW b \in Asks \cup Says \cup {"none"},
           t = "HookResult" => b \in Says
    PROVE  Frame(t, i, b) \in FromFrames
<1>1. Frame(t, i, b) \in [type : Types, id : Nat, body : Asks \cup Says \cup {"none"}]
  BY DEF Frame
<1>2. Frame(t, i, b).type = t /\ Frame(t, i, b).body = b
  BY DEF Frame
<1> QED BY <1>1, <1>2 DEF FromFrames

LEMMA FramesMade ==
    /\ Ready \in FromFrames /\ Log \in FromFrames /\ Closed \in FromFrames
    /\ FromPlugin \subseteq FromFrames
    /\ \A i \in Nat, a \in Asks : Frame("CapabilityCall", i, a) \in FromFrames
    /\ \A i \in Nat, o \in {"continue", "veto"} : Frame("HookResult", i, o) \in FromFrames
<1>1. \A i \in Ids : i \in Nat
  BY PluginAssumption
<1>2. ASSUME NEW i \in Nat, NEW b \in Asks \cup {Malformed}
      PROVE  Frame("CapabilityCall", i, b) \in FromFrames
  BY FrameTyped DEF Types, Says
<1>3. ASSUME NEW i \in Nat, NEW o \in Says
      PROVE  Frame("HookResult", i, o) \in FromFrames
  BY FrameTyped DEF Types
<1>4. /\ Ready \in FromFrames /\ Log \in FromFrames /\ Closed \in FromFrames
      /\ Garbled \in FromFrames
  BY FrameTyped DEF Ready, Log, Closed, Garbled, Types, Says
<1>5. CallFrames \subseteq FromFrames
  BY <1>1, <1>2 DEF CallFrames
<1>6. HookResults \subseteq FromFrames
  BY <1>1, <1>3 DEF HookResults, Says
<1> QED BY <1>2, <1>3, <1>4, <1>5, <1>6 DEF FromPlugin, Says

(* A frame written keeps its pipe one of frames. *)
LEMMA WriteTyped ==
    ASSUME PipesTyped, NEW f \in FromFrames, Write(f)
    PROVE  /\ toHost' \in Seq(FromFrames) /\ toPlugin' \in Seq(ToFrames)
BY QueueType DEF PipesTyped, Write

LEMMA ReadTyped ==
    ASSUME PipesTyped, NEW type, Read(type)
    PROVE  /\ toHost' \in Seq(FromFrames) /\ toPlugin' \in Seq(ToFrames)
           /\ Head(toPlugin).id \in Nat
<1>1. Head(toPlugin) \in ToFrames /\ Tail(toPlugin) \in Seq(ToFrames)
  BY QueueType DEF PipesTyped, Read
<1> QED BY <1>1 DEF PipesTyped, Read, ToFrames

LEMMA PluginTyped == ASSUME PipesTyped, PluginStep PROVE PipesTyped'
<1> USE DEF PipesTyped, sdkVars
<1>1. CASE SdkBoot \/ SdkObserve
  BY <1>1, ReadTyped DEF SdkBoot, SdkObserve
<1>2. CASE SdkReady \/ SdkLog
  BY <1>2, WriteTyped, FramesMade DEF SdkReady, SdkLog
<1>3. CASE SdkHookReply
  <2>1. owed[1] \in FromFrames
    <3>1. Head(owed) \in FromFrames /\ Head(owed) = owed[1]
      BY <1>3, QueueType DEF SdkHookReply
    <3> QED BY <3>1
  <2> QED BY <1>3, <2>1, WriteTyped, QueueType DEF SdkHookReply
<1>4. CASE SdkAnswer
  BY <1>4, ReadTyped DEF SdkAnswer
<1>5. ASSUME NEW a \in Asks, SdkRequest(a) PROVE PipesTyped'
  BY <1>5, WriteTyped, FramesMade DEF SdkRequest
<1>6. ASSUME NEW o \in {"continue", "veto"}, SdkHook(o) PROVE PipesTyped'
  <2>1. Frame("HookResult", Head(toPlugin).id, o) \in FromFrames
    BY <1>6, ReadTyped, FramesMade DEF SdkHook
  <2>2. owed' \in Seq(FromFrames) /\ owed' # <<>>
    BY <1>6, <2>1 DEF SdkHook
  <2> QED BY <1>6, <2>2, ReadTyped DEF SdkHook
<1>7. ASSUME NEW f \in FromPlugin, AnyWrite(f) PROVE PipesTyped'
  BY <1>7, WriteTyped, FramesMade DEF AnyWrite
<1>8. CASE AnyRead
  BY <1>8, ReadTyped DEF AnyRead
<1>9. CASE AnyCloses \/ Exit
  BY <1>9, QueueType DEF AnyCloses, Exit, Ends
<1>10. CASE SdkRequestTooLarge \/ SdkHookReplyTooLarge
  BY <1>10 DEF SdkRequestTooLarge, SdkHookReplyTooLarge, pipeVars
<1> QED BY <1>1, <1>2, <1>3, <1>4, <1>5, <1>6, <1>7, <1>8, <1>9, <1>10 DEF PluginStep

(* What a plugin may do to its own process. *)
LEMMA PluginProcessStep ==
    ASSUME PluginStep
    PROVE  process' = process \/ (process = "running" /\ process' = "exited")
BY DEF Running, PluginStep, SdkBoot, SdkReady, SdkLog, SdkRequestTooLarge, SdkObserve,
       SdkHookReply, SdkHookReplyTooLarge, SdkAnswer, SdkRequest, SdkHook, AnyWrite, AnyRead,
       AnyCloses, Exit, Ends, Write, Read

-----------------------------------------------------------------------------
Typed == PipesTyped /\ HostTyped

Hooked == "before_capability" \in hooks

(* Where the call in hand stands, by where run_plugin is. *)
CallInv ==
    /\ host \in {"start", "initialize", "ready", "session", "loop", "closing", "hangup",
                "waiting"} => asked = <<>> /\ word = "none" /\ effect = "none"
    /\ host \in {"dispatch", "verdict", "effect", "reply"} => asked # <<>>
    /\ host \in {"dispatch", "verdict", "effect"} => asked[1].ask \in Allowed /\ effect = "none"
    /\ host \in {"dispatch", "verdict"} => Hooked /\ word = "none"
    /\ host = "effect" => (Hooked => word = "continue")
    /\ host = "reply" => effect # "none" \/ word = "veto" \/ asked[1].ask \notin Allowed

(* Nothing runs before the spawn or after the run. *)
ProcessInv ==
    /\ host = "start" => process = "none"
    /\ host = "ended" => process # "running"

(* After the deadline no recv begins: an effect run since then is the one  *)
(* of the frame that was waited for, and no other can follow it.           *)
LateInv ==
    /\ lateEffects \in Nat /\ lateEffects <= 1
    /\ armed => Receiving
    /\ lateEffects > 0 => late /\ ~armed /\ host \in {"reply", "loop", "ended"}

RunInv == Typed /\ CallInv /\ ProcessInv /\ LateInv

LEMMA RunInit == Init => RunInv
<1> SUFFICES ASSUME Init PROVE RunInv
  OBVIOUS
<1>1. Typed
  BY QueueType DEF Init, PluginInit, Typed, PipesTyped, HostTyped
<1>2. CallInv /\ ProcessInv /\ LateInv
  BY DEF Init, PluginInit, CallInv, ProcessInv, LateInv, Receiving
<1> QED BY <1>1, <1>2 DEF RunInv

(* How a run is given up: nothing of its calls changes. *)
LEMMA AbandonStep ==
    ASSUME NEW how, Abandon(how)
    PROVE  /\ host' = "ended" /\ armed' = FALSE /\ process' # "running"
           /\ inbox' = <<>> /\ (toPlugin' = toPlugin \/ toPlugin' = <<>>)
           /\ UNCHANGED <<hooks, late, asked, word, effect, report, performed, lateEffects,
                          hookId, reader, held, toHost, owed, nextId, app>>
BY DEF Abandon, Returns, Ends, runVars, callVars, sdkVars

LEMMA AbandonTyped == ASSUME Typed, NEW how, Abandon(how) PROVE Typed'
BY AbandonStep, QueueType DEF Typed, PipesTyped, HostTyped

(* The frame at the head of the channel. *)
LEMMA TakeTyped ==
    ASSUME Typed, Take
    PROVE  /\ Head(inbox) \in FromFrames /\ Head(inbox).id \in Nat
           /\ Head(inbox).type = "HookResult" => Head(inbox).body \in Says
           /\ held' \in Seq(FromFrames) /\ inbox' \in Seq(FromFrames) /\ PipesTyped'
           /\ reader' = "sending" => held' # <<>>
<1>1. Head(inbox) \in FromFrames /\ inbox' \in Seq(FromFrames)
  BY QueueType DEF Typed, HostTyped, Take
<1>2. UNCHANGED <<reader, held, toHost, owed, toPlugin, nextId, app>>
  BY DEF Take, plugVars, sdkVars, pipeVars
<1> QED BY <1>1, <1>2 DEF Typed, PipesTyped, HostTyped, FromFrames

(* A frame to the plugin. *)
LEMMA SendTyped ==
    ASSUME Typed, NEW f \in ToFrames, Send(f)
    PROVE  PipesTyped' /\ UNCHANGED <<inbox, reader, held>>
BY QueueType DEF Typed, PipesTyped, Send, sdkVars, readerVars

LEMMA WriteFailsTyped == ASSUME Typed, NEW pc, WriteFails(pc) PROVE Typed'
BY AbandonTyped DEF WriteFails

(* A step of the host that writes, or gives the run up. *)
LEMMA HostWriteTyped == ASSUME Typed, CallInv, HostWrite PROVE Typed'
<1>1. CASE WriteInitialize
  <2>1. Frame("Initialize", 0, "none") \in ToFrames
    BY DEF Frame, ToFrames, Types, Words
  <2> QED BY <1>1, <2>1, SendTyped, WriteFailsTyped
          DEF WriteInitialize, Typed, HostTyped, callVars
<1>2. CASE WriteSession
  <2>1. Frame("HookDispatch", 0, "session_start") \in ToFrames
    BY DEF Frame, ToFrames, Types, Words
  <2> QED BY <1>2, <2>1, SendTyped, WriteFailsTyped
          DEF WriteSession, Typed, HostTyped, callVars
<1>3. CASE WriteDispatch
  <2>1. Frame("HookDispatch", hookId, "before_capability") \in ToFrames
    BY DEF Frame, ToFrames, Types, Words, Typed, HostTyped
  <2> QED BY <1>3, <2>1, SendTyped, WriteFailsTyped DEF WriteDispatch, Typed, HostTyped
<1>4. CASE WriteReply
  <2>1. CASE WriteFails("reply")
    BY <2>1, WriteFailsTyped
  <2>2. CASE /\ Send(Frame("CapabilityResponse", asked[1].id, Verdict))
             /\ asked' = <<>> /\ word' = "none" /\ effect' = "none" /\ hookId' = hookId
             /\ host = "reply"
    <3>1. asked[1] \in Calls
      BY <2>2, QueueType DEF Typed, HostTyped, CallInv
    <3>2. Verdict \in Words
      BY DEF Verdict, Words, Typed, HostTyped
    <3>3. Frame("CapabilityResponse", asked[1].id, Verdict) \in ToFrames
      BY <3>1, <3>2 DEF Frame, ToFrames, Types, Calls
    <3> QED BY <2>2, <3>3, SendTyped, QueueType DEF Typed, HostTyped
  <2> QED BY <1>4, <2>1, <2>2 DEF WriteReply
<1>5. CASE WriteEnd
  <2>1. Frame("HookDispatch", 0, "session_end") \in ToFrames
    BY DEF Frame, ToFrames, Types, Words
  <2>2. CASE Send(Frame("HookDispatch", 0, "session_end"))
    BY <1>5, <2>1, <2>2, SendTyped DEF WriteEnd, Typed, HostTyped, callVars
  <2>3. CASE UNCHANGED <<runVars, readerVars, plugVars>>
    BY <1>5, <2>3 DEF WriteEnd, Typed, HostTyped, PipesTyped, callVars, readerVars,
                      plugVars, sdkVars, pipeVars
  <2> QED BY <1>5, <2>2, <2>3 DEF WriteEnd
<1> QED BY <1>1, <1>2, <1>3, <1>4, <1>5 DEF HostWrite

LEMMA TypedStep == ASSUME Typed, CallInv, [Next]_vars PROVE Typed'
<1>u. ASSUME UNCHANGED <<plugVars, readerVars, callVars>> PROVE Typed'
  BY <1>u DEF Typed, PipesTyped, HostTyped, plugVars, sdkVars, pipeVars, readerVars, callVars
<1>1. CASE Refuse
  BY <1>1, QueueType DEF Refuse, Returns, Typed, PipesTyped, HostTyped, sdkVars, callVars
<1>2. CASE Spawn
  BY <1>2 DEF Spawn, Typed, PipesTyped, HostTyped, sdkVars, callVars
<1>3. CASE HostWrite
  BY <1>3, HostWriteTyped
<1>4. CASE RecvArm
  BY <1>4, <1>u DEF RecvArm
<1>5. CASE RecvLate \/ GotWrong
  BY <1>5, AbandonTyped DEF RecvLate, GotWrong
<1>6. CASE GotReady \/ GotLog \/ GotEnd
  BY <1>6, TakeTyped DEF GotReady, GotLog, GotEnd, Typed, HostTyped, callVars
<1>7. CASE GotCall
  <2>1. [id |-> Head(inbox).id, ask |-> Head(inbox).body] \in Calls
    BY <1>7, TakeTyped DEF GotCall, Calls
  <2>2. asked' \in Seq(Calls)
    BY <1>7, <2>1 DEF GotCall
  <2> QED BY <1>7, <2>2, TakeTyped DEF GotCall, Typed, HostTyped
<1>8. CASE GotVerdict
  <2>1. word' \in {"continue", "veto"}
    BY <1>8, TakeTyped DEF GotVerdict, Got, Says
  <2> QED BY <1>8, <2>1, TakeTyped DEF GotVerdict, Typed, HostTyped
<1>9. CASE RunEffect
  BY <1>9 DEF RunEffect, Typed, PipesTyped, HostTyped, plugVars, sdkVars, pipeVars, readerVars
<1>10. CASE HangUp
  BY <1>10 DEF HangUp, Typed, PipesTyped, HostTyped, sdkVars, readerVars, callVars
<1>11. CASE Wait
  BY <1>11, QueueType DEF Wait, Returns, Typed, PipesTyped, HostTyped, sdkVars, callVars
<1>12. CASE ReaderRead
  <2>1. /\ toHost' \in Seq(FromFrames) /\ held' \in Seq(FromFrames) /\ held' # <<>>
    <3>1. \E f \in FromFrames : held' = <<f>>
      <4>1. toHost # <<>> => Head(toHost) \in FromFrames
        BY QueueType DEF Typed, PipesTyped
      <4> QED BY <1>12, <4>1, FramesMade DEF ReaderRead
    <3>2. toHost' \in Seq(FromFrames)
      <4>1. toHost # <<>> => Tail(toHost) \in Seq(FromFrames)
        BY QueueType DEF Typed, PipesTyped
      <4> QED BY <1>12, <4>1 DEF ReaderRead, Typed, PipesTyped
    <3> QED BY <3>1, <3>2
  <2> QED BY <1>12, <2>1 DEF ReaderRead, Typed, PipesTyped, HostTyped, sdkVars, callVars
<1>13. CASE ReaderSend
  <2>1. held[1] \in FromFrames
    BY <1>13, QueueType DEF ReaderSend, Typed, HostTyped
  <2>2. inbox' \in Seq(FromFrames) /\ held' \in Seq(FromFrames) /\ reader' # "sending"
    BY <1>13, <2>1, QueueType DEF ReaderSend, ReaderEnds, Typed, HostTyped
  <2> QED BY <1>13, <2>2 DEF ReaderSend, ReaderEnds, Typed, PipesTyped, HostTyped, plugVars,
                             sdkVars, pipeVars, callVars
<1>14. CASE Plugin
  BY <1>14, PluginTyped DEF Plugin, Typed, HostTyped, readerVars, callVars
<1>15. CASE Deadline
  BY <1>15, <1>u DEF Deadline
<1>16. CASE UNCHANGED vars
  BY <1>16, <1>u DEF vars
<1> QED BY <1>1, <1>2, <1>3, <1>4, <1>5, <1>6, <1>7, <1>8, <1>9, <1>10, <1>11, <1>12,
           <1>13, <1>14, <1>15, <1>16 DEF Next, HostStep, HostMove, Recv, ReaderStep

(* A step of the plugin, the reader or the clock leaves run_plugin where   *)
(* it is.                                                                  *)
Aside ==
    /\ UNCHANGED <<hooks, callVars, hostVars>>
    /\ process' = process \/ (process = "running" /\ process' = "exited")

LEMMA AsideStep ==
    ASSUME ReaderStep \/ Plugin \/ Deadline PROVE Aside /\ (late' = late \/ late' = TRUE)
<1>1. CASE ReaderStep
  BY <1>1 DEF ReaderStep, ReaderRead, ReaderSend, ReaderEnds, Aside, runVars, plugVars,
              callVars, hostVars
<1>2. CASE Plugin
  BY <1>2, PluginProcessStep DEF Plugin, Aside, runVars
<1>3. CASE Deadline
  BY <1>3 DEF Deadline, Aside, plugVars
<1> QED BY <1>1, <1>2, <1>3

LEMMA CallStep == ASSUME RunInv, [Next]_vars PROVE CallInv'
<1> USE DEF RunInv, CallInv, Hooked, runVars, callVars, hostVars
<1>1. CASE Refuse \/ Wait
  BY <1>1 DEF Refuse, Wait, Returns
<1>2. ASSUME NEW how, Abandon(how) PROVE CallInv'
  BY <1>2, AbandonStep
<1>3. ASSUME NEW pc, WriteFails(pc) PROVE CallInv'
  BY <1>2, <1>3 DEF WriteFails
<1>4. CASE Spawn \/ HangUp
  BY <1>4 DEF Spawn, HangUp, Become
<1>5. CASE WriteInitialize \/ WriteSession
  BY <1>3, <1>5 DEF WriteInitialize, WriteSession, Become, Send
<1>6. CASE WriteDispatch
  BY <1>3, <1>6 DEF WriteDispatch, Become, Send
<1>7. CASE WriteReply
  BY <1>3, <1>7 DEF WriteReply, Become, Send
<1>8. CASE WriteEnd
  BY <1>8 DEF WriteEnd, Become, Send
<1>9. CASE RecvArm
  BY <1>9 DEF RecvArm
<1>10. CASE RecvLate \/ GotWrong
  BY <1>2, <1>10 DEF RecvLate, GotWrong
<1>11. CASE GotReady \/ GotLog \/ GotEnd
  BY <1>11 DEF GotReady, GotLog, GotEnd, Take
<1>12. CASE GotCall
  <2>1. asked' # <<>> /\ asked'[1].ask = Head(inbox).body
    BY <1>12 DEF GotCall
  <2> QED BY <1>12, <2>1 DEF GotCall, Take
<1>13. CASE GotVerdict
  <2>1. word' \in {"continue", "veto"}
    BY <1>13, TakeTyped DEF GotVerdict, Got, Says
  <2> QED BY <1>13, <2>1 DEF GotVerdict, Take
<1>14. CASE RunEffect
  BY <1>14 DEF RunEffect, Become
<1>15. CASE ReaderStep \/ Plugin \/ Deadline
  BY <1>15, AsideStep DEF Aside
<1>16. CASE UNCHANGED vars
  BY <1>16 DEF vars
<1> QED BY <1>1, <1>4, <1>5, <1>6, <1>7, <1>8, <1>9, <1>10, <1>11, <1>12, <1>13, <1>14,
           <1>15, <1>16 DEF Next, HostStep, HostMove, HostWrite, Recv

LEMMA ProcessStep == ASSUME RunInv, [Next]_vars PROVE ProcessInv'
<1> USE DEF RunInv, ProcessInv, plugVars
<1>1. CASE Refuse \/ Wait
  BY <1>1 DEF Refuse, Wait, Returns
<1>2. ASSUME NEW how, Abandon(how) PROVE ProcessInv'
  BY <1>2, AbandonStep
<1>3. ASSUME NEW pc, WriteFails(pc) PROVE ProcessInv'
  BY <1>2, <1>3 DEF WriteFails
<1>4. CASE Spawn \/ HangUp
  BY <1>4 DEF Spawn, HangUp, Become
<1>5. CASE HostWrite
  BY <1>3, <1>5 DEF HostWrite, WriteInitialize, WriteSession, WriteDispatch, WriteReply,
                    WriteEnd, Become
<1>6. CASE RecvLate \/ GotWrong
  BY <1>2, <1>6 DEF RecvLate, GotWrong
<1>7. CASE RecvArm \/ GotReady \/ GotLog \/ GotEnd \/ GotCall \/ GotVerdict
  <2>1. host \notin {"start", "ended"} /\ host' \notin {"start", "ended"}
    BY <1>7 DEF RecvArm, GotReady, GotLog, GotEnd, GotCall, GotVerdict, Receiving
  <2> QED BY <2>1
<1>8. CASE RunEffect
  BY <1>8 DEF RunEffect, Become
<1>9. CASE ReaderStep \/ Plugin \/ Deadline
  <2>1. host' = host /\ (process' = process \/ (process = "running" /\ process' = "exited"))
    BY <1>9, AsideStep DEF Aside, hostVars
  <2> QED BY <2>1
<1>10. CASE UNCHANGED vars
  BY <1>10 DEF vars, hostVars
<1> QED BY <1>1, <1>4, <1>5, <1>6, <1>7, <1>8, <1>9, <1>10 DEF Next, HostStep, HostMove, Recv

LEMMA LateStep == ASSUME RunInv, [Next]_vars PROVE LateInv'
<1> USE DEF RunInv, LateInv, Receiving, runVars, callVars, hostVars
<1>1. CASE Refuse \/ Wait
  BY <1>1 DEF Refuse, Wait, Returns
<1>2. ASSUME NEW how, Abandon(how) PROVE LateInv'
  BY <1>2, AbandonStep
<1>3. ASSUME NEW pc, WriteFails(pc) PROVE LateInv'
  BY <1>2, <1>3 DEF WriteFails
<1>4. CASE Spawn \/ HangUp
  BY <1>4 DEF Spawn, HangUp, Become
<1>5. CASE HostWrite
  BY <1>3, <1>5 DEF HostWrite, WriteInitialize, WriteSession, WriteDispatch, WriteReply,
                    WriteEnd, Become, Send
<1>6. CASE RecvArm
  BY <1>6 DEF RecvArm
<1>7. CASE RecvLate \/ GotWrong
  BY <1>2, <1>7 DEF RecvLate, GotWrong
<1>8. CASE GotReady \/ GotLog \/ GotEnd \/ GotCall \/ GotVerdict
  <2>1. armed /\ armed' = FALSE /\ lateEffects' = lateEffects
    BY <1>8 DEF GotReady, GotLog, GotEnd, GotCall, GotVerdict, Take
  <2> QED BY <2>1
<1>9. CASE RunEffect
  <2>1. lateEffects = 0 /\ ~armed
    BY <1>9 DEF RunEffect
  <2> QED BY <1>9, <2>1 DEF RunEffect, Become
<1>10. CASE ReaderStep \/ Plugin \/ Deadline
  <2>1. UNCHANGED <<host, armed, lateEffects>> /\ (late' = late \/ late' = TRUE)
    BY <1>10, AsideStep DEF Aside
  <2> QED BY <2>1
<1>11. CASE UNCHANGED vars
  BY <1>11 DEF vars
<1> QED BY <1>1, <1>4, <1>5, <1>6, <1>7, <1>8, <1>9, <1>10, <1>11
        DEF Next, HostStep, HostMove, Recv

LEMMA RunInvariant == Spec => []RunInv
<1>1. RunInv /\ [Next]_vars => RunInv'
  BY TypedStep, CallStep, ProcessStep, LateStep DEF RunInv
<1> QED BY <1>1, RunInit, PTL DEF Spec

(* However a run ends, the process of the plugin is gone by then. *)
THEOREM NoOrphanEver == Spec => []NoOrphan
<1>1. RunInv => NoOrphan
  BY DEF RunInv, ProcessInv, NoOrphan
<1> QED BY <1>1, RunInvariant, PTL

(* At most one effect is run after the deadline, wherever it falls. *)
THEOREM OneEffectTooLate == Spec => []OneLateEffect
<1>1. RunInv => OneLateEffect
  BY DEF RunInv, LateInv, OneLateEffect
<1> QED BY <1>1, RunInvariant, PTL

-----------------------------------------------------------------------------
(* A step of a run is one of the mediation, or none. *)
LEMMA MediationStep ==
    ASSUME RunInv, [Next]_vars PROVE [Med!Next]_(Med!vars)
<1> USE DEF RunInv, CallInv, Hooked, runVars, callVars, hostVars
<1>s. ASSUME UNCHANGED <<hooks, asked, word, effect, report>>,
             host # "ended" \/ host' = "ended"
      PROVE  [Med!Next]_(Med!vars)
  <2>1. CASE host # "ended" /\ host' = "ended"
    BY <1>s, <2>1 DEF Med!Next, Med!End
  <2>2. CASE (host = "ended") = (host' = "ended")
    BY <1>s, <2>2 DEF Med!vars
  <2> QED BY <1>s, <2>1, <2>2
<1>1. CASE Refuse \/ Wait
  BY <1>s, <1>1 DEF Refuse, Wait, Returns
<1>2. ASSUME NEW how, Abandon(how) PROVE [Med!Next]_(Med!vars)
  BY <1>s, <1>2, AbandonStep
<1>3. ASSUME NEW pc, WriteFails(pc) PROVE [Med!Next]_(Med!vars)
  BY <1>2, <1>3 DEF WriteFails
<1>4. CASE Spawn \/ HangUp
  BY <1>s, <1>4 DEF Spawn, HangUp
<1>5. CASE WriteInitialize \/ WriteSession \/ WriteDispatch \/ WriteEnd
  BY <1>s, <1>3, <1>5 DEF WriteInitialize, WriteSession, WriteDispatch, WriteEnd, Send
<1>6. CASE WriteReply
  <2>1. CASE WriteFails("reply")
    BY <1>3, <2>1
  <2>2. CASE /\ host = "reply" /\ Become("loop")
             /\ report' = Append(report, [id |-> asked[1].id, ask |-> asked[1].ask,
                                         verdict |-> Verdict])
             /\ asked' = <<>> /\ word' = "none" /\ effect' = "none" /\ hooks' = hooks
    <3>1. Verdict = Med!Outcome
      BY DEF Verdict, Med!Outcome
    <3>2. Med!Answer
      BY <2>2, <3>1 DEF Med!Answer, Become
    <3> QED BY <3>2 DEF Med!Next
  <2> QED BY <1>6, <2>1, <2>2 DEF WriteReply, Send
<1>7. CASE RecvArm \/ GotReady \/ GotLog \/ GotEnd
  BY <1>s, <1>7 DEF RecvArm, GotReady, GotLog, GotEnd, Take, Receiving
<1>8. CASE RecvLate \/ GotWrong
  BY <1>2, <1>8 DEF RecvLate, GotWrong
<1>9. CASE GotCall
  <2>1. asked' = <<[id |-> Head(inbox).id, ask |-> Head(inbox).body]>>
        /\ host = "loop" /\ host' # "ended"
        /\ UNCHANGED <<hooks, word, effect, report>>
    BY <1>9 DEF GotCall, Take
  <2>2. asked' \in Seq([id : Nat, ask : Asks]) /\ Len(asked') = 1
    BY <1>9, <2>1, TakeTyped DEF GotCall
  <2>3. Med!Ask
    BY <2>1, <2>2 DEF Med!Ask
  <2> QED BY <2>3 DEF Med!Next
<1>10. CASE GotVerdict
  <2>1. word' \in {"continue", "veto"}
    BY <1>10, TakeTyped DEF GotVerdict, Got, Says
  <2>2. Med!Say
    BY <1>10, <2>1 DEF GotVerdict, Take, Med!Say
  <2> QED BY <2>2 DEF Med!Next
<1>11. CASE RunEffect
  <2>1. Med!Perform
    BY <1>11 DEF RunEffect, Become, Med!Perform
  <2> QED BY <2>1 DEF Med!Next
<1>12. CASE ReaderStep \/ Plugin \/ Deadline
  BY <1>s, <1>12, AsideStep DEF Aside
<1>13. CASE UNCHANGED vars
  BY <1>s, <1>13 DEF vars
<1> QED BY <1>1, <1>4, <1>5, <1>6, <1>7, <1>8, <1>9, <1>10, <1>11, <1>12, <1>13
        DEF Next, HostStep, HostMove, HostWrite, Recv

(* Whatever the plugin writes and wherever the run ends, it is a mediation: *)
(* one call at a time, an effect only for a call that the policy allows and *)
(* the hook did not veto, at most one effect and one answer for each, and a *)
(* report of the answers in order.                                          *)
THEOREM RunIsMediation == Spec => ImplementsMediation
<1>1. Init => Med!Init
  BY DEF Init, Med!Init
<1>2. RunInv /\ [Next]_vars => [Med!Next]_(Med!vars)
  BY MediationStep
<1> QED BY <1>1, <1>2, RunInvariant, PTL DEF Spec, ImplementsMediation, Med!Spec

-----------------------------------------------------------------------------
(* The frames on their way to the host, in the order in which it gets them. *)
Stream == inbox \o (held \o toHost)

(* The reader has a frame in hand only while it sends it on.                *)
HeldInv ==
    /\ reader = "sending" => \E f \in FromFrames : held = <<f>>
    /\ reader # "sending" => held = <<>>
    /\ host = "start" => reader = "none"

LEMMA StreamTyped ==
    ASSUME Typed
    PROVE  /\ Stream \in Seq(FromFrames)
           /\ Range(Stream) = Range(inbox) \cup Range(held) \cup Range(toHost)
<1>1. held \o toHost \in Seq(FromFrames)
  BY ConcatProperties DEF Typed, PipesTyped, HostTyped
<1>2. Range(held \o toHost) = Range(held) \cup Range(toHost)
  BY RangeConcatenation DEF Typed, PipesTyped, HostTyped
<1>3. Stream \in Seq(FromFrames)
  BY <1>1, ConcatProperties DEF Typed, HostTyped, Stream
<1>4. Range(Stream) = Range(inbox) \cup Range(held \o toHost)
  BY <1>1, RangeConcatenation DEF Typed, HostTyped, Stream
<1> QED BY <1>2, <1>3, <1>4

(* What the host takes is what comes first. *)
LEMMA StreamTaken ==
    ASSUME Typed, inbox # <<>>, inbox' = Tail(inbox), UNCHANGED <<held, toHost>>
    PROVE  Stream # <<>> /\ Head(Stream) = Head(inbox) /\ Stream' = Tail(Stream)
<1> DEFINE r == held \o toHost
<1>1. inbox \in Seq(FromFrames) /\ r \in Seq(FromFrames) /\ r' = r
  BY ConcatProperties DEF Typed, PipesTyped, HostTyped
<1> HIDE DEF r
<1>2. PICK t \in Seq(FromFrames), h \in FromFrames : t = Tail(inbox) /\ h = Head(inbox)
  BY <1>1, HeadTailProperties
<1>3. inbox = <<h>> \o t
  BY <1>1, <1>2, HeadTailProperties, EmptySeq
<1>4. Tail(inbox) \o r = Tail(inbox \o r) /\ Head(inbox \o r) = Head(inbox) /\ inbox \o r # <<>>
  BY <1>1, <1>2, <1>3
<1> QED BY <1>1, <1>4 DEF Stream, r

(* What the plugin writes comes last. *)
LEMMA StreamWritten ==
    ASSUME Typed, NEW f \in FromFrames, toHost' = Append(toHost, f), UNCHANGED <<inbox, held>>
    PROVE  Stream' = Append(Stream, f)
<1>1. /\ inbox \in Seq(FromFrames) /\ held \in Seq(FromFrames) /\ toHost \in Seq(FromFrames)
      /\ <<f>> \in Seq(FromFrames) /\ held \o toHost \in Seq(FromFrames)
      /\ Stream \in Seq(FromFrames)
  BY ConcatProperties, StreamTyped DEF Typed, PipesTyped, HostTyped
<1>2. held \o Append(toHost, f) = (held \o toHost) \o <<f>>
  BY <1>1, AppendIsConcat, ConcatAssociative
<1>3. inbox \o ((held \o toHost) \o <<f>>) = Stream \o <<f>>
  BY <1>1, ConcatAssociative DEF Stream
<1> QED BY <1>1, <1>2, <1>3, AppendIsConcat DEF Stream

(* What the reader passes on stays in its place. *)
LEMMA StreamRead ==
    ASSUME Typed, held = <<>>, toHost # <<>>, held' = <<Head(toHost)>>, toHost' = Tail(toHost),
           inbox' = inbox
    PROVE  Stream' = Stream
<1>1. /\ inbox \in Seq(FromFrames) /\ held \in Seq(FromFrames) /\ toHost \in Seq(FromFrames)
  BY DEF Typed, PipesTyped, HostTyped
<1>2. <<Head(toHost)>> \o Tail(toHost) = toHost
  BY <1>1, HeadTailProperties, EmptySeq
<1>3. <<>> \o toHost = toHost
  BY <1>1, ConcatEmptySeq
<1> QED BY <1>2, <1>3 DEF Stream

LEMMA StreamSent ==
    ASSUME Typed, NEW f \in FromFrames, held = <<f>>, held' = <<>>, inbox' = Append(inbox, f),
           toHost' = toHost
    PROVE  Stream' = Stream
<1>1. /\ inbox \in Seq(FromFrames) /\ held \in Seq(FromFrames) /\ toHost \in Seq(FromFrames)
      /\ <<f>> \in Seq(FromFrames)
  BY DEF Typed, PipesTyped, HostTyped
<1>2. <<>> \o toHost = toHost
  BY <1>1, ConcatEmptySeq
<1>3. Append(inbox, f) \o toHost = inbox \o (<<f>> \o toHost)
  BY <1>1, AppendIsConcat, ConcatAssociative
<1> QED BY <1>2, <1>3 DEF Stream

(* The end of the stream. *)
LEMMA StreamEnded ==
    ASSUME Typed, held = <<>>, toHost = <<>>, held' = <<Closed>>, UNCHANGED <<inbox, toHost>>
    PROVE  Stream' = Append(Stream, Closed)
<1>1. inbox \in Seq(FromFrames) /\ Closed \in FromFrames
  BY FramesMade DEF Typed, HostTyped
<1>2. Stream = inbox
  BY <1>1, ConcatEmptySeq DEF Stream
<1>3. Stream' = inbox \o <<Closed>>
  BY <1>1, ConcatEmptySeq DEF Stream
<1> QED BY <1>1, <1>2, <1>3, AppendIsConcat

(* Frames by what the order of a conversation makes of them.               *)
Calling  == {f \in FromFrames : f.type \in {"CapabilityCall", "HookResult"}}
Greeting == {f \in FromFrames : f.type = "Ready"}
Ending   == {f \in FromFrames : f.type = "closed"}
Answers  == {f \in ToFrames : f.type = "CapabilityResponse"}
Vetoing  == {f \in ToFrames : f.type = "HookDispatch" /\ f.body = "before_capability"}

(* The host has a call in hand; it has heard Ready; the SDK waits.          *)
Handling == host \in {"dispatch", "verdict", "effect", "reply"}
Greeted  == host \notin {"start", "initialize", "ready"}
Waits    == app \in {"await", "serving"}

(* The types of the host's report and of the program's history.            *)
BooksTyped ==
    /\ report \in Seq([id : Nat, ask : Asks, verdict : Words])
    /\ heard \in Seq([id : Nat, verdict : Words]) /\ performed \in Seq(Nat) /\ objected \subseteq Nat
    /\ nextId # 0

(* The books of the two sides. *)
Books ==
    /\ Len(heard) <= Len(report)
    /\ \A n \in 1 .. Len(heard) : heard[n] = [id |-> report[n].id, verdict |-> report[n].verdict]
    /\ app # "confused"
    /\ Range(performed) \cap objected = {}
    /\ IsInjective(performed)

(* The program waits for an answer that the host has not given yet, or has. *)
Unanswered == Waits /\ Len(report) = Len(heard)
Answered   == Waits /\ Len(report) = Len(heard) + 1

(* How many calls have been reported and answered, and what is known of    *)
(* the last one made.                                                      *)
Counted ==
    /\ app \in {"boot", "hello", "free", "await", "serving"}
    /\ owed # <<>> => app = "serving"
    /\ Len(report) = Len(heard) \/ Answered
    /\ asked # <<>> => asked[1].id = nextId - 1 /\ Unanswered
    /\ \A n \in objected : n < nextId
    /\ \A n \in Range(performed) :
          n < nextId /\ (n = nextId - 1 => ~ Unanswered \/ effect # "none")
    /\ Greeted => app \notin {"boot", "hello"}

(* A frame on its way to the host. *)
FrameFits(f) ==
    /\ f.type \in {"Ready", "Log", "CapabilityCall", "HookResult", "closed"}
    /\ f.type # "closed" => app \notin {"boot", "hello"}
    /\ f.type = "Ready" => ~ Greeted
    /\ f.type = "Log" => ~ Handling
    /\ f.type = "CapabilityCall" =>
          /\ app = "await" /\ ~ Handling
          /\ f.id = nextId - 1 /\ f.body \in Asks /\ Unanswered
    /\ f.type = "HookResult" =>
          /\ app = "await" /\ host = "verdict"
          /\ f.id = hookId - 1 /\ f.body \in {"continue", "veto"}
          /\ nextId - 1 \in objected => f.body = "veto"

(* No answer of a hook is on its way.                                      *)
NoResult == \A f \in Range(Stream) : f.type # "HookResult"

(* A frame on its way to the plugin. *)
ReplyFits(f) ==
    /\ f.type = "CapabilityResponse" =>
          /\ app = "await" /\ ~ Handling
          /\ f.id = nextId - 1 /\ f.id = report[Len(report)].id /\ Answered
          /\ f.body = report[Len(report)].verdict
    /\ f.type = "HookDispatch" /\ f.body = "before_capability" =>
          /\ app = "await" /\ host = "verdict" /\ f.id = hookId - 1
          /\ NoResult

(* While a hook is served, the host waits for the answer that is owed.     *)
Serving ==
    app = "serving" =>
        /\ host = "verdict" /\ NoResult
        /\ owed[1].type = "HookResult" /\ owed[1].id = hookId - 1
        /\ owed[1].body \in {"continue", "veto"}
        /\ nextId - 1 \in objected => owed[1].body = "veto"

(* A call its hook handler has not been asked about, it has not objected to. *)
Objected ==
    /\ host = "dispatch" => nextId - 1 \notin objected
    /\ host = "effect" => word # "veto" /\ nextId - 1 \notin objected
    /\ host = "verdict" /\ (\E f \in Range(toPlugin) : f \in Vetoing) => nextId - 1 \notin objected
    /\ app = "await" /\ ~ Handling /\ Unanswered => nextId - 1 \notin objected

(* All that is on its way, in either direction.                            *)
FramesInv == \A f \in Range(Stream) : FrameFits(f)
RepliesInv == \A f \in Range(toPlugin) : ReplyFits(f)

(* The end is the last of what the plugin says of calls, Ready comes once, *)
(* and an answer or a question about a call is the last word to the plugin. *)
OrderInv ==
    /\ After(Stream, Calling, Ending) /\ After(Stream, Greeting, FromFrames \ Greeting)
    /\ After(toPlugin, Answers, ToFrames \ Answers) /\ After(toPlugin, Vetoing, ToFrames \ Vetoing)

(* What an SDK plugin and the host know of each other during a run.        *)
Conversation == Counted /\ FramesInv /\ RepliesInv /\ OrderInv /\ Serving /\ Objected

(* The word of a hook could not be sent: the host waits for it in vain,    *)
(* whatever else the program says.                                         *)
Mute ==
    /\ app \in {"free", "await"} /\ owed # <<>> /\ host = "verdict"
    /\ \A f \in Range(Stream) : f.type \in {"Log", "CapabilityCall", "closed"}
    /\ \A f \in Range(toPlugin) : f \notin Answers /\ f \notin Vetoing

SdkInv == kind = "sdk" => Books /\ (host # "ended" => Conversation \/ Mute)

(* The effect that runs is of a call the policy allows.                    *)
AllowedInv == effect # "none" => asked[1].ask \in Allowed

LEMMA KindsOfFrames ==
    /\ Closed \in Ending /\ Closed \notin Greeting /\ Closed.type = "closed"
    /\ \A f \in FromFrames : f \in Calling \/ f \in Greeting \/ f \in Ending \/ f.type \notin {"CapabilityCall", "HookResult", "Ready", "closed"}
    /\ Calling \cap Ending = {} /\ Greeting \cap Ending = {} /\ Calling \cap Greeting = {}
BY FramesMade DEF Closed, Frame, Calling, Greeting, Ending

(* What the steps of a queue do to the frames in the stream. *)
LEMMA StreamPop ==
    ASSUME Typed, OrderInv, Stream # <<>>, Stream' = Tail(Stream)
    PROVE  /\ Range(Stream) = Range(Stream') \cup {Head(Stream)}
           /\ After(Stream', Calling, Ending)
           /\ After(Stream', Greeting, FromFrames \ Greeting)
           /\ Head(Stream) \in Calling => Range(Stream') \subseteq Ending
           /\ Head(Stream) \in Greeting => Range(Stream') \cap Greeting = {}
<1>1. Stream \in Seq(FromFrames)
  BY StreamTyped
<1>2. Range(Stream) = Range(Stream') \cup {Head(Stream)}
  BY <1>1, PopQueue
<1>3. /\ After(Stream', Calling, Ending)
      /\ Head(Stream) \in Calling => Range(Stream') \subseteq Ending
  BY <1>1, PopAfter DEF OrderInv
<1>4. /\ After(Stream', Greeting, FromFrames \ Greeting)
      /\ Head(Stream) \in Greeting => Range(Stream') \subseteq FromFrames \ Greeting
  BY <1>1, PopAfter DEF OrderInv
<1> QED BY <1>2, <1>3, <1>4

LEMMA StreamPush ==
    ASSUME Typed, OrderInv, NEW f \in FromFrames, Stream' = Append(Stream, f),
           f \in Ending \/ Range(Stream) \cap Calling = {},
           f \notin Greeting \/ Range(Stream) \cap Greeting = {}
    PROVE  /\ Range(Stream') = Range(Stream) \cup {f}
           /\ After(Stream', Calling, Ending)
           /\ After(Stream', Greeting, FromFrames \ Greeting)
<1>1. Stream \in Seq(FromFrames)
  BY StreamTyped
<1>2. Range(Stream') = Range(Stream) \cup {f}
  BY <1>1, PushQueue
<1>3. After(Stream', Calling, Ending)
  BY <1>1, PushAfter DEF OrderInv
<1>4. After(Stream', Greeting, FromFrames \ Greeting)
  BY <1>1, PushAfter DEF OrderInv
<1> QED BY <1>2, <1>3, <1>4

(* The same of the frames to the plugin. *)
LEMMA PipePop ==
    ASSUME Typed, OrderInv, toPlugin # <<>>, toPlugin' = Tail(toPlugin)
    PROVE  /\ Range(toPlugin) = Range(toPlugin') \cup {Head(toPlugin)}
           /\ Head(toPlugin) \in ToFrames
           /\ After(toPlugin', Answers, ToFrames \ Answers)
           /\ After(toPlugin', Vetoing, ToFrames \ Vetoing)
           /\ Head(toPlugin) \in Answers => Range(toPlugin') \cap Answers = {}
           /\ Head(toPlugin) \in Vetoing => Range(toPlugin') \cap Vetoing = {}
<1>1. toPlugin \in Seq(ToFrames)
  BY DEF Typed, PipesTyped
<1>2. Range(toPlugin) = Range(toPlugin') \cup {Head(toPlugin)} /\ Head(toPlugin) \in ToFrames
  BY <1>1, PopQueue, QueueType
<1>3. /\ After(toPlugin', Answers, ToFrames \ Answers)
      /\ Head(toPlugin) \in Answers => Range(toPlugin') \subseteq ToFrames \ Answers
  BY <1>1, PopAfter DEF OrderInv
<1>4. /\ After(toPlugin', Vetoing, ToFrames \ Vetoing)
      /\ Head(toPlugin) \in Vetoing => Range(toPlugin') \subseteq ToFrames \ Vetoing
  BY <1>1, PopAfter DEF OrderInv
<1> QED BY <1>2, <1>3, <1>4

LEMMA PipePush ==
    ASSUME Typed, OrderInv, NEW f \in ToFrames, toPlugin' = Append(toPlugin, f),
           f \notin Answers \/ Range(toPlugin) \cap Answers = {},
           f \notin Vetoing \/ Range(toPlugin) \cap Vetoing = {}
    PROVE  /\ Range(toPlugin') = Range(toPlugin) \cup {f}
           /\ After(toPlugin', Answers, ToFrames \ Answers)
           /\ After(toPlugin', Vetoing, ToFrames \ Vetoing)
<1>1. toPlugin \in Seq(ToFrames)
  BY DEF Typed, PipesTyped
<1>2. Range(toPlugin') = Range(toPlugin) \cup {f}
  BY <1>1, PushQueue
<1>3. After(toPlugin', Answers, ToFrames \ Answers)
  BY <1>1, PushAfter DEF OrderInv
<1>4. After(toPlugin', Vetoing, ToFrames \ Vetoing)
  BY <1>1, PushAfter DEF OrderInv
<1> QED BY <1>2, <1>3, <1>4

(* A step that tells neither side anything new: frames are passed on, the  *)
(* first is taken, the end of the stream follows the last; run_plugin      *)
(* stays on its side of the greeting and has no call in hand.              *)
CalmStream ==
    \/ Stream' = Stream
    \/ Stream' = Append(Stream, Closed)
    \/ Stream # <<>> /\ Stream' = Tail(Stream)

CalmPipe ==
    \/ toPlugin' = toPlugin
    \/ toPlugin' = <<>>
    \/ toPlugin # <<>> /\ toPlugin' = Tail(toPlugin)
    \/ \E f \in ToFrames \ (Answers \cup Vetoing) : toPlugin' = Append(toPlugin, f)

CalmHost == host' = host \/ (~ Handling /\ ~ Handling' /\ Greeted' = Greeted)

LEMMA CalmOrder ==
    ASSUME Typed, OrderInv, CalmStream, CalmPipe
    PROVE  /\ OrderInv'
           /\ Range(Stream') \subseteq Range(Stream) \cup {Closed}
           /\ Range(toPlugin') \subseteq Range(toPlugin) \cup (ToFrames \ (Answers \cup Vetoing))
<1>1. /\ After(Stream', Calling, Ending) /\ After(Stream', Greeting, FromFrames \ Greeting)
      /\ Range(Stream') \subseteq Range(Stream) \cup {Closed}
  <2>1. CASE Stream' = Stream
    BY <2>1 DEF OrderInv
  <2>2. CASE Stream' = Append(Stream, Closed)
    BY <2>2, KindsOfFrames, FramesMade, StreamPush
  <2>3. CASE Stream # <<>> /\ Stream' = Tail(Stream)
    BY <2>3, StreamPop
  <2> QED BY <2>1, <2>2, <2>3 DEF CalmStream
<1>2. /\ After(toPlugin', Answers, ToFrames \ Answers)
      /\ After(toPlugin', Vetoing, ToFrames \ Vetoing)
      /\ Range(toPlugin') \subseteq Range(toPlugin) \cup (ToFrames \ (Answers \cup Vetoing))
  <2>1. CASE toPlugin' = toPlugin
    BY <2>1 DEF OrderInv
  <2>2. CASE toPlugin' = <<>>
    <3>1. DOMAIN toPlugin' = {} /\ Range(toPlugin') = {}
      BY <2>2, EmptyQueue DEF Range
    <3> QED BY <3>1 DEF After
  <2>3. CASE toPlugin # <<>> /\ toPlugin' = Tail(toPlugin)
    BY <2>3, PipePop
  <2>4. ASSUME NEW f \in ToFrames \ (Answers \cup Vetoing), toPlugin' = Append(toPlugin, f)
        PROVE  <1>2!1 /\ <1>2!2 /\ <1>2!3
    BY <2>4, PipePush
  <2> QED BY <2>1, <2>2, <2>3, <2>4 DEF CalmPipe
<1> QED BY <1>1, <1>2 DEF OrderInv

LEMMA CalmStep ==
    ASSUME Typed, Conversation, CalmStream, CalmPipe, CalmHost, UNCHANGED <<sdkVars, callVars>>
    PROVE  Conversation'
<1> USE DEF Conversation, sdkVars, callVars, Unanswered, Answered, Waits
<1>1. /\ OrderInv'
      /\ Range(Stream') \subseteq Range(Stream) \cup {Closed}
      /\ Range(toPlugin') \subseteq Range(toPlugin) \cup (ToFrames \ (Answers \cup Vetoing))
  BY CalmOrder
<1>2. NoResult => NoResult'
  BY <1>1, KindsOfFrames DEF NoResult
<1>h. /\ Handling' = Handling /\ Greeted' = Greeted
      /\ \A pc \in {"dispatch", "verdict", "effect", "reply"} : host' = pc <=> host = pc
  BY DEF CalmHost, Handling, Greeted
<1>3. FramesInv'
  <2>1. ASSUME NEW f \in Range(Stream) \cup {Closed}
        PROVE  FrameFits(f)'
    <3>1. FrameFits(f)
      BY <2>1, KindsOfFrames DEF FramesInv, FrameFits
    <3> QED BY <1>h, <3>1 DEF FrameFits
  <2> QED BY <1>1, <2>1 DEF FramesInv
<1>4. RepliesInv'
  <2>1. ASSUME NEW f \in Range(toPlugin) \cup (ToFrames \ (Answers \cup Vetoing))
        PROVE  ReplyFits(f)'
    <3>1. ReplyFits(f)
      BY <2>1 DEF RepliesInv, ReplyFits, Answers, Vetoing
    <3> QED BY <1>h, <1>2, <3>1 DEF ReplyFits
  <2> QED BY <1>1, <2>1 DEF RepliesInv
<1>5. Counted'
  BY <1>h DEF Counted
<1>6. Serving'
  BY <1>h, <1>2 DEF Serving
<1>7. Objected'
  BY <1>1, <1>h DEF Objected
<1> QED BY <1>1, <1>3, <1>4, <1>5, <1>6, <1>7

(* What the steps of a conversation start from.                            *)
InTalk == Typed /\ BooksTyped /\ CallInv /\ AllowedInv /\ Books /\ Conversation

(* The plugin reads and writes. *)
LEMMA ReadStep ==
    ASSUME Typed, OrderInv, NEW type, Read(type), UNCHANGED <<inbox, held>>
    PROVE  /\ Stream' = Stream
           /\ Head(toPlugin) \in ToFrames /\ Head(toPlugin).type = type
           /\ Range(toPlugin) = Range(toPlugin') \cup {Head(toPlugin)}
           /\ OrderInv'
           /\ Head(toPlugin) \in Answers => Range(toPlugin') \cap Answers = {}
           /\ Head(toPlugin) \in Vetoing => Range(toPlugin') \cap Vetoing = {}
BY PipePop DEF Read, Stream, OrderInv

LEMMA WriteStep ==
    ASSUME Typed, OrderInv, NEW f \in FromFrames, Write(f), UNCHANGED <<inbox, held>>,
           Range(Stream) \cap Calling = {},
           f \notin Greeting \/ Range(Stream) \cap Greeting = {}
    PROVE  /\ Range(Stream') = Range(Stream) \cup {f} /\ toPlugin' = toPlugin
           /\ OrderInv'
BY StreamWritten, StreamPush DEF Write, OrderInv

(* The sizes of the books. *)
LEMMA Sizes ==
    ASSUME BooksTyped PROVE Len(heard) \in Nat /\ Len(report) \in Nat /\ Len(performed) \in Nat
BY LenProperties DEF BooksTyped

(* While the program does not wait the host has no call in hand. *)
LEMMA WhoWaits ==
    ASSUME InTalk
    PROVE  /\ ~ Waits => ~ Handling /\ asked = <<>> /\ Len(report) = Len(heard)
           /\ Handling => asked # <<>>
           /\ asked # <<>> => Unanswered /\ asked[1].id = nextId - 1
           /\ nextId \in Nat \ {0} /\ Len(heard) \in Nat /\ Len(report) \in Nat
<1>1. Handling => asked # <<>>
  BY DEF InTalk, CallInv, Handling
<1>2. /\ asked # <<>> => Unanswered /\ asked[1].id = nextId - 1
      /\ Len(report) = Len(heard) \/ Answered
  BY DEF InTalk, Conversation, Counted
<1>3. nextId \in Nat \ {0} /\ Len(heard) \in Nat /\ Len(report) \in Nat
  BY Sizes DEF InTalk, BooksTyped, Typed, PipesTyped
<1> QED BY <1>1, <1>2, <1>3 DEF Unanswered, Answered

LEMMA SdkBootStep ==
    ASSUME InTalk, SdkBoot, UNCHANGED <<hooks, inbox, held, callVars, host>> PROVE Conversation'
<1> USE DEF InTalk, Conversation, callVars, Unanswered, Answered, Waits
<1>1. /\ Stream' = Stream /\ OrderInv'
      /\ Range(toPlugin') \subseteq Range(toPlugin)
  BY ReadStep DEF SdkBoot
<1>2. app = "boot" /\ app' = "hello" /\ UNCHANGED <<nextId, objected, heard, owed>>
  BY DEF SdkBoot
<1>3. Counted'
  BY <1>2 DEF Counted, Greeted
<1>4. FramesInv'
  <2>1. ASSUME NEW f \in Range(Stream) PROVE FrameFits(f)'
    BY <1>2, <2>1 DEF FramesInv, FrameFits
  <2> QED BY <1>1, <2>1 DEF FramesInv
<1>5. RepliesInv'
  <2>1. ASSUME NEW f \in Range(toPlugin) PROVE ReplyFits(f)'
    BY <1>2, <2>1 DEF RepliesInv, ReplyFits
  <2> QED BY <1>1, <2>1 DEF RepliesInv
<1>6. Serving' /\ Objected'
  BY <1>1, <1>2 DEF Serving, Objected
<1> QED BY <1>1, <1>3, <1>4, <1>5, <1>6

LEMMA SdkReadyStep ==
    ASSUME InTalk, SdkReady, UNCHANGED <<hooks, inbox, held, callVars, host>> PROVE Conversation'
<1> USE DEF InTalk, Conversation, callVars, Unanswered, Answered, Waits
<1>2. app = "hello" /\ app' = "free" /\ UNCHANGED <<nextId, objected, heard, owed>>
  BY DEF SdkReady
<1>0. \A f \in Range(Stream) : f.type = "closed" /\ f \notin Calling /\ f \notin Greeting
  BY <1>2 DEF FramesInv, FrameFits, Calling, Greeting
<1>1. Range(Stream') = Range(Stream) \cup {Ready} /\ OrderInv' /\ toPlugin' = toPlugin
  BY <1>0, WriteStep, FramesMade DEF SdkReady
<1>3. Counted'
  BY <1>2 DEF Counted
<1>4. FramesInv'
  <2>1. ASSUME NEW f \in Range(Stream) \cup {Ready} PROVE FrameFits(f)'
    <3>1. f.type = "closed" \/ (f.type = "Ready" /\ ~ Greeted)
      BY <1>0, <1>2, <2>1 DEF Ready, Frame, Counted
    <3> QED BY <1>2, <3>1 DEF FrameFits, Greeted
  <2> QED BY <1>1, <2>1 DEF FramesInv
<1>5. RepliesInv'
  <2>1. ASSUME NEW f \in Range(toPlugin) PROVE ReplyFits(f)'
    BY <1>2, <2>1 DEF RepliesInv, ReplyFits
  <2> QED BY <1>1, <2>1 DEF RepliesInv
<1>6. Serving' /\ Objected'
  BY <1>1, <1>2 DEF Serving, Objected
<1> QED BY <1>1, <1>3, <1>4, <1>5, <1>6

LEMMA SdkLogStep ==
    ASSUME InTalk, SdkLog, UNCHANGED <<hooks, inbox, held, callVars, host>> PROVE Conversation'
<1> USE DEF InTalk, Conversation, callVars, Unanswered, Answered, Waits
<1>2. app = "free" /\ UNCHANGED <<app, nextId, objected, heard, owed>>
  BY DEF SdkLog, sdkVars
<1>0. \A f \in Range(Stream) : f \notin Calling
  BY <1>2 DEF FramesInv, FrameFits, Calling
<1>1. Range(Stream') = Range(Stream) \cup {Log} /\ OrderInv' /\ toPlugin' = toPlugin
  <2>1. Log \notin Greeting
    BY DEF Log, Frame, Greeting
  <2> QED BY <1>0, <2>1, WriteStep, FramesMade DEF SdkLog
<1>n. ~ Handling
  BY <1>2, WhoWaits
<1>3. Counted'
  BY <1>2 DEF Counted, Greeted
<1>4. FramesInv'
  <2>1. ASSUME NEW f \in Range(Stream) \cup {Log} PROVE FrameFits(f)'
    <3>1. FrameFits(f)
      BY <1>2, <1>n, <2>1 DEF FramesInv, FrameFits, Log, Frame
    <3> QED BY <1>2, <3>1 DEF FrameFits, Greeted, Handling
  <2> QED BY <1>1, <2>1 DEF FramesInv
<1>5. RepliesInv'
  <2>1. ASSUME NEW f \in Range(toPlugin) PROVE ReplyFits(f)'
    BY <1>2, <2>1 DEF RepliesInv, ReplyFits
  <2> QED BY <1>1, <2>1 DEF RepliesInv
<1>6. Serving' /\ Objected'
  BY <1>1, <1>2 DEF Serving, Objected
<1> QED BY <1>1, <1>3, <1>4, <1>5, <1>6

LEMMA SdkRequestStep ==
    ASSUME InTalk, NEW a \in Asks, SdkRequest(a), UNCHANGED <<hooks, inbox, held, callVars, host>>
    PROVE  Conversation'
<1> USE DEF InTalk, Conversation, callVars, Unanswered, Answered, Waits
<1> DEFINE c == Frame("CapabilityCall", nextId, a)
<1>2. /\ app = "free" /\ app' = "await" /\ nextId' = nextId + 1
      /\ UNCHANGED <<objected, heard, owed>> /\ nextId \in Nat
  BY DEF SdkRequest, Typed, PipesTyped
<1>c. /\ c \in FromFrames /\ c.type = "CapabilityCall" /\ c.id = nextId /\ c.body = a
      /\ c \notin Greeting
  BY <1>2, FramesMade DEF Frame, Greeting
<1> HIDE DEF c
<1>0. \A f \in Range(Stream) : f \notin Calling /\ f.type \in {"Ready", "Log", "closed"}
  BY <1>2 DEF FramesInv, FrameFits, Calling
<1>1. Range(Stream') = Range(Stream) \cup {c} /\ OrderInv' /\ toPlugin' = toPlugin
  BY <1>0, <1>c, WriteStep DEF SdkRequest, c
<1>n. ~ Handling /\ asked = <<>> /\ Len(report) = Len(heard) /\ Len(heard) \in Nat
  BY <1>2, WhoWaits
<1>3. Counted'
  <2>1. \A n \in Range(performed) : n < nextId /\ n \in Nat
    <3>1. Range(performed) \subseteq Nat
      BY RangeOfSeq DEF BooksTyped
    <3> QED BY <3>1 DEF Counted
  <2>2. \A n \in Range(performed) : n < nextId' /\ n # nextId' - 1
    BY <1>2, <2>1
  <2>3. \A n \in objected : n < nextId'
    BY <1>2 DEF Counted, BooksTyped
  <2> QED BY <1>2, <1>n, <2>2, <2>3 DEF Counted, Greeted
<1>4. FramesInv'
  <2>1. ASSUME NEW f \in Range(Stream) \cup {c} PROVE FrameFits(f)'
    <3>1. CASE f = c
      BY <1>2, <1>c, <1>n, <3>1, Sizes DEF FrameFits, Handling
    <3>2. CASE f \in Range(Stream)
      BY <1>0, <1>2, <3>2 DEF FramesInv, FrameFits, Greeted, Handling
    <3> QED BY <2>1, <3>1, <3>2
  <2> QED BY <1>1, <2>1 DEF FramesInv
<1>5. RepliesInv'
  <2>1. ASSUME NEW f \in Range(toPlugin) PROVE ReplyFits(f)'
    BY <1>2, <2>1 DEF RepliesInv, ReplyFits
  <2> QED BY <1>1, <2>1 DEF RepliesInv
<1>6. Serving' /\ Objected'
  <2>1. nextId' - 1 \notin objected'
    BY <1>2 DEF Counted, BooksTyped
  <2> QED BY <1>2, <2>1 DEF Serving, Objected
<1> QED BY <1>1, <1>3, <1>4, <1>5, <1>6

LEMMA SdkRequestTooLargeStep ==
    ASSUME InTalk, SdkRequestTooLarge, UNCHANGED <<hooks, inbox, held, callVars, host>>
    PROVE  Conversation'
<1> USE DEF InTalk, Conversation, callVars, Unanswered, Answered, Waits
<1>1. /\ app = "free" /\ app' = "free" /\ nextId' = nextId + 1 /\ nextId \in Nat
      /\ UNCHANGED <<objected, heard, owed, Stream, toPlugin>>
  BY DEF SdkRequestTooLarge, Typed, PipesTyped, pipeVars, Stream
<1>2. asked = <<>> /\ ~ Handling
  BY <1>1, WhoWaits
<1>3. Counted'
  <2>1. \A n \in Range(performed) \cup objected : n < nextId /\ n \in Nat
    <3>1. Range(performed) \subseteq Nat /\ objected \subseteq Nat
      BY RangeOfSeq DEF BooksTyped
    <3> QED BY <3>1 DEF Counted
  <2>2. \A n \in Range(performed) \cup objected : n < nextId'
    BY <1>1, <2>1
  <2> QED BY <1>1, <1>2, <2>2 DEF Counted, Greeted
<1>4. FramesInv'
  <2>1. ASSUME NEW f \in Range(Stream) PROVE FrameFits(f)'
    BY <1>1, <2>1 DEF FramesInv, FrameFits, Greeted, Handling
  <2> QED BY <1>1, <2>1 DEF FramesInv
<1>5. RepliesInv'
  <2>1. ASSUME NEW f \in Range(toPlugin) PROVE ReplyFits(f)'
    BY <1>1, <2>1 DEF RepliesInv, ReplyFits
  <2> QED BY <1>1, <2>1 DEF RepliesInv
<1>6. Serving' /\ Objected' /\ OrderInv'
  BY <1>1, <1>2 DEF Serving, Objected, OrderInv, Handling
<1> QED BY <1>3, <1>4, <1>5, <1>6

LEMMA SdkHookStep ==
    ASSUME InTalk, NEW o \in {"continue", "veto"}, SdkHook(o),
           UNCHANGED <<hooks, inbox, held, callVars, host>>
    PROVE  Conversation' /\ Books'
<1> USE DEF InTalk, Conversation, callVars, Unanswered, Answered, Waits
<1> DEFINE d == Head(toPlugin)
<1>1. /\ Stream' = Stream /\ OrderInv' /\ d \in Vetoing
      /\ Range(toPlugin) = Range(toPlugin') \cup {d}
      /\ Range(toPlugin') \cap Vetoing = {}
  BY ReadStep DEF SdkHook, Vetoing
<1>2. /\ app = "await" /\ app' = "serving" /\ UNCHANGED <<nextId, heard>>
      /\ owed' = <<Frame("HookResult", d.id, o)>>
      /\ objected' = IF o = "veto" THEN objected \cup {nextId - 1} ELSE objected
  BY DEF SdkHook
<1>3. host = "verdict" /\ d.id = hookId - 1 /\ NoResult
  BY <1>1 DEF RepliesInv, ReplyFits, Vetoing
<1> HIDE DEF d
<1>n. /\ asked # <<>> /\ asked[1].id = nextId - 1 /\ Unanswered
      /\ nextId \in Nat /\ effect = "none" /\ Handling
  BY <1>3, WhoWaits DEF CallInv, Handling
<1>4. nextId - 1 \notin Range(performed)
  BY <1>n DEF Counted
<1>5. Books'
  BY <1>2, <1>4 DEF Books
<1>6. Counted'
  BY <1>2, <1>3, <1>n DEF Counted, Greeted
<1>7. FramesInv'
  <2>1. ASSUME NEW f \in Range(Stream) PROVE FrameFits(f)'
    <3>1. f.type \in {"Ready", "Log", "closed"}
      BY <1>3, <1>n, <2>1 DEF NoResult, FramesInv, FrameFits
    <3> QED BY <1>2, <2>1, <3>1 DEF FramesInv, FrameFits, Greeted, Handling
  <2> QED BY <1>1, <2>1 DEF FramesInv
<1>8. RepliesInv'
  <2>1. ASSUME NEW f \in Range(toPlugin') PROVE ReplyFits(f)'
    <3>1. f \in Range(toPlugin) /\ f \in ToFrames /\ f \notin Vetoing
      <4>1. Range(toPlugin) \subseteq ToFrames
        BY RangeOfSeq DEF Typed, PipesTyped
      <4> QED BY <1>1, <2>1, <4>1
    <3>2. f.type # "CapabilityResponse"
      BY <1>n, <3>1 DEF RepliesInv, ReplyFits
    <3> QED BY <3>1, <3>2 DEF ReplyFits, Vetoing
  <2> QED BY <2>1 DEF RepliesInv
<1>9. Serving'
  <2>1. owed'[1] = Frame("HookResult", d.id, o)
    BY <1>2
  <2>2. NoResult' /\ host' = "verdict" /\ hookId' = hookId /\ nextId' = nextId
    BY <1>1, <1>2, <1>3 DEF NoResult
  <2>3. nextId - 1 \in objected' => o = "veto"
    <3>1. nextId - 1 \notin objected
      <4>1. d \in Range(toPlugin)
        BY <1>1
      <4> QED BY <1>1, <1>3, <4>1 DEF Objected
    <3> QED BY <1>2, <3>1
  <2> QED BY <1>3, <2>1, <2>2, <2>3 DEF Serving, Frame
<1>10. Objected'
  BY <1>1, <1>2, <1>3 DEF Objected
<1> QED BY <1>1, <1>5, <1>6, <1>7, <1>8, <1>9, <1>10

LEMMA SdkHookReplyStep ==
    ASSUME InTalk, SdkHookReply, UNCHANGED <<hooks, inbox, held, callVars, host>>
    PROVE  Conversation'
<1> USE DEF InTalk, Conversation, callVars, Unanswered, Answered, Waits
<1> DEFINE r == owed[1]
<1>1. /\ app = "serving" /\ app' = "await" /\ owed' = <<>>
      /\ UNCHANGED <<nextId, heard, objected>>
      /\ Write(r)
  BY DEF SdkHookReply
<1>2. /\ host = "verdict" /\ NoResult
      /\ r.type = "HookResult" /\ r.id = hookId - 1 /\ r.body \in {"continue", "veto"}
      /\ nextId - 1 \in objected => r.body = "veto"
  BY <1>1 DEF Serving
<1>3. r \in FromFrames
  <2>1. Head(owed) \in FromFrames /\ Head(owed) = owed[1]
    BY <1>1, QueueType DEF Typed, PipesTyped
  <2> QED BY <2>1
<1> HIDE DEF r
<1>4. \A f \in Range(Stream) : f.type \in {"Ready", "Log", "closed"} /\ f \notin Calling
  BY <1>1, <1>2 DEF FramesInv, FrameFits, NoResult, Calling
<1>5. Range(Stream') = Range(Stream) \cup {r} /\ toPlugin' = toPlugin /\ OrderInv'
  <2>1. r \notin Greeting
    BY <1>2 DEF Greeting
  <2> QED BY <1>1, <1>3, <1>4, <2>1, WriteStep
<1>6. Counted'
  BY <1>1, <1>2 DEF Counted, Greeted
<1>7. FramesInv'
  <2>1. ASSUME NEW f \in Range(Stream) \cup {r} PROVE FrameFits(f)'
    <3>1. CASE f = r
      BY <1>1, <1>2, <3>1 DEF FrameFits
    <3>2. CASE f \in Range(Stream)
      BY <1>1, <1>4, <3>2 DEF FramesInv, FrameFits, Greeted, Handling
    <3> QED BY <2>1, <3>1, <3>2
  <2> QED BY <1>5, <2>1 DEF FramesInv
<1>8. RepliesInv'
  <2>1. ASSUME NEW f \in Range(toPlugin) PROVE ReplyFits(f)'
    BY <1>1, <2>1 DEF RepliesInv, ReplyFits
  <2> QED BY <1>5, <2>1 DEF RepliesInv
<1>9. Serving' /\ Objected'
  <2>1. \A f \in Range(toPlugin) : f \notin Vetoing
    BY <1>1 DEF RepliesInv, ReplyFits, Vetoing
  <2> QED BY <1>1, <1>2, <1>5, <2>1 DEF Serving, Objected, Handling
<1> QED BY <1>5, <1>6, <1>7, <1>8, <1>9

(* The word of a hook that is too long to send. *)
LEMMA SdkHookReplyTooLargeStep ==
    ASSUME InTalk, SdkHookReplyTooLarge, UNCHANGED <<hooks, inbox, held, callVars, host>>
    PROVE  Mute' /\ Books'
<1> USE DEF InTalk, Conversation, callVars
<1>1. /\ app = "serving" /\ app' = "free" /\ owed # <<>>
      /\ UNCHANGED <<objected, heard, owed, Stream, toPlugin>>
  BY DEF SdkHookReplyTooLarge, Typed, PipesTyped, pipeVars, Stream
<1>2. host = "verdict" /\ NoResult
  BY <1>1 DEF Serving
<1>3. \A f \in Range(Stream) : f.type = "closed"
  BY <1>1, <1>2 DEF FramesInv, FrameFits, NoResult, Greeted, Handling
<1>4. \A f \in Range(toPlugin) : f \notin Answers /\ f \notin Vetoing
  BY <1>1 DEF RepliesInv, ReplyFits, Answers, Vetoing
<1> QED BY <1>1, <1>2, <1>3, <1>4 DEF Mute, Books

LEMMA SdkAnswerStep ==
    ASSUME InTalk, SdkAnswer, UNCHANGED <<hooks, inbox, held, callVars, host>>
    PROVE  Conversation' /\ Books'
<1> USE DEF InTalk, Conversation, callVars, Unanswered, Answered, Waits
<1> DEFINE d == Head(toPlugin)
<1>1. /\ Stream' = Stream /\ OrderInv' /\ d \in Answers
      /\ Range(toPlugin) = Range(toPlugin') \cup {d}
      /\ Range(toPlugin') \cap Answers = {}
  BY ReadStep DEF SdkAnswer, Answers
<1>2. /\ ~ Handling /\ d.id = nextId - 1 /\ Answered
      /\ d.id = report[Len(report)].id /\ d.body = report[Len(report)].verdict
  BY <1>1 DEF RepliesInv, ReplyFits, Answers
<1>3. /\ app = "await" /\ app' = "free" /\ UNCHANGED <<nextId, objected, owed>>
      /\ heard' = Append(heard, [id |-> nextId - 1, verdict |-> d.body])
  BY <1>2 DEF SdkAnswer
<1>4. [id |-> nextId - 1, verdict |-> d.body] \in [id : Nat, verdict : Words]
  BY <1>1, WhoWaits DEF Answers, ToFrames
<1> HIDE DEF d
<1>5. /\ Len(heard') = Len(heard) + 1
      /\ heard'[Len(heard) + 1] = [id |-> nextId - 1, verdict |-> d.body]
      /\ \A n \in 1 .. Len(heard) : heard'[n] = heard[n]
  BY <1>3, <1>4, AppendProperties DEF BooksTyped
<1>6. /\ Len(heard) \in Nat /\ Len(report) \in Nat /\ Len(heard) + 1 = Len(report)
  BY <1>2, Sizes
<1>7. Books'
  <2>1. \A n \in 1 .. Len(heard') : heard'[n] = [id |-> report[n].id, verdict |-> report[n].verdict]
    <3>1. ASSUME NEW n \in 1 .. Len(heard')
          PROVE  heard'[n] = [id |-> report[n].id, verdict |-> report[n].verdict]
      <4>1. CASE n = Len(heard) + 1
        BY <1>2, <1>5, <1>6, <4>1
      <4>2. CASE n # Len(heard) + 1
        <5>1. n \in 1 .. Len(heard)
          BY <1>5, <1>6, <4>2
        <5> QED BY <1>5, <5>1 DEF Books
      <4> QED BY <4>1, <4>2
    <3> QED BY <3>1
  <2>2. Len(heard') <= Len(report)
    BY <1>5, <1>6
  <2> QED BY <1>3, <2>1, <2>2 DEF Books
<1>8. Counted'
  <2>1. Len(report) = Len(heard')
    BY <1>5, <1>6
  <2>2. asked = <<>>
    BY <1>2, <1>6, WhoWaits
  <2> QED BY <1>3, <2>1, <2>2 DEF Counted, Greeted
<1>9. FramesInv'
  <2>1. ASSUME NEW f \in Range(Stream) PROVE FrameFits(f)'
    <3>1. f.type \in {"Ready", "Log", "closed"}
      BY <1>2, <1>6, <2>1, WhoWaits DEF Handling, FramesInv, FrameFits
    <3> QED BY <1>3, <2>1, <3>1 DEF FramesInv, FrameFits, Greeted, Handling
  <2> QED BY <1>1, <2>1 DEF FramesInv
<1>10. RepliesInv'
  <2>1. ASSUME NEW f \in Range(toPlugin') PROVE ReplyFits(f)'
    <3>1. f \in Range(toPlugin) /\ f \in ToFrames /\ f \notin Answers
      <4>1. Range(toPlugin) \subseteq ToFrames
        BY RangeOfSeq DEF Typed, PipesTyped
      <4> QED BY <1>1, <2>1, <4>1
    <3>2. ~ (f.type = "HookDispatch" /\ f.body = "before_capability")
      BY <1>2, <3>1 DEF RepliesInv, ReplyFits, Handling
    <3> QED BY <3>1, <3>2 DEF ReplyFits, Answers
  <2> QED BY <2>1 DEF RepliesInv
<1>11. Serving' /\ Objected'
  BY <1>2, <1>3 DEF Serving, Objected, Handling
<1> QED BY <1>1, <1>7, <1>8, <1>9, <1>10, <1>11

(* The host takes a frame. *)
LEMMA TakeStep ==
    ASSUME InTalk, Take
    PROVE  /\ Stream # <<>> /\ Head(Stream) = Head(inbox) /\ Stream' = Tail(Stream)
           /\ Head(inbox) \in FromFrames /\ FrameFits(Head(inbox))
           /\ Range(Stream) = Range(Stream') \cup {Head(inbox)}
           /\ OrderInv'
           /\ Head(inbox) \in Calling => Range(Stream') \subseteq Ending
           /\ Head(inbox) \in Greeting => Range(Stream') \cap Greeting = {}
           /\ UNCHANGED <<toPlugin, app, nextId, objected, heard, owed, hooks>>
<1> USE DEF InTalk, Conversation, Unanswered, Answered, Waits
<1>1. /\ inbox # <<>> /\ inbox' = Tail(inbox)
      /\ UNCHANGED <<held, toHost, toPlugin, app, nextId, objected, heard, owed, hooks>>
  BY DEF Take, plugVars, sdkVars, pipeVars, runVars
<1>2. Stream # <<>> /\ Head(Stream) = Head(inbox) /\ Stream' = Tail(Stream)
  BY <1>1, StreamTaken
<1>3. Head(inbox) \in FromFrames
  BY TakeTyped
<1>4. /\ Range(Stream) = Range(Stream') \cup {Head(inbox)}
      /\ After(Stream', Calling, Ending)
      /\ After(Stream', Greeting, FromFrames \ Greeting)
      /\ Head(inbox) \in Calling => Range(Stream') \subseteq Ending
      /\ Head(inbox) \in Greeting => Range(Stream') \cap Greeting = {}
  BY <1>2, StreamPop
<1>5. FrameFits(Head(inbox))
  BY <1>4 DEF FramesInv
<1>6. OrderInv'
  BY <1>1, <1>4 DEF OrderInv
<1> QED BY <1>1, <1>2, <1>3, <1>4, <1>5, <1>6

LEMMA GotReadyStep == ASSUME InTalk, GotReady PROVE Conversation'
<1> USE DEF InTalk, Conversation, Unanswered, Answered, Waits
<1> DEFINE d == Head(inbox)
<1>1. /\ FrameFits(d) /\ d.type = "Ready" /\ OrderInv'
      /\ Range(Stream) = Range(Stream') \cup {d}
      /\ Range(Stream') \cap Greeting = {} /\ Range(Stream') \subseteq FromFrames
      /\ UNCHANGED <<toPlugin, app, nextId, objected, heard, owed>>
  <2>1. d \in Greeting
    BY TakeStep DEF GotReady, Got, Greeting
  <2>2. Range(Stream) \subseteq FromFrames
    BY StreamTyped, RangeOfSeq
  <2> QED BY <2>1, <2>2, TakeStep DEF GotReady, Got
<1>2. /\ host = "ready" /\ host' \in {"session", "loop"}
      /\ UNCHANGED <<asked, word, effect, report, performed, lateEffects, hookId>>
  BY DEF GotReady, callVars
<1> HIDE DEF d
<1>3. app \notin {"boot", "hello"}
  BY <1>1 DEF FrameFits
<1>4. Counted'
  BY <1>1, <1>2, <1>3 DEF Counted
<1>5. FramesInv'
  <2>1. ASSUME NEW f \in Range(Stream') PROVE FrameFits(f)'
    <3>1. f.type # "Ready" /\ FrameFits(f)
      BY <1>1, <2>1 DEF Greeting, FramesInv
    <3> QED BY <1>1, <1>2, <3>1 DEF FrameFits, Handling
  <2> QED BY <2>1 DEF FramesInv
<1>6. RepliesInv'
  <2>1. ASSUME NEW f \in Range(toPlugin) PROVE ReplyFits(f)'
    BY <1>1, <1>2, <2>1 DEF RepliesInv, ReplyFits, Handling
  <2> QED BY <1>1, <2>1 DEF RepliesInv
<1>7. Serving' /\ Objected'
  BY <1>1, <1>2 DEF Serving, Objected, Handling
<1> QED BY <1>1, <1>4, <1>5, <1>6, <1>7

LEMMA GotCallStep == ASSUME InTalk, GotCall PROVE Conversation'
<1> USE DEF InTalk, Conversation, Unanswered, Answered, Waits
<1> DEFINE d == Head(inbox)
<1>1. /\ FrameFits(d) /\ d.type = "CapabilityCall" /\ OrderInv'
      /\ Range(Stream') \subseteq Ending
      /\ UNCHANGED <<toPlugin, app, nextId, objected, heard, owed>>
  <2>1. d \in Calling
    BY TakeStep DEF GotCall, Got, Calling
  <2> QED BY <2>1, TakeStep DEF GotCall, Got
<1>2. /\ host = "loop" /\ host' \in {"reply", "dispatch", "effect"}
      /\ asked' = <<[id |-> d.id, ask |-> d.body]>>
      /\ UNCHANGED <<word, effect, report, performed, lateEffects, hookId>>
  BY DEF GotCall
<1>3. word = "none" /\ effect = "none"
  BY <1>2 DEF CallInv
<1> HIDE DEF d
<1>4. /\ app = "await" /\ d.id = nextId - 1 /\ Unanswered
      /\ nextId - 1 \notin objected
  BY <1>1, <1>2 DEF FrameFits, Objected
<1>5. Counted'
  <2>1. asked'[1].id = nextId - 1
    BY <1>2, <1>4
  <2> QED BY <1>1, <1>2, <1>3, <1>4, <2>1 DEF Counted
<1>6. FramesInv'
  BY <1>1, <1>4 DEF FramesInv, FrameFits, Ending
<1>7. RepliesInv'
  <2>1. ASSUME NEW f \in Range(toPlugin) PROVE ReplyFits(f)'
    <3>1. /\ f.type # "CapabilityResponse"
          /\ ~ (f.type = "HookDispatch" /\ f.body = "before_capability")
      BY <1>2, <1>4, <2>1, WhoWaits DEF RepliesInv, ReplyFits
    <3> QED BY <3>1 DEF ReplyFits
  <2> QED BY <1>1, <2>1 DEF RepliesInv
<1>8. Serving' /\ Objected'
  BY <1>1, <1>2, <1>3, <1>4 DEF Serving, Objected, Handling
<1> QED BY <1>1, <1>5, <1>6, <1>7, <1>8

LEMMA GotVerdictStep == ASSUME InTalk, GotVerdict PROVE Conversation'
<1> USE DEF InTalk, Conversation, Unanswered, Answered, Waits
<1> DEFINE d == Head(inbox)
<1>1. /\ FrameFits(d) /\ d.type = "HookResult" /\ OrderInv'
      /\ Range(Stream') \subseteq Ending
      /\ d \in Range(Stream)
      /\ UNCHANGED <<toPlugin, app, nextId, objected, heard, owed>>
  <2>1. d \in Calling
    BY TakeStep DEF GotVerdict, Got, Calling
  <2> QED BY <2>1, TakeStep DEF GotVerdict, Got
<1>2. /\ host = "verdict" /\ word' = d.body
      /\ host' = IF d.body = "veto" THEN "reply" ELSE "effect"
      /\ UNCHANGED <<asked, effect, report, performed, lateEffects, hookId>>
  BY DEF GotVerdict
<1> HIDE DEF d
<1>3. /\ app = "await" /\ d.body \in {"continue", "veto"}
      /\ nextId - 1 \in objected => d.body = "veto"
      /\ ~ NoResult
  BY <1>1 DEF FrameFits, NoResult
<1>4. Handling /\ Handling' /\ Greeted /\ Greeted'
  BY <1>2 DEF Handling, Greeted
<1>5. Counted'
  BY <1>1, <1>2, <1>4 DEF Counted
<1>6. FramesInv'
  BY <1>1, <1>3 DEF FramesInv, FrameFits, Ending
<1>7. RepliesInv'
  <2>1. ASSUME NEW f \in Range(toPlugin) PROVE ReplyFits(f)'
    <3>1. /\ f.type # "CapabilityResponse"
          /\ ~ (f.type = "HookDispatch" /\ f.body = "before_capability")
      BY <1>3, <1>4, <2>1 DEF RepliesInv, ReplyFits
    <3> QED BY <3>1 DEF ReplyFits
  <2> QED BY <1>1, <2>1 DEF RepliesInv
<1>8. Serving' /\ Objected'
  BY <1>1, <1>2, <1>3, <1>4 DEF Serving, Objected
<1> QED BY <1>1, <1>5, <1>6, <1>7, <1>8

(* The host sends a frame. *)
LEMMA SendStep ==
    ASSUME InTalk, NEW f \in ToFrames, Send(f),
           f \notin Answers \/ Range(toPlugin) \cap Answers = {},
           f \notin Vetoing \/ Range(toPlugin) \cap Vetoing = {}
    PROVE  /\ Stream' = Stream /\ OrderInv'
           /\ Range(toPlugin') = Range(toPlugin) \cup {f}
           /\ UNCHANGED <<app, nextId, objected, heard, owed, hooks>>
<1> USE DEF InTalk, Conversation, Unanswered, Answered, Waits
<1>1. /\ toPlugin' = Append(toPlugin, f)
      /\ UNCHANGED <<inbox, held, toHost, app, nextId, objected, heard, owed, hooks>>
  BY DEF Send, readerVars, sdkVars, runVars
<1>2. /\ Range(toPlugin') = Range(toPlugin) \cup {f}
      /\ After(toPlugin', Answers, ToFrames \ Answers)
      /\ After(toPlugin', Vetoing, ToFrames \ Vetoing)
  BY <1>1, PipePush
<1>3. Stream' = Stream
  BY <1>1 DEF Stream
<1> QED BY <1>1, <1>2, <1>3 DEF OrderInv

LEMMA WriteDispatchStep ==
    ASSUME InTalk, WriteDispatch, ~ WriteFails("dispatch") PROVE Conversation'
<1> USE DEF InTalk, Conversation, Unanswered, Answered, Waits
<1> DEFINE d == Frame("HookDispatch", hookId, "before_capability")
<1>1. /\ host = "dispatch" /\ host' = "verdict" /\ hookId' = hookId + 1 /\ hookId \in Nat
      /\ Send(d)
      /\ UNCHANGED <<asked, word, effect, report, performed, lateEffects>>
  BY DEF WriteDispatch, Become, Typed, HostTyped
<1>2. /\ d \in Vetoing /\ d \notin Answers /\ d.id = hookId /\ d.type = "HookDispatch"
  BY <1>1 DEF Frame, ToFrames, Types, Words, Vetoing, Answers
<1> HIDE DEF d
<1>n. /\ Unanswered /\ asked # <<>> /\ Handling /\ Handling'
      /\ Greeted /\ Greeted'
  BY <1>1, WhoWaits DEF Handling, Greeted
<1>3. app = "await" /\ nextId - 1 \notin objected
  BY <1>1, <1>n DEF Serving, Objected
<1>4. \A f \in Range(toPlugin) :
        /\ f.type # "CapabilityResponse"
        /\ ~ (f.type = "HookDispatch" /\ f.body = "before_capability")
  BY <1>1, <1>n DEF RepliesInv, ReplyFits
<1>5. /\ Stream' = Stream /\ OrderInv'
      /\ Range(toPlugin') = Range(toPlugin) \cup {d}
      /\ UNCHANGED <<app, nextId, objected, heard, owed>>
  <2>1. d \in ToFrames /\ Range(toPlugin) \cap Vetoing = {}
    BY <1>2, <1>4 DEF Vetoing
  <2> QED BY <1>1, <1>2, <2>1, SendStep
<1>6. Counted'
  BY <1>1, <1>5, <1>n DEF Counted
<1>7. \A f \in Range(Stream) : f.type = "closed"
  BY <1>1, <1>n DEF FramesInv, FrameFits
<1>8. FramesInv'
  BY <1>5, <1>7, <1>3 DEF FramesInv, FrameFits
<1>9. NoResult'
  BY <1>5, <1>7 DEF NoResult
<1>10. RepliesInv'
  <2>1. ASSUME NEW f, f = d PROVE ReplyFits(f)'
    <3>1. f.type = "HookDispatch" /\ f.id = hookId' - 1
      BY <1>1, <1>2, <2>1
    <3> QED BY <1>1, <1>3, <1>5, <1>9, <3>1 DEF ReplyFits
  <2>2. ASSUME NEW f \in Range(toPlugin) PROVE ReplyFits(f)'
    BY <1>4, <2>2 DEF ReplyFits
  <2> QED BY <1>5, <2>1, <2>2 DEF RepliesInv
<1>11. Serving' /\ Objected'
  BY <1>1, <1>3, <1>5, <1>n DEF Serving, Objected
<1> QED BY <1>5, <1>6, <1>8, <1>10, <1>11

LEMMA RunEffectStep == ASSUME InTalk, RunEffect PROVE Conversation' /\ Books'
<1> USE DEF InTalk, Conversation, Unanswered, Answered, Waits
<1>1. /\ host = "effect" /\ host' = "reply" /\ effect' # "none"
      /\ performed' = Append(performed, asked[1].id)
      /\ UNCHANGED <<asked, word, report, hookId, toPlugin, Stream, app, nextId, objected, heard, owed>>
  BY DEF RunEffect, Become, readerVars, plugVars, pipeVars, sdkVars, Stream
<1>2. /\ Handling /\ Handling' /\ Greeted /\ Greeted'
  BY <1>1 DEF Handling, Greeted
<1>3. /\ effect = "none" /\ asked # <<>> /\ asked[1].id = nextId - 1 /\ Unanswered
      /\ nextId - 1 \in Nat /\ nextId \in Nat
      /\ nextId - 1 \notin objected
  BY <1>1, <1>2, WhoWaits DEF CallInv, Objected
<1>5. nextId - 1 \notin Range(performed)
  BY <1>3 DEF Counted
<1>6. /\ Range(performed') = Range(performed) \cup {nextId - 1}
      /\ IsInjective(performed')
  BY <1>1, <1>3, <1>5, PushQueue DEF BooksTyped, Books
<1>7. Books'
  BY <1>1, <1>3, <1>6 DEF Books
<1>8. Counted'
  <2>1. \A n \in Range(performed') : n < nextId
    BY <1>3, <1>6 DEF Counted
  <2> QED BY <1>1, <1>2, <1>3, <2>1 DEF Counted
<1>9. FramesInv'
  <2>1. ASSUME NEW f \in Range(Stream) PROVE FrameFits(f)'
    BY <1>1, <1>2, <2>1 DEF FramesInv, FrameFits
  <2> QED BY <1>1, <2>1 DEF FramesInv
<1>10. RepliesInv'
  <2>1. ASSUME NEW f \in Range(toPlugin) PROVE ReplyFits(f)'
    BY <1>1, <1>2, <2>1 DEF RepliesInv, ReplyFits
  <2> QED BY <1>1, <2>1 DEF RepliesInv
<1>11. Serving' /\ Objected' /\ OrderInv'
  BY <1>1, <1>2 DEF Serving, Objected, OrderInv
<1> QED BY <1>7, <1>8, <1>9, <1>10, <1>11

LEMMA WriteReplyStep ==
    ASSUME InTalk, WriteReply, ~ WriteFails("reply") PROVE Conversation' /\ Books'
<1> USE DEF InTalk, Conversation, Unanswered, Answered, Waits
<1> DEFINE d == Frame("CapabilityResponse", asked[1].id, Verdict)
           e == [id |-> asked[1].id, ask |-> asked[1].ask, verdict |-> Verdict]
<1>1. /\ host = "reply" /\ host' = "loop" /\ Send(d)
      /\ report' = Append(report, e) /\ asked' = <<>> /\ word' = "none" /\ effect' = "none"
      /\ UNCHANGED <<performed, lateEffects, hookId>>
  BY DEF WriteReply, Become
<1>2. /\ Handling /\ ~ Handling' /\ Greeted /\ Greeted'
  BY <1>1 DEF Handling, Greeted
<1>3. /\ asked # <<>> /\ asked[1].id = nextId - 1 /\ Unanswered
      /\ nextId \in Nat \ {0} /\ Len(report) \in Nat /\ Len(heard) \in Nat
  BY <1>2, WhoWaits
<1>4. app = "await"
  BY <1>1, <1>3 DEF Serving
<1>5. asked[1] \in Calls /\ Verdict \in Words
  <2>1. Head(asked) \in Calls /\ Head(asked) = asked[1]
    BY <1>3, QueueType DEF Typed, HostTyped
  <2>2. Verdict \in Words
    BY DEF Verdict, Words, Typed, HostTyped
  <2> QED BY <2>1, <2>2
<1>6. /\ d \in Answers /\ d \notin Vetoing
      /\ d.type = "CapabilityResponse" /\ d.id = nextId - 1 /\ d.body = Verdict
      /\ e \in [id : Nat, ask : Asks, verdict : Words] /\ e.id = nextId - 1 /\ e.verdict = Verdict
  BY <1>3, <1>5 DEF Frame, ToFrames, Types, Vetoing, Answers, Calls
<1> HIDE DEF d, e
<1>7. \A f \in Range(toPlugin) :
        /\ f.type # "CapabilityResponse"
        /\ ~ (f.type = "HookDispatch" /\ f.body = "before_capability")
  BY <1>1, <1>2 DEF RepliesInv, ReplyFits
<1>8. /\ Stream' = Stream /\ OrderInv'
      /\ Range(toPlugin') = Range(toPlugin) \cup {d}
      /\ UNCHANGED <<app, nextId, objected, heard, owed>>
  <2>1. d \in ToFrames /\ Range(toPlugin) \cap Answers = {}
    BY <1>6, <1>7 DEF Answers
  <2> QED BY <1>1, <1>6, <2>1, SendStep
<1>9. /\ Len(report') = Len(heard) + 1 /\ report'[Len(report')] = e
      /\ \A n \in 1 .. Len(report) : report'[n] = report[n]
  BY <1>1, <1>3, <1>6, AppendProperties DEF BooksTyped
<1>10. Books'
  <2>1. Len(heard) \in Nat /\ Len(heard) <= Len(report)
    BY Sizes DEF Books
  <2>2. Len(heard) <= Len(report') /\ \A n \in 1 .. Len(heard) : n \in 1 .. Len(report)
    BY <1>3, <1>9, <2>1
  <2>4. \A n \in 1 .. Len(heard) :
            heard[n] = [id |-> report'[n].id, verdict |-> report'[n].verdict]
    BY <1>9, <2>2 DEF Books
  <2> QED BY <1>1, <1>8, <2>2, <2>4 DEF Books
<1>11. Counted'
  <2>1. Answered' /\ ~ Unanswered'
    BY <1>3, <1>4, <1>8, <1>9
  <2> QED BY <1>1, <1>2, <1>3, <1>4, <1>8, <2>1 DEF Counted
<1>12. \A f \in Range(Stream) : f.type = "closed"
  BY <1>1, <1>2 DEF FramesInv, FrameFits
<1>13. FramesInv'
  BY <1>8, <1>12 DEF FramesInv, FrameFits
<1>14. RepliesInv'
  <2>1. ASSUME NEW f, f = d PROVE ReplyFits(f)'
    <3>1. /\ f.type = "CapabilityResponse" /\ f.id = nextId - 1
          /\ f.id = report'[Len(report')].id /\ f.body = report'[Len(report')].verdict
      BY <1>6, <1>9, <2>1
    <3> QED BY <1>2, <1>4, <1>8, <1>9, <3>1 DEF ReplyFits
  <2>2. ASSUME NEW f \in Range(toPlugin) PROVE ReplyFits(f)'
    BY <1>7, <2>2 DEF ReplyFits
  <2> QED BY <1>8, <2>1, <2>2 DEF RepliesInv
<1>15. Serving' /\ Objected'
  BY <1>1, <1>3, <1>4, <1>8, <1>9 DEF Serving, Objected
<1> QED BY <1>8, <1>10, <1>11, <1>13, <1>14, <1>15

LEMMA HeldStep == ASSUME RunInv, HeldInv, [Next]_vars PROVE HeldInv'
<1> USE DEF HeldInv, RunInv
<1>1. CASE ReaderRead
  <2>1. toHost # <<>> => Head(toHost) \in FromFrames
    BY QueueType DEF Typed, PipesTyped
  <2>2. \E f \in FromFrames : held' = <<f>>
    BY <1>1, <2>1, FramesMade DEF ReaderRead
  <2> QED BY <1>1, <2>2 DEF ReaderRead, hostVars
<1>2. CASE ReaderSend
  BY <1>2 DEF ReaderSend, ReaderEnds, hostVars
<1>3. CASE UNCHANGED <<reader, held>> /\ (host' = "start" => host = "start")
  BY <1>3
<1>4. CASE Spawn
  BY <1>4 DEF Spawn, Become
<1>5. ASSUME NEW how, Abandon(how) PROVE UNCHANGED <<reader, held>> /\ host' # "start"
  BY <1>5, AbandonStep
<1>6. CASE Refuse \/ HangUp \/ Wait \/ RunEffect \/ Deadline \/ Plugin
  BY <1>3, <1>6 DEF Refuse, HangUp, Wait, RunEffect, Deadline, Plugin, Returns, Become,
                    readerVars, hostVars
<1>7. CASE HostWrite
  BY <1>3, <1>5, <1>7 DEF HostWrite, WriteInitialize, WriteSession, WriteDispatch, WriteReply,
                          WriteEnd, WriteFails, Send, Become, readerVars
<1>8. CASE RecvLate \/ GotWrong
  BY <1>3, <1>5, <1>8 DEF RecvLate, GotWrong
<1>9. CASE RecvArm \/ GotReady \/ GotLog \/ GotCall \/ GotVerdict \/ GotEnd
  <2>1. UNCHANGED <<reader, held>> /\ (host' = "start" => host = "start")
    BY <1>9 DEF RecvArm, GotReady, GotLog, GotCall, GotVerdict, GotEnd, Take, readerVars
  <2> QED BY <1>3, <2>1
<1>10. CASE UNCHANGED vars
  BY <1>3, <1>10 DEF vars, readerVars, hostVars
<1> QED BY <1>1, <1>2, <1>4, <1>6, <1>7, <1>8, <1>9, <1>10 DEF Next, HostStep, HostMove, ReaderStep, Recv

(* The host's books, and the plugin's. *)
LEMMA HostBooks == ASSUME RunInv, BooksTyped, AllowedInv, HostStep \/ Refuse PROVE BooksTyped' /\ AllowedInv'
<1> USE DEF BooksTyped, AllowedInv, RunInv
<1>s. ASSUME UNCHANGED <<asked, effect, report, performed, objected, heard, nextId>>
      PROVE  BooksTyped' /\ AllowedInv'
  BY <1>s
<1>1. ASSUME NEW how, Abandon(how) PROVE BooksTyped' /\ AllowedInv'
  <2>1. UNCHANGED <<asked, effect, report, performed, objected, heard, nextId>>
    BY <1>1 DEF Abandon, Returns, callVars, sdkVars
  <2> QED BY <1>s, <2>1
<1>2. ASSUME NEW pc, WriteFails(pc) PROVE BooksTyped' /\ AllowedInv'
  BY <1>1, <1>2 DEF WriteFails
<1>3. CASE Refuse \/ Wait \/ Spawn \/ HangUp \/ RecvArm
  BY <1>s, <1>3 DEF Refuse, Wait, Returns, Spawn, HangUp, RecvArm, callVars, sdkVars, plugVars
<1>4. CASE RecvLate \/ GotWrong
  BY <1>1, <1>4 DEF RecvLate, GotWrong
<1>5. CASE WriteInitialize \/ WriteSession \/ WriteDispatch \/ WriteEnd
  BY <1>s, <1>2, <1>5 DEF WriteInitialize, WriteSession, WriteDispatch, WriteEnd, Send, callVars,
                          sdkVars, plugVars
<1>6. CASE GotReady \/ GotLog \/ GotEnd \/ GotVerdict
  BY <1>s, <1>6 DEF GotReady, GotLog, GotEnd, GotVerdict, Take, callVars, sdkVars, plugVars
<1>7. CASE GotCall
  <2>1. effect = "none" /\ UNCHANGED <<effect, report, performed, objected, heard, nextId>>
    BY <1>7 DEF GotCall, Take, sdkVars, plugVars, CallInv
  <2> QED BY <2>1
<1>8. CASE RunEffect
  <2>1. /\ asked # <<>> /\ asked[1].ask \in Allowed
        /\ performed' = Append(performed, asked[1].id)
        /\ UNCHANGED <<asked, report, objected, heard, nextId>>
    BY <1>8 DEF RunEffect, CallInv, sdkVars, plugVars
  <2>2. Head(asked) \in Calls /\ Head(asked) = asked[1]
    BY <2>1, QueueType DEF Typed, HostTyped
  <2>3. performed' \in Seq(Nat)
    BY <2>1, <2>2, QueueType DEF Calls
  <2> QED BY <2>1, <2>3
<1>9. CASE WriteReply /\ ~ WriteFails("reply")
  <2> DEFINE e == [id |-> asked[1].id, ask |-> asked[1].ask, verdict |-> Verdict]
  <2>1. /\ asked # <<>> /\ report' = Append(report, e) /\ effect' = "none"
        /\ UNCHANGED <<performed, objected, heard, nextId>>
    BY <1>9 DEF WriteReply, Send, CallInv, sdkVars
  <2>2. asked[1] \in Calls /\ Verdict \in Words
    <3>1. Head(asked) \in Calls /\ Head(asked) = asked[1]
      BY <2>1, QueueType DEF Typed, HostTyped
    <3>2. Verdict \in Words
      BY DEF Verdict, Words, Typed, HostTyped
    <3> QED BY <3>1, <3>2
  <2>3. e \in [id : Nat, ask : Asks, verdict : Words]
    BY <2>2 DEF Calls
  <2> HIDE DEF e
  <2>4. report' \in Seq([id : Nat, ask : Asks, verdict : Words])
    BY <2>1, <2>3, QueueType
  <2> QED BY <2>1, <2>4
<1> QED BY <1>2, <1>3, <1>4, <1>5, <1>6, <1>7, <1>8, <1>9 DEF HostStep, HostMove, HostWrite, Recv

LEMMA PluginBooks ==
    ASSUME Typed, BooksTyped, PluginStep, UNCHANGED <<report, performed>> PROVE BooksTyped'
<1> USE DEF BooksTyped
<1>1. CASE SdkAnswer
  <2>1. Head(toPlugin) \in ToFrames
    BY <1>1, QueueType DEF SdkAnswer, Read, Typed, PipesTyped
  <2>2. Append(heard, [id |-> nextId - 1, verdict |-> Head(toPlugin).body])
            \in Seq([id : Nat, verdict : Words])
    <3>1. [id |-> nextId - 1, verdict |-> Head(toPlugin).body] \in [id : Nat, verdict : Words]
      BY <2>1 DEF ToFrames, Typed, PipesTyped
    <3> QED BY <3>1, QueueType
  <2> QED BY <1>1, <2>2 DEF SdkAnswer
<1>2. ASSUME NEW o \in {"continue", "veto"}, SdkHook(o) PROVE BooksTyped'
  <2>1. nextId - 1 \in Nat
    BY DEF Typed, PipesTyped
  <2> QED BY <1>2, <2>1 DEF SdkHook
<1>3. CASE UNCHANGED <<objected, heard>> /\ (nextId' = nextId \/ nextId' = nextId + 1)
  BY <1>3 DEF Typed, PipesTyped
<1> QED BY <1>1, <1>2, <1>3 DEF PluginStep, SdkBoot, SdkReady, SdkLog, SdkRequestTooLarge,
           SdkObserve, SdkHookReply, SdkHookReplyTooLarge, SdkRequest, AnyWrite, AnyRead,
           AnyCloses, Exit, sdkVars

(* An SDK plugin is not ended as one that broke the protocol.              *)
Blameless ==
    kind = "sdk" =>
        /\ result # "MalformedCall"
        /\ result = "MisdirectedFrame" => host = "ended" /\ owed # <<>> /\ app # "serving"

(* The inductive invariant of a conversation.                              *)
TalkInv == RunInv /\ HeldInv /\ BooksTyped /\ AllowedInv /\ SdkInv /\ Blameless

LEMMA TalkInit == Init => TalkInv
<1> SUFFICES ASSUME Init PROVE TalkInv
  OBVIOUS
<1> USE DEF Init, PluginInit
<1>1. RunInv
  BY RunInit
<1>2. HeldInv /\ AllowedInv /\ Blameless
  BY DEF HeldInv, AllowedInv, Blameless
<1>3. BooksTyped
  BY QueueType DEF BooksTyped
<1>4. Stream = <<>>
  BY EmptySeq, ConcatEmptySeq DEF Stream
<1>5. Range(<<>>) = {} /\ IsInjective(<<>>) /\ Len(<<>>) = 0 /\ DOMAIN <<>> = {}
  BY EmptyQueue DEF Range
<1>6. Books
  BY <1>5 DEF Books
<1>7. Counted /\ Serving /\ Objected
  BY <1>5 DEF Counted, Waits, Greeted, Serving, Objected
<1>8. FramesInv /\ RepliesInv /\ OrderInv
  BY <1>4, <1>5 DEF FramesInv, RepliesInv, OrderInv, After
<1> QED BY <1>1, <1>2, <1>3, <1>6, <1>7, <1>8 DEF TalkInv, SdkInv, Conversation

(* A plugin written with the SDK speaks only in its turn. *)
LEMMA SdkPluginStep ==
    ASSUME InTalk, HeldInv, Plugin, kind = "sdk" PROVE (Conversation' \/ Mute') /\ Books'
<1>u. UNCHANGED <<hooks, inbox, held, callVars, host>>
  BY DEF Plugin, runVars, readerVars, hostVars
<1>b. ASSUME UNCHANGED <<app, heard, objected>> PROVE Books'
  BY <1>u, <1>b DEF InTalk, Books, callVars
<1>1. CASE SdkBoot
  BY <1>1, <1>u, SdkBootStep DEF SdkBoot, InTalk, Books, callVars
<1>2. CASE SdkReady
  BY <1>2, <1>u, SdkReadyStep DEF SdkReady, InTalk, Books, callVars
<1>3. CASE SdkLog
  BY <1>3, <1>u, <1>b, SdkLogStep DEF SdkLog, sdkVars
<1>4. CASE SdkHookReply
  BY <1>4, <1>u, SdkHookReplyStep DEF SdkHookReply, InTalk, Books, callVars
<1>5. CASE SdkAnswer
  BY <1>5, <1>u, SdkAnswerStep
<1>6. ASSUME NEW a \in Asks, SdkRequest(a) PROVE Conversation' /\ Books'
  BY <1>6, <1>u, SdkRequestStep DEF SdkRequest, InTalk, Books, callVars
<1>7. ASSUME NEW o \in {"continue", "veto"}, SdkHook(o) PROVE Conversation' /\ Books'
  BY <1>7, <1>u, SdkHookStep
<1>8. CASE SdkObserve \/ Exit
  <2>1. /\ UNCHANGED sdkVars /\ toHost' = toHost
        /\ toPlugin' = <<>> \/ (toPlugin # <<>> /\ toPlugin' = Tail(toPlugin))
    BY <1>8 DEF SdkObserve, Exit, Read, Ends
  <2>2. CalmStream /\ CalmPipe /\ CalmHost
    BY <1>u, <2>1 DEF CalmStream, CalmPipe, CalmHost, Stream
  <2> QED BY <1>b, <1>u, <2>1, <2>2, CalmStep DEF InTalk, sdkVars
<1>9. ASSUME NEW f \in FromPlugin, AnyWrite(f) PROVE FALSE
  BY <1>9 DEF AnyWrite, Running
<1>10. CASE AnyRead \/ AnyCloses
  BY <1>10 DEF AnyRead, AnyCloses, Running
<1>11. CASE SdkRequestTooLarge
  BY <1>11, <1>u, <1>b, SdkRequestTooLargeStep DEF SdkRequestTooLarge
<1>12. CASE SdkHookReplyTooLarge
  BY <1>12, <1>u, SdkHookReplyTooLargeStep
<1> QED BY <1>1, <1>2, <1>3, <1>4, <1>5, <1>6, <1>7, <1>8, <1>9, <1>10, <1>11, <1>12
        DEF Plugin, PluginStep

(* The reader passes frames on, and tells the end. *)
LEMMA SdkReaderStep ==
    ASSUME InTalk, HeldInv, ReaderStep, host # "ended" PROVE Conversation' /\ Books'
<1> USE DEF InTalk
<1>u. UNCHANGED <<callVars, sdkVars, host, toPlugin>>
  BY DEF ReaderStep, ReaderRead, ReaderSend, ReaderEnds, hostVars, sdkVars, plugVars, pipeVars
<1>1. CalmStream
  <2>1. CASE ReaderRead /\ toHost # <<>>
    <3>1. Head(toHost) # Garbled
      <4>1. Head(toHost) \in Range(toHost)
        BY <2>1, PopQueue DEF Typed, PipesTyped
      <4>2. Head(toHost).type # "garbled"
        BY <4>1, StreamTyped DEF Conversation, FramesInv, FrameFits
      <4> QED BY <4>2 DEF Garbled, Frame
    <3>2. held = <<>> /\ held' = <<Head(toHost)>> /\ toHost' = Tail(toHost) /\ inbox' = inbox
      BY <2>1, <3>1 DEF ReaderRead, HeldInv
    <3> QED BY <2>1, <3>2, StreamRead DEF CalmStream
  <2>2. CASE ReaderRead /\ toHost = <<>>
    <3>1. held = <<>> /\ held' = <<Closed>> /\ UNCHANGED <<toHost, inbox>>
      BY <2>2 DEF ReaderRead, HeldInv
    <3> QED BY <2>2, <3>1, StreamEnded DEF CalmStream
  <2>3. CASE ReaderSend
    <3>1. PICK f \in FromFrames : held = <<f>>
      BY <2>3 DEF ReaderSend, HeldInv
    <3>2. held' = <<>> /\ inbox' = Append(inbox, f) /\ toHost' = toHost
      BY <2>3, <3>1 DEF ReaderSend, ReaderEnds, plugVars, pipeVars
    <3> QED BY <3>1, <3>2, StreamSent DEF CalmStream
  <2> QED BY <2>1, <2>2, <2>3 DEF ReaderStep
<1>2. CalmPipe /\ CalmHost
  BY <1>u DEF CalmPipe, CalmHost
<1>3. Books'
  BY <1>u DEF Books, callVars, sdkVars
<1> QED BY <1>1, <1>2, <1>3, <1>u, CalmStep

(* A step of run_plugin that does not end the run. *)
LEMMA SdkHostStep ==
    ASSUME InTalk, HeldInv, HostStep \/ Refuse, host' # "ended" PROVE Conversation' /\ Books'
<1> USE DEF InTalk
<1>b. ASSUME UNCHANGED <<app, heard, objected, report, performed>> PROVE Books'
  BY <1>b DEF Books
<1>a. \A how : ~ Abandon(how)
  BY AbandonStep
<1>f. ~ WriteFails("initialize") /\ ~ WriteFails("session") /\ ~ WriteFails("dispatch")
      /\ ~ WriteFails("reply")
  BY <1>a DEF WriteFails
<1>c. ASSUME UNCHANGED <<callVars, sdkVars>>, CalmStream, CalmPipe, CalmHost
      PROVE  Conversation' /\ Books'
  BY <1>b, <1>c, CalmStep DEF callVars, sdkVars
<1>1. CASE Spawn \/ HangUp \/ RecvArm
  <2>1. UNCHANGED <<callVars, sdkVars, toPlugin, Stream>>
    BY <1>1 DEF Spawn, HangUp, RecvArm, readerVars, plugVars, pipeVars, sdkVars, Stream
  <2>2. CalmHost
    BY <1>1 DEF Spawn, HangUp, RecvArm, Become, CalmHost, Handling, Greeted
  <2> QED BY <1>c, <2>1, <2>2 DEF CalmStream, CalmPipe
<1>2. CASE WriteInitialize \/ WriteSession \/ WriteEnd
  <2>1. UNCHANGED <<callVars, sdkVars, Stream>>
    BY <1>2, <1>f DEF WriteInitialize, WriteSession, WriteEnd, Send, readerVars, Stream,
                      plugVars, pipeVars
  <2>2. CalmHost
    BY <1>2, <1>f DEF WriteInitialize, WriteSession, WriteEnd, Become, CalmHost, Handling, Greeted
  <2>3. ASSUME NEW t \in {"Initialize", "HookDispatch"},
               NEW b \in {"none", "session_start", "session_end"}
        PROVE  Frame(t, 0, b) \in ToFrames \ (Answers \cup Vetoing)
    BY DEF Frame, ToFrames, Types, Words, Answers, Vetoing
  <2>4. CalmPipe
    BY <1>2, <1>f, <2>3 DEF WriteInitialize, WriteSession, WriteEnd, Send, CalmPipe, plugVars,
                            pipeVars
  <2> QED BY <1>c, <2>1, <2>2, <2>4 DEF CalmStream
<1>3. CASE GotLog \/ GotEnd
  <2>1. UNCHANGED <<callVars, sdkVars, toPlugin>> /\ CalmStream
    BY <1>3, TakeStep DEF GotLog, GotEnd, CalmStream, sdkVars
  <2>2. CalmHost
    BY <1>3 DEF GotLog, GotEnd, CalmHost, Handling, Greeted
  <2> QED BY <1>c, <2>1, <2>2 DEF CalmPipe
<1>4. CASE RecvLate \/ GotWrong
  BY <1>4, <1>a DEF RecvLate, GotWrong
<1>5. CASE GotReady
  BY <1>5, <1>b, TakeStep, GotReadyStep DEF GotReady, callVars
<1>6. CASE GotCall
  BY <1>6, <1>b, TakeStep, GotCallStep DEF GotCall
<1>7. CASE GotVerdict
  BY <1>7, <1>b, TakeStep, GotVerdictStep DEF GotVerdict
<1>8. CASE WriteDispatch
  BY <1>8, <1>b, <1>f, WriteDispatchStep DEF WriteDispatch, Send, sdkVars
<1>9. CASE WriteReply
  BY <1>9, <1>f, WriteReplyStep
<1>10. CASE RunEffect
  BY <1>10, RunEffectStep
<1>11. CASE Refuse \/ Wait
  BY <1>11 DEF Refuse, Wait, Returns
<1> QED BY <1>1, <1>2, <1>3, <1>4, <1>5, <1>6, <1>7, <1>8, <1>9, <1>10, <1>11
        DEF HostStep, HostMove, HostWrite, Recv

(* A process that does not run does nothing. *)
LEMMA NotRunning == ASSUME Plugin PROVE process = "running"
BY DEF Plugin, PluginStep, SdkBoot, SdkReady, SdkLog, SdkRequestTooLarge, SdkObserve, SdkHookReply,
       SdkHookReplyTooLarge, SdkAnswer, SdkRequest, SdkHook, AnyWrite, AnyRead, AnyCloses, Exit,
       Running

(* A program whose word could not be sent says what it likes; the host     *)
(* gives the run up at the next frame.                                     *)
LEMMA MutePluginStep ==
    ASSUME Typed, Books, Mute, Plugin, kind = "sdk" PROVE Mute' /\ Books'
<1>u. UNCHANGED <<inbox, held, callVars, host>>
  BY DEF Plugin, readerVars, hostVars
<1>1. ASSUME NEW f \in FromFrames, f.type \in {"Log", "CapabilityCall"}, Write(f),
             app' \in {"free", "await"}, UNCHANGED <<objected, heard, owed>>
      PROVE  Mute' /\ Books'
  <2>0. toHost' = Append(toHost, f) /\ UNCHANGED <<inbox, held, toPlugin>>
    BY <1>1, <1>u DEF Write
  <2>a. Stream' = Append(Stream, f) /\ Stream \in Seq(FromFrames)
    BY <2>0, StreamTyped, StreamWritten
  <2>1. Range(Stream') = Range(Stream) \cup {f} /\ toPlugin' = toPlugin
    BY <2>0, <2>a, PushQueue
  <2>2. Mute'
    BY <1>1, <1>u, <2>1 DEF Mute, hostVars
  <2>3. Books'
    <3>1. app' # "confused" /\ UNCHANGED <<objected, heard, report, performed>>
      BY <1>1, <1>u DEF callVars
    <3> QED BY <3>1 DEF Books
  <2> QED BY <2>2, <2>3
<1>2. CASE SdkLog
  BY <1>1, <1>2, FramesMade DEF SdkLog, Log, Frame, sdkVars, Mute
<1>3. ASSUME NEW a \in Asks, SdkRequest(a) PROVE Mute' /\ Books'
  <2> DEFINE c == Frame("CapabilityCall", nextId, a)
  <2>1. c \in FromFrames /\ c.type = "CapabilityCall"
    BY FramesMade DEF Frame, Typed, PipesTyped
  <2> QED BY <1>1, <1>3, <2>1 DEF SdkRequest
<1>4. ASSUME app' = app, Range(toPlugin') \subseteq Range(toPlugin),
             UNCHANGED <<toHost, objected, heard, owed>>
      PROVE  Mute' /\ Books'
  <2>1. Stream' = Stream
    BY <1>u, <1>4 DEF Stream
  <2> QED BY <1>u, <1>4, <2>1 DEF Mute, Books, callVars
<1>5. CASE SdkRequestTooLarge
  BY <1>4, <1>5 DEF SdkRequestTooLarge, pipeVars
<1>6. CASE SdkObserve
  <2>1. Range(toPlugin') \subseteq Range(toPlugin)
    BY <1>6, PopQueue DEF SdkObserve, Read, Typed, PipesTyped
  <2> QED BY <1>4, <1>6, <2>1 DEF SdkObserve, Read, sdkVars
<1>7. CASE Exit
  <2>1. Range(toPlugin') = {}
    BY <1>7, EmptyQueue DEF Exit, Ends
  <2> QED BY <1>4, <1>7, <2>1 DEF Exit, sdkVars
<1>8. CASE SdkBoot \/ SdkReady \/ SdkHookReply \/ SdkHookReplyTooLarge \/ AnyRead \/ AnyCloses
  BY <1>8 DEF SdkBoot, SdkReady, SdkHookReply, SdkHookReplyTooLarge, AnyRead, AnyCloses, Running,
              Mute
<1>9. ASSUME NEW type, Read(type),
             type = "CapabilityResponse"
                 \/ (type = "HookDispatch" /\ Head(toPlugin).body = "before_capability")
      PROVE  FALSE
  <2>1. Head(toPlugin) \in Range(toPlugin) /\ Head(toPlugin) \in ToFrames
    BY <1>9, PopQueue, QueueType DEF Read, Typed, PipesTyped
  <2> QED BY <1>9, <2>1 DEF Mute, Answers, Vetoing, Read
<1>10. CASE SdkAnswer
  BY <1>9, <1>10 DEF SdkAnswer
<1>11. ASSUME NEW o \in {"continue", "veto"}, SdkHook(o) PROVE FALSE
  BY <1>9, <1>11 DEF SdkHook
<1>12. ASSUME NEW f \in FromPlugin, AnyWrite(f) PROVE FALSE
  BY <1>12 DEF AnyWrite, Running
<1> QED BY <1>2, <1>3, <1>5, <1>6, <1>7, <1>8, <1>10, <1>11, <1>12 DEF Plugin, PluginStep

LEMMA MuteReaderStep ==
    ASSUME Typed, HeldInv, Books, Mute, ReaderStep PROVE Mute' /\ Books'
<1>u. UNCHANGED <<callVars, sdkVars, host, toPlugin>>
  BY DEF ReaderStep, ReaderRead, ReaderSend, ReaderEnds, hostVars, sdkVars, plugVars, pipeVars,
         Mute
<1>1. Range(Stream') \subseteq Range(Stream) \cup {Closed}
  <2>0. \A f \in Range(Stream) : f.type # "garbled"
    BY DEF Mute
  <2>1. CASE ReaderRead /\ toHost # <<>>
    <3>1. Head(toHost) # Garbled
      BY <2>0, <2>1, PopQueue, StreamTyped DEF Typed, PipesTyped, Garbled, Frame
    <3>2. held = <<>> /\ held' = <<Head(toHost)>> /\ toHost' = Tail(toHost) /\ inbox' = inbox
      BY <2>1, <3>1 DEF ReaderRead, HeldInv
    <3> QED BY <2>1, <3>2, StreamRead
  <2>2. CASE ReaderRead /\ toHost = <<>>
    <3>1. held = <<>> /\ held' = <<Closed>> /\ UNCHANGED <<toHost, inbox>>
      BY <2>2 DEF ReaderRead, HeldInv
    <3>2. Stream' = Append(Stream, Closed)
      BY <2>2, <3>1, StreamEnded
    <3> QED BY <3>2, StreamTyped, FramesMade, PushQueue
  <2>3. CASE ReaderSend
    <3>1. PICK f \in FromFrames : held = <<f>>
      BY <2>3 DEF ReaderSend, HeldInv
    <3>2. held' = <<>> /\ inbox' = Append(inbox, f) /\ toHost' = toHost
      BY <2>3, <3>1 DEF ReaderSend, ReaderEnds, plugVars, pipeVars, Mute
    <3> QED BY <3>1, <3>2, StreamSent
  <2> QED BY <2>1, <2>2, <2>3 DEF ReaderStep
<1>2. Closed.type = "closed"
  BY DEF Closed, Frame
<1> QED BY <1>u, <1>1, <1>2 DEF Mute, Books, callVars, sdkVars

(* What the host may take from such a program is no result of a hook. *)
LEMMA MuteHead ==
    ASSUME Typed, Mute, inbox # <<>> PROVE Head(inbox).type # "HookResult"
<1>1. Head(inbox) \in Range(Stream)
  BY StreamTyped, PopQueue DEF Typed, HostTyped
<1> QED BY <1>1 DEF Mute

LEMMA MuteHostStep ==
    ASSUME Typed, Books, Mute, HostStep \/ Refuse, host' # "ended" PROVE Mute' /\ Books'
<1>a. \A how : ~ Abandon(how)
  BY AbandonStep
<1>1. host = "verdict"
  BY DEF Mute
<1>2. ~ GotVerdict
  BY MuteHead DEF GotVerdict, Got
<1>3. ~ HostWrite /\ ~ Refuse
  BY <1>1 DEF HostWrite, WriteInitialize, WriteSession, WriteDispatch, WriteReply, WriteEnd,
              WriteFails, Refuse
<1>4. RecvArm
  BY <1>1, <1>2, <1>3, <1>a
     DEF HostStep, HostMove, Recv, RecvLate, GotWrong, GotReady, GotLog, GotCall, GotEnd, Spawn,
         RunEffect, HangUp, Wait
<1>5. UNCHANGED <<callVars, sdkVars, toPlugin, host, Stream>>
  BY <1>4 DEF RecvArm, readerVars, plugVars, pipeVars, sdkVars, Stream
<1> QED BY <1>5 DEF Mute, Books, callVars, sdkVars

(* A plugin is of one kind for good. *)
LEMMA KindKept == ASSUME [Next]_vars PROVE kind' = kind
BY DEF Next, vars, plugVars, HostStep, HostMove, HostWrite, Recv, Refuse, Spawn, WriteInitialize,
       WriteSession, WriteDispatch, WriteReply, WriteEnd, WriteFails, Send, Abandon, RunEffect,
       HangUp, Wait, RecvArm, RecvLate, GotWrong, GotReady, GotLog, GotCall, GotVerdict, GotEnd,
       Take, ReaderStep, ReaderRead, ReaderSend, ReaderEnds, Plugin, PluginStep, SdkBoot,
       SdkReady, SdkLog, SdkRequestTooLarge, SdkObserve, SdkHookReply, SdkHookReplyTooLarge,
       SdkAnswer, SdkRequest, SdkHook, AnyWrite, AnyRead, AnyCloses, Exit, Write, Read, Deadline

LEMMA SdkStep == ASSUME TalkInv, [Next]_vars PROVE SdkInv'
<1> USE DEF TalkInv
<1>k. kind' = kind
  BY KindKept
<1> SUFFICES ASSUME kind = "sdk" PROVE Books' /\ (host' # "ended" => Conversation' \/ Mute')
  BY <1>k DEF SdkInv
<1>h. /\ Books /\ Typed
      /\ host # "ended" => InTalk \/ Mute
      /\ Conversation => InTalk
  BY DEF SdkInv, InTalk, RunInv
<1>b. ASSUME UNCHANGED <<app, heard, objected, report, performed>> PROVE Books'
  BY <1>b, <1>h DEF Books
<1>u. ASSUME UNCHANGED <<sdkVars, callVars, hostVars, Stream, toPlugin>>
      PROVE  Books' /\ (host' # "ended" => Conversation' \/ Mute')
  <2>1. host' = host
    BY <1>u DEF hostVars
  <2>2. CalmStream /\ CalmPipe /\ CalmHost
    BY <1>u, <2>1 DEF CalmStream, CalmPipe, CalmHost
  <2>3. Books'
    BY <1>b, <1>u DEF sdkVars, callVars
  <2>4. host # "ended" => Conversation' \/ Mute'
    <3>1. InTalk => Conversation'
      BY <1>u, <2>2, CalmStep DEF InTalk
    <3>2. Mute => Mute'
      BY <1>u, <2>1 DEF Mute, sdkVars
    <3> QED BY <1>h, <3>1, <3>2
  <2> QED BY <2>1, <2>3, <2>4
<1>1. CASE HostStep \/ Refuse
  <2>1. CASE host' = "ended"
    <3>1. UNCHANGED <<app, heard, objected, report, performed>>
      <4>1. ASSUME NEW how, Abandon(how) PROVE UNCHANGED <<app, heard, objected, report, performed>>
        BY <4>1 DEF Abandon, Returns, callVars, sdkVars
      <4>2. CASE Refuse \/ Wait
        BY <4>2 DEF Refuse, Wait, Returns, callVars, sdkVars
      <4>3. CASE HostWrite
        BY <2>1, <4>1, <4>3 DEF HostWrite, WriteInitialize, WriteSession, WriteDispatch,
                                WriteReply, WriteEnd, WriteFails, Become
      <4>4. CASE RecvLate \/ GotWrong
        BY <4>1, <4>4 DEF RecvLate, GotWrong
      <4>5. CASE Spawn \/ RunEffect \/ HangUp \/ RecvArm
        BY <2>1, <4>5 DEF Spawn, RunEffect, HangUp, RecvArm, Become, Receiving
      <4>6. CASE GotReady \/ GotLog \/ GotCall \/ GotVerdict \/ GotEnd
        BY <2>1, <4>6 DEF GotReady, GotLog, GotCall, GotVerdict, GotEnd
      <4> QED BY <1>1, <4>2, <4>3, <4>4, <4>5, <4>6 DEF HostStep, HostMove, Recv
    <3> QED BY <1>b, <2>1, <3>1
  <2>2. CASE host' # "ended"
    <3>1. host # "ended"
      BY <1>1 DEF HostStep, HostMove, Refuse, Spawn, Recv, RecvArm, RecvLate, GotWrong, GotReady, GotLog,
                  GotCall, GotVerdict, GotEnd, HostWrite, WriteInitialize, WriteSession,
                  WriteDispatch, WriteReply, WriteEnd, WriteFails, RunEffect, HangUp, Wait,
                  Receiving
    <3> QED BY <1>1, <1>h, <2>2, <3>1, SdkHostStep, MuteHostStep
  <2> QED BY <2>1, <2>2
<1>2. CASE ReaderStep
  <2>1. CASE host = "ended"
    <3>1. host' = "ended" /\ UNCHANGED <<app, heard, objected, report, performed>>
      BY <1>2, <2>1 DEF ReaderStep, ReaderRead, ReaderSend, ReaderEnds, hostVars, callVars,
                        sdkVars, plugVars
    <3> QED BY <1>b, <3>1
  <2>2. CASE host # "ended"
    BY <1>2, <1>h, <2>2, SdkReaderStep, MuteReaderStep
  <2> QED BY <2>1, <2>2
<1>3. CASE Plugin
  <2>1. CASE host = "ended"
    <3>1. process # "running"
      BY <2>1 DEF RunInv, ProcessInv
    <3> QED BY <1>3, <3>1, NotRunning
  <2>2. CASE host # "ended" /\ Conversation
    BY <1>3, <1>h, <2>2, SdkPluginStep DEF InTalk
  <2>3. CASE host # "ended" /\ Mute
    BY <1>3, <1>h, <2>3, MutePluginStep
  <2> QED BY <1>h, <2>1, <2>2, <2>3 DEF InTalk
<1>4. CASE Deadline \/ UNCHANGED vars
  <2>1. UNCHANGED <<sdkVars, callVars, hostVars, Stream, toPlugin>>
    BY <1>4 DEF Deadline, vars, plugVars, pipeVars, readerVars, Stream
  <2> QED BY <1>u, <2>1
<1> QED BY <1>1, <1>2, <1>3, <1>4 DEF Next

LEMMA BooksStep == ASSUME TalkInv, [Next]_vars PROVE BooksTyped' /\ AllowedInv'
<1> USE DEF TalkInv, RunInv
<1>1. CASE HostStep \/ Refuse
  BY <1>1, HostBooks
<1>2. CASE Plugin
  BY <1>2, PluginBooks DEF Plugin, callVars, AllowedInv
<1>3. CASE ReaderStep \/ Deadline \/ UNCHANGED vars
  <2>1. UNCHANGED <<callVars, sdkVars>>
    BY <1>3 DEF ReaderStep, ReaderRead, ReaderSend, ReaderEnds, Deadline, vars, plugVars
  <2> QED BY <2>1 DEF BooksTyped, AllowedInv, callVars, sdkVars
<1> QED BY <1>1, <1>2, <1>3 DEF Next

(* The host blames an SDK plugin for no frame: what it takes fits where    *)
(* run_plugin is.                                                          *)
LEMMA NotWrong ==
    ASSUME InTalk, GotWrong
    PROVE  Abandon("Handshake")
<1> DEFINE f == Head(inbox)
<1>1. FrameFits(f)
  <2>1. inbox \in Seq(FromFrames) /\ inbox # <<>>
    BY DEF GotWrong, InTalk, Typed, HostTyped
  <2>2. f \in Range(inbox)
    BY <2>1, PopQueue
  <2> QED BY <2>2, StreamTyped DEF InTalk, Conversation, FramesInv
<1> HIDE DEF f
<1>2. /\ host = "loop" => f.type \in {"CapabilityCall", "Log", "closed"}
      /\ f.type = "CapabilityCall" => f.body # Malformed
      /\ host = "verdict" => f.type \in {"HookResult", "closed"}
      /\ f.type = "HookResult" => f.id = hookId - 1 /\ f.body # Malformed
  BY <1>1, MalformedAssumption DEF FrameFits, Greeted, Handling, Malformed
<1> QED BY <1>2 DEF GotWrong, f

LEMMA BlameStep == ASSUME TalkInv, [Next]_vars PROVE Blameless'
<1> USE DEF TalkInv
<1>k. kind' = kind
  BY KindKept
<1> DEFINE Fair == {"none", "ApiVersionMismatch", "Spawn", "Protocol", "TimedOut", "Handshake",
                    "report"}
<1>r. result' = result \/ result' \in Fair \/ GotWrong
  <2>1. CASE Refuse \/ Wait
    BY <2>1 DEF Refuse, Wait, Returns
  <2>2. CASE HostWrite
    BY <2>2 DEF HostWrite, WriteInitialize, WriteSession, WriteDispatch, WriteReply, WriteEnd,
                WriteFails, Abandon, Returns, Become
  <2>3. CASE Recv
    BY <2>3 DEF Recv, RecvArm, RecvLate, GotReady, GotLog, GotCall, GotVerdict, GotEnd, Abandon,
                Returns, Take
  <2>4. CASE Spawn \/ RunEffect \/ HangUp
    BY <2>4 DEF Spawn, RunEffect, HangUp, Become
  <2>5. CASE ReaderStep \/ Plugin \/ Deadline \/ UNCHANGED vars
    BY <2>5, AsideStep DEF Aside, hostVars, vars
  <2> QED BY <2>1, <2>2, <2>3, <2>4, <2>5 DEF Next, HostStep, HostMove
<1>w. ASSUME kind = "sdk", GotWrong PROVE Blameless'
  <2>1. InTalk \/ Mute
    BY <1>w DEF SdkInv, InTalk, RunInv, GotWrong, Receiving
  <2>2. CASE InTalk
    BY <1>w, <2>2, NotWrong DEF Abandon, Returns, Blameless
  <2>3. CASE Mute
    <3>1. Head(inbox).type # "HookResult"
      BY <1>w, <2>3, MuteHead DEF GotWrong, RunInv
    <3>2. Abandon("Handshake") \/ Abandon("MisdirectedFrame")
      BY <1>w, <2>3, <3>1 DEF GotWrong, Mute
    <3> QED BY <2>3, <3>2 DEF Abandon, Returns, sdkVars, Mute, Blameless
  <2> QED BY <2>1, <2>2, <2>3
<1>e. ASSUME kind = "sdk", result' = result, result = "MisdirectedFrame" PROVE Blameless'
  <2>1. host = "ended" /\ owed # <<>> /\ app # "serving" /\ process # "running"
    BY <1>e DEF Blameless, RunInv, ProcessInv
  <2>2. ~ HostStep /\ ~ Refuse /\ ~ Plugin
    BY <2>1, NotRunning DEF HostStep, HostMove, Refuse, Spawn, Recv, RecvArm, RecvLate, GotWrong,
       GotReady, GotLog, GotCall, GotVerdict, GotEnd, HostWrite, WriteInitialize, WriteSession,
       WriteDispatch, WriteReply, WriteEnd, WriteFails, RunEffect, HangUp, Wait, Receiving
  <2>3. UNCHANGED <<host, owed, app>>
    BY <2>2 DEF Next, ReaderStep, ReaderRead, ReaderSend, ReaderEnds, Deadline, vars, plugVars,
                sdkVars, hostVars
  <2> QED BY <1>e, <2>1, <2>3 DEF Blameless
<1> QED BY <1>k, <1>r, <1>w, <1>e DEF Blameless

LEMMA TalkInvariant == Spec => []TalkInv
<1>1. TalkInv /\ [Next]_vars => RunInv'
  BY TypedStep, CallStep, ProcessStep, LateStep DEF TalkInv, RunInv
<1>2. TalkInv /\ [Next]_vars => TalkInv'
  BY <1>1, HeldStep, BooksStep, SdkStep, BlameStep DEF TalkInv
<1> QED BY <1>2, TalkInit, PTL DEF Spec

(* Whatever a plugin written with the SDK asks, logs or vetoes, and however *)
(* long the pipes are, no run ends with the host blaming it for a frame,    *)
(* and no answer reaches it that it does not wait for.                      *)
THEOREM SdkUnderstood == Spec => []SdkNeverMisjudged
<1>1. TalkInv => SdkNeverMisjudged
  BY DEF TalkInv, SdkInv, Books, Blameless, SdkNeverMisjudged
<1> QED BY <1>1, TalkInvariant, PTL

(* What its calls returned is, call by call, what the report says. *)
THEOREM ReportIsWhatWasAnswered == Spec => []AnswersReported
<1>1. TalkInv => AnswersReported
  <2> SUFFICES ASSUME TalkInv, kind = "sdk" PROVE AnswersReported
    BY DEF AnswersReported
  <2>1. Books /\ BooksTyped
    BY DEF TalkInv, SdkInv
  <2>2. Len(heard) \in Nat /\ Len(report) \in Nat /\ DOMAIN heard = 1 .. Len(heard)
    BY <2>1, LenProperties DEF BooksTyped
  <2> QED BY <2>1, <2>2 DEF Books, AnswersReported
<1> QED BY <1>1, TalkInvariant, PTL

(* An effect is run for no call that the policy forbids or that the        *)
(* program's own hook handler vetoed, and for none twice.                  *)
THEOREM VetoHolds == Spec => []NoEffectAgainstVeto
<1>1. TalkInv => NoEffectAgainstVeto
  BY DEF TalkInv, AllowedInv, SdkInv, Books, NoEffectAgainstVeto
<1> QED BY <1>1, TalkInvariant, PTL
=============================================================================
