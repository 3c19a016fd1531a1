---------------------------- MODULE PluginProcess ---------------------------
(***************************************************************************)
(* A plugin process and the pipes to it (rstui-plugin-host): one written   *)
(* with plugin_sdk, which follows the protocol but may ask for anything,   *)
(* log, veto and exit at any point, or one that writes any frame at any    *)
(* time and need not read, nor keep its ends of the pipes open.  A frame   *)
(* is [type, id, body]; a partial frame is none until it is complete.  A   *)
(* frame longer than MAX_FRAME_SIZE is refused by Frame::encode before any *)
(* byte of it is written.  An SDK call that fails on a closed pipe changes *)
(* nothing the host can see: what is left to its program is to exit.       *)
(***************************************************************************)
EXTENDS Naturals, Sequences

CONSTANTS
    Asks,       \* what a plugin may ask of the host
    PipeRoom,   \* frames a pipe holds
    MaxFrames,  \* frames a plugin of each kind writes (bound)
    Ids,        \* the ids a program without the SDK uses
    Kinds       \* {"sdk"}, {"any"} or both

ASSUME PluginAssumption ==
    /\ PipeRoom \in Nat \ {0} /\ MaxFrames \in [Kinds -> Nat] /\ Ids \subseteq Nat
    /\ Kinds \subseteq {"sdk", "any"}

VARIABLES
    kind,       \* how the plugin is written
    process,    \* none, running, exited or killed
    app,        \* where its connection stands
    nextId,     \* the id of its next call (fresh_id)
    objected,   \* the ids of the calls its hook handler vetoed
    heard,      \* the answers its calls returned, in order, with their ids
    owed,       \* the result of a hook that is not written, at most one
    wrote,      \* how many frames it has written, or tried to
    toPlugin, toHost,   \* the frames in its stdin and its stdout
    stdin,      \* the host holds its end of the stdin pipe
    ears, mouth,        \* the plugin holds its ends of stdin and stdout
    drain       \* somebody holds the host's end of the stdout pipe

sdkVars  == <<app, nextId, objected, heard, owed>>
pipeVars == <<toPlugin, toHost, stdin, ears, mouth, drain>>
plugVars == <<kind, process, wrote, sdkVars, pipeVars>>

Frame(t, i, b) == [type |-> t, id |-> i, body |-> b]

Malformed == "malformed"    \* a payload its decoder rejects

ASSUME MalformedAssumption == Malformed \notin Asks

Garbled   == Frame("garbled", 0, Malformed)     \* bytes read_frame rejects

CallFrames == {Frame("CapabilityCall", i, a) : i \in Ids, a \in Asks \cup {Malformed}}
HookResults == {Frame("HookResult", i, o) :
                   i \in Ids, o \in {"continue", "veto", Malformed}}
Ready == Frame("Ready", 0, "none")
Log   == Frame("Log", 0, "none")

FromPlugin == CallFrames \cup HookResults \cup {Ready, Log, Garbled}

PluginInit ==
    /\ kind \in Kinds
    /\ process = "none" /\ app = "boot" /\ nextId = 1
    /\ objected = {} /\ heard = <<>> /\ owed = <<>> /\ wrote = 0
    /\ toPlugin = <<>> /\ toHost = <<>>
    /\ stdin = FALSE /\ ears = FALSE /\ mouth = FALSE /\ drain = FALSE

Running(k) == process = "running" /\ kind = k

-----------------------------------------------------------------------------
(* One frame into the stdout pipe; a write into a full pipe waits, one     *)
(* into a pipe nobody drains fails.                                        *)
Write(f) ==
    /\ mouth /\ drain /\ wrote < MaxFrames[kind] /\ Len(toHost) < PipeRoom
    /\ toHost' = Append(toHost, f)
    /\ wrote' = wrote + 1
    /\ UNCHANGED <<kind, process, toPlugin, stdin, ears, mouth, drain>>

Read(type) ==
    /\ toPlugin # <<>> /\ Head(toPlugin).type = type
    /\ toPlugin' = Tail(toPlugin)
    /\ UNCHANGED <<kind, process, wrote, toHost, stdin, ears, mouth, drain>>

(* PluginConnection::connect. *)
SdkBoot ==
    /\ Running("sdk") /\ app = "boot"
    /\ Read("Initialize")
    /\ app' = "hello"
    /\ UNCHANGED <<nextId, objected, heard, owed>>

SdkReady ==
    /\ Running("sdk") /\ app = "hello"
    /\ Write(Ready)
    /\ app' = "free"
    /\ UNCHANGED <<nextId, objected, heard, owed>>

SdkLog ==
    /\ Running("sdk") /\ app = "free"
    /\ Write(Log)
    /\ UNCHANGED sdkVars

(* A request that does not wait for its answer. *)
SdkRequestAsync(a) ==
    /\ Running("sdk") /\ app \in {"free", "await"}
    /\ Write(Frame("CapabilityCall", nextId, a))
    /\ nextId' = nextId + 1
    /\ app' = "await"
    /\ UNCHANGED <<objected, heard, owed>>

(* A request longer than a frame may be: it has its id, and nothing is     *)
(* written.                                                                *)
SdkRequestTooLarge ==
    /\ Running("sdk") /\ app = "free" /\ wrote < MaxFrames[kind]
    /\ nextId' = nextId + 1
    /\ wrote' = wrote + 1
    /\ UNCHANGED <<kind, process, app, objected, heard, owed, pipeVars>>

(* PluginConnection::request, up to its wait ... *)
SdkRequest(a) ==
    /\ Running("sdk") /\ app = "free"
    /\ Write(Frame("CapabilityCall", nextId, a))
    /\ nextId' = nextId + 1
    /\ app' = "await"
    /\ UNCHANGED <<objected, heard, owed>>

(* ... a dispatch of an observe hook, served without a reply, also before  *)
(* the dispatch or the answer that the request waits for ...               *)
SdkObserve ==
    /\ Running("sdk") /\ app = "await"
    /\ Read("HookDispatch") /\ Head(toPlugin).body # "before_capability"
    /\ UNCHANGED sdkVars

(* ... the veto hook: service_hook has the handler's word ... *)
SdkHook(o) ==
    /\ Running("sdk") /\ app = "await"
    /\ Read("HookDispatch") /\ Head(toPlugin).body = "before_capability"
    /\ owed' = <<Frame("HookResult", Head(toPlugin).id, o)>>
    /\ objected' = IF o = "veto" THEN objected \cup {nextId - 1} ELSE objected
    /\ app' = "serving"
    /\ UNCHANGED <<nextId, heard>>

(* ... and writes it back, ...                                             *)
SdkHookReply ==
    /\ Running("sdk") /\ app = "serving"
    /\ Write(owed[1])
    /\ owed' = <<>>
    /\ app' = "await"
    /\ UNCHANGED <<nextId, objected, heard>>

(* ... unless its reason is longer than a frame may be: the request fails, *)
(* the word is never told, and the program goes on ...                     *)
SdkHookReplyTooLarge ==
    /\ Running("sdk") /\ app = "serving"
    /\ app' = "free"
    /\ UNCHANGED <<kind, process, wrote, nextId, objected, heard, owed, pipeVars>>

(* ... and the answer, which has to carry the call's id. *)
SdkAnswer ==
    /\ Running("sdk") /\ app = "await"
    /\ Read("CapabilityResponse")
    /\ \/ /\ Head(toPlugin).id = nextId - 1
          /\ heard' = Append(heard, [id |-> nextId - 1, verdict |-> Head(toPlugin).body])
          /\ app' = "free"
       \/ /\ Head(toPlugin).id # nextId - 1
          /\ app' = "confused" /\ UNCHANGED heard
    /\ UNCHANGED <<nextId, objected, owed>>

-----------------------------------------------------------------------------
(* A program that follows no protocol: any frame, whatever it has read. *)
AnyWrite(f) == Running("any") /\ Write(f) /\ UNCHANGED sdkVars

AnyRead ==
    /\ Running("any") /\ toPlugin # <<>>
    /\ Read(Head(toPlugin).type)
    /\ UNCHANGED sdkVars

AnyCloses ==
    /\ Running("any")
    /\ \/ mouth /\ mouth' = FALSE /\ UNCHANGED <<ears, toPlugin>>
       \/ ears /\ ears' = FALSE /\ toPlugin' = <<>> /\ UNCHANGED mouth
    /\ UNCHANGED <<kind, process, wrote, sdkVars, toHost, stdin, drain>>

(* The process ends in the given way: its ends of the pipes close, what it *)
(* wrote stays to be read.                                                 *)
Ends(how) ==
    /\ process' = how
    /\ ears' = FALSE /\ mouth' = FALSE /\ toPlugin' = <<>>

Exit ==
    /\ process = "running"
    /\ Ends("exited")
    /\ UNCHANGED <<kind, wrote, sdkVars, toHost, stdin, drain>>

PluginStep ==
    \/ SdkBoot \/ SdkReady \/ SdkLog \/ SdkRequestTooLarge
    \/ SdkObserve \/ SdkHookReply \/ SdkHookReplyTooLarge \/ SdkAnswer
    \/ \E a \in Asks : SdkRequest(a)
    \/ \E o \in {"continue", "veto"} : SdkHook(o)
    \/ \E f \in FromPlugin : AnyWrite(f)
    \/ AnyRead \/ AnyCloses \/ Exit
=============================================================================
