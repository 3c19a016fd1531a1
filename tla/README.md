# TLA+ models of rstui

rstui is a terminal UI framework in Rust: a core of buffers, text, layout and
history, an Elm-style runtime, a crossterm back end, widgets, and applications
and plugin transports built on them. This directory holds TLA+ models of the
parts of it that run concurrently, that keep state over long sequences of
calls, or that have to survive the failure of a neighbour; TLC configurations
that check them on small instances; and proofs, checked by TLAPS, of what
matters most for every instance.

`PROJECT.json` is the index: the components, the runs, the source lines each
definition stands for, the hazards each property is aimed at, the mutations of
the model that each property detects, the findings and the theorems. Source
paths below are relative to `src/crates/` and written as crate and file.

To check a run: `tlc -config RunLoopInline.cfg MCRunLoop.tla`. To check the
proofs: `tlapm RunLoop_proofs.tla`, and likewise for the other modules whose
name ends in `_proofs`.

## 1. The system

### Components

| Component | State it keeps | Operations | Interacts with | Model |
|---|---|---|---|---|
| Commands and reducer: `rstui-runtime/cmd.rs`, `settle` in `run.rs` | effects left of a command, queue of messages, step budget | `Cmd::{none, quit, message, perform, tick, every, batch}`, `dispatch`, `settle` | calls the app's `update`, hands work to an executor | `Settle` |
| Run loop: `rstui-runtime/run.rs` (`run`, `run_threaded`, `run_pooled`) | running flag, tick deadline, tick rate, burst counters, repaint flag | poll, coalesce, drain results, tick, render | input device, executor, back end, clock | `RunLoop` |
| Asynchronous loop: `rstui-runtime/run.rs` (`run_async`) | the loop's state, the ticker, the futures of the select | biased select over input, results and ticks | event stream, Tokio executor, clock | `AsyncLoop` |
| Command pool: `rstui-runtime/run.rs` (`PooledCommandExecutor`) | job queue, closed flag, condition variable, worker and timer threads | submit, work, timer, drop | gives its results to the run loop's channel | `CommandPool`, `Executor` |
| Test harness: `rstui-runtime/harness.rs` | app, terminal, running flag | `handle`, `message`, `resize`, `tick` | app under test | not yet |
| Shared-memory channel: `rstui-acp-shm/lib.rs` | two byte rings, head, tail and park words, semaphores, closed word, watchdogs | `create`, `open`, `send`, `recv`, `try_recv`, `Drop`, watchdog | two processes | `ShmChannel`, `MessageChannel` |
| Undo history: `rstui-core/undo.rs` | undo stack, redo stack, open run, capacity | `snapshot`, `snapshot_coalesced`, `undo`, `redo` | the application that owns the document | `UndoStack`, `UndoHistory`, `Timeline` |
| File editor: `rstui-git-review/app.rs` | buffer, its history | mutating keys, undo, redo, open | undo history | `EditMode` |
| Plugin host: `rstui-plugin-host/host.rs`, `std_process.rs`, `plugin_sdk.rs` | process, conversation, deadline, reader thread and its channel, report | run, recv, dispatch of hooks, effect, reply, shutdown, kill; on the other side hello, request, serve, exit | plugin process over pipes, permission policy | `Mediation`, `PluginProcess`, `PluginHost` |
| Agent driver: `rstui-acp-client/acp/driver.rs`, `acp/events.rs` | command and event channels, stage of the connection, prompt tasks, permission map | start, handshake, sign-in, prompt, cancel, set, permission, shutdown | agent process, application | `AcpDriver` |
| ACP application: `rstui-acp-client/app.rs` | the driver held, subscriptions, the request shown, spinner, pickers | fold an event, prompt, cancel, pick, answer, switch agent, quit | drivers | `AcpClient`, in part |
| Terminal lifecycle: `rstui-crossterm/lifecycle.rs`, `shell.rs`, `signal.rs` | options of the guard, hook and signal flags, modes of the terminal | enter, leave, panic hook, signal thread | terminal, OS signals | `TerminalLifecycle` |
| Focus ring: `rstui-core/focus.rs` | base ring, modal scopes, focused id | `focus`, `focus_next`, `focus_prev`, `push_scope`, `pop_scope` | application | not yet |
| Keymap: `rstui-keymap/lib.rs` | pending chords, contexts, timeout | `resolve`, `dispatch`, `expire`, contexts, overrides | application | not yet |
| Plugin links: `rstui-acp-client/plugin/host.rs`, its callers in `app.rs`, `rstui-plugin-core/host.rs` | a channel and a link for each plugin, the merged channel of actions, the subscription | launch, broadcast, receive, fold, quit, fail, tear down; of a link: spawn, write, read, look, kill | plugins over pipes or shared-memory channels, application | `PluginLink` |
| Terminal, buffer, diff: `rstui-core/terminal.rs` | two cell buffers, size | draw, resize | back end | a bit of the loops |
| Text, layout, style, widgets, code, ai, jsonui, theme | none of their own, or a memoised pure function | pure functions | caller | out of scope |
| WebSocket plugins, developer tools, benches, demos, TypeScript SDK | none across requests | request and reply, instrumentation | developer | out of scope |

### How they interact

`run_core` is one thread. It settles a command by folding messages through the
app's `update`; an effect is either run on the spot (`InlineExecutor`, behind
`run`) or given to threads that send their message over an `mpsc` channel
(`run_threaded`: a thread per effect; `run_pooled`: a fixed pool, plus a thread
per timer). The loop polls the input device with a timeout, folds a burst of
buffered events, serves a due tick and draws. `run_async` is the same reducer
in a task that selects over its three sources. Everything outside the loop
(device, workers, clock) moves at any time. Around either loop stands the
terminal's guard, with the panic hook and the signal thread that may restore
the terminal at any moment.

A shared-memory channel joins two processes with no lock between them: each
end publishes its own offset in a shared word, looks at the other's, and parks
on a semaphore when there is nothing to read. A watchdog thread per process
looks for closing and for the death of the parent.

The undo history is a value: the application snapshots the document into it
and assigns what `undo` and `redo` return. Its two users differ in when they
take the snapshot.

The plugin host runs one plugin at a time: its own thread writes to the
plugin's stdin and receives from a bounded channel, which a reader thread fills
from the plugin's stdout. Between a request of the plugin and its effect the
host asks the policy and, for some plugins, the plugin itself.

The ACP client is an application of the runtime. Each agent has a driver task
with a channel of commands in and a channel of events out. The reducer never
waits: a blocking task waits for the next event and posts it, and folding the
event starts the next such task. Its plugins are reached in the same way: a
channel to each link, one merged channel back, one blocking task at a time. A
link is a pair of tasks over pipes, or a thread over a shared-memory channel;
the client ends when the runtime has dropped its tasks and the blocking task
has returned.

### What is hard, and what makes each part correct

* **Reducer.** Messages fold breadth first, in order; a command settles before
  the next input; a quit drops what is left; a runaway chain ends in a panic
  and not in a hang.
* **Run loop.** Repaints are skipped where nothing changed, so the hazard is a
  stale screen; input is coalesced, so the hazard is starvation of ticks,
  results and repaints; one timeout stands for two deadlines; a quit may come
  in the middle of a batch.
* **Asynchronous loop.** The same, with a select that always looks at input
  first, a ticker that outlives the turn it was made in, and sources that
  become ready between two polls of one select.
* **Pool.** The mutex is released between a push and its notification, jobs
  may panic, and the pool may be dropped with work queued: no job may be lost
  or run twice, none may wait while a worker is parked, and every worker must
  leave.
* **Shared-memory channel.** Lost wakeups, overrun of a full ring, the end of
  the stream against the last message, a killed process, `Drop` at both ends.
* **Undo.** Long sequences of legal calls: coalesced runs, the bound, undo and
  redo in any order, files opened in between.
* **Plugin host.** A deadline that can fall anywhere, a plugin that need not
  follow the protocol, bounded pipes and a bounded channel in between, hooks
  answered by the process whose request they judge: no effect against the
  policy or a veto, no process and no thread left behind.
* **ACP client.** Events of several drivers reach one reducer in any order; a
  request must be shown and answered under the agent that made it, the one
  connected must never go unheard, a spinner must have something to stop it,
  and a driver nobody holds must end.
* **Plugin links.** The two ends of a link stop at different moments, a plugin
  may say anything and end or hang at any point, and the process cannot end
  while its blocking task waits for somebody to let go of the merged channel:
  actions must arrive in order, with nothing left out before the first that is
  malformed, and a client that quits must end.
* **Terminal lifecycle.** Three threads restore the same terminal, one escape
  sequence at a time, and not every escape sequence is idempotent.

The `hazards` of `PROJECT.json` give these at the lines where they bite.

## 2. The modules and the code

One module per component. A `_proofs` module extends its component and holds
its theorems (`Lifecycles_proofs` those of the two components of
`MCLifecycles`); an `MC` module extends it and names the sets of an instance. In
each module the operators that come just before an action or a helper and
differ from it in one respect are its mutations: plausible bugs, used only to
see that the properties would notice them.

| Module | Stands for | Uses |
|---|---|---|
| `Settle` | `Cmd::dispatch` and `settle`: the command being dispatched, the queue of messages, the step budget | |
| `RunLoop` | `run_core`, behind `run` (`Inline`) and behind `run_threaded`, `run_pooled` (not `Inline`) | extends `Settle`, a client of `Executor` |
| `AsyncLoop` | `run_async` | extends `Settle`, a client of `Executor` |
| `Executor` | what an executor off the loop promises: one message per deferred job, or none if it panics or the loop is over | |
| `CommandPool` | `PooledCommandExecutor`, its workers and timer threads | implements `Executor` |
| `MessageChannel` | what a channel promises: whole messages, once, in order | |
| `ShmChannel` | both ends of a shared-memory channel and their watchdogs | implements `MessageChannel` |
| `UndoStack` | the value type `History`, as operators on a record | |
| `Timeline` | what `History` promises: a linear timeline of documents | |
| `UndoHistory` | an application that records after each edit, as the documentation of `History` says | extends `UndoStack`, compared with `Timeline` |
| `EditMode` | the editor of `rstui-git-review`, which records before each edit | extends `UndoStack` |
| `HistoryClients` | the two side by side, of one depth and no common state | extends `UndoHistory`, an instance of `EditMode` |
| `Mediation` | what the plugin host promises of the calls of a run | |
| `PluginProcess` | a plugin process, written with the SDK or not, and the two pipes to it | |
| `PluginHost` | `run_plugin`, the reader thread and the deadline | extends `PluginProcess`, implements `Mediation` |
| `AcpDriver` | the driver task of each agent and the agent behind it | |
| `AcpClient` | the application, its subscriptions and its user | extends `AcpDriver` |
| `TerminalLifecycle` | the guard, the panic hook, the signal thread and the terminal | |
| `PluginLink` | the links of the ACP client to its plugins, from their launch to the end of the process | |

### Settle and RunLoop

`pc` is the point `run_core` has reached: `drain` and `arm` are the top of the
loop, `poll` the wait, `coalesce` the burst, `duetick` the look at the tick
deadline after it, `present` the draw, and `settle` any call of `settle`, with
`site` telling which call so that `Return` finds the way back. Each action is
one branch of the code from one of these points to the next: the guards are the
code's conditions, and what the branch sets is set in the same step.

An app is whatever `Commands` and `TickChoices` allow: each update returns any
of these commands and may change what `tick_rate` answers. A message is the
number of the effect that made it, which is what lets the order of effects be
compared with the order of folds. What the screen shows is one bit, `fresh`:
whether the last frame shows the present state and size. The cell diff and the
timings of the observer are left out.

An `Instant` is kept as the time left until it and `Advance` lets one unit pass
at any point. `Duration`s are numbers of units; only their order matters
(`PollInterval` shorter than `Rate`, as 8.33 ms is shorter than a usual tick).

The device gives events at any time, up to `MaxInbox` buffered, may end, and
may fail at any poll; so may the back end at any draw. Some of what it gives
rstui does not model (`Foreign`): a bounded poll that reads such an event
returns `None` at once (`PollNone`), an unbounded one reads on (`PollSkip`).

### AsyncLoop

The same reducer and the same conventions. The biased select is three points,
`input`, `result` and `tick`, passed in this order; each takes its source if it
is ready and else moves on, and the task sleeps in `idle` when none was. The
world may move between any two of them, so that a source may become ready just
after it was polled; `Wake` starts the select over. The ticker is the time to
its next multiple, `tick`, and whether one has passed that was not taken,
`due`, which is what `MissedTickBehavior::Skip` keeps of several. `burst` and
`drain` are the two loops that fold what is there already.

### Executor and CommandPool

What the code does under the mutex is one step, and what it does after it lets
go (`notify_one`, `notify_all`, running the job) is another. `worker[w]` is the
job a worker runs or the point of its loop. The condition variable may wake a
worker nobody notified. A worker may fail to be spawned; at least one is. The
loop's own thread is sequential: it cannot defer or drop the pool while its own
push waits for its notification, but timer threads can push at any time, after
the pool has closed too.

`RunLoop` and `AsyncLoop` take off-loop work as a set of messages that may each
be answered or lost; `Executor` states that contract, and `CommandPool` is
shown to implement it with `fate` as the refinement mapping. Each loop has a
`fate` of its own, under which it is a client that keeps to `Executor`.

### MessageChannel and ShmChannel

A step is at most one load or store of a shared word. The words are `AtomicU64`
with acquire loads and release stores, and a release store may be overtaken by
a later load of another word by the same thread. So each end has a queue of
stores that are not visible yet, of at most `StoreBuffer`, and 0 makes memory
sequentially consistent; semaphore calls wait for it to drain. Bytes are units:
a frame is one unit of length and as many as its body has, and each unit knows
its message and its place, so that an overwritten frame shows.

`Kill` ends a process at any point, with its watchdog; what it had stored may
still become visible. Of the two processes only the opener looks for its
parent, as in the code. `create` and `open` have returned in the initial state,
and a semaphore may hold a token from an earlier run with the same name.

### UndoStack, UndoHistory, Timeline, EditMode, HistoryClients

`Record` is `snapshot_coalesced`, and `snapshot` with `FALSE`; `AfterUndo`,
`AfterRedo`, `Undone` and `Redone` are what `undo` and `redo` leave and return.
The top of the code's `Vec` is the last element. In `UndoHistory` a variable
`redoes`, chosen at the start, says whether the application ever redoes, so
that one specification speaks of both kinds. In `EditMode` a text is the number
of the moment it came to be, and a buffer is a text and a caret: buffers that
differ in the caret alone are different documents to the history, as they are
in the code. `HistoryClients` puts both clients into one state space, and its
instance lets each behaviour be of one of them.

### Mediation, PluginProcess and PluginHost

`Mediation` is the promise in five actions: a call is taken, judged by the
plugin's own hook, performed, answered and reported; the run may end anywhere.

`host` is the point `run_plugin` has reached. A `recv` is two steps: it looks at
the clock (`armed`), and then waits in the channel, so that the deadline can
fall between them. The reader thread is reading, sending into the bounded
channel, or done. A pipe holds `PipeRoom` frames; a write to a full one waits
and a write to one nobody reads fails. Frames are `[type, id, body]`; what the
decoder rejects, a frame cut off, and a frame of any type at any time are among
those a plugin may write. A plugin of kind `sdk` follows `plugin_sdk.rs` under
any program: it asks anything, logs, vetoes, exits or stops at any point, in a
handler as well. A frame of either side may be longer than `MAX_FRAME_SIZE`
allows: it is not written, and the write fails on an open pipe. One of
kind `any` may close its ends of the pipes and keep running, and need not read.

Which requests the policy allows is the set `Allowed`, since a decision has no
state. An effect succeeds or fails. What log lines say is left out.

### AcpDriver and AcpClient

`stage[c]` is where `run` stands for connection `c`: spawned, shaking hands,
waiting for a sign-in, ready, waiting for a change of model, mode or session,
or gone. `cmds[c]` and `events[c]` are the two channels; `turns[c]` counts the
prompt tasks, `perms[c]` is `perm_map`. An event that is only drawn is a `note`.
`Overlap` says whether the JSON-RPC library delivers replies while a handler of
an earlier message waits; the code's comments count on it.

In `AcpClient` a subscription is one of `subs[c]` while it waits and a member of
`mail` when it has posted its event, so that two subscriptions to one driver may
be folded in either order. `FoldEvent` is the whole of `handle_acp` and of the
re-arming after it. Keys go to the pickers, then to the permission request,
then to the screen, as in the code. The history variables `switched` (the user
has left a driver that still ran) and `dropped` (a prompt was discarded by a
driver waiting for a sign-in) name the two things the code does not survive;
section 4 says how.

### PluginLink

`link[p]` is where the link of plugin `p` is. A stdio link waits in `write` for
an event to write and for room in the pipe, and then kills its plugin; its
reader is a task of its own, `reader[p]`. The thread of a `--shm` link goes
round: it sends what is queued (`write`), takes what the plugin has published
(`read`), and looks at the closed word and at `shutting` (`look`). A pipe or a
ring holds `Room` messages. What a plugin says is a number, which `said[p]`
records as one that decodes or does not; responses, which the reader skips, are
left out. Plugins are any programs, with `serve_over` among them: they say
something when there is room, read, return, which closes the channel, or crash,
which does not.

`HostHeld` is who keeps the channels to the links open: the application, and a
subscription that waits, since its closure holds a clone of the host. `life` is
`up`, then `over` when the loop has returned, told or not (`Quit`, `Fails`),
`down` when the runtime drops its tasks, and `exited` when no blocking task is
left. The channel between the host and a `--shm` plugin is a queue here;
`ShmChannel` has what it is made of.

### TerminalLifecycle

A mode is raw mode or one an escape sequence turns on and off; leaving one
takes one step of the thread that does it. Modes are flags; the keyboard
protocol is a stack for each screen, on which whoever started the program may
have an entry, and from which every restore pops once. `RestoresAgain` is the
second restore of the ACP client when its loop has returned. `todo[t]` is the
set of modes thread `t` still has to enter or leave; it takes them in the order
of `Acquired` or `Released`, which are the order of the code. The panic hook
restores the full preset whatever the options were, then calls the hook before
it, then the stack unwinds into the guard. A signal may come at any time, and
it restores and exits.

## 3. What is checked

Each property relates several pieces of state, or a state to an earlier or a
later one. What a theorem of section 5 states for every instance and another
property of the run already needs (the type invariants, `JobInOnePlace`,
`TickOnlyWhenAsked`, `OneLateEffect`) is not checked again by a run.

| Run | Instance | Checks and shows |
|---|---|---|
| `run_loop_inline` | inline; commands: none, one effect, two, a quit, a quit between two; budget 3, 4 effects in all, rate 2, burst 1 and 2 events, 2 buffered events, which rstui may not model; 863 thousand states | `FoldOrder`: breadth first and in order, across nested batches. `TickServed`, `RepaintServed`: a due tick is served and a stale frame redrawn, also while input never ceases |
| `run_loop_threaded` | not inline; 2 effects in all, any of which may panic; budget 2; 1.1 million states | `ScreenCurrent`: whenever the loop waits, the screen shows the present state and size. `EachResultOnce`: no message lost or folded twice. `QuitEndsInput`: after a quit nothing but a tick already due reaches `update`. `ResultServed`: a result in the channel is folded although input never ceases |
| `async_loop` | the same commands, 2 effects in all, rate 2, burst 1 and 1 event, 2 buffered events; 345 thousand states | `ScreenCurrent`, whatever becomes ready between two polls of the select. `QuitIsFinal`: after a quit no update, not even a tick. `CadenceHolds`: input does not reset the schedule of the ticks. `ServedWhenQuiet`: results are served if the poll of the input is pending again and again, and ticks if that of the results is too |
| `command_pool` | 2 workers, 2 jobs and 2 timers, one of each may panic, spurious wakeups; 51 thousand states | `WorkConserving`: while a worker is parked, each queued job has a notification on its way or a worker about to look. `JobServed`: what was queued before the drop is run, unless panics have ended every worker. `WorkersRetire`: no worker outlives the pool. `ImplementsExecutor`: the pool is the executor the loops assume |
| `shm_safety` | ring of 3, frames of 1 and 3, two messages one way and one back, two pending stores per end; 2.2 million states | `ImplementsChannel`: each direction delivers whole messages, once, in order, whatever the order in which the ends see each other's offsets |
| `shm_liveness` | the same ring, two messages one way, sequentially consistent, the host may be killed; 134 thousand states | `Delivered`: a message that was sent reaches a receiver that waits. `CloseReleases`: a closed channel lets go of whoever is in `send` or `recv`. `DropEnds`: `Drop` joins its watchdog and returns. `CrashReleases`: the plugin does not wait for a host that was killed |
| `shm_lost_wakeup` | one pending store per end | violates `WakeOwed`: a parked reader never misses a message or the close |
| `undo` | histories of up to 4; an application with three documents, any edits, runs, undos and redos; an editor with 3 texts and 2 carets; 7 thousand states | `ImplementsTimeline`: an application that never redoes sees the documented timeline. `UndoStaysInFile`: undo and redo never bring back the text of a file opened before |
| `plugin_host` | two requests, one of them allowed; pipes and channel with room for one frame; subscribed to no hook or to all; 6 frames of an SDK plugin, 3 of any other, any of them too long to be sent; 424 thousand states | `SdkNeverMisjudged`: an SDK plugin is never ended as one that broke the protocol, unless its program goes on after a veto whose reason was too long to send. `AnswersReported`: the answers it got are those of the report. `NoEffectAgainstVeto`: no effect for a call that was vetoed or forbidden, none twice. `DeadlineEndsRun`: the run ends by its deadline, unless the host is held up for ever in one of two waits without a limit. `NothingLeft`: neither the process nor the reader thread outlives the run. `ImplementsMediation` |
| `acp_client` | 2 agents one after the other, one permission request each, one command besides answers; 890 thousand states | `OneListener`: the connected agent is always listened to, each agent by one subscription only. `RequestTracked`: the newest request is on its way, on the screen, or answered. `SpinnerOwed`: a turning spinner has something to stop it. `RightAnswerAlone`: a choice goes to the agent whose request was shown. `Released`: a driver nobody holds stops |
| `acp_wrong_answer` | 2 commands, and the user may leave an agent that runs | violates `RightAnswer` |
| `lifecycles` | a behaviour of `TerminalLifecycle` (full preset, full without mouse, inline, none) or of `PluginLink` (a stdio or a `--shm` plugin with 3 messages and events after `Init`, or both with one; room for one); 153 thousand states | `RestoredAtEnd`: however the process ends, the terminal is out of every mode. `PanicReadable`: the panic message is printed on the user's own screen. `KeyboardKept`: the first restore of a whole guard takes nothing from the user's keyboard stack. `SignalEnds`: a signal ends the process. `ActionsInOrder`: what a plugin says is applied in order and once, with none left out before the first malformed message and, over stdio, nothing after it. `LastWordsHeard`: also what it said before it ended is applied, as long as the application runs. `ClientExits`: a client that quits ends, but for two cases (section 4) |

All but `OneListener`'s first half, `Released` and the violated run are, in
`acp_client`, about a user who leaves an agent only when it is gone
(`switched`); section 4 says what happens otherwise.

### The bounds and why they are enough

* `MaxMessages` bounds the effects an app ever returns. Four inline are enough
  for a batch whose first message returns another batch, which tells breadth
  first from depth first, and for one fold more than the budget, which reaches
  the panic. Off the loop two are enough for results in either order, one in
  the channel while the other is folded, and a panic beside an answer.
* `CoalesceLimit` (2, and 1 in `async_loop`) and `MaxInbox` 2 let a burst end
  by its count, by its time and by an empty device; `Advance` is free to run
  between any two steps, so every deadline can pass at any point. Input never
  has to cease: in the runs with fairness a device that always has an event
  waiting is a behaviour.
* `Rate` 2 and `PollInterval` 1: two deadlines of which either may come first.
* Two workers are the least for one that takes the job another was notified of,
  and four jobs the least for two queued behind two running.
* A ring of 3 units makes a frame of 3 fill it exactly and frames of 1 wrap at
  every offset. Two messages one way make the second wait for the first to be
  read, and the one back exercises both semaphores. Two pending stores per end
  cover every pair of stores between which the code performs a load.
* A history of four over three documents lets the bound be reached by edits and
  by redos, with steps to redo left. `MaxTexts` 3 and `MaxSteps` 2 let a file
  be opened over a history of two steps; the bound of the depth does not bind
  there.
* `PipeRoom` 1 and `InboxRoom` 1 make every buffer of a run fill up, and the
  reader wait with a frame in hand. Six frames are an SDK plugin's hello, two
  calls, the results of a hook and a log line; three of any kind reach every
  branch of the host.
* `MaxConns` 2 is one agent to leave and one to connect to; `MaxAsks` 1 gives
  both the request of number 1. `MaxCmds` 1 lets a prompt, a cancel, a change
  or a sign-in meet any of the events; answers and the shutdown are besides.
  Once the application has quit, of the drivers only the way to their end is
  followed, and notes come only from drivers it has left.
* `Room` 1 makes a ring full with `Init` in it and `Shutdown` to come. Three
  messages are a malformed one with one before it and one after; with both
  plugins one is enough, as they share only the merged channel and the end.
* In `TerminalLifecycle` a signal comes at most once and a worker panics at most
  once, before any other restore, which with the main thread makes three
  threads that restore one terminal. A
  second panic of the thread that restores is not a behaviour of the model.

### Fairness

* `RunLoop`, `AsyncLoop`: the loop's thread or task is scheduled (`WF(Loop)`)
  and time passes (`WF(Advance)`). Nothing is asked of the device, which may
  never be silent or never give an event, nor of the workers, whose work may
  never end.
* `CommandPool`: each worker is scheduled, and each step after a push or a
  close is taken; delays elapse and jobs end, which is the app's part of the
  contract (`WF(Work)`). The loop need not defer anything nor return, and no
  spurious wakeup is needed.
* `ShmChannel`: each end goes on with a call it is in (`WF(Proceed)`), its
  watchdog runs, which its timer guarantees (`WF(Watch)`), and stores become
  visible (`WF(Flush)`), which the hardware guarantees. An end need not begin a
  call, need not be interrupted by a signal and need not be killed.
* `PluginHost`: the host's thread and the reader thread are scheduled, effects
  end, and the deadline passes. Of a plugin nothing is assumed, with the SDK or
  without: its program, or its handler of any hook, may hang for ever. A write
  into a pipe that is open need not end either, since a frame longer than the
  pipe needs a plugin that reads; only a write into a closed one does.
* `AcpClient`: drivers and subscriptions are tasks of a fair runtime, the
  reducer folds the event of each, and an agent answers what it is asked, if
  only by an error, or vanishes. The user closes the pickers and answers what
  is on the screen (`WF(Dismiss)`, `WF(Answer)`); the user need not do more.
* `TerminalLifecycle`: the signal thread runs and the process exits when it has
  come to that. The application need neither return nor panic.
* `PluginLink`: links, readers and the subscription run, the reducer folds, the
  runtime is dropped once the loop has returned. Of a plugin nothing is
  assumed, and the user need not quit.
* The histories have no fairness: they are sequential and checked for safety.

Deadlock is checked where a system that stops would be stuck: in the loops, the
pool, the channel and the histories, where `Over` is the step of one that has
come to its end. It is not checked in `plugin_host` (a run ends, and a plugin
may make the host wait for ever), in `acp_client` and `acp_wrong_answer` (the
application has quit, or the bounds are spent) and in `lifecycles` (the process
ends).

## 4. Findings

Two disagreements between the code and what it says of itself have a run:

* **A lost wakeup** (`shm_lost_wakeup`, `rstui-acp-shm/lib.rs:485`). The
  reader's store of the park flag may become visible after its second look at
  `head`, and the writer's store of `head` after its look at the flag. Both
  then see the old value, nobody posts, and the reader parks on a message.
  Sequentially consistent operations, or a fence between store and load on both
  sides, exclude it: without delayed stores `Delivered` holds in `shm_liveness`
  and `NoWakeupLost` is a theorem.
* **An answer to the wrong agent** (`acp_wrong_answer`,
  `rstui-acp-client/app.rs:2990`). Requests are numbered from 1 in each driver,
  the reducer does not know which driver an event is from, and an answer goes
  to the driver held now. A user who leaves agent A while a subscription to it
  waits, and connects to B, may be shown A's request 1, and by answering it
  answers B's. Without such a switch it cannot happen: `RightAnswerAlone` holds
  in `acp_client` and is a theorem.

Further disagreements were met while modelling. Their properties are stated in
the modules, with the comment that no run checks them, because the code does
not keep them; the passing runs take them as part of what the code does.

* **Early ticks** (`TickCadence` in `RunLoop`; `rstui-runtime/run.rs:1317`).
  The loop takes every `None` of a bounded poll for the tick deadline
  (`run.rs:1311`), but a poll returns it for two other reasons. Off the loop its
  timeout is the smaller of the deadline and `COMMAND_POLL_INTERVAL`: an app
  that ticks every 80 ms under `run_threaded` ticks every 8.33 ms. And, inline
  too, a poll that reads an event rstui does not model returns at once
  (`rstui-crossterm/event_source.rs:22`), so that such a key is a tick; so does
  one of a source that has ended (`rstui-core/event_source.rs:188`).
  `EarlyTickCause` says that there is no further reason, and is a theorem.
* **Starved ticks** (`TickServed` in `AsyncLoop`; `run.rs:1018`). The comment
  says the wall-clock budget of a burst keeps ticks from being starved. After
  the burst the biased select takes input again, so that input which never
  pauses starves ticks and results; and results whose updates defer new work
  starve ticks without any input. `ServedWhenQuiet` is what remains.
* **The end before the last message** (`EofAfterLast` in `ShmChannel`;
  `rstui-acp-shm/lib.rs:462`). `recv` looks at the closed word after a poll
  that found nothing and does not poll again.
* **Redo is not the inverse of undo** (`RedoesOnTimeline` in `UndoHistory`;
  `rstui-core/undo.rs:306`, against line 301). `redo` pushes the document it
  leaves, so the document it restores is not on the undo stack: an edit back to
  the one it left is not recorded, and a later undo skips a document.
* **The first edit is lost** (`EditRecoverable` in `EditMode`;
  `rstui-git-review/app.rs:1129`, against line 1951). The editor snapshots the
  buffer before each edit; the first such snapshot equals the seed and is
  dropped as unchanged, so there is nothing to undo.
* **The timeout does not bound the run** (`TimeoutBoundsRun` in `PluginHost`;
  `rstui-plugin-host/host.rs:285`). The host writes to a pipe without room
  (`host.rs:480`, `host.rs:656`) and waits for the exit of a plugin that has
  closed its stdout (`host.rs:584`) without looking at the clock. A frame may
  have 16 MiB, many times what a pipe holds, so that the first needs no full
  pipe but only a plugin that stops reading: also one written with the SDK, if
  its program or a handler hangs. `DeadlineEndsRun` is the property without
  these two.
* **Malformed does not end influence** (`MalformedEndsInfluence` in
  `PluginLink`; `rstui-acp-client/plugin/host.rs:329`). "Fail-closed (ADR 0007):
  malformed ends influence" (line 328), and the module's line 8 says the same.
  Over `--shm` a malformed message only sets `shutting`: the thread goes on to
  the end of what is in the ring and hands on the actions there. Over stdio it
  holds. `ActionsInOrder` asks nothing of what comes after such a message over
  `--shm`, so that it is true of the code and would be of one that stops.
* **A request nobody answers** (`RequestAnswered` in `AcpClient`;
  `rstui-acp-client/app.rs:4053`). A second request takes the place of one that
  is open, and the first is never answered. And though `acp/mod.rs:18` says the
  command loop stays free, it waits for the answer to a change of model, mode
  or session (`acp/driver.rs:352`): if the library keeps replies back while a
  handler waits (`Overlap = FALSE`), the agent that asks at that moment, the
  driver and the user wait for each other.

Smaller notes, each at its line:

* A tick that fell due in a batch is served after a quit in that batch
  (`run.rs:1247`), although line 220 says that a quit abandons what remains.
  `QuitEndsInput` makes room for it; the theorem `UntickedQuitIsFinal` shows it
  is the only exception. That tick uses the rate read before the batch
  (`run.rs:1143`).
* `run_async` skips missed ticks and keeps to multiples of the period, while
  the synchronous loop counts a period from the tick; its comment calls the two
  the same rule.
* `select` drops the futures that lose (`run.rs:943`): an event source whose
  next event is not safe to cancel would lose input.
* Workers that panic are not replaced (`run.rs:416`), and a pool of which no
  worker could be spawned accepts jobs it never runs (`run.rs:453`).
* The host does not notice that its plugin was killed
  (`rstui-acp-shm/lib.rs:301`): only the opener looks for its parent. The
  opener's watchdog may create the semaphores anew after the creator has
  unlinked them (`lib.rs:313`). An opener that comes before the creator has
  truncated an old segment attaches to that one (`lib.rs:242`). Two ends that
  both send into full rings wait for each other (`lib.rs:380`).
* A coalesced run that returns to the document before it leaves an undo step
  that changes nothing (`rstui-core/undo.rs:251`). An edit after an undo keeps
  the redo stack in the review's editor, when the buffer it starts from is the
  one at the top (`rstui-git-review/app.rs:1129`).
* A veto whose reason is too long for a frame is never told: `request` fails,
  the host waits for the result, and the program's next frame ends the run as
  misdirected (`rstui-plugin-host/host.rs:492`): the exception in
  `SdkNeverMisjudged`.
* The host writes `SessionEnd` only after the end of the plugin's output, so
  that an SDK plugin never hears it. A plugin's stderr is piped and not
  drained. Killed plugins are not waited for, the grace period that the module
  documentation of `std_process.rs` mentions is not there, and the effect of a
  command has no limit of time.
* The `Disconnected` of an agent the user has left drops the connection to the
  one that took its place (`rstui-acp-client/app.rs:4084`), and the end of an
  agent closes neither its request nor the sign-in picker. A failed change of
  model stops the spinner of a turn that goes on; cancelling a turn leaves its
  request on the screen.
* A prompt sent while the driver waits for a sign-in is discarded and the
  spinner turns for ever (`acp/driver.rs:264`): the exception `dropped`.
* The client does not end when its input ends or a draw fails with a `--shm`
  plugin attached: the loop returns without `begin_quit`, the subscription waits
  for the link's thread to drop its sender (`plugin/host.rs:103`), and the
  thread for the host, of which that subscription holds a clone. Nor does a
  client that quits, if the thread waits for room in the ring of a plugin that
  does not read (`plugin/host.rs:294`; a crash leaves the closed word as it is).
  These are the exceptions of `ClientExits`.
* What a `--shm` plugin publishes between the last read of its ring and the look
  at the closed word is lost (`plugin/host.rs:336`): the exception in
  `LastWordsHeard`.
* A plugin is killed as soon as `Shutdown` is written (`plugin/host.rs:208`), so
  that it need not come to handle it; and a stdio plugin whose link the runtime
  drops before is not killed at all, it sees the end of its input. An answer
  goes to every plugin of the same basename (`plugin/host.rs:92`), and a second
  question of a plugin takes the place of an open one, which is never answered
  (`app.rs:2312`).
* A signal that arrives while the guard enters its modes may restore before
  they are all entered (`rstui-crossterm/signal.rs:139`): the exception
  `overtaken`. A worker's panic restores the terminal under an application that
  goes on (`shell.rs:140`). A second restore pops the keyboard stack of the
  main screen, an entry that the program did not push (`lifecycle.rs:456`): the
  guard's after a panic, and in the ACP client one after every return without
  an error (`rstui-acp-client/lib.rs:242`). `KeyboardKept` is about the first.
  A draw hides the cursor and nothing shows it again on exit
  (`rstui-core/terminal.rs:235`).

## 5. What is proved

The theorems hold for every value of the constants that the named assumptions
of the modules admit (`SettleAssumption`, `RunLoopAssumption`,
`AsyncAssumption`, `PoolAssumption`, `ShmAssumption`, `CapAssumption`,
`PluginAssumption`, `MalformedAssumption`, `HostAssumption`, `ConnsAssumption`,
`OptionsAssumption`, `KindsAssumption`); TLC evaluates these for its
instances. They are facts about the model, so they rest on the model
being faithful. Each is proved from an inductive invariant, with one step per
action. The few lemmas about queues (what a push or a pop does to `Range`, to
injectivity and to the order) stand at the head of each module that cites them.

### The run loop (`RunLoop_proofs`)

* `TypeCorrect`. `TypeOK` is inductive.
* `ScreenAlwaysCurrent`: `ScreenCurrent` for every app, executor, device and
  budget. It is not inductive: what makes it true is that every change the
  screen lacks is recorded in `changed`, until the point that decides whether
  to draw. `ScreenInv` says so, point by point.
* `FoldsInOrder`: `FoldOrder`. `OrderInv` adds what the order comes from: the
  messages folded are the first ones issued, those pending are the rest, and
  outside a settle none is left.
* `SettlesBeforeInput`: no input is handled while a message or an effect of the
  last step is pending, from `OrderInv` and `QuitInv` (where the loop can be
  once a quit has settled).
* `QuitEndsFolding`: `QuitEndsInput`, from `QuitInv` and the fact that
  `running` never comes back.
* `UntickedQuitIsFinal`: an app that never ticks runs no update after a quit.
  It assumes `TickChoices = {FALSE}`, and names the reason why the general
  property has to except the tick.
* `ResultsFoldedOnce`: `EachResultOnce`, from `ResultInv`: the places a deferred
  message can be in do not overlap and hold all that was deferred.
* `LoopKeepsToExecutor`: `KeepsToExecutor`. Off the loop, every step of the loop
  and its workers is a step of `Executor` under `fate`, or a stutter, from
  `ClientInv` (the command in hand fits, and no number is given twice). The
  contract the pool implements is the one the loop lives by.
* `EarlyTicksHaveCause`: `EarlyTickCause`, behind every executor. By
  `CadenceInv` the tick's deadline is a period or more after the last tick, and
  the timeout of a poll is that deadline or, off the loop, an interval begun
  after that tick. So a tick of a batch is never early, and one at the poll is
  for a reason that section 4 names.

### The asynchronous loop (`AsyncLoop_proofs`)

`LoopInv` is `TypeOK`, `ScreenInv` (from the top of the loop to the select the
screen is current; an update of a batch marks the batch as changed), `QuitInv`
(a quit settles only on the way to the last frame) and `TickInv` (between the
top of the loop and the tick arm no update comes, so that the rate read there
is still the app's). From it: `TypeCorrect`, `ScreenAlwaysCurrent`,
`QuitAlwaysFinal` and `TicksAreAskedFor`.

`ResultsFoldedOnce`: `EachResultOnce`, which here holds until the task is over,
also after a quit, since nothing is queued in a settle (`ResultInv`).
`LoopKeepsToExecutor` is as for `run_core`.

### The command pool (`CommandPool_proofs`)

* `TypeCorrect`, for any finite sets of workers and jobs.
* `NoLostWakeup`: `WorkConserving`. Together with `TypeOK` it is inductive: a
  push brings its notification, a taken job one worker fewer that looks, and a
  worker parks only when the queue is empty. Set and sequence facts are the
  lemmas `PushQueue`, `PopQueue` and `Moves`.
* `EachJobInOnePlace`: `JobInOnePlace`. Its inductive part is `Places`: the
  places are disjoint, their union is what was deferred, and a job about to be
  notified is no longer with its timer. `Counted` turns it into the equation of
  cardinalities.
* `PoolImplementsExecutor`: every step of the pool is a step of `Executor`
  under `fate`, or a stutter. `PoolInv` is what excludes that a job that was
  answered is answered again.

### The shared-memory channel (`ShmChannel_proofs`)

* `DeliversInOrder`: `ImplementsChannel`, for any capacity of the ring, sizes
  of messages and store buffer. `ChannelInv` says three things. `ThreadInv`: a
  message being sent fits the ring. `MemoryInv`: what an end sees of the
  other's offset, and what is still in a store buffer, is never ahead of it, so
  that an end errs only by waiting. `Layout`: there are places, one after the
  other, at which the messages lie, and those not yet read are in the ring at
  these places modulo its capacity. That a new frame overwrites none of them is
  arithmetic on remainders, in lemmas of its own.
* `NoWakeupLost`, for `StoreBuffer = 0`: a reader parked on a message has a
  post on its way, and one parked on a closed channel has its watchdog to wake
  it. `WakeInv` follows the two flags through the reader's second look. With a
  store buffer it is false, which is the first finding.

### The undo history (`UndoHistory_proofs`)

* `TypeCorrect`: the stacks keep their types and the undo stack is never empty,
  which `Last` relies on and the code calls unreachable
  (`rstui-core/undo.rs:254`).
* `DepthIsBounded`, for any capacity. Undo moves a document from one stack to
  the other and redo moves it back, so the sum is what is bounded and not the
  undo stack alone.
* `TimelineImplemented`: `ImplementsTimeline`, from `TopIsDoc`: without redo
  the top of the undo stack is the document.
* `HistoryStaysInFile`: `UndoStaysInFile` for any carets, texts and steps. By
  `FileInv` the buffer and all that both stacks hold are of texts not older
  than the open file.

### The plugin host (`PluginHost_proofs`)

`RunInv` is the types of what the proofs need, `CallInv` (where the call in
hand stands, by where `run_plugin` is), `ProcessInv` (nothing runs before the
spawn or after the run) and `LateInv` (after the deadline no `recv` begins).
From it, for any requests, policy, subscriptions and sizes of the pipes:

* `NoOrphanEver`: however a run ends, its process is gone by then; the safety
  half of `NothingLeft`.
* `OneEffectTooLate`: `OneLateEffect`.
* `RunIsMediation`: `ImplementsMediation`. Every step of a run is a step of
  `Mediation` or a stutter.

Three more theorems are about what the two sides know of each other, so their
invariant, `TalkInv`, has to follow each frame. It reads the plugin's outgoing
pipe, the frame in the reader's hand and the bounded channel as one stream
(`Stream`), and the plugin's incoming pipe as another. `FrameFits` and
`ReplyFits` say which frames may be under way at which point of the
conversation, `OrderInv` in which order they come, and `Counted` that of every
call the plugin has made the host has seen those whose frames have left the
stream. `HeldInv` and `BooksTyped` are about the books the host keeps, and
`AllowedInv` about the policy and the hooks asked before an effect.

* `SdkUnderstood`: `SdkNeverMisjudged`. A plugin that talks through the SDK is
  never ended as one that broke the protocol, at whatever moment the deadline,
  the end of its output or a full pipe comes. `Mute` is the state of the
  exception: a veto is owed that the program has left untold.
* `ReportIsWhatWasAnswered`: `AnswersReported`. The answers such a plugin has
  got are an initial part of those of the report, in order and under the same
  ids, of which requests too long to be sent have used up some.
* `VetoHolds`: `NoEffectAgainstVeto`. No effect runs that the policy does not
  allow, whatever the plugin; and none runs for a call to which the SDK plugin's
  own handler objected, nor twice for one call.

### The terminal and the plugin links (`Lifecycles_proofs`)

* `TerminalRestored`: `RestoredAtEnd`. Besides the types, `TerminalInv` says
  that a mode that is on is on the list of a thread that is restoring or will
  restore, that until a second restore begins at most one thread restores, and
  that the alternate screen stays until the keyboard protocol is popped. It
  holds for any set of options, with any interleaving of the main thread, a
  panicking worker and the signal thread; as in the property, a signal that
  overtakes the guard while it enters its modes is excepted.
* `PanicIsReadable` and `KeyboardIsKept`: `PanicReadable` and `KeyboardKept`,
  from the same invariant.
* `ActionsKeepOrder`: `ActionsInOrder`, for any plugins, numbers of messages and
  sizes of pipes and rings. `LinksInv` follows an action from the pipe to the
  link, to the merged channel, to the event posted and to the application:
  `InOrder` says that this path is in order and holds nothing twice, `NoneLost`
  that nothing the code lets through is missing on it while the application
  holds the host, and
  `ReadsOn` that a stdio reader goes on only while all it read was decoded.

### The ACP client (`AcpClient_proofs`)

For any numbers of agents, requests and commands and for either value of
`Overlap`:

* `AlwaysListened`: `OneListener`. `SubsInv` adds that a connection not yet
  opened has not begun, that handles are what the application and its
  subscriptions hold, and that without a switch there is one subscription, or
  the one event that ended it, and only for the driver held.
* `RequestNeverLost` and `AnswersReachTheirAgent`: `RequestTracked` and
  `RightAnswerAlone`. `AskInv` says that ids grow along the channel of events,
  so that the newest request is the last one shown, and that the request shown,
  and every answer on its way, are of the agent that holds it.
* `SpinnerHasReason`: `SpinnerOwed`. `Owed` follows a prompt from the command
  channel to its turn and to the event that ends it; it survives every step but
  the two that `switched` and `dropped` name.

### Only model-checked

Liveness: `TickServed`, `RepaintServed`, `ResultServed`, `CadenceHolds`,
`ServedWhenQuiet`, `JobServed`, `WorkersRetire`, `Delivered`,
`CloseReleases`, `DropEnds`, `CrashReleases`, `DeadlineEndsRun`,
`NothingLeft`, `Released`, `SignalEnds`, `LastWordsHeard`, `ClientExits`.
The proof system does not treat fairness and `ENABLED`.

Every invariant and every safety property that a passing run checks is a
theorem. Some theorems state a property that no run checks (`EachResultOnce` and
`KeepsToExecutor` of `AsyncLoop`, `EarlyTickCause` and `KeepsToExecutor` of
`RunLoop`, `NoOrphan`, `OneLateEffect`, `JobInOnePlace`);
TLC was used to test them before their proofs.

## 6. What is not modelled, and why

* Of the modelled components: the observer of `run_core` (timings only), the
  cell diff of a draw, `Cmd::map` (it relabels messages), the creation of and
  attachment to a shared-memory segment, saving and the other modes of the
  review's application (they do not touch the history), the environment and
  stderr of a plugin process, colour detection and the cursor.
* Of the terminal: the lock of stdout. A main thread that blocks in a write
  holds it, and the signal thread would wait for it before it restores; here a
  write always ends.
* Of the ACP application: composer, transcript, search, themes, forms, the
  files of history and sessions. They are sequential and touch no driver.
* Policy decisions, effects on files, the wire encodings and the manifest of
  plugins: a pure decision or parsing; the host takes them as a set of allowed
  requests and as frames that decode or do not.
* Text editing, selection, search, scrolling, layout, geometry, style: pure or
  sequential functions of values, which unit tests reach.
* Widgets, code, markdown, diff and mermaid views, ai, json views, themes:
  projections of state that the caller owns to cells. They are most of the
  repository's lines, and have no steps to interleave and nothing to recover.
* Developer tools, benches, demonstrations, the TypeScript SDK, the WebSocket
  plugin host: no state of their own between requests.

## 7. Plan

What is left, the behaviour that matters most first:

1. `Keymap`: leader chords and their timeouts, contexts that capture; and
   `FocusRing`: scopes and validated restore. Protocols of legal calls.
2. `Harness`: the deterministic driver as a second implementation of the
   reducer core, compared with the inline loop.
3. Proofs that sharpen what is there: the safety halves of the liveness
   properties (who may wait for whom, and what is true when a wait ends) for
   every instance, as `NoOrphanEver` is for `NothingLeft`.
