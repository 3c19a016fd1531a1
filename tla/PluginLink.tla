----------------------------- MODULE PluginLink -----------------------------
(***************************************************************************)
(* The plugin links of the ACP client (plugin/host.rs, app.rs).  The       *)
(* application broadcasts events to its plugins, each through a channel to *)
(* a link: a task that writes to the plugin's stdin, with a reader task    *)
(* for its stdout, or, for a --shm plugin, an OS thread that serves both   *)
(* rings in turns.  What the plugins say is merged into one channel, from  *)
(* which one blocking task at a time receives for the reducer.             *)
(*                                                                         *)
(* When the loop returns, the runtime drops its tasks and waits for the    *)
(* blocking one; a thread of a --shm link is nobody's to drop.             *)
(*                                                                         *)
(* The plugins are any programs: they write, read, end and crash when they *)
(* like.  An action is known by its number among what its plugin said.     *)
(***************************************************************************)
EXTENDS Naturals, Sequences, SequencesExt, FiniteSets

CONSTANTS
    Stdio, Shm,     \* the plugins of either kind
    Room,           \* what a pipe or a ring holds
    MaxTraffic      \* for each set of plugins that may be launched, a bound: their
                    \* messages, and the events after Init but for Shutdown

Plugins == Stdio \cup Shm

Messages == 1 .. Max({MaxTraffic[l] : l \in DOMAIN MaxTraffic})

VARIABLES
    launched,   \* the plugins there are (PluginHost::conns)
    queue,      \* the channel to each link: events not yet written (tx, rx)
    link,       \* where the link is
    shutting,   \* a --shm link is to end after this round
    reader,     \* the reader task of a stdio link runs
    running,    \* the plugin's process runs
    closed,     \* the closed word of a --shm plugin's channel
    inbox,      \* stdin, or the ring to the plugin
    outbox,     \* stdout, or the ring from the plugin: numbers of messages
    said,       \* history: for each message of a plugin, whether it decodes
    posted,     \* the merged channel (ev_tx, events)
    subs,       \* subscriptions that block in recv
    mail,       \* actions received and not yet folded, in any order
    applied,    \* history: the actions folded, for each plugin
    life,       \* the application, and then its process
    shutdownSent, \* begin_quit has run
    sent        \* events broadcast so far

linkVars == <<launched, queue, link, shutting, reader, running, closed, inbox, outbox, said>>
appVars == <<posted, subs, mail, applied, life, shutdownSent, sent>>
vars == <<linkVars, appVars>>

Actions == [from : Plugins, n : {0} \cup Messages]

TypeOK ==
    /\ launched \in DOMAIN MaxTraffic
    /\ queue \in [Plugins -> Seq({"event", "shutdown"})]
    /\ link \in [Stdio -> {"spawn", "write", "kill", "gone"}]
            \cup [Plugins -> {"spawn", "write", "read", "look", "kill", "gone"}]
    /\ {shutting, reader, running, closed} \subseteq [Plugins -> BOOLEAN]
    /\ inbox \in [Plugins -> Seq({"event", "shutdown"})]
    /\ outbox \in [Plugins -> Seq(Messages)]
    /\ said \in [Plugins -> Seq(BOOLEAN)]
    /\ posted \in Seq(Actions) /\ mail \subseteq Actions /\ subs \in Nat
    /\ applied \in [Plugins -> Seq(Messages)]
    /\ life \in {"up", "over", "down", "exited"}
    /\ shutdownSent \in BOOLEAN /\ sent \in Nat

\* Boot: the plugins are launched, told Init, and listened to.
Init ==
    /\ launched \in DOMAIN MaxTraffic
    /\ queue = [p \in Plugins |-> IF p \in launched THEN <<"event">> ELSE <<>>]
    /\ link = [p \in Plugins |-> IF p \in launched THEN "spawn" ELSE "gone"]
    /\ shutting = [p \in Plugins |-> FALSE]
    /\ reader = [p \in Plugins |-> FALSE]
    /\ running = [p \in Plugins |-> FALSE]
    /\ closed = [p \in Plugins |-> FALSE]
    /\ inbox = [p \in Plugins |-> <<>>] /\ outbox = [p \in Plugins |-> <<>>]
    /\ said = [p \in Plugins |-> <<>>]
    /\ posted = <<>> /\ subs = 1 /\ mail = {}
    /\ applied = [p \in Plugins |-> <<>>]
    /\ life = "up" /\ shutdownSent = FALSE /\ sent = 0

\* The bound.
Traffic == FoldSet(LAMBDA p, n : Len(said[p]) + n, sent, launched) < MaxTraffic[launched]

Go(p, s) == link' = [link EXCEPT ![p] = s]

\* Who holds the host, and with it every tx: the application and a waiting subscription.
HostHeld == life = "up" \/ subs > 0

\* A host nobody holds receives no more.
Post(p, n) == posted' = IF HostHeld THEN Append(posted, [from |-> p, n |-> n]) ELSE posted

\* What is left alone by a step of a link, and of an application that posts nothing.
AppIdle == UNCHANGED <<subs, mail, applied, life, shutdownSent, sent>>

-----------------------------------------------------------------------------
\* The plugin's process is started; or it cannot be, which one Log says.
Spawn(p) ==
    /\ link[p] = "spawn"
    /\ \/ /\ Go(p, "write")
          /\ running' = [running EXCEPT ![p] = TRUE]
          /\ reader' = [reader EXCEPT ![p] = p \in Stdio]
          /\ UNCHANGED posted
       \/ /\ Go(p, "gone") /\ Post(p, 0)
          /\ UNCHANGED <<running, reader>>
    /\ AppIdle
    /\ UNCHANGED <<launched, queue, shutting, closed, inbox, outbox, said>>

\* The next event reaches the pipe or the ring.
Deliver(p) ==
    /\ Len(inbox[p]) < Room
    /\ inbox' = [inbox EXCEPT ![p] = Append(@, Head(queue[p]))]

\* The task of a stdio link: it writes until it has written Shutdown, until a
\* write fails or until nobody can send to it any more.
WriteStdio(p) ==
    /\ p \in Stdio /\ link[p] = "write"
    /\ \/ /\ queue[p] # <<>> /\ running[p]
          /\ Deliver(p)
          /\ queue' = [queue EXCEPT ![p] = Tail(@)]
          /\ Go(p, IF Head(queue[p]) = "shutdown" THEN "kill" ELSE "write")
       \/ /\ queue[p] # <<>> /\ ~ running[p]
          /\ queue' = [queue EXCEPT ![p] = Tail(@)]
          /\ Go(p, "kill") /\ UNCHANGED inbox
       \/ /\ queue[p] = <<>> /\ ~ HostHeld
          /\ Go(p, "kill") /\ UNCHANGED <<queue, inbox>>
    /\ AppIdle
    /\ UNCHANGED <<launched, shutting, reader, running, closed, outbox, said, posted>>

\* A mutant: a line that does not decode is skipped.
ReadStdioOn(p) ==
    /\ p \in Stdio /\ reader[p]
    /\ \/ /\ outbox[p] # <<>>
          /\ outbox' = [outbox EXCEPT ![p] = Tail(@)]
          /\ IF said[p][Head(outbox[p])] THEN Post(p, Head(outbox[p])) ELSE UNCHANGED posted
          /\ reader' = [reader EXCEPT ![p] = HostHeld]
       \/ /\ outbox[p] = <<>> /\ ~ running[p]
          /\ reader' = [reader EXCEPT ![p] = FALSE]
          /\ UNCHANGED <<outbox, posted>>
    /\ AppIdle
    /\ UNCHANGED <<launched, queue, link, shutting, running, closed, inbox, said>>

\* The reader task: a line that does not decode ends it, as does the end of the
\* output or of the host.
ReadStdio(p) ==
    /\ p \in Stdio /\ reader[p]
    /\ \/ /\ outbox[p] # <<>> /\ said[p][Head(outbox[p])]
          /\ Post(p, Head(outbox[p]))
          /\ outbox' = [outbox EXCEPT ![p] = Tail(@)]
          /\ reader' = [reader EXCEPT ![p] = HostHeld]
       \/ /\ outbox[p] # <<>> => ~ said[p][Head(outbox[p])]
          /\ outbox[p] = <<>> => ~ running[p]
          /\ reader' = [reader EXCEPT ![p] = FALSE]
          /\ UNCHANGED <<outbox, posted>>
    /\ AppIdle
    /\ UNCHANGED <<launched, queue, link, shutting, running, closed, inbox, said>>

\* The thread of a --shm link sends what is queued.  A send waits for room in the
\* ring; a closed channel stops that, and a lost host stops the thread.
SendShm(p) ==
    /\ p \in Shm /\ link[p] = "write"
    /\ \/ /\ queue[p] # <<>> /\ Deliver(p)
          /\ queue' = [queue EXCEPT ![p] = Tail(@)]
          /\ shutting' = [shutting EXCEPT ![p] = @ \/ Head(queue[p]) = "shutdown"]
          /\ UNCHANGED link
       \/ /\ queue[p] # <<>> /\ Len(inbox[p]) = Room /\ closed[p]
          /\ queue' = [queue EXCEPT ![p] = Tail(@)]
          /\ shutting' = [shutting EXCEPT ![p] = TRUE]
          /\ UNCHANGED <<link, inbox>>
       \/ /\ queue[p] = <<>>
          /\ shutting' = [shutting EXCEPT ![p] = @ \/ ~ HostHeld]
          /\ Go(p, "read") /\ UNCHANGED <<queue, inbox>>
    /\ AppIdle
    /\ UNCHANGED <<launched, reader, running, closed, outbox, said, posted>>

\* Then it takes what the plugin has published, also what follows a message that
\* does not decode.
RecvShm(p) ==
    /\ p \in Shm /\ link[p] = "read"
    /\ IF outbox[p] = <<>>
       THEN Go(p, "look") /\ UNCHANGED <<outbox, shutting, posted>>
       ELSE /\ outbox' = [outbox EXCEPT ![p] = Tail(@)]
            /\ IF said[p][Head(outbox[p])]
               THEN Post(p, Head(outbox[p])) ELSE UNCHANGED posted
            /\ shutting' = [shutting EXCEPT ![p] = @ \/ ~ said[p][Head(outbox[p])] \/ ~ HostHeld]
            /\ UNCHANGED link
    /\ AppIdle
    /\ UNCHANGED <<launched, queue, reader, running, closed, inbox, said>>

\* A channel that is closed, by a plugin that returns, ends the thread, too.
Look(p) ==
    /\ p \in Shm /\ link[p] = "look"
    /\ Go(p, IF closed[p] \/ shutting[p] THEN "kill" ELSE "write")
    /\ AppIdle
    /\ UNCHANGED <<launched, queue, shutting, reader, running, closed, inbox, outbox, said, posted>>

\* A mutant: the reader task is aborted with the link.
KillAll(p) ==
    /\ link[p] = "kill"
    /\ Go(p, "gone")
    /\ running' = [running EXCEPT ![p] = FALSE]
    /\ closed' = [closed EXCEPT ![p] = p \in Shm]
    /\ reader' = [reader EXCEPT ![p] = FALSE]
    /\ AppIdle
    /\ UNCHANGED <<launched, queue, shutting, inbox, outbox, said, posted>>

\* The plugin is killed and waited for; a --shm link drops its channel.
Kill(p) ==
    /\ link[p] = "kill"
    /\ Go(p, "gone")
    /\ running' = [running EXCEPT ![p] = FALSE]
    /\ closed' = [closed EXCEPT ![p] = p \in Shm]
    /\ AppIdle
    /\ UNCHANGED <<launched, queue, shutting, reader, inbox, outbox, said, posted>>

\* The runtime drops the two tasks of a stdio link.  The process lives on.
Dropped(p) ==
    /\ p \in Stdio /\ life = "down"
    /\ link[p] # "gone" \/ reader[p]
    /\ Go(p, "gone")
    /\ reader' = [reader EXCEPT ![p] = FALSE]
    /\ AppIdle
    /\ UNCHANGED <<launched, queue, shutting, running, closed, inbox, outbox, said, posted>>

-----------------------------------------------------------------------------
\* A plugin says something, which may not decode, when there is room for it.
Says(p) ==
    /\ running[p] /\ Len(outbox[p]) < Room /\ Traffic
    /\ p \in Stdio => reader[p]
    /\ \E ok \in BOOLEAN : said' = [said EXCEPT ![p] = Append(@, ok)]
    /\ outbox' = [outbox EXCEPT ![p] = Append(@, Len(said[p]) + 1)]
    /\ AppIdle
    /\ UNCHANGED <<launched, queue, link, shutting, reader, running, closed, inbox, posted>>

Reads(p) ==
    /\ running[p] /\ inbox[p] # <<>>
    /\ inbox' = [inbox EXCEPT ![p] = Tail(@)]
    /\ AppIdle
    /\ UNCHANGED <<launched, queue, link, shutting, reader, running, closed, outbox, said, posted>>

\* It returns from its serve loop, which closes its channel, or it crashes, which does not.
Ends(p) ==
    /\ running[p]
    /\ running' = [running EXCEPT ![p] = FALSE]
    /\ \E clean \in BOOLEAN : closed' = [closed EXCEPT ![p] = p \in Shm /\ clean]
    /\ AppIdle
    /\ UNCHANGED <<launched, queue, link, shutting, reader, inbox, outbox, said, posted>>

-----------------------------------------------------------------------------
\* To every plugin whose link still receives.
Broadcast(e) ==
    queue' = [p \in Plugins |-> IF link[p] = "gone" THEN queue[p] ELSE Append(queue[p], e)]

LinksIdle == UNCHANGED <<launched, link, shutting, reader, running, closed, inbox, outbox, said>>

\* A refresh, a prompt, the answer to a question: all go the same way.
Happens ==
    /\ life = "up" /\ Traffic
    /\ sent' = sent + 1
    /\ Broadcast("event")
    /\ LinksIdle
    /\ UNCHANGED <<posted, subs, mail, applied, life, shutdownSent>>

Receive ==
    /\ subs > 0 /\ posted # <<>>
    /\ posted' = Tail(posted)
    /\ mail' = mail \cup {Head(posted)}
    /\ subs' = subs - 1
    /\ UNCHANGED <<linkVars, applied, life, shutdownSent, sent>>

\* recv fails when every sender is gone, and the subscription with it.
ReceiveEnd ==
    /\ subs > 0 /\ posted = <<>>
    /\ \A p \in Plugins : link[p] = "gone" /\ ~ reader[p]
    /\ subs' = subs - 1
    /\ UNCHANGED <<linkVars, posted, mail, applied, life, shutdownSent, sent>>

\* The reducer applies the action and listens again.
Fold(a) ==
    /\ life = "up" /\ a \in mail
    /\ mail' = mail \ {a}
    /\ applied' = IF a.n = 0 THEN applied ELSE [applied EXCEPT ![a.from] = Append(@, a.n)]
    /\ subs' = subs + 1
    /\ UNCHANGED <<linkVars, posted, life, shutdownSent, sent>>

\* A mutant: the plugins are not told.
QuitSilently ==
    /\ life = "up"
    /\ life' = "over" /\ shutdownSent' = TRUE
    /\ LinksIdle
    /\ UNCHANGED <<launched, queue, posted, subs, mail, applied, sent>>

\* The user quits: the plugins are told, the loop returns.
Quit ==
    /\ life = "up"
    /\ life' = "over" /\ shutdownSent' = TRUE
    /\ Broadcast("shutdown")
    /\ LinksIdle
    /\ UNCHANGED <<posted, subs, mail, applied, sent>>

\* The input ends or fails, or a draw fails: the loop returns, and nobody is told.
Fails ==
    /\ life = "up"
    /\ life' = "over"
    /\ UNCHANGED <<linkVars, posted, subs, mail, applied, shutdownSent, sent>>

\* main returns and the runtime is dropped: its tasks are, at their awaits.
TearDown ==
    /\ life = "over"
    /\ life' = "down"
    /\ UNCHANGED <<linkVars, posted, subs, mail, applied, shutdownSent, sent>>

\* It waits for the blocking task; the threads of the links end with the process.
Exit ==
    /\ life = "down" /\ subs = 0
    /\ life' = "exited"
    /\ UNCHANGED <<linkVars, posted, subs, mail, applied, shutdownSent, sent>>

LinkWork(p) == Spawn(p) \/ WriteStdio(p) \/ SendShm(p) \/ RecvShm(p) \/ Look(p) \/ Kill(p)

Client ==
    \/ Happens \/ Receive \/ ReceiveEnd \/ \E a \in mail : Fold(a)
    \/ Quit \/ Fails \/ TearDown \/ Exit

Next ==
    \/ /\ life # "exited"
       /\ \E p \in Plugins : \/ LinkWork(p) \/ ReadStdio(p) \/ Dropped(p)
                             \/ Says(p) \/ Reads(p) \/ Ends(p)
    \/ Client

\* Threads and tasks run, the reducer folds, and the runtime is dropped.  A plugin
\* need do nothing, and the user need not quit.
Fairness ==
    /\ \A p \in Plugins : WF_vars(life # "exited" /\ LinkWork(p))
    /\ \A p \in Stdio : WF_vars(life # "exited" /\ ReadStdio(p)) /\ WF_vars(Dropped(p))
    /\ WF_vars(Receive \/ ReceiveEnd \/ \E a \in mail : Fold(a))
    /\ WF_vars(TearDown \/ Exit)

Spec == Init /\ [][Next]_vars /\ Fairness

-----------------------------------------------------------------------------
\* What a plugin said before anything malformed, the reducer is to apply.  Of what
\* follows it may apply nothing over stdio; of a --shm plugin, what decodes, as the
\* code does: "malformed ends influence" (plugin/host.rs:328) promises that it does not.
Clean(p, n) == \A j \in 1 .. n : said[p][j]
Due(p) == {n \in DOMAIN said[p] : Clean(p, n)}
Fit(p) == {n \in DOMAIN said[p] : said[p][n] /\ (p \in Stdio => Clean(p, n))}

\* Two channels, a task or a thread and a re-armed subscription lie between a
\* plugin and the reducer: its actions arrive in order and once each, none is left
\* out of what is due, and over stdio nothing that follows a malformed line.
ActionsInOrder ==
    \A p \in Plugins :
        /\ Range(applied[p]) \subseteq Fit(p)
        /\ \A i, j \in DOMAIN applied[p] : i < j => applied[p][i] < applied[p][j]
        /\ \A m \in Range(applied[p]), n \in Due(p) : n < m => n \in Range(applied[p])

\* Nothing that follows a malformed message is applied, over either transport
\* (plugin/host.rs:8 and 328).  In no run: the code does not keep it, RecvShm goes
\* on to the end of the ring (README).
MalformedEndsInfluence ==
    \A p \in Plugins : \A n \in Range(applied[p]) : Clean(p, n)

\* An action a stdio plugin wrote is applied while the application runs, also when
\* the plugin has ended since and the link that wrote to it is gone.  Of a --shm
\* plugin this holds of what is in the ring when the link reads; what comes between
\* that and its look at the closed word is lost (plugin/host.rs:331).
Heard(p, n) == \E i \in DOMAIN applied[p] : applied[p][i] = n
Owed(p, n) ==
    /\ n \in Due(p)
    /\ p \in Shm => link[p] = "read" /\ n \in Range(outbox[p])
LastWordsHeard ==
    \A p \in Plugins, n \in Messages : Owed(p, n) ~> (Heard(p, n) \/ life # "up")

\* A client that quits ends: the subscription that blocks in recv is released by
\* the last of its senders.  Two things keep a --shm link, and with it the process,
\* for ever: a loop that returned without begin_quit, so that the thread was not
\* told and the subscription it waits for holds its channel open; and a ring that
\* is full and that its plugin does not read.
Stuck(p) == link[p] = "write" /\ queue[p] # <<>> /\ Len(inbox[p]) = Room
ClientExits ==
    life = "over" ~>
        \/ life = "exited"
        \/ [](\E p \in Shm : link[p] # "gone" /\ (~ shutdownSent \/ Stuck(p)))
=============================================================================
