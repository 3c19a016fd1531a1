----------------------------- MODULE ShmChannel -----------------------------
(***************************************************************************)
(* rstui-acp-shm, lib.rs: the two processes of a shared-memory channel,    *)
(* each with a ring it writes and a ring it reads, and their watchdogs.    *)
(*                                                                         *)
(* A ring is named by the end that writes it.  A step is at most one load  *)
(* or store of a shared word.  The words are AtomicU64, with Acquire       *)
(* loads and Release stores; a Release store may be seen late, behind the  *)
(* later loads of its thread (on x86 it waits in the store buffer), so     *)
(* each end has a queue of stores that are not yet visible.  StoreBuffer   *)
(* bounds it; 0 makes memory sequentially consistent.  Semaphore calls     *)
(* are locked instructions and wait for the queue to drain.                *)
(*                                                                         *)
(* Sizes are in units: a frame is one unit of length word and as many as   *)
(* its body has.  The offsets are u64 in the code and do not wrap here.    *)
(***************************************************************************)
EXTENDS Integers, Sequences, FiniteSets, Functions

CONSTANTS
    Cap,           \* units of a ring (CAP)
    Sizes,         \* body sizes of the messages that are sent
    MaxSends,      \* bound of the model: messages each end sends
    StoreBuffer,   \* stores of an end that may be pending; 0: none
    Mortal         \* the ends whose process may be killed

Ends == {"host", "plugin"}    \* the creator and the opener

ASSUME ShmAssumption ==
    /\ Cap \in Nat \ {0}
    /\ Sizes \subseteq Nat
    /\ MaxSends \in [Ends -> Nat]
    /\ StoreBuffer \in Nat
    /\ Mortal \subseteq Ends

VARIABLES
    head, tail, park,   \* each ring's shared words
    closed,             \* the shared word O_CLOSED
    data,               \* each ring's bytes
    sem,                \* each ring's semaphore: its reader waits on it
    buf,                \* each end's stores that are not visible yet
    pc,                 \* where each end's thread is
    msg,                \* the message its send is about
    wr, rd,             \* per ring, the offset its writer and its reader know
    dog,                \* each end's watchdog thread
    name,               \* what the semaphores' names refer to
    put, got,           \* per ring, the messages sent and received
    ended               \* ends whose recv returned None

shared == <<head, tail, park, closed, buf>>
local  == <<pc, msg, wr, rd>>
calls  == <<data, sem, dog, name>>
log    == <<put, got, ended>>
vars   == <<shared, local, calls, log>>

Other(e) == CHOOSE o \in Ends : o # e

Messages == UNION {[no : 1..MaxSends[e], size : Sizes] : e \in Ends}
Need(m)  == 1 + m.size
NoMsg    == [no |-> 0, size |-> 0]
Blank    == <<NoMsg, 0>>

Sending   == {"room", "full", "peek", "post"}
Receiving == {"poll", "eof", "spin", "arm", "rehead", "reclosed", "disarm",
              "wait", "woken", "drain"}
Dropping  == {"wake", "join"}
Points    == {"idle", "gone", "killed"} \cup Sending \cup Receiving \cup Dropping

Stores == [to : {"head", "tail", "park"}, ring : Ends, val : Nat]
              \cup {[to |-> "closed", val |-> 1]}

TypeOK ==
    /\ head \in [Ends -> Nat] /\ tail \in [Ends -> Nat]
    /\ park \in [Ends -> {0, 1}] /\ closed \in {0, 1}
    /\ sem \in [Ends -> Nat]
    /\ buf \in [Ends -> Seq(Stores)]
    /\ pc \in [Ends -> Points]
    /\ wr \in [Ends -> Nat] /\ rd \in [Ends -> Nat]
    /\ dog \in [Ends -> {"watch", "post", "done", "killed"}]
    /\ name \in {"ours", "none", "stray"}
    /\ ended \subseteq Ends

(* create and open have returned.  A named semaphore that an earlier run   *)
(* left behind keeps its count.                                            *)
Init ==
    /\ head = [e \in Ends |-> 0] /\ tail = [e \in Ends |-> 0]
    /\ park = [e \in Ends |-> 0] /\ closed = 0
    /\ data = [e \in Ends |-> [i \in 0..(Cap - 1) |-> Blank]]
    /\ sem \in [Ends -> {0, 1}] /\ name = "ours"
    /\ buf = [e \in Ends |-> <<>>]
    /\ pc = [e \in Ends |-> "idle"] /\ msg = [e \in Ends |-> NoMsg]
    /\ wr = [e \in Ends |-> 0] /\ rd = [e \in Ends |-> 0]
    /\ dog = [e \in Ends |-> "watch"]
    /\ put = [e \in Ends |-> <<>>] /\ got = [e \in Ends |-> <<>>]
    /\ ended = {}

-----------------------------------------------------------------------------
(* Memory. *)

(* The store s becomes visible. *)
Write(s) ==
    /\ head' = IF s.to = "head" THEN [head EXCEPT ![s.ring] = s.val] ELSE head
    /\ tail' = IF s.to = "tail" THEN [tail EXCEPT ![s.ring] = s.val] ELSE tail
    /\ park' = IF s.to = "park" THEN [park EXCEPT ![s.ring] = s.val] ELSE park
    /\ closed' = IF s.to = "closed" THEN s.val ELSE closed

(* A Release store by e. *)
Store(e, s) ==
    \/ StoreBuffer = 0 /\ Write(s) /\ UNCHANGED buf
    \/ /\ Len(buf[e]) < StoreBuffer
       /\ buf' = [buf EXCEPT ![e] = Append(@, s)]
       /\ UNCHANGED <<head, tail, park, closed>>

(* The oldest pending store of e drains, also after its process died.      *)
Flush(e) ==
    /\ buf[e] # <<>>
    /\ Write(Head(buf[e]))
    /\ buf' = [buf EXCEPT ![e] = Tail(@)]
    /\ UNCHANGED <<local, calls, log>>

Fenced(e) == buf[e] = <<>>

Goto(e, point) == pc' = [pc EXCEPT ![e] = point]
At(e, point)   == pc[e] = point

-----------------------------------------------------------------------------
(* send. *)

(* A message larger than the ring is refused and nothing happens. *)
BeginSend(e) ==
    /\ At(e, "idle") /\ Len(put[e]) < MaxSends[e]
    /\ \E n \in Sizes :
          LET m == [no |-> Len(put[e]) + 1, size |-> n]
          IN  Need(m) <= Cap /\ msg' = [msg EXCEPT ![e] = m]
    /\ Goto(e, "room")
    /\ UNCHANGED <<shared, wr, rd, calls, log>>

(* A check of the room that forgets the length word. *)
RoomIgnoresHeader(e) == Cap - (wr[e] - tail[e]) >= msg[e].size

Room(e) == Cap - (wr[e] - tail[e]) >= Need(msg[e])

(* ring_put of the length and of the body, wrapping at the ring's end. *)
RingPut(e) ==
    data' = [data EXCEPT ![e] =
        [i \in 0..(Cap - 1) |->
            LET k == (i - wr[e]) % Cap
            IN  IF k < Need(msg[e]) THEN <<msg[e], k>> ELSE @[i]]]

(* There is room: the bytes are copied, then published. *)
Publish(e) ==
    /\ At(e, "room") /\ Room(e)
    /\ RingPut(e)
    /\ wr' = [wr EXCEPT ![e] = @ + Need(msg[e])]
    /\ Store(e, [to |-> "head", ring |-> e, val |-> wr[e] + Need(msg[e])])
    /\ put' = [put EXCEPT ![e] = Append(@, msg[e])]
    /\ Goto(e, "peek")
    /\ UNCHANGED <<msg, rd, sem, dog, name, got, ended>>

NoRoom(e) ==
    /\ At(e, "room") /\ ~Room(e)
    /\ Goto(e, "full")
    /\ UNCHANGED <<shared, msg, wr, rd, calls, log>>

(* A full ring whose writer does not ask whether the channel is closed. *)
FullNotClosed(e) ==
    /\ At(e, "full")
    /\ Goto(e, "room")
    /\ UNCHANGED <<shared, msg, wr, rd, calls, log>>

(* Full: BrokenPipe if the channel is closed, else look again. *)
Full(e) ==
    /\ At(e, "full")
    /\ Goto(e, IF closed = 1 THEN "idle" ELSE "room")
    /\ UNCHANGED <<shared, msg, wr, rd, calls, log>>

(* Is the reader parked? *)
Peek(e) ==
    /\ At(e, "peek")
    /\ Goto(e, IF park[e] = 1 THEN "post" ELSE "idle")
    /\ UNCHANGED <<shared, msg, wr, rd, calls, log>>

Post(e) ==
    /\ At(e, "post") /\ Fenced(e)
    /\ sem' = [sem EXCEPT ![e] = @ + 1]
    /\ Goto(e, "idle")
    /\ UNCHANGED <<shared, msg, wr, rd, data, dog, name, log>>

-----------------------------------------------------------------------------
(* recv and try_recv, by the reader e of ring r. *)

Unread(r) == head[r] - rd[r]

(* The frame at the read offset; a frame that is not one whole message of  *)
(* the writer shows as NoMsg.                                              *)
Cell(r, k) == data[r][(rd[r] + k) % Cap]
Frame(r) ==
    LET m == Cell(r, 0)[1]
    IN  IF \A k \in 0..m.size : Cell(r, k) = <<m, k>> THEN m ELSE NoMsg

Whole(r) == Unread(r) >= 1 /\ Unread(r) >= Need(Frame(r))

(* poll_frame finds a whole frame: it is copied out and tail moves on. *)
TakeFrame(e) ==
    LET r == Other(e)
        m == Frame(r)
    IN  /\ Whole(r)
        /\ got' = [got EXCEPT ![r] = Append(@, m)]
        /\ rd' = [rd EXCEPT ![r] = @ + Need(m)]
        /\ Store(e, [to |-> "tail", ring |-> r, val |-> rd[r] + Need(m)])
        /\ UNCHANGED <<msg, wr, calls, put, ended>>

TryRecv(e) == At(e, "idle") /\ TakeFrame(e) /\ UNCHANGED pc

BeginRecv(e) ==
    /\ At(e, "idle")
    /\ Goto(e, "poll")
    /\ UNCHANGED <<shared, msg, wr, rd, calls, log>>

RecvFrame(e) == At(e, "poll") /\ TakeFrame(e) /\ Goto(e, "idle")

RecvNothing(e) ==
    /\ At(e, "poll") /\ ~Whole(Other(e))
    /\ Goto(e, "eof")
    /\ UNCHANGED <<shared, msg, wr, rd, calls, log>>

(* closed() after a poll that found nothing: Ok(None). *)
RecvEof(e) ==
    /\ At(e, "eof") /\ closed = 1
    /\ ended' = ended \cup {e}
    /\ Goto(e, "idle")
    /\ UNCHANGED <<shared, msg, wr, rd, calls, put, got>>

RecvOpen(e) ==
    /\ At(e, "eof") /\ closed = 0
    /\ Goto(e, "spin")
    /\ UNCHANGED <<shared, msg, wr, rd, calls, log>>

(* The stay-hot window: it sees bytes, or it runs out. *)
Spin(e) ==
    /\ At(e, "spin")
    /\ \/ Unread(Other(e)) >= 1 /\ Goto(e, "poll")
       \/ Goto(e, "arm")
    /\ UNCHANGED <<shared, msg, wr, rd, calls, log>>

Arm(e) ==
    /\ At(e, "arm")
    /\ Store(e, [to |-> "park", ring |-> Other(e), val |-> 1])
    /\ Goto(e, "rehead")
    /\ UNCHANGED <<msg, wr, rd, calls, log>>

(* A reader that parks without looking at head again. *)
NoRecheckHead(e) ==
    /\ At(e, "rehead")
    /\ Goto(e, "reclosed")
    /\ UNCHANGED <<shared, msg, wr, rd, calls, log>>

RecheckHead(e) ==
    /\ At(e, "rehead")
    /\ Goto(e, IF Unread(Other(e)) >= 1 THEN "disarm" ELSE "reclosed")
    /\ UNCHANGED <<shared, msg, wr, rd, calls, log>>

RecheckClosed(e) ==
    /\ At(e, "reclosed")
    /\ Goto(e, IF closed = 1 THEN "disarm" ELSE "wait")
    /\ UNCHANGED <<shared, msg, wr, rd, calls, log>>

Disarm(e) ==
    /\ At(e, "disarm")
    /\ Store(e, [to |-> "park", ring |-> Other(e), val |-> 0])
    /\ Goto(e, "poll")
    /\ UNCHANGED <<msg, wr, rd, calls, log>>

(* sem_wait takes a token. *)
SemWait(e) ==
    /\ At(e, "wait") /\ Fenced(e) /\ sem[Other(e)] > 0
    /\ sem' = [sem EXCEPT ![Other(e)] = @ - 1]
    /\ Goto(e, "woken")
    /\ UNCHANGED <<shared, msg, wr, rd, data, dog, name, log>>

(* EINTR: the call returns without a token. *)
Interrupt(e) ==
    /\ At(e, "wait") /\ Fenced(e)
    /\ Goto(e, "woken")
    /\ UNCHANGED <<shared, msg, wr, rd, calls, log>>

Unpark(e) ==
    /\ At(e, "woken")
    /\ Store(e, [to |-> "park", ring |-> Other(e), val |-> 0])
    /\ Goto(e, "drain")
    /\ UNCHANGED <<msg, wr, rd, calls, log>>

(* sem_trywait until it fails. *)
DrainTokens(e) ==
    /\ At(e, "drain") /\ Fenced(e)
    /\ sem' = [sem EXCEPT ![Other(e)] = 0]
    /\ Goto(e, "poll")
    /\ UNCHANGED <<shared, msg, wr, rd, data, dog, name, log>>

-----------------------------------------------------------------------------
(* Drop. *)

BeginDrop(e) ==
    /\ At(e, "idle")
    /\ Store(e, [to |-> "closed", val |-> 1])
    /\ Goto(e, "wake")
    /\ UNCHANGED <<msg, wr, rd, calls, log>>

WakePeers(e) ==
    /\ At(e, "wake") /\ Fenced(e)
    /\ sem' = [r \in Ends |-> sem[r] + 1]
    /\ Goto(e, "join")
    /\ UNCHANGED <<shared, msg, wr, rd, data, dog, name, log>>

(* The watchdog is joined, the segment unmapped; the creator unlinks.      *)
Unmap(e) ==
    /\ At(e, "join") /\ dog[e] = "done"
    /\ name' = IF e = "host" THEN "none" ELSE name
    /\ Goto(e, "gone")
    /\ UNCHANGED <<shared, msg, wr, rd, data, sem, dog, log>>

-----------------------------------------------------------------------------
(* spawn_watchdog. *)

(* A watchdog only of the opener. *)
OpenerSeesClosed(e) ==
    /\ e = "plugin" /\ dog[e] = "watch" /\ closed = 1
    /\ dog' = [dog EXCEPT ![e] = "post"]
    /\ UNCHANGED <<shared, local, data, sem, name, log>>

(* A tick that finds the channel closed ends the watch. *)
DogSeesClosed(e) ==
    /\ dog[e] = "watch" /\ closed = 1
    /\ dog' = [dog EXCEPT ![e] = "post"]
    /\ UNCHANGED <<shared, local, data, sem, name, log>>

(* A watchdog that notices the orphaning and only stops. *)
OrphanedStops ==
    /\ dog["plugin"] = "watch" /\ closed = 0 /\ At("host", "killed")
    /\ dog' = [dog EXCEPT !["plugin"] = "post"]
    /\ UNCHANGED <<shared, local, data, sem, name, log>>

(* getppid has changed: only the opener has a parent to lose. *)
Orphaned ==
    /\ dog["plugin"] = "watch" /\ closed = 0 /\ At("host", "killed")
    /\ closed' = 1
    /\ dog' = [dog EXCEPT !["plugin"] = "post"]
    /\ UNCHANGED <<head, tail, park, buf, local, data, sem, name, log>>

(* Both semaphores are opened by name, created if need be, and posted.     *)
DogPosts(e) ==
    /\ dog[e] = "post"
    /\ dog' = [dog EXCEPT ![e] = "done"]
    /\ \/ name = "ours" /\ sem' = [r \in Ends |-> sem[r] + 1] /\ UNCHANGED name
       \/ name # "ours" /\ name' = "stray" /\ UNCHANGED sem
    /\ UNCHANGED <<shared, local, data, log>>

(* The process of e is killed, its watchdog with it. *)
Kill(e) ==
    /\ e \in Mortal /\ pc[e] \notin {"gone", "killed"}
    /\ Goto(e, "killed")
    /\ dog' = [dog EXCEPT ![e] = "killed"]
    /\ UNCHANGED <<shared, msg, wr, rd, data, sem, name, log>>

-----------------------------------------------------------------------------
Begin(e) == BeginSend(e) \/ BeginRecv(e) \/ TryRecv(e) \/ BeginDrop(e)

Proceed(e) ==
    \/ Publish(e) \/ NoRoom(e) \/ Full(e) \/ Peek(e) \/ Post(e)
    \/ RecvFrame(e) \/ RecvNothing(e) \/ RecvEof(e) \/ RecvOpen(e) \/ Spin(e)
    \/ Arm(e) \/ RecheckHead(e) \/ RecheckClosed(e) \/ Disarm(e)
    \/ SemWait(e) \/ Unpark(e) \/ DrainTokens(e)
    \/ WakePeers(e) \/ Unmap(e)

Watch(e) == DogSeesClosed(e) \/ (e = "plugin" /\ Orphaned) \/ DogPosts(e)

(* Both processes are done with the channel. *)
Over ==
    /\ \A e \in Ends : pc[e] \in {"gone", "killed"} /\ Fenced(e)
    /\ UNCHANGED vars

Next ==
    \/ \E e \in Ends :
          Begin(e) \/ Proceed(e) \/ Interrupt(e) \/ Watch(e) \/ Flush(e) \/ Kill(e)
    \/ Over

Spec == Init /\ [][Next]_vars

(* Threads are scheduled and stores become visible.  An end need not begin *)
(* a call, and no wait need be interrupted.                                *)
Fairness ==
    \A e \in Ends : WF_vars(Proceed(e)) /\ WF_vars(Watch(e)) /\ WF_vars(Flush(e))

FairSpec == Spec /\ Fairness

-----------------------------------------------------------------------------
(* An end that waits without a token has nothing to read or a sender about *)
(* to post, and the channel is open or a post is on its way.               *)
WakeOwed ==
    \A e \in Ends :
        LET r == Other(e)
        IN  At(e, "wait") /\ Fenced(e) /\ sem[r] = 0 =>
                /\ Unread(r) >= 1 =>
                      At(r, "post") \/ At(r, "killed") \/ (At(r, "peek") /\ park[r] = 1)
                /\ closed = 1 =>
                      At(r, "wake") \/ (dog[e] \in {"watch", "post"} /\ name = "ours")

(* A message that has been sent reaches a peer that is in recv. *)
Delivered ==
    \A e \in Ends :
        At(e, "wait") /\ Len(got[Other(e)]) < Len(put[Other(e)]) ~> ~At(e, "wait")

(* Once the channel is closed, nobody stays in recv or in send. *)
CloseReleases ==
    \A e \in Ends :
        closed = 1 /\ pc[e] \in Receiving \cup Sending ~> pc[e] \notin Receiving \cup Sending

(* Drop comes to its end: the watchdog it joins has stopped. *)
DropEnds == \A e \in Ends : pc[e] \in Dropping ~> pc[e] \notin Dropping

(* No end waits for ever on a process that has been killed.  (True of the  *)
(* host's process only: the creator watches nobody.)                       *)
CrashReleases ==
    \A e \in Ends : At(Other(e), "killed") /\ At(e, "wait") ~> ~At(e, "wait")

(* The end of the stream is reported after its last message.  In no run:   *)
(* recv looks at closed after an empty poll and does not poll again (README). *)
EofAfterLast ==
    \A e \in Ends : e \in ended /\ At(Other(e), "gone") => got[Other(e)] = put[Other(e)]

Chan == INSTANCE MessageChannel WITH sent <- put, received <- got, over <- closed = 1

ImplementsChannel == Chan!Spec
=============================================================================
