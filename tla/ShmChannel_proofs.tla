------------------------- MODULE ShmChannel_proofs -------------------------
(***************************************************************************)
(* Theorems about ShmChannel, for any ring, any messages and any killed    *)
(* process.  Whatever the delay of the stores, each direction delivers     *)
(* whole messages, once and in order: ShmChannel implements                *)
(* MessageChannel.  And when stores are not delayed, no wakeup is lost.    *)
(***************************************************************************)
EXTENDS ShmChannel, SequenceTheorems, TLAPS

-----------------------------------------------------------------------------
(* Sequences stay sequences under the operations of a queue. *)
LEMMA QueueType ==
    ASSUME NEW S
    PROVE  /\ <<>> \in Seq(S)
           /\ \A s \in Seq(S), e \in S : Append(s, e) \in Seq(S)
           /\ \A s \in Seq(S) : s # <<>> => Head(s) \in S /\ Tail(s) \in Seq(S)
<1>1. <<>> \in Seq(S)
  BY EmptySeq
<1>2. ASSUME NEW s \in Seq(S), NEW e \in S PROVE Append(s, e) \in Seq(S)
  BY AppendProperties
<1>3. ASSUME NEW s \in Seq(S), s # <<>> PROVE Head(s) \in S /\ Tail(s) \in Seq(S)
  BY <1>3, HeadTailProperties
<1> QED BY <1>1, <1>2, <1>3

-----------------------------------------------------------------------------
(* Division with remainder. *)

LEMMA Times ==
    ASSUME NEW C \in Nat \ {0}, NEW x \in Int
    PROVE  /\ x >= 1 => C * x >= C
           /\ x <= 0 - 1 => C * x <= 0 - C
OBVIOUS

LEMMA Division ==
    ASSUME NEW C \in Nat \ {0}, NEW a \in Int
    PROVE  /\ a % C \in 0..(C - 1) /\ a \div C \in Int
           /\ a = C * (a \div C) + (a % C)
OBVIOUS

LEMMA Remainder ==
    ASSUME NEW C \in Nat \ {0}, NEW q \in Int, NEW d \in 0..(C - 1)
    PROVE  (C * q + d) % C = d
<1> DEFINE a == C * q + d
<1>1. a \in Int /\ d \in Int /\ C \in Int
  OBVIOUS
<1> HIDE DEF a
<1>2. /\ a % C \in 0..(C - 1) /\ a \div C \in Int
      /\ a = C * (a \div C) + (a % C)
  BY <1>1, Division
<1>3. PICK p \in Int, e \in 0..(C - 1) : a = C * p + e /\ e = a % C
  <2> DEFINE p == a \div C
             e == a % C
  <2> SUFFICES p \in Int /\ e \in 0..(C - 1) /\ a = C * p + e
    OBVIOUS
  <2> QED BY <1>2
<1>4. C * p + e = C * q + d
  BY <1>3 DEF a
<1>5. C * (p - q) = d - e
  <2>1. C * (p - q) = C * p - C * q
    BY <1>1
  <2>2. /\ C * p \in Int /\ C * q \in Int /\ d \in Int /\ e \in Int
    OBVIOUS
  <2> QED BY <1>4, <2>1, <2>2
<1>6. ~(p - q >= 1) /\ ~(p - q <= 0 - 1)
  <2> DEFINE x == p - q
  <2>1. x \in Int /\ C * x = d - e /\ d - e < C /\ d - e > 0 - C
    BY <1>5, <1>3
  <2> HIDE DEF x
  <2>2. ~(x >= 1) /\ ~(x <= 0 - 1)
    BY <2>1, Times
  <2> QED BY <2>2 DEF x
<1>7. p = q
  BY <1>6, <1>3
<1> QED BY <1>3, <1>4, <1>7 DEF a

(* The distance of two offsets, seen from a place in the ring. *)
LEMMA Shift ==
    ASSUME NEW C \in Nat \ {0}, NEW o \in Int, NEW w \in Int, NEW d \in 0..(C - 1),
           o - w = d \/ o - w = d - C
    PROVE  ((o % C) - w) % C = d
<1>1. PICK p \in Int, e \in 0..(C - 1) : o = C * p + e /\ e = o % C
  <2>1. o \div C \in Int /\ o % C \in 0..(C - 1) /\ o = C * (o \div C) + (o % C)
    BY Division
  <2> QED BY <2>1
<1>2. C * p \in Int /\ C * (0 - p) = 0 - C * p /\ C * (0 - p - 1) = 0 - C * p - C
  OBVIOUS
<1>3. e - w = C * (0 - p) + d \/ e - w = C * (0 - p - 1) + d
  <2>1. \A x \in Int : o = x + e => e - w = 0 - x + d \/ e - w = 0 - x - C + d
    OBVIOUS
  <2>2. e - w = 0 - C * p + d \/ e - w = 0 - C * p - C + d
    BY <1>1, <1>2, <2>1
  <2> QED BY <1>2, <2>2
<1>4. (e - w) % C = d
  BY <1>3, Remainder, 0 - p \in Int, 0 - p - 1 \in Int
<1> QED BY <1>1, <1>4

-----------------------------------------------------------------------------
(* The two ends. *)

LEMMA TwoEnds ==
    /\ Ends = {"host", "plugin"}
    /\ \A e \in Ends : Other(e) \in Ends /\ Other(e) # e /\ Other(Other(e)) = e
    /\ \A e \in Ends, r \in Ends : r = e \/ r = Other(e)
<1>1. \E o \in Ends : o # "host"
  BY DEF Ends
<1>2. \E o \in Ends : o # "plugin"
  BY DEF Ends
<1>3. Other("host") = "plugin" /\ Other("plugin") = "host"
  BY <1>1, <1>2 DEF Other, Ends
<1> QED BY <1>3 DEF Ends

(* Sizes of messages. *)
LEMMA MessageSize ==
    /\ \A m \in Messages : m.size \in Nat /\ Need(m) = 1 + m.size
    /\ Cap \in Nat \ {0}
<1>1. Sizes \subseteq Nat /\ Cap \in Nat \ {0}
  BY ShmAssumption
<1>2. ASSUME NEW m \in Messages PROVE m.size \in Sizes
  <2>1. PICK e \in Ends : m \in [no : 1..MaxSends[e], size : Sizes]
    BY <1>2 DEF Messages
  <2> QED BY <2>1
<1> QED BY <1>1, <1>2 DEF Need

(* Sequences over a set are sequences over a larger one. *)
LEMMA SeqGrows ==
    ASSUME NEW S, NEW T, S \subseteq T
    PROVE  Seq(S) \subseteq Seq(T)
BY ElementOfSeq, SeqDef

-----------------------------------------------------------------------------
(* What the shared words say.  Each end sees the other's offset as it is   *)
(* or as it was: never more than has been written, or read.                *)

Offsets == wr \in [Ends -> Nat] /\ rd \in [Ends -> Nat]

(* The stores that are true of the offsets. *)
Honest ==
    {s \in Stores : /\ s.to = "head" => s.val <= wr[s.ring]
                    /\ s.to = "tail" => s.val <= rd[s.ring]}

MemoryInv ==
    /\ head \in [Ends -> Nat] /\ tail \in [Ends -> Nat] /\ closed \in {0, 1}
    /\ \A r \in Ends : head[r] <= wr[r] /\ tail[r] <= rd[r]
    /\ buf \in [Ends -> Seq(Honest)]

(* The offsets only grow. *)
Growing == \A r \in Ends : wr[r] <= wr'[r] /\ rd[r] <= rd'[r]

LEMMA HonestGrows ==
    ASSUME Offsets, Offsets', Growing
    PROVE  Honest \subseteq Honest'
<1> SUFFICES ASSUME NEW s \in Honest PROVE s \in Honest'
  OBVIOUS
<1>1. s \in Stores /\ (s.to \in {"head", "tail"} => s.ring \in Ends /\ s.val \in Nat)
  BY DEF Honest, Stores
<1>2. s.to = "head" => s.val <= wr'[s.ring]
  BY <1>1 DEF Honest, Growing, Offsets
<1>3. s.to = "tail" => s.val <= rd'[s.ring]
  BY <1>1 DEF Honest, Growing, Offsets
<1> QED BY <1>1, <1>2, <1>3 DEF Honest

(* A visible store. *)
LEMMA WriteMemory ==
    ASSUME MemoryInv, Offsets, Offsets', Growing, NEW s \in Honest', Write(s)
    PROVE  /\ head' \in [Ends -> Nat] /\ tail' \in [Ends -> Nat] /\ closed' \in {0, 1}
           /\ \A r \in Ends : head'[r] <= wr'[r] /\ tail'[r] <= rd'[r]
<1>1. \/ s.to = "head" /\ s.ring \in Ends /\ s.val \in Nat /\ s.val <= wr'[s.ring]
      \/ s.to = "tail" /\ s.ring \in Ends /\ s.val \in Nat /\ s.val <= rd'[s.ring]
      \/ s.to = "park"
      \/ s.to = "closed" /\ s.val = 1
  BY DEF Honest, Stores
<1>2. /\ head \in [Ends -> Nat] /\ tail \in [Ends -> Nat] /\ closed \in {0, 1}
      /\ \A r \in Ends : head[r] <= wr'[r] /\ tail[r] <= rd'[r]
  BY DEF MemoryInv, Offsets, Growing
<1>3. /\ head' = IF s.to = "head" THEN [head EXCEPT ![s.ring] = s.val] ELSE head
      /\ tail' = IF s.to = "tail" THEN [tail EXCEPT ![s.ring] = s.val] ELSE tail
      /\ closed' = IF s.to = "closed" THEN s.val ELSE closed
  BY DEF Write
<1> QED BY <1>1, <1>2, <1>3

LEMMA KeptMemory ==
    ASSUME MemoryInv, Offsets, Offsets', Growing, UNCHANGED <<head, tail, buf>>,
           closed' \in {0, 1}
    PROVE  MemoryInv'
<1>1. buf' \in [Ends -> Seq(Honest')]
  BY HonestGrows, SeqGrows DEF MemoryInv
<1>2. \A r \in Ends : head'[r] <= wr'[r] /\ tail'[r] <= rd'[r]
  BY DEF MemoryInv, Offsets, Growing
<1> QED BY <1>1, <1>2 DEF MemoryInv

LEMMA StoredMemory ==
    ASSUME MemoryInv, Offsets, Offsets', Growing,
           NEW e \in Ends, NEW s \in Honest', Store(e, s)
    PROVE  MemoryInv'
<1>1. buf \in [Ends -> Seq(Honest')]
  BY HonestGrows, SeqGrows DEF MemoryInv
<1>2. CASE Write(s) /\ UNCHANGED buf
  BY <1>1, <1>2, WriteMemory DEF MemoryInv
<1>3. CASE buf' = [buf EXCEPT ![e] = Append(@, s)] /\ UNCHANGED <<head, tail, closed>>
  <2>1. Append(buf[e], s) \in Seq(Honest')
    BY <1>1, QueueType
  <2>2. buf' \in [Ends -> Seq(Honest')]
    BY <1>1, <1>3, <2>1
  <2>3. \A r \in Ends : head'[r] <= wr'[r] /\ tail'[r] <= rd'[r]
    BY <1>3 DEF MemoryInv, Offsets, Growing
  <2> QED BY <1>3, <2>2, <2>3 DEF MemoryInv
<1> QED BY <1>2, <1>3 DEF Store

LEMMA FlushedMemory ==
    ASSUME MemoryInv, Offsets, NEW e \in Ends, Flush(e)
    PROVE  MemoryInv'
<1>1. /\ UNCHANGED <<wr, rd>> /\ buf[e] # <<>> /\ Write(Head(buf[e]))
      /\ buf' = [buf EXCEPT ![e] = Tail(@)]
  BY DEF Flush, local
<1>2. Honest' = Honest /\ Offsets' /\ Growing
  BY <1>1 DEF Honest, Offsets, Growing
<1>3. Head(buf[e]) \in Honest /\ Tail(buf[e]) \in Seq(Honest)
  BY <1>1, QueueType DEF MemoryInv
<1>4. /\ head' \in [Ends -> Nat] /\ tail' \in [Ends -> Nat] /\ closed' \in {0, 1}
      /\ \A r \in Ends : head'[r] <= wr'[r] /\ tail'[r] <= rd'[r]
  BY <1>1, <1>2, <1>3, WriteMemory
<1>5. buf' \in [Ends -> Seq(Honest)]
  BY <1>1, <1>3 DEF MemoryInv
<1> QED BY <1>2, <1>4, <1>5 DEF MemoryInv

-----------------------------------------------------------------------------
(* The threads. *)

Cells == (Messages \cup {NoMsg}) \X Nat

(* A message that is being sent fits the ring. *)
ThreadInv ==
    /\ Offsets
    /\ pc \in [Ends -> Points]
    /\ msg \in [Ends -> Messages \cup {NoMsg}]
    /\ \A e \in Ends : pc[e] \in {"room", "full"} => msg[e] \in Messages /\ Need(msg[e]) <= Cap
    /\ data \in [Ends -> [0..(Cap - 1) -> Cells]]
    /\ put \in [Ends -> Seq(Messages)] /\ got \in [Ends -> Seq(Messages)]

-----------------------------------------------------------------------------
(* What a ring holds. *)

Places == [Nat -> Nat]

(* The messages p, of which n have been read, lie one after the other from *)
(* the offset 0 to hi; those not yet read, from lo on, are in the ring.    *)
Laid(start, p, n, lo, hi, ring) ==
    /\ n \in 0..Len(p)
    /\ start[n + 1] = lo /\ start[Len(p) + 1] = hi
    /\ \A i \in 1..Len(p) : start[i + 1] = start[i] + Need(p[i])
    /\ \A i \in 1..Len(p), j \in 1..(Len(p) + 1) : i < j => start[i] + Need(p[i]) <= start[j]
    /\ \A i \in 1..Len(p) : n < i =>
           \A k \in 0..p[i].size : ring[(start[i] + k) % Cap] = <<p[i], k>>

Layout(r) == \E start \in Places :
    Laid(start, put[r], Len(got[r]), rd[r], wr[r], data[r])

(* The next message is where the reader looks. *)
LEMMA NextMessage ==
    ASSUME NEW p \in Seq(Messages), NEW n \in Nat, NEW lo \in Nat, NEW hi \in Nat,
           NEW ring, NEW start \in Places,
           Laid(start, p, n, lo, hi, ring), lo < hi
    PROVE  /\ n < Len(p) /\ n + 1 \in 1..Len(p) /\ p[n + 1] \in Messages
           /\ \A k \in 0..p[n + 1].size : ring[(lo + k) % Cap] = <<p[n + 1], k>>
           /\ Laid(start, p, n + 1, lo + Need(p[n + 1]), hi, ring)
           /\ lo + Need(p[n + 1]) <= hi
<1> DEFINE l == Len(p)
<1>1. l \in Nat /\ n \in 0..l /\ start[n + 1] = lo /\ start[l + 1] = hi
  BY LenProperties DEF Laid
<1>2. n # l
  <2>1. n = l => lo = hi
    BY <1>1
  <2>2. lo # hi
    OBVIOUS
  <2> QED BY <2>1, <2>2
<1>3. /\ n < l /\ n + 1 \in 1..l /\ n + 1 \in 0..l /\ n < n + 1
      /\ l + 1 \in 1..(l + 1) /\ n + 1 < l + 1
  <2> HIDE DEF l
  <2> QED BY <1>1, <1>2
<1>4. p[n + 1] \in Messages
  BY <1>3, ElementOfSeq
<1>5. \A k \in 0..p[n + 1].size : ring[(lo + k) % Cap] = <<p[n + 1], k>>
  BY <1>1, <1>3 DEF Laid
<1>6. start[n + 1 + 1] = lo + Need(p[n + 1]) /\ lo + Need(p[n + 1]) <= hi
  <2>1. /\ start[n + 1 + 1] = start[n + 1] + Need(p[n + 1])
        /\ \A j \in 1..(Len(p) + 1) : n + 1 < j => start[n + 1] + Need(p[n + 1]) <= start[j]
    BY <1>3 DEF Laid
  <2> QED BY <1>1, <1>3, <2>1
<1>7. Laid(start, p, n + 1, lo + Need(p[n + 1]), hi, ring)
  <2>1. \A i \in 1..Len(p) : n + 1 < i => n < i
    BY <1>1
  <2> QED BY <1>3, <1>6, <2>1 DEF Laid
<1> QED BY <1>3, <1>4, <1>5, <1>6, <1>7

(* ring_put of a message m at the offset hi. *)
Filled(ring, hi, m) ==
    [i \in 0..(Cap - 1) |->
        LET k == (i - hi) % Cap
        IN  IF k < Need(m) THEN <<m, k>> ELSE ring[i]]

LEMMA FilledCell ==
    ASSUME NEW ring, NEW hi \in Nat, NEW m \in Messages, NEW o \in Nat, NEW d \in 0..(Cap - 1),
           o - hi = d \/ o - hi = d - Cap
    PROVE  Filled(ring, hi, m)[o % Cap] = IF d < Need(m) THEN <<m, d>> ELSE ring[o % Cap]
<1>1. Cap \in Nat \ {0} /\ o \in Int /\ hi \in Int
  BY MessageSize
<1>2. o % Cap \in 0..(Cap - 1)
  BY <1>1, Division
<1>3. ((o % Cap) - hi) % Cap = d
  BY <1>1, Shift
<1> QED BY <1>2, <1>3 DEF Filled

(* A message is put behind the others, and over none that is unread. *)
LEMMA PushMessage ==
    ASSUME NEW p \in Seq(Messages), NEW n \in Nat, NEW lo \in Nat, NEW hi \in Nat,
           NEW ring, NEW start \in Places,
           Laid(start, p, n, lo, hi, ring),
           NEW m \in Messages, hi + Need(m) <= lo + Cap
    PROVE  \E new \in Places :
              Laid(new, Append(p, m), n, lo, hi + Need(m), Filled(ring, hi, m))
<1> DEFINE l == Len(p)
           q == Append(p, m)
           new == [start EXCEPT ![l + 2] = hi + Need(m)]
<1>1. /\ l \in Nat /\ n \in 0..l /\ start[n + 1] = lo /\ start[l + 1] = hi
      /\ \A i \in 1..l : start[i + 1] = start[i] + Need(p[i])
      /\ \A i \in 1..l, j \in 1..(l + 1) : i < j => start[i] + Need(p[i]) <= start[j]
      /\ \A i \in 1..l : n < i =>
             \A k \in 0..p[i].size : ring[(start[i] + k) % Cap] = <<p[i], k>>
  BY LenProperties DEF Laid
<1>a. l \in Nat /\ n \in 0..l /\ n \in Nat
  BY <1>1
<1>2. /\ Len(q) = l + 1 /\ q[l + 1] = m
      /\ \A i \in 1..l : q[i] = p[i] /\ p[i] \in Messages
  <2>1. \A i \in 1..l : p[i] \in Messages
    BY ElementOfSeq
  <2>2. /\ Len(q) = l + 1 /\ q[l + 1] = m
        /\ \A i \in 1..l : q[i] = p[i]
    BY AppendProperties
  <2> QED BY <2>1, <2>2
<1>3. /\ m.size \in Nat /\ Need(m) = 1 + m.size /\ Need(m) \in Nat
      /\ \A i \in 1..l : /\ p[i].size \in Nat
                         /\ Need(p[i]) = 1 + p[i].size /\ Need(p[i]) \in Nat
      /\ Cap \in Nat \ {0}
  <2>1. \A x \in Messages : /\ x.size \in Nat
                             /\ Need(x) = 1 + x.size /\ Need(x) \in Nat
    <3>1. \A k \in Nat : 1 + k \in Nat
      OBVIOUS
    <3> QED BY <3>1, MessageSize
  <2> QED BY <1>2, <2>1, MessageSize
<1>b. /\ m.size \in Nat /\ Need(m) = 1 + m.size /\ Need(m) \in Nat
      /\ Cap \in Nat \ {0}
  BY <1>3
<1>4. /\ new \in Places /\ new[l + 2] = hi + Need(m)
      /\ \A i \in 1..(l + 1) : new[i] = start[i]
  <2>1. l + 2 \in Nat /\ \A i \in 1..(l + 1) : i \in Nat /\ i # l + 2
    <3> HIDE DEF l
    <3> QED BY <1>a
  <2>2. hi + Need(m) \in Nat
    BY <1>b
  <2> QED BY <2>1, <2>2 DEF Places
<1> HIDE DEF l, q, new
<1>0. l + 1 + 1 = l + 2 /\ l + 1 \in 1..(l + 1) /\ \A i \in 1..l : i < l + 1
  BY <1>a
<1>5. n \in 0..(l + 1) /\ new[n + 1] = lo /\ new[l + 1 + 1] = hi + Need(m)
  <2>1. n + 1 \in 1..(l + 1) /\ l + 1 + 1 = l + 2 /\ n \in 0..(l + 1)
    BY <1>a
  <2> QED BY <1>1, <1>4, <2>1
<1>6. ASSUME NEW i \in 1..(l + 1) PROVE new[i + 1] = new[i] + Need(q[i])
  <2>1. CASE i \in 1..l
    <3>1. i + 1 \in 1..(l + 1)
      BY <1>1, <2>1
    <3> QED BY <1>1, <1>2, <1>4, <2>1, <3>1
  <2>2. CASE i = l + 1
    BY <1>0, <1>1, <1>2, <1>4, <2>2
  <2>3. i \in 1..l \/ i = l + 1
    BY <1>a
  <2> QED BY <2>1, <2>2, <2>3
<1>7. ASSUME NEW i \in 1..l
      PROVE  /\ start[i] \in Nat /\ start[i] + Need(p[i]) <= hi
             /\ n < i => lo <= start[i]
  <2>1. start[i] + Need(p[i]) <= hi
    BY <1>0, <1>1
  <2>2. ASSUME n < i, i # n + 1 PROVE lo <= start[i]
    <3>1. n + 1 \in 1..l /\ i \in Nat /\ n + 1 < i /\ i \in 1..(l + 1)
      BY <1>a, <2>2
    <3>2. start[n + 1] + Need(p[n + 1]) <= start[i]
      BY <1>1, <3>1
    <3>3. Need(p[n + 1]) \in Nat /\ start[i] \in Nat
      <4>1. start[i] \in Nat
        BY <3>1 DEF Places
      <4> QED BY <1>3, <3>1, <4>1
    <3> QED BY <1>1, <3>2, <3>3
  <2>3. i \in Nat
    BY <1>a
  <2>4. start[i] \in Nat
    BY <2>3 DEF Places
  <2> QED BY <1>1, <2>1, <2>2, <2>4
<1>8. ASSUME NEW i \in 1..(l + 1), NEW j \in 1..(l + 1 + 1), i < j
      PROVE  new[i] + Need(q[i]) <= new[j]
  <2>1. CASE i \in 1..l /\ j \in 1..(l + 1)
    BY <1>1, <1>2, <1>4, <1>8, <2>1
  <2>2. CASE i \in 1..l /\ j = l + 2
    <3>1. start[i] + Need(p[i]) <= hi /\ start[i] \in Nat /\ Need(p[i]) \in Nat /\ Need(m) \in Nat
      BY <1>3, <1>7, <2>2
    <3>2. start[i] + Need(p[i]) <= hi + Need(m)
      BY <3>1
    <3> QED BY <1>2, <1>4, <2>2, <3>2
  <2>3. CASE i = l + 1 /\ j = l + 2
    <3>1. new[i] + Need(q[i]) = new[j] /\ new[j] \in Nat
      BY <1>0, <1>1, <1>3, <1>4, <1>6, <2>3
    <3> QED BY <3>1
  <2>4. \/ i \in 1..l /\ j \in 1..(l + 1)
        \/ i \in 1..l /\ j = l + 2
        \/ i = l + 1 /\ j = l + 2
    BY <1>a, <1>8
  <2> QED BY <2>1, <2>2, <2>3, <2>4
<1>9. ASSUME NEW i \in 1..(l + 1), n < i, NEW k \in 0..q[i].size
      PROVE  Filled(ring, hi, m)[(new[i] + k) % Cap] = <<q[i], k>>
  <2>1. CASE i \in 1..l
    <3> DEFINE o == start[i] + k
               d == o - hi + Cap
    <3>1. /\ q[i] = p[i] /\ new[i] = start[i]
          /\ start[i] \in Nat /\ start[i] + Need(p[i]) <= hi /\ lo <= start[i]
          /\ k \in 0..p[i].size /\ Need(p[i]) = 1 + p[i].size /\ p[i].size \in Nat
      BY <1>2, <1>3, <1>4, <1>7, <1>9, <2>1
    <3>2. /\ o \in Nat /\ d \in 0..(Cap - 1) /\ o - hi = d - Cap /\ ~(d < Need(m))
      <4>1. /\ k \in Nat /\ start[i] + k \in Nat
            /\ lo <= start[i] + k /\ start[i] + k < hi
        BY <3>1
      <4> HIDE DEF d
      <4>2. d = o - hi + Cap
        BY DEF d
      <4> HIDE DEF o
      <4>3. o \in Nat /\ lo <= o /\ o < hi
        BY <4>1 DEF o
      <4>4. /\ d \in Int /\ o - hi = d - Cap /\ d < Cap /\ d >= Need(m)
        BY <1>b, <4>2, <4>3
      <4> QED BY <1>b, <4>3, <4>4
    <3>3. ring[o % Cap] = <<p[i], k>>
      BY <1>1, <1>9, <2>1, <3>1
    <3> HIDE DEF d, o
    <3>4. Filled(ring, hi, m)[o % Cap] = ring[o % Cap]
      BY <3>2, FilledCell
    <3> QED BY <3>1, <3>3, <3>4 DEF o
  <2>2. CASE i = l + 1
    <3> DEFINE o == hi + k
    <3>1. q[i] = m /\ new[i] = hi /\ k \in 0..m.size
      BY <1>0, <1>1, <1>2, <1>4, <2>2
    <3>2. lo <= hi
      <4>1. CASE n = l
        BY <1>1, <4>1
      <4>2. CASE n # l
        <5>1. n + 1 \in 1..l /\ n < n + 1
          BY <1>a, <4>2
        <5>2. start[n + 1] + Need(p[n + 1]) <= hi /\ Need(p[n + 1]) \in Nat
          BY <1>3, <1>7, <5>1
        <5> QED BY <1>1, <5>2
      <4> QED BY <4>1, <4>2
    <3>3. o \in Nat /\ k \in 0..(Cap - 1) /\ o - hi = k /\ k < Need(m)
      <4>1. k \in Nat /\ k < Need(m)
        BY <1>b, <3>1
      <4>2. Need(m) <= Cap
        BY <1>b, <3>2
      <4> QED BY <1>b, <4>1, <4>2
    <3> HIDE DEF o
    <3>4. Filled(ring, hi, m)[o % Cap] = <<m, k>>
      <4>1. Filled(ring, hi, m)[o % Cap] = IF k < Need(m) THEN <<m, k>> ELSE ring[o % Cap]
        <5>1. o \in Nat /\ k \in 0..(Cap - 1) /\ (o - hi = k \/ o - hi = k - Cap)
          BY <3>3
        <5> QED BY <5>1, FilledCell, Zenon
      <4> QED BY <3>3, <4>1
    <3> QED BY <3>1, <3>4 DEF o
  <2>3. i \in 1..l \/ i = l + 1
    BY <1>a
  <2> QED BY <2>1, <2>2, <2>3
<1>10. Laid(new, q, n, lo, hi + Need(m), Filled(ring, hi, m))
  BY <1>2, <1>5, <1>6, <1>8, <1>9 DEF Laid
<1> QED BY <1>4, <1>10 DEF q

-----------------------------------------------------------------------------
(* The steps that send and receive nothing. *)

Quiet == UNCHANGED <<wr, rd, data, put, got>>

LEMMA QuietGrows ==
    ASSUME Offsets, UNCHANGED <<wr, rd>>
    PROVE  Offsets' /\ Growing /\ Honest' = Honest
BY DEF Offsets, Growing, Honest

(* Nothing but closing shows in the contract. *)
LEMMA QuietChannel ==
    ASSUME UNCHANGED <<put, got, ended>>, closed' = closed \/ closed' = 1
    PROVE  [Chan!Next]_(Chan!vars)
<1>1. CASE closed' = closed
  BY <1>1 DEF Chan!vars
<1>2. CASE closed' = 1
  BY <1>2 DEF Chan!Next, Chan!Close
<1> QED BY <1>1, <1>2

(* A thread moves on, and the message it is about stays. *)
LEMMA MovesOn ==
    ASSUME ThreadInv, Quiet, UNCHANGED msg, NEW e \in Ends, NEW point \in Points,
           Goto(e, point),
           point \in {"room", "full"} => pc[e] \in {"room", "full"}
    PROVE  ThreadInv'
<1>1. /\ pc' \in [Ends -> Points] /\ pc'[e] = point
      /\ \A f \in Ends : f # e => pc'[f] = pc[f]
  BY DEF ThreadInv, Goto
<1>2. \A f \in Ends : pc'[f] \in {"room", "full"} => pc[f] \in {"room", "full"}
  BY <1>1
<1> QED BY <1>1, <1>2 DEF ThreadInv, Offsets, Quiet

LEMMA StaysPut ==
    ASSUME ThreadInv, Quiet, UNCHANGED <<msg, pc>>
    PROVE  ThreadInv'
BY DEF ThreadInv, Offsets, Quiet

Settled == Quiet /\ ThreadInv' /\ MemoryInv' /\ [Chan!Next]_(Chan!vars)

(* Steps that touch no shared word but a semaphore. *)
LEMMA LocalSteps ==
    ASSUME ThreadInv, MemoryInv, NEW e \in Ends,
           \/ NoRoom(e) \/ Full(e) \/ Peek(e) \/ Post(e)
           \/ BeginRecv(e) \/ RecvNothing(e) \/ RecvOpen(e) \/ Spin(e)
           \/ RecheckHead(e) \/ RecheckClosed(e)
           \/ SemWait(e) \/ Interrupt(e) \/ DrainTokens(e)
           \/ WakePeers(e) \/ Unmap(e) \/ Kill(e)
    PROVE  Settled
<1>1. /\ UNCHANGED <<head, tail, closed, buf, msg, wr, rd, data, put, got, ended>>
      /\ \E point \in Points :
             /\ Goto(e, point)
             /\ point \in {"room", "full"} => pc[e] \in {"room", "full"}
  <2>1. UNCHANGED <<head, tail, closed, buf, msg, wr, rd, data, put, got, ended>>
    BY DEF NoRoom, Full, Peek, Post, BeginRecv, RecvNothing, RecvOpen, Spin,
           RecheckHead, RecheckClosed, SemWait, Interrupt, DrainTokens, WakePeers,
           Unmap, Kill, shared, calls, log
  <2>2. \/ \E point \in Points \ {"room", "full"} : Goto(e, point)
        \/ \E point \in {"room", "full"} : Goto(e, point) /\ pc[e] \in {"room", "full"}
    BY DEF NoRoom, Full, Peek, Post, BeginRecv, RecvNothing, RecvOpen, Spin,
           RecheckHead, RecheckClosed, SemWait, Interrupt, DrainTokens, WakePeers,
           Unmap, Kill, At, Points, Sending, Receiving, Dropping
  <2>3. {"room", "full"} \subseteq Points
    BY DEF Points, Sending
  <2> QED BY <2>1, <2>2, <2>3
<1>2. Quiet
  BY <1>1 DEF Quiet
<1>3. ThreadInv'
  BY <1>1, <1>2, MovesOn
<1>4. MemoryInv'
  BY <1>1, QuietGrows, KeptMemory DEF ThreadInv, MemoryInv
<1>5. [Chan!Next]_(Chan!vars)
  BY <1>1, QuietChannel
<1> QED BY <1>2, <1>3, <1>4, <1>5 DEF Settled

LEMMA SendBegins ==
    ASSUME ThreadInv, MemoryInv, NEW e \in Ends, BeginSend(e)
    PROVE  Settled
<1>1. PICK n \in Sizes :
         /\ Need([no |-> Len(put[e]) + 1, size |-> n]) <= Cap
         /\ msg' = [msg EXCEPT ![e] = [no |-> Len(put[e]) + 1, size |-> n]]
  BY DEF BeginSend
<1> DEFINE m == [no |-> Len(put[e]) + 1, size |-> n]
<1>2. UNCHANGED <<head, tail, closed, buf, wr, rd, data, put, got, ended>>
  BY DEF BeginSend, shared, calls, log
<1>3. m \in Messages
  <2>1. Len(put[e]) \in Nat /\ MaxSends[e] \in Nat /\ Len(put[e]) < MaxSends[e]
    BY ShmAssumption, LenProperties DEF ThreadInv, BeginSend
  <2>2. Len(put[e]) + 1 \in 1..MaxSends[e]
    BY <2>1
  <2> QED BY <2>2 DEF Messages
<1>4. /\ msg' \in [Ends -> Messages \cup {NoMsg}] /\ msg'[e] = m
      /\ \A f \in Ends : f # e => msg'[f] = msg[f]
  BY <1>1, <1>3 DEF ThreadInv
<1>5. /\ pc' \in [Ends -> Points] /\ \A f \in Ends : f # e => pc'[f] = pc[f]
  BY DEF BeginSend, Goto, ThreadInv, Points, Sending
<1>6. \A f \in Ends : pc'[f] \in {"room", "full"} =>
         msg'[f] \in Messages /\ Need(msg'[f]) <= Cap
  <2>1. Need(msg'[e]) <= Cap
    BY <1>1, <1>4
  <2> QED BY <1>3, <1>4, <1>5, <2>1 DEF ThreadInv
<1>7. Quiet
  BY <1>2 DEF Quiet
<1>8. ThreadInv'
  BY <1>2, <1>4, <1>5, <1>6 DEF ThreadInv, Offsets
<1>9. MemoryInv'
  BY <1>2, QuietGrows, KeptMemory DEF ThreadInv, MemoryInv
<1> QED BY <1>2, <1>7, <1>8, <1>9, QuietChannel DEF Settled

LEMMA EndReported ==
    ASSUME ThreadInv, MemoryInv, NEW e \in Ends, RecvEof(e)
    PROVE  Settled
<1>1. /\ UNCHANGED <<head, tail, closed, buf, msg, wr, rd, data, put, got>>
      /\ closed = 1 /\ ended' = ended \cup {e} /\ Goto(e, "idle")
  BY DEF RecvEof, shared, calls
<1>2. Quiet /\ "idle" \in Points
  BY <1>1 DEF Quiet, Points
<1>3. ThreadInv'
  BY <1>1, <1>2, MovesOn
<1>4. MemoryInv'
  BY <1>1, QuietGrows, KeptMemory DEF ThreadInv, MemoryInv
<1>5. Chan!End(e)
  BY <1>1 DEF Chan!End
<1> QED BY <1>2, <1>3, <1>4, <1>5 DEF Settled, Chan!Next

(* Stores that are about neither offset. *)
LEMMA FlagStored ==
    ASSUME ThreadInv, MemoryInv, NEW e \in Ends, NEW s \in Stores,
           s.to \in {"park", "closed"}, Store(e, s),
           UNCHANGED <<msg, wr, rd, data, put, got, ended>>,
           NEW point \in Points \ {"room", "full"}, Goto(e, point)
    PROVE  Settled
<1>1. Quiet
  BY DEF Quiet
<1>2. ThreadInv'
  BY <1>1, MovesOn
<1>3. s \in Honest'
  BY DEF Honest
<1>4. MemoryInv'
  BY <1>3, QuietGrows, StoredMemory DEF ThreadInv
<1>5. closed' = closed \/ closed' = 1
  BY DEF Store, Write, Stores
<1> QED BY <1>1, <1>2, <1>4, <1>5, QuietChannel DEF Settled

LEMMA FlagSteps ==
    ASSUME ThreadInv, MemoryInv, NEW e \in Ends,
           Arm(e) \/ Disarm(e) \/ Unpark(e) \/ BeginDrop(e)
    PROVE  Settled
<1>1. UNCHANGED <<msg, wr, rd, data, put, got, ended>>
  BY DEF Arm, Disarm, Unpark, BeginDrop, calls, log
<1>2. \E s \in Stores : s.to \in {"park", "closed"} /\ Store(e, s)
  <2> DEFINE park0 == [to |-> "park", ring |-> Other(e), val |-> 0]
             park1 == [to |-> "park", ring |-> Other(e), val |-> 1]
             close == [to |-> "closed", val |-> 1]
  <2>1. park0 \in Stores /\ park1 \in Stores /\ close \in Stores
    BY TwoEnds DEF Stores
  <2>2. Store(e, park0) \/ Store(e, park1) \/ Store(e, close)
    BY DEF Arm, Disarm, Unpark, BeginDrop
  <2>3. park0.to = "park" /\ park1.to = "park" /\ close.to = "closed"
    OBVIOUS
  <2> QED BY <2>1, <2>2, <2>3
<1>3. \E point \in Points \ {"room", "full"} : Goto(e, point)
  BY DEF Arm, Disarm, Unpark, BeginDrop, Points, Receiving, Dropping
<1> QED BY <1>1, <1>2, <1>3, FlagStored

LEMMA WatchSteps ==
    ASSUME ThreadInv, MemoryInv, NEW e \in Ends, Watch(e)
    PROVE  Settled
<1>1. /\ UNCHANGED <<head, tail, buf, pc, msg, wr, rd, data, put, got, ended>>
      /\ closed' = closed \/ closed' = 1
  BY DEF Watch, DogSeesClosed, Orphaned, DogPosts, shared, local, log
<1>2. Quiet /\ ThreadInv'
  BY <1>1, StaysPut DEF Quiet
<1>3. MemoryInv'
  BY <1>1, QuietGrows, KeptMemory DEF ThreadInv, MemoryInv
<1> QED BY <1>1, <1>2, <1>3, QuietChannel DEF Settled

LEMMA FlushSteps ==
    ASSUME ThreadInv, MemoryInv, NEW e \in Ends, Flush(e)
    PROVE  Settled
<1>1. /\ UNCHANGED <<pc, msg, wr, rd, data, put, got, ended>>
      /\ buf[e] # <<>> /\ Write(Head(buf[e]))
  BY DEF Flush, local, calls, log
<1>2. Quiet /\ ThreadInv'
  BY <1>1, StaysPut DEF Quiet
<1>3. MemoryInv'
  BY FlushedMemory DEF ThreadInv
<1>4. Head(buf[e]) \in Stores
  <2>1. Head(buf[e]) \in Honest
    BY <1>1, QueueType DEF MemoryInv
  <2> QED BY <2>1 DEF Honest
<1>5. closed' = closed \/ closed' = 1
  BY <1>1, <1>4 DEF Write, Stores
<1> QED BY <1>1, <1>2, <1>3, <1>5, QuietChannel DEF Settled

-----------------------------------------------------------------------------
(* The steps that send and receive. *)

ChannelInv == ThreadInv /\ MemoryInv /\ \A r \in Ends : Layout(r)

Progress == ChannelInv' /\ [Chan!Next]_(Chan!vars)

LEMMA QuietLayout ==
    ASSUME Quiet, NEW r \in Ends, Layout(r)
    PROVE  Layout(r)'
BY DEF Quiet, Layout

(* A message is put into room that the reader has left. *)
LEMMA PublishStep ==
    ASSUME ChannelInv, NEW e \in Ends, Publish(e)
    PROVE  Progress
<1> DEFINE m == msg[e]
<1>1. /\ pc[e] = "room" /\ Cap - (wr[e] - tail[e]) >= Need(m)
      /\ data' = [data EXCEPT ![e] = Filled(data[e], wr[e], m)]
      /\ wr' = [wr EXCEPT ![e] = @ + Need(m)]
      /\ put' = [put EXCEPT ![e] = Append(@, m)]
      /\ Store(e, [to |-> "head", ring |-> e, val |-> wr[e] + Need(m)])
      /\ Goto(e, "peek")
      /\ UNCHANGED <<msg, rd, got, ended>>
  BY DEF Publish, Room, At, RingPut, Filled, ChannelInv, ThreadInv
<1>2. /\ m \in Messages /\ m.size \in Nat /\ Need(m) \in Nat
      /\ wr[e] \in Nat /\ rd[e] \in Nat /\ tail[e] \in Nat /\ tail[e] <= rd[e]
      /\ put[e] \in Seq(Messages) /\ Len(got[e]) \in Nat /\ Cap \in Nat \ {0}
  <2>1. m \in Messages /\ got[e] \in Seq(Messages)
    BY <1>1 DEF ChannelInv, ThreadInv
  <2>2. m.size \in Nat /\ Need(m) = 1 + m.size
    BY <2>1, MessageSize
  <2> QED BY <2>1, <2>2, MessageSize, LenProperties
          DEF ChannelInv, ThreadInv, MemoryInv, Offsets
<1>3. wr[e] + Need(m) <= rd[e] + Cap
  BY <1>1, <1>2
<1>4. /\ wr' \in [Ends -> Nat] /\ wr'[e] = wr[e] + Need(m)
      /\ \A r \in Ends : r # e => wr'[r] = wr[r]
  <2>1. wr[e] + Need(m) \in Nat
    BY <1>2
  <2> QED BY <1>1, <2>1 DEF ChannelInv, ThreadInv, Offsets
<1>5. Offsets' /\ Growing
  BY <1>1, <1>2, <1>4 DEF Offsets, Growing, ChannelInv, ThreadInv
<1>6. data' \in [Ends -> [0..(Cap - 1) -> Cells]]
  <2>1. Filled(data[e], wr[e], m) \in [0..(Cap - 1) -> Cells]
    <3>1. data[e] \in [0..(Cap - 1) -> Cells]
      BY DEF ChannelInv, ThreadInv
    <3>2. ASSUME NEW i \in 0..(Cap - 1) PROVE <<m, (i - wr[e]) % Cap>> \in Cells
      <4>1. i - wr[e] \in Int
        BY <1>2
      <4>2. (i - wr[e]) % Cap \in Nat
        BY <1>2, <4>1, Division
      <4> QED BY <1>2, <4>2 DEF Cells
    <3> QED BY <3>1, <3>2 DEF Filled
  <2> QED BY <1>1, <2>1 DEF ChannelInv, ThreadInv
<1>7. ThreadInv'
  <2>1. put' \in [Ends -> Seq(Messages)]
    <3>1. Append(put[e], m) \in Seq(Messages)
      BY <1>2, QueueType
    <3> QED BY <1>1, <3>1 DEF ChannelInv, ThreadInv
  <2>2. /\ pc' \in [Ends -> Points] /\ pc'[e] = "peek"
        /\ \A f \in Ends : f # e => pc'[f] = pc[f]
    BY <1>1 DEF ChannelInv, ThreadInv, Goto, Points, Sending
  <2> QED BY <1>1, <1>5, <1>6, <2>1, <2>2 DEF ChannelInv, ThreadInv
<1>8. MemoryInv'
  <2> DEFINE s == [to |-> "head", ring |-> e, val |-> wr[e] + Need(m)]
  <2>1. s \in Honest'
    <3>1. wr[e] + Need(m) \in Nat
      BY <1>2
    <3>2. s \in Stores /\ s.to = "head" /\ s.val = wr'[e] /\ s.ring = e
      BY <1>4, <3>1 DEF Stores
    <3>3. wr'[e] <= wr'[e]
      BY <1>4
    <3> QED BY <3>2, <3>3 DEF Honest
  <2> HIDE DEF s
  <2>2. Store(e, s)
    BY <1>1 DEF s
  <2> QED BY <1>5, <2>1, <2>2, StoredMemory DEF ChannelInv, ThreadInv
<1>9. ASSUME NEW r \in Ends PROVE Layout(r)'
  <2>1. CASE r # e
    <3>1. /\ put'[r] = put[r] /\ got'[r] = got[r] /\ rd'[r] = rd[r]
          /\ wr'[r] = wr[r] /\ data'[r] = data[r]
      BY <1>1, <1>4, <2>1 DEF ChannelInv, ThreadInv
    <3> QED BY <3>1 DEF ChannelInv, Layout
  <2>2. CASE r = e
    <3>1. PICK start \in Places :
             Laid(start, put[e], Len(got[e]), rd[e], wr[e], data[e])
      BY DEF ChannelInv, Layout
    <3>2. \E new \in Places :
             Laid(new, Append(put[e], m), Len(got[e]), rd[e], wr[e] + Need(m),
                  Filled(data[e], wr[e], m))
      BY <1>2, <1>3, <3>1, PushMessage
    <3>3. /\ put'[e] = Append(put[e], m) /\ got'[e] = got[e] /\ rd'[e] = rd[e]
          /\ data'[e] = Filled(data[e], wr[e], m)
      BY <1>1 DEF ChannelInv, ThreadInv
    <3> QED BY <1>4, <2>2, <3>2, <3>3 DEF Layout
  <2> QED BY <2>1, <2>2
<1>10. closed' = closed
  BY <1>1 DEF Store, Write
<1>11. Chan!Send(e)
  BY <1>1, <1>2, <1>10 DEF Chan!Send
<1> QED BY <1>7, <1>8, <1>9, <1>11 DEF Progress, ChannelInv, Chan!Next

(* The frame at the read offset is the next message, whole. *)
LEMMA TakeStep ==
    ASSUME ChannelInv, NEW e \in Ends, TakeFrame(e), UNCHANGED pc \/ Goto(e, "idle")
    PROVE  Progress
<1> DEFINE r == Other(e)
           n == Len(got[r])
           m == put[r][n + 1]
<1>1. /\ r \in Ends /\ head[r] - rd[r] >= 1
      /\ got' = [got EXCEPT ![r] = Append(@, Frame(r))]
      /\ rd' = [rd EXCEPT ![r] = @ + Need(Frame(r))]
      /\ Store(e, [to |-> "tail", ring |-> r, val |-> rd[r] + Need(Frame(r))])
      /\ UNCHANGED <<msg, wr, data, put, ended>>
  BY TwoEnds DEF TakeFrame, Whole, Unread, calls
<1>2. /\ rd[r] \in Nat /\ wr[r] \in Nat /\ rd[r] < wr[r]
      /\ put[r] \in Seq(Messages) /\ got[r] \in Seq(Messages) /\ n \in Nat
  <2>1. /\ rd[r] \in Nat /\ wr[r] \in Nat /\ head[r] \in Nat /\ head[r] <= wr[r]
        /\ put[r] \in Seq(Messages) /\ got[r] \in Seq(Messages)
    BY <1>1 DEF ChannelInv, ThreadInv, MemoryInv, Offsets
  <2>2. rd[r] < wr[r]
    BY <1>1, <2>1
  <2>3. n \in Nat
    BY <2>1, LenProperties
  <2> QED BY <2>1, <2>2, <2>3
<1>3. PICK start \in Places : Laid(start, put[r], n, rd[r], wr[r], data[r])
  BY <1>1 DEF ChannelInv, Layout
<1>4. /\ n < Len(put[r]) /\ m \in Messages
      /\ \A k \in 0..m.size : data[r][(rd[r] + k) % Cap] = <<m, k>>
      /\ Laid(start, put[r], n + 1, rd[r] + Need(m), wr[r], data[r])
      /\ rd[r] + Need(m) <= wr[r]
  <2> DEFINE p == put[r]
             ring == data[r]
  <2>1. /\ p \in Seq(Messages) /\ n \in Nat /\ rd[r] \in Nat /\ wr[r] \in Nat
        /\ Laid(start, p, n, rd[r], wr[r], ring) /\ rd[r] < wr[r]
    BY <1>2, <1>3
  <2> HIDE DEF p, n, ring
  <2>2. /\ n < Len(p) /\ n + 1 \in 1..Len(p) /\ p[n + 1] \in Messages
        /\ \A k \in 0..p[n + 1].size : ring[(rd[r] + k) % Cap] = <<p[n + 1], k>>
        /\ Laid(start, p, n + 1, rd[r] + Need(p[n + 1]), wr[r], ring)
        /\ rd[r] + Need(p[n + 1]) <= wr[r]
    BY <2>1, NextMessage, Zenon
  <2> QED BY <2>2 DEF p, ring
<1>5. m.size \in Nat /\ Need(m) = 1 + m.size /\ Need(m) \in Nat
  BY <1>4, MessageSize
<1> HIDE DEF m
<1>6. Frame(r) = m
  <2>1. \A k \in 0..m.size : Cell(r, k) = <<m, k>>
    BY <1>4 DEF Cell
  <2>2. 0 \in 0..m.size
    BY <1>5
  <2>3. Cell(r, 0)[1] = m
    BY <2>1, <2>2
  <2> QED BY <2>1, <2>3 DEF Frame
<1>7. /\ rd' \in [Ends -> Nat] /\ rd'[r] = rd[r] + Need(m)
      /\ \A f \in Ends : f # r => rd'[f] = rd[f]
  <2>1. rd[r] + Need(m) \in Nat
    BY <1>2, <1>5
  <2> QED BY <1>1, <1>6, <2>1 DEF ChannelInv, ThreadInv, Offsets
<1>8. Offsets' /\ Growing
  <2>1. rd[r] <= rd'[r]
    BY <1>2, <1>5, <1>7
  <2>2. \A f \in Ends : rd[f] \in Nat /\ wr[f] \in Nat
    BY DEF ChannelInv, ThreadInv, Offsets
  <2>3. \A f \in Ends : rd[f] <= rd'[f] /\ wr[f] <= wr'[f]
    BY <1>1, <1>7, <2>1, <2>2
  <2> QED BY <1>1, <1>7, <2>3 DEF Offsets, Growing, ChannelInv, ThreadInv
<1>9. /\ got' \in [Ends -> Seq(Messages)] /\ got'[r] = Append(got[r], m)
      /\ Len(got'[r]) = n + 1
      /\ \A f \in Ends : f # r => got'[f] = got[f]
  <2>1. Append(got[r], m) \in Seq(Messages) /\ Len(Append(got[r], m)) = n + 1
    BY <1>2, <1>4, AppendProperties
  <2> QED BY <1>1, <1>6, <2>1 DEF ChannelInv, ThreadInv
<1>10. ThreadInv'
  <2>1. /\ pc' \in [Ends -> Points]
        /\ \A f \in Ends : pc'[f] \in {"room", "full"} => pc[f] \in {"room", "full"}
    BY DEF Goto, Points, ChannelInv, ThreadInv
  <2> QED BY <1>1, <1>8, <1>9, <2>1 DEF ChannelInv, ThreadInv
<1>11. MemoryInv'
  <2> DEFINE s == [to |-> "tail", ring |-> r, val |-> rd[r] + Need(m)]
  <2>1. s \in Honest'
    <3>1. rd[r] + Need(m) \in Nat
      BY <1>2, <1>5
    <3>2. s \in Stores /\ s.to = "tail" /\ s.val = rd'[r] /\ s.ring = r
      BY <1>1, <1>7, <3>1 DEF Stores
    <3>3. rd'[r] <= rd'[r]
      BY <1>1, <1>7
    <3> QED BY <3>2, <3>3 DEF Honest
  <2> HIDE DEF s
  <2>2. Store(e, s)
    BY <1>1, <1>6 DEF s
  <2> QED BY <1>8, <2>1, <2>2, StoredMemory DEF ChannelInv, ThreadInv
<1>12. ASSUME NEW f \in Ends PROVE Layout(f)'
  <2>1. CASE f # r
    <3>1. /\ put'[f] = put[f] /\ got'[f] = got[f] /\ rd'[f] = rd[f]
          /\ wr'[f] = wr[f] /\ data'[f] = data[f]
      BY <1>1, <1>7, <1>9, <2>1
    <3> QED BY <3>1 DEF ChannelInv, Layout
  <2>2. CASE f = r
    BY <1>1, <1>4, <1>7, <1>9, <2>2 DEF Layout
  <2> QED BY <2>1, <2>2
<1>13. closed' = closed
  BY <1>1 DEF Store, Write
<1>14. Chan!Receive(r)
  <2>1. got' = [got EXCEPT ![r] = Append(@, put[r][Len(@) + 1])]
    BY <1>1, <1>6 DEF m
  <2> QED BY <1>1, <1>4, <1>13, <2>1 DEF Chan!Receive
<1> QED BY <1>1, <1>10, <1>11, <1>12, <1>14 DEF Progress, ChannelInv, Chan!Next

-----------------------------------------------------------------------------
(* All steps. *)

LEMMA InitInv == Init => ChannelInv /\ Chan!Init
<1> SUFFICES ASSUME Init PROVE ChannelInv /\ Chan!Init
  OBVIOUS
<1>1. Cap \in Nat \ {0} /\ <<>> \in Seq(Messages) /\ <<>> \in Seq(Honest)
  BY MessageSize, EmptySeq
<1>2. ThreadInv
  <2>1. Blank \in Cells
    BY DEF Blank, Cells
  <2> QED BY <1>1, <2>1 DEF Init, ThreadInv, Offsets, Points
<1>3. MemoryInv
  BY <1>1 DEF Init, MemoryInv
<1>4. ASSUME NEW r \in Ends PROVE Layout(r)
  <2> DEFINE start == [i \in Nat |-> 0]
  <2>1. /\ put[r] = <<>> /\ got[r] = <<>> /\ rd[r] = 0 /\ wr[r] = 0
        /\ Len(<<>>) = 0
    BY DEF Init
  <2>2. start \in Places /\ start[1] = 0
    BY DEF Places
  <2>3. Laid(start, <<>>, 0, 0, 0, data[r])
    <3>1. 1..0 = {} /\ 0 \in 0..0 /\ 0 + 1 = 1
      OBVIOUS
    <3> HIDE DEF start
    <3> QED BY <2>1, <2>2, <3>1 DEF Laid
  <2> QED BY <2>1, <2>2, <2>3 DEF Layout
<1>5. Chan!Init
  BY DEF Init, Chan!Init
<1> QED BY <1>2, <1>3, <1>4, <1>5 DEF ChannelInv

LEMMA StepInv == ChannelInv /\ [Next]_vars => Progress
<1> SUFFICES ASSUME ChannelInv, [Next]_vars PROVE Progress
  OBVIOUS
<1>1. Settled => Progress
  <2>1. Settled => \A r \in Ends : Layout(r)'
    BY QuietLayout DEF Settled, ChannelInv
  <2> QED BY <2>1 DEF Settled, Progress, ChannelInv
<1>2. ASSUME NEW e \in Ends, Begin(e) PROVE Progress
  <2>1. BeginSend(e) => Settled
    BY SendBegins DEF ChannelInv
  <2>2. BeginRecv(e) => Settled
    BY LocalSteps DEF ChannelInv
  <2>3. BeginDrop(e) => Settled
    BY FlagSteps DEF ChannelInv
  <2>4. TryRecv(e) => Progress
    BY TakeStep DEF TryRecv
  <2> QED BY <1>1, <1>2, <2>1, <2>2, <2>3, <2>4 DEF Begin
<1>3. ASSUME NEW e \in Ends, Proceed(e) PROVE Progress
  <2>1. Publish(e) => Progress
    BY PublishStep
  <2>2. RecvFrame(e) => Progress
    BY TakeStep DEF RecvFrame
  <2>3. RecvEof(e) => Settled
    BY EndReported DEF ChannelInv
  <2>4. Arm(e) \/ Disarm(e) \/ Unpark(e) => Settled
    BY FlagSteps DEF ChannelInv
  <2>5. ASSUME \/ NoRoom(e) \/ Full(e) \/ Peek(e) \/ Post(e)
               \/ RecvNothing(e) \/ RecvOpen(e) \/ Spin(e)
               \/ RecheckHead(e) \/ RecheckClosed(e)
               \/ SemWait(e) \/ DrainTokens(e) \/ WakePeers(e) \/ Unmap(e)
        PROVE  Settled
    BY <2>5, LocalSteps DEF ChannelInv
  <2>6. \/ Publish(e) \/ RecvFrame(e) \/ RecvEof(e)
        \/ Arm(e) \/ Disarm(e) \/ Unpark(e)
        \/ NoRoom(e) \/ Full(e) \/ Peek(e) \/ Post(e)
        \/ RecvNothing(e) \/ RecvOpen(e) \/ Spin(e)
        \/ RecheckHead(e) \/ RecheckClosed(e)
        \/ SemWait(e) \/ DrainTokens(e) \/ WakePeers(e) \/ Unmap(e)
    BY <1>3 DEF Proceed
  <2>7. Settled \/ Progress
    BY <2>1, <2>2, <2>3, <2>4, <2>5, <2>6
  <2> QED BY <1>1, <2>7
<1>4. ASSUME NEW e \in Ends, Interrupt(e) \/ Kill(e) PROVE Progress
  BY <1>1, <1>4, LocalSteps DEF ChannelInv
<1>5. ASSUME NEW e \in Ends, Watch(e) PROVE Progress
  BY <1>1, <1>5, WatchSteps DEF ChannelInv
<1>6. ASSUME NEW e \in Ends, Flush(e) PROVE Progress
  BY <1>1, <1>6, FlushSteps DEF ChannelInv
<1>7. CASE UNCHANGED vars
  <2>1. UNCHANGED <<pc, msg, wr, rd, data, put, got, ended, head, tail, closed, buf>>
    BY <1>7 DEF vars, shared, local, calls, log
  <2>2. Quiet /\ ThreadInv'
    BY <2>1, StaysPut DEF Quiet, ChannelInv
  <2>3. MemoryInv'
    BY <2>1, QuietGrows, KeptMemory DEF ChannelInv, ThreadInv, MemoryInv
  <2> QED BY <1>1, <2>1, <2>2, <2>3, QuietChannel DEF Settled
<1>8. CASE Over
  BY <1>7, <1>8 DEF Over
<1> QED BY <1>2, <1>3, <1>4, <1>5, <1>6, <1>7, <1>8 DEF Next

(* Whatever the delay between a store and the moment the other end sees    *)
(* it, for any ring and any messages: what recv and try_recv return are    *)
(* the messages that were sent, whole, once and in order, no unread byte   *)
(* is overwritten, and recv reports an end only after a close.             *)
THEOREM DeliversInOrder == Spec => ImplementsChannel
<1>1. ChannelInv /\ [Next]_vars => ChannelInv' /\ [Chan!Next]_(Chan!vars)
  BY StepInv DEF Progress
<1> QED BY <1>1, InitInv, PTL DEF Spec, ImplementsChannel, Chan!Spec

-----------------------------------------------------------------------------
(* Wakeups, when a store is seen at once. *)

WakeTyped ==
    /\ pc \in [Ends -> Points] /\ sem \in [Ends -> Nat]
    /\ dog \in [Ends -> {"watch", "post", "done", "killed"}]
    /\ park \in [Ends -> {0, 1}] /\ closed \in {0, 1}
    /\ buf = [e \in Ends |-> <<>>]

(* A reader that has armed its flag keeps it. *)
Armed(e) == pc[e] \in {"rehead", "reclosed", "wait"} => park[Other(e)] = 1

(* Once it has looked at head, whoever publishes will look at the flag.    *)
HeadWatched(e) ==
    pc[e] \in {"reclosed", "wait"} /\ sem[Other(e)] = 0 /\ Unread(Other(e)) >= 1 =>
        pc[Other(e)] \in {"peek", "post", "killed"}

(* While the channel is open nobody has begun to leave it. *)
OpenChannel ==
    closed = 0 =>
        /\ name = "ours"
        /\ \A e \in Ends : /\ pc[e] \notin {"wake", "join", "gone"}
                           /\ dog[e] = "watch" \/ (dog[e] = "killed" /\ pc[e] = "killed")

(* A reader that waits in a closed channel has its watchdog to wake it. *)
CloseWatched(e) ==
    pc[e] = "wait" /\ sem[Other(e)] = 0 /\ closed = 1 =>
        dog[e] \in {"watch", "post"} /\ name = "ours" /\ pc[Other(e)] # "join"

WakeInv ==
    /\ WakeTyped /\ OpenChannel
    /\ \A e \in Ends : Armed(e) /\ HeadWatched(e) /\ CloseWatched(e)

LEMMA WakeStep ==
    ASSUME StoreBuffer = 0, ChannelInv, WakeInv, [Next]_vars
    PROVE  WakeInv'
<1> USE TwoEnds DEF WakeInv, WakeTyped, OpenChannel, Armed, HeadWatched, CloseWatched, Unread
<1>t. /\ head \in [Ends -> Nat] /\ rd \in [Ends -> Nat]
  BY DEF ChannelInv, ThreadInv, MemoryInv, Offsets
<1>0. ASSUME NEW e \in Ends, NEW s, Store(e, s) PROVE Write(s) /\ UNCHANGED buf
  <2>1. Len(buf[e]) = 0
    OBVIOUS
  <2> QED BY <1>0, <2>1 DEF Store
<1>1. ASSUME NEW e \in Ends, NEW point \in Points, Goto(e, point)
      PROVE  /\ pc' \in [Ends -> Points] /\ pc'[e] = point
             /\ pc'[Other(e)] = pc[Other(e)]
  BY <1>1 DEF Goto
<1>2. ASSUME NEW e \in Ends,
             UNCHANGED <<head, tail, park, closed, buf, rd, sem, dog, name>>,
             NEW point \in Points \ {"rehead", "reclosed", "wait", "wake", "join", "gone"},
             Goto(e, point), pc[e] \notin {"peek", "post", "killed"}
      PROVE  WakeInv'
  BY <1>1, <1>2
<1>3. ASSUME NEW e \in Ends, Publish(e) PROVE WakeInv'
  <2>1. /\ UNCHANGED <<tail, park, closed, buf, rd, sem, dog, name>>
        /\ \A r \in Ends : r # e => head'[r] = head[r]
        /\ pc[e] = "room" /\ Goto(e, "peek") /\ "peek" \in Points
    <3>1. PICK s : s.to = "head" /\ s.ring = e /\ Store(e, s)
      <4> DEFINE s == [to |-> "head", ring |-> e, val |-> wr[e] + Need(msg[e])]
      <4>1. s.to = "head" /\ s.ring = e /\ Store(e, s)
        BY <1>3 DEF Publish
      <4> QED BY <4>1
    <3>2. Write(s) /\ UNCHANGED buf
      BY <1>0, <3>1
    <3>3. UNCHANGED <<tail, park, closed, buf>> /\ \A r \in Ends : r # e => head'[r] = head[r]
      BY <1>t, <3>1, <3>2 DEF Write
    <3> QED BY <1>3, <3>3 DEF Publish, At, Points, Sending
  <2> QED BY <1>1, <2>1
<1>4. ASSUME NEW e \in Ends, TakeFrame(e), UNCHANGED pc \/ Goto(e, "idle"),
             pc[e] \in {"idle", "poll"}
      PROVE  WakeInv'
  <2>1. /\ UNCHANGED <<head, park, closed, buf, sem, dog, name>>
        /\ \A r \in Ends : r # Other(e) => rd'[r] = rd[r]
    <3>1. PICK s : s.to = "tail" /\ Store(e, s)
      <4> DEFINE s == [to |-> "tail", ring |-> Other(e),
                       val |-> rd[Other(e)] + Need(Frame(Other(e)))]
      <4>1. s.to = "tail" /\ Store(e, s)
        BY <1>4 DEF TakeFrame
      <4> QED BY <4>1
    <3>2. UNCHANGED <<head, park, closed, buf>>
      BY <1>0, <3>1 DEF Write
    <3> QED BY <1>t, <1>4, <3>2 DEF TakeFrame, calls
  <2>2. /\ pc' \in [Ends -> Points] /\ pc'[e] \in {"idle", "poll"}
        /\ pc'[Other(e)] = pc[Other(e)]
    BY <1>1, <1>4 DEF Points
  <2> QED BY <1>4, <2>1, <2>2
<1>5. ASSUME NEW e \in Ends, NEW v \in {0, 1},
             Store(e, [to |-> "park", ring |-> Other(e), val |-> v])
      PROVE  /\ UNCHANGED <<head, tail, closed, buf>> /\ park' \in [Ends -> {0, 1}]
             /\ park'[Other(e)] = v /\ park'[e] = park[e]
  <2> DEFINE s == [to |-> "park", ring |-> Other(e), val |-> v]
  <2>1. s.to = "park" /\ s.ring = Other(e) /\ s.val = v
    OBVIOUS
  <2> HIDE DEF s
  <2>2. Write(s) /\ UNCHANGED buf
    BY <1>0, <1>5 DEF s
  <2> QED BY <2>1, <2>2 DEF Write
<1>6. ASSUME NEW e \in Ends, Arm(e) PROVE WakeInv'
  <2>1. /\ UNCHANGED <<head, closed, buf, rd, sem, dog, name>>
        /\ park' \in [Ends -> {0, 1}] /\ park'[Other(e)] = 1 /\ park'[e] = park[e]
        /\ pc[e] = "arm" /\ Goto(e, "rehead") /\ "rehead" \in Points
    BY <1>5, <1>6 DEF Arm, At, calls, Points, Receiving
  <2> QED BY <1>1, <2>1
<1>7. ASSUME NEW e \in Ends, Disarm(e) \/ Unpark(e) PROVE WakeInv'
  <2>1. /\ UNCHANGED <<head, closed, buf, rd, sem, dog, name>>
        /\ park' \in [Ends -> {0, 1}] /\ park'[e] = park[e]
        /\ pc[e] \in {"disarm", "woken"}
        /\ \E point \in {"poll", "drain"} : Goto(e, point) /\ point \in Points
    BY <1>5, <1>7 DEF Disarm, Unpark, At, calls, Points, Receiving
  <2> QED BY <1>1, <2>1
<1>8. ASSUME NEW e \in Ends, Peek(e) PROVE WakeInv'
  <2>1. /\ UNCHANGED <<head, tail, park, closed, buf, rd, sem, dog, name>>
        /\ pc[e] = "peek"
        /\ \/ park[e] = 1 /\ Goto(e, "post")
           \/ park[e] # 1 /\ Goto(e, "idle")
        /\ {"post", "idle"} \subseteq Points
    BY <1>8 DEF Peek, At, shared, calls, Points, Sending
  <2> QED BY <1>1, <2>1
<1>9. ASSUME NEW e \in Ends, Post(e) PROVE WakeInv'
  <2>1. /\ UNCHANGED <<head, tail, park, closed, buf, rd, dog, name>>
        /\ sem' \in [Ends -> Nat] /\ sem'[e] # 0 /\ sem'[Other(e)] = sem[Other(e)]
        /\ pc[e] = "post" /\ Goto(e, "idle") /\ "idle" \in Points
    BY <1>9 DEF Post, At, shared, Points
  <2> QED BY <1>1, <2>1
<1>10. ASSUME NEW e \in Ends, RecheckHead(e) PROVE WakeInv'
  <2>1. /\ UNCHANGED <<head, tail, park, closed, buf, rd, sem, dog, name>>
        /\ pc[e] = "rehead"
        /\ \/ Goto(e, "disarm")
           \/ ~(Unread(Other(e)) >= 1) /\ Goto(e, "reclosed")
        /\ {"disarm", "reclosed"} \subseteq Points
    BY <1>10 DEF RecheckHead, At, shared, calls, Points, Receiving
  <2> QED BY <1>1, <2>1
<1>11. ASSUME NEW e \in Ends, RecheckClosed(e) PROVE WakeInv'
  <2>1. /\ UNCHANGED <<head, tail, park, closed, buf, rd, sem, dog, name>>
        /\ pc[e] = "reclosed"
        /\ \/ Goto(e, "disarm")
           \/ closed # 1 /\ Goto(e, "wait")
        /\ {"disarm", "wait"} \subseteq Points
    BY <1>11 DEF RecheckClosed, At, shared, calls, Points, Receiving
  <2> QED BY <1>1, <2>1
<1>12. ASSUME NEW e \in Ends, SemWait(e) \/ DrainTokens(e) PROVE WakeInv'
  <2>1. /\ UNCHANGED <<head, tail, park, closed, buf, rd, dog, name>>
        /\ sem' \in [Ends -> Nat] /\ sem'[e] = sem[e]
        /\ pc[e] \in {"wait", "drain"}
        /\ \E point \in {"woken", "poll"} : Goto(e, point) /\ point \in Points
    BY <1>12 DEF SemWait, DrainTokens, At, shared, Points, Receiving
  <2> QED BY <1>1, <2>1
<1>13. ASSUME NEW e \in Ends, BeginDrop(e) PROVE WakeInv'
  <2>1. /\ UNCHANGED <<head, tail, park, buf, rd, sem, dog, name>> /\ closed' = 1
        /\ pc[e] = "idle" /\ Goto(e, "wake") /\ "wake" \in Points
    <3>1. Write([to |-> "closed", val |-> 1]) /\ UNCHANGED buf
      BY <1>0, <1>13 DEF BeginDrop
    <3> QED BY <1>13, <3>1 DEF BeginDrop, Write, At, calls, Points, Dropping
  <2> QED BY <1>1, <2>1
<1>14. ASSUME NEW e \in Ends, WakePeers(e) PROVE WakeInv'
  <2>1. /\ UNCHANGED <<head, tail, park, closed, buf, rd, dog, name>>
        /\ sem' \in [Ends -> Nat] /\ \A r \in Ends : sem'[r] # 0
        /\ pc[e] = "wake" /\ Goto(e, "join") /\ "join" \in Points
    BY <1>14 DEF WakePeers, At, shared, Points, Dropping
  <2> QED BY <1>1, <2>1
<1>15. ASSUME NEW e \in Ends, Unmap(e) PROVE WakeInv'
  <2>1. /\ UNCHANGED <<head, tail, park, closed, buf, rd, sem, dog>>
        /\ pc[e] = "join" /\ Goto(e, "gone") /\ "gone" \in Points
    BY <1>15 DEF Unmap, At, shared, Points
  <2> QED BY <1>1, <2>1
<1>16. ASSUME NEW e \in Ends, Watch(e) PROVE WakeInv'
  <2>1. CASE DogSeesClosed(e)
    <3>1. /\ UNCHANGED <<head, tail, park, closed, buf, rd, sem, name, pc>>
          /\ closed = 1 /\ dog[e] = "watch" /\ dog' = [dog EXCEPT ![e] = "post"]
      BY <2>1 DEF DogSeesClosed, shared, local
    <3> QED BY <3>1
  <2>2. CASE Orphaned
    <3>1. /\ UNCHANGED <<head, tail, park, buf, rd, sem, name, pc>>
          /\ closed = 0 /\ closed' = 1 /\ pc["host"] = "killed"
          /\ dog["plugin"] = "watch" /\ dog' = [dog EXCEPT !["plugin"] = "post"]
      BY <2>2 DEF Orphaned, At, local
    <3> QED BY <3>1
  <2>3. CASE DogPosts(e)
    <3>1. /\ UNCHANGED <<head, tail, park, closed, buf, rd, pc>>
          /\ dog[e] = "post" /\ dog' = [dog EXCEPT ![e] = "done"]
          /\ \/ name = "ours" /\ name' = name /\ sem' = [r \in Ends |-> sem[r] + 1]
             \/ name # "ours" /\ UNCHANGED sem
      BY <2>3 DEF DogPosts, shared, local
    <3>2. CASE name = "ours"
      <4>1. sem' \in [Ends -> Nat] /\ \A r \in Ends : sem'[r] # 0
        BY <3>1, <3>2
      <4> QED BY <3>1, <4>1
    <3>3. CASE name # "ours"
      BY <3>1, <3>3
    <3> QED BY <3>2, <3>3
  <2> QED BY <1>16, <2>1, <2>2, <2>3 DEF Watch
<1>17. ASSUME NEW e \in Ends, Kill(e) PROVE WakeInv'
  <2>1. /\ UNCHANGED <<head, tail, park, closed, buf, rd, sem, name>>
        /\ pc[e] \notin {"gone", "killed"} /\ Goto(e, "killed") /\ "killed" \in Points
        /\ dog' = [dog EXCEPT ![e] = "killed"]
    BY <1>17 DEF Kill, shared, Points
  <2> QED BY <1>1, <2>1
<1>18. ASSUME NEW e \in Ends,
              \/ BeginSend(e) \/ BeginRecv(e) \/ NoRoom(e) \/ Full(e) \/ RecvNothing(e)
              \/ RecvEof(e) \/ RecvOpen(e) \/ Spin(e) \/ Interrupt(e)
       PROVE  WakeInv'
  <2>1. UNCHANGED <<head, tail, park, closed, buf, rd, sem, dog, name>>
    BY <1>18 DEF BeginSend, BeginRecv, NoRoom, Full, RecvNothing, RecvEof, RecvOpen, Spin,
                 Interrupt, shared, calls
  <2>2. pc[e] \notin {"peek", "post", "killed"}
    BY <1>18 DEF BeginSend, BeginRecv, NoRoom, Full, RecvNothing, RecvEof, RecvOpen, Spin,
                 Interrupt, At
  <2>3. \E point \in {"room", "full", "poll", "eof", "idle", "spin", "arm", "woken"} : Goto(e, point)
    BY <1>18 DEF BeginSend, BeginRecv, NoRoom, Full, RecvNothing, RecvEof, RecvOpen, Spin,
                 Interrupt
  <2>4. {"room", "full", "poll", "eof", "idle", "spin", "arm", "woken"} \subseteq
            Points \ {"rehead", "reclosed", "wait", "wake", "join", "gone"}
    BY DEF Points, Sending, Receiving
  <2> QED BY <1>2, <2>1, <2>2, <2>3, <2>4
<1>19. ASSUME NEW e \in Ends, TryRecv(e) \/ RecvFrame(e) PROVE WakeInv'
  <2>1. /\ TakeFrame(e) /\ pc[e] \in {"idle", "poll"}
        /\ UNCHANGED pc \/ Goto(e, "idle")
    BY <1>19 DEF TryRecv, RecvFrame, At
  <2> QED BY <1>4, <2>1
<1>20. ASSUME NEW e \in Ends PROVE ~Flush(e)
  BY DEF Flush
<1>21. CASE UNCHANGED vars
  <2>1. UNCHANGED <<head, park, closed, buf, rd, sem, dog, name, pc>>
    BY <1>21 DEF vars, shared, local, calls
  <2> QED BY <2>1
<1>22. ASSUME NEW e \in Ends, Begin(e) \/ Proceed(e) PROVE WakeInv'
  <2>1. \/ BeginSend(e) \/ BeginRecv(e) \/ NoRoom(e) \/ Full(e) \/ RecvNothing(e)
        \/ RecvEof(e) \/ RecvOpen(e) \/ Spin(e) \/ Interrupt(e)
        \/ TryRecv(e) \/ RecvFrame(e) \/ Publish(e) \/ Peek(e) \/ Post(e)
        \/ Arm(e) \/ RecheckHead(e) \/ RecheckClosed(e) \/ Disarm(e) \/ Unpark(e)
        \/ SemWait(e) \/ DrainTokens(e) \/ BeginDrop(e) \/ WakePeers(e) \/ Unmap(e)
    BY <1>22 DEF Begin, Proceed
  <2> HIDE DEF WakeInv
  <2> QED BY <2>1, <1>3, <1>6, <1>7, <1>8, <1>9, <1>10, <1>11, <1>12, <1>13, <1>14, <1>15,
             <1>18, <1>19
<1>23. Over => UNCHANGED vars
  BY DEF Over
<1> HIDE DEF WakeInv
<1> QED BY <1>16, <1>17, <1>18, <1>20, <1>21, <1>22, <1>23 DEF Next

LEMMA WakeInit == StoreBuffer = 0 /\ Init => WakeInv
<1> SUFFICES ASSUME Init PROVE WakeInv
  OBVIOUS
<1>1. WakeTyped
  BY DEF Init, WakeTyped, Points
<1>2. OpenChannel /\ \A e \in Ends : Armed(e) /\ HeadWatched(e) /\ CloseWatched(e)
  BY DEF Init, OpenChannel, Armed, HeadWatched, CloseWatched
<1> QED BY <1>1, <1>2 DEF WakeInv

(* When stores become visible at once, a reader that waits without a token *)
(* has nothing to read or a sender about to post, and is woken by a close: *)
(* the protocol of recv and send is right in sequentially consistent       *)
(* memory, for any ring, any messages and any process that is killed.      *)
THEOREM NoWakeupLost ==
    ASSUME StoreBuffer = 0
    PROVE  Spec => []WakeOwed
<1>1. WakeInv => WakeOwed
  <2> SUFFICES ASSUME WakeInv, NEW e \in Ends, pc[e] = "wait", sem[Other(e)] = 0
               PROVE  /\ Unread(Other(e)) >= 1 =>
                            \/ At(Other(e), "post") \/ At(Other(e), "killed")
                            \/ At(Other(e), "peek") /\ park[Other(e)] = 1
                      /\ closed = 1 => dog[e] \in {"watch", "post"} /\ name = "ours"
    BY DEF WakeOwed, At
  <2> QED BY DEF WakeInv, Armed, HeadWatched, CloseWatched, At
<1>2. Init => ChannelInv /\ WakeInv
  BY InitInv, WakeInit
<1>3. ChannelInv /\ WakeInv /\ [Next]_vars => ChannelInv' /\ WakeInv'
  BY StepInv, WakeStep DEF Progress
<1> QED BY <1>1, <1>2, <1>3, PTL DEF Spec
=============================================================================
