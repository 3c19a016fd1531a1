------------------------- MODULE UndoHistory_proofs -------------------------
(***************************************************************************)
(* Theorems about the two clients of the history.  About UndoHistory, for  *)
(* any documents and any depth: its types, its bound, and that an          *)
(* application that never redoes sees the timeline of its documentation.   *)
(* About EditMode, for any texts, carets and depth: its undo stays within  *)
(* the file that is open.                                                  *)
(***************************************************************************)
EXTENDS HistoryClients, SequenceTheorems, TLAPS

-----------------------------------------------------------------------------
(* Facts about sequences used as stacks. *)

(* What a push leaves, and that popping takes back what was pushed. *)
LEMMA PushStack ==
    ASSUME NEW S, NEW s \in Seq(S), NEW e \in S
    PROVE  /\ Append(s, e) \in Seq(S) /\ Append(s, e) # <<>>
           /\ Len(Append(s, e)) = Len(s) + 1
           /\ Last(Append(s, e)) = e /\ Front(Append(s, e)) = s
<1> DEFINE t == Append(s, e)
<1>1. /\ Len(s) \in Nat /\ t \in Seq(S) /\ Len(t) = Len(s) + 1
      /\ \A i \in 1..Len(s) : t[i] = s[i] /\ t[i] \in S
      /\ t[Len(s) + 1] = e
  BY AppendProperties, LenProperties, ElementOfSeq
<1> HIDE DEF t
<1>2. /\ Front(t) \in Seq(S) /\ Len(Front(t)) = Len(s)
      /\ \A i \in 1..Len(s) : Front(t)[i] = s[i]
  <2>1. Front(t) = SubSeq(t, 1, Len(s))
    BY <1>1 DEF Front
  <2>2. /\ SubSeq(t, 1, Len(s)) \in Seq(S)
        /\ Len(SubSeq(t, 1, Len(s))) = IF 1 <= Len(s) THEN Len(s) - 1 + 1 ELSE 0
        /\ \A i \in 1..(Len(s) - 1 + 1) : SubSeq(t, 1, Len(s))[i] = t[1 + i - 1]
    BY <1>1, SubSeqProperties
  <2>3. \A n \in Nat : /\ n - 1 + 1 = n /\ (~(1 <= n) => n = 0)
                       /\ \A i \in 1..n : 1 + i - 1 = i
    OBVIOUS
  <2> QED BY <1>1, <2>1, <2>2, <2>3
<1>3. Front(t) = s
  BY <1>2, SeqEqual
<1>4. t # <<>> /\ Last(t) = e
  BY <1>1, EmptySeq DEF Last
<1> QED BY <1>1, <1>3, <1>4 DEF t

(* What a pop leaves. *)
LEMMA PopStack ==
    ASSUME NEW S, NEW s \in Seq(S), s # <<>>
    PROVE  /\ Last(s) \in S /\ Front(s) \in Seq(S)
           /\ Len(s) \in Nat \ {0} /\ Len(Front(s)) = Len(s) - 1
           /\ \A i \in 1..(Len(s) - 1) : Front(s)[i] = s[i]
<1>1. /\ Len(s) \in Nat \ {0}
      /\ \A i \in 1..Len(s) : s[i] \in S
  BY EmptySeq, ElementOfSeq
<1>2. /\ SubSeq(s, 1, Len(s) - 1) \in Seq(S)
      /\ Len(SubSeq(s, 1, Len(s) - 1)) =
            IF 1 <= Len(s) - 1 THEN Len(s) - 1 - 1 + 1 ELSE 0
      /\ \A i \in 1..(Len(s) - 1 - 1 + 1) :
            SubSeq(s, 1, Len(s) - 1)[i] = s[1 + i - 1]
  <2>1. 1 \in Int /\ Len(s) - 1 \in Int /\ \A i \in 1..(Len(s) - 1) : s[i] \in S
    BY <1>1
  <2> QED BY <2>1, SubSeqProperties
<1>3. \A n \in Nat \ {0} : /\ n - 1 - 1 + 1 = n - 1 /\ (~(1 <= n - 1) => n - 1 = 0)
                           /\ n \in 1..n
                           /\ \A i \in 1..(n - 1) : 1 + i - 1 = i
  OBVIOUS
<1> QED BY <1>1, <1>2, <1>3 DEF Front, Last

(* A stack is its top pushed on the rest. *)
LEMMA PushPopped ==
    ASSUME NEW S, NEW s \in Seq(S), s # <<>>
    PROVE  Append(Front(s), Last(s)) = s
<1> DEFINE t == Append(Front(s), Last(s))
<1>1. /\ Len(s) \in Nat \ {0} /\ Len(Front(s)) = Len(s) - 1
      /\ Last(s) \in S /\ Front(s) \in Seq(S)
      /\ \A i \in 1..(Len(s) - 1) : Front(s)[i] = s[i]
  BY PopStack
<1>2. /\ t \in Seq(S) /\ Len(t) = Len(s)
      /\ \A i \in 1..(Len(s) - 1) : t[i] = s[i]
      /\ t[Len(s)] = s[Len(s)]
  BY <1>1, AppendProperties DEF Last
<1> HIDE DEF t
<1>3. \A i \in 1..Len(s) : t[i] = s[i]
  <2>1. \A i \in 1..Len(s) : i \in 1..(Len(s) - 1) \/ i = Len(s)
    BY <1>1
  <2> QED BY <1>2, <2>1
<1> QED BY <1>2, <1>3, SeqEqual DEF t

(* Dropping the oldest of a stack commutes with a push. *)
LEMMA TailPushed ==
    ASSUME NEW S, NEW s \in Seq(S), NEW e \in S, s # <<>>
    PROVE  Tail(Append(s, e)) = Append(Tail(s), e)
<1> DEFINE t == Append(s, e)
           l == Tail(t)
           r == Append(Tail(s), e)
<1>1. /\ Len(s) \in Nat \ {0} /\ t \in Seq(S) /\ Len(t) = Len(s) + 1
      /\ \A i \in 1..Len(s) : t[i] = s[i]
      /\ t[Len(s) + 1] = e /\ t # <<>>
  BY AppendProperties, EmptySeq, PushStack
<1> HIDE DEF t
<1>2. /\ l \in Seq(S) /\ Len(l) = Len(s)
      /\ \A i \in 1..Len(s) : l[i] = t[i + 1]
  <2>1. /\ l \in Seq(S) /\ Len(l) = Len(t) - 1
        /\ \A i \in 1..Len(l) : l[i] = t[i + 1]
    BY <1>1, HeadTailProperties
  <2>2. Len(l) = Len(s)
    BY <1>1, <2>1
  <2> QED BY <2>1, <2>2
<1>3. /\ Tail(s) \in Seq(S) /\ Len(Tail(s)) = Len(s) - 1
      /\ \A i \in 1..(Len(s) - 1) : Tail(s)[i] = s[i + 1]
  BY HeadTailProperties
<1>4. /\ r \in Seq(S) /\ Len(r) = Len(s) - 1 + 1
      /\ \A i \in 1..(Len(s) - 1) : r[i] = s[i + 1]
      /\ r[Len(s) - 1 + 1] = e
  BY <1>3, AppendProperties
<1> HIDE DEF l, r
<1>5. \A n \in Nat \ {0} : /\ n - 1 + 1 = n
                           /\ \A i \in 1..n : i = n \/ (i \in 1..(n - 1) /\ i + 1 \in 1..n)
  OBVIOUS
<1>6. Len(l) = Len(r) /\ \A i \in 1..Len(l) : l[i] = r[i]
  BY <1>1, <1>2, <1>4, <1>5
<1>7. l = r
  BY <1>2, <1>4, <1>6, SeqEqual
<1> QED BY <1>7 DEF l, r, t

-----------------------------------------------------------------------------
(* The operations of History. *)

(* The bound cuts a grown stack back to at most Cap. *)
LEMMA TrimStack ==
    ASSUME NEW S, NEW s \in Seq(S), s # <<>>
    PROVE  /\ Trim(s) \in Seq(S) /\ Trim(s) # <<>>
           /\ Len(Trim(s)) <= Len(s)
           /\ Cap # 0 /\ Len(s) <= Cap + 1 => Len(Trim(s)) <= Cap
<1>1. Len(s) \in Nat \ {0} /\ Cap \in Nat
  BY EmptySeq, CapAssumption
<1>2. CASE Cap # 0 /\ Len(s) > Cap
  <2>1. Tail(s) \in Seq(S) /\ Len(Tail(s)) = Len(s) - 1
    BY HeadTailProperties
  <2>2. Len(s) - 1 > 0 /\ Len(s) - 1 <= Len(s) /\ (Len(s) <= Cap + 1 => Len(s) - 1 <= Cap)
    BY <1>1, <1>2
  <2>3. Tail(s) # <<>>
    <3>1. Len(Tail(s)) # 0
      BY <1>1, <2>1, <2>2
    <3> QED BY <3>1, Len(<<>>) = 0
  <2>4. Trim(s) = Tail(s)
    BY <1>2 DEF Trim
  <2> QED BY <2>1, <2>2, <2>3, <2>4
<1>3. CASE ~(Cap # 0 /\ Len(s) > Cap)
  <2>1. Trim(s) = s
    BY <1>3 DEF Trim
  <2> QED BY <1>1, <1>3, <2>1
<1> QED BY <1>2, <1>3

(* An edit keeps a history a history. *)
LEMMA RecordType ==
    ASSUME NEW S, NEW h \in Histories(S), h.undo # <<>>,
           NEW d \in S, NEW c \in BOOLEAN
    PROVE  Record(h, d, c) \in Histories(S) /\ Record(h, d, c).undo # <<>>
<1>1. /\ h.undo \in Seq(S) /\ h.redo \in Seq(S) /\ h.coalescing \in BOOLEAN
      /\ <<>> \in Seq(S)
  BY EmptySeq DEF Histories
<1>2. CASE Last(h.undo) = d
  BY <1>2 DEF Record
<1>3. CASE Last(h.undo) # d /\ c /\ h.coalescing
  <2> DEFINE s == Append(Front(h.undo), d)
  <2>1. s \in Seq(S) /\ s # <<>>
    <3>1. Front(h.undo) \in Seq(S)
      BY <1>1, PopStack
    <3> QED BY <3>1, PushStack
  <2>2. Record(h, d, c) = [h EXCEPT !.undo = s, !.redo = <<>>]
    BY <1>3 DEF Record
  <2> HIDE DEF s
  <2>3. Record(h, d, c) = [undo |-> s, redo |-> <<>>, coalescing |-> h.coalescing]
    BY <2>2 DEF Histories
  <2> QED BY <1>1, <2>1, <2>3 DEF Histories
<1>4. CASE Last(h.undo) # d /\ ~(c /\ h.coalescing)
  <2> DEFINE s == Trim(Append(h.undo, d))
  <2>1. s \in Seq(S) /\ s # <<>>
    <3>1. Append(h.undo, d) \in Seq(S) /\ Append(h.undo, d) # <<>>
      BY <1>1, PushStack
    <3> QED BY <3>1, TrimStack
  <2>2. Record(h, d, c) = [undo |-> s, redo |-> <<>>, coalescing |-> c]
    BY <1>4 DEF Record
  <2> QED BY <1>1, <2>1, <2>2 DEF Histories
<1> QED BY <1>2, <1>3, <1>4

(* So does an undo that has somewhere to go; it restores a document. *)
LEMMA UndoType ==
    ASSUME NEW S, NEW h \in Histories(S), h.undo # <<>>, CanUndo(h), NEW d \in S
    PROVE  /\ AfterUndo(h, d) \in Histories(S) /\ AfterUndo(h, d).undo # <<>>
           /\ Undone(h) \in S
<1>1. /\ h.undo \in Seq(S) /\ h.redo \in Seq(S)
  BY DEF Histories
<1>2. Front(h.undo) \in Seq(S) /\ Front(h.undo) # <<>>
  <2>1. /\ Front(h.undo) \in Seq(S) /\ Len(h.undo) \in Nat
        /\ Len(Front(h.undo)) = Len(h.undo) - 1
    BY <1>1, PopStack
  <2>2. \A n \in Nat : n >= 2 => n - 1 # 0
    OBVIOUS
  <2>3. Len(Front(h.undo)) # 0
    BY <2>1, <2>2 DEF CanUndo
  <2> QED BY <2>1, <2>3, Len(<<>>) = 0
<1>3. Append(h.redo, d) \in Seq(S)
  BY <1>1, PushStack
<1>4. Undone(h) \in S
  BY <1>2, PopStack DEF Undone
<1> QED BY <1>2, <1>3, <1>4 DEF AfterUndo, Histories

(* And a redo. *)
LEMMA RedoType ==
    ASSUME NEW S, NEW h \in Histories(S), CanRedo(h), NEW d \in S
    PROVE  /\ AfterRedo(h, d) \in Histories(S) /\ AfterRedo(h, d).undo # <<>>
           /\ Redone(h) \in S
<1>1. h.undo \in Seq(S) /\ h.redo \in Seq(S) /\ h.redo # <<>>
  BY DEF Histories, CanRedo
<1>2. Trim(Append(h.undo, d)) \in Seq(S) /\ Trim(Append(h.undo, d)) # <<>>
  BY <1>1, PushStack, TrimStack
<1>3. Front(h.redo) \in Seq(S) /\ Redone(h) \in S
  BY <1>1, PopStack DEF Redone
<1> QED BY <1>2, <1>3 DEF AfterRedo, Histories

(* A history of some values is a history of more values. *)
LEMMA HistoriesGrow ==
    ASSUME NEW S, NEW T, S \subseteq T, NEW h \in Histories(S)
    PROVE  h \in Histories(T)
<1>1. \A s \in Seq(S) : s \in Seq(T)
  BY ElementOfSeq, SeqDef
<1> QED BY <1>1 DEF Histories

(* A new history holds the document it is created with. *)
LEMMA FreshType ==
    ASSUME NEW S, NEW d \in S
    PROVE  Fresh(d) \in Histories(S) /\ Fresh(d).undo # <<>>
<1>1. <<>> \in Seq(S) /\ <<d>> = Append(<<>>, d)
  BY EmptySeq
<1>2. <<d>> \in Seq(S) /\ <<d>> # <<>>
  BY <1>1, PushStack
<1> QED BY <1>1, <1>2 DEF Fresh, Histories

-----------------------------------------------------------------------------
(* Types. *)

LEMMA InitType == Init => TypeOK
BY FreshType DEF Init, TypeOK

LEMMA StepType == TypeOK /\ [Next]_vars => TypeOK'
<1> SUFFICES ASSUME TypeOK, [Next]_vars PROVE TypeOK'
  OBVIOUS
<1> USE DEF TypeOK
<1>1. CASE Edit
  <2>1. PICK d \in Docs, c \in BOOLEAN : doc' = d /\ hist' = Record(hist, d, c)
    BY <1>1 DEF Edit
  <2>2. hist' \in Histories(Docs) /\ hist'.undo # <<>>
    BY <2>1, RecordType
  <2>3. redoes' \in BOOLEAN
    BY <1>1 DEF Edit
  <2> QED BY <2>1, <2>2, <2>3
<1>2. CASE Undo
  BY <1>2, UndoType DEF Undo
<1>3. CASE Redo
  BY <1>3, RedoType DEF Redo
<1>4. CASE UNCHANGED vars
  BY <1>4 DEF vars
<1> QED BY <1>1, <1>2, <1>3, <1>4 DEF Next

(* The document and both stacks keep their types, and the undo stack is    *)
(* never empty: the "unreachable in practice" branch of                    *)
(* snapshot_coalesced is not reached.                                      *)
THEOREM TypeCorrect == Spec => []TypeOK
BY InitType, StepType, PTL DEF Spec

-----------------------------------------------------------------------------
(* The bound. *)

LEMMA StepBound == TypeOK /\ DepthBounded /\ [Next]_vars => DepthBounded'
<1> SUFFICES ASSUME TypeOK, DepthBounded, [Next]_vars, Cap # 0
             PROVE  Len(hist'.undo) + Len(hist'.redo) <= Cap
  BY DEF DepthBounded
<1>1. /\ hist \in Histories(Docs) /\ doc \in Docs
      /\ hist.undo \in Seq(Docs) /\ hist.undo # <<>> /\ hist.redo \in Seq(Docs)
      /\ Len(hist.undo) \in Nat \ {0} /\ Len(hist.redo) \in Nat /\ Cap \in Nat
      /\ Len(hist.undo) + Len(hist.redo) <= Cap
  BY CapAssumption, LenProperties, EmptySeq DEF TypeOK, Histories, DepthBounded
<1>0. \A u \in Nat \ {0}, r, k \in Nat :
         u + r <= k => /\ u - 1 + 1 + 0 <= k /\ u + 1 <= k + 1
                       /\ u - 1 + (r + 1) <= k
  OBVIOUS
<1>2. CASE Edit
  <2>1. PICK d \in Docs, c \in BOOLEAN : hist' = Record(hist, d, c)
    BY <1>2 DEF Edit
  <2>2. CASE Last(hist.undo) = d
    BY <1>1, <2>1, <2>2 DEF Record
  <2>3. CASE Last(hist.undo) # d /\ c /\ hist.coalescing
    <3>1. /\ hist'.undo = Append(Front(hist.undo), d) /\ hist'.redo = <<>>
      BY <1>1, <2>1, <2>3 DEF Record, Histories
    <3>2. Front(hist.undo) \in Seq(Docs) /\ Len(Front(hist.undo)) = Len(hist.undo) - 1
      BY <1>1, PopStack
    <3>3. Len(hist'.undo) = Len(hist.undo) - 1 + 1
      BY <3>1, <3>2, PushStack
    <3>4. Len(hist'.redo) = 0
      BY <3>1
    <3> QED BY <1>0, <1>1, <3>3, <3>4
  <2>4. CASE Last(hist.undo) # d /\ ~(c /\ hist.coalescing)
    <3>1. /\ hist'.undo = Trim(Append(hist.undo, d)) /\ hist'.redo = <<>>
      BY <2>1, <2>4 DEF Record
    <3>2. /\ Append(hist.undo, d) \in Seq(Docs) /\ Append(hist.undo, d) # <<>>
          /\ Len(Append(hist.undo, d)) <= Cap + 1
      <4>1. /\ Append(hist.undo, d) \in Seq(Docs) /\ Append(hist.undo, d) # <<>>
            /\ Len(Append(hist.undo, d)) = Len(hist.undo) + 1
        BY <1>1, PushStack
      <4> QED BY <1>0, <1>1, <4>1
    <3>3. Len(hist'.undo) <= Cap /\ Len(hist'.redo) = 0 /\ hist'.undo \in Seq(Docs)
      BY <3>1, <3>2, TrimStack, EmptySeq
    <3>4. Len(hist'.undo) \in Nat
      BY <3>3, LenProperties
    <3> QED BY <1>1, <3>3, <3>4
  <2> QED BY <2>2, <2>3, <2>4
<1>3. CASE Undo
  <2>1. hist'.undo = Front(hist.undo) /\ hist'.redo = Append(hist.redo, doc)
    BY <1>3 DEF Undo, AfterUndo
  <2>2. Len(hist'.undo) = Len(hist.undo) - 1
    BY <1>1, <2>1, PopStack
  <2>3. Len(hist'.redo) = Len(hist.redo) + 1
    BY <1>1, <2>1, PushStack
  <2> QED BY <1>0, <1>1, <2>2, <2>3
<1>4. CASE Redo
  <2> DEFINE s == Append(hist.undo, doc)
  <2>1. hist'.undo = Trim(s) /\ hist'.redo = Front(hist.redo) /\ hist.redo # <<>>
    BY <1>4 DEF Redo, CanRedo, AfterRedo
  <2>2. s \in Seq(Docs) /\ s # <<>> /\ Len(s) = Len(hist.undo) + 1
    BY <1>1, PushStack
  <2>3. Len(hist'.redo) = Len(hist.redo) - 1
    BY <1>1, <2>1, PopStack
  <2> HIDE DEF s
  <2>4. Len(hist'.undo) <= Len(s) /\ Len(hist'.undo) \in Nat
    BY <2>1, <2>2, TrimStack, LenProperties
  <2>5. Len(hist'.undo) <= Len(hist.undo) + 1
    BY <2>2, <2>4
  <2>6. \A u, t, r, k \in Nat : u + r <= k /\ t <= u + 1 => t + (r - 1) <= k
    OBVIOUS
  <2>7. Len(hist'.undo) + (Len(hist.redo) - 1) <= Cap
    BY <1>1, <2>4, <2>5, <2>6
  <2> QED BY <2>3, <2>7
<1>5. CASE UNCHANGED vars
  BY <1>1, <1>5 DEF vars
<1> QED BY <1>2, <1>3, <1>4, <1>5 DEF Next

(* The documents held, those that can be redone included, never exceed     *)
(* the capacity the history was created with.                              *)
THEOREM DepthIsBounded == Spec => []DepthBounded
<1>1. Init => DepthBounded
  BY CapAssumption DEF Init, Fresh, DepthBounded
<1> QED BY <1>1, StepBound, TypeCorrect, PTL DEF Spec

-----------------------------------------------------------------------------
(* The timeline. *)

(* Without redo the top of the undo stack is the document. *)
TopIsDoc == ~redoes => Last(hist.undo) = doc

LEMMA StepTop == TypeOK /\ TopIsDoc /\ [Next]_vars => TopIsDoc'
<1> SUFFICES ASSUME TypeOK, TopIsDoc, [Next]_vars, ~redoes'
             PROVE  Last(hist'.undo) = doc'
  BY DEF TopIsDoc
<1>1. /\ hist \in Histories(Docs) /\ doc \in Docs
      /\ hist.undo \in Seq(Docs) /\ hist.undo # <<>>
      /\ ~redoes /\ Last(hist.undo) = doc
  BY DEF TypeOK, Histories, TopIsDoc, Next, Edit, Undo, Redo, vars
<1>2. CASE Edit
  <2>1. PICK d \in Docs, c \in BOOLEAN : doc' = d /\ hist' = Record(hist, d, c)
    BY <1>2 DEF Edit
  <2>2. CASE Last(hist.undo) = d
    BY <2>1, <2>2 DEF Record
  <2>3. CASE Last(hist.undo) # d /\ c /\ hist.coalescing
    <3>1. hist'.undo = Append(Front(hist.undo), d)
      BY <1>1, <2>1, <2>3 DEF Record, Histories
    <3>2. Front(hist.undo) \in Seq(Docs)
      BY <1>1, PopStack
    <3> QED BY <2>1, <3>1, <3>2, PushStack
  <2>4. CASE Last(hist.undo) # d /\ ~(c /\ hist.coalescing)
    <3>1. hist'.undo = Trim(Append(hist.undo, d))
      BY <2>1, <2>4 DEF Record
    <3>2. Last(Append(hist.undo, d)) = d /\ Tail(Append(hist.undo, d)) = Append(Tail(hist.undo), d)
      BY <1>1, PushStack, TailPushed
    <3>3. Last(Append(Tail(hist.undo), d)) = d
      <4>1. Tail(hist.undo) \in Seq(Docs)
        BY <1>1, HeadTailProperties
      <4> QED BY <4>1, PushStack
    <3> QED BY <2>1, <3>1, <3>2, <3>3 DEF Trim
  <2> QED BY <2>2, <2>3, <2>4
<1>3. CASE Undo
  BY <1>3 DEF Undo, Undone, AfterUndo
<1>4. CASE Redo
  BY <1>1, <1>4 DEF Redo
<1>5. CASE UNCHANGED vars
  BY <1>1, <1>5 DEF vars
<1> QED BY <1>2, <1>3, <1>4, <1>5 DEF Next

LEMMA InitLine == Init => Line!Init
<1> SUFFICES ASSUME Init PROVE Line!Init
  OBVIOUS
<1>1. doc \in Docs /\ hist = Fresh(doc)
  BY DEF Init
<1>2. Front(<<doc>>) = <<>>
  <2>1. <<>> \in Seq(Docs) /\ <<doc>> = Append(<<>>, doc)
    BY EmptySeq
  <2> QED BY <1>1, <2>1, PushStack
<1> QED BY <1>1, <1>2 DEF Line!Init, Fresh

LEMMA StepLine == TypeOK /\ TopIsDoc /\ [Next]_vars => [redoes \/ Line!Next]_(Line!vars)
<1> SUFFICES ASSUME TypeOK, TopIsDoc, [Next]_vars, ~redoes
             PROVE  [Line!Next]_(Line!vars)
  OBVIOUS
<1> DEFINE u == hist.undo
<1>1. /\ hist \in Histories(Docs) /\ doc \in Docs
      /\ u \in Seq(Docs) /\ u # <<>>
      /\ Len(u) \in Nat \ {0} /\ Cap \in Nat /\ Last(u) = doc
  BY CapAssumption, EmptySeq DEF TypeOK, Histories, TopIsDoc
<1>2. Append(Front(u), doc) = u
  BY <1>1, PushPopped
<1>3. CASE Edit
  <2>1. PICK d \in Docs, c \in BOOLEAN : doc' = d /\ hist' = Record(hist, d, c)
    BY <1>3 DEF Edit
  <2>2. CASE d = doc
    <3>1. doc' = doc /\ hist' = hist
      BY <1>1, <2>1, <2>2 DEF Record
    <3> QED BY <3>1 DEF Line!vars
  <2>3. CASE d # doc /\ c /\ hist.coalescing
    <3>1. hist' = [hist EXCEPT !.undo = Append(Front(u), d), !.redo = <<>>]
      BY <1>1, <2>1, <2>3 DEF Record
    <3>2. /\ hist'.undo = Append(Front(u), d) /\ hist'.redo = <<>>
          /\ hist'.coalescing = hist.coalescing
      BY <1>1, <3>1 DEF Histories
    <3>3. Front(hist'.undo) = Front(u)
      <4>1. Front(u) \in Seq(Docs)
        BY <1>1, PopStack
      <4> QED BY <3>2, <4>1, PushStack
    <3>4. hist'.coalescing = c
      BY <1>1, <2>3, <3>2 DEF Histories
    <3>5. Line!Edit
      BY <2>1, <2>3, <3>2, <3>3, <3>4 DEF Line!Edit
    <3> QED BY <3>5 DEF Line!Next
  <2>4. CASE d # doc /\ ~(c /\ hist.coalescing)
    <3>1. /\ hist'.undo = Trim(Append(u, d)) /\ hist'.redo = <<>>
          /\ hist'.coalescing = c
      BY <1>1, <2>1, <2>4 DEF Record
    <3>2. Front(Trim(Append(u, d))) = Line!Kept(u)
      <4>1. Front(Append(u, d)) = u /\ Len(Append(u, d)) = Len(u) + 1
        BY <1>1, PushStack
      <4>2. Front(Tail(Append(u, d))) = Tail(u)
        <5>1. Tail(u) \in Seq(Docs) /\ Tail(Append(u, d)) = Append(Tail(u), d)
          BY <1>1, HeadTailProperties, TailPushed
        <5> QED BY <5>1, PushStack
      <4>3. Len(u) + 1 > Cap <=> Len(u) >= Cap
        BY <1>1
      <4> QED BY <4>1, <4>2, <4>3 DEF Trim, Line!Kept
    <3>3. Front(hist'.undo) = Line!Kept(Append(Front(u), doc))
      BY <1>2, <3>1, <3>2
    <3>4. Line!Edit
      BY <2>1, <2>4, <3>1, <3>3 DEF Line!Edit
    <3> QED BY <3>4 DEF Line!Next
  <2> QED BY <2>2, <2>3, <2>4
<1>4. CASE Undo
  <2>1. /\ Len(u) >= 2 /\ doc' = Last(Front(u))
        /\ hist' = AfterUndo(hist, doc)
    BY <1>4 DEF Undo, CanUndo, Undone
  <2>2. Front(u) # <<>>
    <3>1. Len(Front(u)) = Len(u) - 1
      BY <1>1, PopStack
    <3>2. \A n \in Nat : n >= 2 => n - 1 # 0
      OBVIOUS
    <3>3. Len(Front(u)) # 0
      BY <1>1, <2>1, <3>1, <3>2
    <3> QED BY <3>3, Len(<<>>) = 0
  <2>3. Line!Undo
    BY <2>1, <2>2 DEF Line!Undo, AfterUndo, Last, Front, Line!Last, Line!Front
  <2> QED BY <2>3 DEF Line!Next
<1>5. CASE Redo
  BY <1>5 DEF Redo
<1>6. CASE UNCHANGED vars
  BY <1>6 DEF vars, Line!vars
<1> QED BY <1>3, <1>4, <1>5, <1>6 DEF Next

(* An application that never redoes sees the linear timeline of the        *)
(* documentation, for any documents and any bound.                         *)
THEOREM TimelineImplemented == Spec => ImplementsTimeline
<1>1. Init => TopIsDoc
  BY DEF Init, Fresh, TopIsDoc, Last
<1>2. Spec => []TopIsDoc
  BY <1>1, StepTop, TypeCorrect, PTL DEF Spec
<1> QED BY <1>2, InitLine, StepLine, TypeCorrect, PTL
        DEF Spec, ImplementsTimeline

-----------------------------------------------------------------------------
(* The editor of the review, over the same history. *)

(* The editor's history is the history. *)
LEMMA SameHistory ==
    /\ \A d : E!Fresh(d) = Fresh(d)
    /\ \A h, d, c : E!Record(h, d, c) = Record(h, d, c)
    /\ \A h : E!Undone(h) = Undone(h) /\ E!Redone(h) = Redone(h)
    /\ \A h : E!CanUndo(h) = CanUndo(h) /\ E!CanRedo(h) = CanRedo(h)
    /\ \A h, d : /\ E!AfterUndo(h, d) = AfterUndo(h, d)
                 /\ E!AfterRedo(h, d) = AfterRedo(h, d)
<1> USE DEF E!Last, Last, E!Front, Front, E!Trim, Trim
<1>1. \A d : E!Fresh(d) = Fresh(d)
  BY DEF E!Fresh, Fresh
<1>2. \A h, d, c : E!Record(h, d, c) = Record(h, d, c)
  BY DEF E!Record, Record
<1>3. \A h : E!Undone(h) = Undone(h) /\ E!Redone(h) = Redone(h)
  BY DEF E!Undone, Undone, E!Redone, Redone
<1>4. \A h : E!CanUndo(h) = CanUndo(h) /\ E!CanRedo(h) = CanRedo(h)
  BY DEF E!CanUndo, CanUndo, E!CanRedo, CanRedo
<1>5. \A h, d : /\ E!AfterUndo(h, d) = AfterUndo(h, d)
               /\ E!AfterRedo(h, d) = AfterRedo(h, d)
  BY DEF E!AfterUndo, AfterUndo, E!AfterRedo, AfterRedo
<1> QED BY <1>1, <1>2, <1>3, <1>4, <1>5

(* The texts the open file has had, in whatever place of the caret. *)
FileBuffers == [text : opened..latest, caret : Carets]

(* The buffer is one of the open file, and so is all the history holds:    *)
(* opening a file throws the history of the one before away.               *)
FileInv ==
    /\ opened \in Nat /\ latest \in Nat /\ opened <= latest
    /\ editor \in FileBuffers
    /\ undo \in Histories(FileBuffers) /\ undo.undo # <<>>

LEMMA InitFile == E!Init => FileInv
<1> SUFFICES ASSUME E!Init PROVE FileInv
  OBVIOUS
<1>1. editor \in FileBuffers
  BY DEF E!Init, FileBuffers
<1> QED BY <1>1, FreshType, SameHistory DEF E!Init, FileInv

(* A new text of the open file: what it had before remains. *)
LEMMA NewTextFile ==
    ASSUME FileInv, E!NewText, opened' = opened
    PROVE  /\ opened' \in Nat /\ latest' \in Nat /\ opened' <= latest'
           /\ FileBuffers \subseteq FileBuffers' /\ editor' \in FileBuffers'
<1>1. /\ opened \in Nat /\ latest \in Nat /\ opened <= latest
      /\ latest' = latest + 1
      /\ editor' \in [text : {latest'}, caret : Carets]
  BY DEF FileInv, E!NewText
<1>2. opened..latest \subseteq opened'..latest' /\ latest' \in opened'..latest'
  BY <1>1
<1> QED BY <1>1, <1>2 DEF FileBuffers

(* Recording the buffer before an edit keeps the history in the file. *)
LEMMA RecordFile ==
    ASSUME FileInv, NEW c \in BOOLEAN, undo' = E!Record(undo, editor, c),
           FileBuffers \subseteq FileBuffers'
    PROVE  undo' \in Histories(FileBuffers') /\ undo'.undo # <<>>
<1>1. undo' \in Histories(FileBuffers) /\ undo'.undo # <<>>
  BY RecordType, SameHistory DEF FileInv
<1> QED BY <1>1, HistoriesGrow

LEMMA StepFile == FileInv /\ [E!Next]_(E!vars) => FileInv'
<1> SUFFICES ASSUME FileInv, [E!Next]_(E!vars) PROVE FileInv'
  OBVIOUS
<1>1. CASE E!Open
  <2>1. /\ opened' = latest + 1 /\ latest' = latest + 1 /\ latest \in Nat
        /\ editor' \in [text : {latest + 1}, caret : Carets]
        /\ undo' = E!Fresh(editor')
    BY <1>1 DEF E!Open, FileInv
  <2>2. opened' \in Nat /\ latest' \in Nat /\ opened' <= latest'
        /\ latest + 1 \in opened'..latest'
    BY <2>1
  <2>3. editor' \in FileBuffers'
    BY <2>1, <2>2 DEF FileBuffers
  <2>4. undo' \in Histories(FileBuffers') /\ undo'.undo # <<>>
    BY <2>1, <2>3, FreshType, SameHistory
  <2> QED BY <2>2, <2>3, <2>4 DEF FileInv
<1>2. ASSUME E!NewText, opened' = opened, NEW c \in BOOLEAN,
             undo' = E!Record(undo, editor, c)
      PROVE  FileInv'
  BY <1>2, NewTextFile, RecordFile DEF FileInv
<1>3. CASE E!Type
  BY <1>2, <1>3 DEF E!Type
<1>4. CASE E!Insert
  BY <1>2, <1>4 DEF E!Insert
<1>5. CASE E!Delete /\ E!NewText
  BY <1>2, <1>5 DEF E!Delete
<1>6. ASSUME UNCHANGED <<opened, latest>>
      PROVE  FileBuffers' = FileBuffers
  BY <1>6 DEF FileBuffers
<1>7. CASE E!Delete /\ UNCHANGED <<editor, latest>>
  <2>1. UNCHANGED <<editor, opened, latest>> /\ undo' = E!Record(undo, editor, FALSE)
    BY <1>7 DEF E!Delete
  <2>2. FileBuffers' = FileBuffers
    BY <1>6, <2>1
  <2>3. undo' \in Histories(FileBuffers') /\ undo'.undo # <<>>
    BY <2>1, <2>2, RecordFile
  <2> QED BY <2>1, <2>2, <2>3 DEF FileInv
<1>8. CASE E!MoveCaret
  <2>1. PICK c \in Carets : editor' = [editor EXCEPT !.caret = c]
    BY <1>8 DEF E!MoveCaret
  <2>2. UNCHANGED <<undo, opened, latest>> /\ FileBuffers' = FileBuffers
    BY <1>6, <1>8 DEF E!MoveCaret
  <2>3. editor' \in FileBuffers
    BY <2>1 DEF FileInv, FileBuffers
  <2> QED BY <2>2, <2>3 DEF FileInv
<1>9. CASE E!Undo
  <2>1. UNCHANGED <<opened, latest>> /\ FileBuffers' = FileBuffers
    BY <1>6, <1>9 DEF E!Undo
  <2>2. editor' \in FileBuffers /\ undo' \in Histories(FileBuffers) /\ undo'.undo # <<>>
    BY <1>9, UndoType, SameHistory DEF E!Undo, FileInv
  <2> QED BY <2>1, <2>2 DEF FileInv
<1>10. CASE E!Redo
  <2>1. UNCHANGED <<opened, latest>> /\ FileBuffers' = FileBuffers
    BY <1>6, <1>10 DEF E!Redo
  <2>2. editor' \in FileBuffers /\ undo' \in Histories(FileBuffers) /\ undo'.undo # <<>>
    BY <1>10, RedoType, SameHistory DEF E!Redo, FileInv
  <2> QED BY <2>1, <2>2 DEF FileInv
<1>11. CASE UNCHANGED E!vars
  BY <1>6, <1>11 DEF E!vars, FileInv
<1> QED BY <1>1, <1>3, <1>4, <1>5, <1>7, <1>8, <1>9, <1>10, <1>11
        DEF E!Next, E!Delete

(* Undo and redo never bring back a text of a file that was edited before  *)
(* the one that is open: a save after them cannot write one file's text    *)
(* into another.                                                           *)
THEOREM HistoryStaysInFile == E!Spec => UndoStaysInFile
<1>1. FileInv /\ [E!Next]_(E!vars) => [E!Undo \/ E!Redo => editor'.text >= opened]_(E!vars)
  <2> SUFFICES ASSUME FileInv, E!Undo \/ E!Redo PROVE editor'.text >= opened
    OBVIOUS
  <2>1. editor' \in FileBuffers
    BY UndoType, RedoType, SameHistory DEF FileInv, E!Undo, E!Redo
  <2> QED BY <2>1 DEF FileBuffers, FileInv
<1> QED BY <1>1, InitFile, StepFile, PTL DEF E!Spec, UndoStaysInFile, E!UndoStaysInFile
=============================================================================
