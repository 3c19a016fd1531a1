-------------------------- MODULE AcpClient_proofs --------------------------
(***************************************************************************)
(* Theorems about AcpClient, for any numbers of agents, requests and       *)
(* commands, and for a library of either kind: the connected agent is      *)
(* listened to, and of an application that leaves no agent while it runs:  *)
(* by one subscription, its requests are tracked and answered under the    *)
(* right agent, and the spinner is owed an end.                            *)
(***************************************************************************)
EXTENDS AcpClient, FiniteSetTheorems, SequenceTheorems, TLAPS

-----------------------------------------------------------------------------
(* Types, and what the drivers' steps have in common.                      *)

AloneInPrompt == \A r, s \in prompt : r = s

Typed ==
    /\ DriverTypeOK
    /\ driver \in 0 .. MaxConns
    /\ subs \in [Conns -> Nat]
    /\ mail \subseteq [from : Conns, event : Events]
    /\ prompt \subseteq Requests /\ AloneInPrompt
    /\ opened \in 0 .. MaxConns
    /\ {streaming, switched, dropped} \subseteq BOOLEAN

(* A request can only wait while its driver serves a session. *)
AsksInSession == \A c \in Conns : perms[c] # {} => stage[c] \in {"ready", "setting"}

IsPermission(e) == e.kind = "permission"
EndsTurn(e) == e \in {TurnEnded, Error, Disconnected}

(* Connections are made in the order of their numbers. *)
Unopened == \A c \in Conns : c > opened => stage[c] = "none"

(* What a step of a driver leaves of another. *)
Apart(c) == \A d \in Conns \ {c} :
    /\ stage'[d] = stage[d] /\ cmds'[d] = cmds[d] /\ events'[d] = events[d]
    /\ turns'[d] = turns[d] /\ perms'[d] = perms[d] /\ asked'[d] = asked[d]

(* Events are added at the end, and events'[c][i] is new. *)
Grows(c) == Len(events'[c]) >= Len(events[c])
            /\ \A i \in 1 .. Len(events[c]) : events'[c][i] = events[c][i]
IsNew(c, i) == i \in 1 .. Len(events'[c]) /\ i > Len(events[c])

(* Either no request is made, or one with the next id. *)
NoAsk(c) ==
    /\ asked'[c] = asked[c] /\ perms'[c] \subseteq perms[c]
    /\ \A i \in 1 .. Len(events'[c]) : IsNew(c, i) => ~ IsPermission(events'[c][i])
NewAsk(c) ==
    /\ asked'[c] = asked[c] + 1 /\ cmds'[c] = cmds[c]
    /\ held[c] => /\ Len(events'[c]) = Len(events[c]) + 1
                  /\ events'[c][Len(events[c]) + 1] = [kind |-> "permission", id |-> asked'[c]]
    /\ ~ held[c] => events'[c] = events[c]

(* The head of the command channel is taken: a prompt becomes a turn or is *)
(* dropped, an answer ends the wait for it.                                *)
Takes(c) ==
    /\ cmds[c] # <<>> /\ cmds'[c] = Tail(cmds[c])
    /\ Head(cmds[c]).kind = "answer" => perms'[c] = perms[c] \ {Head(cmds[c]).id}
    /\ Head(cmds[c]).kind = "prompt" => turns'[c] = turns[c] + 1 \/ dropped'
    /\ Head(cmds[c]).kind # "answer" => perms'[c] = perms[c]

(* A turn that ends is told of, if there is somebody to tell. *)
TurnTold(c) ==
    turns'[c] >= turns[c] \/ (held[c] => \E i \in 1 .. Len(events'[c]) : EndsTurn(events'[c][i]))

Move(c) ==
    /\ Apart(c) /\ Grows(c) /\ TurnTold(c)
    /\ NoAsk(c) \/ NewAsk(c)
    /\ cmds'[c] = cmds[c] \/ Takes(c)
    /\ stage[c] = "gone" => stage'[c] = "gone"
    /\ stage[c] = "none" => stage'[c] = "none"
    /\ perms'[c] # {} => stage'[c] \in {"ready", "setting"}
    /\ dropped => dropped'
    /\ UNCHANGED <<held, driver, subs, mail, prompt, streaming, opened, switched>>



LEMMA Emitted ==
    ASSUME Typed, NEW c \in Conns, NEW es \in Seq(Events), Emit(c, es)
    PROVE  /\ events' \in [Conns -> Seq(Events)]
           /\ \A d \in Conns \ {c} : events'[d] = events[d]
           /\ Grows(c)
           /\ ~ held[c] => events'[c] = events[c]
           /\ held[c] => /\ Len(events'[c]) = Len(events[c]) + Len(es)
                         /\ \A i \in 1 .. Len(es) : events'[c][Len(events[c]) + i] = es[i]
           /\ \A i \in 1 .. Len(events'[c]) : IsNew(c, i) =>
                  \E j \in 1 .. Len(es) : events'[c][i] = es[j]
<1> DEFINE t == events[c] \o es
<1>1. events \in [Conns -> Seq(Events)] /\ events[c] \in Seq(Events)
  BY DEF Typed, DriverTypeOK
<1>2. /\ t \in Seq(Events) /\ Len(t) = Len(events[c]) + Len(es)
      /\ \A i \in 1 .. Len(events[c]) : t[i] = events[c][i]
      /\ \A i \in 1 .. Len(es) : t[Len(events[c]) + i] = es[i]
      /\ \A i \in 1 .. Len(t) : i > Len(events[c]) => \E j \in 1 .. Len(es) : t[i] = es[j]
  <2>1. /\ t \in Seq(Events) /\ Len(t) = Len(events[c]) + Len(es)
        /\ \A i \in 1 .. Len(events[c]) : t[i] = events[c][i]
        /\ \A i \in 1 .. Len(es) : t[Len(events[c]) + i] = es[i]
        /\ Len(es) \in Nat /\ Len(events[c]) \in Nat
    BY <1>1
  <2>2. ASSUME NEW i \in 1 .. Len(t), i > Len(events[c])
        PROVE  \E j \in 1 .. Len(es) : t[i] = es[j]
    <3>1. i - Len(events[c]) \in 1 .. Len(es) /\ Len(events[c]) + (i - Len(events[c])) = i
      BY <2>1, <2>2
    <3> QED BY <2>1, <3>1
  <2> QED BY <2>1, <2>2
<1> HIDE DEF t
<1>3. CASE held[c]
  <2>1. events' = [events EXCEPT ![c] = t]
    BY <1>3 DEF Emit, t
  <2>2. events'[c] = t /\ events' \in [Conns -> Seq(Events)]
        /\ \A d \in Conns \ {c} : events'[d] = events[d]
    BY <1>1, <1>2, <2>1
  <2>3. Len(es) \in Nat /\ Len(events[c]) \in Nat
    BY <1>1
  <2> QED BY <1>2, <1>3, <2>2, <2>3 DEF Grows, IsNew
<1>4. CASE ~ held[c]
  <2>1. events' = events
    BY <1>4 DEF Emit
  <2>2. Len(events[c]) \in Nat
    BY <1>1
  <2> QED BY <1>1, <1>4, <2>1, <2>2 DEF Grows, IsNew
<1> QED BY <1>3, <1>4

LEMMA EmittedOne ==
    ASSUME Typed, NEW c \in Conns, NEW e \in Events, Emit(c, <<e>>)
    PROVE  /\ events' \in [Conns -> Seq(Events)]
           /\ \A d \in Conns \ {c} : events'[d] = events[d]
           /\ Grows(c)
           /\ ~ held[c] => events'[c] = events[c]
           /\ held[c] => /\ Len(events'[c]) = Len(events[c]) + 1
                         /\ events'[c][Len(events[c]) + 1] = e
<1> DEFINE es == <<e>>
<1>1. es \in Seq(Events) /\ Len(es) = 1 /\ es[1] = e /\ Emit(c, es) /\ 1 \in 1 .. Len(es)
  OBVIOUS
<1> HIDE DEF es
<1>2. /\ events' \in [Conns -> Seq(Events)]
      /\ \A d \in Conns \ {c} : events'[d] = events[d]
      /\ Grows(c)
      /\ ~ held[c] => events'[c] = events[c]
      /\ held[c] => /\ Len(events'[c]) = Len(events[c]) + Len(es)
                    /\ \A i \in 1 .. Len(es) : events'[c][Len(events[c]) + i] = es[i]
  BY <1>1, Emitted
<1> QED BY <1>1, <1>2

(* What the application says of its own variables while a driver moves. *)
AppKept ==
    /\ UNCHANGED <<driver, subs, mail, prompt, streaming, opened, switched>>
    /\ dropped => dropped'

LEMMA Said ==
    ASSUME Typed, NEW c \in Conns, NEW es \in Seq(Events), Emit(c, es),
           \A i \in 1 .. Len(es) : ~ IsPermission(es[i])
    PROVE  /\ Grows(c) /\ events' \in [Conns -> Seq(Events)]
           /\ \A d \in Conns \ {c} : events'[d] = events[d]
           /\ \A i \in 1 .. Len(events'[c]) : IsNew(c, i) => ~ IsPermission(events'[c][i])
BY Emitted

LEMMA SaidNothing ==
    ASSUME Typed, NEW c \in Conns, events' = events
    PROVE  /\ Grows(c) /\ events' \in [Conns -> Seq(Events)]
           /\ \A d \in Conns \ {c} : events'[d] = events[d]
           /\ \A i \in 1 .. Len(events'[c]) : IsNew(c, i) => ~ IsPermission(events'[c][i])
<1>1. events \in [Conns -> Seq(Events)] /\ Len(events[c]) \in Nat
  BY DEF Typed, DriverTypeOK
<1> QED BY <1>1 DEF Grows, IsNew

(* A step that sends at most such events and takes no command. *)
LEMMA Continues ==
    ASSUME Typed, NEW c \in Conns, AppKept, UNCHANGED <<cmds, turns, asked, held>>,
           stage' = [stage EXCEPT ![c] = stage'[c]], stage'[c] \in Stages,
           stage[c] \notin {"none", "gone"},
           \/ perms' = perms /\ (perms[c] # {} => stage'[c] \in {"ready", "setting"})
           \/ perms' = [perms EXCEPT ![c] = {}],
           \/ events' = events
           \/ \E es \in Seq(Events) :
                  Emit(c, es) /\ \A i \in 1 .. Len(es) : ~ IsPermission(es[i])
    PROVE  Move(c) /\ DriverTypeOK'
<1>1. /\ Grows(c) /\ events' \in [Conns -> Seq(Events)]
      /\ \A d \in Conns \ {c} : events'[d] = events[d]
      /\ \A i \in 1 .. Len(events'[c]) : IsNew(c, i) => ~ IsPermission(events'[c][i])
  BY Said, SaidNothing
<1>2. /\ stage \in [Conns -> Stages] /\ perms \in [Conns -> SUBSET (1 .. MaxAsks)]
      /\ turns \in [Conns -> Nat]
  BY DEF Typed, DriverTypeOK
<1>3. stage' \in [Conns -> Stages] /\ perms' \in [Conns -> SUBSET (1 .. MaxAsks)]
      /\ perms'[c] \subseteq perms[c] /\ (perms'[c] # {} => stage'[c] \in {"ready", "setting"})
      /\ \A d \in Conns \ {c} : stage'[d] = stage[d] /\ perms'[d] = perms[d]
  BY <1>2
<1>4. Apart(c)
  BY <1>1, <1>3 DEF Apart
<1>5. NoAsk(c)
  BY <1>1, <1>3 DEF NoAsk
<1>6. TurnTold(c)
  BY <1>2 DEF TurnTold
<1>7. DriverTypeOK'
  BY <1>1, <1>3 DEF Typed, DriverTypeOK
<1> QED BY <1>1, <1>3, <1>4, <1>5, <1>6, <1>7 DEF Move, AppKept

(* A command is taken. *)
LEMMA TakesOne ==
    ASSUME Typed, NEW c \in Conns, AppKept, UNCHANGED <<events, asked, held>>,
           cmds[c] # <<>>, Received(c),
           stage' = [stage EXCEPT ![c] = stage'[c]], stage'[c] \in Stages,
           stage[c] \notin {"none", "gone"},
           perms[c] # {} => stage'[c] \in {"ready", "setting"},
           turns' = [turns EXCEPT ![c] = turns'[c]], turns'[c] \in {turns[c], turns[c] + 1},
           Head(cmds[c]).kind = "prompt" => turns'[c] = turns[c] + 1 \/ dropped',
           perms' = IF Head(cmds[c]).kind = "answer"
                    THEN [perms EXCEPT ![c] = @ \ {Head(cmds[c]).id}] ELSE perms
    PROVE  Move(c) /\ DriverTypeOK'
<1>1. /\ Grows(c) /\ events' \in [Conns -> Seq(Events)]
      /\ \A d \in Conns \ {c} : events'[d] = events[d]
      /\ \A i \in 1 .. Len(events'[c]) : IsNew(c, i) => ~ IsPermission(events'[c][i])
  BY SaidNothing
<1>2. /\ stage \in [Conns -> Stages] /\ perms \in [Conns -> SUBSET (1 .. MaxAsks)]
      /\ turns \in [Conns -> Nat] /\ cmds \in [Conns -> Seq(Commands)]
  BY DEF Typed, DriverTypeOK
<1>3. /\ stage' \in [Conns -> Stages] /\ perms' \in [Conns -> SUBSET (1 .. MaxAsks)]
      /\ perms'[c] \subseteq perms[c] /\ (perms'[c] # {} => stage'[c] \in {"ready", "setting"})
      /\ \A d \in Conns \ {c} : stage'[d] = stage[d] /\ perms'[d] = perms[d]
  BY <1>2
<1>4. turns' \in [Conns -> Nat] /\ turns'[c] >= turns[c]
      /\ \A d \in Conns \ {c} : turns'[d] = turns[d]
  BY <1>2
<1>5. /\ cmds' \in [Conns -> Seq(Commands)] /\ cmds'[c] = Tail(cmds[c])
      /\ \A d \in Conns \ {c} : cmds'[d] = cmds[d]
  <2>1. cmds' = [cmds EXCEPT ![c] = Tail(cmds[c])] /\ Tail(cmds[c]) \in Seq(Commands)
    BY <1>2 DEF Received
  <2> HIDE DEF Commands
  <2> QED BY <1>2, <2>1
<1>6. Apart(c)
  BY <1>1, <1>3, <1>4, <1>5 DEF Apart
<1>7. NoAsk(c)
  BY <1>1, <1>3 DEF NoAsk
<1>8. TurnTold(c)
  BY <1>4 DEF TurnTold
<1>9. Takes(c)
  BY <1>2, <1>5 DEF Takes
<1>10. DriverTypeOK'
  BY <1>1, <1>3, <1>4, <1>5 DEF Typed, DriverTypeOK
<1> QED BY <1>1, <1>3, <1>6, <1>7, <1>8, <1>9, <1>10 DEF Move, AppKept

LEMMA EventSeqs ==
    /\ \A e \in {Note, Ready, Auth, TurnEnded, Error, Disconnected} :
           e \in Events /\ ~ IsPermission(e)
    /\ \A e \in {Note, Ready, Auth, TurnEnded, Error, Disconnected} :
           <<e>> \in Seq(Events) /\ Len(<<e>>) = 1 /\ <<e>>[1] = e
    /\ \A d, e \in {Note, Ready, Auth, TurnEnded, Error, Disconnected} :
           /\ <<d, e>> \in Seq(Events) /\ Len(<<d, e>>) = 2
           /\ <<d, e>>[1] = d /\ <<d, e>>[2] = e
           /\ <<d>> \o <<e>> = <<d, e>>
    /\ <<>> \in Seq(Events) /\ Len(<<>>) = 0
    /\ \A e \in {Disconnected} : <<>> \o <<e>> = <<e>>
<1>1. \A e \in {Note, Ready, Auth, TurnEnded, Error, Disconnected} :
           e \in Events /\ ~ IsPermission(e)
  BY DEF Note, Ready, Auth, TurnEnded, Error, Disconnected, Events, IsPermission
<1> DEFINE Plain == {Note, Ready, Auth, TurnEnded, Error, Disconnected}
<1>2. \A e \in Plain : e \in Events
  BY <1>1
<1> HIDE DEF Plain
<1>3. \A e \in Plain : <<e>> \in Seq(Events) /\ Len(<<e>>) = 1 /\ <<e>>[1] = e
  BY <1>2
<1>4. \A d, e \in Plain :
        /\ <<d, e>> \in Seq(Events) /\ Len(<<d, e>>) = 2
        /\ <<d, e>>[1] = d /\ <<d, e>>[2] = e
  BY <1>2
<1>5. ASSUME NEW d \in Events, NEW e \in Events
      PROVE  <<d>> \o <<e>> = <<d, e>>
  <2>1. <<d>> \in Seq(Events) /\ <<e>> \in Seq(Events) /\ Len(<<d>>) = 1 /\ Len(<<e>>) = 1
    OBVIOUS
  <2>2. /\ <<d>> \o <<e>> \in Seq(Events) /\ Len(<<d>> \o <<e>>) = 2
        /\ (<<d>> \o <<e>>)[1] = d /\ (<<d>> \o <<e>>)[2] = e
    BY <2>1, ConcatProperties
  <2>3. <<d, e>> \in Seq(Events) /\ Len(<<d, e>>) = 2 /\ <<d, e>>[1] = d /\ <<d, e>>[2] = e
    OBVIOUS
  <2>4. \A i \in 1 .. 2 : (<<d>> \o <<e>>)[i] = <<d, e>>[i]
    BY <2>2, <2>3
  <2> QED BY <2>2, <2>3, <2>4, SeqEqual
<1>6. <<>> \in Seq(Events) /\ Len(<<>>) = 0 /\ \A e : <<>> \o <<e>> = <<e>>
  OBVIOUS
<1> QED BY <1>1, <1>3, <1>4, <1>5, <1>6 DEF Plain

(* The end of the task. *)
LEMMA Closes ==
    ASSUME Typed, NEW c \in Conns, AppKept, stage[c] \notin {"none", "gone"},
           Close(c, <<>>) \/ Close(c, <<Error>>)
    PROVE  Move(c) /\ DriverTypeOK'
<1>1. stage \in [Conns -> Stages]
  BY DEF Typed, DriverTypeOK
<1>2. /\ stage' = [stage EXCEPT ![c] = "gone"] /\ stage'[c] = "gone"
      /\ perms' = [perms EXCEPT ![c] = {}]
      /\ UNCHANGED <<cmds, turns, asked, held>>
  BY <1>1 DEF Close, Go
<1>3. PICK es : es \in {<<Disconnected>>, <<Error, Disconnected>>} /\ Emit(c, es)
  BY EventSeqs DEF Close
<1>4. es \in Seq(Events) /\ \A i \in 1 .. Len(es) : ~ IsPermission(es[i])
  <2>1. CASE es = <<Disconnected>>
    BY <2>1, EventSeqs
  <2>2. CASE es = <<Error, Disconnected>>
    <3>1. Len(es) = 2 /\ es[1] = Error /\ es[2] = Disconnected /\ es \in Seq(Events)
      BY <2>2, EventSeqs
    <3>2. ~ IsPermission(Error) /\ ~ IsPermission(Disconnected)
      BY EventSeqs
    <3> QED BY <3>1, <3>2
  <2> QED BY <1>3, <2>1, <2>2
<1> QED BY <1>1, <1>2, <1>3, <1>4, Continues DEF Stages

LEMMA HandshakeMoves ==
    ASSUME Typed, AsksInSession, NEW c \in Conns, AppKept,
           \/ Spawn(c) \/ Initialized(c) \/ SessionStarts(c) \/ Authenticated(c)
           \/ SessionRefused(c) \/ AuthFails(c) \/ SetReplied(c) \/ AgentNotes(c)
    PROVE  Move(c) /\ DriverTypeOK'
<1>1. stage \in [Conns -> Stages]
  BY DEF Typed, DriverTypeOK
<1>2. \/ stage' = stage /\ stage[c] \in Connected \cup {"spawn"} /\ AgentNotes(c)
      \/ /\ stage' = [stage EXCEPT ![c] = stage'[c]]
         /\ stage'[c] \in {"init", "session", "ready", "auth"}
         /\ stage[c] \in {"spawn", "init", "session", "authing", "setting"}
         /\ stage[c] = "setting" => stage'[c] = "ready"
  BY <1>1 DEF Spawn, Initialized, SessionStarts, Authenticated, SessionRefused, AuthFails,
              SetReplied, AgentNotes, Go
<1>3. /\ stage' = [stage EXCEPT ![c] = stage'[c]] /\ stage'[c] \in Stages
      /\ stage[c] \notin {"none", "gone"}
      /\ perms[c] # {} => stage'[c] \in {"ready", "setting"}
  BY <1>1, <1>2 DEF AsksInSession, Stages, Connected
<1>4. UNCHANGED <<cmds, turns, perms, asked, held>>
  BY DEF Spawn, Initialized, SessionStarts, Authenticated, SessionRefused, AuthFails,
         SetReplied, AgentNotes
<1>5. \/ events' = events
      \/ \E es \in {<<Ready>>, <<Auth>>, <<Note>>, <<Error>>, <<>>, <<Error, Auth>>} : Emit(c, es)
  BY DEF Spawn, Initialized, SessionStarts, Authenticated, SessionRefused, AuthFails,
         SetReplied, AgentNotes
<1>6. ASSUME NEW es \in {<<Ready>>, <<Auth>>, <<Note>>, <<Error>>, <<>>, <<Error, Auth>>}
      PROVE  es \in Seq(Events) /\ \A i \in 1 .. Len(es) : ~ IsPermission(es[i])
  <2>1. CASE es \in {<<Ready>>, <<Auth>>, <<Note>>, <<Error>>}
    <3>1. PICK e \in {Ready, Auth, Note, Error} : es = <<e>>
      BY <2>1
    <3>2. es \in Seq(Events) /\ Len(es) = 1 /\ es[1] = e /\ ~ IsPermission(e)
      BY <3>1, EventSeqs
    <3> QED BY <3>2
  <2>2. CASE es = <<>>
    BY <2>2, EventSeqs
  <2>3. CASE es = <<Error, Auth>>
    <3>1. Len(es) = 2 /\ es[1] = Error /\ es[2] = Auth /\ es \in Seq(Events)
      BY <2>3, EventSeqs
    <3>2. ~ IsPermission(Error) /\ ~ IsPermission(Auth)
      BY EventSeqs
    <3> QED BY <3>1, <3>2
  <2> QED BY <2>1, <2>2, <2>3
<1>7. \/ events' = events
      \/ \E es \in Seq(Events) :
            Emit(c, es) /\ \A i \in 1 .. Len(es) : ~ IsPermission(es[i])
  BY <1>5, <1>6
<1> QED BY <1>3, <1>4, <1>7, Continues

LEMMA CommandMoves ==
    ASSUME Typed, AsksInSession, NEW c \in Conns, AppStays(c),
           \/ AuthTakes(c) \/ AuthIgnores(c)
           \/ TakePrompt(c) \/ TakeNothing(c) \/ TakeSet(c) \/ TakeAnswer(c)
    PROVE  Move(c) /\ DriverTypeOK'
<1>1. /\ stage \in [Conns -> Stages] /\ turns \in [Conns -> Nat]
      /\ perms \in [Conns -> SUBSET (1 .. MaxAsks)] /\ cmds \in [Conns -> Seq(Commands)]
  BY DEF Typed, DriverTypeOK
<1>2. AppKept
  BY DEF AppStays, AppKept
<1>3. cmds[c] # <<>> /\ Received(c) /\ UNCHANGED <<events, asked, held>>
  BY DEF AuthTakes, AuthIgnores, TakePrompt, TakeNothing, TakeSet, TakeAnswer, NextIs
<1>4. cmds'[c] # cmds[c]
  <2>1. cmds'[c] = Tail(cmds[c])
    BY <1>1, <1>3 DEF Received
  <2>2. Len(Tail(cmds[c])) # Len(cmds[c])
    BY <1>1, <1>3
  <2> QED BY <2>1, <2>2
<1>5. CASE AuthTakes(c)
  <2>1. /\ stage' = [stage EXCEPT ![c] = "authing"] /\ stage[c] = "auth"
        /\ turns' = turns /\ perms' = perms /\ Head(cmds[c]).kind = "auth"
    BY <1>5 DEF AuthTakes, Go, NextIs
  <2>2. perms[c] = {}
    BY <2>1 DEF AsksInSession
  <2> QED BY <1>1, <1>2, <1>3, <2>1, <2>2, TakesOne DEF Stages
<1>6. CASE AuthIgnores(c)
  <2>1. /\ stage' = stage /\ stage[c] = "auth" /\ turns' = turns /\ perms' = perms
    BY <1>6 DEF AuthIgnores
  <2>2. perms[c] = {}
    BY <2>1 DEF AsksInSession
  <2>3. Head(cmds[c]).kind = "prompt" => dropped'
    BY <1>3, <1>4, <2>1 DEF AppStays, NextIs
  <2>4. perms' = [perms EXCEPT ![c] = @ \ {Head(cmds[c]).id}]
    BY <1>1, <2>1, <2>2
  <2>5. stage' = [stage EXCEPT ![c] = stage'[c]] /\ turns' = [turns EXCEPT ![c] = turns'[c]]
    BY <1>1, <2>1
  <2> QED BY <1>1, <1>2, <1>3, <2>1, <2>2, <2>3, <2>4, <2>5, TakesOne
<1>7. CASE TakePrompt(c)
  <2>1. /\ stage' = stage /\ stage[c] = "ready" /\ perms' = perms
        /\ turns' = [turns EXCEPT ![c] = @ + 1] /\ Head(cmds[c]).kind = "prompt"
    BY <1>7 DEF TakePrompt, NextIs
  <2>2. stage' = [stage EXCEPT ![c] = stage'[c]] /\ turns'[c] = turns[c] + 1
    BY <1>1, <2>1
  <2> QED BY <1>1, <1>2, <1>3, <2>1, <2>2, TakesOne
<1>8. CASE TakeNothing(c)
  <2>1. /\ stage' = stage /\ stage[c] = "ready" /\ perms' = perms
        /\ turns' = turns /\ Head(cmds[c]).kind \in {"cancel", "auth"}
    BY <1>8 DEF TakeNothing, NextIs
  <2>2. stage' = [stage EXCEPT ![c] = stage'[c]] /\ turns' = [turns EXCEPT ![c] = turns'[c]]
    BY <1>1, <2>1
  <2> QED BY <1>1, <1>2, <1>3, <2>1, <2>2, TakesOne
<1>9. CASE TakeSet(c)
  <2>1. /\ stage' = [stage EXCEPT ![c] = "setting"] /\ stage[c] = "ready"
        /\ turns' = turns /\ perms' = perms /\ Head(cmds[c]).kind = "set"
    BY <1>9 DEF TakeSet, Go, NextIs
  <2> QED BY <1>1, <1>2, <1>3, <2>1, TakesOne DEF Stages
<1>10. CASE TakeAnswer(c)
  <2>1. /\ stage' = stage /\ stage[c] = "ready" /\ turns' = turns
        /\ perms' = [perms EXCEPT ![c] = @ \ {Head(cmds[c]).id}]
        /\ Head(cmds[c]).kind = "answer"
    BY <1>10 DEF TakeAnswer, NextIs
  <2>2. stage' = [stage EXCEPT ![c] = stage'[c]] /\ turns' = [turns EXCEPT ![c] = turns'[c]]
    BY <1>1, <2>1
  <2> QED BY <1>1, <1>2, <1>3, <2>1, <2>2, TakesOne
<1> QED BY <1>5, <1>6, <1>7, <1>8, <1>9, <1>10

LEMMA AskMoves ==
    ASSUME Typed, NEW c \in Conns, AppKept, AgentAsks(c)
    PROVE  Move(c) /\ DriverTypeOK'
<1>1. /\ stage \in [Conns -> Stages] /\ turns \in [Conns -> Nat]
      /\ perms \in [Conns -> SUBSET (1 .. MaxAsks)] /\ asked \in [Conns -> 0 .. MaxAsks]
  BY DEF Typed, DriverTypeOK
<1>2. /\ stage[c] \in {"ready", "setting"} /\ asked[c] < MaxAsks
      /\ asked' = [asked EXCEPT ![c] = @ + 1]
      /\ perms' = [perms EXCEPT ![c] = @ \cup {asked'[c]}]
      /\ UNCHANGED <<stage, cmds, turns, held>>
  BY DEF AgentAsks
<1> DEFINE e == [kind |-> "permission", id |-> asked'[c]]
<1>3. /\ asked'[c] = asked[c] + 1 /\ asked'[c] \in 1 .. MaxAsks
      /\ asked' \in [Conns -> 0 .. MaxAsks]
      /\ \A d \in Conns \ {c} : asked'[d] = asked[d]
  BY <1>1, <1>2, ConnsAssumption
<1>4. e \in Events
  BY <1>3 DEF Events
<1>5. Emit(c, <<e>>)
  BY DEF AgentAsks
<1> HIDE DEF e
<1>6. <<e>> \in Seq(Events) /\ Len(<<e>>) = 1 /\ <<e>>[1] = e
  BY <1>4
<1>7. /\ Grows(c) /\ events' \in [Conns -> Seq(Events)]
      /\ \A d \in Conns \ {c} : events'[d] = events[d]
      /\ ~ held[c] => events'[c] = events[c]
      /\ held[c] => /\ Len(events'[c]) = Len(events[c]) + 1
                    /\ events'[c][Len(events[c]) + 1] = e
  BY <1>4, <1>5, EmittedOne
<1>8. /\ perms' \in [Conns -> SUBSET (1 .. MaxAsks)]
      /\ \A d \in Conns \ {c} : perms'[d] = perms[d]
  BY <1>1, <1>2, <1>3
<1>9. Apart(c)
  BY <1>2, <1>3, <1>7, <1>8 DEF Apart
<1>10. NewAsk(c)
  BY <1>2, <1>3, <1>7 DEF NewAsk, e
<1>11. TurnTold(c)
  BY <1>1, <1>2 DEF TurnTold
<1>12. DriverTypeOK'
  BY <1>2, <1>3, <1>7, <1>8 DEF Typed, DriverTypeOK
<1> QED BY <1>2, <1>7, <1>9, <1>10, <1>11, <1>12 DEF Move, AppKept

LEMMA TurnMoves ==
    ASSUME Typed, AsksInSession, NEW c \in Conns, AppKept, TurnEnds(c) \/ TurnFails(c)
    PROVE  Move(c) /\ DriverTypeOK'
<1>1. /\ stage \in [Conns -> Stages] /\ turns \in [Conns -> Nat]
      /\ perms \in [Conns -> SUBSET (1 .. MaxAsks)]
  BY DEF Typed, DriverTypeOK
<1>2. PICK e \in {TurnEnded, Error} : Emit(c, <<e>>)
  BY DEF TurnEnds, TurnFails
<1>3. /\ turns[c] > 0 /\ turns' = [turns EXCEPT ![c] = @ - 1]
      /\ UNCHANGED <<stage, cmds, perms, asked, held>>
  BY DEF TurnEnds, TurnFails
<1>4. <<e>> \in Seq(Events) /\ Len(<<e>>) = 1 /\ <<e>>[1] = e /\ ~ IsPermission(e)
  BY EventSeqs
<1>5. \A i \in 1 .. Len(<<e>>) : ~ IsPermission(<<e>>[i])
  BY <1>4
<1>6. /\ Grows(c) /\ events' \in [Conns -> Seq(Events)]
      /\ \A d \in Conns \ {c} : events'[d] = events[d]
      /\ \A i \in 1 .. Len(events'[c]) : IsNew(c, i) => ~ IsPermission(events'[c][i])
  BY <1>2, <1>4, <1>5, Said
<1>7. held[c] => /\ Len(events'[c]) = Len(events[c]) + 1
                /\ events'[c][Len(events[c]) + 1] = e
  BY <1>2, EventSeqs, EmittedOne
<1>8. turns' \in [Conns -> Nat] /\ \A d \in Conns \ {c} : turns'[d] = turns[d]
  BY <1>1, <1>3
<1>9. Apart(c)
  BY <1>3, <1>6, <1>8 DEF Apart
<1>10. NoAsk(c)
  BY <1>3, <1>6 DEF NoAsk
<1>11. TurnTold(c)
  <2>1. Len(events[c]) \in Nat
    BY DEF Typed, DriverTypeOK
  <2>2. held[c] => Len(events[c]) + 1 \in 1 .. Len(events'[c])
    BY <1>7, <2>1
  <2>3. EndsTurn(e)
    BY DEF EndsTurn
  <2>4. held[c] => \E i \in 1 .. Len(events'[c]) : EndsTurn(events'[c][i])
    BY <1>7, <2>2, <2>3
  <2> QED BY <2>4 DEF TurnTold
<1>12. DriverTypeOK'
  BY <1>3, <1>6, <1>8 DEF Typed, DriverTypeOK
<1> QED BY <1>3, <1>6, <1>9, <1>10, <1>11, <1>12 DEF Move, AppKept, AsksInSession

LEMMA DriverMoves ==
    ASSUME Typed, AsksInSession, NEW c \in Conns, DriverActs(c) \/ AgentActs(c)
    PROVE  Move(c) /\ DriverTypeOK' /\ dropped' \in BOOLEAN
<1>1. AppStays(c) /\ AppKept /\ dropped' \in BOOLEAN
  BY DEF DriverActs, AgentActs, AppStays, AppKept, Typed
<1>2. CASE Stops(c)
  BY <1>1, <1>2, Closes DEF Stops
<1>3. CASE Fail(c)
  BY <1>1, <1>3, Closes DEF Fail, Connected
<1> QED BY <1>1, <1>2, <1>3, HandshakeMoves, CommandMoves, AskMoves, TurnMoves
        DEF DriverActs, AgentActs, DriverWork, AgentWork

-----------------------------------------------------------------------------
(* The other steps: an event arrives, a command is sent.                   *)

Arrives(c, e) ==
    /\ subs[c] > 0 /\ Deliver(c, e)
    /\ \/ /\ events[c] # <<>> /\ e = Head(events[c])
          /\ events' = [events EXCEPT ![c] = Tail(@)]
       \/ e = Disconnected /\ events' = events

Sends(cmd) ==
    /\ Send(cmd)
    /\ UNCHANGED <<driver, subs, mail, opened, switched, dropped>>
    /\ \/ cmd.kind = "prompt" /\ driver # 0 /\ streaming' = TRUE /\ UNCHANGED prompt
       \/ /\ cmd.kind = "answer" /\ [from |-> cmd.shown, id |-> cmd.id] \in prompt
          /\ prompt' = {} /\ UNCHANGED streaming
       \/ cmd.kind \notin {"prompt", "answer"} /\ UNCHANGED <<prompt, streaming>>

Nothing == UNCHANGED <<driverVars, driver, subs, mail, prompt, streaming, opened, switched, dropped>>

Connects(c) == prompt = {} /\ c = opened + 1 /\ Connect(c)

LEMMA Steps ==
    ASSUME Typed, [Next]_vars
    PROVE  \/ \E c \in Conns : DriverActs(c) \/ AgentActs(c)
           \/ \E c \in Conns, e \in Events : Arrives(c, e)
           \/ \E m \in mail : FoldEvent(m)
           \/ \E cmd \in Commands : Sends(cmd)
           \/ \E c \in Conns : Connects(c)
           \/ Nothing
<1>1. CASE \E c \in Conns : Receive(c)
  <2>1. PICK c \in Conns : Receive(c)
    BY <1>1
  <2>2. Head(events[c]) \in Events
    BY <2>1 DEF Receive, Typed, DriverTypeOK
  <2>3. Arrives(c, Head(events[c]))
    BY <2>1 DEF Receive, Arrives
  <2> QED BY <2>2, <2>3
<1>2. CASE \E c \in Conns : ReceiveEnd(c)
  <2>1. PICK c \in Conns : ReceiveEnd(c)
    BY <1>2
  <2>2. Arrives(c, Disconnected) /\ Disconnected \in Events
    BY <2>1, EventSeqs DEF ReceiveEnd, Arrives
  <2> QED BY <2>2
<1>3. CASE Prompt
  <2>1. [kind |-> "prompt"] \in Commands
    BY DEF Commands
  <2>2. Sends([kind |-> "prompt"])
    BY <1>3 DEF Prompt, Sends
  <2> QED BY <2>1, <2>2
<1>4. CASE Cancel
  BY <1>4 DEF Cancel, Sends, Commands
<1>5. CASE Pick
  <2>1. [kind |-> Front] \in Commands /\ [kind |-> Front].kind \notin {"prompt", "answer"}
    BY DEF Front, Commands
  <2> QED BY <1>5, <2>1 DEF Pick, Sends
<1>6. CASE Quit
  BY <1>6 DEF Quit, Sends, Commands
<1>7. CASE Answer
  <2>1. PICK r \in prompt : Send([kind |-> "answer", id |-> r.id, shown |-> r.from])
    BY <1>7 DEF Answer
  <2>2. r \in Requests
    BY DEF Typed
  <2>3. r.id \in 1 .. MaxAsks /\ r.from \in Conns /\ r = [from |-> r.from, id |-> r.id]
    BY <2>2 DEF Requests
  <2>4. [kind |-> "answer", id |-> r.id, shown |-> r.from] \in Commands
    BY <2>3 DEF Commands
  <2> QED BY <1>7, <2>1, <2>3, <2>4 DEF Answer, Sends
<1>8. CASE OpenOverlay \/ Dismiss \/ Agents
  BY <1>8 DEF OpenOverlay, Dismiss, Agents, Nothing
<1>9. CASE PickAgent
  <2>1. opened + 1 \in Conns
    BY <1>9, ConnsAssumption DEF PickAgent, Typed, Conns
  <2> QED BY <1>9, <2>1 DEF PickAgent, Connects, KeysFree
<1>10. CASE UNCHANGED vars
  BY <1>10 DEF vars, appVars, Nothing
<1>11. CASE \E c \in Conns : DriverActs(c) \/ AgentActs(c)
  BY <1>11
<1>12. CASE \E m \in mail : FoldEvent(m)
  BY <1>12
<1>13. CASE User
  BY <1>3, <1>4, <1>5, <1>6, <1>7, <1>8, <1>9, <1>13 DEF User
<1>14. CASE Next
  <2>1. CASE \E c \in Conns : DriverActs(c) \/ AgentActs(c) \/ Receive(c) \/ ReceiveEnd(c)
    BY <1>1, <1>2, <1>11, <2>1
  <2> QED BY <1>12, <1>13, <1>14, <2>1 DEF Next
<1> QED BY <1>10, <1>14

(* What Send does to the channels of the drivers. *)
LEMMA SentOne ==
    ASSUME Typed, NEW cmd \in Commands, Send(cmd)
    PROVE  /\ cmds' \in [Conns -> Seq(Commands)]
           /\ \A c \in Conns : c # driver => cmds'[c] = cmds[c]
           /\ \A c \in Conns : c = driver /\ stage[c] = "gone" => cmds'[c] = cmds[c]
           /\ \A c \in Conns : c = driver /\ stage[c] # "gone" =>
                  /\ Len(cmds'[c]) = Len(cmds[c]) + 1
                  /\ \A i \in 1 .. Len(cmds[c]) : cmds'[c][i] = cmds[c][i]
                  /\ cmds'[c][Len(cmds[c]) + 1] = cmd
<1>1. cmds \in [Conns -> Seq(Commands)] /\ driver \in 0 .. MaxConns
  BY DEF Typed, DriverTypeOK
<1>2. CASE driver = 0 \/ stage[driver] = "gone"
  <2>1. cmds' = cmds
    BY <1>2 DEF Send
  <2>2. \A c \in Conns : c # 0
    BY DEF Conns
  <2> QED BY <1>1, <1>2, <2>1, <2>2
<1>3. CASE ~ (driver = 0 \/ stage[driver] = "gone")
  <2>1. cmds' = [cmds EXCEPT ![driver] = Append(@, cmd)] /\ driver \in Conns
    BY <1>1, <1>3, ConnsAssumption DEF Send, Conns
  <2> DEFINE t == Append(cmds[driver], cmd)
  <2>2. /\ t \in Seq(Commands) /\ Len(t) = Len(cmds[driver]) + 1
        /\ \A i \in 1 .. Len(cmds[driver]) : t[i] = cmds[driver][i]
        /\ t[Len(cmds[driver]) + 1] = cmd
    BY <1>1, <2>1, AppendProperties
  <2> HIDE DEF t, Commands
  <2>3. cmds' = [cmds EXCEPT ![driver] = t]
    BY <2>1 DEF t
  <2> QED BY <1>1, <1>3, <2>1, <2>2, <2>3
<1> QED BY <1>2, <1>3

LEMMA Handles ==
    ASSUME NEW d, NEW s, Hold(d, s)
    PROVE  /\ held' \in [Conns -> BOOLEAN]
           /\ \A c \in Conns : held'[c] <=> (d = c \/ s[c] > 0)
BY DEF Hold

LEMMA ArrivesTyped ==
    ASSUME Typed, NEW c \in Conns, NEW e \in Events, Arrives(c, e)
    PROVE  Typed'
<1>1. events \in [Conns -> Seq(Events)] /\ subs \in [Conns -> Nat]
  BY DEF Typed, DriverTypeOK
<1>2. events' \in [Conns -> Seq(Events)]
  <2>1. events[c] # <<>> => Tail(events[c]) \in Seq(Events)
    BY <1>1
  <2> HIDE DEF Events
  <2> QED BY <1>1, <2>1 DEF Arrives
<1>3. subs' \in [Conns -> Nat]
  BY <1>1 DEF Arrives, Deliver
<1>4. mail' \subseteq [from : Conns, event : Events]
  <2>1. [from |-> c, event |-> e] \in [from : Conns, event : Events]
    OBVIOUS
  <2> QED BY <2>1 DEF Typed, Arrives, Deliver
<1>5. held' \in [Conns -> BOOLEAN]
  BY Handles DEF Arrives, Deliver
<1>6. /\ UNCHANGED <<driver, prompt, streaming, opened, switched, dropped>>
      /\ UNCHANGED <<stage, cmds, turns, perms, asked>>
  BY DEF Arrives, Deliver
<1> QED BY <1>2, <1>3, <1>4, <1>5, <1>6 DEF Typed, DriverTypeOK, AloneInPrompt

LEMMA FoldTyped ==
    ASSUME Typed, NEW m \in mail, FoldEvent(m)
    PROVE  Typed'
<1>1. m \in [from : Conns, event : Events]
  BY DEF Typed
<1>2. m.from \in Conns /\ m.event \in Events
  BY <1>1
<1>3. m.event.kind = "permission" => Asking(m) \subseteq Requests
  BY <1>2 DEF Asking, Requests, Events
<1>4. prompt' \subseteq Requests /\ AloneInPrompt'
  BY <1>3 DEF FoldEvent, Show, Typed, AloneInPrompt, Asking
<1>5. driver' \in 0 .. MaxConns
  BY ConnsAssumption DEF FoldEvent, Show, Reflect, Typed
<1>6. subs' \in [Conns -> Nat]
  <2>1. subs \in [Conns -> Nat]
    BY DEF Typed
  <2>2. subs' = subs \/ (driver' # 0 /\ subs' = [subs EXCEPT ![driver'] = @ + 1])
    BY DEF FoldEvent, Resubscribe
  <2>3. driver' # 0 => driver' \in Conns
    BY <1>5, ConnsAssumption DEF Conns
  <2> QED BY <2>1, <2>2, <2>3
<1>7. held' \in [Conns -> BOOLEAN]
  BY Handles DEF FoldEvent
<1>8. streaming' \in BOOLEAN
  BY DEF FoldEvent, Show, Reflect, Typed
<1>9. /\ mail' \subseteq mail
      /\ UNCHANGED <<stage, cmds, events, turns, perms, asked, opened, switched, dropped>>
  BY DEF FoldEvent
<1> QED BY <1>4, <1>5, <1>6, <1>7, <1>8, <1>9 DEF Typed, DriverTypeOK

LEMMA SendsTyped ==
    ASSUME Typed, NEW cmd \in Commands, Sends(cmd)
    PROVE  Typed'
<1>1. cmds' \in [Conns -> Seq(Commands)]
  BY SentOne DEF Sends
<1>2. UNCHANGED <<stage, events, turns, perms, asked, held>>
  BY DEF Sends, Send
<1>3. prompt' \subseteq Requests /\ AloneInPrompt' /\ streaming' \in BOOLEAN
  BY DEF Sends, Typed, AloneInPrompt
<1> QED BY <1>1, <1>2, <1>3 DEF Typed, DriverTypeOK, Sends

LEMMA ConnectsTyped ==
    ASSUME Typed, NEW c \in Conns, Connects(c)
    PROVE  Typed'
<1>1. stage' \in [Conns -> Stages] /\ subs' \in [Conns -> Nat] /\ held' \in [Conns -> BOOLEAN]
  BY Handles DEF Connects, Connect, Go, Typed, DriverTypeOK, Stages
<1>2. driver' \in 0 .. MaxConns /\ opened' \in 0 .. MaxConns /\ switched' \in BOOLEAN
  BY ConnsAssumption DEF Connects, Connect, Typed, Conns
<1>3. /\ UNCHANGED <<cmds, events, turns, perms, asked>>
      /\ UNCHANGED <<mail, prompt, streaming, dropped>>
  BY DEF Connects, Connect
<1> QED BY <1>1, <1>2, <1>3 DEF Typed, DriverTypeOK, AloneInPrompt

LEMMA StepTyped ==
    ASSUME Typed, AsksInSession, Unopened, [Next]_vars
    PROVE  Typed' /\ AsksInSession' /\ Unopened'
<1>1. ASSUME NEW c \in Conns, DriverActs(c) \/ AgentActs(c)
      PROVE  Typed' /\ AsksInSession' /\ Unopened'
  <2>1. Move(c) /\ DriverTypeOK' /\ dropped' \in BOOLEAN
    BY <1>1, DriverMoves
  <2>2. Typed'
    BY <2>1 DEF Move, Typed, AloneInPrompt
  <2> QED BY <2>1, <2>2 DEF Move, Apart, AsksInSession, Unopened
<1>2. ASSUME NEW c \in Conns, NEW e \in Events, Arrives(c, e)
      PROVE  Typed' /\ AsksInSession' /\ Unopened'
  BY <1>2, ArrivesTyped DEF Arrives, Deliver, AsksInSession, Unopened
<1>3. ASSUME NEW m \in mail, FoldEvent(m)
      PROVE  Typed' /\ AsksInSession' /\ Unopened'
  BY <1>3, FoldTyped DEF FoldEvent, AsksInSession, Unopened
<1>4. ASSUME NEW cmd \in Commands, Sends(cmd)
      PROVE  Typed' /\ AsksInSession' /\ Unopened'
  BY <1>4, SendsTyped DEF Sends, Send, AsksInSession, Unopened
<1>5. ASSUME NEW c \in Conns, Connects(c)
      PROVE  Typed' /\ AsksInSession' /\ Unopened'
  <2>1. stage[c] = "none"
    BY <1>5 DEF Connects, Typed, Unopened, Conns
  <2>2. stage' = [stage EXCEPT ![c] = "spawn"] /\ perms' = perms
    BY <1>5 DEF Connects, Connect, Go
  <2>3. opened' = opened + 1 /\ c = opened + 1 /\ opened \in Nat
    BY <1>5 DEF Connects, Connect, Typed
  <2>4. Unopened'
    BY <2>2, <2>3 DEF Unopened, Conns, Typed, DriverTypeOK
  <2> QED BY <1>5, <2>1, <2>2, <2>4, ConnectsTyped DEF AsksInSession, Typed, DriverTypeOK
<1>6. CASE Nothing
  BY <1>6 DEF Nothing, driverVars, Typed, DriverTypeOK, AloneInPrompt, AsksInSession, Unopened
<1> QED BY <1>1, <1>2, <1>3, <1>4, <1>5, <1>6, Steps

-----------------------------------------------------------------------------
(* Subscriptions.                                                          *)

Holders == \A c \in Conns : held[c] <=> (driver = c \/ subs[c] > 0)

Listened == driver # 0 => subs[driver] > 0 \/ \E m \in mail : m.from = driver

(* Of an application that leaves no agent while it runs: there is one      *)
(* subscription, or one event that ended it, and only for the driver held. *)
OneAtATime ==
    ~ switched => \A c \in Conns :
        /\ subs[c] <= 1
        /\ subs[c] = 1 => \A m \in mail : m.from # c
        /\ \A m, n \in mail : m.from = c /\ n.from = c => m = n
        /\ c # driver => subs[c] = 0 /\ \A m \in mail : m.from # c

SubsInv == Typed /\ AsksInSession /\ Unopened /\ Holders /\ Listened /\ OneAtATime

LEMMA InitSubs == Init => SubsInv
<1> SUFFICES ASSUME Init PROVE SubsInv
  OBVIOUS
<1>1. Typed
  <2>1. DriverTypeOK
    <3>1. <<>> \in Seq(Commands) /\ <<>> \in Seq(Events) /\ 0 \in 0 .. MaxAsks
      BY ConnsAssumption
    <3> HIDE DEF Commands, Events, Conns
    <3> QED BY <3>1 DEF Init, DriverInit, DriverTypeOK, Stages
  <2>2. 0 \in 0 .. MaxConns
    BY ConnsAssumption
  <2> QED BY <2>1, <2>2 DEF Init, Typed, AloneInPrompt
<1>2. AsksInSession /\ Unopened
  BY DEF Init, DriverInit, AsksInSession, Unopened
<1>3. Holders /\ Listened /\ OneAtATime
  <2>1. \A c \in Conns : c # 0
    BY DEF Conns
  <2>2. /\ driver = 0 /\ mail = {} /\ held = [c \in Conns |-> FALSE]
        /\ subs = [c \in Conns |-> 0]
    BY DEF Init, DriverInit
  <2>3. \A c \in Conns : ~ held[c] /\ subs[c] = 0
    BY <2>2
  <2> QED BY <2>1, <2>2, <2>3 DEF Holders, Listened, OneAtATime
<1> QED BY <1>1, <1>2, <1>3 DEF SubsInv

LEMMA StepHolders ==
    ASSUME SubsInv, [Next]_vars
    PROVE  Holders'
<1>1. ASSUME NEW c \in Conns, DriverActs(c) \/ AgentActs(c)
      PROVE  Holders'
  BY <1>1, DriverMoves DEF SubsInv, Move, Holders
<1>2. ASSUME NEW c \in Conns, NEW e \in Events, Arrives(c, e)
      PROVE  Holders'
  <2>1. Hold(driver, subs') /\ driver' = driver
    BY <1>2 DEF Arrives, Deliver
  <2> QED BY <2>1, Handles DEF Holders
<1>3. ASSUME NEW m \in mail, FoldEvent(m)
      PROVE  Holders'
  BY <1>3, Handles DEF FoldEvent, Holders
<1>4. ASSUME NEW cmd \in Commands, Sends(cmd)
      PROVE  Holders'
  <2>1. UNCHANGED <<held, driver, subs>>
    BY <1>4 DEF Sends, Send
  <2> QED BY <2>1 DEF SubsInv, Holders
<1>5. ASSUME NEW c \in Conns, Connects(c)
      PROVE  Holders'
  BY <1>5, Handles DEF Connects, Connect, Holders
<1>6. CASE Nothing
  BY <1>6 DEF Nothing, driverVars, SubsInv, Holders
<1> QED BY <1>1, <1>2, <1>3, <1>4, <1>5, <1>6, Steps DEF SubsInv

LEMMA StepListened ==
    ASSUME SubsInv, [Next]_vars
    PROVE  Listened'
<1>1. ASSUME NEW c \in Conns, DriverActs(c) \/ AgentActs(c)
      PROVE  Listened'
  BY <1>1, DriverMoves DEF SubsInv, Move, Listened
<1>2. ASSUME NEW c \in Conns, NEW e \in Events, Arrives(c, e)
      PROVE  Listened'
  <2>1. /\ mail' = mail \cup {[from |-> c, event |-> e]} /\ driver' = driver
        /\ subs' = [subs EXCEPT ![c] = @ - 1] /\ subs \in [Conns -> Nat]
    BY <1>2 DEF Arrives, Deliver, SubsInv, Typed
  <2>2. CASE driver = c
    <3>1. [from |-> c, event |-> e] \in mail' /\ [from |-> c, event |-> e].from = driver'
      BY <2>1, <2>2
    <3> QED BY <3>1 DEF Listened
  <2>3. CASE driver # c
    BY <2>1, <2>3 DEF Listened, SubsInv
  <2> QED BY <2>2, <2>3
<1>3. ASSUME NEW m \in mail, FoldEvent(m)
      PROVE  Listened'
  <2>1. SUFFICES ASSUME driver' # 0 PROVE subs'[driver'] > 0
    BY DEF Listened
  <2>2. driver' = driver /\ m.event # Disconnected
    BY <1>3, <2>1 DEF FoldEvent, Show, Reflect, Disconnected
  <2>3. subs' = [subs EXCEPT ![driver] = @ + 1]
    BY <1>3, <2>1, <2>2 DEF FoldEvent, Resubscribe
  <2>4. subs \in [Conns -> Nat] /\ driver \in Conns
    BY <2>1, <2>2, ConnsAssumption DEF SubsInv, Typed, Conns
  <2> QED BY <2>2, <2>3, <2>4
<1>4. ASSUME NEW cmd \in Commands, Sends(cmd)
      PROVE  Listened'
  BY <1>4 DEF Sends, SubsInv, Listened
<1>5. ASSUME NEW c \in Conns, Connects(c)
      PROVE  Listened'
  <2>1. driver' = c /\ subs' = [subs EXCEPT ![c] = @ + 1] /\ subs \in [Conns -> Nat]
    BY <1>5 DEF Connects, Connect, SubsInv, Typed
  <2> QED BY <2>1 DEF Listened
<1>6. CASE Nothing
  BY <1>6 DEF Nothing, SubsInv, Listened
<1> QED BY <1>1, <1>2, <1>3, <1>4, <1>5, <1>6, Steps DEF SubsInv

LEMMA StepOneAtATime ==
    ASSUME SubsInv, [Next]_vars
    PROVE  OneAtATime'
<1>1. ASSUME NEW c \in Conns, DriverActs(c) \/ AgentActs(c)
      PROVE  OneAtATime'
  BY <1>1, DriverMoves DEF SubsInv, Move, OneAtATime
<1>2. ASSUME NEW c \in Conns, NEW e \in Events, Arrives(c, e)
      PROVE  OneAtATime'
  <2>1. /\ mail' = mail \cup {[from |-> c, event |-> e]} /\ driver' = driver
        /\ subs' = [subs EXCEPT ![c] = @ - 1] /\ subs \in [Conns -> Nat]
        /\ switched' = switched /\ subs[c] > 0
    BY <1>2 DEF Arrives, Deliver, SubsInv, Typed
  <2>2. SUFFICES ASSUME ~ switched
                 PROVE  \A d \in Conns :
                            /\ subs'[d] <= 1
                            /\ subs'[d] = 1 => \A m \in mail' : m.from # d
                            /\ \A m, n \in mail' : m.from = d /\ n.from = d => m = n
                            /\ d # driver => subs'[d] = 0 /\ \A m \in mail' : m.from # d
    BY <2>1 DEF OneAtATime
  <2>3. c = driver /\ subs[c] = 1 /\ \A m \in mail : m.from # c
    BY <2>1, <2>2 DEF SubsInv, OneAtATime
  <2>4. subs'[c] = 0 /\ \A d \in Conns \ {c} : subs'[d] = subs[d]
    BY <2>1, <2>3
  <2>5. \A m \in mail' : m.from = c => m = [from |-> c, event |-> e]
    BY <2>1, <2>3
  <2>6. \A d \in Conns \ {c} : \A m \in mail' : m.from = d => m \in mail
    BY <2>1
  <2> QED BY <2>2, <2>3, <2>4, <2>5, <2>6 DEF SubsInv, OneAtATime
<1>3. ASSUME NEW m \in mail, FoldEvent(m)
      PROVE  OneAtATime'
  <2>1. /\ mail' = mail \ {m} /\ switched' = switched
        /\ driver' = driver \/ (driver' = 0 /\ m.event.kind = "disconnected")
        /\ driver' = driver => m.event.kind # "disconnected" \/ driver = 0
        /\ subs' = Resubscribe(driver', m.event)
    BY <1>3 DEF FoldEvent, Show, Reflect
  <2>2. SUFFICES ASSUME ~ switched PROVE OneAtATime'
    BY <2>1 DEF OneAtATime
  <2>3. m.from \in Conns /\ subs \in [Conns -> Nat]
    BY DEF SubsInv, Typed
  <2>4. m.from = driver /\ \A n \in mail' : n.from # driver
    BY <2>1, <2>2, <2>3 DEF SubsInv, OneAtATime
  <2>5. subs[driver] = 0
    <3>1. subs[driver] \in Nat /\ subs[driver] <= 1 /\ subs[driver] # 1
      BY <2>2, <2>3, <2>4 DEF SubsInv, OneAtATime
    <3> QED BY <3>1
  <2>6. \A d \in Conns : d # driver => subs[d] = 0 /\ \A n \in mail : n.from # d
    BY <2>2 DEF SubsInv, OneAtATime
  <2>7. \A n \in mail' : n.from \notin Conns
    BY <2>1, <2>4, <2>6
  <2>8. \A d \in Conns : subs'[d] = 0 \/ (d = driver' /\ subs'[d] = 1)
    BY <2>1, <2>3, <2>4, <2>5, <2>6 DEF Resubscribe
  <2> QED BY <2>7, <2>8 DEF OneAtATime
<1>4. ASSUME NEW cmd \in Commands, Sends(cmd)
      PROVE  OneAtATime'
  BY <1>4 DEF Sends, SubsInv, OneAtATime
<1>5. ASSUME NEW c \in Conns, Connects(c)
      PROVE  OneAtATime'
  <2>1. /\ driver' = c /\ subs' = [subs EXCEPT ![c] = @ + 1] /\ subs \in [Conns -> Nat]
        /\ mail' = mail /\ switched' = (switched \/ driver # 0)
    BY <1>5 DEF Connects, Connect, SubsInv, Typed
  <2>2. SUFFICES ASSUME ~ switched' PROVE OneAtATime'
    BY DEF OneAtATime
  <2>3. \A d \in Conns : subs[d] = 0 /\ \A m \in mail : m.from # d
    <3>1. ~ switched /\ driver = 0
      BY <2>1, <2>2
    <3>2. \A d \in Conns : d # driver
      BY <3>1 DEF Conns
    <3> QED BY <3>1, <3>2 DEF SubsInv, OneAtATime
  <2> QED BY <2>1, <2>3 DEF OneAtATime
<1>6. CASE Nothing
  BY <1>6 DEF Nothing, SubsInv, OneAtATime
<1> QED BY <1>1, <1>2, <1>3, <1>4, <1>5, <1>6, Steps DEF SubsInv

LEMMA StepSubs == SubsInv /\ [Next]_vars => SubsInv'
BY StepTyped, StepHolders, StepListened, StepOneAtATime DEF SubsInv

LEMMA Subscribed == Spec => []SubsInv
BY InitSubs, StepSubs, PTL DEF Spec

(* The connected agent is always listened to, by one subscription as long  *)
(* as the user leaves no agent that still runs.                            *)
THEOREM AlwaysListened == Spec => []OneListener
<1>1. SubsInv => OneListener
  <2> SUFFICES ASSUME SubsInv PROVE OneListener
    OBVIOUS
  <2>1. driver # 0 => subs[driver] > 0 \/ \E m \in mail : m.from = driver
    BY DEF SubsInv, Listened
  <2>2. ASSUME ~ switched, NEW c \in Conns
        PROVE  subs[c] + Cardinality({m \in mail : m.from = c}) =< 1
    <3> DEFINE M == {m \in mail : m.from = c}
    <3>1. subs[c] \in Nat /\ subs[c] <= 1
      BY <2>2 DEF SubsInv, Typed, OneAtATime
    <3>2. CASE M = {}
      BY <3>1, <3>2, FS_EmptySet
    <3>3. CASE M # {}
      <4>1. PICK m : M = {m}
        BY <2>2, <3>3 DEF SubsInv, OneAtATime
      <4>2. subs[c] = 0
        BY <2>2, <3>1, <3>3 DEF SubsInv, OneAtATime
      <4> HIDE DEF M
      <4>3. Cardinality(M) = 1
        BY <4>1, FS_Singleton
      <4> QED BY <4>2, <4>3 DEF M
    <3> QED BY <3>2, <3>3
  <2> QED BY <2>1, <2>2 DEF OneListener
<1> QED BY <1>1, Subscribed, PTL

-----------------------------------------------------------------------------
(* Requests.                                                               *)

Asks(id) == [kind |-> "permission", id |-> id]

(* The ids on their way to the user are of requests that were made ...     *)
IdsMade == \A c \in Conns :
    /\ \A i \in 1 .. Len(events[c]) :
           IsPermission(events[c][i]) => events[c][i].id <= asked[c]
    /\ \A m \in mail : m.from = c /\ IsPermission(m.event) => m.event.id <= asked[c]
    /\ \A r \in prompt : r.from = c => r.id <= asked[c]

(* ... and nothing comes after the newest.                                 *)
NewestLast ==
    ~ switched => \A c \in Conns :
        /\ \A i, j \in 1 .. Len(events[c]) :
               i < j /\ events[c][i] = Asks(asked[c]) => ~ IsPermission(events[c][j])
        /\ \A m \in mail : m.from = c /\ m.event = Asks(asked[c]) =>
               \A j \in 1 .. Len(events[c]) : ~ IsPermission(events[c][j])
        /\ [from |-> c, id |-> asked[c]] \in prompt =>
               /\ \A j \in 1 .. Len(events[c]) : ~ IsPermission(events[c][j])
               /\ \A m \in mail : m.from = c => ~ IsPermission(m.event)

Tracked(c) ==
    \/ \E i \in 1 .. Len(events[c]) : events[c][i] = Asks(asked[c])
    \/ \E m \in mail : m.from = c /\ m.event = Asks(asked[c])
    \/ [from |-> c, id |-> asked[c]] \in prompt
    \/ \E i \in 1 .. Len(cmds[c]) : cmds[c][i].kind = "answer" /\ cmds[c][i].id = asked[c]

NewestTracked ==
    ~ switched => \A c \in Conns : c = driver /\ asked[c] \in perms[c] => Tracked(c)

(* What is shown is the held driver's, and so are the answers.             *)
ShownIsHeld == ~ switched /\ driver # 0 => \A r \in prompt : r.from = driver

AnswersOwn ==
    ~ switched => \A c \in Conns : \A i \in 1 .. Len(cmds[c]) :
        cmds[c][i].kind = "answer" => cmds[c][i].shown = c

AskInv == SubsInv /\ IdsMade /\ NewestLast /\ NewestTracked /\ ShownIsHeld /\ AnswersOwn

LEMMA InitAsk == Init => AskInv
<1> SUFFICES ASSUME Init PROVE AskInv
  OBVIOUS
<1>1. \A c \in Conns : events[c] = <<>> /\ cmds[c] = <<>> /\ perms[c] = {}
  BY DEF Init, DriverInit
<1>2. mail = {} /\ prompt = {}
  BY DEF Init
<1>3. \A c \in Conns : Len(events[c]) = 0 /\ Len(cmds[c]) = 0
  BY <1>1
<1>4. IdsMade /\ NewestLast /\ ShownIsHeld
  BY <1>2, <1>3 DEF IdsMade, NewestLast, ShownIsHeld
<1>5. NewestTracked /\ AnswersOwn
  BY <1>1, <1>3 DEF NewestTracked, AnswersOwn
<1> QED BY <1>4, <1>5, InitSubs DEF AskInv

(* Of what is taken from the head the rest moves up by one. *)
LEMMA TailMoves ==
    ASSUME NEW S, NEW s \in Seq(S), s # <<>>
    PROVE  /\ Len(s) \in Nat /\ Len(s) > 0 /\ Tail(s) \in Seq(S) /\ Len(Tail(s)) = Len(s) - 1
           /\ Head(s) = s[1]
           /\ \A i \in 1 .. Len(Tail(s)) : i + 1 \in 1 .. Len(s) /\ Tail(s)[i] = s[i + 1]
           /\ \A i \in 1 .. Len(s) : i = 1 \/ (i - 1 \in 1 .. Len(Tail(s)) /\ Tail(s)[i - 1] = s[i])
<1>1. /\ Len(s) \in Nat /\ Len(s) > 0 /\ Tail(s) \in Seq(S) /\ Len(Tail(s)) = Len(s) - 1
      /\ Head(s) = s[1]
      /\ \A i \in 1 .. Len(Tail(s)) : Tail(s)[i] = s[i + 1]
  OBVIOUS
<1>2. ASSUME NEW i \in 1 .. Len(s), i # 1
      PROVE  i - 1 \in 1 .. Len(Tail(s)) /\ Tail(s)[i - 1] = s[i]
  <2>1. i - 1 \in 1 .. Len(Tail(s)) /\ (i - 1) + 1 = i
    BY <1>1, <1>2
  <2> QED BY <1>1, <2>1
<1> QED BY <1>1, <1>2

LEMMA Sizes ==
    ASSUME Typed
    PROVE  \A c \in Conns : Len(events[c]) \in Nat /\ Len(cmds[c]) \in Nat /\ asked[c] \in Nat
BY ConnsAssumption DEF Typed, DriverTypeOK

(* Steps of a driver. *)
LEMMA MoveIds ==
    ASSUME AskInv, NEW c \in Conns, Move(c), DriverTypeOK'
    PROVE  IdsMade'
<1> SUFFICES ASSUME NEW d \in Conns
             PROVE  /\ \A i \in 1 .. Len(events'[d]) :
                          IsPermission(events'[d][i]) => events'[d][i].id <= asked'[d]
                    /\ \A m \in mail : m.from = d /\ IsPermission(m.event) => m.event.id <= asked'[d]
                    /\ \A r \in prompt : r.from = d => r.id <= asked'[d]
  BY DEF IdsMade, Move
<1> USE Sizes DEF AskInv, SubsInv
<1>1. CASE d # c
  BY <1>1 DEF Move, Apart, IdsMade
<1>2. CASE d = c /\ NoAsk(c)
  <2>1. asked'[c] = asked[c] /\ Grows(c)
        /\ \A i \in 1 .. Len(events'[c]) : i > Len(events[c]) => ~ IsPermission(events'[c][i])
    BY <1>2 DEF NoAsk, Move, IsNew
  <2>2. \A i \in 1 .. Len(events'[c]) : IsPermission(events'[c][i]) =>
            i \in 1 .. Len(events[c]) /\ events'[c][i] = events[c][i]
    BY <2>1 DEF Grows
  <2> QED BY <1>2, <2>1, <2>2 DEF IdsMade
<1>3. CASE d = c /\ NewAsk(c)
  <2>1. asked'[c] = asked[c] + 1 /\ Grows(c)
    BY <1>3 DEF NewAsk, Move
  <2>2. /\ \A m \in mail : m.from = c /\ IsPermission(m.event) => m.event.id <= asked[c] + 1
        /\ \A r \in prompt : r.from = c => r.id <= asked[c] + 1
    <3>1. ASSUME NEW m \in mail, m.from = c, IsPermission(m.event)
          PROVE  m.event.id <= asked[c] + 1
      <4>1. m.event.id \in Nat
        BY <3>1 DEF Typed, Events, IsPermission
      <4> QED BY <3>1, <4>1 DEF IdsMade
    <3>2. ASSUME NEW r \in prompt, r.from = c
          PROVE  r.id <= asked[c] + 1
      <4>1. r.id \in Nat
        BY DEF Typed, Requests
      <4> QED BY <3>2, <4>1 DEF IdsMade
    <3> QED BY <3>1, <3>2
  <2>3. ASSUME NEW i \in 1 .. Len(events'[c]), IsPermission(events'[c][i])
        PROVE  events'[c][i].id <= asked[c] + 1
    <3>1. CASE i <= Len(events[c])
      <4>1. i \in 1 .. Len(events[c]) /\ events'[c][i] = events[c][i]
        BY <2>1, <3>1 DEF Grows
      <4>2. events[c][i] \in Events
        BY <4>1 DEF Typed, DriverTypeOK
      <4>3. events[c][i].id \in Nat
        BY <2>3, <4>1, <4>2 DEF Events, IsPermission
      <4> QED BY <2>3, <4>1, <4>3 DEF IdsMade
    <3>2. CASE ~ (i <= Len(events[c]))
      <4>1. held[c] /\ i = Len(events[c]) + 1
        BY <1>3, <3>2 DEF NewAsk
      <4>2. events'[c][i].id = asked[c] + 1
        BY <1>3, <2>1, <4>1 DEF NewAsk
      <4> QED BY <4>2
    <3> QED BY <3>1, <3>2
  <2> QED BY <1>3, <2>1, <2>2, <2>3
<1> QED BY <1>1, <1>2, <1>3 DEF Move

LEMMA MoveNewest ==
    ASSUME AskInv, NEW c \in Conns, Move(c), ~ switched, NEW d \in Conns
    PROVE  /\ \A i, j \in 1 .. Len(events'[d]) :
                i < j /\ events'[d][i] = Asks(asked'[d]) => ~ IsPermission(events'[d][j])
           /\ \A m \in mail : m.from = d /\ m.event = Asks(asked'[d]) =>
                \A j \in 1 .. Len(events'[d]) : ~ IsPermission(events'[d][j])
           /\ [from |-> d, id |-> asked'[d]] \in prompt =>
                /\ \A j \in 1 .. Len(events'[d]) : ~ IsPermission(events'[d][j])
                /\ \A m \in mail : m.from = d => ~ IsPermission(m.event)
<1> USE Sizes DEF AskInv, SubsInv
<1>1. CASE d # c
  BY <1>1 DEF Move, Apart, NewestLast
<1>2. CASE d = c /\ NoAsk(c)
  <2>1. asked'[c] = asked[c] /\ Grows(c)
        /\ \A i \in 1 .. Len(events'[c]) : i > Len(events[c]) => ~ IsPermission(events'[c][i])
    BY <1>2 DEF NoAsk, Move, IsNew
  <2>2. IsPermission(Asks(asked[c]))
    BY DEF IsPermission, Asks
  <2>3. \A i \in 1 .. Len(events'[c]) : IsPermission(events'[c][i]) =>
            i \in 1 .. Len(events[c]) /\ events'[c][i] = events[c][i]
    BY <2>1 DEF Grows
  <2>4. ASSUME NEW i \in 1 .. Len(events'[c]), NEW j \in 1 .. Len(events'[c]), i < j,
               events'[c][i] = Asks(asked[c])
        PROVE  ~ IsPermission(events'[c][j])
    BY <2>2, <2>3, <2>4 DEF NewestLast
  <2> QED BY <1>2, <2>1, <2>3, <2>4 DEF NewestLast
<1>3. CASE d = c /\ NewAsk(c)
  <2>1. asked'[c] = asked[c] + 1 /\ Grows(c)
    BY <1>3 DEF NewAsk, Move
  <2>2. IsPermission(Asks(asked'[c])) /\ Asks(asked'[c]).id = asked[c] + 1
    BY <2>1 DEF IsPermission, Asks
  <2>3. \A m \in mail : m.from = c => m.event # Asks(asked'[c])
    BY <2>2 DEF IdsMade
  <2>4. [from |-> c, id |-> asked'[c]] \notin prompt
    BY <2>1 DEF IdsMade
  <2>5. \A i \in 1 .. Len(events[c]) : events'[c][i] # Asks(asked'[c])
    BY <2>1, <2>2 DEF IdsMade, Grows
  <2>6. Len(events'[c]) <= Len(events[c]) + 1
    BY <1>3 DEF NewAsk
  <2>7. \A i, j \in 1 .. Len(events'[c]) : i < j => i \in 1 .. Len(events[c])
    BY <2>6
  <2> QED BY <1>3, <2>3, <2>4, <2>5, <2>7
<1> QED BY <1>1, <1>2, <1>3 DEF Move

LEMMA MoveTracked ==
    ASSUME AskInv, NEW c \in Conns, Move(c), ~ switched, c = driver, asked'[c] \in perms'[c]
    PROVE  Tracked(c)'
<1> USE Sizes DEF AskInv, SubsInv
<1>1. held[c]
  BY DEF Holders
<1>2. CASE NewAsk(c)
  <2>1. /\ Len(events[c]) + 1 \in 1 .. Len(events'[c])
        /\ events'[c][Len(events[c]) + 1] = Asks(asked'[c])
    BY <1>1, <1>2 DEF NewAsk, Asks
  <2> QED BY <2>1 DEF Tracked, Asks
<1>3. CASE NoAsk(c)
  <2>1. asked'[c] = asked[c] /\ asked[c] \in perms[c] /\ Grows(c)
        /\ UNCHANGED <<mail, prompt>>
    BY <1>3 DEF NoAsk, Move
  <2>2. Tracked(c)
    BY <2>1 DEF NewestTracked
  <2>3. CASE \E i \in 1 .. Len(events[c]) : events[c][i] = Asks(asked[c])
    <3>1. PICK i \in 1 .. Len(events[c]) : events[c][i] = Asks(asked[c])
      BY <2>3
    <3>2. i \in 1 .. Len(events'[c]) /\ events'[c][i] = Asks(asked'[c])
      BY <2>1, <3>1 DEF Grows
    <3> QED BY <3>2 DEF Tracked, Asks
  <2>4. CASE \/ \E m \in mail : m.from = c /\ m.event = Asks(asked[c])
             \/ [from |-> c, id |-> asked[c]] \in prompt
    BY <2>1, <2>4 DEF Tracked, Asks
  <2>5. CASE \E i \in 1 .. Len(cmds[c]) : cmds[c][i].kind = "answer" /\ cmds[c][i].id = asked[c]
    <3>1. PICK i \in 1 .. Len(cmds[c]) : cmds[c][i].kind = "answer" /\ cmds[c][i].id = asked[c]
      BY <2>5
    <3>2. CASE cmds'[c] = cmds[c]
      BY <2>1, <3>1, <3>2 DEF Tracked
    <3>3. CASE Takes(c)
      <4>1. cmds[c] \in Seq(Commands) /\ cmds[c] # <<>> /\ cmds'[c] = Tail(cmds[c])
        BY <3>3 DEF Takes, Typed, DriverTypeOK
      <4>2. i # 1
        <5>1. ASSUME i = 1 PROVE FALSE
          <6>1. Head(cmds[c]) = cmds[c][i]
            BY <4>1, <5>1, TailMoves
          <6>2. perms'[c] = perms[c] \ {asked[c]}
            BY <3>1, <3>3, <6>1 DEF Takes
          <6> QED BY <2>1, <6>2
        <5> QED BY <5>1
      <4>3. i - 1 \in 1 .. Len(cmds'[c]) /\ cmds'[c][i - 1] = cmds[c][i]
        <5> HIDE DEF Commands
        <5> QED BY <4>1, <4>2, TailMoves
      <4> QED BY <2>1, <3>1, <4>3 DEF Tracked
    <3> QED BY <3>2, <3>3 DEF Move
  <2> QED BY <2>2, <2>3, <2>4, <2>5 DEF Tracked
<1> QED BY <1>2, <1>3 DEF Move

LEMMA MoveAnswers ==
    ASSUME AskInv, NEW c \in Conns, Move(c), ~ switched, NEW d \in Conns,
           NEW i \in 1 .. Len(cmds'[d]), cmds'[d][i].kind = "answer"
    PROVE  cmds'[d][i].shown = d
<1> USE DEF AskInv, SubsInv
<1>1. CASE cmds'[d] = cmds[d]
  BY <1>1 DEF AnswersOwn
<1>2. CASE d = c /\ Takes(c)
  <2>1. cmds[c] \in Seq(Commands) /\ cmds[c] # <<>> /\ cmds'[c] = Tail(cmds[c])
    BY <1>2 DEF Takes, Typed, DriverTypeOK
  <2>2. i + 1 \in 1 .. Len(cmds[c]) /\ cmds'[c][i] = cmds[c][i + 1]
    <3> HIDE DEF Commands
    <3> QED BY <1>2, <2>1, TailMoves
  <2> QED BY <1>2, <2>2 DEF AnswersOwn
<1> QED BY <1>1, <1>2 DEF Move, Apart

LEMMA MoveAsk ==
    ASSUME AskInv, NEW c \in Conns, DriverActs(c) \/ AgentActs(c)
    PROVE  IdsMade' /\ NewestLast' /\ NewestTracked' /\ ShownIsHeld' /\ AnswersOwn'
<1>1. Move(c) /\ DriverTypeOK'
  BY DriverMoves DEF AskInv, SubsInv
<1>2. UNCHANGED <<switched, driver, mail, prompt>>
  BY <1>1 DEF Move
<1>3. IdsMade'
  BY <1>1, MoveIds
<1>4. NewestLast'
  BY <1>1, <1>2, MoveNewest DEF NewestLast, Asks
<1>5. ASSUME NEW d \in Conns, ~ switched, d = driver, asked'[d] \in perms'[d]
      PROVE  Tracked(d)'
  <2>1. CASE d = c
    BY <1>1, <1>5, <2>1, MoveTracked
  <2>2. CASE d # c
    <3>1. asked[d] \in perms[d] /\ Tracked(d)
      BY <1>1, <1>5, <2>2 DEF Move, Apart, AskInv, NewestTracked
    <3>2. /\ events'[d] = events[d] /\ cmds'[d] = cmds[d] /\ asked'[d] = asked[d]
          /\ UNCHANGED <<mail, prompt>>
      BY <1>1, <2>2 DEF Move, Apart
    <3> QED BY <3>1, <3>2 DEF Tracked, Asks
  <2> QED BY <2>1, <2>2
<1>6. NewestTracked'
  BY <1>2, <1>5 DEF NewestTracked
<1>7. ShownIsHeld'
  BY <1>2 DEF ShownIsHeld, AskInv
<1>8. AnswersOwn'
  BY <1>1, <1>2, MoveAnswers DEF AnswersOwn
<1> QED BY <1>3, <1>4, <1>6, <1>7, <1>8

(* An event arrives. *)
LEMMA ArrivesAsk ==
    ASSUME AskInv, NEW c \in Conns, NEW e \in Events, Arrives(c, e)
    PROVE  IdsMade' /\ NewestLast' /\ NewestTracked' /\ ShownIsHeld' /\ AnswersOwn'
<1> USE Sizes DEF AskInv, SubsInv
<1> DEFINE n == [from |-> c, event |-> e]
<1>1. /\ mail' = mail \cup {n} /\ subs[c] > 0
      /\ UNCHANGED <<driver, prompt, switched, cmds, perms, asked>>
  BY DEF Arrives, Deliver
<1>2. events \in [Conns -> Seq(Events)]
  BY DEF Typed, DriverTypeOK
<1>3. \A d \in Conns \ {c} : events'[d] = events[d]
  BY <1>2 DEF Arrives
<1>4. \/ e = Disconnected /\ events'[c] = events[c]
      \/ events[c] # <<>> /\ e = Head(events[c]) /\ events'[c] = Tail(events[c])
  BY <1>2 DEF Arrives
(* What is left is what was there, from some place on. *)
<1>5. PICK k \in {0, 1} :
        /\ k = 0 => ~ IsPermission(e) /\ events'[c] = events[c]
        /\ k = 1 => e = events[c][1] /\ 1 \in 1 .. Len(events[c])
        /\ \A i \in 1 .. Len(events'[c]) :
              i + k \in 1 .. Len(events[c]) /\ events'[c][i] = events[c][i + k]
        /\ \A i \in 1 .. Len(events[c]) :
              i = k \/ (i - k \in 1 .. Len(events'[c]) /\ events'[c][i - k] = events[c][i])
  <2>1. CASE e = Disconnected /\ events'[c] = events[c]
    <3>1. ~ IsPermission(e)
      BY <2>1, EventSeqs
    <3>2. \A i \in 1 .. Len(events[c]) : i + 0 = i /\ i - 0 = i
      OBVIOUS
    <3> WITNESS 0 \in {0, 1}
    <3> QED BY <2>1, <3>1, <3>2
  <2>2. CASE events[c] # <<>> /\ e = Head(events[c]) /\ events'[c] = Tail(events[c])
    <3> DEFINE s == events[c]
    <3>1. s \in Seq(Events) /\ s # <<>>
      BY <1>2, <2>2
    <3> HIDE DEF s, Events
    <3>2. /\ Len(s) \in Nat /\ Len(s) > 0 /\ Head(s) = s[1]
          /\ \A i \in 1 .. Len(Tail(s)) : i + 1 \in 1 .. Len(s) /\ Tail(s)[i] = s[i + 1]
          /\ \A i \in 1 .. Len(s) :
                i = 1 \/ (i - 1 \in 1 .. Len(Tail(s)) /\ Tail(s)[i - 1] = s[i])
      BY <3>1, TailMoves
    <3>3. e = s[1] /\ events'[c] = Tail(s) /\ events[c] = s
      BY <2>2, <3>2 DEF s
    <3> WITNESS 1 \in {0, 1}
    <3> QED BY <3>2, <3>3
  <2> QED BY <1>4, <2>1, <2>2
<1> HIDE DEF n
<1>6. n.from = c /\ n.event = e
  BY DEF n
<1>7. IdsMade'
  <2>1. ASSUME NEW i \in 1 .. Len(events'[c]), IsPermission(events'[c][i])
        PROVE  events'[c][i].id <= asked[c]
    BY <1>5, <2>1 DEF IdsMade
  <2>2. IsPermission(e) => e.id <= asked[c]
    BY <1>5 DEF IdsMade
  <2> QED BY <1>1, <1>3, <1>6, <2>1, <2>2 DEF IdsMade
<1>8. NewestLast'
  <2>1. SUFFICES ASSUME ~ switched, NEW d \in Conns
                 PROVE  /\ \A i, j \in 1 .. Len(events'[d]) :
                             i < j /\ events'[d][i] = Asks(asked[d]) => ~ IsPermission(events'[d][j])
                        /\ \A m \in mail' : m.from = d /\ m.event = Asks(asked[d]) =>
                             \A j \in 1 .. Len(events'[d]) : ~ IsPermission(events'[d][j])
                        /\ [from |-> d, id |-> asked[d]] \in prompt =>
                             /\ \A j \in 1 .. Len(events'[d]) : ~ IsPermission(events'[d][j])
                             /\ \A m \in mail' : m.from = d => ~ IsPermission(m.event)
    BY <1>1 DEF NewestLast, Asks
  <2>2. CASE d # c
    <3>1. \A m \in mail' : m.from = d => m \in mail
      BY <1>1, <1>6, <2>2
    <3> QED BY <1>3, <2>1, <2>2, <3>1 DEF NewestLast
  <2>3. CASE d = c
    <3>1. subs[c] = 1 /\ \A m \in mail : m.from # c
      <4>1. subs[c] \in Nat /\ subs[c] <= 1
        BY <2>1 DEF OneAtATime, Typed
      <4> QED BY <1>1, <2>1, <4>1 DEF OneAtATime
    <3>2. \A m \in mail' : m.from = c => m = n
      BY <1>1, <3>1
    <3>3. ASSUME NEW i \in 1 .. Len(events'[c]), NEW j \in 1 .. Len(events'[c]), i < j,
                 events'[c][i] = Asks(asked[c])
          PROVE  ~ IsPermission(events'[c][j])
      <4>1. /\ i + k \in 1 .. Len(events[c]) /\ events[c][i + k] = Asks(asked[c])
            /\ j + k \in 1 .. Len(events[c]) /\ events'[c][j] = events[c][j + k]
            /\ i + k < j + k
        <5>1. i + k \in 1 .. Len(events[c]) /\ events'[c][i] = events[c][i + k]
          BY <1>5
        <5>2. j + k \in 1 .. Len(events[c]) /\ events'[c][j] = events[c][j + k]
          BY <1>5
        <5>3. i + k < j + k
          BY <3>3
        <5> QED BY <3>3, <5>1, <5>2, <5>3
      <4> QED BY <2>1, <4>1 DEF NewestLast
    <3>4. ASSUME e = Asks(asked[c]), NEW j \in 1 .. Len(events'[c])
          PROVE  ~ IsPermission(events'[c][j])
      <4>1. k = 1
        BY <1>5, <3>4 DEF IsPermission, Asks
      <4>2. /\ 1 \in 1 .. Len(events[c]) /\ events[c][1] = Asks(asked[c])
            /\ j + 1 \in 1 .. Len(events[c]) /\ events'[c][j] = events[c][j + 1] /\ 1 < j + 1
        BY <1>5, <3>4, <4>1
      <4> QED BY <2>1, <4>2 DEF NewestLast
    <3>5. ASSUME [from |-> c, id |-> asked[c]] \in prompt
          PROVE  /\ ~ IsPermission(e)
                 /\ \A j \in 1 .. Len(events'[c]) : ~ IsPermission(events'[c][j])
      BY <1>5, <2>1, <3>5 DEF NewestLast
    <3> QED BY <1>6, <2>3, <3>2, <3>3, <3>4, <3>5
  <2> QED BY <2>2, <2>3
<1>9. NewestTracked'
  <2>1. SUFFICES ASSUME ~ switched, NEW d \in Conns, d = driver, asked[d] \in perms[d]
                 PROVE  Tracked(d)'
    BY <1>1 DEF NewestTracked
  <2>2. Tracked(d)
    BY <2>1 DEF NewestTracked
  <2>3. CASE \E i \in 1 .. Len(events[d]) : events[d][i] = Asks(asked[d])
    <3>1. PICK i \in 1 .. Len(events[d]) : events[d][i] = Asks(asked[d])
      BY <2>3
    <3>2. CASE d # c
      BY <1>1, <1>3, <3>1, <3>2 DEF Tracked, Asks
    <3>3. CASE d = c /\ i = k
      <4>1. n \in mail' /\ n.from = d /\ n.event = Asks(asked'[d])
        BY <1>1, <1>5, <1>6, <3>1, <3>3
      <4> QED BY <4>1 DEF Tracked, Asks
    <3>4. CASE d = c /\ i # k
      <4>1. i - k \in 1 .. Len(events'[d]) /\ events'[d][i - k] = Asks(asked'[d])
        BY <1>1, <1>5, <3>1, <3>4
      <4> QED BY <4>1 DEF Tracked, Asks
    <3> QED BY <3>2, <3>3, <3>4
  <2>4. CASE \/ \E m \in mail : m.from = d /\ m.event = Asks(asked[d])
             \/ [from |-> d, id |-> asked[d]] \in prompt
             \/ \E i \in 1 .. Len(cmds[d]) : cmds[d][i].kind = "answer" /\ cmds[d][i].id = asked[d]
    BY <1>1, <2>4 DEF Tracked, Asks
  <2> QED BY <2>2, <2>3, <2>4 DEF Tracked
<1>10. ShownIsHeld' /\ AnswersOwn'
  BY <1>1 DEF ShownIsHeld, AnswersOwn
<1> QED BY <1>7, <1>8, <1>9, <1>10

(* An event is folded. *)
LEMMA FoldAsk ==
    ASSUME AskInv, NEW m \in mail, FoldEvent(m)
    PROVE  IdsMade' /\ NewestLast' /\ NewestTracked' /\ ShownIsHeld' /\ AnswersOwn'
<1> USE Sizes DEF AskInv, SubsInv
<1>1. /\ mail' = mail \ {m}
      /\ UNCHANGED <<stage, cmds, events, perms, asked, switched>>
      /\ prompt' = IF IsPermission(m.event) THEN Asking(m) ELSE prompt
      /\ driver' = driver \/ driver' = 0
  BY DEF FoldEvent, Show, Reflect, IsPermission
<1>2. m.from \in Conns /\ m.event \in Events
  BY DEF Typed
<1>3. IsPermission(m.event) => m.event = Asks(m.event.id)
  BY <1>2 DEF Events, IsPermission, Asks
<1>4. \A r \in Asking(m) : r.from = m.from /\ r.id = m.event.id
  BY DEF Asking
<1>5. IdsMade'
  BY <1>1, <1>4 DEF IdsMade
<1>6. ~ switched => m.from = driver /\ \A n \in mail' : n.from # m.from
  BY <1>1, <1>2 DEF OneAtATime
<1>7. NewestLast'
  <2>1. SUFFICES ASSUME ~ switched, NEW d \in Conns, [from |-> d, id |-> asked[d]] \in prompt'
                 PROVE  /\ \A j \in 1 .. Len(events[d]) : ~ IsPermission(events[d][j])
                        /\ \A n \in mail' : n.from = d => ~ IsPermission(n.event)
    BY <1>1 DEF NewestLast, Asks
  <2>2. CASE [from |-> d, id |-> asked[d]] \in prompt
    BY <1>1, <2>1, <2>2 DEF NewestLast
  <2>3. CASE [from |-> d, id |-> asked[d]] \notin prompt
    <3>1. IsPermission(m.event) /\ m.from = d /\ m.event = Asks(asked[d])
      BY <1>1, <1>3, <1>4, <2>1, <2>3
    <3> QED BY <1>6, <2>1, <3>1 DEF NewestLast
  <2> QED BY <2>2, <2>3
<1>8. NewestTracked'
  <2>1. SUFFICES ASSUME ~ switched, NEW d \in Conns, d = driver', asked[d] \in perms[d]
                 PROVE  Tracked(d)'
    BY <1>1 DEF NewestTracked
  <2>2. d = driver /\ Tracked(d)
    BY <1>1, <2>1 DEF NewestTracked, Conns
  <2>3. m.from = d
    BY <1>6, <2>1, <2>2
  <2>4. CASE \/ \E i \in 1 .. Len(events[d]) : events[d][i] = Asks(asked[d])
             \/ \E i \in 1 .. Len(cmds[d]) : cmds[d][i].kind = "answer" /\ cmds[d][i].id = asked[d]
    BY <1>1, <2>4 DEF Tracked, Asks
  <2>5. CASE \E n \in mail : n.from = d /\ n.event = Asks(asked[d])
    <3>1. m.event = Asks(asked[d])
      BY <2>1, <2>3, <2>5 DEF OneAtATime
    <3>2. IsPermission(m.event) /\ m.event.id = asked[d]
      BY <3>1 DEF IsPermission, Asks
    <3>3. [from |-> d, id |-> asked'[d]] \in prompt'
      BY <1>1, <2>3, <3>2 DEF Asking
    <3> QED BY <3>3 DEF Tracked
  <2>6. CASE [from |-> d, id |-> asked[d]] \in prompt
    <3>1. ~ IsPermission(m.event)
      BY <2>1, <2>3, <2>6 DEF NewestLast
    <3> QED BY <1>1, <2>6, <3>1 DEF Tracked
  <2> QED BY <2>2, <2>4, <2>5, <2>6 DEF Tracked
<1>9. ShownIsHeld'
  BY <1>1, <1>4, <1>6 DEF ShownIsHeld
<1>10. AnswersOwn'
  BY <1>1 DEF AnswersOwn
<1> QED BY <1>5, <1>7, <1>8, <1>9, <1>10

(* A command is sent. *)
LEMMA SendsAsk ==
    ASSUME AskInv, NEW cmd \in Commands, Sends(cmd)
    PROVE  IdsMade' /\ NewestLast' /\ NewestTracked' /\ ShownIsHeld' /\ AnswersOwn'
<1> USE Sizes DEF AskInv, SubsInv
<1>1. /\ UNCHANGED <<stage, events, perms, asked, mail, driver, switched>>
      /\ prompt' = prompt \/ prompt' = {}
  BY DEF Sends, Send
<1>2. /\ \A c \in Conns : c # driver => cmds'[c] = cmds[c]
      /\ \A c \in Conns : c = driver /\ stage[c] = "gone" => cmds'[c] = cmds[c]
      /\ \A c \in Conns : c = driver /\ stage[c] # "gone" =>
             /\ Len(cmds'[c]) = Len(cmds[c]) + 1
             /\ \A i \in 1 .. Len(cmds[c]) : cmds'[c][i] = cmds[c][i]
             /\ cmds'[c][Len(cmds[c]) + 1] = cmd
  BY SentOne DEF Sends
<1>3. IdsMade' /\ NewestLast' /\ ShownIsHeld'
  BY <1>1 DEF IdsMade, NewestLast, ShownIsHeld, Asks
<1>4. NewestTracked'
  <2>1. SUFFICES ASSUME ~ switched, NEW d \in Conns, d = driver, asked[d] \in perms[d]
                 PROVE  Tracked(d)'
    BY <1>1 DEF NewestTracked
  <2>2. Tracked(d) /\ stage[d] # "gone"
    BY <2>1 DEF NewestTracked, AsksInSession
  <2>3. CASE \/ \E i \in 1 .. Len(events[d]) : events[d][i] = Asks(asked[d])
             \/ \E m \in mail : m.from = d /\ m.event = Asks(asked[d])
    BY <1>1, <2>3 DEF Tracked, Asks
  <2>4. CASE \E i \in 1 .. Len(cmds[d]) : cmds[d][i].kind = "answer" /\ cmds[d][i].id = asked[d]
    <3>1. PICK i \in 1 .. Len(cmds[d]) : cmds[d][i].kind = "answer" /\ cmds[d][i].id = asked[d]
      BY <2>4
    <3>2. i \in 1 .. Len(cmds'[d]) /\ cmds'[d][i] = cmds[d][i]
      BY <1>2, <2>1, <2>2, <3>1
    <3> QED BY <1>1, <3>1, <3>2 DEF Tracked
  <2>5. CASE [from |-> d, id |-> asked[d]] \in prompt
    <3>1. CASE prompt' = prompt
      BY <1>1, <2>5, <3>1 DEF Tracked
    <3>2. CASE prompt' # prompt
      <4>1. cmd.kind = "answer" /\ [from |-> cmd.shown, id |-> cmd.id] \in prompt
        BY <3>2 DEF Sends
      <4>2. cmd.id = asked[d]
        BY <2>5, <4>1 DEF Typed, AloneInPrompt
      <4>3. Len(cmds[d]) + 1 \in 1 .. Len(cmds'[d]) /\ cmds'[d][Len(cmds[d]) + 1] = cmd
        BY <1>2, <2>1, <2>2
      <4> QED BY <1>1, <4>1, <4>2, <4>3 DEF Tracked
    <3> QED BY <3>1, <3>2
  <2> QED BY <2>2, <2>3, <2>4, <2>5 DEF Tracked
<1>5. ASSUME ~ switched, NEW d \in Conns, NEW i \in 1 .. Len(cmds'[d]), cmds'[d][i].kind = "answer"
      PROVE  cmds'[d][i].shown = d
  <2>1. CASE cmds'[d] = cmds[d]
    BY <1>5, <2>1 DEF AnswersOwn
  <2>2. CASE d = driver /\ stage[d] # "gone" /\ i \in 1 .. Len(cmds[d])
    BY <1>2, <1>5, <2>2 DEF AnswersOwn
  <2>3. CASE d = driver /\ stage[d] # "gone" /\ i = Len(cmds[d]) + 1
    <3>1. cmds'[d][i] = cmd
      BY <1>2, <2>3
    <3>2. [from |-> cmd.shown, id |-> cmd.id] \in prompt
      BY <1>5, <3>1 DEF Sends
    <3>3. driver # 0
      BY <2>3 DEF Conns
    <3>4. [from |-> cmd.shown, id |-> cmd.id].from = driver
      BY <1>5, <3>2, <3>3 DEF ShownIsHeld
    <3> QED BY <2>3, <3>1, <3>4
  <2> QED BY <1>2, <2>1, <2>2, <2>3
<1>6. AnswersOwn'
  BY <1>1, <1>5 DEF AnswersOwn
<1> QED BY <1>3, <1>4, <1>6

(* A connection is made. *)
LEMMA ConnectsAsk ==
    ASSUME AskInv, NEW c \in Conns, Connects(c)
    PROVE  IdsMade' /\ NewestLast' /\ NewestTracked' /\ ShownIsHeld' /\ AnswersOwn'
<1> USE DEF AskInv, SubsInv
<1>1. /\ UNCHANGED <<cmds, events, perms, asked, mail, prompt>> /\ prompt = {}
      /\ driver' = c /\ (~ switched' => ~ switched)
  BY DEF Connects, Connect
<1>2. IdsMade' /\ NewestLast' /\ ShownIsHeld' /\ AnswersOwn'
  BY <1>1 DEF IdsMade, NewestLast, ShownIsHeld, AnswersOwn, Asks
<1>3. perms[c] = {}
  <2>1. stage[c] = "none"
    BY DEF Connects, Unopened, Typed
  <2> QED BY <2>1 DEF AsksInSession
<1>4. NewestTracked'
  BY <1>1, <1>3 DEF NewestTracked
<1> QED BY <1>2, <1>4

LEMMA StepAsk == AskInv /\ [Next]_vars => AskInv'
<1> SUFFICES ASSUME AskInv, [Next]_vars PROVE AskInv'
  OBVIOUS
<1> DEFINE G == IdsMade /\ NewestLast /\ NewestTracked /\ ShownIsHeld /\ AnswersOwn
<1>1. ASSUME Nothing PROVE G'
  <2>1. UNCHANGED <<stage, cmds, events, perms, asked, mail, prompt, driver, switched>>
    BY <1>1 DEF Nothing, driverVars
  <2>2. IdsMade' /\ NewestLast' /\ ShownIsHeld' /\ AnswersOwn'
    BY <2>1 DEF IdsMade, NewestLast, ShownIsHeld, AnswersOwn, Asks, AskInv
  <2>3. NewestTracked'
    BY <2>1 DEF NewestTracked, Tracked, Asks, AskInv
  <2> QED BY <2>2, <2>3
<1>2. Typed
  BY DEF AskInv, SubsInv
<1>3. G'
  <2> HIDE DEF G
  <2>1. ASSUME NEW c \in Conns, DriverActs(c) \/ AgentActs(c) PROVE G'
    BY <2>1, MoveAsk DEF G
  <2>2. ASSUME NEW c \in Conns, NEW e \in Events, Arrives(c, e) PROVE G'
    BY <2>2, ArrivesAsk DEF G
  <2>3. ASSUME NEW m \in mail, FoldEvent(m) PROVE G'
    BY <2>3, FoldAsk DEF G
  <2>4. ASSUME NEW cmd \in Commands, Sends(cmd) PROVE G'
    BY <2>4, SendsAsk DEF G
  <2>5. ASSUME NEW c \in Conns, Connects(c) PROVE G'
    BY <2>5, ConnectsAsk DEF G
  <2> QED BY <1>1, <1>2, <2>1, <2>2, <2>3, <2>4, <2>5, Steps
<1> QED BY <1>3, StepSubs DEF AskInv

LEMMA Asked == Spec => []AskInv
BY InitAsk, StepAsk, PTL DEF Spec

(* The newest request of the agent is never lost: until it is answered it  *)
(* is on its way to the screen, on it, or its answer is on the way back.   *)
THEOREM RequestNeverLost == Spec => []RequestTracked
<1>1. AskInv => RequestTracked
  <2> SUFFICES ASSUME AskInv, ~ switched, NEW c \in Conns, c = driver, asked[c] \in perms[c]
               PROVE  \/ [kind |-> "permission", id |-> asked[c]] \in Unread(c)
                      \/ [from |-> c, id |-> asked[c]] \in prompt
                      \/ \E i \in DOMAIN cmds[c] :
                            cmds[c][i].kind = "answer" /\ cmds[c][i].id = asked[c]
    BY DEF RequestTracked
  <2>1. Tracked(c)
    BY DEF AskInv, NewestTracked
  <2>2. DOMAIN cmds[c] = 1 .. Len(cmds[c]) /\ DOMAIN events[c] = 1 .. Len(events[c])
    BY DEF AskInv, SubsInv, Typed, DriverTypeOK
  <2> QED BY <2>1, <2>2 DEF Tracked, Asks, Unread
<1> QED BY <1>1, Asked, PTL

(* Of an application that leaves no agent while it runs, the choice of the *)
(* user reaches the agent whose request was shown, and no other.           *)
THEOREM AnswersReachTheirAgent == Spec => RightAnswerAlone
<1>1. AskInv /\ [Next]_vars =>
        [~ switched => \A c \in Conns : AnswerTo(c) => Head(cmds[c]).shown = c]_vars
  <2> SUFFICES ASSUME AskInv, [Next]_vars, ~ switched, NEW c \in Conns, AnswerTo(c)
               PROVE  Head(cmds[c]).shown = c
    OBVIOUS
  <2>1. /\ cmds[c] # <<>> /\ perms'[c] # perms[c] /\ stage'[c] = "ready"
        /\ cmds'[c] = Tail(cmds[c]) /\ cmds[c] \in Seq(Commands)
    BY DEF AnswerTo, AskInv, SubsInv, Typed, DriverTypeOK
  <2>2. Len(Tail(cmds[c])) # Len(cmds[c]) /\ Head(cmds[c]) = cmds[c][1] /\ 1 \in 1 .. Len(cmds[c])
    <3> HIDE DEF Commands
    <3> QED BY <2>1
  <2>3. Head(cmds[c]).kind = "answer"
    <3>1. ASSUME NEW d \in Conns, DriverActs(d) \/ AgentActs(d)
          PROVE  Head(cmds[c]).kind = "answer"
      <4>1. Move(d)
        BY <3>1, DriverMoves DEF AskInv, SubsInv
      <4> QED BY <2>1, <2>2, <4>1 DEF Move, Apart, Takes
    <3>2. ASSUME NEW d \in Conns, NEW e \in Events, Arrives(d, e)
          PROVE  FALSE
      BY <2>1, <3>2 DEF Arrives, Deliver
    <3>3. ASSUME NEW m \in mail, FoldEvent(m) PROVE FALSE
      BY <2>1, <3>3 DEF FoldEvent
    <3>4. ASSUME NEW cmd \in Commands, Sends(cmd) PROVE FALSE
      BY <2>1, <3>4 DEF Sends, Send
    <3>5. ASSUME NEW d \in Conns, Connects(d) PROVE FALSE
      BY <2>1, <3>5 DEF Connects, Connect
    <3>6. ASSUME Nothing PROVE FALSE
      BY <2>1, <3>6 DEF Nothing, driverVars
    <3> QED BY <3>1, <3>2, <3>3, <3>4, <3>5, <3>6, Steps DEF AskInv, SubsInv
  <2> QED BY <2>2, <2>3 DEF AskInv, AnswersOwn
<1> QED BY <1>1, Asked, PTL DEF Spec, RightAnswerAlone

-----------------------------------------------------------------------------
(* The spinner.                                                            *)

Owed(c) ==
    \/ turns[c] > 0
    \/ \E i \in 1 .. Len(cmds[c]) : cmds[c][i].kind = "prompt"
    \/ \E i \in 1 .. Len(events[c]) : EndsTurn(events[c][i])
    \/ \E m \in mail : m.from = c /\ EndsTurn(m.event)
    \/ stage[c] = "gone"

SpinInv == streaming /\ ~ switched /\ ~ dropped => driver # 0 /\ Owed(driver)

LEMMA DriverIsOne ==
    ASSUME Typed
    PROVE  driver # 0 => driver \in Conns
BY ConnsAssumption DEF Typed, Conns

LEMMA MoveSpin ==
    ASSUME SubsInv, SpinInv, NEW c \in Conns, DriverActs(c) \/ AgentActs(c)
    PROVE  SpinInv'
<1> USE DEF SubsInv
<1>1. Move(c)
  BY DriverMoves
<1>2. /\ UNCHANGED <<driver, mail, streaming, switched, held>>
      /\ (dropped => dropped')
  BY <1>1 DEF Move
<1>3. SUFFICES ASSUME streaming, ~ switched, ~ dropped' PROVE driver # 0 /\ Owed(driver)'
  BY <1>2 DEF SpinInv
<1>4. driver # 0 /\ driver \in Conns /\ Owed(driver)
  BY <1>2, <1>3, DriverIsOne DEF SpinInv
<1>5. CASE driver # c
  <2>1. /\ turns'[driver] = turns[driver] /\ cmds'[driver] = cmds[driver]
        /\ events'[driver] = events[driver] /\ stage'[driver] = stage[driver]
    BY <1>1, <1>4, <1>5 DEF Move, Apart
  <2> QED BY <1>2, <1>4, <2>1 DEF Owed
<1>6. CASE driver = c
  <2>1. held[c] /\ driver' = c
    BY <1>2, <1>6 DEF Holders
  <2>2. CASE turns[c] > 0
    <3>1. turns[c] \in Nat
      BY DEF Typed, DriverTypeOK
    <3>2. CASE turns'[c] >= turns[c]
      <4>1. turns'[c] \in Nat
        BY DriverMoves DEF DriverTypeOK
      <4>2. turns'[c] > 0
        BY <2>2, <3>1, <3>2, <4>1
      <4> QED BY <1>4, <1>6, <2>1, <4>2 DEF Owed
    <3> QED BY <1>1, <1>4, <1>6, <2>1, <3>2 DEF Move, TurnTold, Owed
  <2>3. CASE \E i \in 1 .. Len(cmds[c]) : cmds[c][i].kind = "prompt"
    <3>1. PICK i \in 1 .. Len(cmds[c]) : cmds[c][i].kind = "prompt"
      BY <2>3
    <3>2. CASE cmds'[c] = cmds[c]
      BY <1>4, <1>6, <2>1, <3>1, <3>2 DEF Owed
    <3>3. CASE Takes(c)
      <4>1. cmds[c] \in Seq(Commands) /\ cmds[c] # <<>> /\ cmds'[c] = Tail(cmds[c])
        BY <3>3 DEF Takes, Typed, DriverTypeOK
      <4>2. /\ Head(cmds[c]) = cmds[c][1]
            /\ i = 1 \/ (i - 1 \in 1 .. Len(cmds'[c]) /\ cmds'[c][i - 1] = cmds[c][i])
        <5> HIDE DEF Commands
        <5> QED BY <4>1, TailMoves
      <4>3. CASE i = 1
        <5>1. turns'[c] = turns[c] + 1 /\ turns[c] \in Nat
          BY <1>3, <3>1, <3>3, <4>2, <4>3 DEF Takes, Typed, DriverTypeOK
        <5>2. turns'[c] > 0
          BY <5>1
        <5> QED BY <1>4, <1>6, <2>1, <5>2 DEF Owed
      <4>4. CASE i # 1
        BY <1>4, <1>6, <2>1, <3>1, <4>2, <4>4 DEF Owed
      <4> QED BY <4>3, <4>4
    <3> QED BY <1>1, <3>2, <3>3 DEF Move
  <2>4. CASE \E i \in 1 .. Len(events[c]) : EndsTurn(events[c][i])
    <3>1. PICK i \in 1 .. Len(events[c]) : EndsTurn(events[c][i])
      BY <2>4
    <3>2. i \in 1 .. Len(events'[c]) /\ EndsTurn(events'[c][i])
      <4>1. Len(events[c]) \in Nat /\ Len(events'[c]) \in Nat
        BY DriverMoves DEF Typed, DriverTypeOK
      <4> QED BY <1>1, <3>1, <4>1 DEF Move, Grows
    <3> QED BY <1>4, <1>6, <2>1, <3>2 DEF Owed
  <2>5. CASE \/ \E m \in mail : m.from = c /\ EndsTurn(m.event)
             \/ stage[c] = "gone"
    BY <1>1, <1>2, <1>4, <1>6, <2>1, <2>5 DEF Owed, Move
  <2> QED BY <1>4, <1>6, <2>2, <2>3, <2>4, <2>5 DEF Owed
<1> QED BY <1>5, <1>6

LEMMA ArrivesSpin ==
    ASSUME SubsInv, SpinInv, NEW c \in Conns, NEW e \in Events, Arrives(c, e)
    PROVE  SpinInv'
<1> USE DEF SubsInv
<1> DEFINE n == [from |-> c, event |-> e]
<1>1. /\ mail' = mail \cup {n}
      /\ UNCHANGED <<driver, streaming, switched, dropped, cmds, turns, stage>>
  BY DEF Arrives, Deliver
<1>2. events \in [Conns -> Seq(Events)]
  BY DEF Typed, DriverTypeOK
<1>3. SUFFICES ASSUME streaming, ~ switched, ~ dropped PROVE driver # 0 /\ Owed(driver)'
  BY <1>1 DEF SpinInv
<1>4. driver # 0 /\ driver \in Conns /\ Owed(driver)
  BY <1>3, DriverIsOne DEF SpinInv
<1>5. n \in mail' /\ n.from = c /\ n.event = e
  BY <1>1
<1>6. CASE \E i \in 1 .. Len(events[driver]) : EndsTurn(events[driver][i])
  <2>1. PICK i \in 1 .. Len(events[driver]) : EndsTurn(events[driver][i])
    BY <1>6
  <2>2. CASE events'[driver] = events[driver]
    BY <1>1, <1>4, <2>1, <2>2 DEF Owed
  <2>3. CASE events'[driver] # events[driver]
    <3>1. /\ c = driver /\ events[c] # <<>> /\ e = Head(events[c])
          /\ events'[c] = Tail(events[c]) /\ events[c] \in Seq(Events)
      BY <1>2, <1>4, <2>3 DEF Arrives
    <3>2. /\ Head(events[c]) = events[c][1]
          /\ i = 1 \/ (i - 1 \in 1 .. Len(events'[c]) /\ events'[c][i - 1] = events[c][i])
      <4> HIDE DEF Events
      <4> QED BY <2>1, <3>1, TailMoves
    <3>3. CASE i = 1
      BY <1>1, <1>4, <1>5, <2>1, <3>1, <3>2, <3>3 DEF Owed
    <3>4. CASE i # 1
      BY <1>1, <1>4, <2>1, <3>1, <3>2, <3>4 DEF Owed
    <3> QED BY <3>3, <3>4
  <2> QED BY <2>2, <2>3
<1>7. CASE ~ \E i \in 1 .. Len(events[driver]) : EndsTurn(events[driver][i])
  BY <1>1, <1>4, <1>7 DEF Owed
<1> QED BY <1>6, <1>7

LEMMA FoldSpin ==
    ASSUME SubsInv, SpinInv, NEW m \in mail, FoldEvent(m)
    PROVE  SpinInv'
<1> USE DEF SubsInv
<1>1. /\ mail' = mail \ {m}
      /\ UNCHANGED <<stage, cmds, events, turns, switched, dropped>>
      /\ streaming' <=> streaming /\ m.event.kind \notin {"turnEnded", "error", "disconnected"}
      /\ m.event.kind # "disconnected" => driver' = driver
  BY DEF FoldEvent, Show, Reflect
<1>0. EndsTurn(m.event) => m.event.kind \in {"turnEnded", "error", "disconnected"}
  BY DEF EndsTurn, TurnEnded, Error, Disconnected
<1>2. SUFFICES ASSUME streaming', ~ switched, ~ dropped PROVE driver' # 0 /\ Owed(driver)'
  BY <1>1 DEF SpinInv
<1>3. driver # 0 /\ Owed(driver) /\ driver' = driver /\ ~ EndsTurn(m.event)
  BY <1>0, <1>1, <1>2 DEF SpinInv
<1>4. \A n \in mail : EndsTurn(n.event) => n \in mail'
  BY <1>1, <1>3
<1> QED BY <1>1, <1>3, <1>4 DEF Owed

LEMMA SendsSpin ==
    ASSUME SubsInv, SpinInv, NEW cmd \in Commands, Sends(cmd)
    PROVE  SpinInv'
<1> USE DEF SubsInv
<1>1. /\ UNCHANGED <<stage, events, turns, mail, driver, switched, dropped>>
      /\ streaming' = streaming \/ (cmd.kind = "prompt" /\ driver # 0)
  BY DEF Sends, Send
<1>2. SUFFICES ASSUME streaming', ~ switched, ~ dropped PROVE driver # 0 /\ Owed(driver)'
  BY <1>1 DEF SpinInv
<1>3. driver # 0 /\ driver \in Conns /\ (cmd.kind = "prompt" \/ Owed(driver))
  BY <1>1, <1>2, DriverIsOne DEF SpinInv
<1>4. CASE stage[driver] = "gone"
  BY <1>1, <1>3, <1>4 DEF Owed
<1>5. CASE stage[driver] # "gone"
  <2>1. /\ Len(cmds'[driver]) = Len(cmds[driver]) + 1 /\ Len(cmds[driver]) \in Nat
        /\ \A i \in 1 .. Len(cmds[driver]) : cmds'[driver][i] = cmds[driver][i]
        /\ cmds'[driver][Len(cmds[driver]) + 1] = cmd
    BY <1>3, <1>5, SentOne, Sizes DEF Sends
  <2>2. CASE cmd.kind = "prompt"
    <3>1. Len(cmds[driver]) + 1 \in 1 .. Len(cmds'[driver])
      BY <2>1
    <3> QED BY <1>1, <1>3, <2>1, <2>2, <3>1 DEF Owed
  <2>3. CASE \E i \in 1 .. Len(cmds[driver]) : cmds[driver][i].kind = "prompt"
    <3>1. PICK i \in 1 .. Len(cmds[driver]) : cmds[driver][i].kind = "prompt"
      BY <2>3
    <3>2. i \in 1 .. Len(cmds'[driver]) /\ cmds'[driver][i].kind = "prompt"
      BY <2>1, <3>1
    <3> QED BY <1>1, <1>3, <3>2 DEF Owed
  <2>4. CASE \/ turns[driver] > 0
             \/ \E i \in 1 .. Len(events[driver]) : EndsTurn(events[driver][i])
             \/ \E m \in mail : m.from = driver /\ EndsTurn(m.event)
    BY <1>1, <1>3, <2>4 DEF Owed
  <2> QED BY <1>3, <1>5, <2>2, <2>3, <2>4 DEF Owed
<1> QED BY <1>4, <1>5

LEMMA StepSpin == SubsInv /\ SpinInv /\ [Next]_vars => SpinInv'
<1> SUFFICES ASSUME SubsInv, SpinInv, [Next]_vars PROVE SpinInv'
  OBVIOUS
<1>1. ASSUME NEW c \in Conns, Connects(c) PROVE SpinInv'
  <2>1. /\ UNCHANGED <<streaming, dropped>>
        /\ ~ switched' => ~ switched /\ driver = 0
    BY <1>1 DEF Connects, Connect
  <2> QED BY <2>1 DEF SpinInv
<1>2. CASE Nothing
  <2>1. UNCHANGED <<stage, cmds, events, turns, mail, streaming, driver, switched, dropped>>
    BY <1>2 DEF Nothing, driverVars
  <2> QED BY <2>1 DEF SpinInv, Owed
<1> QED BY <1>1, <1>2, MoveSpin, ArrivesSpin, FoldSpin, SendsSpin, Steps DEF SubsInv

(* While the spinner turns, something is owed that will stop it.           *)
THEOREM SpinnerHasReason == Spec => []SpinnerOwed
<1>1. SubsInv /\ SpinInv => SpinnerOwed
  <2> SUFFICES ASSUME SubsInv, SpinInv, streaming, ~ switched, ~ dropped
               PROVE  /\ driver # 0
                      /\ \/ turns[driver] > 0
                         \/ \E i \in DOMAIN cmds[driver] : cmds[driver][i].kind = "prompt"
                         \/ Unread(driver) \cap {TurnEnded, Error, Disconnected} # {}
                         \/ stage[driver] = "gone"
    BY DEF SpinnerOwed
  <2>1. driver # 0 /\ driver \in Conns /\ Owed(driver)
    BY DriverIsOne DEF SpinInv, SubsInv
  <2>2. /\ DOMAIN cmds[driver] = 1 .. Len(cmds[driver])
        /\ DOMAIN events[driver] = 1 .. Len(events[driver])
    BY <2>1 DEF SubsInv, Typed, DriverTypeOK
  <2> QED BY <2>1, <2>2 DEF Owed, EndsTurn, Unread
<1>2. Init => SpinInv
  BY DEF Init, SpinInv
<1>3. Spec => []SpinInv
  BY <1>2, StepSpin, Subscribed, PTL DEF Spec
<1> QED BY <1>1, <1>3, Subscribed, PTL
=============================================================================
