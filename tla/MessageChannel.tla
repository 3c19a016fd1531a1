--------------------------- MODULE MessageChannel ---------------------------
(***************************************************************************)
(* What an rstui-acp-shm channel promises its two ends: each direction     *)
(* delivers the messages sent, whole, once and in order, and a receiver is *)
(* told of the end of the stream only after the channel has been closed.   *)
(* ShmChannel implements it.                                               *)
(***************************************************************************)
EXTENDS Naturals, Sequences

CONSTANTS Ends, Messages

VARIABLES
    sent,       \* per sender, the messages whose send returned or is about to
    received,   \* per sender, those its peer has received
    over,       \* the channel has been closed
    ended       \* ends that have been told of the end of the stream

vars == <<sent, received, over, ended>>

Init ==
    /\ sent = [e \in Ends |-> <<>>] /\ received = [e \in Ends |-> <<>>]
    /\ over = FALSE
    /\ ended = {}

Send(e) ==
    /\ \E m \in Messages : sent' = [sent EXCEPT ![e] = Append(@, m)]
    /\ UNCHANGED <<received, over, ended>>

Receive(e) ==
    /\ Len(received[e]) < Len(sent[e])
    /\ received' = [received EXCEPT ![e] = Append(@, sent[e][Len(@) + 1])]
    /\ UNCHANGED <<sent, over, ended>>

Close ==
    /\ over' = TRUE
    /\ UNCHANGED <<sent, received, ended>>

End(e) ==
    /\ over
    /\ ended' = ended \cup {e}
    /\ UNCHANGED <<sent, received, over>>

Next == Close \/ \E e \in Ends : Send(e) \/ Receive(e) \/ End(e)

Spec == Init /\ [][Next]_vars
=============================================================================
