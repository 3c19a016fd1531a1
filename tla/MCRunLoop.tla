----------------------------- MODULE MCRunLoop ------------------------------
(* Instances of RunLoop for TLC. *)
EXTENDS RunLoop

(* Commands of an app: none, one message, a batch, a quit, and a quit      *)
(* batched between two effects.                                            *)
MCCommands ==
    {<<>>, <<"work">>, <<"work", "work">>, <<"quit">>, <<"work", "quit", "work">>}

Bool == {TRUE, FALSE}
=============================================================================
