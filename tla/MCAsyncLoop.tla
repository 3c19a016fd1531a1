---------------------------- MODULE MCAsyncLoop -----------------------------
(* Instances of AsyncLoop for TLC. *)
EXTENDS AsyncLoop

(* Commands of an app: none, one effect, two, a quit, and a quit batched   *)
(* between two effects.                                                    *)
MCCommands ==
    {<<>>, <<"work">>, <<"work", "work">>, <<"quit">>, <<"work", "quit", "work">>}
=============================================================================
