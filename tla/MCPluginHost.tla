---------------------------- MODULE MCPluginHost ----------------------------
(* Instances of PluginHost for TLC. *)
EXTENDS PluginHost

CONSTANTS read, exec

MCAsks    == {read, exec}
MCAllowed == {read}
MCFrames  == [k \in Kinds |-> IF k = "sdk" THEN 6 ELSE 3]
MCManifests == {{}, Hooks}
=============================================================================
