---------------------------- MODULE MCShmChannel ----------------------------
(* Instances of ShmChannel for TLC. *)
EXTENDS ShmChannel

MCSizes == {0, 2}
OneWay  == [e \in Ends |-> IF e = "host" THEN 2 ELSE 0]
Reply   == [e \in Ends |-> IF e = "host" THEN 2 ELSE 1]
Nobody  == {}
Host    == {"host"}
=============================================================================
