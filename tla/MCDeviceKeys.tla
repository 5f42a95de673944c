---------------------------- MODULE MCDeviceKeys ----------------------------
(* The root device rotates its keys, for two tasks of the sender or, longer,*)
(* for one; or two more devices are added, whose certificates may expire;   *)
(* or the root and one more device set a profile.                           *)
EXTENDS Profiles

MCCalling ==
  [w \in Workloads |-> CASE w = "rotations" -> Callers \ {Reader}
                         [] w \in {"longer", "devices"} -> {Sender}
                         [] w = "profiles" -> {Reader}]
MCBundles == {[expiry |-> e, can |-> c] : e \in 1 .. 2, c \in BOOLEAN} \ {[expiry |-> 1, can |-> FALSE]}
MCMaxKeys ==
  [w \in Workloads |->
     [d \in Devices |-> CASE w = "rotations" -> IF d = Root THEN 3 ELSE 0
                          [] w = "longer" -> IF d = Root THEN 5 ELSE 0
                          [] w = "devices" -> IF d = "a" THEN 2 ELSE 1
                          [] w = "profiles" -> IF d = "b" THEN 0 ELSE 1]]
MCMaxMessages ==
  [w \in Workloads |-> CASE w \in {"rotations", "longer"} -> 2 [] w = "devices" -> 1 [] OTHER -> 0]
MCMaxFaults == [w \in Workloads |-> 1]
MCMaxTime == [w \in Workloads |-> IF w \in {"rotations", "longer"} THEN 0 ELSE 1]
MCMaxSets == [w \in Workloads |-> IF w = "profiles" THEN 2 ELSE 0]
=============================================================================
