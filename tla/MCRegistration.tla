---------------------------- MODULE MCRegistration --------------------------
(* Registration for TLC.  In one process, u1 and u2 register one user name *)
(* at a time or at once, and a reader uses its other client; in a second   *)
(* process a device v is added to u1's name.  s1 and s2 are servers with   *)
(* one name.                                                               *)
EXTENDS Registration, TLC

MCTasks == {"u1", "u2", "v", "s1", "s2", "r"}
MCKeyOf == [t \in MCTasks |-> "name"]
MCClientOf ==
  [t \in MCTasks |-> CASE t \in {"u1", "u2", "s1"} -> "c1" [] t = "r" -> "c2" [] OTHER -> "c3"]
MCDbOf == ("c1" :> "d1") @@ ("c2" :> "d1") @@ ("c3" :> "d2")
MCKindOf ==
  [t \in MCTasks |-> CASE t \in {"u1", "u2"} -> "user" [] t = "v" -> "device"
                       [] t \in {"s1", "s2"} -> "server" [] OTHER -> "reader"]
MCPkOf == [t \in MCTasks |-> CASE t \in {"u1", "s1"} -> "p1" [] OTHER -> "p2"]
MCBundleOf == [t \in MCTasks |-> "u1"]
MCWorkloads == {{"u1", "u2"}, {"u1", "v"}, {"s1", "s2"}, {"s1", "r"}}
=============================================================================
