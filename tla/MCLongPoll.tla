---------------------------- MODULE MCLongPoll ------------------------------
(* A client's tasks for direct messages and for a group on one server, with *)
(* two polls under way; or two requests to another server, with a proxy.    *)
EXTENDS LongPoll

MCPollIds == {<<"poll", 1>>, <<"poll", 2>>}
MCCalls == RequestCalls \cup MCPollIds
MCPoolOf == [c \in MCCalls |->
               CASE c \in {Proxied(r) : r \in Requests} -> "proxy"
                 [] c \in {Onward(r) : r \in Requests} -> "onward"
                 [] OTHER -> "target"]
MCBoxesOf == [t \in {"dm", "group"} |-> IF t = "dm" THEN {"d"} ELSE {"m", "g"}]
MCMaxEntries ==
  [w \in Workloads |->
     [b \in {"d", "m", "g"} |-> CASE b = "d" -> IF w = "direct" THEN 1 ELSE 0
                                  [] b = "m" -> IF w = "direct" THEN 2 ELSE 1
                                  [] b = "g" -> IF w = "group" THEN 1 ELSE 0]]
MCMaxFaults == [w \in Workloads |-> IF w = "requests" THEN 2 ELSE 1]
=============================================================================
