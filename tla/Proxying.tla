------------------------------- MODULE Proxying -----------------------------
(***************************************************************************)
(* Requests of a client to another user's server (nullspace-client,        *)
(* server.rs): through v1_proxy_server of the client's own server, which   *)
(* passes the request on over a pool of its own (nullspace-server, rpc.rs),*)
(* until that says it does not proxy; from then on directly.               *)
(***************************************************************************)
EXTENDS Transport

CONSTANT Requests   (* requests that the target must not execute twice    *)

(* The three calls a request may take.                                     *)
Proxied(r) == <<r, "proxied">>
Onward(r) == <<r, "onward">>
Direct(r) == <<r, "direct">>
RequestCalls == {Proxied(r) : r \in Requests} \cup {Onward(r) : r \in Requests}
                  \cup {Direct(r) : r \in Requests}

ASSUME RequestCallsAreCalls == RequestCalls \subseteq Calls

VARIABLES
  unsupported,  (* proxy_unsupported                                      *)
  request,      (* where ProxyingTransport::call_raw of each request is   *)
  proxy,        (* the handler of v1_proxy_server, and what it answers    *)
  executed      (* history: how often the target executed each request    *)

proxying == <<unsupported, request, proxy, executed>>

ProxyingTypeOK ==
  /\ TransportTypeOK
  /\ unsupported \in BOOLEAN
  /\ request \in [Requests -> {"new", "proxied", "fallback", "direct", "ok", "failed"}]
  /\ proxy \in [Requests -> {"idle", "passing", "ok", "upstream", "unsupported"}]
  /\ executed \in [Requests -> Nat]

(* A client with its own server starts by proxying.                        *)
ProxyingInit ==
  /\ TransportInit
  /\ unsupported \in BOOLEAN
  /\ request = [r \in Requests |-> "new"]
  /\ proxy = [r \in Requests |-> "idle"]
  /\ executed = [r \in Requests |-> 0]

-----------------------------------------------------------------------------
SendProxied(r) ==
  /\ request[r] = "new" /\ ~unsupported
  /\ Call(Proxied(r))
  /\ request' = [request EXCEPT ![r] = "proxied"]
  /\ UNCHANGED <<unsupported, proxy, executed>>

SendDirect(r) ==
  /\ \/ request[r] = "new" /\ unsupported
     \/ request[r] = "fallback"
  /\ Call(Direct(r))
  /\ request' = [request EXCEPT ![r] = "direct"]
  /\ UNCHANGED <<unsupported, proxy, executed>>

(* v1_proxy_server: proxying is off, or the token is unknown.              *)
ProxyRefuses(r) ==
  /\ place[Proxied(r)] \in {"serving", "orphan"} /\ proxy[r] = "idle"
  /\ proxy' = [proxy EXCEPT ![r] = "unsupported"]
  /\ UNCHANGED <<net, faults, unsupported, request, executed>>

(* The target is not found, or a database statement fails.                 *)
ProxyLookupFails(r) ==
  /\ place[Proxied(r)] \in {"serving", "orphan"} /\ proxy[r] = "idle"
  /\ Fault
  /\ proxy' = [proxy EXCEPT ![r] = "upstream"]
  /\ UNCHANGED <<net, unsupported, request, executed>>

ProxyPasses(r) ==
  /\ place[Proxied(r)] \in {"serving", "orphan"} /\ proxy[r] = "idle"
  /\ Call(Onward(r))
  /\ proxy' = [proxy EXCEPT ![r] = "passing"]
  /\ UNCHANGED <<unsupported, request, executed>>

ProxyReturns(r) ==
  /\ proxy[r] = "passing"
  /\ Return(Onward(r))
  /\ proxy' = [proxy EXCEPT ![r] = IF wait[Onward(r)] = "ok" THEN "ok" ELSE "upstream"]
  /\ UNCHANGED <<unsupported, request, executed>>

ProxyAnswers(r) ==
  /\ proxy[r] \in {"ok", "upstream", "unsupported"}
  /\ Answer(Proxied(r))
  /\ UNCHANGED <<faults, proxying>>

(* The target executes a request that it has read.                         *)
Execute(r, c) ==
  /\ c \in {Onward(r), Direct(r)}
  /\ Answer(c)
  /\ executed' = [executed EXCEPT ![r] = @ + 1]
  /\ UNCHANGED <<faults, unsupported, request, proxy>>

(* Variant: any refusal of the proxy is taken for "not supported". *)
AfterProxy_AnyRefusal(r) ==
  IF wait[Proxied(r)] # "ok" THEN "failed"
  ELSE IF proxy[r] = "ok" THEN "ok" ELSE "fallback"

(* What the proxied call's result means.                                   *)
AfterProxy(r) ==
  IF wait[Proxied(r)] # "ok" THEN "failed"
  ELSE CASE proxy[r] = "ok" -> "ok"
         [] proxy[r] = "unsupported" -> "fallback"
         [] OTHER -> "failed"

ProxiedReturns(r) ==
  /\ request[r] = "proxied"
  /\ Return(Proxied(r))
  /\ request' = [request EXCEPT ![r] = AfterProxy(r)]
  /\ unsupported' = (unsupported \/ AfterProxy(r) = "fallback")
  /\ UNCHANGED <<proxy, executed>>

DirectReturns(r) ==
  /\ request[r] = "direct"
  /\ Return(Direct(r))
  /\ request' = [request EXCEPT ![r] = IF wait[Direct(r)] = "ok" THEN "ok" ELSE "failed"]
  /\ UNCHANGED <<unsupported, proxy, executed>>

RequestNext(r) ==
  \/ SendProxied(r) \/ SendDirect(r)
  \/ ProxyRefuses(r) \/ ProxyLookupFails(r) \/ ProxyPasses(r) \/ ProxyReturns(r) \/ ProxyAnswers(r)
  \/ Execute(r, Onward(r)) \/ Execute(r, Direct(r))
  \/ ProxiedReturns(r) \/ DirectReturns(r)

-----------------------------------------------------------------------------
(* A request is executed at most once, whichever connections break, calls  *)
(* time out or transports are replaced, and although it may be sent again  *)
(* without the proxy; and a request that is answered was executed.         *)
AtMostOnce ==
  \A r \in Requests : executed[r] <= 1 /\ (request[r] = "ok" => executed[r] = 1)
=============================================================================
