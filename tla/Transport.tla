------------------------------ MODULE Transport -----------------------------
(***************************************************************************)
(* Calls over pooled TCP transports (nullspace-nanorpc, tcp.rs;            *)
(* nullspace-rpc-pool).  A pool is what one process has for one url: one   *)
(* slot with a transport, which any of its failed calls takes out.  The    *)
(* task of a transport connects on demand, writes calls, and matches       *)
(* answers to calls by their ids; the server of a connection runs every    *)
(* request in a task of its own.  A call has one id for its whole life,    *)
(* and no two calls share one.                                             *)
(*                                                                         *)
(* What a server does with a request, and what callers do with a result,   *)
(* is for the modules that extend this one.                                *)
(***************************************************************************)
EXTENDS Naturals, Sequences, FiniteSets

CONSTANTS
  Calls,           (* ids of calls; one is used again once nothing has it *)
  Pools,           (* pools of transports                                 *)
  PoolOf,          (* the pool each call goes to                          *)
  MaxTransports    (* bound: transports at a time                         *)

ASSUME PoolOfType == PoolOf \in [Calls -> Pools]
ASSUME TransportsAreSome == MaxTransports \in Nat \ {0}

VARIABLES
  slot,      (* PerUrlPool::transports: a transport, or 0                 *)
  conn,      (* the connection of each transport's task, and its state    *)
  on,        (* the transport each call was given to, or 0                *)
  place,     (* where the request or its answer is                        *)
  inflight,  (* in_flight: the calls that the tasks wait for              *)
  wait,      (* what call_raw has for its caller                          *)
  faults     (* bound: how many failures there may still be               *)

net == <<slot, conn, on, place, inflight, wait>>

Transports == 1 .. MaxTransports

(* A "deaf" connection is one whose server has stopped reading, after 600  *)
(* seconds without a request, but still has answers to give; a "broken"    *)
(* one is gone, and its Closed event is not yet handled.  An "orphan" is a *)
(* request that a server works on although its connection is gone.         *)
TransportTypeOK ==
  /\ slot \in [Pools -> {0} \cup Transports]
  /\ conn \in [Transports -> {"none", "open", "deaf", "broken"}]
  /\ on \in [Calls -> {0} \cup Transports]
  /\ place \in [Calls -> {"none", "queued", "sent", "serving", "orphan", "answered"}]
  /\ inflight \subseteq Calls
  /\ wait \in [Calls -> {"idle", "waiting", "ok", "error"}]
  /\ faults \in Nat

TransportInit ==
  /\ slot = [p \in Pools |-> 0]
  /\ conn = [t \in Transports |-> "none"]
  /\ on = [c \in Calls |-> 0]
  /\ place = [c \in Calls |-> "none"]
  /\ inflight = {}
  /\ wait = [c \in Calls |-> "idle"]

Unused(c) == on[c] = 0

(* A call's id is free when neither its caller nor the task nor the server *)
(* has it; a transport that no slot and no call has ends with its task.    *)
LetGo ==
  /\ on' = [c \in Calls |->
              IF wait'[c] = "idle" /\ place'[c] = "none" /\ c \notin inflight' THEN 0 ELSE on[c]]

Ended(t) == \A p \in Pools : slot[p] # t /\ \A c \in Calls : on[c] # t

Fault == faults > 0 /\ faults' = faults - 1

-----------------------------------------------------------------------------
(* PerUrlPool::call_raw: the transport in the slot, or a new one, gets the *)
(* call.                                                                   *)
Call(c) ==
  LET p == PoolOf[c]
      fresh == {t \in Transports : Ended(t)}
  IN  /\ Unused(c)
      /\ \/ /\ slot[p] # 0
            /\ on' = [on EXCEPT ![c] = slot[p]]
            /\ UNCHANGED <<slot, conn>>
         \/ /\ slot[p] = 0 /\ fresh # {}
            /\ LET t == CHOOSE t \in fresh : \A o \in fresh : t <= o
               IN  /\ slot' = [slot EXCEPT ![p] = t]
                   /\ conn' = [conn EXCEPT ![t] = "none"]
                   /\ on' = [on EXCEPT ![c] = t]
      /\ place' = [place EXCEPT ![c] = "queued"]
      /\ wait' = [wait EXCEPT ![c] = "waiting"]
      /\ UNCHANGED <<inflight, faults>>

FailAll(w, calls) == [c \in Calls |-> IF c \in calls /\ w[c] = "waiting" THEN "error" ELSE w[c]]
OnTransport(t) == {c \in Calls : on[c] = t}

(* run_tcp_client takes a call: it connects if need be, writes the line    *)
(* and waits for the answer.  A line written to a connection that is gone  *)
(* is lost.                                                                *)
TakeCall(c) ==
  LET t == on[c]
  IN  /\ place[c] = "queued"
      /\ conn' = IF conn[t] = "none" THEN [conn EXCEPT ![t] = "open"] ELSE conn
      /\ place' = [place EXCEPT ![c] = IF conn[t] \in {"none", "open"} THEN "sent" ELSE "none"]
      /\ inflight' = inflight \cup {c}
      /\ UNCHANGED <<slot, on, wait, faults>>

ConnectFails(c) ==
  /\ place[c] = "queued" /\ conn[on[c]] = "none"
  /\ Fault
  /\ place' = [place EXCEPT ![c] = "none"]
  /\ wait' = FailAll(wait, {c})
  /\ UNCHANGED <<slot, conn, inflight>>
  /\ LetGo

(* What the server had read goes on without a connection.                  *)
Cut(t) ==
  [c \in Calls |-> IF on[c] # t THEN place[c]
                   ELSE CASE place[c] \in {"sent", "answered"} -> "none"
                          [] place[c] = "serving" -> "orphan"
                          [] OTHER -> place[c]]

(* The writer's channel is closed: this call fails and all others with it. *)
WriteFails(c) ==
  LET t == on[c]
      failed == OnTransport(t) \cap inflight
  IN  /\ place[c] = "queued" /\ conn[t] = "broken"
      /\ conn' = [conn EXCEPT ![t] = "none"]
      /\ place' = [Cut(t) EXCEPT ![c] = "none"]
      /\ inflight' = inflight \ failed
      /\ wait' = FailAll(wait, failed \cup {c})
      /\ UNCHANGED <<slot, faults>>
      /\ LetGo

(* rpc_connection_io reads a request and spawns its handler.               *)
ServerReads(c) ==
  /\ place[c] = "sent" /\ conn[on[c]] = "open"
  /\ place' = [place EXCEPT ![c] = "serving"]
  /\ UNCHANGED <<slot, conn, on, inflight, wait, faults>>

(* The handler ends, and writes its answer if it has a connection.         *)
Answer(c) ==
  /\ place[c] \in {"serving", "orphan"}
  /\ place' = [place EXCEPT ![c] = IF @ = "serving" THEN "answered" ELSE "none"]
  /\ UNCHANGED <<slot, conn, inflight, wait>>
  /\ LetGo

(* ConnEvent::Response                                                     *)
GetAnswer(c) ==
  /\ place[c] = "answered"
  /\ place' = [place EXCEPT ![c] = "none"]
  /\ inflight' = inflight \ {c}
  /\ wait' = IF c \in inflight /\ wait[c] = "waiting" THEN [wait EXCEPT ![c] = "ok"] ELSE wait
  /\ UNCHANGED <<slot, conn, faults>>
  /\ LetGo

(* The connection goes down.  Answers that were read are still handled.    *)
Break(t) ==
  /\ conn[t] \in {"open", "deaf"}
  /\ Fault
  /\ conn' = [conn EXCEPT ![t] = "broken"]
  /\ \E kept \in SUBSET {c \in OnTransport(t) : place[c] = "answered"} :
       place' = [c \in Calls |-> IF c \in kept THEN place[c] ELSE Cut(t)[c]]
  /\ UNCHANGED <<slot, inflight, wait>>
  /\ LetGo

(* No request for 600 seconds: the server stops reading, and closes the    *)
(* connection when the last handler has answered.                          *)
ServerStopsReading(t) ==
  /\ conn[t] = "open"
  /\ \A c \in OnTransport(t) : place[c] # "sent"
  /\ Fault
  /\ conn' = [conn EXCEPT ![t] = "deaf"]
  /\ UNCHANGED <<slot, on, place, inflight, wait>>

DeafCloses(t) ==
  /\ conn[t] = "deaf"
  /\ \A c \in OnTransport(t) : place[c] \notin {"serving", "answered"}
  /\ conn' = [conn EXCEPT ![t] = "broken"]
  /\ UNCHANGED <<slot, on, place, inflight, wait, faults>>

(* Variant: the calls in flight are left to their timers. *)
ClosedSeen_FailsNone(t) ==
  /\ conn[t] = "broken"
  /\ conn' = [conn EXCEPT ![t] = "none"]
  /\ place' = Cut(t)
  /\ UNCHANGED <<slot, inflight, wait, faults>>
  /\ LetGo

(* ConnEvent::Closed: every call in flight fails.                          *)
ClosedSeen(t) ==
  LET failed == OnTransport(t) \cap inflight
  IN  /\ conn[t] = "broken"
      /\ conn' = [conn EXCEPT ![t] = "none"]
      /\ place' = Cut(t)
      /\ inflight' = inflight \ failed
      /\ wait' = FailAll(wait, failed)
      /\ UNCHANGED <<slot, faults>>
      /\ LetGo

(* REQUEST_TIMEOUT_SECS pass: the caller gives up and cancels, while the   *)
(* request or its answer may be under way.  The task takes a call sooner.  *)
TimesOut(c) ==
  /\ wait[c] = "waiting" /\ place[c] # "queued"
  /\ Fault
  /\ wait' = [wait EXCEPT ![c] = "error"]
  /\ inflight' = inflight \ {c}
  /\ UNCHANGED <<slot, conn, on, place>>

(* The result goes to the caller; drop_transport after an error.           *)
Return(c) ==
  /\ wait[c] \in {"ok", "error"}
  /\ wait' = [wait EXCEPT ![c] = "idle"]
  /\ slot' = IF wait[c] = "error" /\ slot[PoolOf[c]] = on[c]
             THEN [slot EXCEPT ![PoolOf[c]] = 0] ELSE slot
  /\ UNCHANGED <<conn, place, inflight, faults>>
  /\ LetGo

(* The caller drops its future: nobody tells the task.                     *)
Abandon(c) ==
  /\ wait' = [wait EXCEPT ![c] = "idle"]
  /\ UNCHANGED <<slot, conn, place, inflight, faults>>
  /\ LetGo

CallSteps(c) == TakeCall(c) \/ ServerReads(c) \/ GetAnswer(c) \/ WriteFails(c)
TaskSteps(t) == ClosedSeen(t) \/ DeafCloses(t)
Faulty ==
  \/ \E c \in Calls : ConnectFails(c) \/ TimesOut(c)
  \/ \E t \in Transports : Break(t) \/ ServerStopsReading(t)

TransportNext ==
  \/ \E c \in Calls : CallSteps(c)
  \/ \E t \in Transports : TaskSteps(t)
  \/ Faulty
=============================================================================
