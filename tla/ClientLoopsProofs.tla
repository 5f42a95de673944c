-------------------------- MODULE ClientLoopsProofs --------------------------
(***************************************************************************)
(* Proofs about a client's loops.  First, calls over pooled transports:    *)
(* the requests that go through a proxy or directly, and the long poller;  *)
(* for any calls, pools, transports, tasks, mailboxes and bounds.  Then    *)
(* the client's events, for any page size and bounds.                      *)
(***************************************************************************)
EXTENDS LongPoll, ClientEvents, WellFoundedInduction, FiniteSetTheorems, SequenceTheorems, TLAPS

(* A request has not been passed on by the proxy; not been sent directly;  *)
(* and it can no longer be, or never was, passed on.                       *)
NotPassed(r) == proxy[r] \in {"idle", "unsupported"}
NotDirect(r) == request[r] \in {"new", "proxied", "fallback"}
DirectOnly(r) ==
  \/ proxy[r] = "unsupported"
  \/ proxy[r] = "idle" /\ place[Proxied(r)] = "none"

(* Only one of the two calls that reach the target is ever made ...        *)
OneWay(r) ==
  /\ NotPassed(r) => place[Onward(r)] = "none"
  /\ NotDirect(r) => place[Direct(r)] = "none"
  /\ request[r] = "new" => proxy[r] = "idle" /\ place[Proxied(r)] = "none"
  /\ request[r] = "fallback" => proxy[r] = "unsupported"
  /\ request[r] = "direct" \/ place[Direct(r)] # "none" => DirectOnly(r)

(* ... before the target has executed the request ...                      *)
UnderWay(c) == place[c] \in {"queued", "sent", "serving", "orphan"}
NotYetExecuted(r) ==
  (\/ NotDirect(r) /\ NotPassed(r)
   \/ proxy[r] = "idle" /\ place[Proxied(r)] # "none"
   \/ UnderWay(Onward(r)) \/ UnderWay(Direct(r)))
    => executed[r] = 0

(* ... which it does once, and before it answers.                          *)
Succeeded(c) == place[c] = "answered" \/ wait[c] = "ok"
ExecutedBefore(r) ==
  /\ executed[r] <= 1
  /\ (\/ Succeeded(Onward(r)) \/ Succeeded(Direct(r))
      \/ proxy[r] = "ok" \/ request[r] = "ok")
       => executed[r] = 1

RequestInv(r) == OneWay(r) /\ NotYetExecuted(r) /\ ExecutedBefore(r)
RequestsInv == ProxyingTypeOK /\ \A r \in Requests : RequestInv(r)

(* A request of the poller, and the reply to a poll.                       *)
PollRequest == [box : Boxes, after : Nat, live : BOOLEAN]
PollTypeOK ==
  /\ workload \in Workloads
  /\ entries \in [Boxes -> Nat] /\ after \in [Boxes -> Nat] /\ answer \in [Boxes -> Nat]
  /\ \A b \in Boxes : entries[b] <= MaxEntries[workload][b] /\ after[b] <= entries[b]
  /\ denied \subseteq Boxes /\ asked \subseteq Tasks
  /\ queue \in Seq(PollRequest) /\ pending \in SUBSET PollRequest
  /\ poll = {} \/ \E c \in PollIds : poll = {c}
  /\ reply \in [refused : BOOLEAN, of : [Boxes -> SUBSET Nat]]

(* A mailbox has an answer or a live request only if a task waits for it,  *)
(* and never two of these; the request has the task's cursor.              *)
AskedIn(tasks, b) == \E t \in tasks : b \in BoxesOf[t]
Asked(b) == AskedIn(asked, b)
LiveOnce ==
  /\ \A r \in pending : r.live =>
       r.after = after[r.box] /\ answer[r.box] = NoAnswer /\ Asked(r.box)
  /\ \A i \in 1 .. Len(queue) : queue[i].live =>
       /\ queue[i].after = after[queue[i].box] /\ answer[queue[i].box] = NoAnswer
       /\ Asked(queue[i].box)
       /\ \A r \in pending : r.live => r.box # queue[i].box
       /\ \A j \in 1 .. Len(queue) : queue[j].live /\ i # j => queue[j].box # queue[i].box

(* An answer is an error or the entry that follows the cursor.             *)
AnswerIsNext ==
  \A b \in Boxes :
    /\ answer[b] \in {NoAnswer, Error} \/ (answer[b] = after[b] + 1 /\ answer[b] <= entries[b])
    /\ answer[b] # NoAnswer => Asked(b)

(* The reply to a poll holds, with an entry, all that are between a        *)
(* request's cursor and that entry.                                        *)
ReplyHasNoGap ==
  \A b \in Boxes : \A e \in reply.of[b] :
    /\ e <= entries[b]
    /\ \A r \in pending : r.box = b => r.after + 1 .. e \subseteq reply.of[b]

PollInv == PollTypeOK /\ LiveOnce /\ AnswerIsNext /\ ReplyHasNoGap
-----------------------------------------------------------------------------
(* Sets of naturals, and finite ones.                                      *)
LEMMA LeastElement ==
  ASSUME NEW S \in SUBSET Nat, S # {}
  PROVE  \E x \in S : \A y \in S : x <= y
<1>1. PICK x \in S : \A y \in S : <<y, x>> \notin OpToRel(<, Nat)
  BY NatLessThanWellFounded, WFMin
<1>2. \A y \in S : ~(y < x)
  BY <1>1 DEF OpToRel
<1> QED BY <1>2

LEMMA MinIs ==
  ASSUME NEW S \in SUBSET Nat, S # {}
  PROVE  Min(S) \in S /\ \A y \in S : Min(S) <= y
BY LeastElement DEF Min
-----------------------------------------------------------------------------
(* The transport: its types, one action at a time.                         *)
Places == {"none", "queued", "sent", "serving", "orphan", "answered"}
Waits == {"idle", "waiting", "ok", "error"}

LEMMA TransportParts ==
  ASSUME TransportTypeOK
  PROVE  /\ place \in [Calls -> Places] /\ wait \in [Calls -> Waits]
         /\ on \in [Calls -> {0} \cup Transports]
         /\ conn \in [Transports -> {"none", "open", "deaf", "broken"}]
         /\ slot \in [Pools -> {0} \cup Transports] /\ inflight \subseteq Calls
BY DEF TransportTypeOK, Places, Waits

LEMMA LetGoType ==
  ASSUME TransportTypeOK, LetGo
  PROVE  on' \in [Calls -> {0} \cup Transports]
BY DEF TransportTypeOK, LetGo

LEMMA FaultType == TransportTypeOK /\ Fault => faults' \in Nat
BY DEF TransportTypeOK, Fault

LEMMA FailAllIs ==
  ASSUME TransportTypeOK, NEW S
  PROVE  /\ FailAll(wait, S) \in [Calls -> Waits]
         /\ \A c \in Calls : FailAll(wait, S)[c] \in {wait[c], "error"}
BY TransportParts DEF FailAll, Waits

LEMMA CutIs ==
  ASSUME TransportTypeOK, NEW t
  PROVE  /\ Cut(t) \in [Calls -> Places]
         /\ \A c \in Calls : \/ Cut(t)[c] = place[c]
                             \/ Cut(t)[c] = "none"
                             \/ place[c] = "serving" /\ Cut(t)[c] = "orphan"
<1>1. ASSUME NEW c \in Calls
      PROVE  \/ Cut(t)[c] = place[c]
             \/ Cut(t)[c] = "none"
             \/ place[c] = "serving" /\ Cut(t)[c] = "orphan"
  BY DEF Cut
<1>2. \A c \in Calls : Cut(t)[c] \in Places
  BY <1>1, TransportParts DEF Places
<1> QED BY <1>1, <1>2 DEF Cut

(* What a step may do to a call that it neither makes nor answers.         *)
Moves(c) ==
  /\ place[c] = "none" => place'[c] = "none"
  /\ place'[c] \in {"queued", "sent", "serving", "orphan"} => UnderWay(c)
  /\ place'[c] = "answered" \/ wait'[c] = "ok" => Succeeded(c)

LEMMA UnmovedMoves ==
  ASSUME NEW c, place'[c] = place[c] \/ place'[c] = "none",
         wait'[c] = wait[c] \/ wait'[c] # "ok"
  PROVE  Moves(c)
BY DEF Moves, UnderWay, Succeeded

LEMMA CutMoves ==
  ASSUME TransportTypeOK, NEW t, NEW c \in Calls,
         place'[c] = Cut(t)[c] \/ place'[c] = place[c] \/ place'[c] = "none",
         wait'[c] = wait[c] \/ wait'[c] # "ok"
  PROVE  Moves(c)
BY CutIs DEF Moves, UnderWay, Succeeded

LEMMA CallStepsMove ==
  ASSUME TransportTypeOK, NEW d \in Calls, CallSteps(d)
  PROVE  TransportTypeOK' /\ \A c \in Calls : Moves(c)
<1> USE TransportParts
<1>1. CASE TakeCall(d)
  <2>1. place' \in [Calls -> Places]
    BY <1>1 DEF TakeCall, Places
  <2>2. conn' \in [Transports -> {"none", "open", "deaf", "broken"}]
    BY <1>1 DEF TakeCall
  <2>3. TransportTypeOK'
    BY <1>1, <2>1, <2>2 DEF TakeCall, TransportTypeOK, Places
  <2>4. ASSUME NEW c \in Calls PROVE Moves(c)
    <3>1. CASE c = d
      <4>1. place[d] = "queued" /\ place'[d] \in {"sent", "none"} /\ wait' = wait
        BY <1>1 DEF TakeCall
      <4> QED BY <3>1, <4>1 DEF Moves, UnderWay, Succeeded
    <3>2. CASE c # d
      <4>1. place'[c] = place[c] /\ wait' = wait
        BY <1>1, <3>2 DEF TakeCall
      <4> QED BY <4>1, UnmovedMoves
    <3> QED BY <3>1, <3>2
  <2> QED BY <2>3, <2>4
<1>2. CASE ServerReads(d)
  <2>1. place' \in [Calls -> Places]
    BY <1>2 DEF ServerReads, Places
  <2>2. TransportTypeOK'
    BY <1>2, <2>1 DEF ServerReads, TransportTypeOK, Places
  <2>3. ASSUME NEW c \in Calls PROVE Moves(c)
    BY <1>2 DEF ServerReads, Moves, UnderWay, Succeeded
  <2> QED BY <2>2, <2>3
<1>3. CASE GetAnswer(d)
  <2>1. place' \in [Calls -> Places] /\ wait' \in [Calls -> Waits]
    BY <1>3 DEF GetAnswer, Places, Waits
  <2>2. TransportTypeOK'
    BY <1>3, <2>1, LetGoType DEF GetAnswer, TransportTypeOK, Places, Waits
  <2>3. ASSUME NEW c \in Calls PROVE Moves(c)
    BY <1>3 DEF GetAnswer, Moves, UnderWay, Succeeded
  <2> QED BY <2>2, <2>3
<1>4. CASE WriteFails(d)
  <2>1. PICK t, F : /\ place' = [Cut(t) EXCEPT ![d] = "none"] /\ wait' = FailAll(wait, F)
                    /\ conn' = [conn EXCEPT ![t] = "none"]
                    /\ inflight' \subseteq Calls /\ UNCHANGED <<slot, faults>> /\ LetGo
    BY <1>4 DEF WriteFails
  <2>2. place' \in [Calls -> Places] /\ wait' \in [Calls -> Waits]
    BY <2>1, CutIs, FailAllIs DEF Places
  <2>3. TransportTypeOK'
    BY <2>1, <2>2, LetGoType DEF TransportTypeOK, Places, Waits
  <2>4. ASSUME NEW c \in Calls PROVE Moves(c)
    <3>1. place'[c] = Cut(t)[c] \/ place'[c] = "none"
      BY <2>1, CutIs
    <3>2. wait'[c] = wait[c] \/ wait'[c] # "ok"
      BY <2>1, FailAllIs
    <3> QED BY <3>1, <3>2, CutMoves
  <2> QED BY <2>3, <2>4
<1> QED BY <1>1, <1>2, <1>3, <1>4 DEF CallSteps

LEMMA TaskStepsMove ==
  ASSUME TransportTypeOK, NEW t \in Transports, TaskSteps(t)
  PROVE  TransportTypeOK' /\ \A c \in Calls : Moves(c)
<1> USE TransportParts
<1>1. CASE ClosedSeen(t)
  <2>1. PICK F : /\ place' = Cut(t) /\ wait' = FailAll(wait, F)
                 /\ conn' = [conn EXCEPT ![t] = "none"]
                 /\ inflight' \subseteq Calls /\ UNCHANGED <<slot, faults>> /\ LetGo
    BY <1>1 DEF ClosedSeen
  <2>2. TransportTypeOK'
    BY <2>1, CutIs, FailAllIs, LetGoType DEF TransportTypeOK, Places, Waits
  <2>3. ASSUME NEW c \in Calls PROVE Moves(c)
    BY <2>1, FailAllIs, CutMoves
  <2> QED BY <2>2, <2>3
<1>2. CASE DeafCloses(t)
  <2>1. TransportTypeOK'
    BY <1>2 DEF DeafCloses, TransportTypeOK
  <2>2. ASSUME NEW c \in Calls PROVE Moves(c)
    BY <1>2, UnmovedMoves DEF DeafCloses
  <2> QED BY <2>1, <2>2
<1> QED BY <1>1, <1>2 DEF TaskSteps

LEMMA FaultyMoves ==
  ASSUME TransportTypeOK, Faulty
  PROVE  TransportTypeOK' /\ \A c \in Calls : Moves(c)
<1> USE TransportParts
<1>1. ASSUME NEW d \in Calls, ConnectFails(d)
      PROVE  TransportTypeOK' /\ \A c \in Calls : Moves(c)
  <2>1. place' \in [Calls -> Places] /\ wait' \in [Calls -> Waits] /\ faults' \in Nat
    BY <1>1, FailAllIs, FaultType DEF ConnectFails, Places
  <2>2. TransportTypeOK'
    BY <1>1, <2>1, LetGoType DEF ConnectFails, TransportTypeOK, Places, Waits
  <2>3. ASSUME NEW c \in Calls PROVE Moves(c)
    <3>1. place'[c] = place[c] \/ place'[c] = "none"
      BY <1>1 DEF ConnectFails
    <3>2. wait'[c] = wait[c] \/ wait'[c] # "ok"
      BY <1>1, FailAllIs DEF ConnectFails
    <3> QED BY <3>1, <3>2, UnmovedMoves
  <2> QED BY <2>2, <2>3
<1>2. ASSUME NEW d \in Calls, TimesOut(d)
      PROVE  TransportTypeOK' /\ \A c \in Calls : Moves(c)
  <2>1. wait' \in [Calls -> Waits] /\ faults' \in Nat
    BY <1>2, FaultType DEF TimesOut, Waits
  <2>2. TransportTypeOK'
    BY <1>2, <2>1 DEF TimesOut, TransportTypeOK, Waits
  <2>3. ASSUME NEW c \in Calls PROVE Moves(c)
    BY <1>2, UnmovedMoves DEF TimesOut
  <2> QED BY <2>2, <2>3
<1>3. ASSUME NEW t \in Transports, Break(t)
      PROVE  TransportTypeOK' /\ \A c \in Calls : Moves(c)
  <2>1. PICK kept : place' = [c \in Calls |-> IF c \in kept THEN place[c] ELSE Cut(t)[c]]
    BY <1>3 DEF Break
  <2>2. place' \in [Calls -> Places] /\ faults' \in Nat
    BY <1>3, <2>1, CutIs, FaultType DEF Break
  <2>3. TransportTypeOK'
    BY <1>3, <2>2, LetGoType DEF Break, TransportTypeOK, Places
  <2>4. ASSUME NEW c \in Calls PROVE Moves(c)
    <3>1. place'[c] = Cut(t)[c] \/ place'[c] = place[c]
      BY <2>1
    <3> QED BY <1>3, <3>1, CutMoves DEF Break
  <2> QED BY <2>3, <2>4
<1>4. ASSUME NEW t \in Transports, ServerStopsReading(t)
      PROVE  TransportTypeOK' /\ \A c \in Calls : Moves(c)
  <2>1. TransportTypeOK'
    BY <1>4, FaultType DEF ServerStopsReading, TransportTypeOK
  <2>2. ASSUME NEW c \in Calls PROVE Moves(c)
    BY <1>4, UnmovedMoves DEF ServerStopsReading
  <2> QED BY <2>1, <2>2
<1> QED BY <1>1, <1>2, <1>3, <1>4 DEF Faulty

LEMMA TransportMoves ==
  ASSUME TransportTypeOK, TransportNext
  PROVE  TransportTypeOK' /\ \A c \in Calls : Moves(c)
BY CallStepsMove, TaskStepsMove, FaultyMoves DEF TransportNext

(* The result of a call is taken, or its caller no longer wants it.        *)
LEMMA ReturnMoves ==
  ASSUME TransportTypeOK, NEW d \in Calls, Return(d) \/ Abandon(d)
  PROVE  TransportTypeOK' /\ place' = place /\ \A c \in Calls : Moves(c)
<1> USE TransportParts
<1>1. /\ wait' = [wait EXCEPT ![d] = "idle"] /\ UNCHANGED <<conn, place, inflight, faults>> /\ LetGo
  BY DEF Return, Abandon
<1>2. slot' \in [Pools -> {0} \cup Transports]
  BY DEF Return, Abandon
<1>3. wait' \in [Calls -> Waits]
  BY <1>1 DEF Waits
<1>4. TransportTypeOK'
  BY <1>1, <1>2, <1>3, LetGoType DEF TransportTypeOK, Waits
<1>5. ASSUME NEW c \in Calls PROVE Moves(c)
  BY <1>1, UnmovedMoves
<1> QED BY <1>1, <1>4, <1>5

(* A call is made.                                                         *)
LEMMA CallMoves ==
  ASSUME TransportTypeOK, NEW d \in Calls, Call(d)
  PROVE  /\ TransportTypeOK' /\ \A c \in Calls \ {d} : Moves(c) /\ place'[c] = place[c]
         /\ place'[d] = "queued" /\ wait'[d] = "waiting"
<1> USE TransportParts
<1>1. /\ place' = [place EXCEPT ![d] = "queued"] /\ wait' = [wait EXCEPT ![d] = "waiting"]
      /\ UNCHANGED <<inflight, faults>>
  BY DEF Call
<1>2. place' \in [Calls -> Places] /\ wait' \in [Calls -> Waits]
  BY <1>1 DEF Places, Waits
<1>3. /\ slot' \in [Pools -> {0} \cup Transports] /\ on' \in [Calls -> {0} \cup Transports]
      /\ conn' \in [Transports -> {"none", "open", "deaf", "broken"}]
  <2>0. PoolOf[d] \in Pools
    BY PoolOfType
  <2>1. CASE /\ slot[PoolOf[d]] # 0
             /\ on' = [on EXCEPT ![d] = slot[PoolOf[d]]]
             /\ UNCHANGED <<slot, conn>>
    BY <2>0, <2>1
  <2>2. ASSUME NEW fresh \in SUBSET Transports, fresh # {},
               NEW t, t = (CHOOSE x \in fresh : \A o \in fresh : x <= o),
               slot' = [slot EXCEPT ![PoolOf[d]] = t],
               conn' = [conn EXCEPT ![t] = "none"],
               on' = [on EXCEPT ![d] = t]
        PROVE  /\ slot' \in [Pools -> {0} \cup Transports]
               /\ on' \in [Calls -> {0} \cup Transports]
               /\ conn' \in [Transports -> {"none", "open", "deaf", "broken"}]
    <3>1. fresh \in SUBSET Nat
      BY TransportsAreSome DEF Transports
    <3>2. t \in Transports
      BY <2>2, <3>1, LeastElement
    <3> QED BY <2>0, <2>2, <3>2
  <2>3. CASE slot[PoolOf[d]] = 0
    <3> DEFINE fresh == {t \in Transports : Ended(t)}
               least == CHOOSE x \in fresh : \A o \in fresh : x <= o
    <3>1. /\ fresh # {}
          /\ slot' = [slot EXCEPT ![PoolOf[d]] = least]
          /\ conn' = [conn EXCEPT ![least] = "none"]
          /\ on' = [on EXCEPT ![d] = least]
      BY <2>3 DEF Call
    <3>2. fresh \in SUBSET Transports
      OBVIOUS
    <3> HIDE DEF fresh
    <3> QED BY <2>2, <3>1, <3>2
  <2>4. slot[PoolOf[d]] # 0 => /\ on' = [on EXCEPT ![d] = slot[PoolOf[d]]]
                               /\ UNCHANGED <<slot, conn>>
    BY DEF Call
  <2> QED BY <2>1, <2>3, <2>4
<1>4. TransportTypeOK'
  BY <1>1, <1>2, <1>3 DEF TransportTypeOK, Places, Waits
<1>5. ASSUME NEW c \in Calls \ {d} PROVE Moves(c) /\ place'[c] = place[c]
  BY <1>1, UnmovedMoves
<1> QED BY <1>1, <1>4, <1>5

(* A handler ends.                                                         *)
LEMMA AnswerMoves ==
  ASSUME TransportTypeOK, faults' \in Nat, NEW d \in Calls, Answer(d)
  PROVE  /\ TransportTypeOK' /\ \A c \in Calls \ {d} : Moves(c) /\ place'[c] = place[c]
         /\ place[d] \in {"serving", "orphan"} /\ place'[d] \in {"answered", "none"}
         /\ wait' = wait
<1> USE TransportParts
<1>1. /\ place[d] \in {"serving", "orphan"} /\ UNCHANGED <<slot, conn, inflight, wait>> /\ LetGo
      /\ place' = [place EXCEPT ![d] = IF place[d] = "serving" THEN "answered" ELSE "none"]
  BY DEF Answer
<1>2. place' \in [Calls -> Places]
  BY <1>1 DEF Places
<1>3. TransportTypeOK'
  BY <1>1, <1>2, LetGoType DEF TransportTypeOK, Places
<1>4. ASSUME NEW c \in Calls \ {d} PROVE Moves(c) /\ place'[c] = place[c]
  BY <1>1, UnmovedMoves
<1> QED BY <1>1, <1>3, <1>4
-----------------------------------------------------------------------------
(* The requests.  Their calls differ from each other and from the polls.   *)
LEMMA CallsDiffer ==
  ASSUME NEW r \in Requests
  PROVE  /\ {Proxied(r), Onward(r), Direct(r)} \subseteq Calls
         /\ Proxied(r) # Onward(r) /\ Proxied(r) # Direct(r) /\ Onward(r) # Direct(r)
         /\ {Proxied(r), Onward(r), Direct(r)} \cap PollIds = {}
         /\ \A s \in Requests : s # r =>
              {Proxied(r), Onward(r), Direct(r)} \cap {Proxied(s), Onward(s), Direct(s)} = {}
<1>1. {Proxied(r), Onward(r), Direct(r)} \subseteq RequestCalls
  BY DEF RequestCalls
<1>2. RequestCalls \subseteq Calls /\ RequestCalls \cap PollIds = {}
  BY RequestCallsAreCalls, PollIdsAreCalls
<1>3. \A s \in Requests : s # r =>
        {Proxied(r), Onward(r), Direct(r)} \cap {Proxied(s), Onward(s), Direct(s)} = {}
  BY DEF Proxied, Onward, Direct
<1>4. Proxied(r) # Onward(r) /\ Proxied(r) # Direct(r) /\ Onward(r) # Direct(r)
  BY DEF Proxied, Onward, Direct
<1> QED BY <1>1, <1>2, <1>3, <1>4

(* A step of the network, or of another request or poll.                   *)
LEMMA Undisturbed ==
  ASSUME NEW r \in Requests, RequestInv(r),
         Moves(Proxied(r)), Moves(Onward(r)), Moves(Direct(r)),
         request'[r] = request[r], proxy'[r] = proxy[r], executed'[r] = executed[r]
  PROVE  RequestInv(r)'
<1> USE DEF RequestInv, Moves
<1>1. OneWay(r)'
  BY DEF OneWay, NotPassed, NotDirect, DirectOnly
<1>2. NotYetExecuted(r)'
  BY DEF NotYetExecuted, UnderWay, NotPassed, NotDirect
<1>3. ExecutedBefore(r)'
  BY DEF ExecutedBefore, Succeeded
<1> QED BY <1>1, <1>2, <1>3

LEMMA OthersUndisturbed ==
  ASSUME RequestsInv, NEW d \in Calls, \A c \in Calls \ {d} : Moves(c),
         NEW r \in Requests, d \notin {Proxied(r), Onward(r), Direct(r)},
         request'[r] = request[r], proxy'[r] = proxy[r], executed'[r] = executed[r]
  PROVE  RequestInv(r)'
BY CallsDiffer, Undisturbed DEF RequestsInv

(* What a request's own step changes of the request.                       *)
Own(r) == <<request[r], proxy[r], executed[r]>>

LEMMA RequestParts ==
  ASSUME ProxyingTypeOK, NEW r \in Requests
  PROVE  /\ request \in [Requests -> {"new", "proxied", "fallback", "direct", "ok", "failed"}]
         /\ proxy \in [Requests -> {"idle", "passing", "ok", "upstream", "unsupported"}]
         /\ executed \in [Requests -> Nat] /\ executed[r] \in Nat
         /\ place \in [Calls -> Places] /\ wait \in [Calls -> Waits]
         /\ {place[Proxied(r)], place[Onward(r)], place[Direct(r)]} \subseteq Places
         /\ {wait[Proxied(r)], wait[Onward(r)], wait[Direct(r)]} \subseteq Waits
BY CallsDiffer, TransportParts DEF ProxyingTypeOK

(* A step of r leaves other requests' variables alone.                     *)
LEMMA OwnStep ==
  ASSUME ProxyingTypeOK, NEW r \in Requests, RequestNext(r)
  PROVE  /\ \A s \in Requests : s # r =>
              request'[s] = request[s] /\ proxy'[s] = proxy[s] /\ executed'[s] = executed[s]
         /\ request' \in [Requests -> {"new", "proxied", "fallback", "direct", "ok", "failed"}]
         /\ proxy' \in [Requests -> {"idle", "passing", "ok", "upstream", "unsupported"}]
         /\ executed' \in [Requests -> Nat] /\ unsupported' \in BOOLEAN
<1> USE DEF ProxyingTypeOK
<1>1. CASE SendProxied(r) \/ SendDirect(r)
  BY <1>1 DEF SendProxied, SendDirect
<1>2. CASE ProxyRefuses(r) \/ ProxyLookupFails(r) \/ ProxyPasses(r)
  BY <1>2 DEF ProxyRefuses, ProxyLookupFails, ProxyPasses
<1>3. CASE ProxyReturns(r) \/ ProxyAnswers(r)
  BY <1>3 DEF ProxyReturns, ProxyAnswers, proxying
<1>4. CASE Execute(r, Onward(r)) \/ Execute(r, Direct(r))
  BY <1>4 DEF Execute
<1>5. CASE ProxiedReturns(r)
  <2>1. AfterProxy(r) \in {"ok", "fallback", "failed"}
    BY DEF AfterProxy
  <2>2. unsupported' \in BOOLEAN
    BY <1>5 DEF ProxiedReturns
  <2> QED BY <1>5, <2>1, <2>2 DEF ProxiedReturns
<1>6. CASE DirectReturns(r)
  BY <1>6 DEF DirectReturns
<1> QED BY <1>1, <1>2, <1>3, <1>4, <1>5, <1>6 DEF RequestNext

(* The six kinds of steps that a request takes, each on one of its calls.  *)
LEMMA RequestStep ==
  ASSUME RequestsInv, NEW r \in Requests, RequestNext(r)
  PROVE  /\ TransportTypeOK'
         /\ \E d \in {Proxied(r), Onward(r), Direct(r)} : \A c \in Calls \ {d} : Moves(c)
         /\ RequestInv(r)'
<1> DEFINE Moved == \E d \in {Proxied(r), Onward(r), Direct(r)} : \A c \in Calls \ {d} : Moves(c)
<1>0. /\ ProxyingTypeOK /\ TransportTypeOK /\ OneWay(r) /\ NotYetExecuted(r) /\ ExecutedBefore(r)
      /\ faults \in Nat
  BY DEF RequestsInv, RequestInv, ProxyingTypeOK, TransportTypeOK
<1>p. /\ {Proxied(r), Onward(r), Direct(r)} \subseteq Calls
      /\ Proxied(r) # Onward(r) /\ Proxied(r) # Direct(r) /\ Onward(r) # Direct(r)
      /\ request \in [Requests -> {"new", "proxied", "fallback", "direct", "ok", "failed"}]
      /\ proxy \in [Requests -> {"idle", "passing", "ok", "upstream", "unsupported"}]
      /\ executed \in [Requests -> Nat] /\ executed[r] \in Nat
  BY <1>0, CallsDiffer, RequestParts
<1> USE DEF OneWay, NotYetExecuted, ExecutedBefore, NotPassed, NotDirect, DirectOnly, UnderWay,
            Succeeded, Moves
<1>1. CASE SendProxied(r)
  <2>1. /\ request[r] = "new" /\ request'[r] = "proxied"
        /\ proxy'[r] = proxy[r] /\ executed'[r] = executed[r]
    BY <1>1, <1>p DEF SendProxied
  <2>2. /\ TransportTypeOK' /\ \A c \in Calls \ {Proxied(r)} : Moves(c) /\ place'[c] = place[c]
        /\ place'[Proxied(r)] = "queued"
    BY <1>1, <1>0, <1>p, CallMoves DEF SendProxied
  <2>3. RequestInv(r)'
    BY <2>1, <2>2, <1>0, <1>p DEF RequestInv
  <2> QED BY <2>2, <2>3
<1>2. CASE SendDirect(r)
  <2>1. /\ request[r] \in {"new", "fallback"} /\ request'[r] = "direct"
        /\ proxy'[r] = proxy[r] /\ executed'[r] = executed[r]
    BY <1>2, <1>p DEF SendDirect
  <2>2. /\ TransportTypeOK' /\ \A c \in Calls \ {Direct(r)} : Moves(c) /\ place'[c] = place[c]
        /\ place'[Direct(r)] = "queued" /\ wait'[Direct(r)] = "waiting"
    BY <1>2, <1>0, <1>p, CallMoves DEF SendDirect
  <2>3. RequestInv(r)'
    BY <2>1, <2>2, <1>0, <1>p DEF RequestInv
  <2> QED BY <2>2, <2>3
<1>3. CASE ProxyRefuses(r) \/ ProxyLookupFails(r)
  <2>1. /\ proxy[r] = "idle" /\ proxy'[r] \in {"unsupported", "upstream"}
        /\ place[Proxied(r)] # "none" /\ request'[r] = request[r] /\ executed'[r] = executed[r]
    BY <1>3, <1>p DEF ProxyRefuses, ProxyLookupFails
  <2>2. UNCHANGED net /\ faults' \in Nat
    BY <1>3, <1>0, FaultType DEF ProxyRefuses, ProxyLookupFails
  <2>3. TransportTypeOK' /\ place' = place /\ wait' = wait
    BY <1>0, <2>2 DEF TransportTypeOK, net
  <2>4. RequestInv(r)'
    BY <2>1, <2>3, <1>0, <1>p DEF RequestInv
  <2> QED BY <2>3, <2>4
<1>4. CASE ProxyPasses(r)
  <2>1. /\ proxy[r] = "idle" /\ proxy'[r] = "passing" /\ place[Proxied(r)] # "none"
        /\ request'[r] = request[r] /\ executed'[r] = executed[r]
    BY <1>4, <1>p DEF ProxyPasses
  <2>2. /\ TransportTypeOK' /\ \A c \in Calls \ {Onward(r)} : Moves(c) /\ place'[c] = place[c]
        /\ place'[Onward(r)] = "queued" /\ wait'[Onward(r)] = "waiting"
    BY <1>4, <1>0, <1>p, CallMoves DEF ProxyPasses
  <2>3. RequestInv(r)'
    BY <2>1, <2>2, <1>0, <1>p DEF RequestInv
  <2> QED BY <2>2, <2>3
<1>5. CASE ProxyReturns(r)
  <2>1. /\ proxy[r] = "passing"
        /\ proxy'[r] = IF wait[Onward(r)] = "ok" THEN "ok" ELSE "upstream"
        /\ request'[r] = request[r] /\ executed'[r] = executed[r]
    BY <1>5, <1>p DEF ProxyReturns
  <2>2. TransportTypeOK' /\ place' = place /\ \A c \in Calls : Moves(c)
    BY <1>5, <1>0, <1>p, ReturnMoves DEF ProxyReturns
  <2>3. RequestInv(r)'
    BY <2>1, <2>2, <1>0, <1>p DEF RequestInv
  <2> QED BY <2>2, <2>3, <1>p
<1>6. CASE ProxyAnswers(r)
  <2>1. /\ proxy[r] \in {"ok", "upstream", "unsupported"} /\ proxy'[r] = proxy[r]
        /\ request'[r] = request[r] /\ executed'[r] = executed[r] /\ faults' \in Nat
    BY <1>6, <1>0 DEF ProxyAnswers, proxying
  <2>2. /\ TransportTypeOK' /\ \A c \in Calls \ {Proxied(r)} : Moves(c) /\ place'[c] = place[c]
        /\ place[Proxied(r)] \in {"serving", "orphan"}
    BY <1>6, <2>1, <1>0, <1>p, AnswerMoves DEF ProxyAnswers
  <2>3. RequestInv(r)'
    BY <2>1, <2>2, <1>0, <1>p DEF RequestInv
  <2> QED BY <2>2, <2>3
<1>7. ASSUME NEW c \in {Onward(r), Direct(r)}, Execute(r, c)
      PROVE  TransportTypeOK' /\ Moved /\ RequestInv(r)'
  <2>1. /\ executed'[r] = executed[r] + 1 /\ faults' \in Nat
        /\ request'[r] = request[r] /\ proxy'[r] = proxy[r]
    BY <1>7, <1>0, <1>p DEF Execute
  <2>2. /\ TransportTypeOK' /\ \A b \in Calls \ {c} : Moves(b) /\ place'[b] = place[b]
        /\ place[c] \in {"serving", "orphan"} /\ place'[c] \in {"answered", "none"}
        /\ wait' = wait
    BY <1>7, <2>1, <1>0, <1>p, AnswerMoves DEF Execute
  <2>3. executed[r] = 0 /\ executed'[r] = 1
    BY <2>1, <2>2, <1>0
  <2>4. c = Onward(r) => proxy[r] \notin {"idle", "unsupported"} /\ place[Direct(r)] = "none"
                         /\ request[r] # "direct"
    BY <2>2, <1>0, <1>p
  <2>5. c = Direct(r) => DirectOnly(r) /\ place[Onward(r)] = "none" /\ ~NotDirect(r)
    BY <2>2, <1>0, <1>p
  <2>6. OneWay(r)'
    BY <2>1, <2>2, <1>0, <1>p
  <2>7. NotYetExecuted(r)'
    BY <2>1, <2>2, <2>4, <2>5, <1>p
  <2>8. ExecutedBefore(r)'
    BY <2>3
  <2> QED BY <2>2, <2>6, <2>7, <2>8 DEF RequestInv
<1>8. CASE ProxiedReturns(r)
  <2>1. /\ request[r] = "proxied" /\ request'[r] = AfterProxy(r)
        /\ proxy'[r] = proxy[r] /\ executed'[r] = executed[r]
    BY <1>8, <1>p DEF ProxiedReturns
  <2>2. TransportTypeOK' /\ place' = place /\ \A c \in Calls : Moves(c)
    BY <1>8, <1>0, <1>p, ReturnMoves DEF ProxiedReturns
  <2>3. /\ AfterProxy(r) \in {"ok", "fallback", "failed"}
        /\ AfterProxy(r) = "ok" => proxy[r] = "ok"
        /\ AfterProxy(r) = "fallback" => proxy[r] = "unsupported"
    BY DEF AfterProxy
  <2>4. RequestInv(r)'
    BY <2>1, <2>2, <2>3, <1>0, <1>p DEF RequestInv
  <2> QED BY <2>2, <2>4, <1>p
<1>9. CASE DirectReturns(r)
  <2>1. /\ request[r] = "direct"
        /\ request'[r] = IF wait[Direct(r)] = "ok" THEN "ok" ELSE "failed"
        /\ proxy'[r] = proxy[r] /\ executed'[r] = executed[r]
    BY <1>9, <1>p DEF DirectReturns
  <2>2. TransportTypeOK' /\ place' = place /\ \A c \in Calls : Moves(c)
    BY <1>9, <1>0, <1>p, ReturnMoves DEF DirectReturns
  <2>3. RequestInv(r)'
    BY <2>1, <2>2, <1>0, <1>p DEF RequestInv
  <2> QED BY <2>2, <2>3, <1>p
<1> QED BY <1>1, <1>2, <1>3, <1>4, <1>5, <1>6, <1>7, <1>8, <1>9 DEF RequestNext

(* The polls leave the requests alone.                                     *)
LEMMA PollsLeaveRequests ==
  ASSUME RequestsInv, faults' \in Nat, UNCHANGED proxying,
         NEW c \in PollIds, Call(c) \/ Return(c) \/ Abandon(c) \/ Answer(c)
  PROVE  RequestsInv'
<1>0. ProxyingTypeOK /\ TransportTypeOK /\ c \in Calls
  BY PollIdsAreCalls DEF RequestsInv, ProxyingTypeOK
<1>1. TransportTypeOK' /\ \A d \in Calls \ {c} : Moves(d)
  BY <1>0, CallMoves, ReturnMoves, AnswerMoves
<1>2. ASSUME NEW r \in Requests PROVE RequestInv(r)'
  <2>1. c \notin {Proxied(r), Onward(r), Direct(r)}
    BY CallsDiffer
  <2>2. request'[r] = request[r] /\ proxy'[r] = proxy[r] /\ executed'[r] = executed[r]
    BY DEF proxying
  <2> QED BY <1>0, <1>1, <2>1, <2>2, OthersUndisturbed
<1>3. ProxyingTypeOK'
  BY <1>0, <1>1 DEF ProxyingTypeOK, proxying
<1> QED BY <1>2, <1>3 DEF RequestsInv

LEMMA QuietStep ==
  ASSUME RequestsInv, faults' \in Nat, UNCHANGED <<net, proxying>>
  PROVE  RequestsInv'
<1>1. ProxyingTypeOK' /\ place' = place /\ wait' = wait
  BY DEF RequestsInv, ProxyingTypeOK, TransportTypeOK, net, proxying
<1>2. ASSUME NEW r \in Requests PROVE RequestInv(r)'
  BY <1>1, UnmovedMoves, Undisturbed DEF RequestsInv, proxying
<1> QED BY <1>1, <1>2 DEF RequestsInv

LEMMA RequestsNextInv ==
  ASSUME RequestsInv, PollTypeOK, [Next]_vars
  PROVE  RequestsInv'
<1>0. ProxyingTypeOK /\ TransportTypeOK /\ faults \in Nat
  BY DEF RequestsInv, ProxyingTypeOK, TransportTypeOK
<1>1. CASE UNCHANGED vars
  BY <1>0, <1>1, QuietStep DEF vars
<1>2. CASE \/ \E b \in Boxes : Post(b) \/ Deny(b)
           \/ \E t \in Tasks : Ask(t) \/ Receive(t)
  <2>1. UNCHANGED <<net, proxying>>
    BY <1>2 DEF Post, Deny, Ask, Receive
  <2>2. faults' \in Nat
    BY <1>0, <1>2, FaultType DEF Post, Deny, Ask, Receive
  <2> QED BY <2>1, <2>2, QuietStep
<1>3. CASE TakeRequest
  <2>1. CASE poll = {}
    BY <1>0, <1>3, <2>1, QuietStep DEF TakeRequest
  <2>2. CASE poll # {}
    <3>1. PICK c \in PollIds : Abandon(c)
      BY <1>3, <2>2 DEF TakeRequest, PollTypeOK
    <3>2. UNCHANGED proxying /\ faults' = faults
      BY <1>3, <3>1 DEF TakeRequest, Abandon
    <3> QED BY <1>0, <3>1, <3>2, PollsLeaveRequests
  <2> QED BY <2>1, <2>2
<1>4. CASE StartPoll
  <2>1. PICK c \in poll' : Call(c) /\ UNCHANGED proxying
    BY <1>4 DEF StartPoll
  <2>2. c \in PollIds
    BY <1>4 DEF StartPoll
  <2>3. faults' = faults
    BY <2>1 DEF Call
  <2> QED BY <1>0, <2>1, <2>2, <2>3, PollsLeaveRequests
<1>5. ASSUME NEW c \in PollIds, PollServed(c) \/ PollExpires(c) \/ PollFails(c) \/ PollReturns(c)
      PROVE  RequestsInv'
  <2>1. UNCHANGED proxying /\ (Answer(c) \/ Return(c))
    BY <1>5 DEF PollServed, PollExpires, PollFails, PollReturns, Answers
  <2>2. faults' \in Nat
    BY <1>0, <1>5, FaultType DEF PollServed, PollExpires, PollFails, PollReturns, Return
  <2> QED BY <2>1, <2>2, PollsLeaveRequests
<1>6. ASSUME NEW s \in Requests, RequestNext(s) PROVE RequestsInv'
  <2>1. /\ TransportTypeOK' /\ RequestInv(s)'
        /\ \E d \in {Proxied(s), Onward(s), Direct(s)} : \A c \in Calls \ {d} : Moves(c)
    BY <1>6, RequestStep
  <2>2. PICK d \in {Proxied(s), Onward(s), Direct(s)} : \A c \in Calls \ {d} : Moves(c)
    BY <2>1
  <2>3. ProxyingTypeOK'
    BY <1>0, <1>6, <2>1, OwnStep DEF ProxyingTypeOK
  <2>4. ASSUME NEW r \in Requests, r # s PROVE RequestInv(r)'
    <3>1. request'[r] = request[r] /\ proxy'[r] = proxy[r] /\ executed'[r] = executed[r]
      BY <1>0, <1>6, <2>4, OwnStep
    <3>2. d \in Calls /\ d \notin {Proxied(r), Onward(r), Direct(r)}
      BY <2>2, <2>4, CallsDiffer
    <3> QED BY <2>2, <3>1, <3>2, OthersUndisturbed
  <2> QED BY <2>1, <2>3, <2>4 DEF RequestsInv
<1>7. CASE TransportNext /\ UNCHANGED <<proxying, polling>>
  <2>1. TransportTypeOK' /\ \A c \in Calls : Moves(c)
    BY <1>0, <1>7, TransportMoves
  <2>2. ProxyingTypeOK'
    BY <1>0, <1>7, <2>1 DEF ProxyingTypeOK, proxying
  <2>3. ASSUME NEW r \in Requests PROVE RequestInv(r)'
    BY <1>7, <2>1, CallsDiffer, Undisturbed DEF RequestsInv, proxying
  <2> QED BY <2>2, <2>3 DEF RequestsInv
<1> QED BY <1>1, <1>2, <1>3, <1>4, <1>5, <1>6, <1>7 DEF Next

LEMMA RequestsInitInv == Init => RequestsInv
<1> SUFFICES ASSUME Init PROVE RequestsInv
  OBVIOUS
<1>1. faults \in Nat
  BY BoundsType DEF Init
<1>2. TransportTypeOK
  BY <1>1 DEF Init, ProxyingInit, TransportInit, TransportTypeOK
<1>3. ProxyingTypeOK
  BY <1>2 DEF Init, ProxyingInit, ProxyingTypeOK
<1>4. ASSUME NEW r \in Requests PROVE RequestInv(r)
  <2>1. /\ request[r] = "new" /\ proxy[r] = "idle" /\ executed[r] = 0
        /\ \A c \in {Proxied(r), Onward(r), Direct(r)} : place[c] = "none" /\ wait[c] = "idle"
    BY CallsDiffer DEF Init, ProxyingInit, TransportInit
  <2> QED BY <2>1 DEF RequestInv, OneWay, NotYetExecuted, ExecutedBefore, NotPassed, NotDirect,
                      DirectOnly, UnderWay, Succeeded
<1> QED BY <1>3, <1>4 DEF RequestsInv
-----------------------------------------------------------------------------
(* A finite set of naturals has a greatest element: a least set without    *)
(* one would have one less without an element.                             *)
LEMMA MaxIs ==
  ASSUME NEW S \in SUBSET Nat, S # {}, IsFiniteSet(S)
  PROVE  Max(S) \in S /\ \A y \in S : y <= Max(S)
<1> DEFINE HasMax(T) == \E x \in T : \A y \in T : y <= x
           Bad == {n \in Nat : \E T \in SUBSET Nat :
                     T # {} /\ IsFiniteSet(T) /\ Cardinality(T) = n /\ ~HasMax(T)}
<1>1. ASSUME Bad # {} PROVE FALSE
  <2>1. PICK n \in Bad : \A m \in Bad : n <= m
    BY <1>1, LeastElement
  <2>2. PICK T \in SUBSET Nat : T # {} /\ IsFiniteSet(T) /\ Cardinality(T) = n /\ ~HasMax(T)
    BY <2>1
  <2>3. PICK x \in T : TRUE
    BY <2>2
  <2> DEFINE R == T \ {x}
  <2>4. IsFiniteSet(R) /\ Cardinality(R) = n - 1 /\ Cardinality(R) \in Nat
    BY <2>2, <2>3, FS_RemoveElement, FS_CardinalityType
  <2>5. CASE R = {}
    BY <2>2, <2>3, <2>5
  <2>6. CASE R # {}
    <3>1. HasMax(R)
      <4>1. n - 1 \notin Bad
        BY <2>1
      <4>2. R \in SUBSET Nat
        BY <2>2
      <4> HIDE DEF R, HasMax
      <4>3. ~HasMax(R) => n - 1 \in Bad
        BY <2>4, <2>6, <4>2
      <4> QED BY <4>1, <4>3
    <3>2. PICK m \in R : \A y \in R : y <= m
      BY <3>1
    <3>3. \A y \in T : y <= (IF m <= x THEN x ELSE m)
      BY <2>2, <2>3, <3>2
    <3> QED BY <2>2, <2>3, <3>2, <3>3
  <2> QED BY <2>5, <2>6
<1>2. Cardinality(S) \in Nat
  BY FS_CardinalityType
<1>3. HasMax(S)
  BY <1>1, <1>2
<1> QED BY <1>3 DEF Max

LEMMA ErrorIs ==
  ASSUME PollTypeOK, NEW b \in Boxes
  PROVE  /\ Error \in Nat /\ MaxEntries[workload][b] \in Nat
         /\ MaxEntries[workload][b] < Error /\ Error # NoAnswer
<1> DEFINE bound(o) == MaxEntries[workload][o]
           S == {bound(o) : o \in Boxes}
<1>1. \A o \in Boxes : bound(o) \in Nat
  BY BoundsType DEF PollTypeOK
<1>2. IsFiniteSet(S)
  <2>1. PICK f : f = [o \in Boxes |-> bound(o)]
    OBVIOUS
  <2>2. f \in Surjection(Boxes, S)
    BY <2>1 DEF Surjection
  <2> QED BY <2>2, BoxesAreOneTasks, FS_Surjection
<1>3. bound(b) \in S /\ S \in SUBSET Nat
  BY <1>1
<1>4. Max(S) \in Nat /\ bound(b) <= Max(S)
  BY <1>2, <1>3, MaxIs
<1>5. Error = Max(S) + 1
  BY DEF Error
<1> QED BY <1>1, <1>4, <1>5 DEF NoAnswer
-----------------------------------------------------------------------------
(* The poller's parts.                                                     *)
LEMMA QueueIs ==
  ASSUME PollTypeOK
  PROVE  /\ Len(queue) \in Nat /\ DOMAIN queue = 1 .. Len(queue)
         /\ queue \in [1 .. Len(queue) -> PollRequest]
         /\ \A i \in 1 .. Len(queue) : queue[i] \in PollRequest
BY LenProperties, ElementOfSeq DEF PollTypeOK

LEMMA PollRequestIs ==
  ASSUME NEW r \in PollRequest
  PROVE  /\ r.box \in Boxes /\ r.after \in Nat /\ r.live \in BOOLEAN
         /\ r = [box |-> r.box, after |-> r.after, live |-> r.live]
BY DEF PollRequest

LEMMA TaskOf ==
  ASSUME NEW s \in Tasks, NEW t \in Tasks, NEW b \in BoxesOf[s], b \in BoxesOf[t]
  PROVE  s = t /\ b \in Boxes
BY BoxesAreOneTasks DEF Boxes

LEMMA PollInitInv == Init => PollInv
<1> SUFFICES ASSUME Init PROVE PollInv
  OBVIOUS
<1>1. PollTypeOK
  <2>1. queue \in Seq(PollRequest)
    BY EmptySeq DEF Init
  <2>2. reply \in [refused : BOOLEAN, of : [Boxes -> SUBSET Nat]]
    BY DEF Init, Nothing
  <2>3. \A b \in Boxes : entries[b] <= MaxEntries[workload][b] /\ after[b] <= entries[b]
    BY BoundsType DEF Init
  <2> QED BY <2>1, <2>2, <2>3 DEF Init, PollTypeOK, NoAnswer
<1>2. LiveOnce
  BY EmptySeq DEF LiveOnce, Init
<1>3. AnswerIsNext /\ ReplyHasNoGap
  BY DEF Init, AnswerIsNext, ReplyHasNoGap, Nothing
<1> QED BY <1>1, <1>2, <1>3 DEF PollInv

LEMMA PartsKept ==
  ASSUME PollInv, UNCHANGED <<workload, entries, after, asked, queue, pending, reply, answer>>
  PROVE  LiveOnce' /\ AnswerIsNext' /\ ReplyHasNoGap'
BY DEF PollInv, LiveOnce, AnswerIsNext, ReplyHasNoGap, Asked, AskedIn, Error

LEMMA PollStutter ==
  ASSUME PollInv, UNCHANGED polling
  PROVE  PollInv'
<1>1. PollTypeOK'
  BY DEF PollInv, PollTypeOK, polling
<1>2. LiveOnce' /\ AnswerIsNext' /\ ReplyHasNoGap'
  BY PartsKept DEF polling
<1> QED BY <1>1, <1>2 DEF PollInv

LEMMA PostInv ==
  ASSUME PollInv, NEW b \in Boxes, Post(b)
  PROVE  PollInv'
<1>0. /\ entries[b] < MaxEntries[workload][b] /\ entries' = [entries EXCEPT ![b] = entries[b] + 1]
      /\ UNCHANGED <<workload, denied, after, asked, queue, pending, poll, reply, answer>>
  BY DEF Post
<1>1. PollTypeOK /\ LiveOnce /\ AnswerIsNext /\ ReplyHasNoGap
  BY DEF PollInv
<1>2. \A o \in Boxes : entries[o] \in Nat /\ entries'[o] \in Nat /\ entries[o] <= entries'[o]
                       /\ after[o] \in Nat /\ MaxEntries[workload][o] \in Nat
  BY <1>0, <1>1, ErrorIs DEF PollTypeOK
<1>3. PollTypeOK'
  <2>1. \A o \in Boxes : entries'[o] <= MaxEntries[workload][o] /\ after[o] <= entries'[o]
    BY <1>0, <1>1, <1>2 DEF PollTypeOK
  <2> QED BY <1>0, <1>1, <2>1 DEF PollTypeOK
<1>4. LiveOnce'
  BY <1>0, <1>1 DEF LiveOnce, Asked, AskedIn
<1>5. AnswerIsNext'
  BY <1>0, <1>1, <1>2 DEF AnswerIsNext, Asked, AskedIn, Error
<1>6. ReplyHasNoGap'
  <2>1. \A o \in Boxes : reply.of[o] \subseteq Nat
    BY <1>1 DEF PollTypeOK
  <2> QED BY <1>0, <1>1, <1>2, <2>1 DEF ReplyHasNoGap
<1> QED BY <1>3, <1>4, <1>5, <1>6 DEF PollInv

LEMMA DenyInv ==
  ASSUME PollInv, NEW b \in Boxes, Deny(b)
  PROVE  PollInv'
<1>1. PollTypeOK'
  BY DEF PollInv, PollTypeOK, Deny
<1>2. LiveOnce' /\ AnswerIsNext' /\ ReplyHasNoGap'
  BY PartsKept DEF Deny
<1> QED BY <1>1, <1>2 DEF PollInv

LEMMA StartPollInv ==
  ASSUME PollInv, StartPoll
  PROVE  PollInv'
<1>1. PollTypeOK'
  <2>1. \E c \in PollIds : poll' = {c}
    BY DEF StartPoll
  <2> QED BY <2>1 DEF PollInv, PollTypeOK, StartPoll
<1>2. LiveOnce' /\ AnswerIsNext' /\ ReplyHasNoGap'
  BY PartsKept DEF StartPoll
<1> QED BY <1>1, <1>2 DEF PollInv

(* A task's requests join the channel: it has none there yet.              *)
LEMMA AskInv ==
  ASSUME PollInv, NEW t \in Tasks, Ask(t)
  PROVE  PollInv'
<1>1. PollTypeOK /\ LiveOnce /\ AnswerIsNext /\ ReplyHasNoGap
  BY DEF PollInv
<1>2. PICK order \in SetToSeqs(BoxesOf[t]) :
        queue' = queue \o [i \in DOMAIN order |-> Request(order[i], TRUE)]
  BY DEF Ask
<1> DEFINE n == Cardinality(BoxesOf[t])
           more == [i \in DOMAIN order |-> Request(order[i], TRUE)]
<1>3. /\ t \notin asked /\ asked' = asked \cup {t}
      /\ UNCHANGED <<workload, entries, denied, after, pending, poll, reply, answer>>
  BY DEF Ask
<1>4. BoxesOf[t] \subseteq Boxes /\ n \in Nat
  <2>1. BoxesOf[t] \subseteq Boxes
    BY DEF Boxes
  <2>2. IsFiniteSet(BoxesOf[t])
    BY <2>1, BoxesAreOneTasks, FS_Subset
  <2> QED BY <2>1, <2>2, FS_CardinalityType
<1>5. /\ order \in [1 .. n -> BoxesOf[t]] /\ DOMAIN order = 1 .. n
      /\ \A i, j \in 1 .. n : i # j => order[i] # order[j]
  BY <1>2 DEF SetToSeqs
<1>6. \A i \in 1 .. n : /\ more[i].box = order[i] /\ more[i].live /\ more[i] \in PollRequest
                        /\ more[i].after = after[order[i]]
  <2> SUFFICES ASSUME NEW i \in 1 .. n
               PROVE  /\ more[i].box = order[i] /\ more[i].live /\ more[i] \in PollRequest
                      /\ more[i].after = after[order[i]]
    OBVIOUS
  <2>1. more[i] = [box |-> order[i], after |-> after[order[i]], live |-> TRUE]
    BY <1>5 DEF Request
  <2>2. order[i] \in Boxes /\ after[order[i]] \in Nat
    BY <1>1, <1>4, <1>5 DEF PollTypeOK
  <2>3. PICK b \in Boxes, a \in Nat : b = order[i] /\ a = after[order[i]]
    BY <2>2
  <2>4. PICK h : h = [box |-> b, after |-> a, live |-> TRUE]
    OBVIOUS
  <2>5. h.box = b /\ h.live /\ h.after = a /\ h \in PollRequest
    BY <2>4 DEF PollRequest
  <2>6. more[i] = h
    BY <2>1, <2>3, <2>4
  <2> HIDE DEF more
  <2> QED BY <2>3, <2>5, <2>6
<1>7. more \in Seq(PollRequest) /\ Len(more) = n
  <2>1. more \in [1 .. n -> PollRequest] /\ DOMAIN more = 1 .. n
    BY <1>5, <1>6
  <2>2. more \in Seq(PollRequest)
    BY <1>4, <2>1, SeqDef, ZenonT(60)
  <2> QED BY <1>4, <2>1, <2>2, LenProperties
<1> HIDE DEF more, n
<1>8. /\ queue' \in Seq(PollRequest) /\ Len(queue') = Len(queue) + n /\ Len(queue) \in Nat
      /\ \A i \in 1 .. Len(queue) : queue'[i] = queue[i]
      /\ \A i \in Len(queue) + 1 .. Len(queue) + n : queue'[i] = more[i - Len(queue)]
  <2>0. queue \in Seq(PollRequest) /\ queue' = queue \o more /\ Len(queue) \in Nat
    BY <1>1, <1>2, LenProperties DEF PollTypeOK, more
  <2>1. /\ queue' \in Seq(PollRequest) /\ Len(queue') = Len(queue) + n
        /\ \A i \in 1 .. Len(queue) + n :
             queue'[i] = IF i <= Len(queue) THEN queue[i] ELSE more[i - Len(queue)]
    BY <2>0, <1>7, ConcatProperties
  <2> QED BY <2>0, <2>1, <1>4
<1>9. PollTypeOK'
  BY <1>1, <1>3, <1>8 DEF PollTypeOK
(* What is queued now is an old request, or one of this task's mailboxes.  *)
<1>10. ASSUME NEW b \in BoxesOf[t] PROVE ~Asked(b) /\ b \in Boxes
  <2>1. \A s \in asked : s \in Tasks /\ s # t
    BY <1>1, <1>3 DEF PollTypeOK
  <2> QED BY <2>1, <1>4, TaskOf DEF Asked, AskedIn
<1>11. \A b : Asked(b) => AskedIn(asked', b)
  BY <1>3 DEF Asked, AskedIn
<1>12. ASSUME NEW i \in 1 .. Len(queue')
       PROVE  \/ i \in 1 .. Len(queue) /\ queue'[i] = queue[i]
              \/ \E k \in 1 .. n : i = Len(queue) + k /\ queue'[i] = more[k]
  <2>1. i \in 1 .. Len(queue) \/ i \in Len(queue) + 1 .. Len(queue) + n
    BY <1>8, <1>4
  <2>2. CASE i \in Len(queue) + 1 .. Len(queue) + n
    <3>1. i - Len(queue) \in 1 .. n /\ i = Len(queue) + (i - Len(queue))
      BY <1>8, <1>4, <2>2
    <3> QED BY <3>1, <1>8, <2>2
  <2> QED BY <2>1, <2>2, <1>8
<1>13. ASSUME NEW i \in 1 .. Len(queue'), queue'[i].live
       PROVE  /\ queue'[i].after = after[queue'[i].box] /\ answer[queue'[i].box] = NoAnswer
              /\ AskedIn(asked', queue'[i].box)
              /\ \A r \in pending : r.live => r.box # queue'[i].box
  <2>1. CASE i \in 1 .. Len(queue) /\ queue'[i] = queue[i]
    BY <1>1, <1>11, <1>13, <2>1 DEF LiveOnce
  <2>2. ASSUME NEW k \in 1 .. n, queue'[i] = more[k]
        PROVE  /\ queue'[i].after = after[queue'[i].box] /\ answer[queue'[i].box] = NoAnswer
               /\ AskedIn(asked', queue'[i].box)
               /\ \A r \in pending : r.live => r.box # queue'[i].box
    <3>1. queue'[i].box = order[k] /\ queue'[i].after = after[order[k]] /\ order[k] \in BoxesOf[t]
      BY <1>5, <1>6, <2>2
    <3>2. ~Asked(order[k]) /\ order[k] \in Boxes
      BY <3>1, <1>10
    <3>3. answer[order[k]] = NoAnswer
      BY <3>2, <1>1 DEF AnswerIsNext
    <3>4. AskedIn(asked', order[k])
      BY <3>1, <1>3 DEF Asked, AskedIn
    <3>5. \A r \in pending : r.live => r.box # order[k]
      BY <3>2, <1>1 DEF LiveOnce
    <3> QED BY <3>1, <3>3, <3>4, <3>5
  <2> QED BY <2>1, <2>2, <1>12
<1>14. ASSUME NEW i \in 1 .. Len(queue'), NEW j \in 1 .. Len(queue'), i # j,
              queue'[i].live, queue'[j].live
       PROVE  queue'[j].box # queue'[i].box
  <2>1. \A k \in 1 .. Len(queue) : \A m \in 1 .. n : queue[k].live => queue[k].box # more[m].box
    BY <1>1, <1>5, <1>6, <1>10 DEF LiveOnce
  <2>2. \A k, m \in 1 .. n : k # m => more[k].box # more[m].box
    BY <1>5, <1>6
  <2>3. \A k, m \in 1 .. Len(queue) :
          queue[k].live /\ queue[m].live /\ k # m => queue[k].box # queue[m].box
    BY <1>1 DEF LiveOnce
  <2>4. CASE i \in 1 .. Len(queue) /\ queue'[i] = queue[i]
    <3>1. CASE j \in 1 .. Len(queue) /\ queue'[j] = queue[j]
      BY <1>14, <2>3, <2>4, <3>1
    <3>2. CASE \E k \in 1 .. n : queue'[j] = more[k]
      BY <1>14, <2>1, <2>4, <3>2
    <3> QED BY <1>12, <3>1, <3>2
  <2>5. ASSUME NEW k \in 1 .. n, i = Len(queue) + k, queue'[i] = more[k]
        PROVE  queue'[j].box # queue'[i].box
    <3>1. CASE j \in 1 .. Len(queue) /\ queue'[j] = queue[j]
      BY <1>14, <2>1, <2>5, <3>1
    <3>2. ASSUME NEW m \in 1 .. n, j = Len(queue) + m, queue'[j] = more[m]
          PROVE  queue'[j].box # queue'[i].box
      <4>1. m # k
        BY <1>14, <2>5, <3>2
      <4> QED BY <4>1, <2>2, <2>5, <3>2
    <3> QED BY <1>12, <3>1, <3>2
  <2> QED BY <1>12, <2>4, <2>5
<1>15. LiveOnce'
  <2>1. \A r \in pending' : r.live =>
          r.after = after'[r.box] /\ answer'[r.box] = NoAnswer /\ AskedIn(asked', r.box)
    BY <1>1, <1>3, <1>11 DEF LiveOnce
  <2> QED BY <2>1, <1>3, <1>13, <1>14 DEF LiveOnce, Asked
<1>16. AnswerIsNext' /\ ReplyHasNoGap'
  BY <1>1, <1>3, <1>11 DEF AnswerIsNext, ReplyHasNoGap, Error, Asked
<1> QED BY <1>9, <1>15, <1>16 DEF PollInv

(* The worker takes the first request, and forgets the poll.               *)
LEMMA TakeRequestInv ==
  ASSUME PollInv, TakeRequest
  PROVE  PollInv'
<1>1. PollTypeOK /\ LiveOnce /\ AnswerIsNext /\ ReplyHasNoGap
  BY DEF PollInv
<1>2. /\ queue # <<>> /\ pending' = pending \cup {Head(queue)} /\ queue' = Tail(queue)
      /\ poll' = {} /\ reply' = Nothing
      /\ UNCHANGED <<workload, entries, denied, after, asked, answer>>
  BY DEF TakeRequest
<1>3. /\ Head(queue) \in PollRequest /\ queue' \in Seq(PollRequest)
      /\ Len(queue) \in Nat \ {0} /\ Len(queue') = Len(queue) - 1 /\ Head(queue) = queue[1]
      /\ \A i \in 1 .. Len(queue') : queue'[i] = queue[i + 1]
  <2>1. queue \in Seq(PollRequest)
    BY <1>1 DEF PollTypeOK
  <2> QED BY <2>1, <1>2, HeadTailProperties, EmptySeq
<1>4. reply' \in [refused : BOOLEAN, of : [Boxes -> SUBSET Nat]]
      /\ \A b \in Boxes : reply'.of[b] = {}
  BY <1>2 DEF Nothing
<1>5. PollTypeOK'
  BY <1>1, <1>2, <1>3, <1>4 DEF PollTypeOK
<1>6. \A i \in 1 .. Len(queue') : i + 1 \in 1 .. Len(queue) /\ i + 1 # 1
  BY <1>3
<1>7. \A b : AskedIn(asked', b) = Asked(b)
  BY <1>2 DEF Asked, AskedIn
<1>8. LiveOnce'
  <2>1. 1 \in 1 .. Len(queue)
    BY <1>3
  <2>2. \A r \in pending' : r.live =>
          r.after = after'[r.box] /\ answer'[r.box] = NoAnswer /\ AskedIn(asked', r.box)
    BY <1>1, <1>2, <1>3, <1>7, <2>1 DEF LiveOnce
  <2>3. ASSUME NEW i \in 1 .. Len(queue'), queue'[i].live
        PROVE  /\ queue'[i].after = after'[queue'[i].box] /\ answer'[queue'[i].box] = NoAnswer
               /\ AskedIn(asked', queue'[i].box)
               /\ \A r \in pending' : r.live => r.box # queue'[i].box
    <3>1. PICK k \in 1 .. Len(queue) : k = i + 1 /\ k # 1 /\ queue'[i] = queue[k]
      BY <1>3, <1>6
    <3> QED BY <3>1, <2>1, <2>3, <1>1, <1>2, <1>3, <1>7 DEF LiveOnce
  <2>4. ASSUME NEW i \in 1 .. Len(queue'), NEW j \in 1 .. Len(queue'), i # j,
               queue'[i].live, queue'[j].live
        PROVE  queue'[j].box # queue'[i].box
    <3>1. PICK k \in 1 .. Len(queue) : k = i + 1 /\ queue'[i] = queue[k]
      BY <1>3, <1>6
    <3>2. PICK m \in 1 .. Len(queue) : m = j + 1 /\ queue'[j] = queue[m]
      BY <1>3, <1>6
    <3>3. k # m
      BY <2>4, <3>1, <3>2
    <3> QED BY <3>1, <3>2, <3>3, <2>4, <1>1 DEF LiveOnce
  <2> QED BY <2>2, <2>3, <2>4 DEF LiveOnce, Asked
<1>9. AnswerIsNext'
  BY <1>1, <1>2, <1>7 DEF AnswerIsNext, Error, Asked
<1>10. ReplyHasNoGap'
  BY <1>4 DEF ReplyHasNoGap
<1> QED BY <1>5, <1>8, <1>9, <1>10 DEF PollInv

(* The server's answer to a poll.  The page begins at the least cursor.    *)
LEMMA NothingIs ==
  /\ Nothing \in [refused : BOOLEAN, of : [Boxes -> SUBSET Nat]]
  /\ Refusal \in [refused : BOOLEAN, of : [Boxes -> SUBSET Nat]]
  /\ \A b \in Boxes : Nothing.of[b] = {} /\ Refusal.of[b] = {}
<1>1. PICK f : f = [b \in Boxes |-> {}]
  OBVIOUS
<1>2. f \in [Boxes -> SUBSET Nat] /\ \A b \in Boxes : f[b] = {}
  BY <1>1
<1>3. Nothing = [refused |-> FALSE, of |-> f]
  BY <1>1 DEF Nothing
<1>4. Nothing \in [refused : BOOLEAN, of : [Boxes -> SUBSET Nat]] /\ Nothing.of = f
  BY <1>2, <1>3
<1>5. Refusal \in [refused : BOOLEAN, of : [Boxes -> SUBSET Nat]] /\ Refusal.of = f
  <2>1. PICK n \in [refused : BOOLEAN, of : [Boxes -> SUBSET Nat]] : n = Nothing
    BY <1>4
  <2> QED BY <1>4, <2>1 DEF Refusal
<1> QED BY <1>2, <1>4, <1>5

LEMMA MinAfterIs ==
  ASSUME PollTypeOK, NEW b \in Polled
  PROVE  MinAfter(b) \in Nat /\ \A r \in pending : r.box = b => MinAfter(b) <= r.after
<1> DEFINE S == {r.after : r \in {q \in pending : q.box = b}}
<1>1. \A r \in pending : r.after \in Nat
  BY PollRequestIs DEF PollTypeOK
<1>2. S \in SUBSET Nat /\ S # {}
  BY <1>1 DEF Polled
<1>3. Min(S) \in S /\ \A y \in S : Min(S) <= y
  BY <1>2, MinIs
<1> QED BY <1>2, <1>3 DEF MinAfter

LEMMA PageHasNoGap ==
  ASSUME PollTypeOK, NEW b \in Polled, b \in Boxes
  PROVE  LET page == {e \in Unseen(b) : e <= MinAfter(b) + Page}
         IN  /\ page \subseteq Nat
             /\ \A e \in page :
                  /\ e <= entries[b]
                  /\ \A r \in pending : r.box = b => r.after + 1 .. e \subseteq page
<1> DEFINE page == {e \in Unseen(b) : e <= MinAfter(b) + Page}
<1>1. PICK m \in Nat : m = MinAfter(b) /\ \A r \in pending : r.box = b => m <= r.after
  BY MinAfterIs
<1>2. \A r \in pending : r.after \in Nat
  BY PollRequestIs DEF PollTypeOK
<1>3. entries[b] \in Nat /\ Page \in Nat
  BY PageIsPositive DEF PollTypeOK
<1>4. page = {e \in m + 1 .. entries[b] : e <= m + Page}
  BY <1>1 DEF Unseen
<1>5. page \subseteq Nat /\ \A e \in page : e <= entries[b]
  BY <1>1, <1>3, <1>4
<1>6. ASSUME NEW e \in page, NEW r \in pending, r.box = b, NEW k \in r.after + 1 .. e
      PROVE  k \in page
  <2>1. m <= r.after /\ r.after \in Nat
    BY <1>1, <1>2, <1>6
  <2>2. e \in Nat /\ e <= entries[b] /\ e <= m + Page
    BY <1>1, <1>3, <1>4, <1>6
  <2>3. k \in m + 1 .. entries[b] /\ k <= m + Page
    BY <1>1, <1>3, <1>6, <2>1, <2>2
  <2> QED BY <1>4, <2>3
<1> QED BY <1>5, <1>6

LEMMA PollAnsweredInv ==
  ASSUME PollInv, NEW c \in PollIds, PollServed(c) \/ PollExpires(c) \/ PollFails(c)
  PROVE  PollInv'
<1>1. PollTypeOK /\ LiveOnce /\ AnswerIsNext /\ ReplyHasNoGap
  BY DEF PollInv
<1>2. UNCHANGED <<workload, entries, denied, after, asked, queue, pending, poll, answer>>
  BY DEF PollServed, PollExpires, PollFails, Answers
<1>3. ASSUME reply' \in [refused : BOOLEAN, of : [Boxes -> SUBSET Nat]], ReplyHasNoGap'
      PROVE  PollInv'
  <2>1. PollTypeOK'
    BY <1>1, <1>2, <1>3 DEF PollTypeOK
  <2>2. LiveOnce' /\ AnswerIsNext'
    BY <1>1, <1>2 DEF LiveOnce, AnswerIsNext, Asked, AskedIn, Error
  <2> QED BY <1>3, <2>1, <2>2 DEF PollInv
<1>4. CASE reply' = reply
  <2>1. ReplyHasNoGap'
    BY <1>1, <1>2, <1>4 DEF ReplyHasNoGap
  <2>2. reply' \in [refused : BOOLEAN, of : [Boxes -> SUBSET Nat]]
    BY <1>1, <1>4 DEF PollTypeOK
  <2> QED BY <1>3, <2>1, <2>2
<1>5. CASE reply' = Refusal
  <2>1. ReplyHasNoGap'
    BY <1>5, NothingIs DEF ReplyHasNoGap
  <2> QED BY <1>3, <1>5, <2>1, NothingIs
<1>6. ASSUME NEW b \in Polled,
             reply' = [Nothing EXCEPT !.of[b] = {e \in Unseen(b) : e <= MinAfter(b) + Page}]
      PROVE  PollInv'
  <2>1. b \in Boxes
    BY <1>1, PollRequestIs DEF Polled, PollTypeOK
  <2>2. PICK page \in SUBSET Nat :
          /\ page = {e \in Unseen(b) : e <= MinAfter(b) + Page}
          /\ \A e \in page :
               /\ e <= entries[b]
               /\ \A r \in pending : r.box = b => r.after + 1 .. e \subseteq page
    BY <1>1, <2>1, PageHasNoGap
  <2>3. /\ reply' \in [refused : BOOLEAN, of : [Boxes -> SUBSET Nat]]
        /\ reply'.of = [Nothing.of EXCEPT ![b] = page]
    BY <1>6, <2>1, <2>2, NothingIs
  <2>4. reply'.of[b] = page /\ \A o \in Boxes : o # b => reply'.of[o] = {}
    BY <2>1, <2>3, NothingIs
  <2>5. ReplyHasNoGap'
    BY <1>2, <2>2, <2>4 DEF ReplyHasNoGap
  <2> QED BY <1>3, <2>3, <2>5
<1>7. CASE PollServed(c)
  BY <1>5, <1>6, <1>7 DEF PollServed, Answers
<1>8. CASE PollExpires(c) \/ PollFails(c)
  BY <1>4, <1>5, <1>8 DEF PollExpires, PollFails, Answers
<1> QED BY <1>7, <1>8

(* What a served request gets is the entry after its cursor.               *)
LEMMA FoundIs ==
  ASSUME PollTypeOK, ReplyHasNoGap, NEW r \in Served
  PROVE  Found(r) = r.after + 1 /\ Found(r) <= entries[r.box]
<1>1. r \in pending /\ r.box \in Boxes /\ r.after \in Nat
  BY PollRequestIs DEF Served, PollTypeOK
<1>2. PICK b, a, S : /\ b = r.box /\ a = r.after /\ S = reply.of[r.box]
  OBVIOUS
<1>3. S \in SUBSET Nat /\ a \in Nat
  BY <1>1, <1>2 DEF PollTypeOK
<1>4. PICK e \in S : e > a
  BY <1>2 DEF Served
<1>5. a + 1 \in S
  <2>1. a + 1 .. e \subseteq S
    BY <1>1, <1>2, <1>4 DEF ReplyHasNoGap
  <2> QED BY <1>3, <1>4, <2>1
<1>6. PICK T \in SUBSET Nat : T = {x \in S : x > a}
  BY <1>3
<1>7. a + 1 \in T /\ \A x \in T : a + 1 <= x
  BY <1>3, <1>5, <1>6
<1>8. Min(T) \in T /\ Min(T) <= a + 1
  BY <1>7, MinIs
<1>9. Found(r) = Min(T) /\ Min(T) = a + 1
  <2>1. Found(r) = Min(T)
    BY <1>2, <1>6 DEF Found
  <2>2. Min(T) = a + 1
    BY <1>3, <1>6, <1>7, <1>8
  <2> QED BY <2>1, <2>2
<1>10. a + 1 <= entries[b]
  BY <1>1, <1>2, <1>5 DEF ReplyHasNoGap
<1> QED BY <1>2, <1>9, <1>10

(* The worker gets the result of its poll.                                 *)
LEMMA PollReturnsInv ==
  ASSUME PollInv, NEW c \in PollIds, PollReturns(c)
  PROVE  PollInv'
<1>1. PollTypeOK /\ LiveOnce /\ AnswerIsNext /\ ReplyHasNoGap
  BY DEF PollInv
<1>2. /\ poll' = {} /\ reply' = Nothing
      /\ UNCHANGED <<workload, entries, denied, after, asked, queue>>
  BY DEF PollReturns
<1>3. \A r \in pending : r.box \in Boxes /\ r \in PollRequest
  BY <1>1, PollRequestIs DEF PollTypeOK
(* Some requests leave with what they were answered; who has no live       *)
(* request among them keeps its answer.                                    *)
<1>4. PICK gone \in SUBSET pending :
        /\ pending' = pending \ gone
        /\ answer' \in [Boxes -> Nat]
        /\ \A b \in Boxes :
             IF \E r \in gone : r.live /\ r.box = b
             THEN \/ answer'[b] = Error
                  \/ /\ answer'[b] = after[b] + 1 /\ answer'[b] <= entries[b]
                     /\ \A r \in pending : r.box = b /\ r.live => r \in gone
             ELSE answer'[b] = answer[b]
        /\ \A b \in Boxes : (\E r \in gone : r.live /\ r.box = b) =>
             \A r \in pending : r.box = b /\ r.live => r \in gone
  <2>1. CASE wait[c] = "error"
    <3>1. pending' = pending /\ answer' = answer
      BY <2>1 DEF PollReturns
    <3>2. answer \in [Boxes -> Nat]
      BY <1>1 DEF PollTypeOK
    <3> WITNESS {} \in SUBSET pending
    <3> QED BY <3>1, <3>2
  <2>2. CASE wait[c] # "error" /\ wait[c] = "ok" /\ reply.refused
    <3>1. /\ pending' = {}
          /\ answer' = [b \in Boxes |-> IF \E r \in pending : r.live /\ r.box = b
                                        THEN Error ELSE answer[b]]
      BY <2>2 DEF PollReturns, Respond
    <3>2. answer' \in [Boxes -> Nat]
      BY <1>1, <3>1, ErrorIs DEF PollTypeOK
    <3> WITNESS pending \in SUBSET pending
    <3> QED BY <3>1, <3>2
  <2>3. CASE wait[c] # "error" /\ ~(wait[c] = "ok" /\ reply.refused)
    <3>1. /\ pending' = pending \ Served
          /\ answer' = [b \in Boxes |->
               IF \E r \in Served : r.live /\ r.box = b
               THEN Found(CHOOSE r \in Served : r.live /\ r.box = b) ELSE answer[b]]
      BY <2>3 DEF PollReturns, Respond
    <3>2. Served \in SUBSET pending
      BY DEF Served
    <3>3. ASSUME NEW b \in Boxes, \E r \in Served : r.live /\ r.box = b
          PROVE  /\ answer'[b] = after[b] + 1 /\ answer'[b] <= entries[b]
                 /\ \A r \in pending : r.box = b /\ r.live => r \in Served
      <4>1. PICK s \in Served : s = (CHOOSE r \in Served : r.live /\ r.box = b)
                                /\ s.live /\ s.box = b
        BY <3>3
      <4>2. answer'[b] = Found(s)
        BY <3>1, <3>3, <4>1
      <4>3. s.after = after[b]
        BY <1>1, <3>2, <4>1 DEF LiveOnce
      <4>4. Found(s) = after[b] + 1 /\ Found(s) <= entries[b]
        BY <1>1, <4>1, <4>3, FoundIs
      <4>5. ASSUME NEW r \in pending, r.box = b, r.live PROVE r \in Served
        <5>1. r.after = after[b]
          BY <1>1, <4>5 DEF LiveOnce
        <5> QED BY <4>1, <4>3, <4>5, <5>1 DEF Served
      <4> QED BY <4>2, <4>4, <4>5
    <3>4. answer' \in [Boxes -> Nat]
      <4>1. \A b \in Boxes : answer[b] \in Nat /\ after[b] + 1 \in Nat
        BY <1>1 DEF PollTypeOK
      <4>2. \A b \in Boxes : answer'[b] \in Nat
        BY <3>1, <3>3, <4>1
      <4> QED BY <3>1, <4>2
    <3>5. \A b \in Boxes : ~(\E r \in Served : r.live /\ r.box = b) => answer'[b] = answer[b]
      BY <3>1
    <3> WITNESS Served \in SUBSET pending
    <3> QED BY <3>1, <3>3, <3>4, <3>5
  <2> QED BY <2>1, <2>2, <2>3
<1>5. PollTypeOK'
  <2>1. pending' \in SUBSET PollRequest
    BY <1>1, <1>4 DEF PollTypeOK
  <2> QED BY <1>1, <1>2, <1>4, <2>1, NothingIs DEF PollTypeOK
<1>6. ASSUME NEW r \in pending', r.live
      PROVE  r \in pending /\ r.box \in Boxes /\ answer'[r.box] = answer[r.box]
  BY <1>3, <1>4, <1>6
<1>7. ASSUME NEW i \in 1 .. Len(queue), queue[i].live
      PROVE  answer'[queue[i].box] = answer[queue[i].box]
  <2>1. queue[i].box \in Boxes
    BY <1>1, QueueIs, PollRequestIs
  <2>2. \A r \in pending : r.live => r.box # queue[i].box
    BY <1>1, <1>7 DEF LiveOnce
  <2> QED BY <2>1, <2>2, <1>4
<1>8. LiveOnce'
  <2>1. \A r \in pending' : r.live =>
          r.after = after'[r.box] /\ answer'[r.box] = NoAnswer /\ AskedIn(asked', r.box)
    BY <1>1, <1>2, <1>6 DEF LiveOnce, Asked
  <2>2. \A i \in 1 .. Len(queue') : queue'[i].live =>
          /\ queue'[i].after = after'[queue'[i].box] /\ answer'[queue'[i].box] = NoAnswer
          /\ AskedIn(asked', queue'[i].box)
    BY <1>1, <1>2, <1>7 DEF LiveOnce, Asked
  <2>3. \A i \in 1 .. Len(queue') : queue'[i].live =>
          /\ \A r \in pending' : r.live => r.box # queue'[i].box
          /\ \A j \in 1 .. Len(queue') : queue'[j].live /\ i # j => queue'[j].box # queue'[i].box
    BY <1>1, <1>2, <1>6 DEF LiveOnce
  <2> QED BY <2>1, <2>2, <2>3 DEF LiveOnce, Asked
<1>9. AnswerIsNext'
  <2>1. ASSUME NEW b \in Boxes
        PROVE  /\ \/ answer'[b] \in {NoAnswer, Error}
                  \/ answer'[b] = after[b] + 1 /\ answer'[b] <= entries[b]
               /\ answer'[b] # NoAnswer => Asked(b)
    <3>1. CASE \E r \in gone : r.live /\ r.box = b
      <4>1. Asked(b)
        BY <1>1, <1>4, <3>1 DEF LiveOnce
      <4> QED BY <1>4, <3>1, <4>1
    <3>2. CASE ~(\E r \in gone : r.live /\ r.box = b)
      BY <1>1, <1>4, <3>2 DEF AnswerIsNext
    <3> QED BY <3>1, <3>2
  <2> QED BY <2>1, <1>2 DEF AnswerIsNext, Error, Asked
<1>10. ReplyHasNoGap'
  BY <1>2, NothingIs DEF ReplyHasNoGap
<1> QED BY <1>5, <1>8, <1>9, <1>10 DEF PollInv

(* A task takes an answer; its mailboxes' other requests are dead.         *)
LEMMA ReceiveInv ==
  ASSUME PollInv, NEW t \in Tasks, Receive(t)
  PROVE  PollInv'
<1>1. PollTypeOK /\ LiveOnce /\ AnswerIsNext /\ ReplyHasNoGap
  BY DEF PollInv
<1> DEFINE Drop(r) == [r EXCEPT !.live = r.live /\ r.box \notin BoxesOf[t]]
<1>2. PICK b \in BoxesOf[t] :
        /\ t \in asked /\ answer[b] # NoAnswer
        /\ after' = IF answer[b] = Error THEN after ELSE [after EXCEPT ![b] = answer[b]]
        /\ answer' = [o \in Boxes |-> IF o \in BoxesOf[t] THEN NoAnswer ELSE answer[o]]
        /\ asked' = asked \ {t}
        /\ queue' = [i \in DOMAIN queue |-> Drop(queue[i])]
        /\ pending' = {Drop(r) : r \in pending}
        /\ UNCHANGED <<workload, entries, denied, poll, reply>>
  BY DEF Receive
<1>3. ASSUME NEW r \in PollRequest
      PROVE  /\ Drop(r) \in PollRequest /\ Drop(r).box = r.box /\ Drop(r).after = r.after
             /\ Drop(r).live <=> r.live /\ r.box \notin BoxesOf[t]
  BY DEF PollRequest
<1> HIDE DEF Drop
<1>4. b \in Boxes /\ BoxesOf[t] \subseteq Boxes
  BY <1>2 DEF Boxes
<1>5. \A r \in pending : r \in PollRequest
  BY <1>1 DEF PollTypeOK
<1>6. /\ queue' \in Seq(PollRequest) /\ Len(queue') = Len(queue)
      /\ \A i \in 1 .. Len(queue) : queue[i] \in PollRequest /\ queue'[i] = Drop(queue[i])
  <2>1. /\ Len(queue) \in Nat /\ DOMAIN queue = 1 .. Len(queue)
        /\ \A i \in 1 .. Len(queue) : queue[i] \in PollRequest
    BY <1>1, QueueIs
  <2>2. queue' \in [1 .. Len(queue) -> PollRequest] /\ DOMAIN queue' = 1 .. Len(queue)
    BY <1>2, <1>3, <2>1
  <2>3. queue' \in Seq(PollRequest)
    BY <2>1, <2>2, SeqDef
  <2> QED BY <1>2, <2>1, <2>2, <2>3, LenProperties
(* The cursor moves to the answer, which is the next entry.                *)
<1>7. /\ after' \in [Boxes -> Nat]
      /\ \A o \in Boxes : after'[o] <= entries[o]
      /\ \A o \in Boxes : o \notin BoxesOf[t] => after'[o] = after[o]
  <2>1. CASE answer[b] = Error
    BY <1>1, <1>2, <2>1 DEF PollTypeOK
  <2>2. CASE answer[b] # Error
    <3>1. answer[b] \in Nat /\ answer[b] <= entries[b]
      BY <1>1, <1>2, <1>4, <2>2 DEF AnswerIsNext, PollTypeOK
    <3> QED BY <1>1, <1>2, <1>4, <2>2, <3>1 DEF PollTypeOK
  <2> QED BY <2>1, <2>2
<1>8. PollTypeOK'
  <2>1. answer' \in [Boxes -> Nat]
    BY <1>1, <1>2 DEF PollTypeOK, NoAnswer
  <2>2. pending' \in SUBSET PollRequest
    BY <1>2, <1>3, <1>5
  <2> QED BY <1>1, <1>2, <1>6, <1>7, <2>1, <2>2 DEF PollTypeOK
<1>9. \A o : o \notin BoxesOf[t] /\ Asked(o) => AskedIn(asked', o)
  BY <1>2 DEF Asked, AskedIn
(* A request that still lives is as it was, and of another task.           *)
<1>10. ASSUME NEW r \in PollRequest, Drop(r).live
       PROVE  /\ Drop(r).box = r.box /\ Drop(r).after = r.after /\ r.live
              /\ r.box \in Boxes /\ r.box \notin BoxesOf[t]
              /\ after'[r.box] = after[r.box] /\ answer'[r.box] = answer[r.box]
  <2>1. r.live /\ r.box \notin BoxesOf[t] /\ r.box \in Boxes
    BY <1>3, <1>10, PollRequestIs
  <2> QED BY <1>2, <1>3, <1>7, <2>1
<1>11. LiveOnce'
  <2>1. ASSUME NEW q \in pending', q.live
        PROVE  /\ q.after = after'[q.box] /\ answer'[q.box] = NoAnswer /\ AskedIn(asked', q.box)
               /\ \E r \in pending : r.live /\ r.box = q.box
    <3>1. PICK r \in pending : q = Drop(r)
      BY <1>2
    <3> QED BY <3>1, <2>1, <1>1, <1>5, <1>9, <1>10 DEF LiveOnce
  <2>2. ASSUME NEW i \in 1 .. Len(queue'), queue'[i].live
        PROVE  /\ i \in 1 .. Len(queue) /\ queue[i].live /\ queue'[i].box = queue[i].box
               /\ queue'[i].after = after'[queue'[i].box] /\ answer'[queue'[i].box] = NoAnswer
               /\ AskedIn(asked', queue'[i].box)
    <3>1. i \in 1 .. Len(queue) /\ queue'[i] = Drop(queue[i]) /\ queue[i] \in PollRequest
      BY <1>6
    <3> QED BY <3>1, <2>2, <1>1, <1>9, <1>10 DEF LiveOnce
  <2>3. ASSUME NEW i \in 1 .. Len(queue'), queue'[i].live, NEW q \in pending', q.live
        PROVE  q.box # queue'[i].box
    BY <1>1, <2>1, <2>2, <2>3 DEF LiveOnce
  <2>4. ASSUME NEW i \in 1 .. Len(queue'), queue'[i].live,
               NEW j \in 1 .. Len(queue'), queue'[j].live, i # j
        PROVE  queue'[j].box # queue'[i].box
    BY <1>1, <2>2, <2>4 DEF LiveOnce
  <2> QED BY <2>1, <2>2, <2>3, <2>4 DEF LiveOnce, Asked
<1>12. AnswerIsNext'
  <2>1. ASSUME NEW o \in Boxes
        PROVE  /\ \/ answer'[o] \in {NoAnswer, Error}
                  \/ answer'[o] = after'[o] + 1 /\ answer'[o] <= entries[o]
               /\ answer'[o] # NoAnswer => AskedIn(asked', o)
    <3>1. CASE o \in BoxesOf[t]
      BY <1>2, <3>1
    <3>2. CASE o \notin BoxesOf[t]
      BY <1>1, <1>2, <1>7, <1>9, <3>2 DEF AnswerIsNext
    <3> QED BY <3>1, <3>2
  <2> QED BY <2>1, <1>2 DEF AnswerIsNext, Error, Asked
<1>13. ReplyHasNoGap'
  <2>1. ASSUME NEW q \in pending'
        PROVE  \E r \in pending : r.box = q.box /\ r.after = q.after
    BY <1>2, <1>3, <1>5, <2>1
  <2> QED BY <1>1, <1>2, <2>1 DEF ReplyHasNoGap
<1> QED BY <1>8, <1>11, <1>12, <1>13 DEF PollInv
-----------------------------------------------------------------------------
Inv == RequestsInv /\ PollInv

LEMMA NextInv == Inv /\ [Next]_vars => Inv'
<1> SUFFICES ASSUME Inv, [Next]_vars PROVE Inv'
  OBVIOUS
<1>1. RequestsInv'
  BY RequestsNextInv DEF Inv, PollInv
<1>2. PollInv'
  <2>1. PollInv
    BY DEF Inv
  <2>2. CASE UNCHANGED polling
    BY <2>1, <2>2, PollStutter
  <2>3. CASE \E b \in Boxes : Post(b) \/ Deny(b)
    BY <2>1, <2>3, PostInv, DenyInv
  <2>4. CASE \E t \in Tasks : Ask(t) \/ Receive(t)
    BY <2>1, <2>4, AskInv, ReceiveInv
  <2>5. CASE TakeRequest \/ StartPoll
    BY <2>1, <2>5, TakeRequestInv, StartPollInv
  <2>6. CASE \E c \in PollIds : PollServed(c) \/ PollExpires(c) \/ PollFails(c) \/ PollReturns(c)
    BY <2>1, <2>6, PollAnsweredInv, PollReturnsInv
  <2>7. CASE UNCHANGED vars
    BY <2>2, <2>7 DEF vars, polling
  <2> QED BY <2>2, <2>3, <2>4, <2>5, <2>6, <2>7 DEF Next
<1> QED BY <1>1, <1>2 DEF Inv

(* The inductive invariant of the transports, the requests over them and   *)
(* the poller.                                                             *)
THEOREM Invariance == Spec => []Inv
<1>1. Init => Inv
  BY RequestsInitInv, PollInitInv DEF Inv
<1> QED BY <1>1, NextInv, PTL DEF Spec

(* ProxyingTransport over nanorpc: whichever connections break, calls time *)
(* out or transports are replaced, the target executes a request at most   *)
(* once, although it may be sent again without the proxy, and one that is  *)
(* answered was executed.                                                  *)
THEOREM ExecutedAtMostOnce == Spec => []AtMostOnce
<1>1. Inv => AtMostOnce
  BY DEF Inv, RequestsInv, RequestInv, ExecutedBefore, AtMostOnce
<1> QED BY <1>1, Invariance, PTL

(* long_poll.rs: no entry of a mailbox is skipped by a page, by another    *)
(* request's cursor, by a poll that is dropped or by a request that lost   *)
(* its race.                                                               *)
THEOREM NoEntrySkipped == Spec => []NothingSkipped
<1>1. Inv => NothingSkipped
  <2> SUFFICES ASSUME Inv PROVE NothingSkipped
    OBVIOUS
  <2>1. /\ ProxyingTypeOK /\ PollTypeOK /\ LiveOnce /\ AnswerIsNext
    BY DEF Inv, RequestsInv, PollInv
  <2>2. DOMAIN queue = 1 .. Len(queue) /\ \A i \in 1 .. Len(queue) : queue[i] \in PollRequest
    BY <2>1, QueueIs
  <2>3. \A i \in DOMAIN queue : queue[i].box \in Boxes
    BY <2>2, PollRequestIs
  <2>4. poll \subseteq PollIds /\ Cardinality(poll) <= 1
    <3>1. poll = {} \/ \E c \in PollIds : poll = {c}
      BY <2>1 DEF PollTypeOK
    <3>2. CASE poll = {}
      BY <3>2, FS_EmptySet
    <3>3. ASSUME NEW c \in PollIds, poll = {c}
          PROVE  poll \subseteq PollIds /\ Cardinality(poll) <= 1
      <4>1. Cardinality({c}) = 1
        BY FS_Singleton
      <4> QED BY <3>3, <4>1
    <3> QED BY <3>1, <3>2, <3>3
  <2>5. ASSUME NEW b \in Boxes
        PROVE  /\ entries[b] \in 0 .. MaxEntries[workload][b] /\ after[b] \in 0 .. entries[b]
               /\ answer[b] \in 0 .. Error
    <3>1. entries[b] \in Nat /\ after[b] \in Nat /\ answer[b] \in Nat
          /\ entries[b] <= MaxEntries[workload][b] /\ after[b] <= entries[b]
      BY <2>1 DEF PollTypeOK
    <3>2. /\ Error \in Nat /\ MaxEntries[workload][b] \in Nat
          /\ MaxEntries[workload][b] < Error
      BY <2>1, ErrorIs
    <3>3. answer[b] \in {0, Error} \/ answer[b] <= entries[b]
      BY <2>1 DEF AnswerIsNext, NoAnswer
    <3>4. answer[b] <= Error
      BY <3>1, <3>2, <3>3
    <3> QED BY <3>1, <3>2, <3>4
  <2>6. LongPollTypeOK
    BY <2>1, <2>3, <2>4, <2>5 DEF LongPollTypeOK, PollTypeOK
  <2>7. ASSUME NEW b \in Boxes
        PROVE  /\ answer[b] \in {NoAnswer, Error, after[b] + 1}
               /\ \A r \in pending \cup {queue[i] : i \in DOMAIN queue} :
                    r.box = b /\ r.live => r.after = after[b] /\ answer[b] = NoAnswer
    BY <2>1, <2>2 DEF AnswerIsNext, LiveOnce
  <2> QED BY <2>6, <2>7 DEF NothingSkipped
<1> QED BY <1>1, Invariance, PTL
-----------------------------------------------------------------------------
(* Client events.                                                          *)
LEMMA BoundedMax ==
  ASSUME NEW n \in Nat, NEW S \in SUBSET (0 .. n), S # {}
  PROVE  Max(S) \in S /\ \A y \in S : y <= Max(S)
<1> DEFINE T == {n - y : y \in S}
<1>1. PICK z \in T : \A y \in T : z <= y
  <2>1. T # {}
    OBVIOUS
  <2>2. ASSUME NEW z \in T PROVE z \in Nat
    <3>1. PICK y \in S : z = n - y
      OBVIOUS
    <3>2. y \in 0 .. n
      OBVIOUS
    <3> QED BY <3>1, <3>2
  <2> HIDE DEF T
  <2> QED BY <2>1, <2>2, LeastElement
<1>2. PICK x \in S : z = n - x
  OBVIOUS
<1>3. ASSUME NEW y \in S PROVE y <= x
  <2>1. n - x <= n - y
    BY <1>1, <1>2
  <2> QED BY <2>1
<1>4. \E m \in S : \A y \in S : m >= y
  BY <1>3
<1> QED BY <1>4 DEF Max

(* The tables and the loops have their types.                              *)
DbTypes ==
  /\ rows \in Seq(Row) /\ inbox \in Seq(Row)
  /\ clock \in Nat /\ taken \in 0 .. Len(inbox)
  /\ changed \subseteq 1 .. Len(rows)
LoopTypes ==
  /\ sender \in [pc : {"idle", "sending", "answered"}, row : Nat, at : Nat]
  /\ sender.row <= Len(rows) /\ sender.at <= clock
  /\ waits \in [Loops -> {"run", "check", "gap", "sleep"}]
  /\ behind \subseteq Loops
  /\ touch \in [Writers -> {"none", "due", "notify"}]
  /\ event \in [pc : {"ids", "stamps"}, lastId : Nat, lastAt : Nat, found : BOOLEAN]
  /\ event.lastId <= Len(rows) /\ event.lastAt <= clock
  /\ errors \in Nat

(* The stamp of an entry that has not come in yet is no row's.             *)
StampsFresh ==
  /\ \A i \in 1 .. Len(rows) : rows[i].at <= clock
  /\ \A n \in 1 .. Len(inbox) : inbox[n].at \in 1 .. clock
  /\ \A m, n \in 1 .. Len(inbox) : m < n => inbox[m].at < inbox[n].at
  /\ \A n \in taken + 1 .. Len(inbox), i \in 1 .. Len(rows) :
       ~inbox[n].own => rows[i].at # inbox[n].at

(* The send loop works on a pending row, and brings a stamp that no other  *)
(* row has or gets.                                                        *)
SenderAtWork ==
  /\ sender.pc = "idle" => sender.row = 0 /\ sender.at = 0
  /\ sender.pc # "idle" =>
       /\ sender.row \in 1 .. Len(rows)
       /\ rows[sender.row].own /\ rows[sender.row].at = Unread
  /\ sender.pc = "answered" =>
       /\ sender.at # Unread
       /\ \A i \in 1 .. Len(rows) : rows[i].at # sender.at
       /\ \A n \in 1 .. Len(inbox) : ~inbox[n].own => inbox[n].at # sender.at

(* The watermark is the stamp of a row that was announced.                 *)
Watermark ==
  /\ event.lastAt = 0 \/ \E j \in 1 .. Len(rows) : rows[j].at = event.lastAt
  /\ \A i \in changed : rows[i].at # Unread => rows[i].at # event.lastAt
  /\ event.pc = "stamps" => waits["event"] = "run"

(* The event loop is going to look at the table once more.                 *)
Looks ==
  \/ \E w \in Writers : touch[w] = "due"
  \/ "event" \in behind
  \/ waits["event"] = "run" /\ event.pc = "ids"

Overtaken(i) == rows[i].at # Unread /\ \E j \in 1 .. Len(rows) : rows[j].at > rows[i].at

(* A changed row is announced by this round of the event loop or by the    *)
(* next, or it was overtaken.                                              *)
Announced ==
  errors = 0 =>
    \A i \in changed :
      /\ rows[i].at = Unread => i > event.lastId \/ (event.pc = "stamps" /\ event.found)
      /\ Looks \/ Overtaken(i) \/ (event.pc = "stamps" /\ i <= event.lastId)

Stamps == UNION {[S -> Nat] : S \in SUBSET Nat}
ViewTypes ==
  /\ view \in [pc : {"closed", "open", "refresh"}, latest : Nat, next : Nat,
               due : BOOLEAN, msgs : Stamps]
  /\ view.latest <= Len(rows) /\ view.next <= Len(rows) + 1
  /\ \A i \in DOMAIN view.msgs : i \in 1 .. Len(rows) /\ view.msgs[i] <= clock

(* What the open view does not show as it is, it is told of, is about to   *)
(* read, or leaves out.                                                    *)
Shown(i) == i \in DOMAIN view.msgs /\ view.msgs[i] = rows[i].at
ViewLeaves(i) ==
  \/ Shown(i) \/ i < view.latest \/ i <= Len(rows) - PageLimit
  \/ i \in changed \/ view.due
  \/ view.pc = "refresh" /\ i >= view.next
ViewFollows ==
  /\ view.latest # 0 => Shown(view.latest) /\ rows[view.latest].at # Unread
  /\ errors = 0 /\ view.pc # "closed" => \A i \in 1 .. Len(rows) : ViewLeaves(i)

EventsInv ==
  /\ DbTypes /\ LoopTypes /\ StampsFresh /\ SenderAtWork /\ Watermark /\ Announced
  /\ ViewTypes /\ ViewFollows

LEMMA EventsTypes ==
  ASSUME EventsInv
  PROVE  TypeOK
<1>1. DOMAIN rows = 1 .. Len(rows) /\ Len(rows) \in Nat /\ \A i \in 1 .. Len(rows) : rows[i] \in Row
  BY LenProperties, ElementOfSeq DEF EventsInv, DbTypes
<1>2. /\ rows \in Seq(Row) /\ inbox \in Seq(Row) /\ clock \in Nat /\ errors \in Nat
      /\ taken \in 0 .. Len(inbox) /\ changed \subseteq 1 .. Len(rows)
  BY DEF EventsInv, DbTypes, LoopTypes
<1>3. sender \in [pc : {"idle", "sending", "answered"}, row : 0 .. Len(rows), at : 0 .. clock]
  BY <1>1, <1>2 DEF EventsInv, LoopTypes
<1>4. sender.row # 0 => rows[sender.row] = [own |-> TRUE, at |-> Unread]
  <2>1. SUFFICES ASSUME sender.row # 0
                 PROVE  rows[sender.row] = [own |-> TRUE, at |-> Unread]
    OBVIOUS
  <2>2. sender.row \in 1 .. Len(rows) /\ rows[sender.row].own /\ rows[sender.row].at = Unread
    BY <2>1 DEF EventsInv, SenderAtWork
  <2>3. PICK r \in Row : r = rows[sender.row]
    BY <1>1, <2>2
  <2>4. r.own = TRUE
    BY <2>2, <2>3 DEF Row
  <2> QED BY <2>2, <2>3, <2>4 DEF Row
<1>5. /\ waits \in [Loops -> {"run", "check", "gap", "sleep"}] /\ behind \subseteq Loops
      /\ touch \in [Writers -> {"none", "due", "notify"}]
  BY DEF EventsInv, LoopTypes
<1>6. event \in [pc : {"ids", "stamps"}, lastId : 0 .. Len(rows), lastAt : 0 .. clock, found : BOOLEAN]
  BY <1>1, <1>2 DEF EventsInv, LoopTypes
<1>7. view.pc \in {"closed", "open", "refresh"} /\ view.due \in BOOLEAN
  BY DEF EventsInv, ViewTypes
<1>8. {view.latest, view.next - 1} \subseteq -1 .. Len(rows)
  BY <1>1 DEF EventsInv, ViewTypes
<1>9. DOMAIN view.msgs \subseteq DOMAIN rows /\ Range(view.msgs) \subseteq 0 .. clock
  <2>1. \A i \in DOMAIN view.msgs : i \in 1 .. Len(rows) /\ view.msgs[i] <= clock
    BY DEF EventsInv, ViewTypes
  <2>2. \A i \in DOMAIN view.msgs : view.msgs[i] \in Nat
    BY DEF EventsInv, ViewTypes, Stamps
  <2> QED BY <1>1, <1>2, <2>1, <2>2 DEF Range
<1> QED BY <1>1, <1>2, <1>3, <1>4, <1>5, <1>6, <1>7, <1>8, <1>9, Zenon DEF TypeOK

LEMMA EventsInitInv ==
  ASSUME EventsInit
  PROVE  EventsInv
<1>1. /\ rows = <<>> /\ inbox = <<>> /\ clock = 0 /\ taken = 0 /\ errors = 0
      /\ sender = IdleSender /\ behind = {} /\ changed = {} /\ view = ClosedView
      /\ waits = [l \in Loops |-> IF l = "send" THEN "run" ELSE "check"]
      /\ touch = [w \in Writers |-> "none"]
      /\ event = [pc |-> "ids", lastId |-> 0, lastAt |-> 0, found |-> FALSE]
  BY DEF EventsInit
<1>2. Len(rows) = 0 /\ Len(inbox) = 0 /\ rows \in Seq(Row) /\ inbox \in Seq(Row)
  BY <1>1, EmptySeq
<1>3. DbTypes
  BY <1>1, <1>2 DEF DbTypes
<1>4. LoopTypes
  BY <1>1, <1>2 DEF LoopTypes, IdleSender
<1>5. StampsFresh
  BY <1>1, <1>2 DEF StampsFresh
<1>6. SenderAtWork
  BY <1>1 DEF SenderAtWork, IdleSender
<1>7. Watermark
  BY <1>1 DEF Watermark
<1>8. Announced
  BY <1>1 DEF Announced
<1>9. ViewTypes
  <2>1. PICK none \in [{} -> Nat] : none = [i \in {} |-> 0]
    OBVIOUS
  <2>2. <<>> = none
    BY <2>1
  <2>3. none \in Stamps
    BY DEF Stamps
  <2> QED BY <1>1, <1>2, <2>2, <2>3 DEF ViewTypes, ClosedView
<1>10. ViewFollows
  BY <1>1 DEF ViewFollows, ClosedView
<1> QED BY <1>3, <1>4, <1>5, <1>6, <1>7, <1>8, <1>9, <1>10 DEF EventsInv

(* Steps of the touches and waits alone.                                   *)
LEMMA WaitingStep ==
  ASSUME EventsInv, UNCHANGED <<dbVars, sender, event, view, errors>>,
         waits' \in [Loops -> {"run", "check", "gap", "sleep"}], behind' \subseteq Loops,
         touch' \in [Writers -> {"none", "due", "notify"}],
         event.pc = "stamps" => waits'["event"] = "run",
         Looks => Looks'
  PROVE  EventsInv'
<1>1. UNCHANGED <<rows, clock, inbox, taken, changed>>
  BY DEF dbVars
<1>2. DbTypes' /\ LoopTypes'
  BY <1>1 DEF EventsInv, DbTypes, LoopTypes
<1>3. StampsFresh' /\ SenderAtWork'
  BY <1>1 DEF EventsInv, StampsFresh, SenderAtWork
<1>4. Watermark'
  BY <1>1 DEF EventsInv, Watermark
<1>5. Announced'
  <2>1. \A i : Overtaken(i)' <=> Overtaken(i)
    BY <1>1 DEF Overtaken
  <2> QED BY <1>1, <2>1 DEF EventsInv, Announced
<1>6. ViewTypes' /\ ViewFollows'
  BY <1>1 DEF EventsInv, ViewTypes, ViewFollows, ViewLeaves, Shown
<1> QED BY <1>2, <1>3, <1>4, <1>5, <1>6 DEF EventsInv

LEMMA TouchAndWaitSteps ==
  ASSUME EventsInv,
         \/ RequestTouch \/ RequestNotify \/ Wake
         \/ \E l \in Loops : WaitCheck(l) \/ WaitSleep(l)
  PROVE  EventsInv'
<1>0. /\ waits \in [Loops -> {"run", "check", "gap", "sleep"}] /\ behind \subseteq Loops
      /\ touch \in [Writers -> {"none", "due", "notify"}]
      /\ event.pc = "stamps" => waits["event"] = "run"
      /\ event.pc \in {"ids", "stamps"}
      /\ "event" \in Loops /\ "request" \in Writers
  <2>1. event.pc \in {"ids", "stamps"}
    BY DEF EventsInv, LoopTypes
  <2>2. event.pc = "stamps" => waits["event"] = "run"
    BY DEF EventsInv, Watermark
  <2> QED BY <2>1, <2>2 DEF EventsInv, LoopTypes, Loops, Writers
<1>1. /\ Woken \in [Loops -> {"run", "check", "gap", "sleep"}]
      /\ \A l \in Loops : waits[l] = "run" => Woken[l] = "run"
  BY <1>0 DEF Woken
<1>2. CASE RequestTouch
  <2>1. touch' \in [Writers -> {"none", "due", "notify"}]
    BY <1>0, <1>2 DEF RequestTouch
  <2>2. Looks'
    BY <1>0, <1>2 DEF RequestTouch, Looks
  <2> QED BY <1>0, <1>2, <2>1, <2>2, WaitingStep DEF RequestTouch
<1>3. CASE RequestNotify
  <2>1. touch' \in [Writers -> {"none", "due", "notify"}]
    BY <1>0, <1>3 DEF RequestNotify
  <2>2. \A w \in Writers : touch[w] = "due" => touch'[w] = "due"
    BY <1>0, <1>3 DEF RequestNotify
  <2>3. Looks => Looks'
    BY <1>0, <1>1, <1>3, <2>2 DEF RequestNotify, Looks
  <2> QED BY <1>0, <1>1, <1>3, <2>1, <2>3, WaitingStep DEF RequestNotify
<1>4. ASSUME NEW w \in Writers, LoopTouch(w)
      PROVE  EventsInv'
  <2>1. touch' \in [Writers -> {"none", "due", "notify"}]
    BY <1>0, <1>4 DEF LoopTouch
  <2>2. Looks'
    BY <1>0, <1>4 DEF LoopTouch, Looks
  <2> QED BY <1>0, <1>1, <1>4, <2>1, <2>2, WaitingStep DEF LoopTouch
<1>5. ASSUME NEW l \in Loops, WaitCheck(l)
      PROVE  EventsInv'
  <2>1. /\ waits[l] = "check" /\ behind' = behind \ {l} /\ UNCHANGED touch
        /\ waits' = [waits EXCEPT ![l] = IF l \in behind THEN "run" ELSE "gap"]
        /\ UNCHANGED <<dbVars, sender, event, view, errors>>
    BY <1>5 DEF WaitCheck
  <2>2. waits' \in [Loops -> {"run", "check", "gap", "sleep"}]
    BY <1>0, <2>1
  <2>3. CASE l = "event"
    <3>1. event.pc = "ids" /\ waits'["event"] = IF "event" \in behind THEN "run" ELSE "gap"
      BY <1>0, <2>1, <2>3
    <3>2. Looks => Looks'
      BY <2>1, <2>3, <3>1 DEF Looks
    <3> QED BY <1>0, <2>1, <2>2, <3>1, <3>2, WaitingStep
  <2>4. CASE l # "event"
    <3>1. waits'["event"] = waits["event"] /\ ("event" \in behind' <=> "event" \in behind)
      BY <1>0, <2>1, <2>4
    <3>2. Looks => Looks'
      BY <2>1, <3>1 DEF Looks
    <3> QED BY <1>0, <2>1, <2>2, <3>1, <3>2, WaitingStep
  <2> QED BY <2>3, <2>4
<1>6. ASSUME NEW l \in Loops, WaitSleep(l)
      PROVE  EventsInv'
  <2>1. /\ waits[l] = "gap" /\ waits' = [waits EXCEPT ![l] = "sleep"]
        /\ UNCHANGED <<dbVars, sender, behind, touch, event, view, errors>>
    BY <1>6 DEF WaitSleep
  <2>2. /\ waits' \in [Loops -> {"run", "check", "gap", "sleep"}]
        /\ waits["event"] = "run" => waits'["event"] = "run"
    BY <1>0, <2>1
  <2>3. Looks => Looks'
    BY <2>1, <2>2 DEF Looks
  <2> QED BY <1>0, <2>1, <2>2, <2>3, WaitingStep
<1> QED BY <1>2, <1>3, <1>4, <1>5, <1>6 DEF Wake
-----------------------------------------------------------------------------
(* A row is added, by convo_send or by the receive loop.                   *)
LEMMA RowAdded ==
  ASSUME rows \in Seq(Row), NEW own \in BOOLEAN, NEW at \in Nat, NewRow(own, at)
  PROVE  /\ rows' \in Seq(Row) /\ Len(rows) \in Nat /\ Len(rows') = Len(rows) + 1
         /\ \A i \in 1 .. Len(rows) : rows'[i] = rows[i]
         /\ rows'[Len(rows) + 1].at = at
         /\ \A i \in 1 .. Len(rows') : i \in 1 .. Len(rows) \/ i = Len(rows) + 1
<1>1. PICK r \in Row : r = [own |-> own, at |-> at]
  BY DEF Row
<1>2. rows' = Append(rows, r) /\ r.at = at
  BY <1>1 DEF NewRow
<1>3. Len(rows) \in Nat
  BY LenProperties
<1> QED BY <1>2, <1>3, AppendProperties

LEMMA AddingStep ==
  ASSUME EventsInv, NEW own \in BOOLEAN, NEW at \in Nat, NewRow(own, at), Change(Len(rows) + 1),
         at <= clock, UNCHANGED <<clock, inbox, sender, waits, behind, event, view, errors>>,
         taken' \in taken .. Len(inbox), touch' \in [Writers -> {"none", "due", "notify"}],
         \E w \in Writers : touch'[w] = "due",
         at # Unread =>
           /\ taken' \in 1 .. Len(inbox) /\ taken < taken' /\ ~inbox[taken'].own
           /\ at = inbox[taken'].at
  PROVE  EventsInv'
<1>0. /\ rows \in Seq(Row) /\ Len(rows) \in Nat /\ clock \in Nat /\ Len(inbox) \in Nat
      /\ inbox \in Seq(Row) /\ taken \in 0 .. Len(inbox) /\ changed \subseteq 1 .. Len(rows)
  BY LenProperties DEF EventsInv, DbTypes
<1>1. /\ rows' \in Seq(Row) /\ Len(rows') = Len(rows) + 1
      /\ \A i \in 1 .. Len(rows) : rows'[i] = rows[i]
      /\ rows'[Len(rows) + 1].at = at
      /\ \A i \in 1 .. Len(rows') : i \in 1 .. Len(rows) \/ i = Len(rows) + 1
      /\ \A i \in 1 .. Len(rows) : i \in 1 .. Len(rows')
  <2>1. rows' \in Seq(Row) /\ Len(rows') = Len(rows) + 1
    BY <1>0, RowAdded
  <2>2. \A i \in 1 .. Len(rows) : i \in 1 .. Len(rows')
    BY <1>0, <2>1
  <2> QED BY <1>0, <2>1, <2>2, RowAdded
<1>2. changed' = changed \cup {Len(rows) + 1}
  BY DEF Change
<1>t. /\ taken \in Nat /\ taken' \in Nat /\ taken <= taken' /\ taken' <= Len(inbox)
      /\ taken' \in 0 .. Len(inbox)
  <2>1. taken \in Nat
    BY <1>0
  <2>2. taken' \in taken .. Len(inbox)
    OBVIOUS
  <2> QED BY <1>0, <2>1, <2>2
<1>3. DbTypes'
  <2>1. changed' \subseteq 1 .. Len(rows')
    <3>1. Len(rows) + 1 \in 1 .. Len(rows')
      BY <1>0, <1>1
    <3>2. \A i \in changed : i \in 1 .. Len(rows')
      BY <1>0, <1>1
    <3> QED BY <1>2, <3>1, <3>2
  <2> QED BY <1>0, <1>1, <1>t, <2>1 DEF DbTypes
<1>4. LoopTypes'
  BY <1>0, <1>1 DEF EventsInv, LoopTypes
<1>5. StampsFresh'
  <2>1. \A i \in 1 .. Len(rows') : rows'[i].at <= clock
    BY <1>1 DEF EventsInv, StampsFresh
  <2>2. ASSUME NEW n \in taken' + 1 .. Len(inbox), NEW i \in 1 .. Len(rows'), ~inbox[n].own
        PROVE  rows'[i].at # inbox[n].at
    <3>n. n \in Nat /\ taken' + 1 <= n /\ n <= Len(inbox)
      <4>1. \A k, m \in Nat : \A j \in k + 1 .. m : j \in Nat /\ k + 1 <= j /\ j <= m
        OBVIOUS
      <4> QED BY <1>0, <1>t, <4>1
    <3>1. n \in taken + 1 .. Len(inbox) /\ n \in 1 .. Len(inbox) /\ taken' < n
      <4>1. \A k, l, m, j \in Nat : k <= l /\ l + 1 <= m /\ m <= j =>
              m \in k + 1 .. j /\ m \in 1 .. j /\ l < m
        OBVIOUS
      <4> QED BY <1>0, <1>t, <3>n, <4>1
    <3>2. CASE i \in 1 .. Len(rows)
      BY <1>1, <2>2, <3>1, <3>2 DEF EventsInv, StampsFresh
    <3>3. CASE i = Len(rows) + 1
      <4>1. rows'[i].at = at /\ inbox[n].at \in 1 .. clock
        BY <1>1, <3>1, <3>3 DEF EventsInv, StampsFresh
      <4>2. CASE at = Unread
        BY <4>1, <4>2 DEF Unread
      <4>3. CASE at # Unread
        <5>1. taken' \in 1 .. Len(inbox) /\ taken' < n /\ at = inbox[taken'].at
          BY <3>1, <4>3
        <5>2. inbox[taken'].at < inbox[n].at
          BY <3>1, <5>1 DEF EventsInv, StampsFresh
        <5> QED BY <4>1, <5>1, <5>2
      <4> QED BY <4>2, <4>3
    <3> QED BY <1>1, <3>2, <3>3
  <2> QED BY <2>1, <2>2 DEF EventsInv, StampsFresh
<1>6. SenderAtWork'
  <2>1. sender.pc # "idle" =>
          /\ sender.row \in 1 .. Len(rows')
          /\ rows'[sender.row].own /\ rows'[sender.row].at = Unread
    BY <1>1 DEF EventsInv, SenderAtWork
  <2>2. ASSUME sender.pc = "answered", NEW i \in 1 .. Len(rows')
        PROVE  rows'[i].at # sender.at
    <3>1. CASE i \in 1 .. Len(rows)
      BY <1>1, <2>2, <3>1 DEF EventsInv, SenderAtWork
    <3>2. CASE i = Len(rows) + 1
      BY <1>1, <2>2, <3>2 DEF EventsInv, SenderAtWork
    <3> QED BY <1>1, <3>1, <3>2
  <2> QED BY <2>1, <2>2 DEF EventsInv, SenderAtWork
<1>7. Watermark'
  <2>1. event.lastAt = 0 \/ \E j \in 1 .. Len(rows') : rows'[j].at = event.lastAt
    BY <1>1 DEF EventsInv, Watermark
  <2>2. ASSUME NEW i \in changed', rows'[i].at # Unread
        PROVE  rows'[i].at # event.lastAt
    <3>1. CASE i \in changed
      BY <1>0, <1>1, <2>2, <3>1 DEF EventsInv, Watermark
    <3>2. CASE i = Len(rows) + 1
      <4>1. /\ at # Unread /\ taken' \in 1 .. Len(inbox) /\ taken' \in taken + 1 .. Len(inbox)
            /\ ~inbox[taken'].own /\ at = inbox[taken'].at /\ rows'[i].at = at
        BY <1>0, <1>1, <2>2, <3>2
      <4>2. \A j \in 1 .. Len(rows) : rows[j].at # at
        BY <4>1 DEF EventsInv, StampsFresh
      <4> QED BY <4>1, <4>2 DEF EventsInv, Watermark, Unread
    <3> QED BY <1>2, <3>1, <3>2
  <2> QED BY <2>1, <2>2 DEF EventsInv, Watermark
<1>8. Announced'
  <2>1. Looks'
    BY DEF Looks
  <2>2. ASSUME errors = 0, NEW i \in changed', rows'[i].at = Unread
        PROVE  i > event.lastId \/ (event.pc = "stamps" /\ event.found)
    <3>1. CASE i \in changed
      BY <1>0, <1>1, <2>2, <3>1 DEF EventsInv, Announced
    <3>2. CASE i = Len(rows) + 1
      <4>1. event.lastId \in Nat /\ event.lastId <= Len(rows)
        BY DEF EventsInv, LoopTypes
      <4> QED BY <1>0, <3>2, <4>1
    <3> QED BY <1>2, <3>1, <3>2
  <2> QED BY <2>1, <2>2 DEF Announced
<1>9. ViewTypes'
  <2>1. view.latest \in Nat /\ view.next \in Nat
    BY DEF EventsInv, ViewTypes
  <2> QED BY <1>0, <1>1, <2>1 DEF EventsInv, ViewTypes
<1>10. ViewFollows'
  <2>1. view.latest # 0 => view.latest \in 1 .. Len(rows)
    BY <1>0 DEF EventsInv, ViewTypes
  <2>2. ASSUME NEW i \in 1 .. Len(rows)
        PROVE  /\ Shown(i)' <=> Shown(i)
               /\ i <= Len(rows) - PageLimit => i <= Len(rows') - PageLimit
    BY <1>0, <1>1, PageLimitPositive DEF Shown
  <2>3. view.latest # 0 => Shown(view.latest)' /\ rows'[view.latest].at # Unread
    BY <1>1, <2>1, <2>2 DEF EventsInv, ViewFollows
  <2>4. ASSUME errors = 0, view.pc # "closed", NEW i \in 1 .. Len(rows')
        PROVE  ViewLeaves(i)'
    <3>1. CASE i \in 1 .. Len(rows)
      <4>1. ViewLeaves(i)
        BY <2>4, <3>1 DEF EventsInv, ViewFollows
      <4> QED BY <1>2, <2>2, <3>1, <4>1 DEF ViewLeaves
    <3>2. CASE i = Len(rows) + 1
      BY <1>2, <3>2 DEF ViewLeaves
    <3> QED BY <1>1, <3>1, <3>2
  <2> QED BY <2>3, <2>4 DEF ViewFollows, Shown
<1> QED BY <1>3, <1>4, <1>5, <1>6, <1>7, <1>8, <1>9, <1>10 DEF EventsInv

LEMMA ComposeStep ==
  ASSUME EventsInv, Compose
  PROVE  EventsInv'
<1>1. /\ "request" \in Writers /\ TRUE \in BOOLEAN /\ Unread \in Nat /\ Unread <= clock
      /\ clock \in Nat /\ taken \in taken .. Len(inbox)
      /\ touch \in [Writers -> {"none", "due", "notify"}]
  <2>1. inbox \in Seq(Row) /\ taken \in 0 .. Len(inbox) /\ clock \in Nat
    BY DEF EventsInv, DbTypes
  <2>2. Len(inbox) \in Nat
    BY <2>1, LenProperties
  <2> QED BY <2>1, <2>2 DEF EventsInv, LoopTypes, Writers, Unread
<1>2. /\ NewRow(TRUE, Unread) /\ Change(Len(rows) + 1)
      /\ touch' = [touch EXCEPT !["request"] = "due"]
      /\ UNCHANGED <<clock, inbox, taken, sender, waits, behind, event, view, errors>>
  BY DEF Compose
<1>3. touch' \in [Writers -> {"none", "due", "notify"}] /\ touch'["request"] = "due"
  BY <1>1, <1>2
<1> QED BY <1>1, <1>2, <1>3, AddingStep

LEMMA RecvStep ==
  ASSUME EventsInv, Recv
  PROVE  EventsInv'
<1>1. /\ inbox \in Seq(Row) /\ taken \in 0 .. Len(inbox) /\ clock \in Nat /\ Len(inbox) \in Nat
      /\ touch \in [Writers -> {"none", "due", "notify"}] /\ "recv" \in Writers
  <2>1. inbox \in Seq(Row) /\ taken \in 0 .. Len(inbox) /\ clock \in Nat
    BY DEF EventsInv, DbTypes
  <2> QED BY <2>1, LenProperties DEF EventsInv, LoopTypes, Writers
<1>2. /\ taken < Len(inbox) /\ taken' = taken + 1
      /\ touch' = [touch EXCEPT !["recv"] = "due"]
      /\ UNCHANGED <<clock, inbox, sender, waits, behind, event, view, errors>>
  BY DEF Recv
<1>3. /\ touch' \in [Writers -> {"none", "due", "notify"}] /\ touch'["recv"] = "due"
      /\ taken' \in taken .. Len(inbox) /\ taken' \in 1 .. Len(inbox) /\ taken < taken'
      /\ taken' \in 0 .. Len(inbox)
  BY <1>1, <1>2
<1>4. inbox[taken'] \in Row
  BY <1>1, <1>3, ElementOfSeq
<1>5. CASE inbox[taken'].own
  <2>1. UNCHANGED <<rows, changed>>
    BY <1>5 DEF Recv
  <2>2. DbTypes' /\ LoopTypes'
    BY <1>1, <1>2, <1>3, <2>1 DEF EventsInv, DbTypes, LoopTypes
  <2>3. StampsFresh'
    <3>1. \A n \in taken' + 1 .. Len(inbox) : n \in taken + 1 .. Len(inbox)
      BY <1>1, <1>2
    <3> QED BY <1>2, <2>1, <3>1 DEF EventsInv, StampsFresh
  <2>4. SenderAtWork' /\ Watermark'
    BY <1>2, <2>1 DEF EventsInv, SenderAtWork, Watermark
  <2>5. Announced'
    <3>1. Looks'
      BY <1>1, <1>3 DEF Looks
    <3> QED BY <1>2, <2>1, <3>1 DEF EventsInv, Announced
  <2>6. ViewTypes' /\ ViewFollows'
    BY <1>2, <2>1 DEF EventsInv, ViewTypes, ViewFollows, ViewLeaves, Shown
  <2> QED BY <2>2, <2>3, <2>4, <2>5, <2>6 DEF EventsInv
<1>6. CASE ~inbox[taken'].own
  <2>1. NewRow(FALSE, inbox[taken'].at) /\ Change(Len(rows) + 1)
    BY <1>6 DEF Recv
  <2>2. PICK at \in Nat : at = inbox[taken'].at
    BY <1>4 DEF Row
  <2>3. at <= clock
    <3>1. inbox[taken'].at \in 1 .. clock
      BY <1>3 DEF EventsInv, StampsFresh
    <3> QED BY <1>1, <2>2, <3>1
  <2> QED BY <1>1, <1>2, <1>3, <1>6, <2>1, <2>2, <2>3, AddingStep
<1> QED BY <1>5, <1>6
-----------------------------------------------------------------------------
(* The send loop and what comes in.                                        *)
LEMMA SendPickStep ==
  ASSUME EventsInv, SendPick
  PROVE  EventsInv'
<1>0. /\ rows \in Seq(Row) /\ Len(rows) \in Nat /\ clock \in Nat
      /\ waits \in [Loops -> {"run", "check", "gap", "sleep"}] /\ "event" \in Loops
      /\ sender = IdleSender
  BY LenProperties DEF EventsInv, DbTypes, LoopTypes, Loops, SendPick
<1>1. /\ waits["send"] = "run" /\ UNCHANGED <<rows, clock, inbox, taken, changed, behind, touch, event, view, errors>>
  BY DEF SendPick, dbVars
<1>2. CASE PendingRows = {}
  <2>1. waits' = [waits EXCEPT !["send"] = "check"] /\ UNCHANGED sender
    BY <1>2 DEF SendPick
  <2>2. /\ waits' \in [Loops -> {"run", "check", "gap", "sleep"}] /\ waits'["event"] = waits["event"]
    BY <1>0, <2>1
  <2>3. Looks => Looks'
    BY <1>1, <2>2 DEF Looks
  <2>4. event.pc = "stamps" => waits'["event"] = "run"
    BY <2>2 DEF EventsInv, Watermark
  <2>5. behind \subseteq Loops /\ touch \in [Writers -> {"none", "due", "notify"}]
    BY DEF EventsInv, LoopTypes
  <2> QED BY <1>1, <2>1, <2>2, <2>3, <2>4, <2>5, WaitingStep DEF dbVars
<1>3. CASE PendingRows # {}
  <2>1. PendingRows \in SUBSET Nat /\ PendingRows \subseteq 1 .. Len(rows)
    BY <1>0, LenProperties DEF PendingRows, OwnRows
  <2>2. PICK i \in PendingRows : i = Min(PendingRows)
    BY <1>3, <2>1, MinIs
  <2>3. sender' = [IdleSender EXCEPT !.pc = "sending", !.row = i] /\ UNCHANGED waits
    BY <1>3, <2>2 DEF SendPick
  <2>4. sender' = [pc |-> "sending", row |-> i, at |-> 0]
    BY <2>3 DEF IdleSender
  <2>5. i \in Nat /\ i \in 1 .. Len(rows) /\ rows[i].own /\ rows[i].at = Unread
    BY <2>1 DEF PendingRows, OwnRows
  <2>6. DbTypes' /\ StampsFresh' /\ Watermark' /\ ViewTypes' /\ ViewFollows'
    BY <1>1, <2>3 DEF EventsInv, DbTypes, StampsFresh, Watermark, ViewTypes, ViewFollows, ViewLeaves, Shown
  <2>7. LoopTypes'
    BY <1>0, <1>1, <2>3, <2>4, <2>5 DEF EventsInv, LoopTypes
  <2>8. SenderAtWork'
    BY <1>1, <2>4, <2>5 DEF SenderAtWork
  <2>9. Announced'
    BY <1>1, <2>3 DEF EventsInv, Announced, Looks, Overtaken
  <2> QED BY <2>6, <2>7, <2>8, <2>9 DEF EventsInv
<1> QED BY <1>2, <1>3

(* An entry comes into the mailbox.                                        *)
LEMMA EntryAdded ==
  ASSUME EventsInv, NEW own \in BOOLEAN, clock' = clock + 1,
         inbox' = Append(inbox, [own |-> own, at |-> clock']), UNCHANGED <<rows, taken, changed>>
  PROVE  /\ DbTypes' /\ StampsFresh' /\ Len(inbox) \in Nat /\ Len(inbox') = Len(inbox) + 1
         /\ clock \in Nat
         /\ \A n \in 1 .. Len(inbox) : inbox'[n] = inbox[n]
         /\ inbox'[Len(inbox) + 1].own = own /\ inbox'[Len(inbox) + 1].at = clock'
<1>0. /\ rows \in Seq(Row) /\ Len(rows) \in Nat /\ clock \in Nat /\ Len(inbox) \in Nat
      /\ inbox \in Seq(Row) /\ taken \in 0 .. Len(inbox) /\ changed \subseteq 1 .. Len(rows)
  BY LenProperties DEF EventsInv, DbTypes
<1>1. PICK r \in Row : r = [own |-> own, at |-> clock']
  BY <1>0 DEF Row
<1>2. inbox' = Append(inbox, r) /\ r.own = own /\ r.at = clock'
  BY <1>1
<1>3. /\ inbox' \in Seq(Row) /\ Len(inbox') = Len(inbox) + 1
      /\ \A n \in 1 .. Len(inbox) : inbox'[n] = inbox[n]
      /\ inbox'[Len(inbox) + 1] = r
  BY <1>0, <1>2, AppendProperties
<1>4. DbTypes'
  BY <1>0, <1>3 DEF DbTypes
<1>5. StampsFresh'
  <2>0. \A n \in 1 .. Len(inbox') : n \in 1 .. Len(inbox) \/ n = Len(inbox) + 1
    BY <1>0, <1>3
  <2>1. ASSUME NEW i \in 1 .. Len(rows)
        PROVE  rows[i].at <= clock /\ rows[i].at <= clock' /\ rows[i].at # clock'
    <3>1. rows[i].at \in Nat /\ rows[i].at <= clock
      <4>1. rows[i] \in Row
        BY <1>0, ElementOfSeq
      <4> QED BY <4>1 DEF EventsInv, StampsFresh, Row
    <3> QED BY <1>0, <3>1
  <2>2. ASSUME NEW n \in 1 .. Len(inbox)
        PROVE  inbox[n].at \in 1 .. clock' /\ inbox[n].at < clock'
    <3>1. inbox[n].at \in 1 .. clock
      BY DEF EventsInv, StampsFresh
    <3> QED BY <1>0, <3>1
  <2>3. clock' \in 1 .. clock'
    BY <1>0
  <2>4. \A n \in 1 .. Len(inbox') : inbox'[n].at \in 1 .. clock'
    BY <1>2, <1>3, <2>0, <2>2, <2>3
  <2>5. ASSUME NEW m \in 1 .. Len(inbox'), NEW n \in 1 .. Len(inbox'), m < n
        PROVE  inbox'[m].at < inbox'[n].at
    <3>1. m \in 1 .. Len(inbox)
      BY <1>0, <1>3, <2>5
    <3>2. CASE n \in 1 .. Len(inbox)
      BY <1>3, <2>5, <3>1, <3>2 DEF EventsInv, StampsFresh
    <3>3. CASE n = Len(inbox) + 1
      BY <1>2, <1>3, <2>2, <3>1, <3>3
    <3> QED BY <2>0, <3>2, <3>3
  <2>6. ASSUME NEW n \in taken + 1 .. Len(inbox'), NEW i \in 1 .. Len(rows), ~inbox'[n].own
        PROVE  rows[i].at # inbox'[n].at
    <3>1. n \in 1 .. Len(inbox')
      BY <1>0, <1>3
    <3>2. CASE n \in 1 .. Len(inbox)
      <4>1. n \in taken + 1 .. Len(inbox)
        BY <1>0, <3>2
      <4> QED BY <1>3, <2>6, <3>2, <4>1 DEF EventsInv, StampsFresh
    <3>3. CASE n = Len(inbox) + 1
      BY <1>2, <1>3, <2>1, <3>3
    <3> QED BY <2>0, <3>1, <3>2, <3>3
  <2> QED BY <2>1, <2>4, <2>5, <2>6 DEF StampsFresh
<1> QED BY <1>0, <1>2, <1>3, <1>4, <1>5

LEMMA SendServedStep ==
  ASSUME EventsInv, SendServed
  PROVE  EventsInv'
<1>1. /\ sender.pc = "sending" /\ clock' = clock + 1
      /\ inbox' = Append(inbox, [own |-> TRUE, at |-> clock'])
      /\ sender' = [sender EXCEPT !.pc = "answered", !.at = clock']
      /\ UNCHANGED <<rows, taken, changed, waits, behind, touch, event, view, errors>>
  BY DEF SendServed
<1>2. /\ DbTypes' /\ StampsFresh' /\ Len(inbox) \in Nat /\ Len(inbox') = Len(inbox) + 1
      /\ clock \in Nat
      /\ \A n \in 1 .. Len(inbox) : inbox'[n] = inbox[n]
      /\ inbox'[Len(inbox) + 1].own = TRUE
  <2>1. TRUE \in BOOLEAN
    OBVIOUS
  <2> QED BY <1>1, <2>1, EntryAdded
<1>3. /\ sender \in [pc : {"idle", "sending", "answered"}, row : Nat, at : Nat]
      /\ rows \in Seq(Row)
  BY DEF EventsInv, LoopTypes, DbTypes
<1>4. /\ sender' \in [pc : {"idle", "sending", "answered"}, row : Nat, at : Nat]
      /\ sender'.pc = "answered" /\ sender'.row = sender.row /\ sender'.at = clock'
      /\ clock' \in Nat
  <2>1. PICK c \in Nat : c = clock + 1
    BY <1>2
  <2>2. clock' = c /\ sender' = [sender EXCEPT !.pc = "answered", !.at = c]
    BY <1>1, <2>1
  <2> QED BY <1>3, <2>1, <2>2
<1>5. LoopTypes'
  <2>1. event.lastAt \in Nat /\ event.lastAt <= clock
    BY DEF EventsInv, LoopTypes
  <2>2. event.lastAt <= clock'
    BY <1>1, <1>2, <2>1
  <2> QED BY <1>1, <1>4, <2>2 DEF EventsInv, LoopTypes
<1>6. SenderAtWork'
  <2>1. clock' # Unread
    BY <1>1, <1>2 DEF Unread
  <2>2. ASSUME NEW i \in 1 .. Len(rows)
        PROVE  rows[i].at # clock'
    <3>1. rows[i] \in Row
      BY <1>3, ElementOfSeq
    <3>2. rows[i].at \in Nat /\ rows[i].at <= clock
      BY <3>1 DEF EventsInv, StampsFresh, Row
    <3> QED BY <1>1, <1>2, <3>2
  <2>3. ASSUME NEW n \in 1 .. Len(inbox'), ~inbox'[n].own
        PROVE  inbox'[n].at # clock'
    <3>1. n # Len(inbox) + 1
      BY <1>2, <2>3
    <3>2. n \in 1 .. Len(inbox)
      BY <1>2, <3>1
    <3>3. inbox[n].at \in 1 .. clock
      BY <3>2 DEF EventsInv, StampsFresh
    <3> QED BY <1>1, <1>2, <3>2, <3>3
  <2>4. /\ sender.row \in 1 .. Len(rows)
        /\ rows[sender.row].own /\ rows[sender.row].at = Unread
    BY <1>1 DEF EventsInv, SenderAtWork
  <2> QED BY <1>1, <1>4, <2>1, <2>2, <2>3, <2>4 DEF SenderAtWork
<1>7. Watermark' /\ Announced'
  BY <1>1 DEF EventsInv, Watermark, Announced, Looks, Overtaken
<1>8. ViewTypes'
  <2>1. \A i \in DOMAIN view.msgs : view.msgs[i] \in Nat /\ view.msgs[i] <= clock
    BY DEF EventsInv, ViewTypes, Stamps
  <2>2. \A i \in DOMAIN view.msgs : view.msgs[i] <= clock'
    BY <1>1, <1>2, <2>1
  <2> QED BY <1>1, <2>2 DEF EventsInv, ViewTypes
<1>9. ViewFollows'
  BY <1>1 DEF EventsInv, ViewFollows, ViewLeaves, Shown
<1> QED BY <1>2, <1>5, <1>6, <1>7, <1>8, <1>9 DEF EventsInv

LEMMA ArriveStep ==
  ASSUME EventsInv, Arrive
  PROVE  EventsInv'
<1>1. /\ clock' = clock + 1
      /\ inbox' = Append(inbox, [own |-> FALSE, at |-> clock'])
      /\ UNCHANGED <<rows, taken, changed, sender, waits, behind, touch, event, view, errors>>
  BY DEF Arrive, loopVars
<1>2. /\ DbTypes' /\ StampsFresh' /\ Len(inbox) \in Nat /\ Len(inbox') = Len(inbox) + 1
      /\ clock \in Nat
      /\ \A n \in 1 .. Len(inbox) : inbox'[n] = inbox[n]
      /\ inbox'[Len(inbox) + 1].at = clock'
  <2>1. FALSE \in BOOLEAN
    OBVIOUS
  <2> QED BY <1>1, <2>1, EntryAdded
<1>3. /\ sender.at \in Nat /\ sender.at <= clock /\ event.lastAt \in Nat /\ event.lastAt <= clock
  BY DEF EventsInv, LoopTypes
<1>4. sender.at <= clock' /\ sender.at # clock' /\ event.lastAt <= clock'
  BY <1>1, <1>2, <1>3
<1>5. LoopTypes'
  BY <1>1, <1>4 DEF EventsInv, LoopTypes
<1>6. SenderAtWork'
  <2>1. ASSUME sender.pc = "answered", NEW n \in 1 .. Len(inbox'), ~inbox'[n].own
        PROVE  inbox'[n].at # sender.at
    <3>1. CASE n = Len(inbox) + 1
      BY <1>2, <1>4, <3>1
    <3>2. CASE n # Len(inbox) + 1
      <4>1. n \in 1 .. Len(inbox)
        BY <1>2, <3>2
      <4> QED BY <1>2, <2>1, <4>1 DEF EventsInv, SenderAtWork
    <3> QED BY <3>1, <3>2
  <2> QED BY <1>1, <2>1 DEF EventsInv, SenderAtWork
<1>7. Watermark' /\ Announced'
  BY <1>1 DEF EventsInv, Watermark, Announced, Looks, Overtaken
<1>8. ViewTypes'
  <2>1. \A i \in DOMAIN view.msgs : view.msgs[i] \in Nat /\ view.msgs[i] <= clock
    BY DEF EventsInv, ViewTypes, Stamps
  <2>2. \A i \in DOMAIN view.msgs : view.msgs[i] <= clock'
    BY <1>1, <1>2, <2>1
  <2> QED BY <1>1, <2>2 DEF EventsInv, ViewTypes
<1>9. ViewFollows'
  BY <1>1 DEF EventsInv, ViewFollows, ViewLeaves, Shown
<1> QED BY <1>2, <1>5, <1>6, <1>7, <1>8, <1>9 DEF EventsInv

(* mark_message_sent and mark_message_failed.                              *)
LEMMA SettleStep ==
  ASSUME EventsInv, NEW at \in Nat, at # Unread, Settle(at), sender.pc # "idle",
         clock' \in Nat, clock <= clock', at <= clock',
         \A i \in 1 .. Len(rows) : rows[i].at # at,
         \A n \in 1 .. Len(inbox) : ~inbox[n].own => inbox[n].at # at,
         UNCHANGED <<inbox, taken, waits, behind, event, view, errors>>
  PROVE  EventsInv'
<1>0. /\ rows \in Seq(Row) /\ Len(rows) \in Nat /\ clock \in Nat
      /\ inbox \in Seq(Row) /\ taken \in 0 .. Len(inbox) /\ changed \subseteq 1 .. Len(rows)
      /\ touch \in [Writers -> {"none", "due", "notify"}] /\ "send" \in Writers
  BY LenProperties DEF EventsInv, DbTypes, LoopTypes, Writers
<1>1. PICK k \in 1 .. Len(rows) : k = sender.row
  BY DEF EventsInv, SenderAtWork
<1>2. rows[k].at = Unread
  BY <1>1 DEF EventsInv, SenderAtWork
<1>3. /\ rows' = [rows EXCEPT ![k].at = at] /\ changed' = changed \cup {k}
      /\ sender' = IdleSender /\ touch' = [touch EXCEPT !["send"] = "due"]
  BY <1>1 DEF Settle, Change
<1>4. PICK r \in Row : r = [rows[k] EXCEPT !.at = at] /\ r.at = at
  <2>1. PICK q \in Row : q = rows[k]
    BY <1>0, ElementOfSeq
  <2>2. [q EXCEPT !.at = at] \in Row /\ [q EXCEPT !.at = at].at = at
    BY <2>1 DEF Row
  <2> QED BY <2>1, <2>2
<1>5. /\ rows' \in Seq(Row) /\ Len(rows') = Len(rows) /\ rows'[k].at = at
      /\ \A i \in 1 .. Len(rows) : i # k => rows'[i] = rows[i]
  <2>1. rows' = [rows EXCEPT ![k] = r]
    BY <1>3, <1>4
  <2> QED BY <1>0, <1>4, <2>1, ExceptSeq
<1>6. \A i \in 1 .. Len(rows) : rows[i].at \in Nat /\ rows[i].at <= clock
  <2>1. \A i \in 1 .. Len(rows) : rows[i] \in Row
    BY <1>0, ElementOfSeq
  <2> QED BY <2>1 DEF EventsInv, StampsFresh, Row
<1>7. DbTypes'
  BY <1>0, <1>3, <1>5 DEF DbTypes
<1>8. LoopTypes'
  <2>1. event.lastAt \in Nat /\ event.lastAt <= clock
    BY DEF EventsInv, LoopTypes
  <2>2. event.lastAt <= clock'
    BY <1>0, <2>1
  <2>3. touch' \in [Writers -> {"none", "due", "notify"}]
    BY <1>0, <1>3
  <2>4. /\ sender' \in [pc : {"idle", "sending", "answered"}, row : Nat, at : Nat]
        /\ sender'.row <= Len(rows') /\ sender'.at <= clock'
    BY <1>0, <1>3, <1>5 DEF IdleSender
  <2> QED BY <1>5, <2>2, <2>3, <2>4 DEF EventsInv, LoopTypes
<1>9. StampsFresh'
  <2>1. ASSUME NEW i \in 1 .. Len(rows)
        PROVE  rows'[i].at <= clock'
    <3>1. i # k => rows'[i].at \in Nat /\ rows'[i].at <= clock
      BY <1>5, <1>6
    <3> QED BY <1>0, <1>5, <3>1
  <2>2. ASSUME NEW n \in 1 .. Len(inbox)
        PROVE  inbox[n].at \in 1 .. clock'
    <3>1. inbox[n].at \in 1 .. clock
      BY DEF EventsInv, StampsFresh
    <3> QED BY <1>0, <3>1
  <2>3. ASSUME NEW n \in taken + 1 .. Len(inbox), NEW i \in 1 .. Len(rows), ~inbox[n].own
        PROVE  rows'[i].at # inbox[n].at
    <3>1. n \in 1 .. Len(inbox)
      <4>1. inbox \in Seq(Row) /\ Len(inbox) \in Nat
        BY <1>0, LenProperties
      <4> QED BY <1>0, <4>1
    <3>2. CASE i = k
      BY <1>5, <2>3, <3>1, <3>2
    <3>3. CASE i # k
      BY <1>5, <2>3, <3>3 DEF EventsInv, StampsFresh
    <3> QED BY <3>2, <3>3
  <2> QED BY <1>5, <2>1, <2>2, <2>3 DEF EventsInv, StampsFresh
<1>10. SenderAtWork'
  BY <1>3 DEF SenderAtWork, IdleSender
<1>11. Watermark'
  <2>1. CASE event.lastAt = 0
    <3>1. \A i \in changed' : rows'[i].at # Unread => rows'[i].at # event.lastAt
      BY <2>1 DEF Unread
    <3> QED BY <2>1, <3>1 DEF EventsInv, Watermark
  <2>2. CASE event.lastAt # 0
    <3>1. PICK j \in 1 .. Len(rows) : rows[j].at = event.lastAt
      BY <2>2 DEF EventsInv, Watermark
    <3>2. j # k /\ at # event.lastAt
      BY <1>2, <2>2, <3>1 DEF Unread
    <3>3. \E m \in 1 .. Len(rows') : rows'[m].at = event.lastAt
      BY <1>5, <3>1, <3>2
    <3>4. ASSUME NEW i \in changed', rows'[i].at # Unread
          PROVE  rows'[i].at # event.lastAt
      <4>1. CASE i = k
        BY <1>5, <3>2, <4>1
      <4>2. CASE i # k
        BY <1>0, <1>3, <1>5, <3>4, <4>2 DEF EventsInv, Watermark
      <4> QED BY <4>1, <4>2
    <3> QED BY <3>3, <3>4 DEF EventsInv, Watermark
  <2> QED BY <2>1, <2>2
<1>12. Announced'
  <2>1. Looks'
    BY <1>0, <1>3 DEF Looks
  <2>2. ASSUME errors = 0, NEW i \in changed', rows'[i].at = Unread
        PROVE  i > event.lastId \/ (event.pc = "stamps" /\ event.found)
    <3>1. i # k /\ i \in changed
      BY <1>3, <1>5, <2>2
    <3>2. rows[i].at = Unread
      BY <1>0, <1>5, <2>2, <3>1
    <3> QED BY <2>2, <3>1, <3>2 DEF EventsInv, Announced
  <2> QED BY <2>1, <2>2 DEF Announced
<1>13. ViewTypes'
  <2>1. \A i \in DOMAIN view.msgs : view.msgs[i] \in Nat /\ view.msgs[i] <= clock
    BY DEF EventsInv, ViewTypes, Stamps
  <2>2. \A i \in DOMAIN view.msgs : view.msgs[i] <= clock'
    BY <1>0, <2>1
  <2> QED BY <1>5, <2>2 DEF EventsInv, ViewTypes
<1>14. ViewFollows'
  <2>1. ASSUME NEW i \in 1 .. Len(rows), i # k
        PROVE  Shown(i)' <=> Shown(i)
    BY <1>5, <2>1 DEF Shown
  <2>2. view.latest # 0 => Shown(view.latest)' /\ rows'[view.latest].at # Unread
    <3>1. view.latest # 0 => /\ view.latest \in 1 .. Len(rows)
                             /\ Shown(view.latest) /\ rows[view.latest].at # Unread
      BY <1>0 DEF EventsInv, ViewTypes, ViewFollows
    <3> QED BY <1>2, <1>5, <2>1, <3>1
  <2>3. ASSUME errors = 0, view.pc # "closed", NEW i \in 1 .. Len(rows)
        PROVE  ViewLeaves(i)'
    <3>1. CASE i = k
      BY <1>3, <3>1 DEF ViewLeaves
    <3>2. CASE i # k
      <4>1. ViewLeaves(i)
        BY <2>3 DEF EventsInv, ViewFollows
      <4> QED BY <1>3, <1>5, <2>1, <3>2, <4>1 DEF ViewLeaves
    <3> QED BY <3>1, <3>2
  <2> QED BY <1>5, <2>2, <2>3 DEF ViewFollows, Shown
<1> QED BY <1>7, <1>8, <1>9, <1>10, <1>11, <1>12, <1>13, <1>14 DEF EventsInv

LEMMA MarkSteps ==
  ASSUME EventsInv, MarkSent \/ MarkFailed
  PROVE  EventsInv'
<1>0. /\ clock \in Nat /\ sender.at \in Nat /\ sender.at <= clock /\ rows \in Seq(Row)
  BY DEF EventsInv, DbTypes, LoopTypes
<1>1. CASE MarkSent
  <2>1. /\ sender.pc = "answered" /\ Settle(sender.at)
        /\ UNCHANGED <<clock, inbox, taken, waits, behind, event, view, errors>>
    BY <1>1 DEF MarkSent
  <2>2. /\ sender.at # Unread
        /\ \A i \in 1 .. Len(rows) : rows[i].at # sender.at
        /\ \A n \in 1 .. Len(inbox) : ~inbox[n].own => inbox[n].at # sender.at
    BY <2>1 DEF EventsInv, SenderAtWork
  <2>3. clock' \in Nat /\ clock <= clock' /\ sender.at <= clock'
    BY <1>0, <2>1
  <2> QED BY <1>0, <2>1, <2>2, <2>3, SettleStep
<1>2. CASE MarkFailed
  <2>1. PICK at \in Nat : at = clock + 1
    BY <1>0
  <2>2. /\ sender.pc = "sending" /\ clock' = at /\ Settle(at)
        /\ UNCHANGED <<inbox, taken, waits, behind, event, view, errors>>
    BY <1>2, <2>1 DEF MarkFailed
  <2>3. at # Unread /\ clock' \in Nat /\ clock <= clock' /\ at <= clock'
    BY <1>0, <2>1, <2>2 DEF Unread
  <2>4. ASSUME NEW i \in 1 .. Len(rows)
        PROVE  rows[i].at # at
    <3>1. rows[i] \in Row
      BY <1>0, ElementOfSeq
    <3>2. rows[i].at \in Nat /\ rows[i].at <= clock
      BY <3>1 DEF EventsInv, StampsFresh, Row
    <3> QED BY <1>0, <2>1, <3>2
  <2>5. ASSUME NEW n \in 1 .. Len(inbox)
        PROVE  inbox[n].at # at
    <3>1. inbox[n].at \in 1 .. clock
      BY DEF EventsInv, StampsFresh
    <3> QED BY <1>0, <2>1, <3>1
  <2> QED BY <2>2, <2>3, <2>4, <2>5, SettleStep
<1> QED BY <1>1, <1>2
-----------------------------------------------------------------------------
(* The event loop.                                                         *)
LEMMA EventIdsStep ==
  ASSUME EventsInv, EventIds
  PROVE  EventsInv'
<1>0. /\ rows \in Seq(Row) /\ Len(rows) \in Nat /\ changed \subseteq 1 .. Len(rows)
      /\ event \in [pc : {"ids", "stamps"}, lastId : Nat, lastAt : Nat, found : BOOLEAN]
      /\ event.lastId <= Len(rows)
  BY LenProperties DEF EventsInv, DbTypes, LoopTypes
<1>1. /\ waits["event"] = "run" /\ event.pc = "ids"
      /\ event' = [event EXCEPT !.pc = "stamps", !.lastId = Len(rows),
                                !.found = Len(rows) > event.lastId]
      /\ UNCHANGED <<rows, clock, inbox, taken, changed, sender, waits, behind, touch, view, errors>>
  BY DEF EventIds, dbVars, loopVars
<1>2. /\ event' \in [pc : {"ids", "stamps"}, lastId : Nat, lastAt : Nat, found : BOOLEAN]
      /\ event'.pc = "stamps" /\ event'.lastId = Len(rows) /\ event'.lastAt = event.lastAt
      /\ event'.found <=> Len(rows) > event.lastId
  <2>1. PICK n \in Nat : n = Len(rows)
    BY <1>0
  <2>2. PICK b \in BOOLEAN : (n > event.lastId) = b
    <3>1. CASE n > event.lastId
      <4>1. (n > event.lastId) = TRUE
        BY <3>1
      <4> QED BY <4>1
    <3>2. CASE ~(n > event.lastId)
      <4>1. (n > event.lastId) = FALSE
        BY <3>2
      <4> QED BY <4>1
    <3> QED BY <3>1, <3>2
  <2>3. event' = [event EXCEPT !.pc = "stamps", !.lastId = n, !.found = b]
    BY <1>1, <2>1, <2>2
  <2> QED BY <1>0, <2>1, <2>2, <2>3
<1>3. LoopTypes'
  BY <1>0, <1>1, <1>2 DEF EventsInv, LoopTypes
<1>4. DbTypes' /\ StampsFresh' /\ SenderAtWork' /\ Watermark' /\ ViewTypes' /\ ViewFollows'
  BY <1>1, <1>2 DEF EventsInv, DbTypes, StampsFresh, SenderAtWork, Watermark, ViewTypes, ViewFollows,
                    ViewLeaves, Shown
<1>5. Announced'
  <2>1. ASSUME errors = 0, NEW i \in changed, rows[i].at = Unread
        PROVE  event'.found
    <3>1. i > event.lastId
      BY <1>1, <2>1 DEF EventsInv, Announced
    <3>2. i \in 1 .. Len(rows)
      BY <1>0
    <3> QED BY <1>0, <1>2, <3>1, <3>2
  <2>2. \A i \in changed : i <= event'.lastId
    BY <1>0, <1>2
  <2> QED BY <1>1, <1>2, <2>1, <2>2 DEF Announced
<1> QED BY <1>3, <1>4, <1>5 DEF EventsInv

(* NextStamp is the old watermark or a row's, and above none of them.      *)
LEMMA NextStampIs ==
  ASSUME EventsInv
  PROVE  /\ NextStamp \in Nat /\ NextStamp <= clock /\ event.lastAt <= NextStamp
         /\ NextStamp = event.lastAt \/ \E j \in 1 .. Len(rows) : rows[j].at = NextStamp
         /\ \A i \in 1 .. Len(rows) : rows[i].at <= NextStamp
<1> DEFINE S == {event.lastAt} \cup {rows[i].at : i \in DOMAIN rows}
<1>1. /\ rows \in Seq(Row) /\ clock \in Nat /\ event.lastAt \in Nat /\ event.lastAt <= clock
  BY DEF EventsInv, DbTypes, LoopTypes
<1>2. DOMAIN rows = 1 .. Len(rows)
  BY <1>1, LenProperties
<1>3. ASSUME NEW i \in 1 .. Len(rows)
      PROVE  rows[i].at \in 0 .. clock
  <2>1. rows[i] \in Row
    BY <1>1, ElementOfSeq
  <2>2. rows[i].at \in Nat /\ rows[i].at <= clock
    BY <2>1 DEF EventsInv, StampsFresh, Row
  <2> QED BY <1>1, <2>2
<1>4. S \in SUBSET (0 .. clock) /\ event.lastAt \in S
  <2>1. event.lastAt \in 0 .. clock
    BY <1>1
  <2> QED BY <1>2, <1>3, <2>1
<1>5. \A i \in 1 .. Len(rows) : rows[i].at \in S
  BY <1>2
<1>6. ASSUME NEW s \in S
      PROVE  s = event.lastAt \/ \E j \in 1 .. Len(rows) : rows[j].at = s
  BY <1>2
<1>7. NextStamp = Max(S)
  BY DEF NextStamp
<1> HIDE DEF S
<1>8. Max(S) \in S /\ \A y \in S : y <= Max(S)
  BY <1>1, <1>4, BoundedMax
<1>9. PICK top : top = Max(S)
  OBVIOUS
<1>10. top \in 0 .. clock /\ event.lastAt <= top
  BY <1>4, <1>8, <1>9
<1>11. top \in Nat /\ top <= clock
  BY <1>1, <1>10
<1>12. top = event.lastAt \/ \E j \in 1 .. Len(rows) : rows[j].at = top
  BY <1>6, <1>8, <1>9
<1>13. \A i \in 1 .. Len(rows) : rows[i].at <= top
  BY <1>5, <1>8, <1>9
<1> QED BY <1>7, <1>9, <1>10, <1>11, <1>12, <1>13

LEMMA EventStampsStep ==
  ASSUME EventsInv, EventStamps
  PROVE  EventsInv'
<1>0. /\ rows \in Seq(Row) /\ DOMAIN rows = 1 .. Len(rows) /\ changed \subseteq 1 .. Len(rows)
      /\ event \in [pc : {"ids", "stamps"}, lastId : Nat, lastAt : Nat, found : BOOLEAN]
      /\ waits \in [Loops -> {"run", "check", "gap", "sleep"}] /\ "event" \in Loops
  BY LenProperties DEF EventsInv, DbTypes, LoopTypes, Loops
<1>1. PICK stamp \in Nat : stamp = NextStamp
  BY NextStampIs
<1>2. /\ stamp <= clock /\ event.lastAt <= stamp
      /\ stamp = event.lastAt \/ \E j \in 1 .. Len(rows) : rows[j].at = stamp
      /\ \A i \in 1 .. Len(rows) : rows[i].at <= stamp
  BY <1>1, NextStampIs
<1>3. /\ event.pc = "stamps"
      /\ event' = [event EXCEPT !.pc = "ids", !.found = FALSE, !.lastAt = stamp]
      /\ waits' = [waits EXCEPT !["event"] = "check"]
      /\ UNCHANGED <<rows, clock, inbox, taken, sender, behind, touch, errors>>
  BY <1>1 DEF EventStamps
<1>4. /\ event' \in [pc : {"ids", "stamps"}, lastId : Nat, lastAt : Nat, found : BOOLEAN]
      /\ event'.pc = "ids" /\ event'.lastId = event.lastId /\ event'.lastAt = stamp
      /\ waits' \in [Loops -> {"run", "check", "gap", "sleep"}] /\ waits'["event"] = "check"
  BY <1>0, <1>3
<1>5. LoopTypes'
  BY <1>2, <1>3, <1>4 DEF EventsInv, LoopTypes
<1>6. StampsFresh' /\ SenderAtWork'
  BY <1>3 DEF EventsInv, StampsFresh, SenderAtWork
<1>7. stamp = 0 \/ \E j \in 1 .. Len(rows) : rows[j].at = stamp
  BY <1>2 DEF EventsInv, Watermark
<1>8. CASE event.found \/ \E i \in DOMAIN rows : rows[i].at > event.lastAt
  <2>1. view' = [view EXCEPT !.due = TRUE] /\ changed' = {}
    BY <1>8 DEF EventStamps
  <2>2. DbTypes' /\ Watermark' /\ Announced'
    BY <1>3, <1>4, <1>7, <2>1 DEF EventsInv, DbTypes, Watermark, Announced
  <2>3. view \in [pc : {"closed", "open", "refresh"}, latest : Nat, next : Nat,
                  due : BOOLEAN, msgs : Stamps]
    BY DEF EventsInv, ViewTypes
  <2>4. /\ view' \in [pc : {"closed", "open", "refresh"}, latest : Nat, next : Nat,
                      due : BOOLEAN, msgs : Stamps]
        /\ view'.due /\ view'.latest = view.latest /\ view'.next = view.next /\ view'.msgs = view.msgs
    BY <2>1, <2>3
  <2>5. ViewTypes'
    BY <1>3, <2>4 DEF EventsInv, ViewTypes
  <2>6. ViewFollows'
    BY <1>3, <2>4 DEF EventsInv, ViewFollows, ViewLeaves, Shown
  <2> QED BY <1>5, <1>6, <2>2, <2>5, <2>6 DEF EventsInv
<1>9. CASE ~event.found /\ \A i \in DOMAIN rows : ~(rows[i].at > event.lastAt)
  <2>1. UNCHANGED <<view, changed>>
    BY <1>9 DEF EventStamps
  <2>2. event.lastAt \in Nat /\ \A i \in 1 .. Len(rows) : rows[i].at \in Nat
    <3>1. \A i \in 1 .. Len(rows) : rows[i] \in Row
      BY <1>0, ElementOfSeq
    <3> QED BY <1>0, <3>1 DEF Row
  <2>3. stamp = event.lastAt /\ \A i \in 1 .. Len(rows) : rows[i].at <= event.lastAt
    BY <1>0, <1>2, <1>9, <2>2
  <2>4. DbTypes' /\ Watermark' /\ ViewTypes' /\ ViewFollows'
    BY <1>3, <1>4, <2>1, <2>3 DEF EventsInv, DbTypes, Watermark, ViewTypes, ViewFollows, ViewLeaves, Shown
  <2>5. ASSUME errors = 0, NEW i \in changed
        PROVE  /\ rows[i].at = Unread => i > event.lastId
               /\ Looks' \/ Overtaken(i)
    <3>1. /\ rows[i].at = Unread => i > event.lastId
          /\ Looks \/ Overtaken(i) \/ i <= event.lastId
      BY <1>9, <2>5 DEF EventsInv, Announced
    <3>2. CASE rows[i].at = Unread
      <4>1. i \in Nat /\ event.lastId \in Nat /\ ~(i <= event.lastId)
        BY <1>0, <3>1, <3>2
      <4>2. Looks
        BY <3>1, <3>2, <4>1 DEF Overtaken
      <4>3. Looks'
        BY <1>3, <4>2 DEF Looks
      <4> QED BY <3>1, <4>3
    <3>3. CASE rows[i].at # Unread
      <4>1. i \in 1 .. Len(rows) /\ rows[i].at # event.lastAt
        BY <1>0, <3>3 DEF EventsInv, Watermark
      <4>2. rows[i].at < event.lastAt
        BY <2>2, <2>3, <4>1
      <4>3. \E j \in 1 .. Len(rows) : rows[j].at = event.lastAt
        BY <1>7, <2>2, <2>3, <4>1, <4>2
      <4>4. Overtaken(i)
        BY <3>3, <4>2, <4>3 DEF Overtaken
      <4> QED BY <3>1, <4>4
    <3> QED BY <3>2, <3>3
  <2>6. \A i : Overtaken(i)' <=> Overtaken(i)
    BY <1>3 DEF Overtaken
  <2>7. Announced'
    BY <1>3, <1>4, <2>1, <2>5, <2>6 DEF Announced
  <2> QED BY <1>5, <1>6, <2>4, <2>7 DEF EventsInv
<1> QED BY <1>8, <1>9

LEMMA EventFailsStep ==
  ASSUME EventsInv, EventFails
  PROVE  EventsInv'
<1>0. /\ event \in [pc : {"ids", "stamps"}, lastId : Nat, lastAt : Nat, found : BOOLEAN]
      /\ waits \in [Loops -> {"run", "check", "gap", "sleep"}] /\ "event" \in Loops
      /\ errors \in Nat
  BY DEF EventsInv, LoopTypes, Loops
<1>1. /\ errors' = errors + 1
      /\ event' = [event EXCEPT !.pc = "ids", !.found = FALSE]
      /\ waits' = [waits EXCEPT !["event"] = "check"]
      /\ UNCHANGED <<rows, clock, inbox, taken, changed, sender, behind, touch, view>>
  BY DEF EventFails, dbVars
<1>2. /\ event' \in [pc : {"ids", "stamps"}, lastId : Nat, lastAt : Nat, found : BOOLEAN]
      /\ event'.pc = "ids" /\ event'.lastId = event.lastId /\ event'.lastAt = event.lastAt
      /\ waits' \in [Loops -> {"run", "check", "gap", "sleep"}]
  BY <1>0, <1>1
<1>e. errors' \in Nat /\ errors' # 0
  BY <1>0, <1>1
<1>3. DbTypes' /\ LoopTypes' /\ StampsFresh' /\ SenderAtWork' /\ Watermark'
  BY <1>1, <1>2, <1>e DEF EventsInv, DbTypes, LoopTypes, StampsFresh, SenderAtWork, Watermark
<1>4. Announced' /\ ViewTypes' /\ ViewFollows'
  BY <1>1, <1>2, <1>e DEF EventsInv, Announced, ViewTypes, ViewFollows, Shown
<1> QED BY <1>3, <1>4 DEF EventsInv
-----------------------------------------------------------------------------
(* The open view.                                                          *)
LEMMA ViewStep ==
  ASSUME EventsInv, UNCHANGED <<dbVars, loopVars, event>>, errors' \in Nat,
         errors' = 0 => errors = 0, ViewTypes', ViewFollows'
  PROVE  EventsInv'
<1>1. UNCHANGED <<rows, clock, inbox, taken, changed, sender, waits, behind, touch, event>>
  BY DEF dbVars, loopVars
<1>2. DbTypes' /\ LoopTypes' /\ StampsFresh' /\ SenderAtWork' /\ Watermark'
  BY <1>1 DEF EventsInv, DbTypes, LoopTypes, StampsFresh, SenderAtWork, Watermark
<1>3. Announced'
  BY <1>1 DEF EventsInv, Announced, Looks, Overtaken
<1> QED BY <1>2, <1>3 DEF EventsInv

(* apply_messages shows the rows read and keeps the others, and the        *)
(* greatest received row known is one that is shown.                       *)
LEMMA AppliedIs ==
  ASSUME EventsInv, NEW ids \in SUBSET (1 .. Len(rows)), NEW a, a = Apply(ids)
  PROVE  /\ a \in [pc : {"closed", "open", "refresh"}, latest : Nat, next : Nat,
                   due : BOOLEAN, msgs : Stamps]
         /\ a.pc = view.pc /\ a.next = view.next /\ a.due = view.due
         /\ a.latest <= Len(rows) /\ view.latest <= a.latest
         /\ \A i \in ids : i \in DOMAIN a.msgs /\ a.msgs[i] = rows[i].at
         /\ \A i \in DOMAIN view.msgs \ ids : i \in DOMAIN a.msgs /\ a.msgs[i] = view.msgs[i]
         /\ \A i \in DOMAIN a.msgs : i \in 1 .. Len(rows) /\ a.msgs[i] <= clock
         /\ a.latest # 0 => /\ a.latest \in DOMAIN a.msgs /\ a.msgs[a.latest] = rows[a.latest].at
                            /\ rows[a.latest].at # Unread
<1> DEFINE S == {view.latest} \cup {i \in ids : rows[i].at # Unread}
           known == ids \cup DOMAIN view.msgs
<1>1. /\ rows \in Seq(Row) /\ Len(rows) \in Nat /\ clock \in Nat
  BY LenProperties DEF EventsInv, DbTypes
<1>2. /\ view \in [pc : {"closed", "open", "refresh"}, latest : Nat, next : Nat,
                   due : BOOLEAN, msgs : Stamps]
      /\ view.latest \in Nat /\ view.latest <= Len(rows) /\ view.msgs \in Stamps
      /\ \A i \in DOMAIN view.msgs : i \in 1 .. Len(rows) /\ view.msgs[i] <= clock
  BY DEF EventsInv, ViewTypes
<1>3. \A i \in DOMAIN view.msgs : view.msgs[i] \in Nat
  BY <1>2 DEF Stamps
<1>4. \A i \in 1 .. Len(rows) : rows[i].at \in Nat /\ rows[i].at <= clock
  <2>1. \A i \in 1 .. Len(rows) : rows[i] \in Row
    BY <1>1, ElementOfSeq
  <2> QED BY <2>1 DEF EventsInv, StampsFresh, Row
<1>5. PICK m : m = [i \in known |-> IF i \in ids THEN rows[i].at ELSE view.msgs[i]]
  OBVIOUS
<1>6. /\ DOMAIN m = known /\ \A i \in ids : m[i] = rows[i].at
      /\ \A i \in DOMAIN view.msgs \ ids : m[i] = view.msgs[i]
  BY <1>5
<1>7. /\ m \in Stamps
      /\ \A i \in DOMAIN m : i \in 1 .. Len(rows) /\ m[i] <= clock
  <2>0. \A i \in known : i \in 1 .. Len(rows)
    BY <1>2
  <2>1. known \in SUBSET Nat
    <3>1. \A i \in 1 .. Len(rows) : i \in Nat
      BY <1>1
    <3> HIDE DEF known
    <3> QED BY <2>0, <3>1
  <2>2. \A i \in known : m[i] \in Nat /\ m[i] <= clock /\ i \in 1 .. Len(rows)
    BY <1>2, <1>3, <1>4, <1>6
  <2>3. m \in [known -> Nat]
    BY <1>5, <2>2
  <2> HIDE DEF known
  <2> QED BY <1>6, <2>1, <2>2, <2>3 DEF Stamps
<1>8. PICK top : top = Max(S)
  OBVIOUS
<1>9. top \in S /\ \A y \in S : y <= top
  <2>1. S \in SUBSET (0 .. Len(rows)) /\ S # {}
    <3>1. view.latest \in 0 .. Len(rows)
      BY <1>1, <1>2
    <3>2. \A i \in ids : i \in 0 .. Len(rows)
      BY <1>1
    <3> QED BY <3>1, <3>2
  <2> HIDE DEF S
  <2> QED BY <1>1, <1>8, <2>1, BoundedMax
<1>10. top \in Nat /\ top <= Len(rows) /\ view.latest <= top
  BY <1>1, <1>2, <1>9
<1>11. a = [view EXCEPT !.latest = top, !.msgs = m]
  BY <1>5, <1>8 DEF Apply, Latest
<1>12. /\ a \in [pc : {"closed", "open", "refresh"}, latest : Nat, next : Nat,
                 due : BOOLEAN, msgs : Stamps]
       /\ a.pc = view.pc /\ a.next = view.next /\ a.due = view.due /\ a.latest = top /\ a.msgs = m
  BY <1>2, <1>7, <1>10, <1>11
<1>13. top # 0 => top \in DOMAIN m /\ m[top] = rows[top].at /\ rows[top].at # Unread
  <2>1. CASE top \in ids
    <3>1. top = view.latest \/ rows[top].at # Unread
      BY <1>9
    <3>2. top = view.latest /\ top # 0 => rows[top].at # Unread
      BY DEF EventsInv, ViewFollows
    <3> QED BY <1>6, <2>1, <3>1, <3>2
  <2>2. CASE top \notin ids
    <3>1. top = view.latest
      BY <1>9, <2>2
    <3>2. top # 0 => top \in DOMAIN view.msgs /\ view.msgs[top] = rows[top].at /\ rows[top].at # Unread
      BY <3>1 DEF EventsInv, ViewFollows, Shown
    <3> QED BY <1>6, <2>2, <3>2
  <2> QED BY <2>1, <2>2
<1> QED BY <1>6, <1>7, <1>10, <1>12, <1>13

LEMMA ViewOpenStep ==
  ASSUME EventsInv, ViewOpen
  PROVE  EventsInv'
<1>0. rows \in Seq(Row) /\ DOMAIN rows = 1 .. Len(rows) /\ errors \in Nat
  BY LenProperties DEF EventsInv, DbTypes, LoopTypes
<1>1. PICK a : a = Apply(1 .. Len(rows))
  OBVIOUS
<1>2. /\ a \in [pc : {"closed", "open", "refresh"}, latest : Nat, next : Nat,
                due : BOOLEAN, msgs : Stamps]
      /\ a.next = view.next /\ a.latest <= Len(rows)
      /\ \A i \in 1 .. Len(rows) : i \in DOMAIN a.msgs /\ a.msgs[i] = rows[i].at
      /\ \A i \in DOMAIN a.msgs : i \in 1 .. Len(rows) /\ a.msgs[i] <= clock
      /\ a.latest # 0 => /\ a.latest \in DOMAIN a.msgs /\ a.msgs[a.latest] = rows[a.latest].at
                         /\ rows[a.latest].at # Unread
  <2>1. 1 .. Len(rows) \in SUBSET (1 .. Len(rows))
    OBVIOUS
  <2> QED BY <1>1, <2>1, AppliedIs
<1>3. view' = [a EXCEPT !.pc = "open", !.due = FALSE] /\ UNCHANGED <<dbVars, loopVars, event, errors>>
  BY <1>0, <1>1 DEF ViewOpen
<1>4. /\ view' \in [pc : {"closed", "open", "refresh"}, latest : Nat, next : Nat,
                    due : BOOLEAN, msgs : Stamps]
      /\ view'.latest = a.latest /\ view'.next = view.next /\ view'.msgs = a.msgs
  BY <1>2, <1>3
<1>5. ViewTypes'
  BY <1>2, <1>3, <1>4 DEF EventsInv, ViewTypes, dbVars
<1>6. ViewFollows'
  <2>1. \A i \in 1 .. Len(rows) : Shown(i)'
    BY <1>2, <1>3, <1>4 DEF Shown, dbVars
  <2>2. view'.latest # 0 => view'.latest \in 1 .. Len(rows) /\ rows[view'.latest].at # Unread
    BY <1>2, <1>4
  <2> QED BY <1>3, <2>1, <2>2 DEF ViewFollows, ViewLeaves, dbVars
<1> QED BY <1>0, <1>3, <1>5, <1>6, ViewStep

LEMMA RefreshStartStep ==
  ASSUME EventsInv, RefreshStart
  PROVE  EventsInv'
<1>0. /\ rows \in Seq(Row) /\ Len(rows) \in Nat /\ errors \in Nat
      /\ view \in [pc : {"closed", "open", "refresh"}, latest : Nat, next : Nat,
                   due : BOOLEAN, msgs : Stamps]
      /\ view.latest <= Len(rows)
  BY LenProperties DEF EventsInv, DbTypes, LoopTypes, ViewTypes
<1>1. /\ view.pc = "open"
      /\ view' = [view EXCEPT !.pc = "refresh", !.due = FALSE, !.next = view.latest + 1]
      /\ UNCHANGED <<dbVars, loopVars, event, errors>>
  BY DEF RefreshStart
<1>2. /\ view' \in [pc : {"closed", "open", "refresh"}, latest : Nat, next : Nat,
                    due : BOOLEAN, msgs : Stamps]
      /\ view'.pc = "refresh" /\ view'.latest = view.latest /\ view'.next = view.latest + 1
      /\ view'.msgs = view.msgs
  <2>1. PICK n \in Nat : n = view.latest + 1
    BY <1>0
  <2>2. view' = [view EXCEPT !.pc = "refresh", !.due = FALSE, !.next = n]
    BY <1>1, <2>1
  <2> QED BY <1>0, <2>1, <2>2
<1>3. UNCHANGED <<rows, clock, changed>>
  BY <1>1 DEF dbVars
<1>4. ViewTypes'
  <2>1. view'.next <= Len(rows) + 1
    BY <1>0, <1>2
  <2> QED BY <1>2, <1>3, <2>1 DEF EventsInv, ViewTypes
<1>5. ViewFollows'
  <2>1. \A i \in 1 .. Len(rows) : Shown(i)' <=> Shown(i)
    BY <1>2, <1>3 DEF Shown
  <2>2. view.latest # 0 => /\ view.latest \in 1 .. Len(rows)
                           /\ Shown(view.latest) /\ rows[view.latest].at # Unread
    BY <1>0 DEF EventsInv, ViewFollows
  <2>3. ASSUME NEW i \in 1 .. Len(rows)
        PROVE  ViewLeaves(i)'
    <3>1. i < view.latest \/ i = view.latest \/ i >= view.latest + 1
      BY <1>0
    <3>2. i # 0
      BY <1>0
    <3> QED BY <1>2, <2>1, <2>2, <3>1, <3>2 DEF ViewLeaves
  <2> QED BY <1>2, <1>3, <2>1, <2>2, <2>3 DEF ViewFollows
<1> QED BY <1>0, <1>1, <1>4, <1>5, ViewStep

LEMMA RefreshEndTypes ==
  ASSUME EventsInv, UNCHANGED <<rows, clock>>, view' = RefreshEnd
  PROVE  /\ ViewTypes' /\ view'.pc = "open" /\ view'.latest = view.latest
         /\ view'.due = view.due /\ view'.msgs = view.msgs
<1>1. view \in [pc : {"closed", "open", "refresh"}, latest : Nat, next : Nat,
                due : BOOLEAN, msgs : Stamps]
  BY DEF EventsInv, ViewTypes
<1>2. view' = [view EXCEPT !.pc = "open", !.next = 0]
  BY DEF RefreshEnd
<1>3. /\ view' \in [pc : {"closed", "open", "refresh"}, latest : Nat, next : Nat,
                    due : BOOLEAN, msgs : Stamps]
      /\ view'.pc = "open" /\ view'.latest = view.latest /\ view'.next = 0
      /\ view'.due = view.due /\ view'.msgs = view.msgs
  <2>1. PICK none \in Nat : none = 0
    OBVIOUS
  <2>2. view' = [view EXCEPT !.pc = "open", !.next = none]
    BY <1>2, <2>1
  <2> QED BY <1>1, <2>1, <2>2
<1>4. 0 <= Len(rows) + 1
  <2>1. rows \in Seq(Row)
    BY DEF EventsInv, DbTypes
  <2>2. Len(rows) \in Nat
    BY <2>1, LenProperties
  <2> QED BY <2>2
<1> QED BY <1>3, <1>4 DEF EventsInv, ViewTypes

LEMMA RefreshPageStep ==
  ASSUME EventsInv, RefreshPage
  PROVE  EventsInv'
<1>0. /\ rows \in Seq(Row) /\ Len(rows) \in Nat /\ DOMAIN rows = 1 .. Len(rows) /\ errors \in Nat
      /\ view.pc = "refresh" /\ view.next \in Nat /\ view.latest \in Nat
      /\ view.latest # 0 => Shown(view.latest) /\ rows[view.latest].at # Unread
      /\ view.latest <= Len(rows)
  BY LenProperties DEF EventsInv, DbTypes, LoopTypes, ViewTypes, ViewFollows, RefreshPage
<1>1. UNCHANGED <<dbVars, loopVars, event, errors>> /\ UNCHANGED <<rows, clock, changed>>
  BY DEF RefreshPage, dbVars
<1>2. \A i \in 1 .. Len(rows) : i \in NewPage <=> i >= view.next /\ i > Len(rows) - PageLimit
  BY <1>0 DEF NewPage
<1>3. CASE NewPage = {}
  <2>1. view' = RefreshEnd
    BY <1>3 DEF RefreshPage
  <2>2. /\ ViewTypes' /\ view'.pc = "open" /\ view'.latest = view.latest
        /\ view'.due = view.due /\ view'.msgs = view.msgs
    BY <1>1, <2>1, RefreshEndTypes
  <2>3. \A i \in 1 .. Len(rows) : Shown(i)' <=> Shown(i)
    BY <1>1, <2>2 DEF Shown
  <2>4. ASSUME errors = 0, NEW i \in 1 .. Len(rows)
        PROVE  ViewLeaves(i)'
    <3>1. ViewLeaves(i)
      BY <1>0, <2>4 DEF EventsInv, ViewFollows
    <3>2. i >= view.next => i <= Len(rows) - PageLimit
      BY <1>0, <1>2, <1>3, PageLimitPositive
    <3> QED BY <1>0, <1>1, <2>2, <2>3, <3>1, <3>2 DEF ViewLeaves
  <2>5. view.latest # 0 => view.latest \in 1 .. Len(rows)
    BY <1>0
  <2>6. ViewFollows'
    BY <1>0, <1>1, <2>2, <2>3, <2>4, <2>5 DEF ViewFollows
  <2> QED BY <1>0, <1>1, <2>2, <2>6, ViewStep
<1>4. CASE NewPage # {}
  <2>1. PICK a : a = Apply(NewPage)
    OBVIOUS
  <2>2. NewPage \in SUBSET (1 .. Len(rows)) /\ NewPage \in SUBSET (0 .. Len(rows))
    BY <1>0 DEF NewPage
  <2>3. /\ a \in [pc : {"closed", "open", "refresh"}, latest : Nat, next : Nat,
                  due : BOOLEAN, msgs : Stamps]
        /\ a.pc = view.pc /\ a.due = view.due
        /\ a.latest <= Len(rows) /\ view.latest <= a.latest
        /\ \A i \in NewPage : i \in DOMAIN a.msgs /\ a.msgs[i] = rows[i].at
        /\ \A i \in DOMAIN view.msgs \ NewPage : i \in DOMAIN a.msgs /\ a.msgs[i] = view.msgs[i]
        /\ \A i \in DOMAIN a.msgs : i \in 1 .. Len(rows) /\ a.msgs[i] <= clock
        /\ a.latest # 0 => /\ a.latest \in DOMAIN a.msgs /\ a.msgs[a.latest] = rows[a.latest].at
                           /\ rows[a.latest].at # Unread
    BY <2>1, <2>2, AppliedIs
  <2>4. PICK top : top = Max(NewPage)
    OBVIOUS
  <2>5. top \in NewPage
    BY <1>0, <1>4, <2>2, <2>4, BoundedMax
  <2>6. top + 1 \in Nat /\ top + 1 <= Len(rows) + 1
    <3>1. top \in 1 .. Len(rows)
      BY <2>2, <2>5
    <3> QED BY <1>0, <3>1
  <2>7. view' = [a EXCEPT !.next = top + 1]
    BY <1>4, <2>1, <2>4 DEF RefreshPage
  <2>8. /\ view' \in [pc : {"closed", "open", "refresh"}, latest : Nat, next : Nat,
                      due : BOOLEAN, msgs : Stamps]
        /\ view'.pc = "refresh" /\ view'.latest = a.latest /\ view'.next = top + 1
        /\ view'.due = view.due /\ view'.msgs = a.msgs
    BY <1>0, <2>3, <2>6, <2>7
  <2>9. ViewTypes'
    BY <1>1, <2>3, <2>6, <2>8 DEF ViewTypes
  <2>10. ASSUME NEW i \in 1 .. Len(rows), Shown(i) \/ i \in NewPage
         PROVE  Shown(i)'
    BY <1>1, <2>3, <2>8, <2>10 DEF Shown
  <2>11. ASSUME errors = 0, NEW i \in 1 .. Len(rows)
         PROVE  ViewLeaves(i)'
    <3>1. ViewLeaves(i)
      BY <1>0, <2>11 DEF EventsInv, ViewFollows
    <3>2. CASE Shown(i) \/ i \in NewPage
      BY <2>10, <3>2 DEF ViewLeaves
    <3>3. CASE i < view.latest
      <4>1. a.latest \in Nat
        BY <2>3
      <4>2. i < a.latest
        BY <1>0, <2>3, <3>3, <4>1
      <4> QED BY <2>8, <4>2 DEF ViewLeaves
    <3>4. CASE i <= Len(rows) - PageLimit \/ i \in changed \/ view.due
      BY <1>1, <2>8, <3>4 DEF ViewLeaves
    <3>5. CASE i >= view.next /\ i > Len(rows) - PageLimit
      BY <1>2, <3>2, <3>5
    <3>6. i <= Len(rows) - PageLimit \/ i > Len(rows) - PageLimit
      BY <1>0, PageLimitPositive
    <3> QED BY <3>1, <3>2, <3>3, <3>4, <3>5, <3>6 DEF ViewLeaves
  <2>12. a.latest # 0 => a.latest \in DOMAIN a.msgs /\ a.msgs[a.latest] = rows[a.latest].at
                         /\ rows[a.latest].at # Unread
    BY <2>3
  <2>13. ViewFollows'
    BY <1>1, <2>8, <2>11, <2>12 DEF ViewFollows, Shown
  <2> QED BY <1>0, <1>1, <2>9, <2>13, ViewStep
<1> QED BY <1>3, <1>4

LEMMA RefreshFailsStep ==
  ASSUME EventsInv, RefreshFails
  PROVE  EventsInv'
<1>0. /\ rows \in Seq(Row) /\ Len(rows) \in Nat /\ errors \in Nat
      /\ view.latest \in Nat /\ view.latest <= Len(rows)
      /\ view.latest # 0 => Shown(view.latest) /\ rows[view.latest].at # Unread
  BY LenProperties DEF EventsInv, DbTypes, LoopTypes, ViewTypes, ViewFollows
<1>1. /\ errors' = errors + 1 /\ view' = RefreshEnd
      /\ UNCHANGED <<dbVars, loopVars, event>> /\ UNCHANGED <<rows, clock>>
  BY DEF RefreshFails, dbVars
<1>2. errors' \in Nat /\ errors' # 0
  BY <1>0, <1>1
<1>3. ViewTypes' /\ view'.latest = view.latest /\ view'.msgs = view.msgs
  BY <1>1, RefreshEndTypes
<1>4. ViewFollows'
  BY <1>0, <1>1, <1>2, <1>3 DEF ViewFollows, Shown
<1> QED BY <1>1, <1>2, <1>3, <1>4, ViewStep
-----------------------------------------------------------------------------
LEMMA EventsNextInv ==
  ASSUME EventsInv, [EventsNext]_eventsVars
  PROVE  EventsInv'
<1>1. CASE UNCHANGED eventsVars
  <2>1. UNCHANGED <<dbVars, sender, event, view, errors, waits, behind, touch>>
    BY <1>1 DEF eventsVars, loopVars
  <2>2. Looks => Looks'
    BY <2>1 DEF Looks
  <2>3. /\ waits \in [Loops -> {"run", "check", "gap", "sleep"}] /\ behind \subseteq Loops
        /\ touch \in [Writers -> {"none", "due", "notify"}]
        /\ event.pc = "stamps" => waits["event"] = "run"
    BY DEF EventsInv, LoopTypes, Watermark
  <2> QED BY <2>1, <2>2, <2>3, WaitingStep
<1>2. CASE Compose \/ Recv \/ Arrive
  BY <1>2, ComposeStep, RecvStep, ArriveStep
<1>3. CASE RequestTouch \/ RequestNotify \/ Wake \/ \E l \in Loops : WaitCheck(l) \/ WaitSleep(l)
  BY <1>3, TouchAndWaitSteps
<1>4. CASE Send
  BY <1>4, SendPickStep, SendServedStep, MarkSteps DEF Send
<1>5. CASE EventStep \/ EventFails
  BY <1>5, EventIdsStep, EventStampsStep, EventFailsStep DEF EventStep
<1>6. CASE ViewOpen \/ Refresh \/ RefreshFails
  BY <1>6, ViewOpenStep, RefreshStartStep, RefreshPageStep, RefreshFailsStep DEF Refresh
<1>7. EventsNext \/ UNCHANGED eventsVars
  OBVIOUS
<1> QED BY <1>1, <1>2, <1>3, <1>4, <1>5, <1>6, <1>7, Zenon DEF EventsNext

LEMMA EventsInvariance == EventsSpec => []EventsInv
BY EventsInitInv, EventsNextInv, PTL DEF EventsSpec

(* The event loop never forgets a change: once it rests, with no database  *)
(* error, the only changes it told nobody of are rows that another row's   *)
(* received_at overtook before mark_message_sent wrote theirs.             *)
THEOREM ChangesAnnounced == EventsSpec => []UnannouncedOnlyIfOvertaken
<1>1. ASSUME EventsInv
      PROVE  UnannouncedOnlyIfOvertaken
  <2>1. TypeOK
    BY <1>1, EventsTypes
  <2>2. ASSUME EventLoopAtRest, errors = 0, NEW i \in changed
        PROVE  rows[i].at # Unread /\ \E j \in DOMAIN rows : rows[j].at > rows[i].at
    <3>1. ~Looks
      BY <2>2 DEF EventLoopAtRest, Looks
    <3>2. event.pc # "stamps"
      BY <1>1, <2>2 DEF EventLoopAtRest, EventsInv, Watermark
    <3>3. Overtaken(i)
      BY <1>1, <2>2, <3>1, <3>2 DEF EventsInv, Announced
    <3>4. DOMAIN rows = 1 .. Len(rows)
      BY <1>1, LenProperties DEF EventsInv, DbTypes
    <3> QED BY <3>3, <3>4 DEF Overtaken
  <2> QED BY <2>1, <2>2 DEF UnannouncedOnlyIfOvertaken
<1> QED BY <1>1, EventsInvariance, PTL

(* The open conversation lacks, or shows as it was, only what lies behind  *)
(* the last received row it had, or what a page left out.                  *)
THEOREM ViewCatchesUp == EventsSpec => []ViewStaleOnlyBehind
<1>1. ASSUME EventsInv
      PROVE  ViewStaleOnlyBehind
  <2>1. ASSUME view.pc = "open", ~view.due, changed = {}, errors = 0, NEW i \in 1 .. Len(rows)
        PROVE  \/ i \in DOMAIN view.msgs /\ view.msgs[i] = rows[i].at
               \/ i < view.latest
               \/ i <= Len(rows) - PageLimit
    BY <1>1, <2>1 DEF EventsInv, ViewFollows, ViewLeaves, Shown
  <2>2. DOMAIN rows = 1 .. Len(rows)
    BY <1>1, LenProperties DEF EventsInv, DbTypes
  <2> QED BY <2>1, <2>2 DEF ViewStaleOnlyBehind
<1> QED BY <1>1, EventsInvariance, PTL
=============================================================================
