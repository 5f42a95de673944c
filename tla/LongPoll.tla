------------------------------ MODULE LongPoll ------------------------------
(***************************************************************************)
(* The long poller of a client (nullspace-client, long_poll.rs) between    *)
(* its receiving tasks and one server.  A task sends one request for each  *)
(* of its mailboxes to the server's worker and takes the first answer: the *)
(* task for direct messages has one mailbox, a group's task two, and its   *)
(* second request is then dead, though the worker still has it.  The       *)
(* worker polls for all requests that it has in one call, and drops the    *)
(* call when a further request arrives.                                    *)
(*                                                                         *)
(* Entries of a mailbox are numbered in their order.  Which entries a      *)
(* server gives is module Mailbox's subject; here a poll is one step.      *)
(***************************************************************************)
EXTENDS Proxying, SequencesExt

CONSTANTS
  PollIds,      (* calls that polls take                                  *)
  Tasks,        (* receiving tasks                                        *)
  BoxesOf,      (* the mailboxes of each task                             *)
  Page,         (* LIMIT 100 of v1_mailbox_multirecv                      *)
  Workloads,    (* what a behaviour is about: "requests", or some polls   *)
  MaxEntries,   (* bound: entries of each mailbox in each workload        *)
  MaxFaults     (* bound: failures and losses of access in each workload  *)

Boxes == UNION {BoxesOf[t] : t \in Tasks}

ASSUME PollIdsAreCalls == PollIds \subseteq Calls \ RequestCalls
ASSUME BoxesAreOneTasks ==
  /\ IsFiniteSet(Boxes)
  /\ \A s, t \in Tasks : s # t => BoxesOf[s] \cap BoxesOf[t] = {}
ASSUME PageIsPositive == Page \in Nat \ {0}
ASSUME BoundsType == MaxEntries \in [Workloads -> [Boxes -> Nat]] /\ MaxFaults \in [Workloads -> Nat]

VARIABLES
  workload,  (* the behaviour's workload                                  *)
  entries,   (* how many entries each mailbox has                         *)
  denied,    (* mailboxes that the server refuses the client              *)
  after,     (* the cursor each task keeps for a mailbox                  *)
  asked,     (* tasks that wait for an answer                             *)
  queue,     (* the worker's channel                                      *)
  pending,   (* the worker's requests; equal dead ones count once         *)
  poll,      (* the call of the worker's poll: a set of at most one       *)
  reply,     (* what the server answers to it                             *)
  answer     (* what each mailbox's request was answered                  *)

polling == <<workload, entries, denied, after, asked, queue, pending, poll, reply, answer>>
vars == <<net, faults, proxying, polling>>

Nothing == [refused |-> FALSE, of |-> [b \in Boxes |-> {}]]
Refusal == [Nothing EXCEPT !.refused = TRUE]

(* What a request was answered: nothing yet, an error, or an entry.        *)
NoAnswer == 0
Error == Max({MaxEntries[workload][b] : b \in Boxes}) + 1

Request(b, live) == [box |-> b, after |-> after[b], live |-> live]

Init ==
  /\ ProxyingInit
  /\ workload \in Workloads
  /\ faults = MaxFaults[workload]
  /\ entries = [b \in Boxes |-> 0]
  /\ denied = {}
  /\ after = [b \in Boxes |-> 0]
  /\ asked = {}
  /\ queue = <<>>
  /\ pending = {}
  /\ poll = {}
  /\ reply = Nothing
  /\ answer = [b \in Boxes |-> NoAnswer]

-----------------------------------------------------------------------------
Post(b) ==
  /\ workload # "requests"
  /\ entries[b] < MaxEntries[workload][b]
  /\ entries' = [entries EXCEPT ![b] = @ + 1]
  /\ UNCHANGED <<net, faults, proxying, workload, denied, after, asked, queue, pending, poll,
                 reply, answer>>

(* The client's token loses a mailbox: it is banned, or its device is      *)
(* removed.                                                                *)
Deny(b) ==
  /\ workload # "requests"
  /\ b \notin denied
  /\ Fault
  /\ denied' = denied \cup {b}
  /\ UNCHANGED <<net, proxying, workload, entries, after, asked, queue, pending, poll,
                 reply, answer>>

(* LongPoller::recv, once for every mailbox of the task.                   *)
Ask(t) ==
  /\ workload # "requests" /\ t \notin asked
  /\ asked' = asked \cup {t}
  /\ \E order \in SetToSeqs(BoxesOf[t]) :
       queue' = queue \o [i \in DOMAIN order |-> Request(order[i], TRUE)]
  /\ UNCHANGED <<net, faults, proxying, workload, entries, denied, after, pending, poll, reply,
                 answer>>

(* run_server_worker gets a request: a poll that is under way is dropped.  *)
TakeRequest ==
  /\ queue # <<>>
  /\ pending' = pending \cup {Head(queue)}
  /\ queue' = Tail(queue)
  /\ poll' = {} /\ reply' = Nothing
  /\ IF poll = {} THEN UNCHANGED <<net, faults>> ELSE \E c \in poll : Abandon(c)
  /\ UNCHANGED <<proxying, workload, entries, denied, after, asked, answer>>

(* A request that is in the channel already wins the race with the poll.   *)
StartPoll ==
  LET free == {c \in PollIds : Unused(c)}
  IN  /\ pending # {} /\ poll = {} /\ queue = <<>>
      /\ free # {}
      /\ poll' = {CHOOSE c \in free : TRUE}
      /\ \E c \in poll' : Call(c)
      /\ UNCHANGED <<proxying, workload, entries, denied, after, asked, queue, pending, reply,
                     answer>>

(* build_args: the least cursor of the requests for each mailbox.          *)
MinAfter(b) == Min({r.after : r \in {q \in pending : q.box = b}})
Polled == {r.box : r \in pending}
Unseen(b) == MinAfter(b) + 1 .. entries[b]

Reached(c) == place[c] \in {"serving", "orphan"}
Answers(c, what) ==
  /\ Answer(c)
  /\ reply' = what
  /\ UNCHANGED <<proxying, workload, entries, denied, after, asked, queue, pending, poll, answer>>

(* v1_mailbox_multirecv: the mailboxes race; the first that has entries,   *)
(* or that is refused, is the answer.                                      *)
PollServed(c) ==
  /\ c \in poll /\ Reached(c)
  /\ \E b \in Polled :
       \/ b \in denied /\ Answers(c, Refusal) /\ UNCHANGED faults
       \/ /\ b \notin denied /\ Unseen(b) # {}
          /\ UNCHANGED faults
          /\ Answers(c, [Nothing EXCEPT !.of[b] = {e \in Unseen(b) : e <= MinAfter(b) + Page}])

(* The time of the poll is over, or nobody waits for its answer.           *)
PollExpires(c) ==
  /\ Reached(c)
  /\ c \in poll => \A b \in Polled : b \notin denied /\ Unseen(b) = {}
  /\ Answers(c, reply)
  /\ UNCHANGED faults

(* A statement of the server's database fails.                             *)
PollFails(c) ==
  /\ c \in poll /\ Reached(c)
  /\ Fault
  /\ Answers(c, Refusal)

(* Variant: the newest entry of the page. *)
Found_Newest(r) == Max({e \in reply.of[r.box] : e > r.after})

(* username_poll_response: the first entry after a request's own cursor.   *)
Found(r) == Min({e \in reply.of[r.box] : e > r.after})
Served == {r \in pending : \E e \in reply.of[r.box] : e > r.after}

Respond(requests, what(_)) ==
  answer' = [b \in Boxes |->
               IF \E r \in requests : r.live /\ r.box = b
               THEN what(CHOOSE r \in requests : r.live /\ r.box = b) ELSE answer[b]]

(* The worker has its poll's result.  An error of the call leaves the      *)
(* requests as they are; a refusal fails them all.                         *)
PollReturns(c) ==
  /\ c \in poll
  /\ Return(c)
  /\ CASE wait[c] = "error" ->
            UNCHANGED <<pending, answer>>
       [] wait[c] = "ok" /\ reply.refused ->
            /\ pending' = {}
            /\ Respond(pending, LAMBDA r : Error)
       [] OTHER ->
            /\ pending' = pending \ Served
            /\ Respond(Served, Found)
  /\ poll' = {} /\ reply' = Nothing
  /\ UNCHANGED <<proxying, workload, entries, denied, after, asked, queue>>

(* The task has an answer, and drops its other requests with theirs.  It   *)
(* moves the cursor of the mailbox that the entry is from, or tries again  *)
(* after an error.                                                         *)
Receive(t) ==
  LET Drop(r) == [r EXCEPT !.live = @ /\ r.box \notin BoxesOf[t]]
  IN  \E b \in BoxesOf[t] :
        /\ t \in asked /\ answer[b] # NoAnswer
        /\ after' = IF answer[b] = Error THEN after ELSE [after EXCEPT ![b] = answer[b]]
        /\ answer' = [o \in Boxes |-> IF o \in BoxesOf[t] THEN NoAnswer ELSE answer[o]]
        /\ asked' = asked \ {t}
        /\ queue' = [i \in DOMAIN queue |-> Drop(queue[i])]
        /\ pending' = {Drop(r) : r \in pending}
        /\ UNCHANGED <<net, faults, proxying, workload, entries, denied, poll, reply>>

Next ==
  \/ \E b \in Boxes : Post(b) \/ Deny(b)
  \/ \E t \in Tasks : Ask(t) \/ Receive(t)
  \/ TakeRequest \/ StartPoll
  \/ \E c \in PollIds : PollServed(c) \/ PollExpires(c) \/ PollFails(c) \/ PollReturns(c)
  \/ workload = "requests" /\ UNCHANGED polling /\ \E r \in Requests : RequestNext(r)
  \/ TransportNext /\ UNCHANGED <<proxying, polling>>

Spec == Init /\ [][Next]_vars

(* Every task runs on; connections and calls need not time out.            *)
FairSpec ==
  /\ Spec
  /\ \A t \in Tasks : WF_vars(Ask(t)) /\ WF_vars(Receive(t))
  /\ WF_vars(TakeRequest) /\ WF_vars(StartPoll)
  /\ \A c \in PollIds :
       /\ WF_vars(PollServed(c)) /\ WF_vars(PollExpires(c)) /\ WF_vars(PollReturns(c))
       /\ WF_vars(CallSteps(c) /\ UNCHANGED <<proxying, polling>>)
  /\ \A t \in Transports : WF_vars(TaskSteps(t) /\ UNCHANGED <<proxying, polling>>)

-----------------------------------------------------------------------------
LongPollTypeOK ==
  /\ ProxyingTypeOK
  /\ workload \in Workloads
  /\ \A b \in Boxes : entries[b] \in 0 .. MaxEntries[workload][b] /\ after[b] \in 0 .. entries[b]
  /\ denied \subseteq Boxes
  /\ asked \subseteq Tasks
  /\ \A i \in DOMAIN queue : queue[i].box \in Boxes
  /\ poll \subseteq PollIds /\ Cardinality(poll) <= 1
  /\ \A b \in Boxes : answer[b] \in 0 .. Error

(* A task waits for at most one request per mailbox, which has the task's  *)
(* own cursor; and whatever it is answered is the entry that follows that  *)
(* cursor, so that no entry is skipped by a page, by another request's     *)
(* cursor, by a dropped poll or by a request that lost the race.           *)
NothingSkipped ==
  /\ LongPollTypeOK
  /\ \A b \in Boxes :
       /\ answer[b] \in {NoAnswer, Error, after[b] + 1}
       /\ \A r \in pending \cup {queue[i] : i \in DOMAIN queue} :
            r.box = b /\ r.live => r.after = after[b] /\ answer[b] = NoAnswer

(* Every entry reaches its task, although polls are dropped, transports    *)
(* break and are replaced, and dead requests remain with the worker, as    *)
(* long as the server refuses none of the client's mailboxes.  (Entries are *)
(* bounded: from some state on there are no new ones.)                     *)
EntriesReceived == \A b \in Boxes : []<>(after[b] = entries[b] \/ denied # {})
=============================================================================
