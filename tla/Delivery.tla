------------------------------- MODULE Delivery ------------------------------
(***************************************************************************)
(* Direct messages from one user's device to the devices of both users     *)
(* (nullspace-client, convo/send.rs, convo/dm_recv.rs, retry.rs).          *)
(*                                                                         *)
(* A device queues a message as a row of its table; its send loop takes    *)
(* the oldest pending row and posts it to the peer's mailbox and then to   *)
(* its own user's, from the start again after any failed call, and writes  *)
(* the outcome into the row.  Its receive loop follows its user's mailbox. *)
(*                                                                         *)
(* A mailbox is the sequence of its entries in the order in which readers  *)
(* get them, a cursor the number of entries behind it.  A call that fails  *)
(* for the client may still be carried out by the server, then or later.   *)
(* How the send loop learns of a new row is in ClientEvents.               *)
(***************************************************************************)
EXTENDS Naturals, Sequences, FiniteSets

CONSTANTS
  Users,      (* user names                                               *)
  Devices,    (* devices                                                  *)
  UserOf,     (* their users                                              *)
  Sends,      (* the pairs <<device, user>> of convo_send calls           *)
  MaxTries,   (* tries of retry_backoff: 8 in the code                    *)
  MaxQueued,  (* bound: messages ever queued                              *)
  MaxClock,   (* bound: last value of the clock                           *)
  MaxFaults   (* bound: crashes, database errors, failed calls and receipts   *)

ASSUME UserOfType == UserOf \in [Devices -> Users]
ASSUME SendsType == Sends \subseteq Devices \X Users
ASSUME MaxTriesPositive == MaxTries \in Nat \ {0}
ASSUME BoundsAreNat == {MaxQueued, MaxClock, MaxFaults} \subseteq Nat

VARIABLES
  clock,    (* NanoTimestamp::now() of the devices                        *)
  queued,   (* history: how many messages were ever queued                *)
  rows,     (* table convo_messages of every device; an id is a position  *)
  send,     (* the send loop of every device                              *)
  late,     (* calls that failed for their client and may yet be served   *)
  box,      (* the direct mailbox of every user                           *)
  after,    (* the receive loop's `after`                                 *)
  saved,    (* table mailbox_state: the cursor saved                      *)
  failed,   (* history: <<device, n>> where processing entry n failed     *)
  faults    (* history: how many faults there were                        *)

sendVars == <<clock, queued, send, late, box>>
recvVars == <<after, saved, failed>>
vars == <<sendVars, rows, recvVars, faults>>

(* An Event with its signer; `body` numbers the messages.                  *)
Msg == [from : Devices, to : Users, sentAt : Nat, body : Nat]

(* "pending": received_at is NULL; "failed": send_error is not.            *)
Row == [convo : Users, msg : Msg, status : {"pending", "received", "failed"}]

IdleSend == [pc |-> "idle"]
SendState ==
  {IdleSend} \cup
    [pc : {"call", "answer", "sent", "failed"}, row : Nat, leg : {"peer", "self"},
     try : 1 .. MaxTries]

TypeOK ==
  /\ {clock, queued, faults} \subseteq Nat
  /\ rows \in [Devices -> Seq(Row)]
  /\ send \in [Devices -> SendState]
  /\ late \in SUBSET [target : Users, msg : Msg]
  /\ box \in [Users -> Seq(Msg)]
  /\ after \in [Devices -> Nat] /\ saved \in [Devices -> Nat]
  /\ failed \in SUBSET (Devices \X Nat)

Init ==
  /\ clock = 1 /\ queued = 0 /\ faults = 0
  /\ rows = [d \in Devices |-> <<>>]
  /\ send = [d \in Devices |-> IdleSend]
  /\ late = {}
  /\ box = [u \in Users |-> <<>>]
  /\ after = [d \in Devices |-> 0] /\ saved = [d \in Devices |-> 0]
  /\ failed = {}

-----------------------------------------------------------------------------
(* Fault variant: the index is on sent_at alone.                           *)
Taken_AnyConvo(d, convo, sentAt) == \E i \in DOMAIN rows[d] : rows[d][i].msg.sentAt = sentAt

(* convo_messages_sent_idx: UNIQUE (convo_id, sent_at), without the sender. *)
Taken(d, convo, sentAt) ==
  \E i \in DOMAIN rows[d] : rows[d][i].convo = convo /\ rows[d][i].msg.sentAt = sentAt

(* convo_send, queue_message; nothing else reads the clock, so time passes *)
(* here.                                                                   *)
Queue(d, u) ==
  /\ <<d, u>> \in Sends
  /\ queued < MaxQueued
  /\ queued' = queued + 1
  /\ clock' \in clock .. MaxClock
  /\ ~Taken(d, u, clock')
  /\ rows' = [rows EXCEPT ![d] = Append(@,
       [convo |-> u, status |-> "pending",
        msg |-> [from |-> d, to |-> u, sentAt |-> clock', body |-> queued + 1]])]
  /\ UNCHANGED <<send, late, box, recvVars, faults>>

-----------------------------------------------------------------------------
(* Fault variant: a failed row is pending too.                             *)
Pending_Failed(d) == {i \in DOMAIN rows[d] : rows[d][i].status # "received"}

Pending(d) == {i \in DOMAIN rows[d] : rows[d][i].status = "pending"}

(* Fault variant: ORDER BY m.id DESC.                                      *)
NextPending_Newest(d) == CHOOSE i \in Pending(d) : \A j \in Pending(d) : j <= i

(* next_pending_message                                                    *)
NextPending(d) == CHOOSE i \in Pending(d) : \A j \in Pending(d) : i <= j

SendPick(d) ==
  /\ send[d] = IdleSend
  /\ Pending(d) # {}
  /\ send' = [send EXCEPT ![d] =
                [pc |-> "call", row |-> NextPending(d), leg |-> "peer", try |-> 1]]
  /\ UNCHANGED <<clock, queued, rows, late, box, recvVars, faults>>

(* Fault variant: every try stamps the event anew.                         *)
Outgoing_Restamped(d) == [rows[d][send[d].row].msg EXCEPT !.sentAt = clock]

(* The event that send_dm builds from the row.                             *)
Outgoing(d) == rows[d][send[d].row].msg

Target(d) == IF send[d].leg = "peer" THEN Outgoing(d).to ELSE UserOf[d]

(* The server carries out v1_mailbox_send of send_dm_once.                 *)
Serve(d) ==
  /\ send[d].pc = "call"
  /\ box' = [box EXCEPT ![Target(d)] = Append(@, Outgoing(d))]
  /\ send' = [send EXCEPT ![d].pc = "answer"]
  /\ UNCHANGED <<clock, queued, rows, late, recvVars, faults>>

(* Fault variant: the copy to oneself is not waited for.                   *)
AfterAnswer_NoCopy(d) == [send[d] EXCEPT !.pc = "sent"]

(* After the peer's copy comes one's own, unless the peer is oneself.      *)
AfterAnswer(d) ==
  IF send[d].leg = "peer" /\ Outgoing(d).to # UserOf[d]
    THEN [send[d] EXCEPT !.pc = "call", !.leg = "self"]
    ELSE [send[d] EXCEPT !.pc = "sent"]

Answered(d) ==
  /\ send[d].pc = "answer"
  /\ send' = [send EXCEPT ![d] = AfterAnswer(d)]
  /\ UNCHANGED <<clock, queued, rows, late, box, recvVars, faults>>

(* retry_backoff starts send_dm again or gives up.                         *)
Retry(d) ==
  IF send[d].try < MaxTries
    THEN [send[d] EXCEPT !.pc = "call", !.leg = "peer", !.try = @ + 1]
    ELSE [send[d] EXCEPT !.pc = "failed"]

(* send_dm fails: a lookup, a call or its answer.                          *)
CallFails(d) ==
  /\ send[d].pc \in {"call", "answer"}
  /\ faults < MaxFaults /\ faults' = faults + 1
  /\ send' = [send EXCEPT ![d] = Retry(d)]
  /\ UNCHANGED <<clock, queued, rows, late, box, recvVars>>

(* The call is under way when its client gives it up, and is served later. *)
CallDelayed(d) ==
  /\ send[d].pc = "call"
  /\ faults < MaxFaults /\ faults' = faults + 1
  /\ late' = late \cup {[target |-> Target(d), msg |-> Outgoing(d)]}
  /\ send' = [send EXCEPT ![d] = Retry(d)]
  /\ UNCHANGED <<clock, queued, rows, box, recvVars>>

LateServe(c) ==
  /\ late' = late \ {c}
  /\ box' = [box EXCEPT ![c.target] = Append(@, c.msg)]
  /\ UNCHANGED <<clock, queued, rows, send, recvVars, faults>>

(* mark_message_sent, mark_message_failed                                  *)
Mark(d) ==
  /\ send[d].pc \in {"sent", "failed"}
  /\ rows' = [rows EXCEPT ![d][send[d].row].status =
                IF send[d].pc = "sent" THEN "received" ELSE "failed"]
  /\ send' = [send EXCEPT ![d] = IdleSend]
  /\ UNCHANGED <<clock, queued, late, box, recvVars, faults>>

(* A statement of send_loop_once fails: the loop starts over, and the row  *)
(* is still pending.                                                       *)
MarkFails(d) ==
  /\ send[d].pc \in {"sent", "failed"}
  /\ faults < MaxFaults /\ faults' = faults + 1
  /\ send' = [send EXCEPT ![d] = IdleSend]
  /\ UNCHANGED <<clock, queued, rows, late, box, recvVars>>

-----------------------------------------------------------------------------
(* The other party of the conversation.                                    *)
Peer(d, m) == IF UserOf[m.from] = UserOf[d] THEN m.to ELSE UserOf[m.from]

(* INSERT OR IGNORE                                                        *)
Insert(d, m) ==
  IF Taken(d, Peer(d, m), m.sentAt) THEN rows[d]
  ELSE Append(rows[d], [convo |-> Peer(d, m), msg |-> m, status |-> "received"])

HasEntry(d) == after[d] < Len(box[UserOf[d]])

(* process_mailbox_entry                                                   *)
Recv(d) ==
  /\ HasEntry(d)
  /\ after' = [after EXCEPT ![d] = @ + 1]
  /\ saved' = [saved EXCEPT ![d] = after'[d]]
  /\ rows' = [rows EXCEPT ![d] = Insert(d, box[UserOf[d]][after'[d]])]
  /\ UNCHANGED <<sendVars, failed, faults>>

(* It fails: before or after it has saved the cursor.  The loop goes on.   *)
RecvFails(d) ==
  /\ HasEntry(d)
  /\ faults < MaxFaults /\ faults' = faults + 1
  /\ after' = [after EXCEPT ![d] = @ + 1]
  /\ saved' \in {saved, [saved EXCEPT ![d] = after'[d]]}
  /\ failed' = failed \cup {<<d, after'[d]>>}
  /\ UNCHANGED <<sendVars, rows>>

(* The process ends and starts again.                                      *)
Crash(d) ==
  /\ faults < MaxFaults /\ faults' = faults + 1
  /\ send' = [send EXCEPT ![d] = IdleSend]
  /\ after' = [after EXCEPT ![d] = saved[d]]
  /\ UNCHANGED <<clock, queued, rows, late, box, saved, failed>>

Next ==
  \/ \E d \in Devices :
       \/ \E u \in Users : Queue(d, u)
       \/ SendPick(d) \/ Serve(d) \/ Answered(d) \/ CallFails(d) \/ CallDelayed(d)
       \/ Mark(d) \/ MarkFails(d)
       \/ Recv(d) \/ RecvFails(d) \/ Crash(d)
  \/ \E c \in late : LateServe(c)

Spec == Init /\ [][Next]_vars

-----------------------------------------------------------------------------
Holds(d, m) == \E i \in DOMAIN rows[d] : rows[d][i].msg = m
FirstAt(u, m) == CHOOSE n \in DOMAIN box[u] : box[u][n] = m /\ \A k \in 1 .. n - 1 : box[u][k] # m
Posted(u, m) == \E n \in DOMAIN box[u] : box[u][n] = m

(* The state is well typed, and a message has one row per device, however  *)
(* often its calls were repeated, carried out late or carried out twice.   *)
OneRowPerMessage ==
  /\ TypeOK
  /\ \A d \in Devices : \A i, j \in DOMAIN rows[d] :
       rows[d][i].msg.body = rows[d][j].msg.body => i = j

(* A message that its device has marked as sent is in the mailboxes of     *)
(* both users.                                                             *)
SentMeansPosted ==
  \A d \in Devices : \A i \in DOMAIN rows[d] :
    rows[d][i].msg.from = d /\ rows[d][i].status = "received"
      => Posted(rows[d][i].convo, rows[d][i].msg) /\ Posted(UserOf[d], rows[d][i].msg)

(* A device's messages reach a mailbox in the order in which it queued     *)
(* them, but for those it has given up.                                    *)
OrderKept ==
  \A d \in Devices, u \in Users : \A j \in DOMAIN rows[d] : \A i \in 1 .. j - 1 :
    LET m == rows[d][i].msg
        n == rows[d][j].msg
    IN  /\ m.from = d /\ n.from = d /\ rows[d][i].status # "failed"
        /\ u \in {m.to, UserOf[d]} /\ Posted(u, n)
        => Posted(u, m) /\ FirstAt(u, m) < FirstAt(u, n)

(* A device lacks a message behind its cursor only if processing failed    *)
(* each time it came, or if it has another message of that conversation    *)
(* with the very same sent_at.                                             *)
MissingOnlyIfFailedOrShadowed ==
  \A d \in Devices : \A n \in 1 .. after[d] :
    LET m == box[UserOf[d]][n]
    IN  ~Holds(d, m) =>
          \/ \A k \in 1 .. after[d] : box[UserOf[d]][k] = m => <<d, k>> \in failed
          \/ \E i \in DOMAIN rows[d] :
               rows[d][i].convo = Peer(d, m) /\ rows[d][i].msg.sentAt = m.sentAt

(* The tables of all devices implement the conversation they share.        *)
Numbered ==
  {[from |-> s[1], to |-> s[2], body |-> n] : s \in Sends, n \in 1 .. MaxQueued}
Number(m) == [from |-> m.from, to |-> m.to, body |-> m.body]
OwnRows(status) ==
  UNION {{Number(rows[d][i].msg) : i \in {j \in DOMAIN rows[d] :
            rows[d][j].msg.from = d /\ rows[d][j].status = status}} : d \in Devices}

Promise == INSTANCE Conversation
  WITH Msgs <- Numbered,
       pending <- OwnRows("pending"), sent <- OwnRows("received"), failed <- OwnRows("failed"),
       shown <- UNION {{<<d, Number(rows[d][i].msg)>> : i \in DOMAIN rows[d]} : d \in Devices}
ImplementsConversation == Promise!ConversationSpec
=============================================================================
