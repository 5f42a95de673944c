--------------------------- MODULE DeliveryProofs ----------------------------
(***************************************************************************)
(* Proofs about Delivery, for any users, devices, conversations, number of *)
(* tries and bounds.                                                       *)
(*                                                                         *)
(* Every copy of a message, in a mailbox, in a late call or in another     *)
(* device's table, is the copy of a row of the device that sent it         *)
(* (RowsOwned, CopiesOwned).  A send loop knows by its position which      *)
(* mailboxes have the message already (SendProgress), and nothing of a     *)
(* device leaves it while an older row is pending (OldestFirst).           *)
(***************************************************************************)
EXTENDS Delivery, WellFoundedInduction, SequenceTheorems, TLAPS

(* The device that sent m has it as a row.                                 *)
Own(m) == \E i \in DOMAIN rows[m.from] : rows[m.from][i].msg = m

Party(u, m) == u = m.to \/ u = UserOf[m.from]

(* What the rows of a device are.                                          *)
RowFits(d, r) ==
  /\ Own(r.msg) /\ r.convo = Peer(d, r.msg) /\ Party(UserOf[d], r.msg)
  /\ <<r.msg.from, r.msg.to>> \in Sends /\ r.msg.body \in 1 .. queued
  /\ r.msg.from # d => r.status = "received"

RowsOwned == \A d \in Devices : \A i \in DOMAIN rows[d] : RowFits(d, rows[d][i])

(* A body number names one message, and one row of a device.               *)
BodyNames ==
  /\ \A d, e \in Devices : \A i \in DOMAIN rows[d], j \in DOMAIN rows[e] :
       rows[d][i].msg.body = rows[e][j].msg.body => rows[d][i].msg = rows[e][j].msg
  /\ \A d \in Devices : \A i, j \in DOMAIN rows[d] :
       rows[d][i].msg.body = rows[d][j].msg.body => i = j

(* Entries and late calls carry messages of their senders to their parties.*)
CopiesOwned ==
  /\ \A u \in Users : \A n \in DOMAIN box[u] : Own(box[u][n]) /\ Party(u, box[u][n])
  /\ \A c \in late : Own(c.msg) /\ Party(c.target, c.msg)

(* The loop is at the oldest pending row, and its position tells where the *)
(* message is.                                                             *)
SendProgress ==
  \A d \in Devices : send[d] # IdleSend =>
    /\ send[d].row \in Pending(d)
    /\ \A i \in Pending(d) : send[d].row <= i
    /\ send[d].leg = "self" => Posted(Outgoing(d).to, Outgoing(d))
    /\ send[d].pc = "answer" => Posted(Target(d), Outgoing(d))
    /\ send[d].pc = "sent" =>
         Posted(Outgoing(d).to, Outgoing(d)) /\ Posted(UserOf[d], Outgoing(d))

(* Whatever has left a device, or may yet, has no older pending row.       *)
Left(m) == (\E u \in Users : Posted(u, m)) \/ (\E c \in late : c.msg = m)

OldestFirst ==
  \A d \in Devices : \A j \in DOMAIN rows[d] : \A i \in 1 .. j - 1 :
    rows[d][j].msg.from = d /\ Left(rows[d][j].msg) => rows[d][i].status # "pending"

(* m is in the mailbox of u before the first copy of n.                    *)
Precedes(u, m, n) ==
  \E k \in DOMAIN box[u] : box[u][k] = m /\ \A l \in 1 .. k : box[u][l] # n

InOrder ==
  \A d \in Devices, u \in Users : \A j \in DOMAIN rows[d] : \A i \in 1 .. j - 1 :
    LET m == rows[d][i].msg
        n == rows[d][j].msg
    IN  m.from = d /\ n.from = d /\ rows[d][i].status # "failed"
          /\ u \in {m.to, UserOf[d]} /\ Posted(u, n)
          => Precedes(u, m, n)

(* Cursors stay within the mailbox, and a saved one is not ahead.          *)
CursorsBehind ==
  \A d \in Devices : saved[d] <= after[d] /\ after[d] <= Len(box[UserOf[d]])

Inv ==
  /\ TypeOK /\ RowsOwned /\ BodyNames /\ CopiesOwned /\ SendProgress /\ SentMeansPosted
  /\ OldestFirst /\ InOrder /\ CursorsBehind /\ MissingOnlyIfFailedOrShadowed
-----------------------------------------------------------------------------
(* A set of positions that is not empty has a first one.                   *)
LEMMA LeastElement ==
  ASSUME NEW S \in SUBSET Nat, S # {}
  PROVE  \E x \in S : \A y \in S : x <= y
<1>1. PICK x \in S : \A y \in S : <<y, x>> \notin OpToRel(<, Nat)
  BY NatLessThanWellFounded, WFMin
<1>2. \A y \in S : ~(y < x)
  BY <1>1 DEF OpToRel
<1> QED BY <1>2

(* What the state of a send loop holds, by its pc.                         *)
LEMMA SendShape ==
  ASSUME NEW x \in SendState
  PROVE  /\ x # IdleSend <=> x.pc \in {"call", "answer", "sent", "failed"}
         /\ x # IdleSend =>
              /\ x.row \in Nat /\ x.leg \in {"peer", "self"} /\ x.try \in 1 .. MaxTries
BY DEF SendState, IdleSend

(* One position of a sequence after an append.                             *)
LEMMA AppendAt ==
  ASSUME NEW S, NEW q \in Seq(S), NEW x \in S
  PROVE  /\ Append(q, x) \in Seq(S)
         /\ DOMAIN q = 1 .. Len(q) /\ Len(q) \in Nat
         /\ DOMAIN Append(q, x) = 1 .. Len(q) + 1
         /\ Len(Append(q, x)) = Len(q) + 1
         /\ \A i \in 1 .. Len(q) : Append(q, x)[i] = q[i]
         /\ Append(q, x)[Len(q) + 1] = x
BY AppendProperties, LenProperties

(* The message of a loop under way is one of its device's rows.            *)
LEMMA OutgoingRow ==
  ASSUME Inv, NEW d \in Devices, send[d] # IdleSend
  PROVE  /\ send[d].row \in DOMAIN rows[d] /\ rows[d][send[d].row] \in Row
         /\ rows[d][send[d].row].status = "pending"
         /\ Outgoing(d) \in Msg /\ Outgoing(d).from = d /\ Outgoing(d).to \in Users
         /\ Own(Outgoing(d))
         /\ Target(d) \in Users /\ Party(Target(d), Outgoing(d))
<1>1. send[d].row \in DOMAIN rows[d] /\ rows[d][send[d].row].status = "pending"
  BY DEF Inv, SendProgress, Pending
<1>2. rows[d][send[d].row] \in Row
  BY <1>1, ElementOfSeq, LenProperties DEF Inv, TypeOK
<1>3. Outgoing(d) \in Msg /\ Outgoing(d).to \in Users
  BY <1>2 DEF Outgoing, Row, Msg
<1>4. Own(Outgoing(d)) /\ Outgoing(d).from = d
  BY <1>1 DEF Inv, RowsOwned, RowFits, Outgoing
<1>5. Target(d) \in Users /\ Party(Target(d), Outgoing(d))
  BY <1>3, <1>4, UserOfType DEF Target, Party
<1> QED BY <1>1, <1>2, <1>3, <1>4, <1>5

(* Every step of a send loop but an idle one leads to a typed state.       *)
LEMMA NextSendState ==
  ASSUME Inv, NEW d \in Devices, send[d] # IdleSend
  PROVE  /\ AfterAnswer(d) \in SendState /\ Retry(d) \in SendState
         /\ [send[d] EXCEPT !.pc = "answer"] \in SendState
<1>1. send[d] \in SendState
  BY DEF Inv, TypeOK
<1>2. send[d] \in [pc : {"call", "answer", "sent", "failed"}, row : Nat, leg : {"peer", "self"},
                   try : 1 .. MaxTries]
  BY <1>1 DEF SendState
<1>3. AfterAnswer(d) \in SendState
  BY <1>2 DEF AfterAnswer, SendState
<1>4. Retry(d) \in SendState
  <2>1. CASE send[d].try < MaxTries
    <3>1. send[d].try + 1 \in 1 .. MaxTries
      BY <1>2, <2>1, MaxTriesPositive
    <3> QED BY <1>2, <2>1, <3>1 DEF Retry, SendState
  <2>2. CASE ~(send[d].try < MaxTries)
    BY <1>2, <2>2 DEF Retry, SendState
  <2> QED BY <2>1, <2>2
<1>5. [send[d] EXCEPT !.pc = "answer"] \in SendState
  BY <1>2 DEF SendState
<1> QED BY <1>3, <1>4, <1>5

(* An entry behind or at the cursor is a message.                          *)
LEMMA EntryIsMsg ==
  ASSUME Inv, NEW u \in Users, NEW n \in 1 .. Len(box[u])
  PROVE  n \in DOMAIN box[u] /\ box[u][n] \in Msg /\ Own(box[u][n]) /\ Party(u, box[u][n])
BY ElementOfSeq, LenProperties DEF Inv, TypeOK, CopiesOwned
-----------------------------------------------------------------------------
(* What the steps do to the tables and mailboxes.  Rows and entries are    *)
(* only appended, and a row only changes its status.                       *)
RowsKept ==
  \A d \in Devices :
    /\ Len(rows[d]) <= Len(rows'[d])
    /\ \A i \in 1 .. Len(rows[d]) :
         rows'[d][i].msg = rows[d][i].msg /\ rows'[d][i].convo = rows[d][i].convo

BoxKept ==
  \A u \in Users :
    /\ Len(box[u]) <= Len(box'[u])
    /\ \A n \in 1 .. Len(box[u]) : box'[u][n] = box[u][n]

(* One row more at device d.                                               *)
Adds(d, row) ==
  /\ rows'[d] \in Seq(Row) /\ Len(rows'[d]) = Len(rows[d]) + 1
  /\ rows'[d][Len(rows[d]) + 1] = row
  /\ \A i \in 1 .. Len(rows[d]) : rows'[d][i] = rows[d][i]
  /\ \A e \in Devices \ {d} : rows'[e] = rows[e]

(* One entry more in the mailbox of u.                                     *)
Posts(u, m) ==
  /\ box' \in [Users -> Seq(Msg)] /\ Len(box'[u]) = Len(box[u]) + 1
  /\ box'[u][Len(box[u]) + 1] = m
  /\ \A n \in 1 .. Len(box[u]) : box'[u][n] = box[u][n]
  /\ \A v \in Users \ {u} : box'[v] = box[v]

LEMMA RowsDomain == TypeOK => \A d \in Devices : DOMAIN rows[d] = 1 .. Len(rows[d]) /\ Len(rows[d]) \in Nat
BY LenProperties DEF TypeOK

LEMMA BoxDomain == TypeOK => \A u \in Users : DOMAIN box[u] = 1 .. Len(box[u]) /\ Len(box[u]) \in Nat
BY LenProperties DEF TypeOK

LEMMA AddsKeeps ==
  ASSUME TypeOK, NEW d \in Devices, NEW row \in Row, Adds(d, row)
  PROVE  RowsKept
BY RowsDomain DEF Adds, RowsKept

LEMMA PostsKeeps ==
  ASSUME TypeOK, NEW u \in Users, NEW m, Posts(u, m)
  PROVE  BoxKept
BY BoxDomain DEF Posts, BoxKept

(* An append to one table or one mailbox.                                  *)
LEMMA AppendAdds ==
  ASSUME TypeOK, NEW d \in Devices, NEW row \in Row,
         rows' = [rows EXCEPT ![d] = Append(rows[d], row)]
  PROVE  Adds(d, row) /\ rows' \in [Devices -> Seq(Row)]
<1>1. rows[d] \in Seq(Row)
  BY DEF TypeOK
<1>2. rows'[d] = Append(rows[d], row) /\ \A e \in Devices \ {d} : rows'[e] = rows[e]
  BY DEF TypeOK
<1>3. Adds(d, row)
  BY <1>1, <1>2, AppendAt DEF Adds
<1> QED BY <1>1, <1>3, AppendAt DEF TypeOK

LEMMA AppendPosts ==
  ASSUME TypeOK, NEW u \in Users, NEW m \in Msg,
         box' = [box EXCEPT ![u] = Append(box[u], m)]
  PROVE  Posts(u, m)
<1>1. box[u] \in Seq(Msg)
  BY DEF TypeOK
<1>2. box'[u] = Append(box[u], m) /\ \A v \in Users \ {u} : box'[v] = box[v]
  BY DEF TypeOK
<1>3. box' \in [Users -> Seq(Msg)]
  BY <1>1, AppendAt DEF TypeOK
<1> QED BY <1>1, <1>2, <1>3, AppendAt DEF Posts

(* A row that a loop ends with only changes its status.                    *)
LEMMA MarkRow ==
  ASSUME Inv, NEW d \in Devices, Mark(d)
  PROVE  /\ rows' \in [Devices -> Seq(Row)]
         /\ \A e \in Devices : Len(rows'[e]) = Len(rows[e])
         /\ \A e \in Devices : \A i \in 1 .. Len(rows[e]) :
              /\ rows'[e][i].msg = rows[e][i].msg /\ rows'[e][i].convo = rows[e][i].convo
              /\ rows'[e][i].status =
                   IF e = d /\ i = send[d].row
                     THEN IF send[d].pc = "sent" THEN "received" ELSE "failed"
                     ELSE rows[e][i].status
<1> DEFINE k == send[d].row
           st == IF send[d].pc = "sent" THEN "received" ELSE "failed"
           row == [rows[d][k] EXCEPT !.status = st]
           table == [rows[d] EXCEPT ![k] = row]
<1>0. send[d] # IdleSend
  BY SendShape DEF Mark, Inv, TypeOK
<1>1. k \in 1 .. Len(rows[d]) /\ rows[d][k] \in Row /\ rows[d] \in Seq(Row)
  BY <1>0, OutgoingRow, RowsDomain DEF Inv, TypeOK
<1>2. row \in Row /\ row.msg = rows[d][k].msg /\ row.convo = rows[d][k].convo /\ row.status = st
  BY <1>1 DEF Row
<1>3. rows' = [rows EXCEPT ![d] = table]
  BY DEF Mark
<1> HIDE DEF row
<1>4. /\ table \in Seq(Row) /\ Len(table) = Len(rows[d])
      /\ \A i \in 1 .. Len(rows[d]) : table[i] = IF i = k THEN row ELSE rows[d][i]
  BY <1>1, <1>2, ExceptSeq
<1> HIDE DEF table
<1>5. rows'[d] = table /\ \A e \in Devices \ {d} : rows'[e] = rows[e]
  BY <1>3 DEF Inv, TypeOK
<1>6. rows' \in [Devices -> Seq(Row)]
  BY <1>3, <1>4 DEF Inv, TypeOK
<1> HIDE DEF k, st
<1> QED BY <1>2, <1>4, <1>5, <1>6, SMTT(60) DEF k, st
-----------------------------------------------------------------------------
(* What each kind of step does, as far as the invariant cares.             *)
NewRow(d, u) ==
  [convo |-> u, status |-> "pending",
   msg |-> [from |-> d, to |-> u, sentAt |-> clock', body |-> queued + 1]]

LEMMA QueueEffect ==
  ASSUME Inv, NEW d \in Devices, NEW u \in Users, Queue(d, u)
  PROVE  /\ NewRow(d, u) \in Row /\ Adds(d, NewRow(d, u)) /\ rows' \in [Devices -> Seq(Row)]
         /\ <<d, u>> \in Sends /\ queued' = queued + 1 /\ queued \in Nat /\ clock' \in Nat
         /\ UNCHANGED <<send, late, box, recvVars, faults>>
<1>1. /\ <<d, u>> \in Sends /\ queued' = queued + 1 /\ queued \in Nat
      /\ UNCHANGED <<send, late, box, recvVars, faults>>
      /\ rows' = [rows EXCEPT ![d] = Append(rows[d], NewRow(d, u))]
  BY DEF Queue, NewRow, Inv, TypeOK
<1>2. clock' \in Nat
  BY BoundsAreNat DEF Queue, Inv, TypeOK
<1>3. NewRow(d, u) \in Row
  BY <1>1, <1>2 DEF NewRow, Row, Msg
<1>4. Adds(d, NewRow(d, u)) /\ rows' \in [Devices -> Seq(Row)]
  BY <1>1, <1>3, AppendAdds DEF Inv
<1> QED BY <1>1, <1>2, <1>3, <1>4

(* The entry that the receive loop is at.                                  *)
Entry(d) == box[UserOf[d]][after[d] + 1]
Copy(d) == [convo |-> Peer(d, Entry(d)), msg |-> Entry(d), status |-> "received"]

LEMMA RecvEntry ==
  ASSUME Inv, NEW d \in Devices, HasEntry(d)
  PROVE  /\ after[d] \in Nat /\ after[d] + 1 \in 1 .. Len(box[UserOf[d]])
         /\ UserOf[d] \in Users
         /\ Entry(d) \in Msg /\ Own(Entry(d)) /\ Party(UserOf[d], Entry(d))
         /\ Copy(d) \in Row
<1>1. UserOf[d] \in Users /\ Len(box[UserOf[d]]) \in Nat
  BY UserOfType, BoxDomain DEF Inv
<1>2. after[d] \in Nat /\ after[d] + 1 \in 1 .. Len(box[UserOf[d]])
  BY <1>1 DEF Inv, TypeOK, HasEntry
<1>3. Entry(d) \in Msg /\ Own(Entry(d)) /\ Party(UserOf[d], Entry(d))
  BY <1>1, <1>2, EntryIsMsg DEF Entry
<1>4. Peer(d, Entry(d)) \in Users
  BY <1>3, UserOfType DEF Peer, Msg
<1> QED BY <1>1, <1>2, <1>3, <1>4 DEF Copy, Row

LEMMA RecvEffect ==
  ASSUME Inv, NEW d \in Devices, Recv(d)
  PROVE  /\ \/ Taken(d, Peer(d, Entry(d)), Entry(d).sentAt) /\ rows' = rows
            \/ ~Taken(d, Peer(d, Entry(d)), Entry(d).sentAt) /\ Adds(d, Copy(d))
         /\ rows' \in [Devices -> Seq(Row)]
         /\ after' = [after EXCEPT ![d] = after[d] + 1]
         /\ saved' = [saved EXCEPT ![d] = after[d] + 1]
         /\ UNCHANGED <<sendVars, failed, faults>>
<1>1. /\ after' = [after EXCEPT ![d] = after[d] + 1] /\ after'[d] = after[d] + 1
      /\ saved' = [saved EXCEPT ![d] = after[d] + 1]
      /\ UNCHANGED <<sendVars, failed, faults>>
      /\ rows' = [rows EXCEPT ![d] = Insert(d, Entry(d))]
  BY DEF Recv, Inv, TypeOK, Entry
<1>2. CASE Taken(d, Peer(d, Entry(d)), Entry(d).sentAt)
  <2>1. rows' = rows
    BY <1>1, <1>2 DEF Insert, Inv, TypeOK
  <2> QED BY <1>1, <1>2, <2>1 DEF Inv, TypeOK
<1>3. CASE ~Taken(d, Peer(d, Entry(d)), Entry(d).sentAt)
  <2>1. rows' = [rows EXCEPT ![d] = Append(rows[d], Copy(d))]
    BY <1>1, <1>3 DEF Insert, Copy
  <2>2. Copy(d) \in Row
    BY RecvEntry DEF Recv
  <2> QED BY <1>1, <1>3, <2>1, <2>2, AppendAdds DEF Inv
<1> QED BY <1>2, <1>3

LEMMA ServeEffect ==
  ASSUME Inv, NEW d \in Devices, Serve(d)
  PROVE  /\ send[d] # IdleSend /\ send[d].pc = "call"
         /\ Target(d) \in Users /\ Outgoing(d) \in Msg /\ Posts(Target(d), Outgoing(d))
         /\ send' = [send EXCEPT ![d] = [send[d] EXCEPT !.pc = "answer"]]
         /\ UNCHANGED <<clock, queued, rows, late, recvVars, faults>>
<1>1. send[d] # IdleSend
  BY SendShape DEF Serve, Inv, TypeOK
<1> QED BY <1>1, OutgoingRow, AppendPosts DEF Serve, Inv

LEMMA LateEffect ==
  ASSUME Inv, NEW c \in late, LateServe(c)
  PROVE  /\ c.target \in Users /\ c.msg \in Msg /\ Posts(c.target, c.msg)
         /\ late' = late \ {c}
         /\ UNCHANGED <<clock, queued, rows, send, recvVars, faults>>
BY AppendPosts DEF LateServe, Inv, TypeOK
-----------------------------------------------------------------------------
(* The first state satisfies the invariant.                                *)
LEMMA InitInv == Init => Inv
<1> SUFFICES ASSUME Init PROVE Inv
  OBVIOUS
<1>1. /\ \A d \in Devices : rows[d] = <<>> /\ DOMAIN rows[d] = {} /\ send[d] = IdleSend
      /\ \A u \in Users : box[u] = <<>> /\ DOMAIN box[u] = {} /\ Len(box[u]) = 0
      /\ late = {}
  BY DEF Init
<1>2. TypeOK
  BY DEF Init, TypeOK, SendState
<1>3. RowsOwned /\ BodyNames /\ CopiesOwned /\ SendProgress /\ SentMeansPosted
  BY <1>1 DEF RowsOwned, BodyNames, CopiesOwned, SendProgress, SentMeansPosted
<1>4. OldestFirst /\ InOrder
  BY <1>1 DEF OldestFirst, InOrder
<1>5. CursorsBehind /\ MissingOnlyIfFailedOrShadowed
  BY <1>1, UserOfType DEF Init, CursorsBehind, MissingOnlyIfFailedOrShadowed
<1> QED BY <1>2, <1>3, <1>4, <1>5 DEF Inv

(* Every step keeps the state well typed.                                  *)
LEMMA TypeStep == Inv /\ [Next]_vars => TypeOK'
<1> SUFFICES ASSUME Inv, [Next]_vars PROVE TypeOK'
  OBVIOUS
<1>0. TypeOK
  BY DEF Inv
<1>1. CASE UNCHANGED vars
  BY <1>0, <1>1 DEF TypeOK, vars, sendVars, recvVars
<1>2. ASSUME NEW d \in Devices, NEW u \in Users, Queue(d, u) PROVE TypeOK'
  <2>1. /\ rows' \in [Devices -> Seq(Row)] /\ queued' = queued + 1 /\ queued \in Nat
        /\ clock' \in Nat /\ UNCHANGED <<send, late, box, recvVars, faults>>
    BY <1>2, QueueEffect
  <2>2. {clock', queued', faults'} \subseteq Nat
    BY <1>0, <2>1 DEF TypeOK
  <2> QED BY <1>0, <2>1, <2>2 DEF TypeOK, recvVars
<1>3. ASSUME NEW d \in Devices, SendPick(d) PROVE TypeOK'
  <2>1. Pending(d) \subseteq Nat
    BY <1>0, RowsDomain DEF Pending
  <2>2. NextPending(d) \in Pending(d)
    <3>1. \E i \in Pending(d) : \A j \in Pending(d) : i <= j
      <4>1. Pending(d) # {}
        BY <1>3 DEF SendPick
      <4> HIDE DEF Pending
      <4> QED BY <2>1, <4>1, LeastElement
    <3> QED BY <3>1 DEF NextPending
  <2>3. [pc |-> "call", row |-> NextPending(d), leg |-> "peer", try |-> 1] \in SendState
    BY <2>1, <2>2, MaxTriesPositive DEF SendState
  <2> QED BY <1>0, <1>3, <2>3 DEF SendPick, TypeOK, recvVars
<1>4. ASSUME NEW d \in Devices, Serve(d) PROVE TypeOK'
  <2>1. send' \in [Devices -> SendState]
    BY <1>0, <1>4, ServeEffect, NextSendState DEF TypeOK
  <2> QED BY <1>0, <1>4, <2>1, ServeEffect, SMTT(60) DEF Posts, TypeOK, recvVars
<1>5. ASSUME NEW d \in Devices, Answered(d) \/ CallFails(d) \/ CallDelayed(d) PROVE TypeOK'
  <2>1. send[d] # IdleSend
    BY <1>0, <1>5, SendShape DEF TypeOK, Answered, CallFails, CallDelayed
  <2>2. [target |-> Target(d), msg |-> Outgoing(d)] \in [target : Users, msg : Msg]
    BY <2>1, OutgoingRow
  <2>3. send' \in [Devices -> SendState]
    BY <1>0, <1>5, <2>1, NextSendState DEF TypeOK, Answered, CallFails, CallDelayed
  <2>4. late' \in SUBSET [target : Users, msg : Msg]
    BY <1>0, <1>5, <2>2 DEF TypeOK, Answered, CallFails, CallDelayed
  <2> QED BY <1>0, <1>5, <2>3, <2>4 DEF TypeOK, Answered, CallFails, CallDelayed, recvVars
<1>6. ASSUME NEW d \in Devices, Mark(d) PROVE TypeOK'
  <2>1. send' \in [Devices -> SendState]
    BY <1>0, <1>6 DEF TypeOK, Mark, SendState
  <2> QED BY <1>0, <1>6, <2>1, MarkRow DEF TypeOK, Mark, recvVars
<1>7. ASSUME NEW d \in Devices, MarkFails(d) \/ Crash(d) PROVE TypeOK'
  <2>0. send' = [send EXCEPT ![d] = IdleSend] /\ faults' = faults + 1
    BY <1>7 DEF MarkFails, Crash
  <2>1. send' \in [Devices -> SendState] /\ faults' \in Nat
    BY <1>0, <2>0 DEF TypeOK, SendState
  <2>2. after' \in [Devices -> Nat] /\ saved' = saved /\ failed' = failed
    BY <1>0, <1>7 DEF TypeOK, MarkFails, Crash, recvVars
  <2> QED BY <1>0, <1>7, <2>1, <2>2 DEF TypeOK, MarkFails, Crash
<1>8. ASSUME NEW d \in Devices, Recv(d) PROVE TypeOK'
  <2>1. /\ rows' \in [Devices -> Seq(Row)]
        /\ after' = [after EXCEPT ![d] = after[d] + 1]
        /\ saved' = [saved EXCEPT ![d] = after[d] + 1]
        /\ UNCHANGED <<sendVars, failed, faults>>
    BY <1>8, RecvEffect
  <2>2. after' \in [Devices -> Nat] /\ saved' \in [Devices -> Nat]
    BY <1>0, <2>1 DEF TypeOK
  <2> QED BY <1>0, <2>1, <2>2 DEF TypeOK, sendVars
<1>9. ASSUME NEW d \in Devices, RecvFails(d) PROVE TypeOK'
  BY <1>0, <1>9, SMTT(60) DEF TypeOK, RecvFails, sendVars
<1>10. ASSUME NEW c \in late, LateServe(c) PROVE TypeOK'
  BY <1>0, <1>10, LateEffect DEF TypeOK, Posts, recvVars
<1> QED
  BY <1>1, <1>2, <1>3, <1>4, <1>5, <1>6, <1>7, <1>8, <1>9, <1>10 DEF Next

(* The tables and mailboxes after a step.                                  *)
LEMMA StepKinds ==
  ASSUME Inv, [Next]_vars
  PROVE  /\ \/ \E d \in Devices, u \in Users : Queue(d, u)
            \/ \E d \in Devices : Mark(d) /\ queued' = queued /\ box' = box
            \/ \E d \in Devices : Recv(d) /\ queued' = queued /\ box' = box
            \/ rows' = rows /\ queued' = queued
         /\ \/ \E d \in Devices : Serve(d)
            \/ \E c \in late : LateServe(c)
            \/ box' = box
BY DEF Next, vars, sendVars, recvVars, Queue, SendPick, Serve, Answered, CallFails, CallDelayed,
       Mark, MarkFails, Recv, RecvFails, Crash, LateServe

LEMMA StepKeeps ==
  ASSUME Inv, [Next]_vars
  PROVE  RowsKept /\ BoxKept
<1>1. RowsKept
  <2>1. CASE \E d \in Devices, u \in Users : Queue(d, u)
    BY <2>1, QueueEffect, AddsKeeps DEF Inv
  <2>2. CASE \E d \in Devices : Mark(d)
    BY <2>2, MarkRow, RowsDomain DEF Inv, RowsKept
  <2>3. ASSUME NEW d \in Devices, Recv(d) PROVE RowsKept
    <3>1. Copy(d) \in Row
      BY <2>3, RecvEntry DEF Recv
    <3>2. CASE rows' = rows
      BY <3>2, RowsDomain DEF Inv, RowsKept
    <3> QED BY <2>3, <3>1, <3>2, RecvEffect, AddsKeeps DEF Inv
  <2>4. CASE rows' = rows
    BY <2>4, RowsDomain DEF Inv, RowsKept
  <2> QED BY <2>1, <2>2, <2>3, <2>4, StepKinds
<1>2. BoxKept
  <2>1. CASE \E d \in Devices : Serve(d)
    BY <2>1, ServeEffect, PostsKeeps DEF Inv
  <2>2. CASE \E c \in late : LateServe(c)
    BY <2>2, LateEffect, PostsKeeps DEF Inv
  <2>3. CASE box' = box
    BY <2>3, BoxDomain DEF Inv, BoxKept
  <2> QED BY <2>1, <2>2, <2>3, StepKinds
<1> QED BY <1>1, <1>2
-----------------------------------------------------------------------------
LEMMA NextDomains ==
  ASSUME TypeOK'
  PROVE  /\ \A d \in Devices : DOMAIN rows'[d] = 1 .. Len(rows'[d]) /\ Len(rows'[d]) \in Nat
         /\ \A u \in Users : DOMAIN box'[u] = 1 .. Len(box'[u]) /\ Len(box'[u]) \in Nat
BY LenProperties DEF TypeOK

(* Rows stay the rows of their senders.                                    *)
LEMMA OwnKept ==
  ASSUME Inv, TypeOK', RowsKept
  PROVE  \A m \in Msg : Own(m) => \E i \in DOMAIN rows'[m.from] : rows'[m.from][i].msg = m
<1> SUFFICES ASSUME NEW m \in Msg, Own(m)
             PROVE  \E i \in DOMAIN rows'[m.from] : rows'[m.from][i].msg = m
  OBVIOUS
<1>1. m.from \in Devices
  BY DEF Msg
<1>2. PICK i \in 1 .. Len(rows[m.from]) : rows[m.from][i].msg = m
  BY <1>1, RowsDomain DEF Inv, Own
<1>3. i \in 1 .. Len(rows'[m.from]) /\ rows'[m.from][i].msg = m
  <2>1. /\ Len(rows[m.from]) \in Nat /\ Len(rows'[m.from]) \in Nat
        /\ Len(rows[m.from]) <= Len(rows'[m.from])
    BY <1>1, RowsDomain, NextDomains DEF Inv, RowsKept
  <2> QED BY <1>1, <1>2, <2>1 DEF RowsKept
<1> QED BY <1>1, <1>3, NextDomains

(* A row that is there already.                                            *)
LEMMA RowFacts ==
  ASSUME Inv, NEW d \in Devices, NEW i \in 1 .. Len(rows[d])
  PROVE  /\ rows[d][i] \in Row /\ rows[d][i].msg \in Msg /\ i \in DOMAIN rows[d]
         /\ RowFits(d, rows[d][i])
<1>1. i \in DOMAIN rows[d] /\ rows[d][i] \in Row
  BY ElementOfSeq, LenProperties DEF Inv, TypeOK
<1> QED BY <1>1 DEF Inv, RowsOwned, Row

(* What Own says of a message: it was sent in a conversation of Sends.     *)
LEMMA OwnFacts ==
  ASSUME Inv, NEW m \in Msg, Own(m)
  PROVE  /\ m.from \in Devices /\ <<m.from, m.to>> \in Sends /\ m.body \in 1 .. queued
         /\ \E i \in 1 .. Len(rows[m.from]) : rows[m.from][i].msg = m
<1>1. m.from \in Devices
  BY DEF Msg
<1>2. PICK i \in 1 .. Len(rows[m.from]) : rows[m.from][i].msg = m
  BY <1>1, RowsDomain DEF Inv, Own
<1> QED BY <1>1, <1>2, RowFacts DEF RowFits

LEMMA RowsOwnedStep ==
  ASSUME Inv, [Next]_vars
  PROVE  RowsOwned'
<1>0. TypeOK' /\ RowsKept /\ TypeOK
  BY TypeStep, StepKeeps DEF Inv
<1>1. SUFFICES ASSUME NEW d \in Devices, NEW i \in 1 .. Len(rows'[d])
               PROVE  RowFits(d, rows[d][i])'
  BY <1>0, NextDomains DEF RowsOwned
<1>2. queued \in Nat
  BY <1>0 DEF TypeOK
<1>3. ASSUME i \in 1 .. Len(rows[d]), queued' = queued \/ queued' = queued + 1,
             rows'[d][i].status = rows[d][i].status \/ rows[d][i].msg.from = d
      PROVE  RowFits(d, rows[d][i])'
  <2>1. rows'[d][i].msg = rows[d][i].msg /\ rows'[d][i].convo = rows[d][i].convo
    BY <1>0, <1>3 DEF RowsKept
  <2>2. RowFits(d, rows[d][i]) /\ rows[d][i].msg \in Msg
    BY <1>3, RowFacts
  <2>3. Own(rows[d][i].msg)'
    <3>1. Own(rows[d][i].msg)
      BY <2>2 DEF RowFits
    <3> DEFINE m == rows[d][i].msg
    <3>2. \E j \in DOMAIN rows'[m.from] : rows'[m.from][j].msg = m
      BY <1>0, <2>2, <3>1, OwnKept
    <3> QED BY <2>1, <3>2 DEF Own
  <2>4. rows'[d][i].msg.body \in 1 .. queued'
    BY <1>2, <1>3, <2>1, <2>2 DEF RowFits
  <2> QED BY <1>3, <2>1, <2>2, <2>3, <2>4 DEF RowFits, Peer, Party
<1>4. ASSUME NEW e \in Devices, NEW u \in Users, Queue(e, u)
      PROVE  RowFits(d, rows[d][i])'
  <2>1. /\ Adds(e, NewRow(e, u)) /\ <<e, u>> \in Sends /\ queued' = queued + 1
    BY <1>4, QueueEffect
  <2>2. CASE i \in 1 .. Len(rows[d])
    BY <1>0, <1>3, <2>1, <2>2 DEF Adds
  <2>3. CASE ~(i \in 1 .. Len(rows[d]))
    <3>1. d = e /\ i = Len(rows[d]) + 1 /\ rows'[d][i] = NewRow(d, u)
      BY <1>0, <2>1, <2>3, RowsDomain DEF Adds
    <3>2. i \in DOMAIN rows'[d]
      BY <1>0, NextDomains
    <3>3. Own(rows[d][i].msg)'
      BY <3>1, <3>2 DEF NewRow, Own
    <3> QED BY <1>2, <2>1, <3>1, <3>3 DEF NewRow, RowFits, Peer, Party
  <2> QED BY <2>2, <2>3
<1>5. ASSUME NEW e \in Devices, Mark(e), queued' = queued
      PROVE  RowFits(d, rows[d][i])'
  <2>1. send[e] # IdleSend
    BY <1>0, <1>5, SendShape DEF Mark, TypeOK
  <2>2. i \in 1 .. Len(rows[d])
    BY <1>5, MarkRow
  <2>3. rows'[d][i].status = rows[d][i].status \/ rows[d][i].msg.from = d
    BY <1>5, <2>1, <2>2, MarkRow, OutgoingRow DEF Outgoing
  <2> QED BY <1>3, <1>5, <2>2, <2>3
<1>6. ASSUME NEW e \in Devices, Recv(e), queued' = queued, rows' # rows
      PROVE  RowFits(d, rows[d][i])'
  <2>1. Adds(e, Copy(e))
    BY <1>6, RecvEffect
  <2>2. CASE i \in 1 .. Len(rows[d])
    BY <1>0, <1>3, <1>6, <2>1, <2>2 DEF Adds
  <2>3. CASE ~(i \in 1 .. Len(rows[d]))
    <3>1. d = e /\ i = Len(rows[d]) + 1 /\ rows'[d][i] = Copy(d)
      BY <1>0, <2>1, <2>3, RowsDomain DEF Adds
    <3>2. Entry(d) \in Msg /\ Own(Entry(d)) /\ Party(UserOf[d], Entry(d))
      BY <1>6, <3>1, RecvEntry DEF Recv
    <3>3. Own(rows[d][i].msg)'
      <4>1. rows'[d][i].msg = Entry(d)
        BY <3>1 DEF Copy
      <4>2. \E j \in DOMAIN rows'[Entry(d).from] : rows'[Entry(d).from][j].msg = Entry(d)
        BY <1>0, <3>2, OwnKept
      <4> QED BY <4>1, <4>2 DEF Own
    <3>4. <<Entry(d).from, Entry(d).to>> \in Sends /\ Entry(d).body \in 1 .. queued
      BY <3>2, OwnFacts
    <3> QED BY <1>6, <3>1, <3>2, <3>3, <3>4 DEF Copy, RowFits, Peer, Party
  <2> QED BY <2>2, <2>3
<1>7. CASE rows' = rows /\ queued' = queued
  BY <1>0, <1>3, <1>7
<1> QED BY <1>4, <1>5, <1>6, <1>7, StepKinds
(* Where the rows of a device come from.                                   *)
LEMMA RowsFrom ==
  ASSUME Inv, [Next]_vars, NEW d \in Devices, NEW i \in 1 .. Len(rows'[d])
  PROVE  \/ i \in 1 .. Len(rows[d]) /\ rows'[d][i].msg = rows[d][i].msg
         \/ /\ \E u \in Users : Queue(d, u) /\ rows'[d][i] = NewRow(d, u)
            /\ i = Len(rows[d]) + 1
         \/ /\ Recv(d) /\ rows'[d][i] = Copy(d) /\ i = Len(rows[d]) + 1
            /\ ~Taken(d, Peer(d, Entry(d)), Entry(d).sentAt)
<1>0. TypeOK' /\ RowsKept /\ TypeOK
  BY TypeStep, StepKeeps DEF Inv
<1>1. CASE i \in 1 .. Len(rows[d])
  BY <1>0, <1>1 DEF RowsKept
<1>2. CASE ~(i \in 1 .. Len(rows[d]))
  <2>1. Len(rows'[d]) # Len(rows[d])
    BY <1>2
  <2>2. ASSUME NEW e \in Devices, NEW u \in Users, Queue(e, u)
        PROVE  e = d /\ rows'[d][i] = NewRow(d, u) /\ i = Len(rows[d]) + 1
    <3>1. Adds(e, NewRow(e, u))
      BY <2>2, QueueEffect
    <3> QED BY <1>0, <1>2, <2>1, <3>1, RowsDomain DEF Adds
  <2>3. ASSUME NEW e \in Devices, Mark(e) PROVE FALSE
    BY <2>1, <2>3, MarkRow
  <2>4. ASSUME NEW e \in Devices, Recv(e)
        PROVE  /\ e = d /\ rows'[d][i] = Copy(d) /\ i = Len(rows[d]) + 1
               /\ ~Taken(d, Peer(d, Entry(d)), Entry(d).sentAt)
    <3>1. Adds(e, Copy(e)) /\ ~Taken(e, Peer(e, Entry(e)), Entry(e).sentAt)
      BY <2>1, <2>4, RecvEffect
    <3> QED BY <1>0, <1>2, <2>1, <3>1, RowsDomain DEF Adds
  <2> QED BY <2>1, <2>2, <2>3, <2>4, StepKinds
<1> QED BY <1>1, <1>2

(* INSERT OR IGNORE on the index adds no row for a message that is there.  *)
LEMMA CopyIsNew ==
  ASSUME Inv, NEW d \in Devices, Recv(d), ~Taken(d, Peer(d, Entry(d)), Entry(d).sentAt),
         NEW i \in 1 .. Len(rows[d])
  PROVE  rows[d][i].msg # Entry(d) /\ rows[d][i].msg.body # Entry(d).body
<1>1. rows[d][i].msg # Entry(d)
  BY RowFacts DEF Taken, RowFits
<1>2. Entry(d) \in Msg /\ Own(Entry(d))
  BY RecvEntry DEF Recv
<1>3. PICK j \in 1 .. Len(rows[Entry(d).from]) : rows[Entry(d).from][j].msg = Entry(d)
  BY <1>2, OwnFacts
<1>4. Entry(d).from \in Devices
  BY <1>2, OwnFacts
<1>5. i \in DOMAIN rows[d] /\ j \in DOMAIN rows[Entry(d).from]
  BY <1>3, <1>4, RowsDomain DEF Inv
<1> QED BY <1>1, <1>3, <1>4, <1>5 DEF Inv, BodyNames

LEMMA BodyNamesStep ==
  ASSUME Inv, [Next]_vars
  PROVE  BodyNames'
<1>0. TypeOK' /\ RowsKept /\ TypeOK
  BY TypeStep, StepKeeps DEF Inv
<1> DEFINE Old(m) == m \in Msg /\ Own(m)
           New(m) == /\ \E e \in Devices, u \in Users : Queue(e, u) /\ m = NewRow(e, u).msg
                     /\ m.body = queued + 1
<1>1. ASSUME NEW d \in Devices, NEW i \in 1 .. Len(rows'[d])
      PROVE  Old(rows'[d][i].msg) \/ New(rows'[d][i].msg)
  <2>1. CASE i \in 1 .. Len(rows[d]) /\ rows'[d][i].msg = rows[d][i].msg
    BY <2>1, RowFacts DEF RowFits
  <2>2. CASE \E u \in Users : Queue(d, u) /\ rows'[d][i] = NewRow(d, u)
    BY <2>2 DEF NewRow
  <2>3. CASE Recv(d) /\ rows'[d][i] = Copy(d)
    BY <2>3, RecvEntry DEF Copy, Recv
  <2> QED BY <1>1, <2>1, <2>2, <2>3, RowsFrom
<1>2. ASSUME NEW m, NEW n, Old(m), Old(n), m.body = n.body PROVE m = n
  <2>1. PICK i \in 1 .. Len(rows[m.from]) : rows[m.from][i].msg = m
    BY <1>2, OwnFacts
  <2>2. PICK j \in 1 .. Len(rows[n.from]) : rows[n.from][j].msg = n
    BY <1>2, OwnFacts
  <2>3. m.from \in Devices /\ n.from \in Devices
    BY <1>2, OwnFacts
  <2>4. i \in DOMAIN rows[m.from] /\ j \in DOMAIN rows[n.from]
    BY <2>1, <2>2, <2>3, RowsDomain DEF Inv
  <2> QED BY <1>2, <2>1, <2>2, <2>3, <2>4 DEF Inv, BodyNames
<1>3. ASSUME NEW m, NEW n, Old(m), New(n) PROVE m.body # n.body
  <2>1. m.body \in 1 .. queued /\ queued \in Nat
    BY <1>0, <1>3, OwnFacts DEF TypeOK
  <2> QED BY <1>3, <2>1
<1>4. ASSUME NEW m, NEW n, New(m), New(n) PROVE m = n
  <2>1. PICK d \in Devices, u \in Users : Queue(d, u) /\ m = NewRow(d, u).msg
    BY <1>4
  <2>2. PICK e \in Devices, v \in Users : Queue(e, v) /\ n = NewRow(e, v).msg
    BY <1>4
  <2>3. /\ Adds(d, NewRow(d, u)) /\ Adds(e, NewRow(e, v))
        /\ Len(rows[d]) \in Nat /\ Len(rows[e]) \in Nat
    BY <1>0, <2>1, <2>2, QueueEffect, RowsDomain
  <2>4. d = e
    BY <2>3 DEF Adds
  <2>5. NewRow(d, u) = NewRow(e, v)
    BY <2>3, <2>4 DEF Adds
  <2> QED BY <2>1, <2>2, <2>5
<1>5. ASSUME NEW d \in Devices, NEW e \in Devices,
             NEW i \in 1 .. Len(rows'[d]), NEW j \in 1 .. Len(rows'[e]),
             rows'[d][i].msg.body = rows'[e][j].msg.body
      PROVE  rows'[d][i].msg = rows'[e][j].msg
  <2>1. /\ Old(rows'[d][i].msg) \/ New(rows'[d][i].msg)
        /\ Old(rows'[e][j].msg) \/ New(rows'[e][j].msg)
    BY <1>1
  <2> HIDE DEF Old, New
  <2> QED BY <1>2, <1>3, <1>4, <1>5, <2>1
<1>6. ASSUME NEW d \in Devices, NEW i \in 1 .. Len(rows'[d]), NEW j \in 1 .. Len(rows[d]),
             rows'[d][i].msg.body = rows'[d][j].msg.body
      PROVE  i = j
  <2>0. /\ rows'[d][j].msg = rows[d][j].msg /\ j \in DOMAIN rows[d]
        /\ rows[d][j].msg.body \in 1 .. queued /\ queued \in Nat
    BY <1>0, RowFacts DEF RowsKept, TypeOK, RowFits
  <2>1. CASE i \in 1 .. Len(rows[d]) /\ rows'[d][i].msg = rows[d][i].msg
    <3>1. i \in DOMAIN rows[d]
      BY <2>1, RowFacts
    <3> QED BY <1>6, <2>0, <2>1, <3>1 DEF Inv, BodyNames
  <2>2. CASE \E u \in Users : Queue(d, u) /\ rows'[d][i] = NewRow(d, u)
    BY <1>6, <2>0, <2>2 DEF NewRow
  <2>3. CASE /\ Recv(d) /\ rows'[d][i] = Copy(d)
             /\ ~Taken(d, Peer(d, Entry(d)), Entry(d).sentAt)
    <3>1. rows[d][j].msg.body # Entry(d).body
      BY <2>3, CopyIsNew
    <3> QED BY <1>6, <2>0, <2>3, <3>1 DEF Copy
  <2> QED BY <2>1, <2>2, <2>3, RowsFrom
<1>7. ASSUME NEW d \in Devices, NEW i \in 1 .. Len(rows'[d]), NEW j \in 1 .. Len(rows'[d]),
             rows'[d][i].msg.body = rows'[d][j].msg.body
      PROVE  i = j
  <2>1. /\ i \in 1 .. Len(rows[d]) \/ i = Len(rows[d]) + 1
        /\ j \in 1 .. Len(rows[d]) \/ j = Len(rows[d]) + 1
    BY RowsFrom
  <2>2. CASE i \in 1 .. Len(rows[d])
    BY <1>6, <1>7, <2>2
  <2>3. CASE j \in 1 .. Len(rows[d])
    BY <1>6, <1>7, <2>3
  <2> QED BY <2>1, <2>2, <2>3
<1> HIDE DEF Old, New
<1>8. \A d \in Devices : DOMAIN rows'[d] = 1 .. Len(rows'[d])
  BY <1>0, NextDomains
<1>9. \A d, e \in Devices : \A i \in DOMAIN rows'[d], j \in DOMAIN rows'[e] :
        rows'[d][i].msg.body = rows'[e][j].msg.body => rows'[d][i].msg = rows'[e][j].msg
  BY <1>5, <1>8
<1>10. \A d \in Devices : \A i, j \in DOMAIN rows'[d] :
         rows'[d][i].msg.body = rows'[d][j].msg.body => i = j
  BY <1>7, <1>8
<1> QED BY <1>9, <1>10 DEF BodyNames

LEMMA CopiesOwnedStep ==
  ASSUME Inv, [Next]_vars
  PROVE  CopiesOwned'
<1>0. TypeOK' /\ RowsKept /\ BoxKept /\ TypeOK
  BY TypeStep, StepKeeps DEF Inv
<1> DEFINE Owned(m) == \E i \in DOMAIN rows'[m.from] : rows'[m.from][i].msg = m
<1>1. \A m \in Msg : Own(m) => Owned(m)
  BY <1>0, OwnKept
<1>2. ASSUME NEW u \in Users, NEW n \in 1 .. Len(box'[u])
      PROVE  Owned(box'[u][n]) /\ Party(u, box'[u][n])
  <2>1. CASE n \in 1 .. Len(box[u])
    <3>1. box'[u][n] = box[u][n]
      BY <1>0, <2>1 DEF BoxKept
    <3>2. box[u][n] \in Msg /\ Own(box[u][n]) /\ Party(u, box[u][n])
      BY <2>1, EntryIsMsg
    <3> HIDE DEF Owned
    <3> QED BY <1>1, <3>1, <3>2
  <2>2. ASSUME NEW v \in Users, NEW m \in Msg, Posts(v, m), Own(m), Party(v, m),
               ~(n \in 1 .. Len(box[u]))
        PROVE  Owned(box'[u][n]) /\ Party(u, box'[u][n])
    <3>1. u = v /\ n = Len(box[u]) + 1
      BY <1>0, <1>2, <2>2, BoxDomain DEF Posts
    <3>2. box'[u][n] = m
      BY <2>2, <3>1 DEF Posts
    <3> HIDE DEF Owned
    <3> QED BY <1>1, <2>2, <3>1, <3>2
  <2>3. ASSUME NEW d \in Devices, Serve(d), ~(n \in 1 .. Len(box[u]))
        PROVE  Owned(box'[u][n]) /\ Party(u, box'[u][n])
    <3> HIDE DEF Owned
    <3> QED BY <2>2, <2>3, ServeEffect, OutgoingRow
  <2>4. ASSUME NEW c \in late, LateServe(c), ~(n \in 1 .. Len(box[u]))
        PROVE  Owned(box'[u][n]) /\ Party(u, box'[u][n])
    <3>1. Own(c.msg) /\ Party(c.target, c.msg)
      BY DEF Inv, CopiesOwned
    <3> HIDE DEF Owned
    <3> QED BY <2>2, <2>4, <3>1, LateEffect
  <2> HIDE DEF Owned
  <2> QED BY <1>2, <2>1, <2>3, <2>4, StepKinds
<1>3. ASSUME NEW c \in late'
      PROVE  Owned(c.msg) /\ Party(c.target, c.msg)
  <2>1. \/ c \in late
        \/ \E d \in Devices : CallDelayed(d) /\ c = [target |-> Target(d), msg |-> Outgoing(d)]
    BY <1>3 DEF Next, vars, sendVars, recvVars, Queue, SendPick, Serve, Answered, CallFails,
                CallDelayed, Mark, MarkFails, Recv, RecvFails, Crash, LateServe
  <2>2. c.msg \in Msg /\ Own(c.msg) /\ Party(c.target, c.msg)
    <3>1. CASE c \in late
      BY <1>0, <3>1 DEF Inv, CopiesOwned, TypeOK
    <3>2. ASSUME NEW d \in Devices, CallDelayed(d), c = [target |-> Target(d), msg |-> Outgoing(d)]
          PROVE  c.msg \in Msg /\ Own(c.msg) /\ Party(c.target, c.msg)
      <4>1. send[d] # IdleSend
        BY <1>0, <3>2, SendShape DEF CallDelayed, TypeOK
      <4> QED BY <3>2, <4>1, OutgoingRow
    <3> QED BY <2>1, <3>1, <3>2
  <2> HIDE DEF Owned
  <2> QED BY <1>1, <2>2
<1> QED BY <1>0, <1>2, <1>3, NextDomains DEF CopiesOwned, Own, Party
-----------------------------------------------------------------------------
(* A row's status changes when its device marks it.                        *)
LEMMA StatusKept ==
  ASSUME Inv, [Next]_vars, NEW d \in Devices, NEW i \in 1 .. Len(rows[d])
  PROVE  \/ rows'[d][i].status = rows[d][i].status
         \/ /\ Mark(d) /\ i = send[d].row
            /\ rows'[d][i].status = IF send[d].pc = "sent" THEN "received" ELSE "failed"
<1>1. ASSUME NEW e \in Devices, NEW u \in Users, Queue(e, u)
      PROVE  rows'[d][i].status = rows[d][i].status
  BY <1>1, QueueEffect DEF Adds
<1>2. ASSUME NEW e \in Devices, Recv(e)
      PROVE  rows'[d][i].status = rows[d][i].status
  BY <1>2, RecvEffect DEF Adds
<1>3. ASSUME NEW e \in Devices, Mark(e)
      PROVE  \/ rows'[d][i].status = rows[d][i].status
             \/ /\ Mark(d) /\ i = send[d].row
                /\ rows'[d][i].status = IF send[d].pc = "sent" THEN "received" ELSE "failed"
  BY <1>3, MarkRow
<1> QED BY <1>1, <1>2, <1>3, StepKinds

(* What is in a mailbox stays there, and its order.                        *)
LEMMA PostedKept ==
  ASSUME Inv, TypeOK', BoxKept, NEW u \in Users, NEW m
  PROVE  /\ Posted(u, m) => Posted(u, m)'
         /\ \A n : Precedes(u, m, n) => Precedes(u, m, n)'
<1>1. /\ DOMAIN box[u] = 1 .. Len(box[u]) /\ DOMAIN box'[u] = 1 .. Len(box'[u])
      /\ Len(box[u]) \in Nat /\ Len(box'[u]) \in Nat /\ Len(box[u]) <= Len(box'[u])
  BY BoxDomain, NextDomains DEF Inv, BoxKept
<1>2. \A k \in 1 .. Len(box[u]) : k \in DOMAIN box'[u] /\ box'[u][k] = box[u][k]
  BY <1>1 DEF BoxKept
<1>3. Posted(u, m) => Posted(u, m)'
  BY <1>1, <1>2 DEF Posted
<1>4. ASSUME NEW n, Precedes(u, m, n) PROVE Precedes(u, m, n)'
  <2>1. PICK k \in 1 .. Len(box[u]) : box[u][k] = m /\ \A l \in 1 .. k : box[u][l] # n
    BY <1>1, <1>4 DEF Precedes
  <2>2. \A l \in 1 .. k : box'[u][l] = box[u][l]
    BY <1>1, <1>2
  <2>3. k \in DOMAIN box'[u] /\ box'[u][k] = m
    BY <1>2, <2>1
  <2> QED BY <2>1, <2>2, <2>3 DEF Precedes
<1> QED BY <1>3, <1>4

(* A loop that a step leaves alone keeps its row, the oldest pending one.  *)
LEMMA LoopKept ==
  ASSUME Inv, [Next]_vars, NEW d \in Devices, ~Mark(d), send[d] # IdleSend
  PROVE  /\ send[d].row \in Pending(d)'
         /\ \A i \in Pending(d)' : send[d].row <= i
         /\ send[d].row \in 1 .. Len(rows[d])
         /\ rows'[d][send[d].row].msg = Outgoing(d)
<1>0. TypeOK' /\ RowsKept /\ TypeOK
  BY TypeStep, StepKeeps DEF Inv
<1>1. /\ DOMAIN rows[d] = 1 .. Len(rows[d]) /\ DOMAIN rows'[d] = 1 .. Len(rows'[d])
      /\ Len(rows[d]) \in Nat /\ Len(rows'[d]) \in Nat /\ Len(rows[d]) <= Len(rows'[d])
  BY <1>0, RowsDomain, NextDomains DEF RowsKept
<1>2. \A i \in 1 .. Len(rows[d]) : rows'[d][i].status = rows[d][i].status
  BY StatusKept
<1>3. send[d].row \in Pending(d) /\ \A i \in Pending(d) : send[d].row <= i
  BY DEF Inv, SendProgress
<1>4. send[d].row \in 1 .. Len(rows[d])
  BY <1>1, <1>3 DEF Pending
<1>5. send[d].row \in Pending(d)'
  BY <1>1, <1>2, <1>3, <1>4 DEF Pending
<1>6. ASSUME NEW i \in Pending(d)' PROVE send[d].row <= i
  <2>1. i \in 1 .. Len(rows'[d])
    BY <1>1, <1>6 DEF Pending
  <2>2. CASE i \in 1 .. Len(rows[d])
    <3>1. i \in Pending(d)
      BY <1>1, <1>2, <1>6, <2>2 DEF Pending
    <3> QED BY <1>3, <3>1
  <2>3. CASE ~(i \in 1 .. Len(rows[d]))
    BY <1>1, <1>4, <2>1, <2>3
  <2> QED BY <2>2, <2>3
<1>7. rows'[d][send[d].row].msg = Outgoing(d)
  BY <1>0, <1>4 DEF RowsKept, Outgoing
<1> QED BY <1>4, <1>5, <1>6, <1>7

(* The position of a loop says where its message is.                       *)
Progress(d, x, m) ==
  /\ x.leg = "self" => Posted(m.to, m)
  /\ x.pc = "answer" => Posted(IF x.leg = "peer" THEN m.to ELSE UserOf[d], m)
  /\ x.pc = "sent" => Posted(m.to, m) /\ Posted(UserOf[d], m)

LEMMA ProgressOfLoop ==
  ASSUME Inv, NEW d \in Devices, send[d] # IdleSend
  PROVE  Progress(d, send[d], Outgoing(d)) /\ Outgoing(d).to \in Users /\ UserOf[d] \in Users
BY OutgoingRow, UserOfType DEF Inv, SendProgress, Progress, Target

LEMMA SendProgressStep ==
  ASSUME Inv, [Next]_vars
  PROVE  SendProgress'
<1>0. TypeOK' /\ RowsKept /\ BoxKept /\ TypeOK
  BY TypeStep, StepKeeps DEF Inv
<1>1. SUFFICES ASSUME NEW d \in Devices, send'[d] # IdleSend
               PROVE  /\ send'[d].row \in Pending(d)'
                      /\ \A i \in Pending(d)' : send'[d].row <= i
                      /\ Progress(d, send[d], Outgoing(d))'
  BY DEF SendProgress, Progress, Target, Outgoing
<1>2. ASSUME SendPick(d)
      PROVE  /\ send'[d].row \in Pending(d)'
             /\ \A i \in Pending(d)' : send'[d].row <= i
             /\ Progress(d, send[d], Outgoing(d))'
  <2>1. rows' = rows /\ Pending(d)' = Pending(d)
    BY <1>2 DEF SendPick, Pending
  <2>2. send'[d] = [pc |-> "call", row |-> NextPending(d), leg |-> "peer", try |-> 1]
    BY <1>0, <1>2 DEF SendPick, TypeOK
  <2>3. NextPending(d) \in Pending(d) /\ \A j \in Pending(d) : NextPending(d) <= j
    <3>1. \E i \in Pending(d) : \A j \in Pending(d) : i <= j
      <4>1. Pending(d) \subseteq Nat
        BY <1>0, RowsDomain DEF Pending
      <4>2. Pending(d) # {}
        BY <1>2 DEF SendPick
      <4> HIDE DEF Pending
      <4> QED BY <4>1, <4>2, LeastElement
    <3> QED BY <3>1 DEF NextPending
  <2> QED BY <2>1, <2>2, <2>3 DEF Progress
<1>3. ASSUME ~SendPick(d), ~Mark(d), send[d] # IdleSend, send'[d].row = send[d].row,
             NEW x, x = send'[d], Progress(d, x, Outgoing(d)) \/ Serve(d)
      PROVE  /\ send'[d].row \in Pending(d)'
             /\ \A i \in Pending(d)' : send'[d].row <= i
             /\ Progress(d, send[d], Outgoing(d))'
  <2>1. /\ send[d].row \in Pending(d)' /\ \A i \in Pending(d)' : send[d].row <= i
        /\ rows'[d][send[d].row].msg = Outgoing(d)
    BY <1>3, LoopKept
  <2>2. Outgoing(d).to \in Users /\ UserOf[d] \in Users /\ Progress(d, send[d], Outgoing(d))
    BY <1>3, ProgressOfLoop
  <2> DEFINE m == Outgoing(d)
  <2>3. /\ Posted(m.to, m) => \E n \in DOMAIN box'[m.to] : box'[m.to][n] = m
        /\ Posted(UserOf[d], m) => \E n \in DOMAIN box'[UserOf[d]] : box'[UserOf[d]][n] = m
    BY <1>0, <2>2, PostedKept DEF Posted
  <2>4. CASE Progress(d, x, m)
    BY <1>3, <2>1, <2>3, <2>4 DEF Progress, Posted, Outgoing
  <2>5. CASE Serve(d)
    <3>1. /\ send[d] \in SendState /\ send'[d] = [send[d] EXCEPT !.pc = "answer"]
          /\ Posts(Target(d), m) /\ Target(d) \in Users
      BY <1>0, <2>5, ServeEffect DEF TypeOK
    <3>2. send'[d].pc = "answer" /\ send'[d].leg = send[d].leg
      BY <1>3, <3>1 DEF SendState, IdleSend
    <3>3. \E n \in DOMAIN box'[Target(d)] : box'[Target(d)][n] = m
      <4>1. Len(box[Target(d)]) + 1 \in DOMAIN box'[Target(d)]
        BY <1>0, <3>1, BoxDomain, NextDomains DEF Posts
      <4> QED BY <3>1, <4>1 DEF Posts
    <3>4. Target(d) = IF send[d].leg = "peer" THEN m.to ELSE UserOf[d]
      BY DEF Target
    <3> HIDE DEF m
    <3> QED BY <1>3, <2>1, <2>2, <2>3, <3>2, <3>3, <3>4 DEF Progress, Posted, Outgoing, m
  <2> QED BY <1>3, <2>4, <2>5
<1>4. \/ send'[d] = send[d] \/ SendPick(d) \/ Serve(d) \/ Answered(d)
      \/ CallFails(d) \/ CallDelayed(d)
  <2>1. \A e \in Devices : Mark(e) \/ MarkFails(e) \/ Crash(e) => send' = [send EXCEPT ![e] = IdleSend]
    BY DEF Mark, MarkFails, Crash
  <2>2. \A e \in Devices :
          SendPick(e) \/ Serve(e) \/ Answered(e) \/ CallFails(e) \/ CallDelayed(e)
            => \E x : send' = [send EXCEPT ![e] = x]
    BY DEF SendPick, Serve, Answered, CallFails, CallDelayed
  <2>3. \/ UNCHANGED send
        \/ \E e \in Devices : Mark(e) \/ MarkFails(e) \/ Crash(e)
        \/ \E e \in Devices :
             SendPick(e) \/ Serve(e) \/ Answered(e) \/ CallFails(e) \/ CallDelayed(e)
    BY DEF Next, vars, sendVars, Queue, Recv, RecvFails, LateServe
  <2> QED BY <1>0, <1>1, <2>1, <2>2, <2>3 DEF TypeOK
<1>5. ASSUME Answered(d) \/ CallFails(d) \/ CallDelayed(d)
      PROVE  /\ send[d] # IdleSend /\ send'[d].row = send[d].row
             /\ Progress(d, send'[d], Outgoing(d))
  <2>1. send[d] # IdleSend /\ send[d] \in SendState
    BY <1>0, <1>5, SendShape DEF TypeOK, Answered, CallFails, CallDelayed
  <2>2. send[d] \in [pc : {"call", "answer", "sent", "failed"}, row : Nat,
                     leg : {"peer", "self"}, try : 1 .. MaxTries]
    BY <2>1 DEF SendState
  <2>3. Progress(d, send[d], Outgoing(d))
    BY <2>1, ProgressOfLoop
  <2>4. CASE Answered(d)
    <3>1. send[d].pc = "answer" /\ send'[d] = AfterAnswer(d)
      BY <1>0, <2>4 DEF Answered, TypeOK
    <3>2. Posted(IF send[d].leg = "peer" THEN Outgoing(d).to ELSE UserOf[d], Outgoing(d))
      BY <2>3, <3>1 DEF Progress
    <3>3. CASE send[d].leg = "peer" /\ Outgoing(d).to # UserOf[d]
      <4>1. AfterAnswer(d) = [send[d] EXCEPT !.pc = "call", !.leg = "self"]
        BY <3>3 DEF AfterAnswer
      <4> QED BY <2>1, <2>2, <3>1, <3>2, <3>3, <4>1 DEF Progress
    <3>4. CASE ~(send[d].leg = "peer" /\ Outgoing(d).to # UserOf[d])
      <4>1. AfterAnswer(d) = [send[d] EXCEPT !.pc = "sent"]
        BY <3>4 DEF AfterAnswer
      <4> QED BY <2>1, <2>2, <2>3, <3>1, <3>2, <3>4, <4>1 DEF Progress
    <3> QED BY <3>3, <3>4
  <2>5. CASE CallFails(d) \/ CallDelayed(d)
    <3>1. send'[d] = Retry(d)
      BY <1>0, <2>5 DEF CallFails, CallDelayed, TypeOK
    <3>2. CASE send[d].try < MaxTries
      <4>1. Retry(d) = [send[d] EXCEPT !.pc = "call", !.leg = "peer", !.try = send[d].try + 1]
        BY <3>2 DEF Retry
      <4> QED BY <2>1, <2>2, <3>1, <4>1 DEF Progress
    <3>3. CASE ~(send[d].try < MaxTries)
      <4>1. Retry(d) = [send[d] EXCEPT !.pc = "failed"]
        BY <3>3 DEF Retry
      <4> QED BY <2>1, <2>2, <2>3, <3>1, <4>1 DEF Progress
    <3> QED BY <3>2, <3>3
  <2> QED BY <1>5, <2>4, <2>5
<1>6. CASE SendPick(d)
  BY <1>2, <1>6
<1>7. CASE ~SendPick(d)
  <2>1. ~Mark(d)
    BY <1>0, <1>1 DEF Mark, TypeOK
  <2>2. CASE send'[d] = send[d]
    <3>1. Progress(d, send[d], Outgoing(d))
      BY <1>1, <2>2, ProgressOfLoop
    <3> QED BY <1>1, <1>3, <1>7, <2>1, <2>2, <3>1
  <2>3. CASE Answered(d) \/ CallFails(d) \/ CallDelayed(d)
    BY <1>3, <1>5, <1>7, <2>1, <2>3
  <2>4. CASE Serve(d)
    <3>1. send[d] # IdleSend /\ send'[d] = [send[d] EXCEPT !.pc = "answer"] /\ send[d] \in SendState
      BY <1>0, <2>4, ServeEffect DEF TypeOK
    <3>2. send'[d].row = send[d].row
      BY <3>1 DEF SendState
    <3> QED BY <1>3, <1>7, <2>1, <2>4, <3>1, <3>2
  <2> QED BY <1>4, <1>7, <2>2, <2>3, <2>4
<1> QED BY <1>6, <1>7
-----------------------------------------------------------------------------
(* A new row of a device that it has sent itself is one it has just queued.*)
LEMMA OwnRowsFrom ==
  ASSUME Inv, [Next]_vars, NEW d \in Devices, NEW i \in 1 .. Len(rows'[d]),
         rows'[d][i].msg.from = d
  PROVE  \/ i \in 1 .. Len(rows[d]) /\ rows'[d][i].msg = rows[d][i].msg
         \/ /\ \E u \in Users : Queue(d, u) /\ rows'[d][i] = NewRow(d, u)
            /\ i = Len(rows[d]) + 1
<1>1. CASE /\ Recv(d) /\ rows'[d][i] = Copy(d)
           /\ ~Taken(d, Peer(d, Entry(d)), Entry(d).sentAt)
  <2>1. Entry(d) \in Msg /\ Own(Entry(d)) /\ Entry(d).from = d
    BY <1>1, RecvEntry DEF Recv, Copy
  <2>2. PICK j \in 1 .. Len(rows[d]) : rows[d][j].msg = Entry(d)
    BY <2>1, OwnFacts
  <2> QED BY <1>1, <2>2, CopyIsNew
<1> QED BY <1>1, RowsFrom

LEMMA SentMeansPostedStep ==
  ASSUME Inv, [Next]_vars
  PROVE  SentMeansPosted'
<1>0. TypeOK' /\ RowsKept /\ BoxKept /\ TypeOK
  BY TypeStep, StepKeeps DEF Inv
<1>1. SUFFICES ASSUME NEW d \in Devices, NEW i \in 1 .. Len(rows'[d]),
                      rows'[d][i].msg.from = d, rows'[d][i].status = "received"
               PROVE  Posted(rows[d][i].convo, rows[d][i].msg)' /\ Posted(UserOf[d], rows[d][i].msg)'
  BY <1>0, NextDomains DEF SentMeansPosted
<1>2. i \in 1 .. Len(rows[d]) /\ rows'[d][i].msg = rows[d][i].msg
  <2>1. \A u \in Users : NewRow(d, u).status = "pending"
    BY DEF NewRow
  <2> QED BY <1>1, <2>1, OwnRowsFrom
<1> DEFINE m == rows[d][i].msg
<1>3. /\ rows'[d][i].convo = rows[d][i].convo /\ rows[d][i].convo = m.to
      /\ m \in Msg /\ m.to \in Users /\ UserOf[d] \in Users /\ i \in DOMAIN rows[d]
  <2>1. m \in Msg /\ i \in DOMAIN rows[d] /\ rows[d][i].convo = Peer(d, m)
    BY <1>2, RowFacts DEF RowFits
  <2>2. m.from = d /\ m.to \in Users
    BY <1>1, <1>2, <2>1 DEF Msg
  <2>3. rows[d][i].convo = m.to
    BY <2>1, <2>2 DEF Peer
  <2> QED BY <1>0, <1>2, <2>1, <2>2, <2>3, UserOfType DEF RowsKept
<1>4. Posted(m.to, m) /\ Posted(UserOf[d], m)
  <2>1. CASE rows[d][i].status = "received"
    BY <1>1, <1>2, <1>3, <2>1 DEF Inv, SentMeansPosted
  <2>2. CASE Mark(d) /\ i = send[d].row /\ send[d].pc = "sent"
    <3>1. send[d] # IdleSend
      BY <1>0, <2>2, SendShape DEF TypeOK
    <3> QED BY <2>2, <3>1, ProgressOfLoop DEF Progress, Outgoing
  <2> QED BY <1>1, <1>2, <2>1, <2>2, StatusKept
<1>5. /\ \E n \in DOMAIN box'[m.to] : box'[m.to][n] = m
      /\ \E n \in DOMAIN box'[UserOf[d]] : box'[UserOf[d]][n] = m
  BY <1>0, <1>3, <1>4, PostedKept DEF Posted
<1> QED BY <1>2, <1>3, <1>5 DEF Posted

(* A message that leaves its device leaves from the row the loop is at.    *)
LEMMA LeavesFrom ==
  ASSUME Inv, [Next]_vars, NEW m \in Msg,
         (\E u \in Users : Posted(u, m)') \/ (\E c \in late' : c.msg = m)
  PROVE  \/ Left(m)
         \/ \E d \in Devices : /\ send[d] # IdleSend /\ m = Outgoing(d)
                               /\ UNCHANGED <<rows, queued>>
<1>0. TypeOK' /\ BoxKept /\ TypeOK
  BY TypeStep, StepKeeps DEF Inv
<1>1. ASSUME NEW u \in Users, Posted(u, m)', ~Posted(u, m)
      PROVE  \/ Left(m)
             \/ \E d \in Devices : /\ send[d] # IdleSend /\ m = Outgoing(d)
                                   /\ UNCHANGED <<rows, queued>>
  <2>1. PICK n \in 1 .. Len(box'[u]) : box'[u][n] = m
    BY <1>0, <1>1, NextDomains DEF Posted
  <2>2. ~(n \in 1 .. Len(box[u]))
    BY <1>0, <1>1, <2>1, BoxDomain DEF BoxKept, Posted
  <2>3. ASSUME NEW v \in Users, NEW x \in Msg, Posts(v, x) PROVE x = m
    BY <1>0, <2>1, <2>2, <2>3, BoxDomain DEF Posts
  <2>4. CASE \E d \in Devices : Serve(d)
    BY <2>3, <2>4, ServeEffect
  <2>5. CASE \E c \in late : LateServe(c)
    BY <2>3, <2>5, LateEffect DEF Left
  <2> QED BY <2>1, <2>2, <2>4, <2>5, StepKinds
<1>2. ASSUME NEW c \in late', c.msg = m, c \notin late
      PROVE  \E d \in Devices : /\ send[d] # IdleSend /\ m = Outgoing(d)
                                /\ UNCHANGED <<rows, queued>>
  <2>1. PICK d \in Devices : CallDelayed(d) /\ c = [target |-> Target(d), msg |-> Outgoing(d)]
    BY <1>2 DEF Next, vars, sendVars, recvVars, Queue, SendPick, Serve, Answered, CallFails,
                CallDelayed, Mark, MarkFails, Recv, RecvFails, Crash, LateServe
  <2> QED BY <1>0, <1>2, <2>1, SendShape DEF CallDelayed, TypeOK
<1> QED BY <1>1, <1>2 DEF Left

(* Only what is queued has left.                                           *)
LEMMA LeftIsQueued ==
  ASSUME Inv, NEW m \in Msg, Left(m)
  PROVE  m.body \in 1 .. queued
<1>1. Own(m)
  BY BoxDomain, EntryIsMsg DEF Inv, Left, Posted, CopiesOwned
<1> QED BY <1>1, OwnFacts

LEMMA OldestFirstStep ==
  ASSUME Inv, [Next]_vars
  PROVE  OldestFirst'
<1>0. TypeOK' /\ RowsKept /\ BoxKept /\ TypeOK
  BY TypeStep, StepKeeps DEF Inv
<1>1. SUFFICES ASSUME NEW d \in Devices, NEW j \in 1 .. Len(rows'[d]), NEW i \in 1 .. j - 1,
                      rows'[d][j].msg.from = d, Left(rows[d][j].msg)'
               PROVE  rows'[d][i].status # "pending"
  BY <1>0, NextDomains DEF OldestFirst
<1>2. rows'[d][j].msg \in Msg
  <2>1. rows'[d] \in Seq(Row)
    BY <1>0 DEF TypeOK
  <2>2. rows'[d][j] \in Row
    BY <2>1, ElementOfSeq
  <2> QED BY <2>2 DEF Row
<1>3. PICK m \in Msg : m = rows'[d][j].msg
  BY <1>2
<1>4. (\E u \in Users : Posted(u, m)') \/ (\E c \in late' : c.msg = m)
  BY <1>1, <1>3 DEF Left, Posted
<1>5. \/ Left(m)
      \/ \E e \in Devices : send[e] # IdleSend /\ m = Outgoing(e) /\ UNCHANGED <<rows, queued>>
  BY <1>3, <1>4, LeavesFrom
<1>6. j \in 1 .. Len(rows[d]) /\ m = rows[d][j].msg
  <2>1. CASE \E u \in Users : Queue(d, u) /\ rows'[d][j] = NewRow(d, u)
    <3>1. m.body = queued + 1 /\ queued' = queued + 1 /\ queued \in Nat
      <4>1. PICK u \in Users : Queue(d, u) /\ rows'[d][j] = NewRow(d, u)
        BY <2>1
      <4>2. m.body = queued + 1
        BY <1>3, <4>1 DEF NewRow
      <4> QED BY <4>1, <4>2, QueueEffect
    <3>2. Left(m)
      BY <1>5, <3>1
    <3> QED BY <1>3, <3>1, <3>2, LeftIsQueued
  <2> QED BY <1>1, <1>3, <2>1, OwnRowsFrom
<1>7. i \in 1 .. Len(rows[d]) /\ i \in 1 .. j - 1
  BY <1>0, <1>1, <1>6, RowsDomain
<1>8. CASE Left(m)
  <2>1. rows[d][i].status # "pending"
    BY <1>0, <1>1, <1>6, <1>8, <1>3, RowsDomain DEF Inv, OldestFirst
  <2> QED BY <1>7, <2>1, StatusKept
<1>9. ASSUME NEW e \in Devices, send[e] # IdleSend, m = Outgoing(e), rows' = rows
      PROVE  rows'[d][i].status # "pending"
  <2>1. e = d
    BY <1>1, <1>3, <1>9, OutgoingRow
  <2>2. send[d].row \in DOMAIN rows[d] /\ j \in DOMAIN rows[d] /\ rows[d][send[d].row].msg = m
    BY <1>0, <1>6, <1>9, <2>1, OutgoingRow, RowsDomain DEF Outgoing
  <2>3. j = send[d].row
    BY <1>6, <2>2 DEF Inv, BodyNames
  <2>4. \A k \in Pending(d) : j <= k
    BY <1>9, <2>1, <2>3 DEF Inv, SendProgress
  <2>5. i \notin Pending(d)
    BY <1>7, <2>4
  <2> QED BY <1>0, <1>7, <1>9, <2>5, RowsDomain DEF Pending
<1> QED BY <1>5, <1>8, <1>9
(* A newer message of a device is posted after its older ones: those had   *)
(* settled, and one that was sent was in both mailboxes.                   *)
LEMMA InOrderStep ==
  ASSUME Inv, [Next]_vars
  PROVE  InOrder'
<1>0. TypeOK' /\ RowsKept /\ BoxKept /\ TypeOK /\ OldestFirst' /\ SentMeansPosted' /\ BodyNames'
      /\ RowsOwned'
  BY TypeStep, StepKeeps, OldestFirstStep, SentMeansPostedStep, BodyNamesStep, RowsOwnedStep DEF Inv
<1>1. SUFFICES ASSUME NEW d \in Devices, NEW u \in Users,
                      NEW j \in 1 .. Len(rows'[d]), NEW i \in 1 .. j - 1,
                      NEW m \in Msg, NEW n \in Msg,
                      m = rows'[d][i].msg, n = rows'[d][j].msg,
                      m.from = d, n.from = d, rows'[d][i].status # "failed",
                      u \in {m.to, UserOf[d]}, Posted(u, n)'
               PROVE  Precedes(u, m, n)'
  <2>1. \A d \in Devices : \A i \in DOMAIN rows'[d] : rows'[d][i].msg \in Msg
    <3> SUFFICES ASSUME NEW d \in Devices, NEW i \in DOMAIN rows'[d] PROVE rows'[d][i].msg \in Msg
      OBVIOUS
    <3>1. rows'[d] \in Seq(Row)
      BY <1>0 DEF TypeOK
    <3>2. rows'[d][i] \in Row
      BY <3>1, ElementOfSeq, LenProperties
    <3> QED BY <3>2 DEF Row
  <2>2. SUFFICES ASSUME NEW d \in Devices, NEW u \in Users,
                        NEW j \in DOMAIN rows'[d], NEW i \in 1 .. j - 1,
                        rows'[d][i].msg.from = d, rows'[d][j].msg.from = d,
                        rows'[d][i].status # "failed",
                        u \in {rows'[d][i].msg.to, UserOf[d]}, Posted(u, rows[d][j].msg)'
                 PROVE  Precedes(u, rows[d][i].msg, rows[d][j].msg)'
    BY DEF InOrder
  <2>3. j \in 1 .. Len(rows'[d]) /\ i \in DOMAIN rows'[d]
    BY <1>0, NextDomains
  <2>4. PICK m \in Msg, n \in Msg : m = rows'[d][i].msg /\ n = rows'[d][j].msg
    BY <2>1, <2>3
  <2>5. Posted(u, n)'
    BY <2>2, <2>4 DEF Posted
  <2>6. Precedes(u, m, n)'
    BY <1>1, <2>2, <2>3, <2>4, <2>5
  <2> QED BY <2>4, <2>6 DEF Precedes
<1>2. /\ i \in 1 .. Len(rows'[d]) /\ i \in DOMAIN rows'[d] /\ j \in DOMAIN rows'[d]
      /\ i # j /\ i < j
  BY <1>0, <1>1, NextDomains
<1>3. rows'[d][i].status # "pending"
  <2>1. Left(rows[d][j].msg)'
    BY <1>1 DEF Left, Posted
  <2> QED BY <1>0, <1>1, <1>2, <2>1 DEF OldestFirst
<1>4. Posted(u, m)'
  <2>1. rows'[d][i].status = "received"
    <3>1. rows'[d] \in Seq(Row)
      BY <1>0 DEF TypeOK
    <3>2. rows'[d][i] \in Row
      BY <1>2, <3>1, ElementOfSeq
    <3> QED BY <1>1, <1>3, <3>2 DEF Row
  <2>2. rows'[d][i].convo = m.to
    BY <1>0, <1>1, <1>2 DEF RowsOwned, RowFits, Peer
  <2>3. Posted(rows[d][i].convo, rows[d][i].msg)' /\ Posted(UserOf[d], rows[d][i].msg)'
    BY <1>0, <1>1, <1>2, <2>1 DEF SentMeansPosted
  <2> QED BY <1>1, <2>2, <2>3 DEF Posted
<1>5. m # n
  BY <1>0, <1>1, <1>2 DEF BodyNames
<1>6. /\ DOMAIN box[u] = 1 .. Len(box[u]) /\ DOMAIN box'[u] = 1 .. Len(box'[u])
      /\ Len(box[u]) \in Nat /\ Len(box'[u]) \in Nat /\ Len(box[u]) <= Len(box'[u])
      /\ \A k \in 1 .. Len(box[u]) : box'[u][k] = box[u][k]
  BY <1>0, BoxDomain, NextDomains DEF BoxKept
<1>7. CASE Posted(u, n)
  <2>1. /\ j \in 1 .. Len(rows[d]) /\ i \in 1 .. Len(rows[d])
        /\ rows[d][i].msg = m /\ rows[d][j].msg = n
    <3>1. CASE \E v \in Users : Queue(d, v) /\ rows'[d][j] = NewRow(d, v)
      <4>1. PICK v \in Users : Queue(d, v) /\ rows'[d][j] = NewRow(d, v)
        BY <3>1
      <4>2. n.body = queued + 1 /\ queued \in Nat
        BY <1>0, <1>1, <4>1 DEF NewRow, TypeOK
      <4>3. Left(n)
        BY <1>7 DEF Left
      <4> QED BY <4>2, <4>3, LeftIsQueued
    <3>2. CASE j \in 1 .. Len(rows[d]) /\ rows'[d][j].msg = rows[d][j].msg
      BY <1>0, <1>1, <1>2, <3>2, RowsDomain DEF RowsKept
    <3> QED BY <1>1, <3>1, <3>2, OwnRowsFrom
  <2>2. rows[d][i].status # "pending"
    <3>1. Left(n)
      BY <1>7 DEF Left
    <3> QED BY <1>0, <1>1, <2>1, <3>1, RowsDomain DEF Inv, OldestFirst
  <2>3. rows[d][i].status # "failed"
    <3>1. CASE Mark(d) /\ i = send[d].row
      <4>1. send[d] # IdleSend
        BY <1>0, <3>1, SendShape DEF Mark, TypeOK
      <4> QED BY <2>2, <3>1, <4>1, OutgoingRow
    <3> QED BY <1>1, <2>1, <3>1, StatusKept
  <2>4. Precedes(u, m, n)
    BY <1>0, <1>1, <1>7, <2>1, <2>3, RowsDomain DEF Inv, InOrder
  <2> QED BY <1>0, <2>4, PostedKept DEF Inv
<1>8. CASE ~Posted(u, n)
  <2>1. PICK k \in 1 .. Len(box'[u]) : box'[u][k] = m
    BY <1>4, <1>6 DEF Posted
  <2>2. \A l \in 1 .. Len(box[u]) : box'[u][l] # n
    BY <1>6, <1>8 DEF Posted
  <2>3. PICK h \in 1 .. Len(box'[u]) : box'[u][h] = n
    BY <1>1, <1>6 DEF Posted
  <2>4. Len(box'[u]) = Len(box[u]) + 1
    <3>1. \A v \in Users, x \in Msg : Posts(v, x) => box'[u] = box[u] \/ Len(box'[u]) = Len(box[u]) + 1
      BY DEF Posts
    <3>2. box'[u] # box[u]
      BY <2>2, <2>3
    <3> QED BY <3>1, <3>2, StepKinds, ServeEffect, LateEffect
  <2>5. h = Len(box[u]) + 1
    BY <1>6, <2>2, <2>3, <2>4
  <2>6. k \in 1 .. Len(box[u])
    BY <1>5, <1>6, <2>1, <2>3, <2>4, <2>5
  <2> QED BY <1>6, <2>1, <2>2, <2>6 DEF Precedes
<1> QED BY <1>7, <1>8
-----------------------------------------------------------------------------
(* How the cursor of a device moves.                                       *)
LEMMA CursorMoves ==
  ASSUME Inv, [Next]_vars, NEW d \in Devices
  PROVE  /\ \/ after'[d] = after[d] /\ saved'[d] = saved[d]
            \/ after'[d] = saved[d] /\ saved'[d] = saved[d]
            \/ /\ after'[d] = after[d] + 1 /\ (saved'[d] = saved[d] \/ saved'[d] = after[d] + 1)
               /\ HasEntry(d) /\ box' = box
               /\ Recv(d) \/ (rows' = rows /\ <<d, after[d] + 1>> \in failed')
         /\ failed \subseteq failed'
         /\ after[d] \in Nat /\ saved[d] \in Nat
<1>0. TypeOK
  BY DEF Inv
<1>1. ASSUME NEW e \in Devices, Recv(e)
      PROVE  /\ \/ after'[d] = after[d] /\ saved'[d] = saved[d]
                \/ /\ after'[d] = after[d] + 1 /\ saved'[d] = after[d] + 1
                   /\ HasEntry(d) /\ box' = box /\ Recv(d)
             /\ failed' = failed
  BY <1>0, <1>1, RecvEffect DEF TypeOK, Recv, sendVars
<1>2. ASSUME NEW e \in Devices, RecvFails(e)
      PROVE  /\ \/ after'[d] = after[d] /\ saved'[d] = saved[d]
                \/ /\ after'[d] = after[d] + 1 /\ (saved'[d] = saved[d] \/ saved'[d] = after[d] + 1)
                   /\ HasEntry(d) /\ box' = box /\ rows' = rows
                   /\ <<d, after[d] + 1>> \in failed'
             /\ failed \subseteq failed'
  <2>1. /\ after' = [after EXCEPT ![e] = after[e] + 1] /\ after'[e] = after[e] + 1
        /\ saved' = saved \/ saved' = [saved EXCEPT ![e] = after'[e]]
        /\ failed' = failed \cup {<<e, after'[e]>>}
        /\ HasEntry(e) /\ box' = box /\ rows' = rows
    BY <1>0, <1>2 DEF RecvFails, TypeOK, sendVars
  <2> QED BY <1>0, <2>1 DEF TypeOK
<1>3. ASSUME NEW e \in Devices, Crash(e)
      PROVE  /\ after'[d] = after[d] \/ after'[d] = saved[d]
             /\ saved'[d] = saved[d] /\ failed' = failed
  BY <1>0, <1>3 DEF Crash, TypeOK
<1>4. CASE UNCHANGED <<after, saved, failed>>
  BY <1>0, <1>4 DEF TypeOK
<1>5. after[d] \in Nat /\ saved[d] \in Nat
  BY <1>0 DEF TypeOK
<1> QED
  BY <1>1, <1>2, <1>3, <1>4, <1>5
     DEF Next, vars, recvVars, Queue, SendPick, Serve, Answered, CallFails, CallDelayed,
         Mark, MarkFails, LateServe

LEMMA CursorsBehindStep ==
  ASSUME Inv, [Next]_vars
  PROVE  CursorsBehind'
<1>0. TypeOK' /\ BoxKept /\ TypeOK
  BY TypeStep, StepKeeps DEF Inv
<1> SUFFICES ASSUME NEW d \in Devices
             PROVE  saved'[d] <= after'[d] /\ after'[d] <= Len(box'[UserOf[d]])
  BY DEF CursorsBehind
<1>1. /\ UserOf[d] \in Users
      /\ Len(box[UserOf[d]]) \in Nat /\ Len(box'[UserOf[d]]) \in Nat
      /\ Len(box[UserOf[d]]) <= Len(box'[UserOf[d]])
      /\ saved[d] <= after[d] /\ after[d] <= Len(box[UserOf[d]])
  BY <1>0, UserOfType, BoxDomain, NextDomains DEF BoxKept, Inv, CursorsBehind
<1>2. after[d] \in Nat /\ saved[d] \in Nat
  BY <1>0 DEF TypeOK
<1>3. CASE \/ after'[d] = after[d] /\ saved'[d] = saved[d]
           \/ after'[d] = saved[d] /\ saved'[d] = saved[d]
  BY <1>1, <1>2, <1>3
<1>4. CASE /\ after'[d] = after[d] + 1 /\ (saved'[d] = saved[d] \/ saved'[d] = after[d] + 1)
           /\ HasEntry(d) /\ box' = box
  BY <1>1, <1>2, <1>4 DEF HasEntry
<1> QED BY <1>3, <1>4, CursorMoves

(* What a device holds, and what shadows a message, it keeps.              *)
Shadowed(d, m) ==
  \E i \in DOMAIN rows[d] : rows[d][i].convo = Peer(d, m) /\ rows[d][i].msg.sentAt = m.sentAt

LEMMA HeldKept ==
  ASSUME Inv, TypeOK', RowsKept, NEW d \in Devices, NEW m
  PROVE  /\ Holds(d, m) => Holds(d, m)'
         /\ Shadowed(d, m) => Shadowed(d, m)'
<1>1. /\ DOMAIN rows[d] = 1 .. Len(rows[d]) /\ DOMAIN rows'[d] = 1 .. Len(rows'[d])
      /\ Len(rows[d]) \in Nat /\ Len(rows'[d]) \in Nat /\ Len(rows[d]) <= Len(rows'[d])
  BY RowsDomain, NextDomains DEF Inv, RowsKept
<1>2. \A i \in 1 .. Len(rows[d]) :
        /\ i \in DOMAIN rows'[d]
        /\ rows'[d][i].msg = rows[d][i].msg /\ rows'[d][i].convo = rows[d][i].convo
  BY <1>1 DEF RowsKept
<1> QED BY <1>1, <1>2 DEF Holds, Shadowed, Peer

(* Every copy behind the cursor has failed, or the message is there or     *)
(* shadowed.                                                               *)
Accounted(d, m) ==
  \/ Holds(d, m) \/ Shadowed(d, m)
  \/ \A k \in 1 .. after[d] : box[UserOf[d]][k] = m => <<d, k>> \in failed

LEMMA MissingStep ==
  ASSUME Inv, [Next]_vars
  PROVE  MissingOnlyIfFailedOrShadowed'
<1>0. TypeOK' /\ RowsKept /\ BoxKept /\ TypeOK /\ CursorsBehind'
  BY TypeStep, StepKeeps, CursorsBehindStep DEF Inv
<1>1. SUFFICES ASSUME NEW d \in Devices, NEW n \in 1 .. after'[d], NEW m,
                      m = box'[UserOf[d]][n]
               PROVE  Accounted(d, m)'
  <2> SUFFICES ASSUME NEW d \in Devices, NEW n \in 1 .. after'[d],
                      ~Holds(d, box[UserOf[d]][n])'
               PROVE  \/ \A k \in 1 .. after'[d] :
                           box'[UserOf[d]][k] = box'[UserOf[d]][n] => <<d, k>> \in failed'
                      \/ Shadowed(d, box[UserOf[d]][n])'
    BY DEF MissingOnlyIfFailedOrShadowed, Shadowed
  <2>1. PICK m : m = box'[UserOf[d]][n]
    OBVIOUS
  <2>2. Accounted(d, m)'
    BY <1>1, <2>1
  <2> QED BY <2>1, <2>2 DEF Accounted, Holds, Shadowed, Peer
<1> DEFINE b == box[UserOf[d]]
           b2 == box'[UserOf[d]]
<1>2. /\ UserOf[d] \in Users /\ Len(b) \in Nat /\ Len(b) <= Len(b2)
      /\ \A k \in 1 .. Len(b) : b2[k] = b[k]
      /\ saved[d] <= after[d] /\ after[d] <= Len(b)
  BY <1>0, UserOfType, BoxDomain DEF BoxKept, Inv, CursorsBehind
<1>3. after[d] \in Nat /\ saved[d] \in Nat /\ after'[d] \in Nat
  BY <1>0 DEF TypeOK
<1>4. \A k \in 1 .. after[d] : Accounted(d, b[k])
  BY DEF Inv, MissingOnlyIfFailedOrShadowed, Accounted, Shadowed
<1>5. (Holds(d, m) \/ Shadowed(d, m)) => Accounted(d, m)'
  BY <1>0, HeldKept DEF Accounted
<1>6. failed \subseteq failed'
  BY CursorMoves
<1>7. CASE after'[d] <= after[d]
  <2>1. n \in 1 .. after[d] /\ m = b[n] /\ Accounted(d, m)
    BY <1>1, <1>2, <1>3, <1>4, <1>7
  <2>2. ASSUME \A k \in 1 .. after[d] : b[k] = m => <<d, k>> \in failed
        PROVE  Accounted(d, m)'
    <3>1. \A k \in 1 .. after'[d] : k \in 1 .. after[d] /\ b2[k] = b[k]
      BY <1>2, <1>3, <1>7
    <3> QED BY <1>6, <2>2, <3>1 DEF Accounted
  <2> QED BY <1>5, <2>1, <2>2 DEF Accounted
<1>8. CASE /\ after'[d] = after[d] + 1 /\ HasEntry(d) /\ box' = box
           /\ Recv(d) \/ <<d, after[d] + 1>> \in failed'
  <2>1. after[d] + 1 \in 1 .. Len(b) /\ b2 = b
    BY <1>2, <1>3, <1>8 DEF HasEntry
  <2>2. CASE Recv(d)
    <3>1. CASE m = Entry(d)
      <4>1. CASE Taken(d, Peer(d, Entry(d)), Entry(d).sentAt)
        <5>1. Shadowed(d, m)
          BY <3>1, <4>1 DEF Taken, Shadowed
        <5> QED BY <1>5, <5>1
      <4>2. CASE ~Taken(d, Peer(d, Entry(d)), Entry(d).sentAt)
        <5>1. Adds(d, Copy(d))
          BY <2>2, <4>2, RecvEffect
        <5>2. Len(rows[d]) + 1 \in DOMAIN rows'[d]
          BY <1>0, <5>1, RowsDomain, NextDomains DEF Adds
        <5>3. rows'[d][Len(rows[d]) + 1].msg = m
          BY <3>1, <5>1 DEF Adds, Copy
        <5>4. Holds(d, m)'
          BY <5>2, <5>3 DEF Holds
        <5> QED BY <5>4 DEF Accounted
      <4> QED BY <4>1, <4>2
    <3>2. CASE m # Entry(d)
      <4>1. n \in 1 .. after[d] /\ m = b[n] /\ Accounted(d, m)
        BY <1>1, <1>3, <1>4, <1>8, <2>1, <3>2 DEF Entry
      <4>2. ASSUME \A k \in 1 .. after[d] : b[k] = m => <<d, k>> \in failed
            PROVE  Accounted(d, m)'
        <5>1. \A k \in 1 .. after'[d] : k \in 1 .. after[d] \/ b2[k] # m
          BY <1>3, <1>8, <2>1, <3>2 DEF Entry
        <5> QED BY <1>6, <2>1, <4>2, <5>1 DEF Accounted
      <4> QED BY <1>5, <4>1, <4>2 DEF Accounted
    <3> QED BY <3>1, <3>2
  <2>3. CASE <<d, after[d] + 1>> \in failed'
    <3>1. CASE \A k \in 1 .. after[d] : b[k] = m => <<d, k>> \in failed
      <4>1. \A k \in 1 .. after'[d] : k \in 1 .. after[d] \/ k = after[d] + 1
        BY <1>3, <1>8
      <4> QED BY <1>6, <2>1, <2>3, <3>1, <4>1 DEF Accounted
    <3>2. ASSUME NEW k \in 1 .. after[d], b[k] = m, <<d, k>> \notin failed
          PROVE  Accounted(d, m)'
      <4>1. Accounted(d, m)
        BY <1>4, <3>2
      <4>2. Holds(d, m) \/ Shadowed(d, m)
        BY <3>2, <4>1 DEF Accounted
      <4> QED BY <1>5, <4>2
    <3> QED BY <3>1, <3>2
  <2> QED BY <1>8, <2>2, <2>3
<1>9. \/ after'[d] = after[d] \/ after'[d] = saved[d]
      \/ /\ after'[d] = after[d] + 1 /\ HasEntry(d) /\ box' = box
         /\ Recv(d) \/ <<d, after[d] + 1>> \in failed'
  BY CursorMoves
<1>10. after'[d] = after[d] \/ after'[d] = saved[d] => after'[d] <= after[d]
  BY <1>2, <1>3
<1> QED BY <1>7, <1>8, <1>9, <1>10

LEMMA Inductive == Inv /\ [Next]_vars => Inv'
BY TypeStep, RowsOwnedStep, BodyNamesStep, CopiesOwnedStep, SendProgressStep, SentMeansPostedStep,
   OldestFirstStep, InOrderStep, CursorsBehindStep, MissingStep DEF Inv

THEOREM Invariance == Spec => []Inv
BY InitInv, Inductive, PTL DEF Spec
-----------------------------------------------------------------------------
(* The state is well typed, and a message has one row per device, however  *)
(* often send_dm was repeated, carried out late or carried out twice.      *)
THEOREM OneRow == Spec => []OneRowPerMessage
<1>1. Inv => OneRowPerMessage
  BY DEF Inv, BodyNames, OneRowPerMessage
<1> QED BY <1>1, Invariance, PTL

(* mark_message_sent is right: both users' mailboxes have the message.     *)
THEOREM SentIsPosted == Spec => []SentMeansPosted
<1>1. Inv => SentMeansPosted
  BY DEF Inv
<1> QED BY <1>1, Invariance, PTL

(* A device's messages reach a mailbox in the order in which convo_send    *)
(* queued them, but for those it has given up, whatever calls were         *)
(* repeated or served late.                                                *)
THEOREM OrderIsKept == Spec => []OrderKept
<1>1. ASSUME TypeOK, NEW u \in Users, NEW m, Posted(u, m)
      PROVE  /\ FirstAt(u, m) \in DOMAIN box[u] /\ box[u][FirstAt(u, m)] = m
             /\ \A k \in 1 .. FirstAt(u, m) - 1 : box[u][k] # m
  <2> DEFINE S == {n \in DOMAIN box[u] : box[u][n] = m}
  <2>1. S \in SUBSET Nat /\ S # {} /\ DOMAIN box[u] = 1 .. Len(box[u]) /\ Len(box[u]) \in Nat
    BY <1>1, BoxDomain DEF Posted
  <2>2. PICK x \in S : \A y \in S : x <= y
    <3> HIDE DEF S
    <3> QED BY <2>1, LeastElement
  <2>3. x \in DOMAIN box[u] /\ box[u][x] = m /\ \A k \in 1 .. x - 1 : box[u][k] # m
    BY <2>1, <2>2
  <2> QED BY <2>3 DEF FirstAt
<1>2. Inv => OrderKept
  <2> SUFFICES ASSUME Inv, NEW d \in Devices, NEW u \in Users,
                      NEW j \in DOMAIN rows[d], NEW i \in 1 .. j - 1,
                      NEW m, NEW n, m = rows[d][i].msg, n = rows[d][j].msg,
                      m.from = d, n.from = d, rows[d][i].status # "failed",
                      u \in {m.to, UserOf[d]}, Posted(u, n)
               PROVE  Posted(u, m) /\ FirstAt(u, m) < FirstAt(u, n)
    BY DEF OrderKept
  <2>1. PICK k \in DOMAIN box[u] : box[u][k] = m /\ \A l \in 1 .. k : box[u][l] # n
    BY DEF Inv, InOrder, Precedes
  <2>2. DOMAIN box[u] = 1 .. Len(box[u]) /\ Len(box[u]) \in Nat
    BY BoxDomain DEF Inv
  <2>3. Posted(u, m)
    BY <2>1 DEF Posted
  <2>4. /\ FirstAt(u, m) \in DOMAIN box[u] /\ \A h \in 1 .. FirstAt(u, m) - 1 : box[u][h] # m
        /\ FirstAt(u, n) \in DOMAIN box[u] /\ box[u][FirstAt(u, n)] = n
    BY <1>1, <2>3 DEF Inv
  <2>5. FirstAt(u, m) <= k
    BY <2>1, <2>2, <2>4
  <2>6. k < FirstAt(u, n)
    BY <2>1, <2>2, <2>4
  <2> QED BY <2>2, <2>3, <2>4, <2>5, <2>6
<1> QED BY <1>2, Invariance, PTL

(* A device lacks a message behind its cursor only if process_mailbox_entry*)
(* failed for every copy of it, or INSERT OR IGNORE on the index of        *)
(* (convo_id, sent_at) found another message in its place.                 *)
THEOREM MissingHasACause == Spec => []MissingOnlyIfFailedOrShadowed
<1>1. Inv => MissingOnlyIfFailedOrShadowed
  BY DEF Inv
<1> QED BY <1>1, Invariance, PTL

-----------------------------------------------------------------------------
(* The sets of messages that the tables of all devices stand for.          *)
ShownPairs == UNION {{<<d, Number(rows[d][i].msg)>> : i \in DOMAIN rows[d]} : d \in Devices}

LEMMA OwnRowsIn ==
  ASSUME NEW st, NEW x
  PROVE  x \in OwnRows(st) <=>
           \E d \in Devices : \E i \in DOMAIN rows[d] :
             rows[d][i].msg.from = d /\ rows[d][i].status = st /\ x = Number(rows[d][i].msg)
BY DEF OwnRows

LEMMA OwnRowsInNext ==
  ASSUME NEW st, NEW x
  PROVE  x \in OwnRows(st)' <=>
           \E d \in Devices : \E i \in DOMAIN rows'[d] :
             rows'[d][i].msg.from = d /\ rows'[d][i].status = st /\ x = Number(rows'[d][i].msg)
BY DEF OwnRows, Number

LEMMA ShownIn ==
  ASSUME NEW x
  PROVE  /\ x \in ShownPairs <=>
              \E d \in Devices : \E i \in DOMAIN rows[d] : x = <<d, Number(rows[d][i].msg)>>
         /\ x \in ShownPairs' <=>
              \E d \in Devices : \E i \in DOMAIN rows'[d] : x = <<d, Number(rows'[d][i].msg)>>
BY DEF ShownPairs, Number
(* What one more row adds to these sets.                                   *)
LEMMA AddsToSets ==
  ASSUME Inv, TypeOK', NEW d \in Devices, NEW row \in Row, Adds(d, row)
  PROVE  /\ \A st : OwnRows(st)' =
              OwnRows(st) \cup
                (IF row.msg.from = d /\ row.status = st THEN {Number(row.msg)} ELSE {})
         /\ ShownPairs' = ShownPairs \cup {<<d, Number(row.msg)>>}
<1> DEFINE k == Len(rows[d]) + 1
<1>1. /\ \A e \in Devices : \A i \in DOMAIN rows[e] : i \in DOMAIN rows'[e] /\ rows'[e][i] = rows[e][i]
      /\ k \in DOMAIN rows'[d] /\ rows'[d][k] = row
      /\ \A e \in Devices : \A i \in DOMAIN rows'[e] : i \in DOMAIN rows[e] \/ (e = d /\ i = k)
  BY RowsDomain, NextDomains DEF Inv, Adds
<1> HIDE DEF k
<1>2. ASSUME NEW st
      PROVE  OwnRows(st)' = OwnRows(st) \cup
               (IF row.msg.from = d /\ row.status = st THEN {Number(row.msg)} ELSE {})
  <2>1. ASSUME NEW x, x \in OwnRows(st)'
        PROVE  x \in OwnRows(st) \/ (row.msg.from = d /\ row.status = st /\ x = Number(row.msg))
    <3>0. PICK e \in Devices : \E i \in DOMAIN rows'[e] :
             rows'[e][i].msg.from = e /\ rows'[e][i].status = st /\ x = Number(rows'[e][i].msg)
      BY <2>1, OwnRowsInNext
    <3>1. PICK i \in DOMAIN rows'[e] :
             rows'[e][i].msg.from = e /\ rows'[e][i].status = st /\ x = Number(rows'[e][i].msg)
      BY <3>0
    <3>2. CASE i \in DOMAIN rows[e]
      BY <1>1, <3>1, <3>2, OwnRowsIn
    <3>3. CASE e = d /\ i = k
      BY <1>1, <3>1, <3>3
    <3> QED BY <1>1, <3>2, <3>3
  <2>2. ASSUME NEW x, x \in OwnRows(st) PROVE x \in OwnRows(st)'
    <3>0. PICK e \in Devices : \E i \in DOMAIN rows[e] :
             rows[e][i].msg.from = e /\ rows[e][i].status = st /\ x = Number(rows[e][i].msg)
      BY <2>2, OwnRowsIn
    <3>1. PICK i \in DOMAIN rows[e] :
             rows[e][i].msg.from = e /\ rows[e][i].status = st /\ x = Number(rows[e][i].msg)
      BY <3>0
    <3>2. i \in DOMAIN rows'[e] /\ rows'[e][i] = rows[e][i]
      BY <1>1
    <3> QED BY <3>1, <3>2, OwnRowsInNext
  <2>3. ASSUME row.msg.from = d, row.status = st PROVE Number(row.msg) \in OwnRows(st)'
    BY <1>1, <2>3, OwnRowsInNext
  <2> QED BY <2>1, <2>2, <2>3
<1>3. ShownPairs' = ShownPairs \cup {<<d, Number(row.msg)>>}
  <2>1. ASSUME NEW x, x \in ShownPairs' PROVE x \in ShownPairs \/ x = <<d, Number(row.msg)>>
    <3>0. PICK e \in Devices : \E i \in DOMAIN rows'[e] :
             x = <<e, Number(rows'[e][i].msg)>>
      BY <2>1, ShownIn
    <3>1. PICK i \in DOMAIN rows'[e] :
             x = <<e, Number(rows'[e][i].msg)>>
      BY <3>0
    <3>2. CASE i \in DOMAIN rows[e]
      BY <1>1, <3>1, <3>2, ShownIn
    <3>3. CASE e = d /\ i = k
      BY <1>1, <3>1, <3>3
    <3> QED BY <1>1, <3>2, <3>3
  <2>2. ASSUME NEW x, x \in ShownPairs PROVE x \in ShownPairs'
    <3>0. PICK e \in Devices : \E i \in DOMAIN rows[e] :
             x = <<e, Number(rows[e][i].msg)>>
      BY <2>2, ShownIn
    <3>1. PICK i \in DOMAIN rows[e] :
             x = <<e, Number(rows[e][i].msg)>>
      BY <3>0
    <3> QED BY <1>1, <3>1, ShownIn
  <2>3. <<d, Number(row.msg)>> \in ShownPairs'
    BY <1>1, ShownIn
  <2> QED BY <2>1, <2>2, <2>3
<1> QED BY <1>2, <1>3

(* A message that is in a mailbox or a table is numbered and has a status. *)
LEMMA OwnIsNumbered ==
  ASSUME Inv, NEW m \in Msg, Own(m)
  PROVE  /\ Number(m).from = m.from /\ Number(m).to = m.to /\ Number(m).body = m.body
         /\ queued <= MaxQueued => Number(m) \in Numbered
         /\ Number(m) \in OwnRows("pending") \cup OwnRows("received") \cup OwnRows("failed")
<1>1. /\ m.from \in Devices /\ <<m.from, m.to>> \in Sends /\ m.body \in 1 .. queued
  BY OwnFacts
<1>2. PICK i \in 1 .. Len(rows[m.from]) : rows[m.from][i].msg = m
  BY OwnFacts
<1>3. i \in DOMAIN rows[m.from] /\ rows[m.from][i] \in Row
  BY <1>1, <1>2, RowFacts
<1>4. rows[m.from][i].status \in {"pending", "received", "failed"}
  BY <1>3 DEF Row
<1>5. Number(m) \in OwnRows(rows[m.from][i].status)
  BY <1>1, <1>2, <1>3, OwnRowsIn
<1>6. queued <= MaxQueued => Number(m) \in Numbered
  <2>1. queued \in Nat /\ MaxQueued \in Nat
    BY BoundsAreNat DEF Inv, TypeOK
  <2>2. queued <= MaxQueued => m.body \in 1 .. MaxQueued
    BY <1>1, <2>1
  <2> QED BY <1>1, <2>2 DEF Numbered, Number
<1> QED BY <1>4, <1>5, <1>6 DEF Number

(* Two messages with one number are the same.                              *)
LEMMA NumberInjective ==
  ASSUME Inv, NEW d \in Devices, NEW e \in Devices,
         NEW i \in DOMAIN rows[d], NEW j \in DOMAIN rows[e],
         rows[d][i].msg.from = d, rows[e][j].msg.from = e,
         Number(rows[d][i].msg) = Number(rows[e][j].msg)
  PROVE  d = e /\ i = j
<1>1. d = e /\ rows[d][i].msg.body = rows[e][j].msg.body
  BY DEF Number
<1> QED BY <1>1 DEF Inv, BodyNames

LEMMA QueueRefines ==
  ASSUME Inv, queued <= MaxQueued, [Next]_vars, NEW d \in Devices, NEW u \in Users, Queue(d, u)
  PROVE  Promise!ConversationNext
<1>1. /\ NewRow(d, u) \in Row /\ Adds(d, NewRow(d, u))
      /\ <<d, u>> \in Sends /\ queued \in Nat /\ queued < MaxQueued
  BY QueueEffect DEF Queue
<1>2. PICK m : m = [from |-> d, to |-> u, body |-> queued + 1]
  OBVIOUS
<1>3. /\ NewRow(d, u).msg.from = d /\ NewRow(d, u).status = "pending"
      /\ Number(NewRow(d, u).msg) = m /\ m.from = d /\ m.body = queued + 1
  BY <1>2 DEF NewRow, Number
<1>4. m \in Numbered
  <2>1. queued + 1 \in 1 .. MaxQueued
    BY <1>1, BoundsAreNat
  <2>2. <<d, u>>[1] = d /\ <<d, u>>[2] = u
    OBVIOUS
  <2> QED BY <1>1, <1>2, <2>1, <2>2 DEF Numbered
<1>5. ASSUME NEW st, m \in OwnRows(st) PROVE FALSE
  <2>1. PICK e \in Devices : \E i \in DOMAIN rows[e] : m = Number(rows[e][i].msg)
    BY <1>5, OwnRowsIn
  <2>2. PICK i \in DOMAIN rows[e] : m = Number(rows[e][i].msg)
    BY <2>1
  <2>3. m.body \in 1 .. queued
    BY <2>2, RowFacts, RowsDomain DEF Inv, RowFits, Number
  <2> QED BY <1>1, <1>3, <2>3
<1>6. /\ OwnRows("pending")' = OwnRows("pending") \cup {m}
      /\ OwnRows("received")' = OwnRows("received")
      /\ OwnRows("failed")' = OwnRows("failed")
      /\ ShownPairs' = ShownPairs \cup {<<d, m>>}
  <2>1. TypeOK'
    BY TypeStep
  <2>2. \A st : OwnRows(st)' = OwnRows(st) \cup (IF st = "pending" THEN {m} ELSE {})
    BY <1>1, <1>3, <2>1, AddsToSets
  <2>3. ShownPairs' = ShownPairs \cup {<<d, m>>}
    BY <1>1, <1>3, <2>1, AddsToSets
  <2> QED BY <2>2, <2>3
<1>7. Promise!Queued(m)
  BY <1>3, <1>5, <1>6 DEF Promise!Queued, ShownPairs
<1> QED BY <1>4, <1>7 DEF Promise!ConversationNext

(* The sets after one row got another status.                              *)
LEMMA MarkRefines ==
  ASSUME Inv, queued <= MaxQueued, NEW d \in Devices, Mark(d)
  PROVE  Promise!ConversationNext
<1> DEFINE Is(e, i, x) == rows[e][i].msg.from = e /\ x = Number(rows[e][i].msg)
<1>0. send[d] # IdleSend
  BY SendShape DEF Mark, Inv, TypeOK
<1>1. PICK k, st : k = send[d].row /\ st = IF send[d].pc = "sent" THEN "received" ELSE "failed"
  OBVIOUS
<1>2. st \in {"received", "failed"}
  BY <1>1
<1>3. PICK m : m = Number(rows[d][k].msg)
  OBVIOUS
<1>4. /\ k \in DOMAIN rows[d] /\ rows[d][k].status = "pending" /\ Is(d, k, m)
      /\ m \in Numbered
  BY <1>0, <1>1, <1>3, OutgoingRow, OwnIsNumbered DEF Outgoing
<1>5. \A e \in Devices :
        /\ DOMAIN rows'[e] = DOMAIN rows[e]
        /\ \A i \in DOMAIN rows[e] :
             /\ rows'[e][i].msg = rows[e][i].msg
             /\ rows'[e][i].status = IF e = d /\ i = k THEN st ELSE rows[e][i].status
  <2>1. /\ rows' \in [Devices -> Seq(Row)] /\ \A e \in Devices : Len(rows'[e]) = Len(rows[e])
        /\ \A e \in Devices : \A i \in 1 .. Len(rows[e]) :
             /\ rows'[e][i].msg = rows[e][i].msg
             /\ rows'[e][i].status = IF e = d /\ i = k THEN st ELSE rows[e][i].status
    BY <1>1, MarkRow
  <2>2. \A e \in Devices : DOMAIN rows[e] = 1 .. Len(rows[e]) /\ DOMAIN rows'[e] = 1 .. Len(rows'[e])
    BY <2>1, RowsDomain, LenProperties DEF Inv
  <2> QED BY <2>1, <2>2
<1>6. \A e \in Devices : \A i \in DOMAIN rows[e] : Is(e, i, m) => e = d /\ i = k
  BY <1>4, NumberInjective
<1>7. \A s, x : x \in OwnRows(s)' <=>
                 (x = m /\ s = st) \/ (x \in OwnRows(s) /\ x # m)
  <2>1. ASSUME NEW s, NEW x, x \in OwnRows(s)'
        PROVE  (x = m /\ s = st) \/ (x \in OwnRows(s) /\ x # m)
    <3>0. PICK e \in Devices : \E i \in DOMAIN rows'[e] :
             rows'[e][i].msg.from = e /\ rows'[e][i].status = s /\ x = Number(rows'[e][i].msg)
      BY <2>1, OwnRowsInNext
    <3>1. PICK i \in DOMAIN rows'[e] :
             rows'[e][i].msg.from = e /\ rows'[e][i].status = s /\ x = Number(rows'[e][i].msg)
      BY <3>0
    <3>2. i \in DOMAIN rows[e] /\ Is(e, i, x)
      BY <1>5, <3>1
    <3>3. CASE e = d /\ i = k
      BY <1>4, <1>5, <3>1, <3>2, <3>3
    <3>4. CASE ~(e = d /\ i = k)
      BY <1>5, <1>6, <3>1, <3>2, <3>4, OwnRowsIn
    <3> QED BY <3>3, <3>4
  <2>2. m \in OwnRows(st)'
    BY <1>4, <1>5, OwnRowsInNext
  <2>3. ASSUME NEW s, NEW x, x \in OwnRows(s), x # m PROVE x \in OwnRows(s)'
    <3>0. PICK e \in Devices : \E i \in DOMAIN rows[e] :
             rows[e][i].msg.from = e /\ rows[e][i].status = s /\ x = Number(rows[e][i].msg)
      BY <2>3, OwnRowsIn
    <3>1. PICK i \in DOMAIN rows[e] :
             rows[e][i].msg.from = e /\ rows[e][i].status = s /\ x = Number(rows[e][i].msg)
      BY <3>0
    <3>2. ~(e = d /\ i = k)
      BY <1>4, <2>3, <3>1
    <3>3. i \in DOMAIN rows'[e] /\ rows'[e][i].msg = rows[e][i].msg /\ rows'[e][i].status = s
      BY <1>5, <3>1, <3>2
    <3> QED BY <3>1, <3>3, OwnRowsInNext
  <2> QED BY <2>1, <2>2, <2>3
<1>8. m \in OwnRows("pending") /\ \A s : s # "pending" => m \notin OwnRows(s)
  <2>1. m \in OwnRows("pending")
    BY <1>4, OwnRowsIn
  <2>2. ASSUME NEW s, m \in OwnRows(s) PROVE s = "pending"
    <3>1. PICK e \in Devices : \E i \in DOMAIN rows[e] :
             rows[e][i].msg.from = e /\ rows[e][i].status = s /\ m = Number(rows[e][i].msg)
      BY <2>2, OwnRowsIn
    <3> QED BY <1>4, <1>6, <3>1
  <2> QED BY <2>1, <2>2
<1>9. /\ OwnRows("pending")' = OwnRows("pending") \ {m}
      /\ OwnRows(st)' = OwnRows(st) \cup {m}
      /\ \A s : s \notin {"pending", st} => OwnRows(s)' = OwnRows(s)
  <2>1. OwnRows("pending")' = OwnRows("pending") \ {m}
    BY <1>2, <1>7
  <2>2. OwnRows(st)' = OwnRows(st) \cup {m}
    BY <1>7
  <2>3. \A s : s \notin {"pending", st} => OwnRows(s)' = OwnRows(s)
    BY <1>7, <1>8
  <2> QED BY <2>1, <2>2, <2>3
<1>10. ShownPairs' = ShownPairs
  <2>1. \A x : x \in ShownPairs' <=> x \in ShownPairs
    BY <1>5, ShownIn
  <2> QED BY <2>1
<1>11. Promise!Settled(m)
  BY <1>2, <1>8, <1>9, <1>10 DEF Promise!Settled, ShownPairs
<1> QED BY <1>4, <1>11 DEF Promise!ConversationNext

(* A receipt shows a message to one more device, or changes nothing.       *)
LEMMA RecvRefines ==
  ASSUME Inv, queued <= MaxQueued, [Next]_vars, NEW d \in Devices, Recv(d), rows' # rows
  PROVE  Promise!ConversationNext
<1>1. Adds(d, Copy(d)) /\ ~Taken(d, Peer(d, Entry(d)), Entry(d).sentAt)
  BY RecvEffect
<1>2. /\ Entry(d) \in Msg /\ Own(Entry(d)) /\ Party(UserOf[d], Entry(d)) /\ Copy(d) \in Row
      /\ Copy(d).msg = Entry(d)
  BY RecvEntry DEF Recv, Copy
<1>3. Entry(d).from # d
  BY <1>1, <1>2, OwnFacts, CopyIsNew
<1>4. PICK m : m = Number(Entry(d))
  OBVIOUS
<1>5. /\ m.from = Entry(d).from /\ m.to = Entry(d).to /\ m \in Numbered
      /\ m \in OwnRows("pending") \cup OwnRows("received") \cup OwnRows("failed")
  BY <1>2, <1>4, OwnIsNumbered
<1>6. d \in Promise!Audience(m)
  BY <1>2, <1>5 DEF Promise!Audience, Party
<1>7. (\A s : OwnRows(s)' = OwnRows(s)) /\ ShownPairs' = ShownPairs \cup {<<d, m>>}
  <2>1. TypeOK'
    BY TypeStep
  <2>2. ASSUME NEW s PROVE OwnRows(s)' = OwnRows(s)
    <3>1. OwnRows(s)' = OwnRows(s) \cup
            (IF Copy(d).msg.from = d /\ Copy(d).status = s THEN {Number(Copy(d).msg)} ELSE {})
      BY <1>1, <1>2, <2>1, AddsToSets
    <3>2. Copy(d).msg.from # d
      BY <1>2, <1>3
    <3> QED BY <3>1, <3>2
  <2>3. ShownPairs' = ShownPairs \cup {<<d, m>>}
    BY <1>1, <1>2, <1>4, <2>1, AddsToSets
  <2> QED BY <2>2, <2>3
<1>8. Promise!Shown(m)
  BY <1>5, <1>6, <1>7 DEF Promise!Shown, ShownPairs
<1> QED BY <1>5, <1>8 DEF Promise!ConversationNext

QueuedBounded == queued <= MaxQueued

(* The tables of all devices keep the promise of a conversation: a message *)
(* is queued once (convo_send), shown at once by its own device and later  *)
(* only by devices of its users, never taken back, and settled once.       *)
THEOREM Refinement == Spec => ImplementsConversation
<1>1. Init => QueuedBounded
  BY BoundsAreNat DEF Init, QueuedBounded
<1>2. Inv /\ QueuedBounded /\ [Next]_vars => QueuedBounded'
  <2> SUFFICES ASSUME Inv, QueuedBounded, [Next]_vars PROVE QueuedBounded'
    OBVIOUS
  <2>1. queued \in Nat /\ MaxQueued \in Nat
    BY BoundsAreNat DEF Inv, TypeOK
  <2>2. queued' = queued \/ (queued < MaxQueued /\ queued' = queued + 1)
    BY DEF Next, vars, sendVars, recvVars, Queue, SendPick,
       Serve, Answered, CallFails, CallDelayed, Mark, MarkFails, Recv, RecvFails, Crash, LateServe
  <2> QED BY <2>1, <2>2 DEF QueuedBounded
<1>3. Init => Promise!ConversationInit
  BY DEF Init, Promise!ConversationInit, OwnRows
<1>4. Inv /\ QueuedBounded /\ [Next]_vars
        => [Promise!ConversationNext]_<<OwnRows("pending"), OwnRows("received"), OwnRows("failed"),
                                        ShownPairs>>
  <2> SUFFICES ASSUME Inv, queued <= MaxQueued, [Next]_vars
               PROVE  \/ Promise!ConversationNext
                      \/ UNCHANGED <<OwnRows("pending"), OwnRows("received"), OwnRows("failed"),
                                     ShownPairs>>
    BY DEF QueuedBounded
  <2>1. CASE rows' = rows
    BY <2>1 DEF OwnRows, ShownPairs, Number
  <2>2. CASE rows' # rows
    <3>1. \/ \E d \in Devices : Mark(d) \/ Recv(d) \/ \E u \in Users : Queue(d, u)
      BY <2>2 DEF Next, vars, sendVars, recvVars, Queue, SendPick,
         Serve, Answered, CallFails, CallDelayed, Mark, MarkFails, Recv, RecvFails, Crash, LateServe
    <3> QED BY <2>2, <3>1, MarkRefines, RecvRefines, QueueRefines
  <2> QED BY <2>1, <2>2
<1> QED BY <1>1, <1>2, <1>3, <1>4, Invariance, PTL
        DEF Spec, ImplementsConversation, Promise!ConversationSpec, ShownPairs
=============================================================================
