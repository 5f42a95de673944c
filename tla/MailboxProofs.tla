---------------------------- MODULE MailboxProofs ----------------------------
(***************************************************************************)
(* Proofs about Mailbox, for any mailboxes, senders, readers, ttls, page   *)
(* limit, ACL edits and bounds.                                            *)
(*                                                                         *)
(* MissedOnlyIfOvertaken speaks of entries, cursors and what was consumed. *)
(* Three parts of the state in between carry it: the page under way to a   *)
(* reader is ahead of every other entry that its cursor would skip         *)
(* (PageLeads), a cursor is the stamp of a consumed entry (CursorReached), *)
(* and ids follow the order of the commits (RowsUnique, IdsBelow).         *)
(***************************************************************************)
EXTENDS Mailbox, FiniteSetTheorems, TLAPS

(* The clock samples that handlers hold are in the past.                   *)
StampsInPast ==
  /\ clock >= 1
  /\ \A s \in Senders : send[s] # IdleSend => send[s].now \in 1 .. clock
  /\ \A r \in Readers, m \in Mailboxes : arm[r][m].now <= clock

(* The primary key and the UNIQUE constraint of mailbox_entries.           *)
RowsUnique ==
  /\ IsFiniteSet(entries)
  /\ \A e \in entries : e.at >= 1
  /\ \A e, f \in entries : e.mailbox = f.mailbox /\ e.at = f.at => e = f

(* Rows that are stored, under way or consumed were inserted.              *)
IdsBelow ==
  /\ \A e \in entries : e.id <= lastId
  /\ \A r \in Readers : \A d \in delivered[r] : d.id <= lastId
  /\ \A r \in Readers : poll[r].pc = "reply" => \A p \in poll[r].page : p.id <= lastId

(* A cursor is the largest stamp that its reader has consumed.             *)
CursorReached ==
  \A r \in Readers :
    /\ \A d \in delivered[r] : d.at <= cursor[r][d.mailbox]
    /\ \A m \in Mailboxes :
         cursor[r][m] = 0 \/ \E d \in delivered[r] : d.mailbox = m /\ d.at = cursor[r][m]

(* A page under way is of one mailbox and above the cursor; what the table *)
(* holds between the cursor and its first entry came after that entry.     *)
PageLeads ==
  \A r \in Readers : poll[r].pc = "reply" =>
    \A p \in poll[r].page :
      /\ p.mailbox = poll[r].mailbox
      /\ p.at > cursor[r][p.mailbox]
      /\ (\A q \in poll[r].page : p.at <= q.at) =>
           \A e \in entries :
             e.mailbox = p.mailbox /\ cursor[r][e.mailbox] < e.at /\ e.at <= p.at
               => e = p \/ p.id < e.id

Inv ==
  /\ TypeOK /\ StampsInPast /\ RowsUnique /\ IdsBelow
  /\ CursorReached /\ PageLeads /\ MissedOnlyIfOvertaken

-----------------------------------------------------------------------------
(* What the state of a send, a poll and a future holds, by its pc.         *)
LEMMA SendShape ==
  ASSUME NEW x \in SendState
  PROVE  /\ x.pc \in {"idle", "stamped", "committed"}
         /\ x.pc = "idle" => x = IdleSend
         /\ x.pc # "idle" => /\ x # IdleSend
                             /\ x.mailbox \in Mailboxes /\ x.now \in Nat /\ x.ttl \in Ttls
                             /\ [x EXCEPT !.pc = "committed"] \in SendState
                             /\ [x EXCEPT !.pc = "committed"].now = x.now
BY DEF SendState, IdleSend

LEMMA PollShape ==
  ASSUME NEW x \in PollState
  PROVE  /\ x = IdlePoll => x.pc # "reply"
         /\ x.pc = "reply" => x.mailbox \in Mailboxes /\ x.page \in SUBSET Entry
BY DEF PollState, IdlePoll

(* A purge only removes rows.                                              *)
LEMMA PurgeShrinks ==
  ASSUME NEW es, NEW now
  PROVE  Purge(es, now) \subseteq es
BY DEF Purge

(* What a purge with an old `now` removes has expired by the clock.        *)
LEMMA PurgedIsExpired ==
  ASSUME NEW es \in SUBSET Entry, NEW now \in Nat, NEW c \in Nat, now <= c
  PROVE  \A e \in es \ Purge(es, now) : e.exp # Never /\ e.exp <= c
BY DEF Purge, Expired, Entry

(* A page holds every row that is no newer than one of its rows.           *)
LEMMA PageIsPrefix ==
  ASSUME NEW es \in SUBSET Entry, IsFiniteSet(es),
         NEW p \in FirstPage(es), NEW e \in es, e.at <= p.at
  PROVE  e \in FirstPage(es)
<1> DEFINE before(x) == {f \in es : f.at < x.at}
<1>1. /\ IsFiniteSet(before(p)) /\ IsFiniteSet(before(e))
      /\ Cardinality(before(p)) \in Nat /\ Cardinality(before(e)) \in Nat
  BY FS_Subset, FS_CardinalityType
<1>2. before(e) \subseteq before(p)
  BY DEF FirstPage, Entry
<1>3. Cardinality(before(e)) <= Cardinality(before(p))
  BY <1>1, <1>2, FS_Subset
<1>4. Cardinality(before(p)) < PageLimit
  BY DEF FirstPage
<1>5. Cardinality(before(e)) < PageLimit
  BY <1>1, <1>3, <1>4, PageLimitPositive
<1> QED BY <1>5 DEF FirstPage

-----------------------------------------------------------------------------
(* The first state satisfies the invariant.                                *)
LEMMA InitInv == Init => Inv
<1> SUFFICES ASSUME Init PROVE Inv
  OBVIOUS
<1>1. TypeOK
  BY DEF Init, TypeOK, Row, Rights, SendState, PollState, ArmState, FreshArm
<1>2. StampsInPast
  BY DEF Init, StampsInPast, IdleSend, FreshArm
<1>3. RowsUnique
  BY FS_EmptySet DEF Init, RowsUnique
<1>4. IdsBelow /\ CursorReached /\ PageLeads /\ MissedOnlyIfOvertaken
  BY DEF Init, IdsBelow, CursorReached, PageLeads, MissedOnlyIfOvertaken, IdlePoll
<1> QED BY <1>1, <1>2, <1>3, <1>4 DEF Inv
-----------------------------------------------------------------------------
(* Every step keeps the state well typed.                                  *)
LEMMA TypeStep == TypeOK /\ [Next]_vars => TypeOK'
<1> SUFFICES ASSUME TypeOK, [Next]_vars PROVE TypeOK'
  OBVIOUS
<1>1. CASE UNCHANGED vars
  BY <1>1 DEF TypeOK, vars
<1>2. CASE Tick
  BY <1>2 DEF TypeOK, Tick, pollVars
<1>3. CASE Restart
  BY <1>3 DEF TypeOK, Restart, SendState, PollState, ArmState, FreshArm
<1>4. ASSUME NEW s \in Senders, SendNext(s) PROVE TypeOK'
  <2>1. send[s] \in SendState
    BY DEF TypeOK
  <2>2. CASE SendStamp(s)
    <3>1. PICK m \in Mailboxes, ttl \in Ttls :
            send' = [send EXCEPT ![s] =
                       [pc |-> "stamped", mailbox |-> m, now |-> clock, ttl |-> ttl]]
      BY <2>2 DEF SendStamp
    <3>2. [pc |-> "stamped", mailbox |-> m, now |-> clock, ttl |-> ttl] \in SendState
      BY DEF SendState, TypeOK
    <3> QED BY <2>2, <3>1, <3>2 DEF TypeOK, SendStamp, pollVars
  <2>3. CASE SendCommit(s)
    <3>1. /\ send[s].mailbox \in Mailboxes /\ send[s].now \in Nat /\ send[s].ttl \in Nat
          /\ [send[s] EXCEPT !.pc = "committed"] \in SendState
      BY <2>1, <2>3, SendShape, TtlsAreNat DEF SendCommit
    <3>2. send' \in [Senders -> SendState]
      BY <2>3, <3>1 DEF SendCommit, TypeOK
    <3>3. entries' \in SUBSET Entry
      BY <2>3, <3>1, PurgeShrinks DEF SendCommit, TypeOK, Entry, ExpiresAt, Never
    <3> QED BY <2>3, <3>2, <3>3 DEF TypeOK, SendCommit, pollVars
  <2>4. CASE SendReject(s)
    BY <2>4 DEF TypeOK, SendReject, SendState, pollVars
  <2>5. CASE SendNotify(s)
    <3>1. send[s].mailbox \in Mailboxes
      BY <2>1, <2>5, SendShape DEF SendNotify
    <3> QED BY <2>5, <3>1 DEF TypeOK, SendNotify, SendState, pollVars
  <2> QED BY <1>4, <2>2, <2>3, <2>4, <2>5 DEF SendNext
<1>5. ASSUME NEW r \in Readers, PollStart(r) \/ PollGivesUp(r) PROVE TypeOK'
  <2>1. CASE PollStart(r)
    BY <2>1 DEF TypeOK, PollStart, PollState, ArmState, FreshArm
  <2>2. CASE PollGivesUp(r)
    BY <2>2 DEF TypeOK, PollGivesUp, PollState, ArmState, FreshArm
  <2> QED BY <1>5, <2>1, <2>2
<1>6. ASSUME NEW r \in Readers, TakeEntry(r) PROVE TypeOK'
  <2>1. poll[r].page \in SUBSET Entry
    BY <1>6, PollShape DEF TypeOK, TakeEntry
  <2> QED BY <1>6, <2>1 DEF TypeOK, TakeEntry, PollState, Entry
<1>7. ASSUME NEW r \in Readers, NEW m \in Mailboxes, ArmNext(r, m) PROVE TypeOK'
  <2>1. arm[r][m] \in ArmState
    BY DEF TypeOK
  <2>2. CASE ArmCount(r, m)
    BY <2>1, <2>2 DEF TypeOK, ArmCount, ArmState
  <2>3. CASE ArmStamp(r, m)
    BY <2>1, <2>3 DEF TypeOK, ArmStamp, ArmState
  <2>4. CASE ArmAnswer(r, m)
    <3>1. Found(r, m) \in SUBSET Entry
      BY PurgeShrinks DEF Found, FirstPage, Above, TypeOK
    <3>2. [pc |-> "reply", mailbox |-> m, page |-> Found(r, m)] \in PollState
      BY <3>1 DEF PollState
    <3> QED BY <2>4, <3>2, PurgeShrinks DEF TypeOK, ArmAnswer, ArmState, FreshArm
  <2>5. CASE ArmEmpty(r, m)
    BY <2>1, <2>5, PurgeShrinks DEF TypeOK, ArmEmpty, ArmState
  <2>6. CASE ArmDenied(r, m)
    BY <2>6 DEF TypeOK, ArmDenied, PollState, ArmState, FreshArm
  <2>7. CASE ArmWake(r, m)
    BY <2>1, <2>7 DEF TypeOK, ArmWake, ArmState
  <2> QED BY <1>7, <2>2, <2>3, <2>4, <2>5, <2>6, <2>7 DEF ArmNext
<1>8. ASSUME NEW m \in Mailboxes, NEW edit \in AclEdits, AclChange(m, edit[1], edit[2])
      PROVE  TypeOK'
  <2>1. edit[1] \in Tokens /\ edit[2] \in Row
    BY AclEditsAreRows
  <2>2. /\ DeleteAcl(acl[m], edit[1]) \in [Tokens -> Row]
        /\ InsertAcl(acl[m], edit[1], edit[2]) \in [Tokens -> Row]
    BY <2>1 DEF TypeOK, DeleteAcl, InsertAcl, Row
  <2> QED BY <1>8, <2>2 DEF TypeOK, AclChange, pollVars
<1> QED BY <1>1, <1>2, <1>3, <1>4, <1>5, <1>6, <1>7, <1>8 DEF Next
-----------------------------------------------------------------------------
(* Clocks only move on, and a stamp is read off the clock.                 *)
LEMMA StampsStep == Inv /\ [Next]_vars => StampsInPast'
<1> SUFFICES ASSUME Inv, [Next]_vars PROVE StampsInPast'
  OBVIOUS
<1>0. TypeOK /\ StampsInPast
  BY DEF Inv
<1>1. CASE UNCHANGED <<clock, send, arm>>
  BY <1>0, <1>1 DEF StampsInPast
<1>2. CASE Tick
  BY <1>0, <1>2 DEF TypeOK, StampsInPast, Tick, pollVars, SendState, IdleSend, ArmState
<1>3. CASE Restart
  BY <1>0, <1>3 DEF StampsInPast, TypeOK, Restart, FreshArm
<1>4. ASSUME NEW s \in Senders, SendNext(s) PROVE StampsInPast'
  <2>1. send[s] \in SendState
    BY <1>0 DEF TypeOK
  <2>2. CASE SendStamp(s)
    BY <1>0, <2>2 DEF TypeOK, StampsInPast, SendStamp, pollVars
  <2>3. CASE SendCommit(s)
    <3>1. send[s] # IdleSend /\ [send[s] EXCEPT !.pc = "committed"].now = send[s].now
      BY <2>1, <2>3, SendShape DEF SendCommit
    <3>2. send' = [send EXCEPT ![s] = [send[s] EXCEPT !.pc = "committed"]]
      BY <2>3 DEF SendCommit
    <3>3. \A q \in Senders : send'[q].now = send[q].now /\ (q # s => send'[q] = send[q])
      BY <1>0, <3>1, <3>2 DEF TypeOK
    <3> QED BY <1>0, <2>3, <3>1, <3>3 DEF StampsInPast, SendCommit, pollVars
  <2>4. CASE SendReject(s) \/ SendNotify(s)
    BY <1>0, <2>4 DEF TypeOK, StampsInPast, SendReject, SendNotify, pollVars
  <2> QED BY <1>4, <2>2, <2>3, <2>4 DEF SendNext
<1>5. ASSUME NEW r \in Readers, PollStart(r) \/ PollGivesUp(r) PROVE StampsInPast'
  BY <1>0, <1>5 DEF TypeOK, StampsInPast, PollStart, PollGivesUp, FreshArm
<1>6. ASSUME NEW r \in Readers, NEW m \in Mailboxes, ArmNext(r, m) PROVE StampsInPast'
  <2>1. UNCHANGED <<clock, send>>
    BY <1>6 DEF ArmNext, ArmCount, ArmStamp, ArmAnswer, ArmEmpty, ArmDenied, ArmWake
  <2>2. ASSUME NEW q \in Readers, NEW n \in Mailboxes
        PROVE  \/ arm'[q][n].now = 0 \/ arm'[q][n].now = clock
               \/ arm'[q][n].now = arm[q][n].now
    <3>1. arm[r] \in [Mailboxes -> ArmState] /\ arm[r][m] \in ArmState
      BY <1>0 DEF TypeOK
    <3>2. CASE ArmCount(r, m)
      BY <1>0, <3>1, <3>2 DEF TypeOK, ArmCount, ArmState
    <3>3. CASE ArmEmpty(r, m)
      BY <1>0, <3>1, <3>3 DEF TypeOK, ArmEmpty, ArmState
    <3>4. CASE ArmWake(r, m)
      BY <1>0, <3>1, <3>4 DEF TypeOK, ArmWake, ArmState
    <3>5. CASE ArmStamp(r, m)
      BY <1>0, <3>1, <3>5 DEF TypeOK, ArmStamp, ArmState
    <3>6. CASE ArmAnswer(r, m)
      BY <1>0, <3>1, <3>6 DEF TypeOK, ArmAnswer, FreshArm
    <3>7. CASE ArmDenied(r, m)
      BY <1>0, <3>1, <3>7 DEF TypeOK, ArmDenied, FreshArm
    <3> QED BY <1>6, <3>2, <3>3, <3>4, <3>5, <3>6, <3>7 DEF ArmNext
  <2>3. ASSUME NEW q \in Readers, NEW n \in Mailboxes PROVE arm'[q][n].now <= clock
    <3>1. clock \in Nat /\ arm[q][n].now <= clock
      BY <1>0 DEF TypeOK, StampsInPast
    <3> QED BY <2>2, <3>1
  <2> QED BY <1>0, <2>1, <2>3 DEF StampsInPast
<1> QED
  BY <1>1, <1>2, <1>3, <1>4, <1>5, <1>6 DEF Next, vars, TakeEntry, AclChange, pollVars

(* A committed entry leaves the table only when its ttl has run out by the *)
(* server's clock, whichever handler's purge removes it and however old    *)
(* the `now` of that handler is.                                           *)
LEMMA EntriesStep ==
  ASSUME Inv, [Next]_vars
  PROVE  /\ \A e \in entries \ entries' : e.exp # Never /\ e.exp <= clock
         /\ \/ /\ entries' \subseteq entries
               /\ lastId' = lastId
            \/ \E s \in Senders : SendCommit(s)
<1>0. TypeOK /\ StampsInPast
  BY DEF Inv
<1>1. CASE UNCHANGED <<entries, lastId>>
  BY <1>1
<1>2. ASSUME NEW s \in Senders, SendCommit(s) PROVE entries \ entries' \subseteq entries \ Purge(entries, send[s].now) /\ send[s].now \in Nat /\ send[s].now <= clock
  <2>1. send[s] \in SendState
    BY <1>0 DEF TypeOK
  <2>2. send[s] # IdleSend /\ send[s].now \in Nat
    BY <1>2, <2>1, SendShape DEF SendCommit
  <2> QED BY <1>0, <1>2, <2>2 DEF SendCommit, StampsInPast, TypeOK
<1>3. ASSUME NEW r \in Readers, NEW m \in Mailboxes, ArmAnswer(r, m) \/ ArmEmpty(r, m)
      PROVE  /\ entries' = Purge(entries, arm[r][m].now) /\ lastId' = lastId
             /\ arm[r][m].now \in Nat /\ arm[r][m].now <= clock
  BY <1>0, <1>3 DEF ArmAnswer, ArmEmpty, StampsInPast, TypeOK, ArmState
<1>4. CASE \E s \in Senders : SendCommit(s)
  BY <1>0, <1>2, <1>4, PurgedIsExpired DEF TypeOK
<1>5. CASE \E r \in Readers, m \in Mailboxes : ArmAnswer(r, m) \/ ArmEmpty(r, m)
  BY <1>0, <1>3, <1>5, PurgedIsExpired, PurgeShrinks DEF TypeOK
<1> QED
  BY <1>1, <1>4, <1>5, ZenonT(60)
     DEF Next, vars, pollVars, SendNext, ArmNext, Tick, Restart, SendStamp, SendReject, SendNotify, PollStart,
         PollGivesUp, TakeEntry, ArmCount, ArmStamp, ArmDenied, ArmWake, AclChange
-----------------------------------------------------------------------------
(* A step that neither commits, answers a poll nor is a reader's take: it  *)
(* may purge rows and drop polls.                                          *)
Quiet ==
  /\ entries' \subseteq entries
  /\ UNCHANGED <<lastId, cursor, delivered>>
  /\ \A r \in Readers : poll'[r] = poll[r] \/ poll'[r].pc # "reply"

(* Which steps do more.                                                    *)
LEMMA StepKinds ==
  ASSUME Inv, [Next]_vars
  PROVE  \/ Quiet
         \/ \E s \in Senders : SendCommit(s)
         \/ \E r \in Readers : TakeEntry(r)
         \/ \E r \in Readers, m \in Mailboxes : ArmAnswer(r, m)
<1>0. TypeOK
  BY DEF Inv
<1>1. CASE UNCHANGED <<entries, lastId, cursor, delivered, poll>>
  BY <1>1 DEF Quiet
<1>2. CASE Restart
  BY <1>2 DEF Restart, Quiet, IdlePoll
<1>3. ASSUME NEW r \in Readers, PollStart(r) \/ PollGivesUp(r) PROVE Quiet
  BY <1>0, <1>3 DEF TypeOK, PollStart, PollGivesUp, Quiet, IdlePoll
<1>4. ASSUME NEW r \in Readers, NEW m \in Mailboxes, ArmEmpty(r, m) \/ ArmDenied(r, m) PROVE Quiet
  BY <1>0, <1>4, PurgeShrinks DEF TypeOK, ArmEmpty, ArmDenied, Quiet, IdlePoll
<1> QED
  BY <1>1, <1>2, <1>3, <1>4, ZenonT(60)
     DEF Next, vars, pollVars, SendNext, ArmNext, Tick, SendStamp, SendReject, SendNotify,
         ArmCount, ArmStamp, ArmWake, AclChange

(* The row that a commit inserts, and what it finds in the table.          *)
LEMMA CommitRow ==
  ASSUME Inv, NEW s \in Senders, SendCommit(s)
  PROVE  \E e \in Entry :
           /\ entries' = Purge(entries, send[s].now) \cup {e}
           /\ e.id = lastId + 1 /\ lastId' = lastId + 1 /\ lastId \in Nat
           /\ e.at >= 1
           /\ \A f \in Purge(entries, send[s].now) : f.mailbox = e.mailbox => f.at # e.at
           /\ UNCHANGED <<poll, cursor, delivered>>
<1> DEFINE e == [mailbox |-> send[s].mailbox, id |-> lastId + 1, at |-> send[s].now,
                 exp |-> ExpiresAt(send[s].now, send[s].ttl)]
<1>1. send[s] \in SendState
  BY DEF Inv, TypeOK
<1>2. /\ send[s] # IdleSend /\ send[s].mailbox \in Mailboxes /\ send[s].now \in Nat
      /\ send[s].ttl \in Nat
  BY <1>1, SendShape, TtlsAreNat DEF SendCommit
<1>3. send[s].now >= 1
  BY <1>2 DEF Inv, StampsInPast
<1>4. e \in Entry /\ lastId \in Nat
  BY <1>2 DEF Inv, TypeOK, Entry, ExpiresAt, Never
<1>5. \A f \in Purge(entries, send[s].now) : f.mailbox = e.mailbox => f.at # e.at
  BY DEF SendCommit, SendConflicts
<1> QED BY <1>3, <1>4, <1>5 DEF SendCommit, pollVars

(* The page of an answer: one mailbox, above the cursor, and led by the    *)
(* only row that comes first.                                              *)
LEMMA AnswerPage ==
  ASSUME Inv, NEW r \in Readers, NEW m \in Mailboxes, ArmAnswer(r, m)
  PROVE  /\ entries' \subseteq entries /\ UNCHANGED <<lastId, cursor, delivered>>
         /\ \A q \in Readers \ {r} : poll'[q] = poll[q]
         /\ poll'[r].mailbox = m /\ poll'[r].page \subseteq entries
         /\ \A p \in poll'[r].page :
              /\ p.mailbox = m /\ p.at > cursor[r][m]
              /\ (\A q \in poll'[r].page : p.at <= q.at) =>
                   \A e \in entries' :
                     e.mailbox = m /\ cursor[r][m] < e.at /\ e.at <= p.at => e = p
<1> DEFINE found == Above(Purge(entries, arm[r][m].now), m, cursor[r][m])
<1>1. /\ poll' = [poll EXCEPT ![r] = [pc |-> "reply", mailbox |-> m, page |-> FirstPage(found)]]
      /\ entries' = Purge(entries, arm[r][m].now)
      /\ UNCHANGED <<lastId, cursor, delivered>>
  BY DEF ArmAnswer, Found
<1>2. /\ \A q \in Readers \ {r} : poll'[q] = poll[q]
      /\ poll'[r].mailbox = m /\ poll'[r].page = FirstPage(found)
  BY <1>1 DEF Inv, TypeOK
<1>3. found \subseteq entries' /\ entries' \subseteq entries /\ FirstPage(found) \subseteq found
  BY <1>1, PurgeShrinks DEF Above, FirstPage
<1>4. found \in SUBSET Entry /\ IsFiniteSet(found)
  BY <1>3, FS_Subset DEF Inv, TypeOK, RowsUnique
<1>5. \A e \in entries' : e \in found <=> e.mailbox = m /\ e.at > cursor[r][m]
  BY <1>1 DEF Above
<1>6. ASSUME NEW p \in FirstPage(found), \A q \in FirstPage(found) : p.at <= q.at,
             NEW e \in entries', e.mailbox = m, cursor[r][m] < e.at, e.at <= p.at
      PROVE  e = p
  <2> HIDE DEF found
  <2>1. e \in Entry /\ p \in Entry /\ cursor[r][m] \in Nat
    BY <1>3, <1>4 DEF Inv, TypeOK
  <2>2. e \in found
    BY <1>5, <1>6, <2>1 DEF Entry
  <2>3. e \in FirstPage(found)
    BY <1>4, <1>6, <2>2, PageIsPrefix
  <2>4. e.at = p.at
    BY <1>6, <2>1, <2>3 DEF Entry
  <2>5. p.mailbox = m
    BY <1>3, <1>5
  <2> QED BY <1>3, <1>6, <2>4, <2>5 DEF Inv, RowsUnique
<1> HIDE DEF found
<1> QED BY <1>1, <1>2, <1>3, <1>5, <1>6
-----------------------------------------------------------------------------
(* The parts of the invariant that speak of rows and of what readers have. *)
Rows == RowsUnique /\ IdsBelow /\ CursorReached /\ PageLeads /\ MissedOnlyIfOvertaken

LEMMA QuietRows == Inv /\ TypeOK' /\ Quiet => Rows'
<1> SUFFICES ASSUME Inv, TypeOK', Quiet PROVE Rows'
  OBVIOUS
<1>1. RowsUnique'
  BY FS_Subset DEF Inv, RowsUnique, Quiet
<1>2. IdsBelow'
  BY DEF Inv, IdsBelow, Quiet
<1>3. CursorReached'
  BY DEF Inv, CursorReached, Quiet
<1>4. PageLeads'
  BY DEF Inv, PageLeads, Quiet
<1>5. MissedOnlyIfOvertaken'
  BY DEF Inv, MissedOnlyIfOvertaken, Quiet
<1> QED BY <1>1, <1>2, <1>3, <1>4, <1>5 DEF Rows

(* A commit below the cursor of a reader was overtaken by the row that the *)
(* cursor is the stamp of; one at or below the head of a page under way    *)
(* comes after it.                                                         *)
LEMMA CommitRows ==
  ASSUME Inv, TypeOK', NEW s \in Senders, SendCommit(s)
  PROVE  Rows'
<1> DEFINE kept == Purge(entries, send[s].now)
<1>1. PICK e \in Entry :
        /\ entries' = kept \cup {e}
        /\ e.id = lastId + 1 /\ lastId' = lastId + 1 /\ lastId \in Nat
        /\ e.at >= 1
        /\ \A f \in kept : f.mailbox = e.mailbox => f.at # e.at
        /\ UNCHANGED <<poll, cursor, delivered>>
  BY CommitRow
<1>2. kept \subseteq entries
  BY PurgeShrinks
<1> HIDE DEF kept
<1>3. RowsUnique'
  BY <1>1, <1>2, FS_Subset, FS_AddElement DEF Inv, RowsUnique
<1>4. IdsBelow'
  <2>1. /\ \A f \in entries : f.id \in Nat
        /\ \A r \in Readers : \A d \in delivered[r] : d.id \in Nat
        /\ \A r \in Readers : poll[r].pc = "reply" => \A p \in poll[r].page : p.id \in Nat
    BY PollShape DEF Inv, TypeOK, Entry
  <2> QED BY <1>1, <1>2, <2>1 DEF Inv, IdsBelow
<1>5. CursorReached'
  BY <1>1 DEF Inv, CursorReached
<1>6. PageLeads'
  <2> SUFFICES ASSUME NEW r \in Readers, poll[r].pc = "reply", NEW p \in poll[r].page,
                      \A q \in poll[r].page : p.at <= q.at,
                      NEW f \in entries', f.mailbox = p.mailbox,
                      cursor[r][f.mailbox] < f.at, f.at <= p.at
               PROVE  f = p \/ p.id < f.id
    BY <1>1 DEF Inv, PageLeads
  <2>1. CASE f \in entries
    BY <2>1 DEF Inv, PageLeads
  <2>2. CASE f = e
    <3>1. p.id \in Nat /\ p.id <= lastId
      BY PollShape DEF Inv, TypeOK, IdsBelow, Entry
    <3> QED BY <1>1, <2>2, <3>1
  <2> QED BY <1>1, <1>2, <2>1, <2>2
<1>7. MissedOnlyIfOvertaken'
  <2> SUFFICES ASSUME NEW r \in Readers, NEW f \in entries',
                      f.at <= cursor[r][f.mailbox], f \notin delivered[r]
               PROVE  \E d \in delivered[r] :
                        d.mailbox = f.mailbox /\ d.id < f.id /\ d.at >= f.at
    BY <1>1 DEF MissedOnlyIfOvertaken
  <2>1. CASE f \in entries
    BY <2>1 DEF Inv, MissedOnlyIfOvertaken
  <2>2. CASE f = e
    <3>1. f.mailbox \in Mailboxes /\ f.at \in Nat /\ cursor[r][f.mailbox] \in Nat
      BY <2>2 DEF Inv, TypeOK, Entry
    <3>2. cursor[r][f.mailbox] # 0
      BY <1>1, <2>2, <3>1
    <3>3. PICK d \in delivered[r] : d.mailbox = f.mailbox /\ d.at = cursor[r][f.mailbox]
      BY <3>1, <3>2 DEF Inv, CursorReached
    <3>4. d.id \in Nat /\ d.id <= lastId
      BY DEF Inv, TypeOK, IdsBelow, Entry
    <3> QED BY <1>1, <2>2, <3>1, <3>3, <3>4
  <2> QED BY <1>1, <1>2, <2>1, <2>2
<1> QED BY <1>3, <1>4, <1>5, <1>6, <1>7 DEF Rows

LEMMA AnswerRows ==
  ASSUME Inv, TypeOK', NEW r \in Readers, NEW m \in Mailboxes, ArmAnswer(r, m)
  PROVE  Rows'
<1>1. /\ entries' \subseteq entries /\ UNCHANGED <<lastId, cursor, delivered>>
      /\ \A q \in Readers \ {r} : poll'[q] = poll[q]
      /\ poll'[r].mailbox = m /\ poll'[r].page \subseteq entries
      /\ \A p \in poll'[r].page :
           /\ p.mailbox = m /\ p.at > cursor[r][m]
           /\ (\A q \in poll'[r].page : p.at <= q.at) =>
                \A e \in entries' :
                  e.mailbox = m /\ cursor[r][m] < e.at /\ e.at <= p.at => e = p
  BY AnswerPage
<1>2. RowsUnique'
  BY <1>1, FS_Subset DEF Inv, RowsUnique
<1>3. IdsBelow'
  BY <1>1 DEF Inv, IdsBelow
<1>4. CursorReached' /\ MissedOnlyIfOvertaken'
  BY <1>1 DEF Inv, CursorReached, MissedOnlyIfOvertaken
<1>5. PageLeads'
  <2> SUFFICES ASSUME NEW q \in Readers, poll'[q].pc = "reply", NEW p \in poll'[q].page
               PROVE  /\ p.mailbox = poll'[q].mailbox
                      /\ p.at > cursor[q][p.mailbox]
                      /\ (\A x \in poll'[q].page : p.at <= x.at) =>
                           \A e \in entries' :
                             e.mailbox = p.mailbox /\ cursor[q][e.mailbox] < e.at /\ e.at <= p.at
                               => e = p \/ p.id < e.id
    BY <1>1 DEF PageLeads
  <2>1. CASE q = r
    BY <1>1, <2>1
  <2>2. CASE q # r
    BY <1>1, <2>2 DEF Inv, PageLeads
  <2> QED BY <2>1, <2>2
<1> QED BY <1>2, <1>3, <1>4, <1>5 DEF Rows

(* Taking the head of a page moves the cursor past rows that were passed   *)
(* before, are the head itself, or committed after it.                     *)
LEMMA TakeRows ==
  ASSUME Inv, TypeOK', NEW r \in Readers, TakeEntry(r)
  PROVE  Rows'
<1>1. PICK p \in poll[r].page :
        /\ \A f \in poll[r].page : p.at <= f.at
        /\ cursor' = [cursor EXCEPT ![r][p.mailbox] = p.at]
        /\ delivered' = [delivered EXCEPT ![r] = @ \cup {p}]
  BY DEF TakeEntry
<1>0. IdlePoll.pc # "reply"
  BY DEF IdlePoll
<1>2. /\ poll[r].pc = "reply" /\ poll' = [poll EXCEPT ![r] = IdlePoll]
      /\ UNCHANGED <<entries, lastId>>
  BY DEF TakeEntry
<1>3. p \in Entry /\ p.mailbox \in Mailboxes
  BY <1>2, PollShape DEF Inv, TypeOK, Entry
<1>4. /\ \A q \in Readers, m \in Mailboxes :
           cursor'[q][m] = IF q = r /\ m = p.mailbox THEN p.at ELSE cursor[q][m]
      /\ \A q \in Readers :
           /\ delivered'[q] = IF q = r THEN delivered[q] \cup {p} ELSE delivered[q]
           /\ poll'[q] = IF q = r THEN IdlePoll ELSE poll[q]
  BY <1>1, <1>2, <1>3 DEF Inv, TypeOK
<1>5. p.at > cursor[r][p.mailbox] /\ p.id <= lastId
  BY <1>2 DEF Inv, PageLeads, IdsBelow
<1>6. RowsUnique'
  BY <1>2 DEF Inv, RowsUnique
<1>7. IdsBelow'
  <2>1. \A q \in Readers : \A d \in delivered'[q] : d.id <= lastId
    BY <1>4, <1>5, ZenonT(60) DEF Inv, IdsBelow
  <2>2. \A q \in Readers : poll'[q].pc = "reply" => poll'[q] = poll[q]
    BY <1>0, <1>4
  <2> QED BY <1>2, <2>1, <2>2 DEF Inv, IdsBelow
<1>8. CursorReached'
  <2>1. ASSUME NEW q \in Readers, NEW d \in delivered'[q]
        PROVE  d.at <= cursor'[q][d.mailbox]
    <3>1. CASE d \in delivered[q]
      <4>1. d \in Entry /\ d.at <= cursor[q][d.mailbox]
        BY <3>1 DEF Inv, TypeOK, CursorReached
      <4>2. d.mailbox \in Mailboxes /\ d.at \in Nat /\ p.at \in Nat
            /\ cursor[q][d.mailbox] \in Nat /\ cursor[r][p.mailbox] \in Nat
        BY <1>3, <4>1 DEF Inv, TypeOK, Entry
      <4> QED BY <1>4, <1>5, <4>1, <4>2
    <3>2. CASE q = r /\ d = p
      BY <1>3, <1>4, <3>2 DEF Entry
    <3> QED BY <1>4, <3>1, <3>2
  <2>2. ASSUME NEW q \in Readers, NEW m \in Mailboxes
        PROVE  cursor'[q][m] = 0
                 \/ \E d \in delivered'[q] : d.mailbox = m /\ d.at = cursor'[q][m]
    <3>1. CASE q = r /\ m = p.mailbox
      BY <1>4, <3>1
    <3>2. CASE ~(q = r /\ m = p.mailbox)
      <4>1. delivered[q] \subseteq delivered'[q] /\ cursor'[q][m] = cursor[q][m]
        BY <1>4, <3>2
      <4> QED BY <4>1 DEF Inv, CursorReached
    <3> QED BY <3>1, <3>2
  <2> QED BY <2>1, <2>2 DEF CursorReached
<1>9. PageLeads'
  <2>1. \A q \in Readers : poll'[q].pc = "reply" =>
          q # r /\ poll'[q] = poll[q] /\ \A m \in Mailboxes : cursor'[q][m] = cursor[q][m]
    BY <1>0, <1>4
  <2>2. \A q \in Readers : poll[q].pc = "reply" =>
          \A x \in poll[q].page : x.mailbox \in Mailboxes
    BY PollShape DEF Inv, TypeOK, Entry
  <2>3. \A e \in entries : e.mailbox \in Mailboxes
    BY DEF Inv, TypeOK, Entry
  <2> QED BY <1>2, <2>1, <2>2, <2>3 DEF Inv, PageLeads
<1>10. MissedOnlyIfOvertaken'
  <2> SUFFICES ASSUME NEW q \in Readers, NEW f \in entries,
                      f.at <= cursor'[q][f.mailbox], f \notin delivered'[q]
               PROVE  \E d \in delivered'[q] :
                        d.mailbox = f.mailbox /\ d.id < f.id /\ d.at >= f.at
    BY <1>2 DEF MissedOnlyIfOvertaken
  <2>1. f \in Entry /\ f.mailbox \in Mailboxes /\ f.at \in Nat
    BY DEF Inv, TypeOK, Entry
  <2>2. CASE f.at <= cursor[q][f.mailbox]
    BY <1>4, <2>2 DEF Inv, MissedOnlyIfOvertaken
  <2>3. CASE ~(f.at <= cursor[q][f.mailbox])
    <3>1. q = r /\ f.mailbox = p.mailbox /\ f.at <= p.at
      BY <1>4, <2>1, <2>3
    <3>2. cursor[r][f.mailbox] < f.at
      BY <2>1, <2>3, <3>1 DEF Inv, TypeOK
    <3>3. f = p \/ p.id < f.id
      BY <1>1, <1>2, <3>1, <3>2 DEF Inv, PageLeads
    <3>4. p \in delivered'[q]
      BY <1>4, <3>1
    <3> QED BY <1>3, <2>1, <3>1, <3>3, <3>4 DEF Entry
  <2> QED BY <2>2, <2>3
<1> QED BY <1>6, <1>7, <1>8, <1>9, <1>10 DEF Rows

LEMMA Inductive == Inv /\ [Next]_vars => Inv'
<1> SUFFICES ASSUME Inv, [Next]_vars PROVE Inv'
  OBVIOUS
<1>1. TypeOK'
  BY TypeStep DEF Inv
<1>2. StampsInPast'
  BY StampsStep
<1>3. Rows'
  BY <1>1, StepKinds, QuietRows, CommitRows, AnswerRows, TakeRows
<1> QED BY <1>1, <1>2, <1>3 DEF Inv, Rows

THEOREM Invariance == Spec => []Inv
BY InitInv, Inductive, PTL DEF Spec

-----------------------------------------------------------------------------
(* A reader that has passed an entry without consuming it was overtaken:   *)
(* pages, lost answers, purges and restarts of the server lose nothing.    *)
THEOREM MissedOnlyByOvertaking == Spec => []MissedOnlyIfOvertaken
<1>1. Inv => MissedOnlyIfOvertaken
  BY DEF Inv
<1> QED BY <1>1, Invariance, PTL

(* The state is well typed, and no page holds an entry its reader has      *)
(* consumed already, however often mailbox_multirecv is repeated.          *)
THEOREM NothingIsRedelivered == Spec => []NoRedelivery
<1>1. Inv => NoRedelivery
  <2> SUFFICES ASSUME Inv, NEW r \in Readers, poll[r].pc = "reply",
                      NEW p \in poll[r].page, p \in delivered[r]
               PROVE  FALSE
    BY DEF Inv, NoRedelivery
  <2>1. p.at > cursor[r][p.mailbox] /\ p.at <= cursor[r][p.mailbox]
    BY DEF Inv, PageLeads, CursorReached
  <2>2. p.at \in Nat /\ cursor[r][p.mailbox] \in Nat
    BY DEF Inv, TypeOK, Entry
  <2> QED BY <2>1, <2>2
<1> QED BY <1>1, Invariance, PTL

(* purge_expired_entries with the `now` of any handler, however old,       *)
(* removes nothing that has not expired by the clock.                      *)
THEOREM RowsAreKept == Spec => KeptUntilExpired
<1>1. Inv /\ [Next]_vars
        => [\A e \in entries \ entries' : e.exp # Never /\ e.exp <= clock]_vars
  BY EntriesStep
<1> QED BY <1>1, Invariance, PTL DEF Spec, KeptUntilExpired
=============================================================================
