------------------------------- MODULE Mailbox ------------------------------
(***************************************************************************)
(* Mailbox delivery through nullspace-server (mailbox.rs, pubsub.rs).      *)
(*                                                                         *)
(* A send samples the clock, then takes SQLite's write lock with its purge *)
(* and commits the new row, then notifies.  A long poll runs one future    *)
(* per mailbox; each reads the notification counter, samples the clock,    *)
(* queries in a transaction and sleeps until the counter moves.  The first *)
(* future with entries answers the poll.  Every transaction here starts    *)
(* with the purge's DELETE, so it holds the write lock from its first      *)
(* statement to its commit and is one step.                                *)
(*                                                                         *)
(* A client is the device that owns its auth token: a sender has one send  *)
(* in flight, a reader one poll over all its mailboxes.  The reader        *)
(* persists the cursor of every entry it takes, and asks for what is above *)
(* it.                                                                     *)
(***************************************************************************)
EXTENDS Naturals, FiniteSets, MailboxAcl

CONSTANTS
  Mailboxes,   (* mailbox ids                                             *)
  Senders,     (* tokens that send                                        *)
  Readers,     (* tokens that long-poll                                   *)
  Ttls,        (* the ttl arguments of sends; 0 asks for no expiry        *)
  PageLimit,   (* LIMIT of the select: 100 in the code                    *)
  AclEdits,    (* the pairs <<token, row>> that ACL edits may write       *)
  MaxClock,    (* bound: last value of the server's clock                 *)
  MaxEntries   (* bound: number of rows ever inserted                     *)

ASSUME ClientsAreTokens == Senders \subseteq Tokens /\ Readers \subseteq Tokens
ASSUME TtlsAreNat == Ttls \subseteq Nat
ASSUME AclEditsAreRows == AclEdits \subseteq Tokens \X Row
ASSUME PageLimitPositive == PageLimit \in Nat \ {0}

VARIABLES
  clock,      (* NanoTimestamp::now()                                     *)
  entries,    (* table mailbox_entries                                    *)
  lastId,     (* its AUTOINCREMENT high-water mark                        *)
  acl,        (* table mailbox_acl                                        *)
  send,       (* the mailbox_send in flight of every sender               *)
  counter,    (* PubSub: the notification counter of every mailbox        *)
  poll,       (* the mailbox_multirecv in flight of every reader          *)
  arm,        (* its futures, one per mailbox                             *)
  cursor,     (* the reader's persisted cursor (mailbox_state)            *)
  delivered   (* history: the entries each reader has consumed            *)

vars == <<clock, entries, lastId, acl, send, counter, poll, arm, cursor, delivered>>
pollVars == <<poll, arm, cursor, delivered>>

Never == 0  (* expires_at IS NULL *)

Entry == [mailbox : Mailboxes, id : Nat, at : Nat, exp : Nat]

IdleSend == [pc |-> "idle"]
SendState ==
  {IdleSend} \cup [pc : {"stamped", "committed"}, mailbox : Mailboxes, now : Nat, ttl : Ttls]

IdlePoll == [pc |-> "idle"]
PollState ==
  {IdlePoll, [pc |-> "open"]}
    \cup [pc : {"reply"}, mailbox : Mailboxes, page : SUBSET Entry]

ArmState == [pc : {"count", "stamp", "query", "wait"}, ctr : Nat, now : Nat]
FreshArm == [pc |-> "count", ctr |-> 0, now |-> 0]

TypeOK ==
  /\ clock \in Nat
  /\ entries \in SUBSET Entry
  /\ lastId \in Nat
  /\ acl \in [Mailboxes -> [Tokens -> Row]]
  /\ send \in [Senders -> SendState]
  /\ counter \in [Mailboxes -> Nat]
  /\ poll \in [Readers -> PollState]
  /\ arm \in [Readers -> [Mailboxes -> ArmState]]
  /\ cursor \in [Readers -> [Mailboxes -> Nat]]
  /\ delivered \in [Readers -> SUBSET Entry]

Init ==
  /\ clock = 1
  /\ entries = {}
  /\ lastId = 0
  /\ acl = [m \in Mailboxes |-> [t \in Tokens |->
              IF t \in Readers THEN {"send", "recv"}
              ELSE IF t = Anonymous THEN {"send"} ELSE Absent]]
  /\ send = [s \in Senders |-> IdleSend]
  /\ counter = [m \in Mailboxes |-> 0]
  /\ poll = [r \in Readers |-> IdlePoll]
  /\ arm = [r \in Readers |-> [m \in Mailboxes |-> FreshArm]]
  /\ cursor = [r \in Readers |-> [m \in Mailboxes |-> 0]]
  /\ delivered = [r \in Readers |-> {}]

-----------------------------------------------------------------------------
(* expires_at_from_ttl *)
ExpiresAt(at, ttl) == IF ttl = 0 THEN Never ELSE at + ttl

(* Fault variant: NULL read as the timestamp 0.                            *)
Expired_NullIsZero(e, now) == e.exp <= now

Expired(e, now) == e.exp # Never /\ e.exp <= now

(* purge_expired_entries *)
Purge(es, now) == {e \in es : ~Expired(e, now)}

(* Fault variant: ORDER BY received_at DESC.                               *)
FirstPage_Newest(es) == {e \in es : Cardinality({f \in es : f.at > e.at}) < PageLimit}

(* ORDER BY received_at LIMIT: received_at is unique within a mailbox.     *)
FirstPage(es) == {e \in es : Cardinality({f \in es : f.at < e.at}) < PageLimit}

(* Fault variant: received_at >= after.                                    *)
Above_Inclusive(es, m, after) == {e \in es : e.mailbox = m /\ e.at >= after}

(* WHERE mailbox_id = ? AND received_at > ?                                *)
Above(es, m, after) == {e \in es : e.mailbox = m /\ e.at > after}

Tick ==
  /\ clock < MaxClock
  /\ clock' = clock + 1
  /\ UNCHANGED <<entries, lastId, acl, send, counter, pollVars>>

-----------------------------------------------------------------------------
(* mailbox_send up to the await of its first statement: `now` is sampled   *)
(* before the purge takes the write lock.                                  *)
SendStamp(s) ==
  /\ send[s] = IdleSend
  /\ \E m \in Mailboxes, ttl \in Ttls :
       send' = [send EXCEPT ![s] =
                  [pc |-> "stamped", mailbox |-> m, now |-> clock, ttl |-> ttl]]
  /\ UNCHANGED <<clock, entries, lastId, acl, counter, pollVars>>

SendAllowed(s) == "send" \in AclForToken(acl[send[s].mailbox], s)

(* UNIQUE (mailbox_id, received_at) among the rows the purge leaves.       *)
SendConflicts(s) ==
  \E e \in Purge(entries, send[s].now) : e.mailbox = send[s].mailbox /\ e.at = send[s].now

(* The rest of the transaction: purge, access check, insert, commit.       *)
SendCommit(s) ==
  /\ send[s].pc = "stamped"
  /\ lastId < MaxEntries
  /\ SendAllowed(s)
  /\ ~SendConflicts(s)
  /\ lastId' = lastId + 1
  /\ entries' = Purge(entries, send[s].now) \cup
       {[mailbox |-> send[s].mailbox, id |-> lastId + 1, at |-> send[s].now,
         exp |-> ExpiresAt(send[s].now, send[s].ttl)]}
  /\ send' = [send EXCEPT ![s].pc = "committed"]
  /\ UNCHANGED <<clock, acl, counter, pollVars>>

(* AccessDenied, or RetryLater on the UNIQUE constraint: the dropped       *)
(* transaction rolls back, its purge included.                             *)
SendReject(s) ==
  /\ send[s].pc = "stamped"
  /\ ~SendAllowed(s) \/ SendConflicts(s)
  /\ send' = [send EXCEPT ![s] = IdleSend]
  /\ UNCHANGED <<clock, entries, lastId, acl, counter, pollVars>>

(* PubSub::incr after the commit, and the answer to the sender.            *)
SendNotify(s) ==
  /\ send[s].pc = "committed"
  /\ counter' = [counter EXCEPT ![send[s].mailbox] = @ + 1]
  /\ send' = [send EXCEPT ![s] = IdleSend]
  /\ UNCHANGED <<clock, entries, lastId, acl, pollVars>>

-----------------------------------------------------------------------------
(* A reader calls mailbox_multirecv with `after` = its cursors.            *)
PollStart(r) ==
  /\ poll[r] = IdlePoll
  /\ poll' = [poll EXCEPT ![r] = [pc |-> "open"]]
  /\ arm' = [arm EXCEPT ![r] = [m \in Mailboxes |-> FreshArm]]
  /\ UNCHANGED <<clock, entries, lastId, acl, send, counter, cursor, delivered>>

ArmAt(r, m, pc) == poll[r].pc = "open" /\ arm[r][m].pc = pc

(* PubSub::counter *)
ArmCount(r, m) ==
  /\ ArmAt(r, m, "count")
  /\ arm' = [arm EXCEPT ![r][m].pc = "stamp", ![r][m].ctr = counter[m]]
  /\ UNCHANGED <<clock, entries, lastId, acl, send, counter, poll, cursor, delivered>>

(* The connection is acquired; `now` is sampled before the purge.          *)
ArmStamp(r, m) ==
  /\ ArmAt(r, m, "stamp")
  /\ arm' = [arm EXCEPT ![r][m].pc = "query", ![r][m].now = clock]
  /\ UNCHANGED <<clock, entries, lastId, acl, send, counter, poll, cursor, delivered>>

RecvAllowed(r, m) == "recv" \in AclForToken(acl[m], r)

(* What the select finds once the purge has run.                           *)
Found(r, m) == FirstPage(Above(Purge(entries, arm[r][m].now), m, cursor[r][m]))

(* The transaction finds entries: the poll is answered with this page and  *)
(* the race drops the other futures.                                       *)
ArmAnswer(r, m) ==
  /\ ArmAt(r, m, "query")
  /\ RecvAllowed(r, m)
  /\ Found(r, m) # {}
  /\ entries' = Purge(entries, arm[r][m].now)
  /\ poll' = [poll EXCEPT ![r] = [pc |-> "reply", mailbox |-> m, page |-> Found(r, m)]]
  /\ arm' = [arm EXCEPT ![r] = [n \in Mailboxes |-> FreshArm]]
  /\ UNCHANGED <<clock, lastId, acl, send, counter, cursor, delivered>>

(* The transaction finds nothing: PubSub::wait_gt.                         *)
ArmEmpty(r, m) ==
  /\ ArmAt(r, m, "query")
  /\ RecvAllowed(r, m)
  /\ Found(r, m) = {}
  /\ entries' = Purge(entries, arm[r][m].now)
  /\ arm' = [arm EXCEPT ![r][m].pc = "wait"]
  /\ UNCHANGED <<clock, lastId, acl, send, counter, poll, cursor, delivered>>

(* AccessDenied of one future fails the whole poll; its purge rolls back.  *)
ArmDenied(r, m) ==
  /\ ArmAt(r, m, "query")
  /\ ~RecvAllowed(r, m)
  /\ poll' = [poll EXCEPT ![r] = IdlePoll]
  /\ arm' = [arm EXCEPT ![r] = [n \in Mailboxes |-> FreshArm]]
  /\ UNCHANGED <<clock, entries, lastId, acl, send, counter, cursor, delivered>>

(* Fault variant: the wait misses one notification.                        *)
ArmWake_OffByOne(r, m) ==
  /\ ArmAt(r, m, "wait")
  /\ counter[m] > arm[r][m].ctr + 1
  /\ arm' = [arm EXCEPT ![r][m].pc = "count"]
  /\ UNCHANGED <<clock, entries, lastId, acl, send, counter, poll, cursor, delivered>>

(* wait_until's predicate holds: the loop starts over.                     *)
ArmWake(r, m) ==
  /\ ArmAt(r, m, "wait")
  /\ counter[m] > arm[r][m].ctr
  /\ arm' = [arm EXCEPT ![r][m].pc = "count"]
  /\ UNCHANGED <<clock, entries, lastId, acl, send, counter, poll, cursor, delivered>>

(* timeout_ms elapses, or the connection drops, with or without an answer  *)
(* under way: the reader learns nothing and its cursor stays.              *)
PollGivesUp(r) ==
  /\ poll[r] # IdlePoll
  /\ poll' = [poll EXCEPT ![r] = IdlePoll]
  /\ arm' = [arm EXCEPT ![r] = [m \in Mailboxes |-> FreshArm]]
  /\ UNCHANGED <<clock, entries, lastId, acl, send, counter, cursor, delivered>>

(* The reader takes the first entry of the page, persists its cursor and   *)
(* polls again; it asks for the rest of the page anew.                     *)
TakeEntry(r) ==
  /\ poll[r].pc = "reply"
  /\ \E e \in poll[r].page :
       /\ \A f \in poll[r].page : e.at <= f.at
       /\ cursor' = [cursor EXCEPT ![r][e.mailbox] = e.at]
       /\ delivered' = [delivered EXCEPT ![r] = @ \cup {e}]
  /\ poll' = [poll EXCEPT ![r] = IdlePoll]
  /\ UNCHANGED <<clock, entries, lastId, acl, send, counter, arm>>

-----------------------------------------------------------------------------
(* The server restarts: requests in flight and PubSub counters are lost,   *)
(* committed rows are not.                                                 *)
Restart ==
  /\ send' = [s \in Senders |-> IdleSend]
  /\ counter' = [m \in Mailboxes |-> 0]
  /\ poll' = [r \in Readers |-> IdlePoll]
  /\ arm' = [r \in Readers |-> [m \in Mailboxes |-> FreshArm]]
  /\ UNCHANGED <<clock, entries, lastId, acl, cursor, delivered>>

(* A committed ACL edit of ServerAccess: one row inserted or deleted.      *)
AclChange(m, t, row) ==
  /\ acl' = [acl EXCEPT ![m] =
               IF row = Absent THEN DeleteAcl(@, t) ELSE InsertAcl(@, t, row)]
  /\ UNCHANGED <<clock, entries, lastId, send, counter, pollVars>>

SendNext(s) == SendStamp(s) \/ SendCommit(s) \/ SendReject(s) \/ SendNotify(s)

ArmNext(r, m) ==
  \/ ArmCount(r, m) \/ ArmStamp(r, m) \/ ArmAnswer(r, m) \/ ArmEmpty(r, m)
  \/ ArmDenied(r, m) \/ ArmWake(r, m)

Next ==
  \/ Tick
  \/ Restart
  \/ \E s \in Senders : SendNext(s)
  \/ \E r \in Readers :
       \/ PollStart(r) \/ PollGivesUp(r) \/ TakeEntry(r)
       \/ \E m \in Mailboxes : ArmNext(r, m)
  \/ \E m \in Mailboxes, edit \in AclEdits : AclChange(m, edit[1], edit[2])

(* Handlers and client loops run on; time, timeouts, faults, new sends and *)
(* ACL edits need not happen.  A poll step that recurs is not for ever     *)
(* pre-empted by timeouts or restarts.                                     *)
Fairness ==
  /\ \A s \in Senders : SF_vars(SendNotify(s))
  /\ \A r \in Readers :
       /\ WF_vars(PollStart(r))
       /\ SF_vars(TakeEntry(r))
       /\ \A m \in Mailboxes :
            /\ SF_vars(ArmCount(r, m))
            /\ SF_vars(ArmStamp(r, m))
            /\ SF_vars(ArmAnswer(r, m) \/ ArmEmpty(r, m))
            /\ SF_vars(ArmWake(r, m))

Spec == Init /\ [][Next]_vars
FairSpec == Spec /\ Fairness

-----------------------------------------------------------------------------
(* A reader that has passed an entry without consuming it was overtaken:   *)
(* it had consumed an entry that committed earlier and carries a stamp at  *)
(* least as large.  Pages, lost answers, purges and restarts lose nothing; *)
(* only stamps that are not in commit order do (mailbox_send samples `now` *)
(* before it takes the write lock).                                        *)
MissedOnlyIfOvertaken ==
  \A r \in Readers : \A e \in entries :
    e.at <= cursor[r][e.mailbox] /\ e \notin delivered[r]
      => \E d \in delivered[r] : d.mailbox = e.mailbox /\ d.id < e.id /\ d.at >= e.at

(* The state is well typed, and no page holds an entry its reader has      *)
(* consumed already, however often polls are repeated after a timeout, a   *)
(* lost answer or a restart.                                               *)
NoRedelivery ==
  /\ TypeOK
  /\ \A r \in Readers : poll[r].pc = "reply" => poll[r].page \cap delivered[r] = {}

(* A committed entry leaves the table only when its ttl has run out by the *)
(* server's clock, whichever handler's purge removes it and however old    *)
(* the `now` of that handler is.                                           *)
KeptUntilExpired ==
  [][\A e \in entries \ entries' : e.exp # Never /\ e.exp <= clock]_vars

(* An entry above a reader's cursor that does not expire does not stay     *)
(* there: the poll that runs, or the one asleep when it commits, gets to   *)
(* it without the help of a timeout, as long as the reader may read every  *)
(* mailbox it polls.                                                       *)
EventuallyPassed ==
  \A r \in Readers, i \in 1 .. MaxEntries :
    (\E e \in entries : e.id = i /\ e.exp = Never /\ e.at > cursor[r][e.mailbox])
      ~> \/ \A e \in entries : e.id = i => e.at <= cursor[r][e.mailbox]
         \/ \E m \in Mailboxes : ~RecvAllowed(r, m)

(* server.rs:81 tells clients to repeat the call until they get an empty   *)
(* page.  Then an empty page says that the reader has consumed all that    *)
(* the mailbox holds.                                                      *)
EmptyPageMeansCaughtUp ==
  \A r \in Readers, m \in Mailboxes :
    ArmAt(r, m, "wait") /\ counter[m] = arm[r][m].ctr
                       /\ (\A s \in Senders : send[s].pc # "committed")
      => \A e \in entries : e.mailbox = m => e \in delivered[r]
=============================================================================
