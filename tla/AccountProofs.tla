---------------------------- MODULE AccountProofs ---------------------------
(***************************************************************************)
(* Proofs about accounts: what a server lets devices and their groups do   *)
(* (ServerAccess), and how users, devices and servers get their names into *)
(* the directory (Registration).                                           *)
(*                                                                         *)
(* ServerAccess, for any users, devices, groups, tokens, handlers and      *)
(* edits: the invariant behind the safety properties is Current: as long   *)
(* as a transaction is not stale, what it read is what the tables hold.    *)
(* It is kept because a commit makes every other open transaction stale.   *)
(*                                                                         *)
(* Registration, for any names, keys, tasks and processes: a lookup that   *)
(* was not overtaken finds no more headers stored than the anchor it got   *)
(* (Lookups).  The histories verify and only grow (Histories), and the     *)
(* updates these clients make are each signed by the key they are about;   *)
(* so a history has one owner from its first update on, and once it says   *)
(* whose name it is it never says anything else (SaysIsOwned, SaysStays).  *)
(* A task that goes on to the end has read or written that (Registrations).*)
(***************************************************************************)
EXTENDS ServerAccess, Registration, SequenceTheorems, WellFoundedInduction, TLAPS

Tx == {Idle} \cup EditTx \cup GroupTx \cup AuthTx

(* What an open edit and an open device_auth have read still holds.        *)
CurrentEdit(h) ==
  tx[h].op = "edit" /\ ~tx[h].stale =>
    LET a == tx[h].arg
    IN  /\ tx[h].existing = acl[a.mailbox][a.target]
        /\ tx[h].holder = AclForToken(acl[a.mailbox], a.caller)
        /\ EditAllowed(a.row, tx[h].existing, tx[h].holder)

CurrentAuth(h) ==
  tx[h].op = "auth" /\ ~tx[h].stale => tx[h].existing = tokenOf[tx[h].device]

Current == \A h \in Handlers : CurrentEdit(h) /\ CurrentAuth(h)

Inv == TypeOK /\ Current /\ OneTokenPerDevice /\ DirectNeverEditable

-----------------------------------------------------------------------------
(* The op of a transaction tells its shape.                                *)
LEMMA TxShape ==
  ASSUME NEW t \in Tx
  PROVE  /\ t.op = "idle" => t = Idle
         /\ t.op = "edit" => t \in EditTx
         /\ t.op = "group" => t \in GroupTx
         /\ t.op = "auth" => t \in AuthTx
         /\ t # Idle => t \in EditTx \cup GroupTx \cup AuthTx
BY DEF Tx, Idle, EditTx, GroupTx, AuthTx

(* A commit leaves every transaction well-typed, and closed or stale.      *)
LEMMA CommitAgesOthers ==
  ASSUME TypeOK, NEW h \in Handlers, Commit(h)
  PROVE  /\ tx' \in [Handlers -> Tx]
         /\ \A g \in Handlers : tx'[g] = Idle \/ (tx'[g].op # "idle" /\ tx'[g].stale)
<1> DEFINE aged(g) == [tx[g] EXCEPT !.stale = TRUE]
<1>1. ASSUME NEW g \in Handlers, tx[g] # Idle
      PROVE  aged(g) \in Tx /\ aged(g).op # "idle" /\ aged(g).stale
  <2>1. tx[g] \in EditTx \/ tx[g] \in GroupTx \/ tx[g] \in AuthTx
    BY <1>1 DEF TypeOK
  <2>2. CASE tx[g] \in EditTx
    BY <2>2 DEF Tx, EditTx
  <2>3. CASE tx[g] \in GroupTx
    BY <2>3 DEF Tx, GroupTx
  <2>4. CASE tx[g] \in AuthTx
    BY <2>4 DEF Tx, AuthTx
  <2> QED BY <2>1, <2>2, <2>3, <2>4
<1>2. ASSUME NEW g \in Handlers
      PROVE  tx'[g] \in Tx /\ (tx'[g] = Idle \/ (tx'[g].op # "idle" /\ tx'[g].stale))
  <2>1. CASE g = h \/ tx[g] = Idle
    BY <2>1 DEF Commit, Tx, Idle
  <2>2. CASE ~(g = h \/ tx[g] = Idle)
    BY <1>1, <2>2 DEF Commit
  <2> QED BY <2>1, <2>2
<1>3. tx' = [g \in Handlers |-> tx'[g]]
  BY DEF Commit
<1> QED BY <1>2, <1>3

(* So after a commit there is nothing left that Current speaks about.      *)
LEMMA CommitKeepsCurrent ==
  ASSUME TypeOK, NEW h \in Handlers, Commit(h)
  PROVE  Current'
BY CommitAgesOthers DEF Current, CurrentEdit, CurrentAuth, Idle

(* Opening or closing one transaction.                                     *)
LEMMA SetTxType ==
  ASSUME TypeOK, NEW h \in Handlers, NEW t \in Tx, tx' = [tx EXCEPT ![h] = t]
  PROVE  tx' \in [Handlers -> Tx]
BY DEF TypeOK, Tx

(* Rows written to a mailbox keep the table's shape.                       *)
LEMMA InsertAclType ==
  ASSUME NEW rows \in [Tokens -> Row], NEW t \in Tokens, NEW row \in Row
  PROVE  /\ InsertAcl(rows, t, row) \in [Tokens -> Row]
         /\ DeleteAcl(rows, t) \in [Tokens -> Row]
         /\ \A s \in Tokens : InsertAcl(rows, t, row)[s] = IF s = t THEN row ELSE rows[s]
         /\ \A s \in Tokens : DeleteAcl(rows, t)[s] = IF s = t THEN Absent ELSE rows[s]
BY DEF InsertAcl, DeleteAcl, Row

(* The effective rights of a token are a set of rights.                    *)
LEMMA AclForTokenType ==
  ASSUME NEW rows \in [Tokens -> Row], NEW t \in Tokens
  PROVE  AclForToken(rows, t) \in SUBSET Rights
BY AnonymousIsToken DEF AclForToken, Row

(* A direct mailbox is no group's mailbox, and no other user's.            *)
LEMMA MailboxesDistinct ==
  ASSUME NEW u \in Users, NEW g \in Groups
  PROVE  /\ Direct(u) \in Mailboxes
         /\ Direct(u) \notin GroupBoxes(g)
         /\ GroupBoxes(g) \subseteq Mailboxes
BY DEF Direct, DirectBoxes, GroupBoxes, Mailboxes

-----------------------------------------------------------------------------
(* What update_dm_mailbox leaves in the tables.                            *)
LEMMA UpdateDmMailboxRows ==
  ASSUME TypeOK, NEW u \in Users, NEW t \in Tokens \cup {NoToken}, UpdateDmMailbox(u, t)
  PROVE  /\ boxes' \in SUBSET Mailboxes
         /\ acl' \in [Mailboxes -> [Tokens -> Row]]
         /\ \A m \in Mailboxes, s \in Tokens :
              \/ acl'[m][s] = acl[m][s]
              \/ m = Direct(u) /\ s = Anonymous /\ acl'[m][s] = {"send"}
              \/ m = Direct(u) /\ s = t /\ acl'[m][s] = {"send", "recv"}
<1> DEFINE anon == InsertAcl(acl[Direct(u)], Anonymous, {"send"})
<1>1. Direct(u) \in Mailboxes
  BY DEF Direct, DirectBoxes, Mailboxes
<1>2. {"send"} \in Row /\ {"send", "recv"} \in Row
  BY DEF Row, Rights
<1>3. /\ anon \in [Tokens -> Row]
      /\ \A s \in Tokens : anon[s] = IF s = Anonymous THEN {"send"} ELSE acl[Direct(u)][s]
  BY <1>1, <1>2, InsertAclType, AnonymousIsToken DEF TypeOK
<1>4. CASE t = NoToken
  <2>1. acl' = [acl EXCEPT ![Direct(u)] = anon]
    BY <1>4 DEF UpdateDmMailbox
  <2> HIDE DEF anon
  <2> QED BY <1>1, <1>3, <2>1 DEF TypeOK, UpdateDmMailbox
<1>5. CASE t # NoToken
  <2> DEFINE both == InsertAcl(anon, t, {"send", "recv"})
  <2>1. acl' = [acl EXCEPT ![Direct(u)] = both]
    BY <1>5 DEF UpdateDmMailbox
  <2>2. /\ both \in [Tokens -> Row]
        /\ \A s \in Tokens : both[s] = IF s = t THEN {"send", "recv"} ELSE anon[s]
    BY <1>2, <1>3, <1>5, InsertAclType
  <2> HIDE DEF anon, both
  <2> QED BY <1>1, <1>3, <2>1, <2>2 DEF TypeOK, UpdateDmMailbox
<1> QED BY <1>4, <1>5

(* The first state satisfies the invariant.                                *)
LEMMA InitInv == Init => Inv
<1> SUFFICES ASSUME Init PROVE Inv
  OBVIOUS
<1>1. TypeOK
  BY DEF Init, TypeOK, NoRows, Row
<1>2. Current
  BY DEF Init, Current, CurrentEdit, CurrentAuth, Idle
<1>3. OneTokenPerDevice
  BY DEF Init, OneTokenPerDevice
<1>4. DirectNeverEditable
  BY MailboxesDistinct DEF Init, DirectNeverEditable, NoRows, DirectBoxes, Mailboxes
<1> QED BY <1>1, <1>2, <1>3, <1>4 DEF Inv

(* A transaction that opens leaves the tables alone and has just read them.*)
LEMMA OpenInv ==
  ASSUME Inv, NEW h \in Handlers, NEW t \in Tx, Open(h, t),
         UNCHANGED <<boxes, acl, tokenOf, issued>>,
         t.op = "edit" => CurrentEdit(h)',
         t.op = "auth" => CurrentAuth(h)'
  PROVE  Inv'
<1>1. tx' = [tx EXCEPT ![h] = t] /\ tx' \in [Handlers -> Tx]
  BY SetTxType DEF Inv, Open
<1>2. TypeOK'
  BY <1>1 DEF Inv, TypeOK, Tx
<1>3. Current'
  <2> SUFFICES ASSUME NEW g \in Handlers PROVE CurrentEdit(g)' /\ CurrentAuth(g)'
    BY DEF Current
  <2>1. CASE g = h
    BY <1>1, <2>1 DEF CurrentEdit, CurrentAuth, Inv, TypeOK
  <2>2. CASE g # h
    <3>1. tx'[g] = tx[g]
      BY <1>1, <2>2 DEF Inv, TypeOK
    <3> QED BY <3>1 DEF Inv, Current, CurrentEdit, CurrentAuth
  <2> QED BY <2>1, <2>2
<1>4. OneTokenPerDevice' /\ DirectNeverEditable'
  BY DEF Inv, OneTokenPerDevice, DirectNeverEditable
<1> QED BY <1>2, <1>3, <1>4 DEF Inv

(* A rollback only closes the transaction of its handler.                  *)
LEMMA AbortInv ==
  ASSUME Inv, NEW h \in Handlers, Abort(h)
  PROVE  Inv'
<1>1. tx' = [tx EXCEPT ![h] = Idle] /\ tx' \in [Handlers -> Tx]
  BY SetTxType DEF Inv, Abort, Tx
<1>2. TypeOK'
  BY <1>1 DEF Inv, TypeOK, Abort, Tx
<1>3. Current'
  BY <1>1 DEF Inv, TypeOK, Abort, Current, CurrentEdit, CurrentAuth, Idle
<1>4. OneTokenPerDevice' /\ DirectNeverEditable'
  BY DEF Inv, OneTokenPerDevice, DirectNeverEditable, Abort
<1> QED BY <1>2, <1>3, <1>4 DEF Inv

(* One's own row may always go.                                            *)
LEMMA EditSelfRemoveInv ==
  ASSUME Inv, NEW h \in Handlers, NEW a \in EditArgs, EditSelfRemove(h, a)
  PROVE  Inv'
<1>1. a.mailbox \in Mailboxes /\ a.target \in Tokens
  BY EditArgsType DEF EditArg
<1>2. /\ acl' = [acl EXCEPT ![a.mailbox] = DeleteAcl(acl[a.mailbox], a.target)]
      /\ DeleteAcl(acl[a.mailbox], a.target) \in [Tokens -> Row]
      /\ \A m \in Mailboxes, s \in Tokens : acl'[m][s] \in {Absent, acl[m][s]}
  BY <1>1, InsertAclType DEF Inv, TypeOK, EditSelfRemove, DeleteAcl, Row
<1>3. TypeOK'
  BY <1>1, <1>2, CommitAgesOthers DEF Inv, TypeOK, EditSelfRemove, Tx
<1>4. Current'
  BY CommitKeepsCurrent DEF Inv, EditSelfRemove
<1>5. OneTokenPerDevice'
  BY DEF Inv, OneTokenPerDevice, EditSelfRemove
<1>6. DirectNeverEditable'
  BY <1>2, MailboxesDistinct DEF Inv, DirectNeverEditable, DirectBoxes, Mailboxes
<1> QED BY <1>3, <1>4, <1>5, <1>6 DEF Inv

(* An edit that stays open is well-typed, and permitted by what it read.   *)
LEMMA EditReadInv ==
  ASSUME Inv, NEW h \in Handlers, NEW a \in EditArgs, EditRead(h, a)
  PROVE  Inv'
<1> DEFINE t == [op |-> "edit", arg |-> a, existing |-> acl[a.mailbox][a.target],
                 holder |-> AclForToken(acl[a.mailbox], a.caller), stale |-> FALSE]
<1>1. a \in EditArg
  BY EditArgsType
<1>2. acl[a.mailbox] \in [Tokens -> Row]
  BY <1>1 DEF Inv, TypeOK, EditArg
<1>3. t \in Tx
  BY <1>1, <1>2, AclForTokenType DEF Tx, EditTx, EditArg
<1>4. /\ Open(h, t) /\ UNCHANGED <<boxes, acl, tokenOf, issued>>
      /\ EditAllowed(a.row, t.existing, t.holder)
  BY DEF EditRead
<1>5. tx'[h] = t
  BY <1>4 DEF Open, Inv, TypeOK
<1>6. CurrentEdit(h)'
  BY <1>4, <1>5 DEF CurrentEdit, EditAllowed
<1> HIDE DEF t
<1>7. t.op # "auth"
  BY DEF t
<1> QED BY <1>3, <1>4, <1>6, <1>7, OpenInv

(* An edit that reaches a direct mailbox adds a row, without the right to  *)
(* edit: its caller has none to pass on.                                   *)
LEMMA DirectEditsAddRows ==
  ASSUME Inv, NEW h \in Handlers, EditWrite(h),
         NEW u \in Users, tx[h].arg.mailbox = Direct(u)
  PROVE  /\ "edit" \notin tx[h].arg.row
         /\ acl[tx[h].arg.mailbox][tx[h].arg.target] = Absent
<1> DEFINE a == tx[h].arg
<1>1. a \in EditArg
  <2>1. tx[h].op = "edit" /\ tx[h] \in Tx
    BY DEF Inv, TypeOK, EditWrite, Tx
  <2> QED BY <2>1, TxShape DEF EditTx
<1>2. AclForToken(acl[a.mailbox], a.caller) \in SUBSET (Rights \ {"edit"})
  <2>1. a.caller \in Tokens /\ acl[a.mailbox] \in [Tokens -> Row]
    BY <1>1 DEF EditArg, Inv, TypeOK
  <2>2. \A s \in Tokens : acl[a.mailbox][s] # Absent => "edit" \notin acl[a.mailbox][s]
    BY DEF Inv, DirectNeverEditable
  <2> QED BY <2>1, <2>2, AclForTokenType, AnonymousIsToken DEF AclForToken
<1>3. /\ tx[h].existing = acl[a.mailbox][a.target]
      /\ EditAllowed(a.row, tx[h].existing, AclForToken(acl[a.mailbox], a.caller))
  BY DEF Inv, Current, CurrentEdit, EditWrite, Upgrades
<1> QED BY <1>2, <1>3 DEF EditAllowed, AclIsSubset

(* A permitted edit writes no more than its caller has, or what an editor  *)
(* asked for; there are no editors of a direct mailbox.                    *)
LEMMA EditWriteInv ==
  ASSUME Inv, NEW h \in Handlers, EditWrite(h)
  PROVE  Inv'
<1> DEFINE a == tx[h].arg
<1>1. tx[h] \in EditTx
  BY TxShape DEF Inv, TypeOK, EditWrite, Tx
<1>2. a \in EditArg /\ a.mailbox \in Mailboxes /\ a.target \in Tokens /\ a.row \in Row
  BY <1>1 DEF EditTx, EditArg, Row
<1>3. /\ acl' = [acl EXCEPT ![a.mailbox] = InsertAcl(acl[a.mailbox], a.target, a.row)]
      /\ InsertAcl(acl[a.mailbox], a.target, a.row) \in [Tokens -> Row]
      /\ \A m \in Mailboxes, s \in Tokens :
           acl'[m][s] = IF m = a.mailbox /\ s = a.target THEN a.row ELSE acl[m][s]
  <2>1. acl' = [acl EXCEPT ![a.mailbox] = InsertAcl(acl[a.mailbox], a.target, a.row)]
    BY DEF EditWrite
  <2>2. acl[a.mailbox] \in [Tokens -> Row]
    BY <1>2 DEF Inv, TypeOK
  <2> HIDE DEF a
  <2>3. InsertAcl(acl[a.mailbox], a.target, a.row) \in [Tokens -> Row]
    BY <1>2, <2>2, InsertAclType
  <2>4. \A s \in Tokens : InsertAcl(acl[a.mailbox], a.target, a.row)[s]
          = IF s = a.target THEN a.row ELSE acl[a.mailbox][s]
    BY <1>2, <2>2, InsertAclType
  <2> QED BY <1>2, <2>1, <2>3, <2>4 DEF Inv, TypeOK
<1>4. TypeOK'
  BY <1>2, <1>3, CommitAgesOthers DEF Inv, TypeOK, EditWrite, Tx
<1>5. Current'
  BY CommitKeepsCurrent DEF Inv, EditWrite
<1>6. OneTokenPerDevice'
  BY DEF Inv, OneTokenPerDevice, EditWrite
<1>7. ASSUME NEW u \in Users, a.mailbox = Direct(u) PROVE "edit" \notin a.row
  BY <1>7, DirectEditsAddRows
<1>8. DirectNeverEditable'
  BY <1>3, <1>7, MailboxesDistinct DEF Inv, DirectNeverEditable, Mailboxes, DirectBoxes
<1> QED BY <1>4, <1>5, <1>6, <1>8 DEF Inv

(* register_group's open transaction reads nothing that Current speaks of. *)
LEMMA RegisterReadInv ==
  ASSUME Inv, NEW h \in Handlers, NEW c \in Tokens, NEW g \in Groups, RegisterRead(h, c, g)
  PROVE  Inv'
<1> DEFINE t == [op |-> "group", caller |-> c, group |-> g, stale |-> FALSE]
<1>1. t \in Tx /\ t.op # "edit" /\ t.op # "auth"
  BY DEF Tx, GroupTx
<1>2. Open(h, t) /\ UNCHANGED <<boxes, acl, tokenOf, issued>>
  BY DEF RegisterRead
<1> HIDE DEF t
<1> QED BY <1>1, <1>2, OpenInv

(* register_group touches only the two mailboxes of its group.             *)
LEMMA RegisterWriteInv ==
  ASSUME Inv, NEW h \in Handlers, RegisterWrite(h)
  PROVE  Inv'
<1> DEFINE g == tx[h].group
           c == tx[h].caller
<1>1. g \in Groups /\ c \in Tokens
  BY TxShape DEF Inv, TypeOK, RegisterWrite, Tx, GroupTx
<1>2. \A m \in Mailboxes : InsertAcl(acl[m], c, Rights) \in [Tokens -> Row]
  BY <1>1, InsertAclType DEF Inv, TypeOK, Row
<1>3. /\ acl' \in [Mailboxes -> [Tokens -> Row]]
      /\ \A u \in Users : acl'[Direct(u)] = acl[Direct(u)]
  BY <1>1, <1>2, MailboxesDistinct DEF Inv, TypeOK, RegisterWrite
<1>4. boxes' \in SUBSET Mailboxes
  BY <1>1 DEF Inv, TypeOK, RegisterWrite, Mailboxes
<1>5. TypeOK'
  BY <1>3, <1>4, CommitAgesOthers DEF Inv, TypeOK, RegisterWrite, Tx
<1>6. Current'
  BY CommitKeepsCurrent DEF Inv, RegisterWrite
<1>7. OneTokenPerDevice' /\ DirectNeverEditable'
  BY <1>3 DEF Inv, OneTokenPerDevice, DirectNeverEditable, RegisterWrite
<1> QED BY <1>5, <1>6, <1>7 DEF Inv

(* An open device_auth holds the token that the table has for its device.  *)
LEMMA AuthReadInv ==
  ASSUME Inv, NEW h \in Handlers, NEW d \in Devices, AuthRead(h, d)
  PROVE  Inv'
<1> DEFINE t == [op |-> "auth", device |-> d, existing |-> tokenOf[d], stale |-> FALSE]
<1>1. t \in Tx /\ t.op # "edit"
  BY DEF Tx, AuthTx, Inv, TypeOK
<1>2. Open(h, t) /\ UNCHANGED <<boxes, acl, tokenOf, issued>>
  BY DEF AuthRead
<1>3. tx'[h] = t
  BY <1>2 DEF Open, Inv, TypeOK
<1>4. CurrentAuth(h)'
  BY <1>2, <1>3 DEF CurrentAuth
<1> HIDE DEF t
<1> QED BY <1>1, <1>2, <1>4, OpenInv

(* A token that is returned again is the one the table holds now.          *)
LEMMA AuthKnownInv ==
  ASSUME Inv, NEW h \in Handlers, AuthKnown(h)
  PROVE  Inv'
<1> DEFINE d == tx[h].device
<1>1. d \in Devices /\ UserOf[d] \in Users
  BY TxShape, UserOfType DEF Inv, TypeOK, AuthKnown, Tx, AuthTx
<1>2. tx[h].existing = tokenOf[d] /\ tokenOf[d] # NoToken
  BY DEF Inv, Current, CurrentAuth, AuthKnown, Upgrades
<1>3. UpdateDmMailbox(UserOf[d], NoToken) /\ TypeOK
  BY DEF AuthKnown, Inv
<1>4. /\ boxes' \in SUBSET Mailboxes
      /\ acl' \in [Mailboxes -> [Tokens -> Row]]
      /\ \A m \in Mailboxes, s \in Tokens :
           acl'[m][s] \in {acl[m][s], {"send"}, {"send", "recv"}}
  BY <1>1, <1>3, UpdateDmMailboxRows
<1>5. TypeOK'
  BY <1>1, <1>2, <1>3, <1>4, CommitAgesOthers DEF TypeOK, AuthKnown, Tx
<1>6. Current'
  BY CommitKeepsCurrent DEF Inv, AuthKnown
<1>7. OneTokenPerDevice'
  BY <1>1, <1>2 DEF Inv, OneTokenPerDevice, AuthKnown, TypeOK
<1>8. DirectNeverEditable'
  BY <1>4, MailboxesDistinct DEF Inv, DirectNeverEditable, Mailboxes, DirectBoxes
<1> QED BY <1>5, <1>6, <1>7, <1>8 DEF Inv

(* A new token goes to a device that still has none, and never had one.    *)
LEMMA AuthNewInv ==
  ASSUME Inv, NEW h \in Handlers, AuthNew(h)
  PROVE  Inv'
<1> DEFINE d == tx[h].device
<1>1. d \in Devices /\ UserOf[d] \in Users
  <2>1. tx[h].op = "auth" /\ tx[h] \in Tx
    BY DEF Inv, TypeOK, AuthNew, Tx
  <2> QED BY <2>1, TxShape, UserOfType DEF AuthTx
<1>2. tokenOf[d] = NoToken /\ issued[d] = {}
  <2>1. tokenOf[d] = NoToken
    BY DEF Inv, Current, CurrentAuth, AuthNew, Upgrades
  <2> QED BY <1>1, <2>1, NoTokenIsNone DEF Inv, OneTokenPerDevice, TypeOK
<1>3. PICK t \in Tokens :
        /\ UpdateDmMailbox(UserOf[d], t)
        /\ tokenOf' = [tokenOf EXCEPT ![d] = t]
        /\ issued' = [issued EXCEPT ![d] = @ \cup {t}]
  BY DEF AuthNew
<1>4. /\ boxes' \in SUBSET Mailboxes
      /\ acl' \in [Mailboxes -> [Tokens -> Row]]
      /\ \A m \in Mailboxes, s \in Tokens :
           acl'[m][s] \in {acl[m][s], {"send"}, {"send", "recv"}}
  BY <1>1, <1>3, UpdateDmMailboxRows DEF Inv
<1>5. TypeOK'
  <2>1. tokenOf' \in [Devices -> Tokens \cup {NoToken}] /\ issued' \in [Devices -> SUBSET Tokens]
    BY <1>1, <1>3 DEF Inv, TypeOK
  <2>2. tx' \in [Handlers -> Tx]
    BY CommitAgesOthers DEF Inv, AuthNew
  <2> QED BY <1>4, <2>1, <2>2 DEF TypeOK, Tx
<1>6. Current'
  BY CommitKeepsCurrent DEF Inv, AuthNew
<1>7. OneTokenPerDevice'
  BY <1>1, <1>2, <1>3 DEF Inv, OneTokenPerDevice, TypeOK
<1>8. DirectNeverEditable'
  BY <1>4, MailboxesDistinct DEF Inv, DirectNeverEditable, Mailboxes, DirectBoxes
<1> QED BY <1>5, <1>6, <1>7, <1>8 DEF Inv

-----------------------------------------------------------------------------
(* Every step of the handlers, and a stutter, keep the invariant.          *)
LEMMA StepInv ==
  ASSUME Inv, [Next]_vars
  PROVE  Inv'
<1>1. CASE UNCHANGED vars
  BY <1>1 DEF vars, Inv, TypeOK, Current, CurrentEdit, CurrentAuth, OneTokenPerDevice,
              DirectNeverEditable
<1>2. ASSUME NEW h \in Handlers,
             \/ Abort(h)
             \/ \E a \in EditArgs : EditSelfRemove(h, a) \/ EditRead(h, a)
             \/ EditWrite(h)
             \/ \E t \in Tokens, g \in Groups : RegisterRead(h, t, g)
             \/ RegisterWrite(h)
             \/ \E d \in Devices : AuthRead(h, d)
             \/ AuthKnown(h)
             \/ AuthNew(h)
      PROVE  Inv'
  BY <1>2, AbortInv, EditSelfRemoveInv, EditReadInv, EditWriteInv, RegisterReadInv,
     RegisterWriteInv, AuthReadInv, AuthKnownInv, AuthNewInv
<1> QED BY <1>1, <1>2 DEF Next

(* The strengthened invariant: besides the safety properties of the        *)
(* tables, what a transaction read still holds until a commit ages it.     *)
THEOREM Invariance == Spec => []Inv
<1>1. Init => Inv
  BY InitInv
<1>2. Inv /\ [Next]_vars => Inv'
  BY StepInv
<1> QED BY <1>1, <1>2, PTL DEF Spec

(* The tables, the open transactions and the history are always well       *)
(* formed: an edit cannot write a row for a mailbox or a set of rights     *)
(* that does not exist, and device_auth never returns a missing token.     *)
THEOREM TypeCorrect == Spec => []TypeOK
<1>1. Inv => TypeOK
  BY DEF Inv
<1> QED BY <1>1, Invariance, PTL

(* device_auth returns one token per device, whatever its requests race    *)
(* with: with the snapshot of a transaction refused once it is old, the    *)
(* SELECT that found no token still finds none when the INSERT is made.    *)
THEOREM OneToken == Spec => []OneTokenPerDevice
<1>1. Inv => OneTokenPerDevice
  BY DEF Inv
<1> QED BY <1>1, Invariance, PTL

(* No sequence of device_auth, register_group and mailbox_acl_edit calls,  *)
(* by any clients, gives any token the right to edit a direct mailbox.     *)
THEOREM DirectMailboxesHaveNoEditor == Spec => []DirectNeverEditable
<1>1. Inv => DirectNeverEditable
  BY DEF Inv
<1> QED BY <1>1, Invariance, PTL

(* Every row given to a token is given by one who, when it appears, may    *)
(* edit the mailbox or holds all the rights given.                         *)
THEOREM GrantsFollow == Spec => GrantsFollowRights
<1> DEFINE Grant(h) ==
      tx[h].op = "edit" /\ acl' # acl /\ tx'[h] = Idle
         => LET a == tx[h].arg
                holder == AclForToken(acl[a.mailbox], a.caller)
            IN  \/ "edit" \in holder
                \/ acl[a.mailbox][a.target] = Absent /\ a.row \subseteq holder
<1>1. ASSUME Inv, Next, NEW h \in Handlers, tx[h].op = "edit", acl' # acl, tx'[h] = Idle
      PROVE  EditWrite(h)
  <2>1. tx[h] # Idle
    BY <1>1 DEF Idle
  <2>2. ASSUME NEW g \in Handlers, g # h, Commit(g) PROVE FALSE
    <3>1. tx'[h] = [tx[h] EXCEPT !.stale = TRUE]
      BY <2>1, <2>2 DEF Commit
    <3>2. tx[h] \in EditTx
      BY <1>1, TxShape DEF Inv, TypeOK, Tx
    <3> QED BY <1>1, <3>1, <3>2 DEF Idle, EditTx
  <2>3. PICK g \in Handlers :
          \/ \E a \in EditArgs : EditSelfRemove(g, a)
          \/ EditWrite(g) \/ RegisterWrite(g) \/ AuthKnown(g) \/ AuthNew(g)
    BY <1>1 DEF Next, Abort, EditRead, RegisterRead, AuthRead
  <2>4. Commit(g)
    BY <2>3 DEF EditSelfRemove, EditWrite, RegisterWrite, AuthKnown, AuthNew
  <2>5. g = h
    BY <2>2, <2>4
  <2> QED BY <1>1, <2>1, <2>3, <2>5
          DEF EditSelfRemove, RegisterWrite, AuthKnown, AuthNew
<1>2. ASSUME Inv, [Next]_vars, NEW h \in Handlers PROVE Grant(h)
  <2> SUFFICES ASSUME tx[h].op = "edit", acl' # acl, tx'[h] = Idle PROVE Grant(h)
    OBVIOUS
  <2>1. EditWrite(h)
    BY <1>1, <1>2 DEF vars
  <2> QED BY <1>2, <2>1 DEF Inv, Current, CurrentEdit, EditWrite, Upgrades, EditAllowed, AclIsSubset
<1>3. Inv /\ [Next]_vars => [\A h \in Handlers : Grant(h)]_vars
  BY <1>2
<1> QED BY <1>3, Invariance, PTL DEF Spec, GrantsFollowRights

(* A row of a direct mailbox is changed by nothing but its own token's     *)
(* removing it: no edit of another client and no device_auth replaces it.  *)
THEOREM DirectRowsAreStable == Spec => DirectRowsStable
<1> DEFINE Kept(u, t) ==
      acl[Direct(u)][t] # Absent /\ acl'[Direct(u)][t] # acl[Direct(u)][t]
        => /\ acl'[Direct(u)][t] = Absent
           /\ \E a \in EditArgs : a.caller = t /\ a.target = t /\ AclIsEmpty(a.row)
<1>1. ASSUME Inv, Next, NEW u \in Users, NEW t \in Tokens \ {Anonymous},
             acl[Direct(u)][t] # Absent, acl'[Direct(u)][t] # acl[Direct(u)][t]
      PROVE  /\ acl'[Direct(u)][t] = Absent
             /\ \E a \in EditArgs : a.caller = t /\ a.target = t /\ AclIsEmpty(a.row)
  <2>1. Direct(u) \in Mailboxes
    BY DEF Direct, DirectBoxes, Mailboxes
  <2>2. PICK h \in Handlers :
          \/ \E a \in EditArgs : EditSelfRemove(h, a)
          \/ EditWrite(h) \/ RegisterWrite(h) \/ AuthKnown(h) \/ AuthNew(h)
    BY <1>1 DEF Next, Abort, EditRead, RegisterRead, AuthRead
  <2>3. ASSUME NEW a \in EditArgs, EditSelfRemove(h, a)
        PROVE  acl'[Direct(u)][t] = Absent /\ a.caller = t /\ a.target = t /\ AclIsEmpty(a.row)
    <3>1. a.mailbox \in Mailboxes /\ a.target \in Tokens
      BY EditArgsType DEF EditArg
    <3>2. DeleteAcl(acl[a.mailbox], a.target) \in [Tokens -> Row]
      BY <3>1, <1>1 DEF Inv, TypeOK, DeleteAcl, Row
    <3>3. acl'[Direct(u)][t] = IF Direct(u) = a.mailbox /\ t = a.target THEN Absent
                               ELSE acl[Direct(u)][t]
      BY <1>1, <2>1, <2>3, <3>1, <3>2 DEF EditSelfRemove, DeleteAcl, Inv, TypeOK
    <3> QED BY <1>1, <2>3, <3>3 DEF EditSelfRemove
  <2>4. ASSUME EditWrite(h) PROVE FALSE
    <3> DEFINE a == tx[h].arg
    <3>1. a.mailbox \in Mailboxes /\ a.target \in Tokens
      <4>1. tx[h].op = "edit" /\ tx[h] \in Tx
        BY <1>1, <2>4 DEF Inv, TypeOK, EditWrite, Tx
      <4> QED BY <4>1, TxShape DEF EditTx, EditArg
    <3>2. acl' = [acl EXCEPT ![a.mailbox] = InsertAcl(acl[a.mailbox], a.target, a.row)]
      BY <2>4 DEF EditWrite
    <3> HIDE DEF a
    <3>3. Direct(u) = a.mailbox /\ t = a.target
      BY <1>1, <2>1, <3>1, <3>2 DEF InsertAcl, Inv, TypeOK
    <3> QED BY <1>1, <2>4, <3>3, DirectEditsAddRows DEF a
  <2>5. ASSUME RegisterWrite(h) PROVE FALSE
    <3>1. tx[h].group \in Groups
      <4>1. tx[h].op = "group" /\ tx[h] \in Tx
        BY <1>1, <2>5 DEF Inv, TypeOK, RegisterWrite, Tx
      <4> QED BY <4>1, TxShape DEF GroupTx
    <3>2. acl'[Direct(u)] = acl[Direct(u)]
      BY <2>1, <2>5, <3>1, MailboxesDistinct DEF RegisterWrite
    <3> QED BY <1>1, <3>2
  <2>6. ASSUME AuthKnown(h) \/ AuthNew(h) PROVE FALSE
    <3> DEFINE d == tx[h].device
    <3>1. UserOf[d] \in Users
      <4>1. tx[h].op = "auth" /\ tx[h] \in Tx
        BY <1>1, <2>6 DEF Inv, TypeOK, AuthKnown, AuthNew, Tx
      <4> QED BY <4>1, TxShape, UserOfType DEF AuthTx
    <3>2. PICK n \in Tokens \cup {NoToken} :
            UpdateDmMailbox(UserOf[d], n) /\ (n # NoToken => Fresh(n))
      BY <2>6, NoTokenIsNone DEF AuthKnown, AuthNew
    <3> HIDE DEF d
    <3>3. t = n
      BY <1>1, <2>1, <3>1, <3>2, UpdateDmMailboxRows DEF Inv
    <3>4. acl[Direct(u)][t] = Absent
      BY <1>1, <2>1, <3>2, <3>3, NoTokenIsNone DEF Fresh
    <3> QED BY <1>1, <3>4
  <2> QED BY <2>2, <2>3, <2>4, <2>5, <2>6
<1>2. Inv /\ [Next]_vars => [\A u \in Users, t \in Tokens \ {Anonymous} : Kept(u, t)]_vars
  BY <1>1 DEF vars
<1> QED BY <1>2, Invariance, PTL DEF Spec, DirectRowsStable

-----------------------------------------------------------------------------
(* Who made an update is the last entry of its hash.                       *)
Authentic(u) ==
  LET n == Len(u.id)
  IN  u.signer = u.owner /\ u.kind = u.id[n][1] /\ u.owner = u.id[n][2]
AllAuthentic(h) == \A i \in 1 .. Len(h) : Authentic(h[i])

(* A history has a descriptor of pk.                                       *)
Says(h, pk) == \E i \in 1 .. Len(h) : h[i].kind = "update" /\ h[i].owner = pk

Begins(g, h) == Len(g) <= Len(h) /\ \A i \in 1 .. Len(g) : h[i] = g[i]
-----------------------------------------------------------------------------
(* Every nonempty set of natural numbers has a least member.               *)
LEMMA LeastElement ==
  ASSUME NEW S \in SUBSET Nat, S # {}
  PROVE  \E x \in S : \A y \in S : x <= y
<1>1. PICK x \in S : \A y \in S : <<y, x>> \notin OpToRel(<, Nat)
  BY NatLessThanWellFounded, WFMin
<1>2. \A y \in S : ~(y < x)
  BY <1>1 DEF OpToRel
<1> QED BY <1>2

LEMMA GreatestElement ==
  ASSUME NEW n \in Nat, NEW S \in SUBSET (1 .. n), S # {}
  PROVE  \E x \in S : \A y \in S : y <= x
<1> DEFINE T == {n - y : y \in S}
<1>1. PICK z \in T : \A y \in T : z <= y
  <2>1. T # {}
    OBVIOUS
  <2>2. ASSUME NEW z \in T PROVE z \in Nat
    <3>1. PICK y \in S : z = n - y
      OBVIOUS
    <3>2. y \in 1 .. n
      OBVIOUS
    <3> QED BY <3>1, <3>2
  <2> HIDE DEF T
  <2> QED BY <2>1, <2>2, LeastElement
<1>2. PICK x \in S : z = n - x
  OBVIOUS
<1>3. ASSUME NEW y \in S PROVE y <= x
  <2>1. n - x <= n - y
    BY <1>1, <1>2
  <2> QED BY <2>1
<1> QED BY <1>3

(* What the owners after each prefix of a history are, as a recursion: the *)
(* function that OwnersAfter chooses exists.                               *)
OwnersWith(u, owners) ==
  CASE u.kind = "add" -> owners \cup {u.owner}
    [] u.kind = "del" -> owners \ {u.owner}
    [] OTHER -> owners

IsOwners(f, h, n) ==
  f = [i \in 0 .. n |-> IF i = 0 THEN {} ELSE OwnersWith(h[i], f[i - 1])]

LEMMA OwnersExist ==
  ASSUME NEW h, NEW n \in Nat
  PROVE  \E f : IsOwners(f, h, n)
<1> DEFINE S == {k \in Nat : ~\E f : IsOwners(f, h, k)}
<1> SUFFICES ASSUME S # {} PROVE FALSE
  OBVIOUS
<1>1. PICK k \in S : \A y \in S : k <= y
  <2>1. S \in SUBSET Nat
    OBVIOUS
  <2> HIDE DEF S
  <2> QED BY <2>1, LeastElement
<1>2. k # 0
  <2>1. IsOwners([i \in 0 .. 0 |-> {}], h, 0)
    BY DEF IsOwners
  <2> QED BY <1>1, <2>1
<1>3. k - 1 \in Nat /\ k - 1 \notin S
  BY <1>1, <1>2
<1>4. PICK f : IsOwners(f, h, k - 1)
  BY <1>3
<1>5. PICK last : last = OwnersWith(h[k], f[k - 1])
  OBVIOUS
<1> DEFINE g == [i \in 0 .. k |-> IF i = k THEN last ELSE f[i]]
<1>6. \A i \in 0 .. k - 1 : f[i] = IF i = 0 THEN {} ELSE OwnersWith(h[i], f[i - 1])
  BY <1>3, <1>4 DEF IsOwners
<1>7. g[k] = last /\ \A i \in 0 .. k - 1 : g[i] = f[i]
  OBVIOUS
<1>8. g = [i \in 0 .. k |-> g[i]]
  OBVIOUS
<1> HIDE DEF g
<1>9. ASSUME NEW i \in 0 .. k
      PROVE  g[i] = IF i = 0 THEN {} ELSE OwnersWith(h[i], g[i - 1])
  <2>1. CASE i = k
    <3>1. k - 1 \in 0 .. k - 1
      BY <1>3
    <3> QED BY <1>2, <1>5, <1>7, <2>1, <3>1
  <2>2. CASE i # k /\ i # 0
    <3>1. i \in 0 .. k - 1 /\ i - 1 \in 0 .. k - 1
      BY <2>2
    <3> QED BY <1>6, <1>7, <2>2, <3>1
  <2>3. CASE i = 0
    <3>1. i \in 0 .. k - 1
      BY <1>3, <2>3
    <3> QED BY <1>6, <1>7, <2>3, <3>1
  <2> QED BY <2>1, <2>2, <2>3
<1>10. IsOwners(g, h, k)
  BY <1>8, <1>9 DEF IsOwners
<1> QED BY <1>1, <1>10

LEMMA OwnersAre ==
  ASSUME NEW h, Len(h) \in Nat
  PROVE  /\ OwnersAfter(h)[0] = {}
         /\ \A i \in 1 .. Len(h) : OwnersAfter(h)[i] = OwnersWith(h[i], OwnersAfter(h)[i - 1])
<1>1. PICK f : f = CHOOSE g : IsOwners(g, h, Len(h))
  OBVIOUS
<1>2. IsOwners(f, h, Len(h))
  BY <1>1, OwnersExist
<1>3. OwnersAfter(h) = f
  BY <1>1 DEF OwnersAfter, IsOwners, OwnersWith
<1>4. \A i \in 0 .. Len(h) : f[i] = IF i = 0 THEN {} ELSE OwnersWith(h[i], f[i - 1])
  BY <1>2 DEF IsOwners
<1>5. 0 \in 0 .. Len(h) /\ \A i \in 1 .. Len(h) : i \in 0 .. Len(h) /\ i # 0
  OBVIOUS
<1> QED BY <1>3, <1>4, <1>5

(* In a history of the updates these clients make, each is signed by the   *)
(* key it is about: the first one's key stays the only owner, and the      *)
(* descriptor, if there is one, is its.                                    *)
LEMMA OneOwner ==
  ASSUME NEW h \in Seq(Made), VerifyHistory(h), AllAuthentic(h), NEW i \in 1 .. Len(h)
  PROVE  OwnersAfter(h)[i] = {h[1].owner} /\ h[i].owner = h[1].owner
<1>1. Len(h) \in Nat /\ \A j \in 1 .. Len(h) : h[j] \in Made
  BY LenProperties, ElementOfSeq
<1> DEFINE Good(j) == OwnersAfter(h)[j] = {h[1].owner} /\ h[j].owner = h[1].owner
           S == {j \in 1 .. Len(h) : ~Good(j)}
<1> HIDE DEF Good
<1> SUFFICES ASSUME S # {} PROVE FALSE
  BY DEF Good
<1>2. PICK k \in S : \A y \in S : k <= y
  <2>1. S \in SUBSET Nat
    BY <1>1
  <2> HIDE DEF S
  <2> QED BY <2>1, LeastElement
<1>3. k \in 1 .. Len(h) /\ Authorised(h, k) /\ h[k].signer = h[k].owner /\ h[k] \in Made
  BY <1>1, <1>2 DEF VerifyHistory, AllAuthentic, Authentic
<1>4. h[k].kind \in {"add", "update"}
  BY <1>3 DEF Made
<1>5. OwnersAfter(h)[k] = OwnersWith(h[k], OwnersAfter(h)[k - 1])
  BY <1>1, <1>3, OwnersAre
<1>6. CASE k = 1
  <2>1. OwnersAfter(h)[k - 1] = {}
    BY <1>1, <1>6, OwnersAre
  <2>2. h[k].kind = "add"
    BY <1>3, <2>1 DEF Authorised
  <2>3. OwnersAfter(h)[k] = {h[k].owner}
    BY <1>5, <2>1, <2>2 DEF OwnersWith
  <2> QED BY <1>2, <1>6, <2>3 DEF Good
<1>7. CASE k # 1
  <2>1. k - 1 \in 1 .. Len(h) /\ k - 1 \notin S
    BY <1>1, <1>2, <1>7
  <2>2. OwnersAfter(h)[k - 1] = {h[1].owner}
    BY <2>1 DEF Good
  <2>3. h[k].owner = h[1].owner
    BY <1>3, <2>2 DEF Authorised
  <2>4. OwnersAfter(h)[k] = {h[1].owner}
    BY <1>4, <1>5, <2>2, <2>3 DEF OwnersWith
  <2> QED BY <1>2, <2>3, <2>4 DEF Good
<1> QED BY <1>6, <1>7

LEMMA SaysIsOwned ==
  ASSUME NEW h \in Seq(Made), VerifyHistory(h), AllAuthentic(h), NEW pk, Says(h, pk)
  PROVE  Owners(h) = {pk} /\ Descriptor(h) = pk
<1>1. Len(h) \in Nat
  BY LenProperties
<1>2. PICK i \in 1 .. Len(h) : h[i].kind = "update" /\ h[i].owner = pk
  BY DEF Says
<1>3. pk = h[1].owner /\ Len(h) \in 1 .. Len(h)
  BY <1>1, <1>2, OneOwner
<1>4. Owners(h) = {pk}
  BY <1>3, OneOwner DEF Owners
<1>5. PICK D : D = Descriptors(h)
  OBVIOUS
<1>6. D \in SUBSET (1 .. Len(h)) /\ i \in D
  BY <1>2, <1>5 DEF Descriptors
<1>7. PICK x : x = CHOOSE y \in D : \A j \in D : j <= y
  OBVIOUS
<1>8. x \in D
  <2>1. \E y \in D : \A j \in D : j <= y
    BY <1>1, <1>6, GreatestElement
  <2> QED BY <1>7, <2>1
<1>9. Descriptor(h) = h[x].owner
  BY <1>5, <1>6, <1>7 DEF Descriptor
<1> QED BY <1>3, <1>4, <1>6, <1>8, <1>9, OneOwner

LEMMA DescriptorIsSaid ==
  ASSUME NEW h \in Seq(Made), NEW pk \in Pks, Descriptor(h) = pk
  PROVE  Says(h, pk)
<1>1. Len(h) \in Nat
  BY LenProperties
<1>2. PICK D : D = Descriptors(h)
  OBVIOUS
<1>3. D # {} /\ D \in SUBSET (1 .. Len(h))
  BY <1>2, NoDescriptorIsNone DEF Descriptor, Descriptors
<1>4. PICK x : x = CHOOSE y \in D : \A j \in D : j <= y
  OBVIOUS
<1>5. x \in D
  <2>1. \E y \in D : \A j \in D : j <= y
    BY <1>1, <1>3, GreatestElement
  <2> QED BY <1>4, <2>1
<1>6. h[x].owner = pk
  BY <1>2, <1>3, <1>4 DEF Descriptor
<1>7. x \in 1 .. Len(h) /\ h[x].kind = "update"
  BY <1>2, <1>5 DEF Descriptors
<1> QED BY <1>6, <1>7 DEF Says

LEMMA SaysStays ==
  ASSUME NEW g, NEW h, Len(g) \in Nat, Len(h) \in Nat, Begins(g, h), NEW pk, Says(g, pk)
  PROVE  Says(h, pk)
<1>1. PICK i \in 1 .. Len(g) : g[i].kind = "update" /\ g[i].owner = pk
  BY DEF Says
<1>2. i \in 1 .. Len(h) /\ h[i] = g[i]
  BY <1>1 DEF Begins
<1> QED BY <1>1, <1>2 DEF Says
-----------------------------------------------------------------------------
(* The types, and that heights are of chunks there are.                    *)
Heights ==
  /\ RegistrationTypeOK
  /\ Len(ledger) \in 1 .. MaxHeight
  /\ \A t \in Tasks : task[t].at <= Len(ledger) /\ task[t].anchor <= Len(ledger)
  /\ \A c \in Clients, h \in 1 .. MaxHeight :
       cache[c][h] <= Len(ledger) /\ (cache[c][h] # 0 => h <= cache[c][h])
  /\ \A t \in Tasks :
       /\ task[t].pc \in {"anchor", "sync", "locked", "got"} => task[t].at # 0
       /\ task[t].pc \in {"insert", "checked"} => task[t].sent # NothingSent

(* Why lookups fail.                                                       *)
LookupHolds(t) ==
  /\ task[t].why # "" => task[t].pc = "failed"
  /\ task[t].why = "lookup" => t \in overtaken
  /\ task[t].pc \in {"sync", "locked"} => task[t].at <= task[t].anchor
  /\ task[t].pc \in {"anchor", "sync"} /\ t \notin overtaken => stored[Db(t)] <= task[t].at
  /\ task[t].pc = "locked" => syncing[Db(t)] = t
  /\ task[t].pc = "locked" /\ t \notin overtaken => stored[Db(t)] <= task[t].anchor
Lookups == \A t \in Tasks : LookupHolds(t)

(* The histories: each verifies and begins the last one.                   *)
Histories ==
  /\ \A k \in Keys : AllAuthentic(staged[k])
  /\ \A i \in 1 .. Len(ledger), k \in Keys :
       /\ VerifyHistory(ledger[i][k]) /\ AllAuthentic(ledger[i][k])
       /\ Begins(ledger[i][k], Now(k))

(* What a task goes on to tell the world: the directory says it already.   *)
KeyFor(t) == PkOf[IF KindOf[t] = "device" THEN BundleOf[t] ELSE t]
Told(t) == Says(Now(KeyOf[t]), KeyFor(t))

Registrations ==
  /\ \A t \in Tasks :
       /\ task[t].stage \in {"add", "adding", "describe", "describing"} =>
            KindOf[t] \in {"user", "server"}
       /\ task[t].stage = "describing" /\ task[t].pc # "ok" =>
            task[t].sent # NothingSent /\ task[t].sent[Len(task[t].sent)] = <<"update", PkOf[t]>>
       /\ task[t].stage \in {"auth", "upload", "persist"} =>
            KindOf[t] \in {"user", "device"} /\ Told(t)
       /\ task[t].pc = "ok" => Told(t)
  /\ \A d \in Databases :
       identity[d] # Nobody =>
         /\ identity[d] \in Tasks /\ Db(identity[d]) = d /\ At(identity[d], "ok")

RegInv == Heights /\ Lookups /\ Histories /\ Registrations
-----------------------------------------------------------------------------
(* What a step makes of its task's row; the other rows stay.               *)
Becomes(t, pc, stage, at, anchor, sent, read, why) ==
  /\ task' \in [Tasks -> Task(Stages)]
  /\ \A q \in Tasks \ {t} : task'[q] = task[q]
  /\ task'[t].pc = pc /\ task'[t].stage = stage
  /\ task'[t].at = at /\ task'[t].anchor = anchor
  /\ task'[t].sent = sent /\ task'[t].read = read /\ task'[t].why = why

LEMMA RowIs ==
  ASSUME NEW r \in Task(Stages)
  PROVE  /\ r.pc \in Pcs /\ r.stage \in Stages /\ r.at \in 0 .. MaxHeight
         /\ r.anchor \in 0 .. MaxHeight /\ r.sent \in Hashes /\ r.read \in 0 .. MaxHeight
         /\ r.why \in {"", "lookup", "other"}
BY DEF Task

LEMMA GotoIs ==
  ASSUME task \in [Tasks -> Task(Stages)], NEW t \in Tasks, NEW pc \in Pcs, task' = Goto(t, pc)
  PROVE  Becomes(t, pc, task[t].stage, task[t].at, task[t].anchor, task[t].sent,
                 task[t].read, task[t].why)
BY DEF Goto, Becomes, Task

LEMMA FailedIs ==
  ASSUME task \in [Tasks -> Task(Stages)], NEW t \in Tasks, NEW why \in {"", "lookup", "other"},
         task' = Failed(t, why)
  PROVE  Becomes(t, "failed", task[t].stage, task[t].at, task[t].anchor, task[t].sent,
                 task[t].read, why)
BY DEF Failed, Becomes, Task, Pcs

LEMMA NextStageIs ==
  ASSUME task \in [Tasks -> Task(Stages)], NEW t \in Tasks, NEW pc \in Pcs, NEW stage \in Stages,
         NextStage(t, pc, stage)
  PROVE  Becomes(t, pc, stage, task[t].at, task[t].anchor, NothingSent, task[t].read, task[t].why)
<1>1. NothingSent \in Hashes
  BY EmptySeq DEF NothingSent, Hashes
<1> QED BY <1>1 DEF NextStage, Becomes, Task

LEMMA InsertBeginIs ==
  ASSUME task \in [Tasks -> Task(Stages)], NEW t \in Tasks, NEW stage \in Stages,
         NEW kind \in {"add", "update"}, NEW pk \in Pks, LastHash(History(t)) \in Hashes,
         InsertBegin(t, kind, pk, stage)
  PROVE  \E sent \in Hashes :
           /\ Becomes(t, "insert", stage, task[t].at, task[t].anchor, sent, task[t].read, task[t].why)
           /\ sent # NothingSent /\ sent[Len(sent)] = <<kind, pk>>
<1>1. PICK s \in Hashes : s = LastHash(History(t))
  OBVIOUS
<1>2. PICK e \in {"add", "update"} \X Pks : e = <<kind, pk>>
  OBVIOUS
<1>3. PICK sent \in Hashes : sent = Append(s, e)
  BY AppendProperties DEF Hashes
<1>4. sent # NothingSent /\ sent[Len(sent)] = e
  BY <1>1, <1>3, AppendProperties, LenProperties DEF Hashes, NothingSent
<1>5. task' = [task EXCEPT ![t].pc = "insert", ![t].stage = stage, ![t].sent = sent]
  BY <1>1, <1>2, <1>3 DEF InsertBegin
<1>6. Becomes(t, "insert", stage, task[t].at, task[t].anchor, sent, task[t].read, task[t].why)
  BY <1>5, ZenonT(60) DEF Becomes, Task, Pcs
<1> QED BY <1>2, <1>4, <1>6

(* The stores of the directory's updates.                                  *)
LEMMA SignedIs ==
  ASSUME NEW hash \in Hashes, hash # NothingSent
  PROVE  /\ Signed(hash) \in Made /\ Authentic(Signed(hash)) /\ Signed(hash).id = hash
         /\ Signed(hash).kind = hash[Len(hash)][1] /\ Signed(hash).owner = hash[Len(hash)][2]
<1>1. PICK n \in Nat \ {0} : n = Len(hash)
  BY EmptySeq, LenProperties DEF Hashes, NothingSent
<1>2. hash[n] \in {"add", "update"} \X Pks
  BY <1>1, ElementOfSeq DEF Hashes
<1>3. SubSeq(hash, 1, n - 1) \in Hashes
  BY <1>1, SubSeqProperties, ElementOfSeq DEF Hashes
<1>4. PICK p \in Hashes, kind \in {"add", "update"}, pk \in Pks :
        p = SubSeq(hash, 1, n - 1) /\ kind = hash[n][1] /\ pk = hash[n][2]
  BY <1>2, <1>3
<1>5. Signed(hash) = [id |-> hash, prev |-> p, kind |-> kind, owner |-> pk, signer |-> pk]
  BY <1>1, <1>4 DEF Signed
<1>6. Signed(hash) \in Made
  BY <1>5 DEF Made
<1> QED BY <1>1, <1>4, <1>5, <1>6 DEF Authentic

LEMMA AppendIs ==
  ASSUME NEW h \in Seq(Made), NEW u \in Made
  PROVE  /\ Append(h, u) \in Seq(Made) /\ Len(h) \in Nat /\ Len(Append(h, u)) = Len(h) + 1
         /\ \A i \in 1 .. Len(h) : Append(h, u)[i] = h[i]
         /\ Append(h, u)[Len(h) + 1] = u
BY AppendProperties, LenProperties

LEMMA HistoryIs ==
  ASSUME Heights, NEW t \in Tasks, task[t].pc = "got"
  PROVE  /\ task[t].at \in 1 .. Len(ledger) /\ KeyOf[t] \in Keys
         /\ History(t) \in Seq(Made) /\ LastHash(History(t)) \in Hashes
<1>1. /\ task[t].at \in 1 .. Len(ledger) /\ KeyOf[t] \in Keys
      /\ Len(ledger) \in Nat /\ ledger \in Seq([Keys -> Seq(Made)])
  <2>1. task[t] \in Task(Stages) /\ Len(ledger) \in Nat /\ task[t].at <= Len(ledger)
    BY DEF Heights, RegistrationTypeOK, ClientTypeOK
  <2>2. task[t].at \in Nat /\ task[t].at # 0
    <3>1. task[t].at \in 0 .. MaxHeight
      BY <2>1, RowIs
    <3>2. task[t].at # 0
      BY DEF Heights
    <3> QED BY <3>1, <3>2, BoundsAreNat
  <2>3. ledger \in Seq([Keys -> Seq(Made)])
    BY DEF Heights, RegistrationTypeOK, ClientTypeOK
  <2> QED BY <2>1, <2>2, <2>3, KeyOfType
<1>2. History(t) \in Seq(Made)
  BY <1>1, ElementOfSeq DEF History
<1>3. PICK h \in Seq(Made) : h = History(t)
  BY <1>2
<1>4. LastHash(h) \in Hashes
  <2>1. CASE h = <<>>
    BY <2>1, EmptySeq DEF LastHash, NothingSent, Hashes
  <2>2. CASE h # <<>>
    <3>1. Len(h) \in 1 .. Len(h)
      BY <2>2, EmptySeq, LenProperties
    <3>2. h[Len(h)] \in Made
      BY <3>1, ElementOfSeq
    <3> QED BY <2>2, <3>2 DEF LastHash, Made
  <2> QED BY <2>1, <2>2
<1> QED BY <1>1, <1>3, <1>4
-----------------------------------------------------------------------------
(* Heights.                                                                *)
LEMMA TypesOf ==
  ASSUME RegistrationTypeOK
  PROVE  /\ ledger \in Seq([Keys -> Seq(Made)]) /\ staged \in [Keys -> Seq(Made)]
         /\ anchorAt \in 1 .. Len(ledger) /\ stored \in [Databases -> 0 .. Len(ledger)]
         /\ cache \in [Clients -> [1 .. MaxHeight -> 0 .. MaxHeight]]
         /\ syncing \in [Databases -> Tasks \cup {Nobody}]
         /\ task \in [Tasks -> Task(Stages)] /\ overtaken \subseteq Tasks
         /\ faults \in 0 .. MaxFaults
         /\ identity \in [Databases -> Tasks \cup {Nobody}] /\ running \in Workloads
BY DEF RegistrationTypeOK, ClientTypeOK

LEMMA DbIs ==
  ASSUME NEW t \in Tasks
  PROVE  ClientOf[t] \in Clients /\ Db(t) \in Databases
BY ClientOfType, DbOfType DEF Db

(* A step of one task that leaves the chain and the headers.               *)
LEMMA HeightsKept ==
  ASSUME Heights, NEW t \in Tasks,
         NEW pc, NEW stage, NEW at, NEW anchor, NEW sent, NEW read, NEW why,
         Becomes(t, pc, stage, at, anchor, sent, read, why),
         UNCHANGED <<ledger, anchorAt, stored, cache, running>>,
         staged' \in [Keys -> Seq(Made)], syncing' \in [Databases -> Tasks \cup {Nobody}],
         overtaken' \subseteq Tasks, faults' \in 0 .. MaxFaults,
         identity' \in [Databases -> Tasks \cup {Nobody}],
         at <= Len(ledger), anchor <= Len(ledger),
         pc \in {"anchor", "sync", "locked", "got"} => at # 0,
         pc \in {"insert", "checked"} => sent # NothingSent
  PROVE  Heights'
<1>1. RegistrationTypeOK'
  BY TypesOf DEF Heights, RegistrationTypeOK, ClientTypeOK, Becomes
<1>2. \A q \in Tasks :
        /\ task'[q].at <= Len(ledger) /\ task'[q].anchor <= Len(ledger)
        /\ task'[q].pc \in {"anchor", "sync", "locked", "got"} => task'[q].at # 0
        /\ task'[q].pc \in {"insert", "checked"} => task'[q].sent # NothingSent
  <2>1. SUFFICES ASSUME NEW q \in Tasks
                 PROVE  /\ task'[q].at <= Len(ledger) /\ task'[q].anchor <= Len(ledger)
                        /\ task'[q].pc \in {"anchor", "sync", "locked", "got"} => task'[q].at # 0
                        /\ task'[q].pc \in {"insert", "checked"} => task'[q].sent # NothingSent
    OBVIOUS
  <2>2. CASE q = t
    BY <2>2 DEF Becomes
  <2>3. CASE q # t
    <3>1. task'[q] = task[q]
      BY <2>3 DEF Becomes
    <3> QED BY <3>1 DEF Heights
  <2> QED BY <2>2, <2>3
<1> QED BY <1>1, <1>2 DEF Heights

LEMMA InitHeights ==
  ASSUME RegistrationInit
  PROVE  Heights
<1>1. Len(ledger) = 1 /\ ledger \in Seq([Keys -> Seq(Made)]) /\ staged \in [Keys -> Seq(Made)]
  <2>1. NoHistories \in [Keys -> Seq(Made)]
    BY EmptySeq DEF NoHistories
  <2>2. ledger = <<NoHistories>> /\ staged = NoHistories
    BY DEF RegistrationInit, ClientInit
  <2> QED BY <2>1, <2>2
<1>2. \A t \in Tasks : task[t] = [pc |-> "off", stage |-> "query", at |-> 0, anchor |-> 0,
                                  sent |-> NothingSent, read |-> 0, why |-> ""]
  BY DEF RegistrationInit, ClientInit
<1>3. task \in [Tasks -> Task(Stages)]
  <2>1. NothingSent \in Hashes
    BY EmptySeq DEF NothingSent, Hashes
  <2>2. task = [t \in Tasks |-> task[t]]
    BY DEF RegistrationInit, ClientInit
  <2>3. [pc |-> "off", stage |-> "query", at |-> 0, anchor |-> 0,
         sent |-> NothingSent, read |-> 0, why |-> ""] \in Task(Stages)
    BY <2>1, BoundsAreNat DEF Task, Pcs, Stages
  <2>4. \A t \in Tasks : task[t] \in Task(Stages)
    BY <1>2, <2>3
  <2> QED BY <2>2, <2>4
<1>4. /\ anchorAt = 1 /\ stored = [d \in Databases |-> 0]
      /\ cache = [c \in Clients |-> [h \in 1 .. MaxHeight |-> 0]]
      /\ syncing = [d \in Databases |-> Nobody] /\ overtaken = {} /\ faults = 0
      /\ identity = [d \in Databases |-> Nobody] /\ running \in Workloads
  BY DEF RegistrationInit, ClientInit
<1>5. RegistrationTypeOK
  BY <1>1, <1>3, <1>4, BoundsAreNat DEF RegistrationTypeOK, ClientTypeOK
<1>6. ASSUME NEW t \in Tasks
      PROVE  task[t].at = 0 /\ task[t].anchor = 0 /\ task[t].pc = "off"
  <2>1. PICK r : r = [pc |-> "off", stage |-> "query", at |-> 0, anchor |-> 0,
                      sent |-> NothingSent, read |-> 0, why |-> ""]
    OBVIOUS
  <2>2. task[t] = r
    BY <1>2, <2>1
  <2>3. r.at = 0 /\ r.anchor = 0 /\ r.pc = "off"
    BY <2>1
  <2> QED BY <2>2, <2>3
<1>7. \A c \in Clients, h \in 1 .. MaxHeight : cache[c][h] = 0
  BY <1>4
<1> QED BY <1>1, <1>5, <1>6, <1>7, BoundsAreNat DEF Heights

LEMMA HeightsCall ==
  ASSUME Heights, NEW t \in Tasks, CallNext(t), UNCHANGED <<identity, running>>
  PROVE  Heights'
<1>0. /\ task \in [Tasks -> Task(Stages)] /\ task[t] \in Task(Stages)
      /\ task[t].at <= Len(ledger) /\ task[t].anchor <= Len(ledger)
      /\ Len(ledger) \in 1 .. MaxHeight /\ anchorAt \in 1 .. Len(ledger)
      /\ staged \in [Keys -> Seq(Made)] /\ syncing \in [Databases -> Tasks \cup {Nobody}]
      /\ overtaken \subseteq Tasks /\ faults \in 0 .. MaxFaults
      /\ identity \in [Databases -> Tasks \cup {Nobody}]
  BY TypesOf DEF Heights
<1>1. /\ task[t].pc \in {"anchor", "sync", "locked", "got"} => task[t].at # 0
      /\ task[t].pc \in {"insert", "checked"} => task[t].sent # NothingSent
  BY DEF Heights
<1>2. /\ task[t].at \in 0 .. MaxHeight /\ task[t].anchor \in 0 .. MaxHeight
      /\ task[t].sent \in Hashes /\ task[t].stage \in Stages
  BY <1>0, RowIs
<1>3. /\ cache \in [Clients -> [1 .. MaxHeight -> 0 .. MaxHeight]]
      /\ ClientOf[t] \in Clients /\ Db(t) \in Databases
  BY TypesOf, DbIs DEF Heights
<1>t. Len(ledger) \in 0 .. MaxHeight /\ 0 \in 0 .. MaxHeight /\ anchorAt \in 0 .. MaxHeight
  BY <1>0, BoundsAreNat
<1>4. CASE GetItem(t)
  <2>1. Becomes(t, "anchor", task[t].stage, Len(ledger), task[t].anchor, task[t].sent,
                task[t].read, task[t].why)
    BY <1>0, <1>4, <1>t DEF GetItem, Becomes, Task, Pcs
  <2> QED BY <1>0, <1>4, <2>1, HeightsKept DEF GetItem, directory, headers
<1>5. CASE AnchorCached(t)
  <2>1. task[t].at \in 1 .. MaxHeight
    BY <1>1, <1>2, <1>5 DEF AnchorCached, At
  <2>2. PICK n \in 0 .. MaxHeight : n = Cached(t)
    BY <1>3, <2>1 DEF Cached
  <2>3. n <= Len(ledger)
    BY <1>3, <2>1, <2>2 DEF Heights, Cached
  <2>4. Becomes(t, "sync", task[t].stage, task[t].at, n, task[t].sent, task[t].read, task[t].why)
    BY <1>0, <1>5, <2>2 DEF AnchorCached, Becomes, Task, Pcs
  <2> QED BY <1>0, <1>1, <1>5, <2>3, <2>4, HeightsKept DEF AnchorCached, At, directory, headers
<1>6. CASE AnchorFetched(t)
  <2>1. task[t].at \in 1 .. MaxHeight
    BY <1>1, <1>2, <1>6 DEF AnchorFetched, At
  <2>2. anchorAt \in 0 .. MaxHeight
    BY <1>t
  <2>3. Becomes(t, "sync", task[t].stage, task[t].at, anchorAt, task[t].sent, task[t].read, task[t].why)
    BY <1>0, <1>6, <2>2 DEF AnchorFetched, Becomes, Task, Pcs
  <2>4. cache' = [cache EXCEPT ![ClientOf[t]][task[t].at] = anchorAt]
    BY <1>6 DEF AnchorFetched
  <2>5. cache' \in [Clients -> [1 .. MaxHeight -> 0 .. MaxHeight]]
    BY <1>3, <2>1, <2>2, <2>4
  <2>6. \A c \in Clients, h \in 1 .. MaxHeight :
          cache'[c][h] <= Len(ledger) /\ (cache'[c][h] # 0 => h <= cache'[c][h])
    <3>1. SUFFICES ASSUME NEW c \in Clients, NEW h \in 1 .. MaxHeight
                   PROVE  cache'[c][h] <= Len(ledger) /\ (cache'[c][h] # 0 => h <= cache'[c][h])
      OBVIOUS
    <3>2. CASE c = ClientOf[t] /\ h = task[t].at
      <4>1. cache'[c][h] = anchorAt
        BY <1>3, <2>1, <2>4, <3>2
      <4> QED BY <1>0, <1>6, <3>2, <4>1 DEF AnchorFetched
    <3>3. CASE ~(c = ClientOf[t] /\ h = task[t].at)
      <4>1. cache'[c][h] = cache[c][h]
        BY <1>3, <2>1, <2>4, <3>3
      <4> QED BY <4>1 DEF Heights
    <3> QED BY <3>2, <3>3
  <2>7. UNCHANGED <<ledger, staged, anchorAt, stored, syncing, overtaken, faults, identity, running>>
    BY <1>6 DEF AnchorFetched, directory
  <2>8. RegistrationTypeOK'
    BY <2>3, <2>5, <2>7, TypesOf DEF Heights, RegistrationTypeOK, ClientTypeOK, Becomes
  <2>9. ASSUME NEW q \in Tasks
        PROVE  /\ task'[q].at <= Len(ledger) /\ task'[q].anchor <= Len(ledger)
               /\ task'[q].pc \in {"anchor", "sync", "locked", "got"} => task'[q].at # 0
               /\ task'[q].pc \in {"insert", "checked"} => task'[q].sent # NothingSent
    <3>1. CASE q = t
      BY <1>0, <1>1, <1>6, <2>3, <3>1 DEF Becomes, AnchorFetched, At
    <3>2. CASE q # t
      <4>1. task'[q] = task[q]
        BY <2>3, <3>2 DEF Becomes
      <4> QED BY <4>1 DEF Heights
    <3> QED BY <3>1, <3>2
  <2> QED BY <2>6, <2>7, <2>8, <2>9 DEF Heights
<1>7. CASE SyncBegin(t)
  <2>1. "locked" \in Pcs
    BY DEF Pcs
  <2>2. Becomes(t, "locked", task[t].stage, task[t].at, task[t].anchor, task[t].sent, task[t].read, task[t].why)
    BY <1>0, <1>7, <2>1, GotoIs DEF SyncBegin
  <2>3. syncing' \in [Databases -> Tasks \cup {Nobody}]
    BY <1>0, <1>3, <1>7 DEF SyncBegin
  <2> QED BY <1>0, <1>1, <1>7, <2>2, <2>3, HeightsKept DEF SyncBegin, At, directory
<1>8. CASE SyncBatch(t)
  <2>1. /\ task' = task /\ overtaken' \subseteq Tasks
        /\ UNCHANGED <<ledger, staged, anchorAt, cache, syncing, faults, identity, running>>
    BY <1>0, <1>8 DEF SyncBatch, directory
  <2>2. stored \in [Databases -> 0 .. Len(ledger)]
    BY TypesOf DEF Heights
  <2>3. PICK end \in 0 .. Len(ledger) : stored' = [stored EXCEPT ![Db(t)] = end]
    <3>1. PICK last \in Nat, n \in Nat, a \in Nat :
            last = stored[Db(t)] /\ n = BatchLimit /\ a = task[t].anchor
      <4>1. stored[Db(t)] \in 0 .. Len(ledger)
        BY <1>3, <2>2
      <4>2. stored[Db(t)] \in Nat /\ task[t].anchor \in Nat /\ BatchLimit \in Nat
        BY <1>2, <4>1, BatchLimitType
      <4> QED BY <4>2
    <3>2. stored' = [stored EXCEPT ![Db(t)] = IF last + n < a THEN last + n ELSE a]
      BY <1>8, <3>1 DEF SyncBatch
    <3>3. (IF last + n < a THEN last + n ELSE a) \in 0 .. Len(ledger)
      BY <1>0, <3>1
    <3> QED BY <3>2, <3>3
  <2>4. stored' \in [Databases -> 0 .. Len(ledger)]
    BY <2>2, <2>3
  <2>5. RegistrationTypeOK'
    BY <2>1, <2>4, TypesOf DEF Heights, RegistrationTypeOK, ClientTypeOK
  <2> QED BY <2>1, <2>5 DEF Heights
<1>9. CASE SyncEnds(t)
  <2>1. /\ "got" \in Pcs /\ "lookup" \in {"", "lookup", "other"}
        /\ syncing' \in [Databases -> Tasks \cup {Nobody}]
    BY <1>0, <1>3, <1>9 DEF SyncEnds, Pcs
  <2>2. CASE task' = Goto(t, "got")
    <3>1. Becomes(t, "got", task[t].stage, task[t].at, task[t].anchor, task[t].sent, task[t].read, task[t].why)
      BY <1>0, <2>1, <2>2, GotoIs
    <3> QED BY <1>0, <1>1, <1>9, <2>1, <3>1, HeightsKept DEF SyncEnds, At, directory
  <2>3. CASE task' = Failed(t, "lookup")
    <3>1. Becomes(t, "failed", task[t].stage, task[t].at, task[t].anchor, task[t].sent, task[t].read, "lookup")
      BY <1>0, <2>1, <2>3, FailedIs
    <3> QED BY <1>0, <1>1, <1>9, <2>1, <3>1, HeightsKept DEF SyncEnds, At, directory
  <2> QED BY <1>9, <2>2, <2>3 DEF SyncEnds
<1>10. CASE LookupFails(t)
  <2>1. /\ syncing' \in [Databases -> Tasks \cup {Nobody}] /\ faults' \in 0 .. MaxFaults
    BY <1>0, <1>3, <1>10, BoundsAreNat DEF LookupFails
  <2>2. Becomes(t, "failed", task[t].stage, task[t].at, task[t].anchor, task[t].sent, task[t].read, "other")
    BY <1>0, <1>10, FailedIs DEF LookupFails
  <2> QED BY <1>0, <1>10, <2>1, <2>2, HeightsKept DEF LookupFails, directory
<1>11. CASE InsertChecked(t)
  <2>1. Becomes(t, "checked", task[t].stage, task[t].at, task[t].anchor, task[t].sent,
                Len(ledger), task[t].why)
    BY <1>0, <1>11, <1>t DEF InsertChecked, Becomes, Task, Pcs
  <2> QED BY <1>0, <1>1, <1>11, <2>1, HeightsKept DEF InsertChecked, At, directory, headers
<1>12. ASSUME task[t].pc = "checked"
       PROVE  [staged EXCEPT ![KeyOf[t]] = Append(@, Signed(task[t].sent))] \in [Keys -> Seq(Made)]
  <2>1. PICK u \in Made : u = Signed(task[t].sent)
    BY <1>1, <1>2, <1>12, SignedIs
  <2>2. Append(staged[KeyOf[t]], u) \in Seq(Made)
    BY <1>0, <2>1, KeyOfType, AppendIs
  <2> QED BY <1>0, <2>1, <2>2
<1>13. CASE InsertStaged(t)
  <2>1. Becomes(t, "item", task[t].stage, task[t].at, task[t].anchor, task[t].sent, 0, task[t].why)
    BY <1>0, <1>13, <1>t DEF InsertStaged, Becomes, Task, Pcs
  <2>2. staged' \in [Keys -> Seq(Made)]
    BY <1>12, <1>13 DEF InsertStaged, At
  <2> QED BY <1>0, <1>13, <2>1, <2>2, HeightsKept DEF InsertStaged, headers
<1>14. CASE InsertRefused(t) \/ WaitTimesOut(t)
  <2>1. task' = Failed(t, "other") /\ UNCHANGED <<directory, headers, overtaken, faults>>
    BY <1>14 DEF InsertRefused, WaitTimesOut
  <2>2. Becomes(t, "failed", task[t].stage, task[t].at, task[t].anchor, task[t].sent, task[t].read, "other")
    BY <1>0, <2>1, FailedIs
  <2> QED BY <1>0, <2>1, <2>2, HeightsKept DEF directory, headers
<1>15. CASE InsertFails(t)
  <2>1. Becomes(t, "failed", task[t].stage, task[t].at, task[t].anchor, task[t].sent, task[t].read, "other")
    BY <1>0, <1>15, FailedIs DEF InsertFails
  <2>2. staged' \in [Keys -> Seq(Made)]
    BY <1>0, <1>12, <1>15 DEF InsertFails, At
  <2>3. faults' \in 0 .. MaxFaults
    BY <1>0, <1>15, BoundsAreNat DEF InsertFails
  <2> QED BY <1>0, <1>15, <2>1, <2>2, <2>3, HeightsKept DEF InsertFails, headers
<1>16. CASE WaitAgain(t)
  <2>1. "item" \in Pcs
    BY DEF Pcs
  <2>2. Becomes(t, "item", task[t].stage, task[t].at, task[t].anchor, task[t].sent, task[t].read, task[t].why)
    BY <1>0, <1>16, <2>1, GotoIs DEF WaitAgain
  <2> QED BY <1>0, <1>16, <2>2, HeightsKept DEF WaitAgain, directory, headers
<1> QED
  BY <1>4, <1>5, <1>6, <1>7, <1>8, <1>9, <1>10, <1>11, <1>13, <1>14, <1>15, <1>16 DEF CallNext

LEMMA HeightsTask ==
  ASSUME Heights, NEW t \in Tasks, TaskNext(t)
  PROVE  Heights'
<1>0. /\ task \in [Tasks -> Task(Stages)] /\ task[t] \in Task(Stages)
      /\ task[t].at <= Len(ledger) /\ task[t].anchor <= Len(ledger)
      /\ Len(ledger) \in 1 .. MaxHeight
      /\ staged \in [Keys -> Seq(Made)] /\ syncing \in [Databases -> Tasks \cup {Nobody}]
      /\ overtaken \subseteq Tasks /\ faults \in 0 .. MaxFaults
      /\ identity \in [Databases -> Tasks \cup {Nobody}]
  BY TypesOf DEF Heights
<1>1. /\ {"item", "ok", "between", "failed"} \subseteq Pcs
      /\ {"add", "describe", "adding", "describing", "auth", "upload", "persist"} \subseteq Stages
      /\ PkOf[t] \in Pks
  BY PkOfType DEF Pcs, Stages
<1>2. CASE CallNext(t) /\ UNCHANGED <<identity, running>>
  BY <1>2, HeightsCall
<1>3. ASSUME UNCHANGED unchanged, NEW pc \in {"item", "ok", "between"}, NEW stage \in Stages,
             NextStage(t, pc, stage)
      PROVE  Heights'
  <2>1. Becomes(t, pc, stage, task[t].at, task[t].anchor, NothingSent, task[t].read, task[t].why)
    BY <1>0, <1>1, <1>3, NextStageIs
  <2> QED BY <1>0, <1>3, <2>1, HeightsKept DEF unchanged, directory, headers
<1>4. ASSUME UNCHANGED unchanged, NEW stage \in Stages, NEW kind \in {"add", "update"},
             task[t].pc = "got", InsertBegin(t, kind, PkOf[t], stage)
      PROVE  Heights'
  <2>1. PICK sent \in Hashes :
          /\ Becomes(t, "insert", stage, task[t].at, task[t].anchor, sent, task[t].read, task[t].why)
          /\ sent # NothingSent /\ sent[Len(sent)] = <<kind, PkOf[t]>>
    <3>1. /\ task \in [Tasks -> Task(Stages)] /\ PkOf[t] \in Pks
          /\ LastHash(History(t)) \in Hashes /\ InsertBegin(t, kind, PkOf[t], stage)
      BY <1>0, <1>1, <1>4, HistoryIs
    <3> HIDE DEF InsertBegin, LastHash, History, Becomes
    <3> QED BY <3>1, InsertBeginIs, ZenonT(60)
  <2> QED BY <1>0, <1>4, <2>1, HeightsKept DEF unchanged, directory, headers
<1>5. CASE Start(t)
  <2>1. Becomes(t, "item", task[t].stage, task[t].at, task[t].anchor, task[t].sent, task[t].read, task[t].why)
    BY <1>0, <1>1, <1>5, GotoIs DEF Start
  <2> QED BY <1>0, <1>5, <2>1, HeightsKept DEF Start, unchanged, directory, headers
<1>6. CASE StartAgain(t)
  <2>1. NothingSent \in Hashes /\ 0 \in 0 .. MaxHeight
    BY EmptySeq, BoundsAreNat DEF NothingSent, Hashes
  <2>2. Becomes(t, "item", "query", 0, 0, NothingSent, 0, "")
    BY <1>0, <1>6, <2>1 DEF StartAgain, Becomes, Task, Pcs, Stages
  <2>3. 0 <= Len(ledger)
    BY <1>0
  <2> QED BY <1>0, <1>6, <2>2, <2>3, HeightsKept DEF StartAgain, unchanged, directory, headers
<1>7. CASE NameFree(t) \/ NameIsMine(t) \/ BundleFits(t) \/ OwnerAdded(t) \/ Described(t)
  BY <1>1, <1>3, <1>7 DEF NameFree, NameIsMine, BundleFits, OwnerAdded, Described, Stages
<1>8. CASE AddOwner(t) \/ Describe(t)
  BY <1>1, <1>4, <1>8 DEF AddOwner, Describe, Got, At
<1>9. CASE NameTaken(t)
  <2>1. Becomes(t, "failed", task[t].stage, task[t].at, task[t].anchor, task[t].sent, task[t].read, "other")
    BY <1>0, <1>9, FailedIs DEF NameTaken
  <2> QED BY <1>0, <1>9, <2>1, HeightsKept DEF NameTaken, unchanged, directory, headers
<1>10. CASE ServerCall(t)
  <2>1. PICK stage \in Stages : stage = IF task[t].stage = "auth" THEN "upload" ELSE "persist"
    BY <1>1
  <2>2. task' = [task EXCEPT ![t].stage = stage]
    BY <1>10, <2>1 DEF ServerCall
  <2>3. Becomes(t, "between", stage, task[t].at, task[t].anchor, task[t].sent, task[t].read, task[t].why)
    <3>1. task[t].pc = "between"
      BY <1>10 DEF ServerCall, At
    <3> QED BY <1>0, <2>2, <3>1 DEF Becomes, Task
  <2> QED BY <1>0, <1>10, <2>3, HeightsKept DEF ServerCall, unchanged, directory, headers
<1>11. CASE ServerCallFails(t)
  <2>1. Becomes(t, "failed", task[t].stage, task[t].at, task[t].anchor, task[t].sent, task[t].read, "other")
    BY <1>0, <1>11, FailedIs DEF ServerCallFails
  <2>2. faults' \in 0 .. MaxFaults
    BY <1>0, <1>11, BoundsAreNat DEF ServerCallFails
  <2> QED BY <1>0, <1>11, <2>1, <2>2, HeightsKept DEF ServerCallFails, directory, headers
<1>12. CASE Persist(t)
  <2>1. identity' \in [Databases -> Tasks \cup {Nobody}]
    BY <1>0, <1>12, DbIs DEF Persist
  <2>2. CASE task' = Goto(t, "ok")
    <3>1. Becomes(t, "ok", task[t].stage, task[t].at, task[t].anchor, task[t].sent, task[t].read, task[t].why)
      BY <1>0, <1>1, <2>2, GotoIs
    <3> QED BY <1>0, <1>12, <2>1, <3>1, HeightsKept DEF Persist, directory, headers
  <2>3. CASE task' = Failed(t, "other")
    <3>1. Becomes(t, "failed", task[t].stage, task[t].at, task[t].anchor, task[t].sent, task[t].read, "other")
      BY <1>0, <2>3, FailedIs
    <3> QED BY <1>0, <1>12, <2>1, <3>1, HeightsKept DEF Persist, directory, headers
  <2> QED BY <1>12, <2>2, <2>3 DEF Persist
<1> QED
  BY <1>2, <1>5, <1>6, <1>7, <1>8, <1>9, <1>10, <1>11, <1>12 DEF TaskNext

(* A process that ends takes its tasks with it.                            *)
LEMMA CrashIs ==
  ASSUME Heights, NEW d \in Databases, ProcessCrash(d)
  PROVE  /\ task' \in [Tasks -> Task(Stages)]
         /\ \A t \in Tasks :
              /\ \/ task'[t] = task[t] /\ (Db(t) = d => task[t].pc \in {"off", "ok", "failed"})
                 \/ Db(t) = d /\ task'[t].pc = "failed" /\ task'[t].why = "other"
                    /\ task[t].pc \notin {"off", "ok", "failed"}
              /\ task'[t].stage = task[t].stage /\ task'[t].at = task[t].at
              /\ task'[t].anchor = task[t].anchor /\ task'[t].sent = task[t].sent
<1>1. task \in [Tasks -> Task(Stages)]
  BY TypesOf DEF Heights
<1>2. ASSUME NEW t \in Tasks
      PROVE  /\ task'[t] \in Task(Stages)
             /\ \/ task'[t] = task[t] /\ (Db(t) = d => task[t].pc \in {"off", "ok", "failed"})
                \/ Db(t) = d /\ task'[t].pc = "failed" /\ task'[t].why = "other"
                   /\ task[t].pc \notin {"off", "ok", "failed"}
             /\ task'[t].stage = task[t].stage /\ task'[t].at = task[t].at
             /\ task'[t].anchor = task[t].anchor /\ task'[t].sent = task[t].sent
  <2>1. task[t] \in Task(Stages)
    BY <1>1
  <2>2. task'[t] = IF Db(t) = d /\ task[t].pc \notin {"off", "ok", "failed"}
                   THEN [task[t] EXCEPT !.pc = "failed", !.why = "other"] ELSE task[t]
    BY DEF ProcessCrash
  <2> QED BY <2>1, <2>2 DEF Task, Pcs
<1>3. task' = [t \in Tasks |-> task'[t]]
  BY DEF ProcessCrash
<1> QED BY <1>2, <1>3

LEMMA ExtendedIs ==
  ASSUME Heights
  PROVE  /\ Extended \in [Keys -> Seq(Made)]
         /\ \A k \in Keys :
              /\ Now(k) \in Seq(Made) /\ Len(Now(k)) \in Nat /\ Begins(Now(k), Extended[k])
              /\ staged[k] \in Seq(Made)
              /\ \A i \in 1 .. Len(Extended[k]) :
                   \/ i \in 1 .. Len(Now(k)) /\ Extended[k][i] = Now(k)[i]
                   \/ \E j \in 1 .. Len(staged[k]) : Extended[k][i] = staged[k][j]
<1>1. ASSUME NEW k \in Keys
      PROVE  /\ Extended[k] = Now(k) \o staged[k]
             /\ Now(k) \in Seq(Made) /\ staged[k] \in Seq(Made)
  <2>1. ledger \in Seq([Keys -> Seq(Made)]) /\ Len(ledger) \in 1 .. Len(ledger)
    BY TypesOf, LenProperties DEF Heights
  <2>2. ledger[Len(ledger)] \in [Keys -> Seq(Made)]
    BY <2>1, ElementOfSeq
  <2>3. staged \in [Keys -> Seq(Made)]
    BY TypesOf DEF Heights
  <2> QED BY <2>2, <2>3 DEF Extended, Now
<1>2. ASSUME NEW k \in Keys
      PROVE  /\ Extended[k] \in Seq(Made) /\ Len(Now(k)) \in Nat /\ Begins(Now(k), Extended[k])
             /\ \A i \in 1 .. Len(Extended[k]) :
                  \/ i \in 1 .. Len(Now(k)) /\ Extended[k][i] = Now(k)[i]
                  \/ \E j \in 1 .. Len(staged[k]) : Extended[k][i] = staged[k][j]
  <2>1. PICK g \in Seq(Made), h \in Seq(Made) : g = Now(k) /\ h = staged[k]
    BY <1>1
  <2>2. /\ g \o h \in Seq(Made) /\ Len(g) \in Nat /\ Len(h) \in Nat
        /\ Len(g \o h) = Len(g) + Len(h)
        /\ \A i \in 1 .. Len(g) + Len(h) :
             (g \o h)[i] = IF i <= Len(g) THEN g[i] ELSE h[i - Len(g)]
    BY ConcatProperties, LenProperties, ZenonT(60)
  <2>3. PICK e : e = g \o h
    OBVIOUS
  <2>4. Begins(g, e)
    BY <2>2, <2>3 DEF Begins
  <2>5. ASSUME NEW i \in 1 .. Len(e)
        PROVE  \/ i \in 1 .. Len(g) /\ e[i] = g[i]
               \/ \E j \in 1 .. Len(h) : e[i] = h[j]
    <3>1. CASE i <= Len(g)
      BY <2>2, <2>3, <3>1
    <3>2. CASE ~(i <= Len(g))
      <4>1. i - Len(g) \in 1 .. Len(h) /\ e[i] = h[i - Len(g)]
        BY <2>2, <2>3, <3>2
      <4> QED BY <4>1
    <3> QED BY <3>1, <3>2
  <2>6. Extended[k] = e /\ e \in Seq(Made)
    BY <1>1, <2>1, <2>2, <2>3
  <2> HIDE DEF Begins
  <2> QED BY <2>1, <2>2, <2>4, <2>5, <2>6
<1>3. Extended = [k \in Keys |-> Extended[k]]
  BY DEF Extended
<1> QED BY <1>1, <1>2, <1>3

LEMMA HeightsStep ==
  ASSUME Heights, [RegistrationNext]_registrationVars
  PROVE  Heights'
<1>0. /\ ledger \in Seq([Keys -> Seq(Made)]) /\ staged \in [Keys -> Seq(Made)]
      /\ Len(ledger) \in 1 .. MaxHeight /\ anchorAt \in 1 .. Len(ledger)
      /\ stored \in [Databases -> 0 .. Len(ledger)] /\ faults \in 0 .. MaxFaults
      /\ cache \in [Clients -> [1 .. MaxHeight -> 0 .. MaxHeight]]
      /\ syncing \in [Databases -> Tasks \cup {Nobody}]
  BY TypesOf DEF Heights
<1>1. NoHistories \in [Keys -> Seq(Made)]
  BY EmptySeq DEF NoHistories
<1>2. CASE UNCHANGED registrationVars
  BY <1>2 DEF registrationVars, directory, headers, Heights, RegistrationTypeOK, ClientTypeOK
<1>3. CASE DirectoryCommit /\ UNCHANGED <<identity, running>>
  <2>1. PICK e \in [Keys -> Seq(Made)] : e = Extended
    BY ExtendedIs
  <2>2. /\ ledger' = Append(ledger, e) /\ staged' = NoHistories /\ Len(ledger) < MaxHeight
        /\ UNCHANGED <<anchorAt, stored, cache, syncing, task, overtaken, faults, identity, running>>
    BY <1>3, <2>1 DEF DirectoryCommit, headers
  <2>3. ledger' \in Seq([Keys -> Seq(Made)]) /\ Len(ledger') = Len(ledger) + 1
    BY <1>0, <2>2, AppendProperties
  <2>4. stored' \in [Databases -> 0 .. Len(ledger')] /\ anchorAt' \in 1 .. Len(ledger')
    BY <1>0, <2>2, <2>3
  <2>5. RegistrationTypeOK'
    BY <1>1, <2>2, <2>3, <2>4, TypesOf DEF Heights, RegistrationTypeOK, ClientTypeOK
  <2>6. Len(ledger') \in 1 .. MaxHeight
    <3>1. Len(ledger) \in Nat /\ MaxHeight \in Nat
      BY <1>0, BoundsAreNat
    <3> QED BY <2>2, <2>3, <3>1
  <2>7. ASSUME NEW t \in Tasks PROVE task[t].at <= Len(ledger') /\ task[t].anchor <= Len(ledger')
    <3>1. task[t].at \in 0 .. MaxHeight /\ task[t].anchor \in 0 .. MaxHeight
      BY TypesOf, RowIs DEF Heights
    <3>2. task[t].at <= Len(ledger) /\ task[t].anchor <= Len(ledger)
      BY DEF Heights
    <3> QED BY <1>0, <2>3, <3>1, <3>2
  <2>8. ASSUME NEW c \in Clients, NEW h \in 1 .. MaxHeight
        PROVE  cache[c][h] <= Len(ledger') /\ (cache[c][h] # 0 => h <= cache[c][h])
    <3>1. cache[c][h] \in 0 .. MaxHeight
      BY <1>0
    <3>2. cache[c][h] <= Len(ledger) /\ (cache[c][h] # 0 => h <= cache[c][h])
      BY DEF Heights
    <3> QED BY <1>0, <2>3, <3>1, <3>2
  <2> QED BY <2>2, <2>5, <2>6, <2>7, <2>8 DEF Heights
<1>4. CASE (DirectoryRefuse \/ DirectoryDrops) /\ UNCHANGED <<identity, running>>
  <2>1. /\ staged' = NoHistories /\ faults' \in 0 .. MaxFaults
        /\ UNCHANGED <<ledger, anchorAt, stored, cache, syncing, task, overtaken, identity, running>>
    BY <1>0, <1>4, BoundsAreNat DEF DirectoryRefuse, DirectoryDrops, headers
  <2>2. RegistrationTypeOK'
    BY <1>1, <2>1, TypesOf DEF Heights, RegistrationTypeOK, ClientTypeOK
  <2> QED BY <2>1, <2>2 DEF Heights
<1>5. CASE DirectorySigns /\ UNCHANGED <<identity, running>>
  <2>1. /\ anchorAt' \in 1 .. Len(ledger)
        /\ UNCHANGED <<ledger, staged, stored, cache, syncing, task, overtaken, faults, identity, running>>
    BY <1>0, <1>5 DEF DirectorySigns, headers
  <2>2. RegistrationTypeOK'
    BY <2>1, TypesOf DEF Heights, RegistrationTypeOK, ClientTypeOK
  <2> QED BY <2>1, <2>2 DEF Heights
<1>6. CASE \E t \in Tasks : TaskNext(t)
  BY <1>6, HeightsTask
<1>7. ASSUME NEW d \in Databases, ProcessCrash(d), UNCHANGED <<identity, running>>
      PROVE  Heights'
  <2>1. /\ cache' \in [Clients -> [1 .. MaxHeight -> 0 .. MaxHeight]]
        /\ syncing' \in [Databases -> Tasks \cup {Nobody}] /\ faults' \in 0 .. MaxFaults
        /\ UNCHANGED <<ledger, staged, anchorAt, stored, overtaken, identity, running>>
    <3>1. PICK none \in [1 .. MaxHeight -> 0 .. MaxHeight] : none = [h \in 1 .. MaxHeight |-> 0]
      <4>1. 0 \in 0 .. MaxHeight
        BY BoundsAreNat
      <4> QED BY <4>1
    <3>2. cache' = [c \in Clients |-> IF DbOf[c] = d THEN none ELSE cache[c]]
      BY <1>7, <3>1 DEF ProcessCrash
    <3>3. cache' \in [Clients -> [1 .. MaxHeight -> 0 .. MaxHeight]]
      BY <1>0, <3>2
    <3>4. syncing' \in [Databases -> Tasks \cup {Nobody}]
      BY <1>0, <1>7 DEF ProcessCrash
    <3>5. faults' \in 0 .. MaxFaults
      <4>1. MaxFaults \in Nat /\ faults' = faults + 1 /\ faults < MaxFaults
        BY <1>7, BoundsAreNat DEF ProcessCrash
      <4> QED BY <1>0, <4>1
    <3> QED BY <1>7, <3>3, <3>4, <3>5 DEF ProcessCrash, directory
  <2>2. task' \in [Tasks -> Task(Stages)]
    BY <1>7, CrashIs
  <2>3. RegistrationTypeOK'
    BY <2>1, <2>2, TypesOf DEF Heights, RegistrationTypeOK, ClientTypeOK
  <2>4. ASSUME NEW c \in Clients, NEW h \in 1 .. MaxHeight
        PROVE  cache'[c][h] <= Len(ledger) /\ (cache'[c][h] # 0 => h <= cache'[c][h])
    <3>1. cache'[c][h] = 0 \/ cache'[c][h] = cache[c][h]
      BY <1>7 DEF ProcessCrash
    <3> QED BY <1>0, <3>1 DEF Heights
  <2>5. ASSUME NEW t \in Tasks
        PROVE  /\ task'[t].at <= Len(ledger) /\ task'[t].anchor <= Len(ledger)
               /\ task'[t].pc \in {"anchor", "sync", "locked", "got"} => task'[t].at # 0
               /\ task'[t].pc \in {"insert", "checked"} => task'[t].sent # NothingSent
    <3>1. /\ task'[t] = task[t] \/ task'[t].pc = "failed"
          /\ task'[t].at = task[t].at /\ task'[t].anchor = task[t].anchor
      BY <1>7, CrashIs
    <3> QED BY <3>1 DEF Heights
  <2> QED BY <1>0, <2>1, <2>3, <2>4, <2>5 DEF Heights
<1> QED
  BY <1>2, <1>3, <1>4, <1>5, <1>6, <1>7, ZenonT(60) DEF RegistrationNext, DirectoryNext
-----------------------------------------------------------------------------
(* Why lookups fail.                                                       *)
SyncingMoves(t) ==
  \/ UNCHANGED syncing
  \/ syncing[Db(t)] \in {Nobody, t} /\ \E x : syncing' = [syncing EXCEPT ![Db(t)] = x]

LookupRow(t, pc, at, anchor, why) ==
  /\ why # "" => pc = "failed"
  /\ why = "lookup" => t \in overtaken'
  /\ pc \in {"sync", "locked"} => at <= anchor
  /\ pc \in {"anchor", "sync"} /\ t \notin overtaken' => stored[Db(t)] <= at
  /\ pc = "locked" => syncing'[Db(t)] = t
  /\ pc = "locked" /\ t \notin overtaken' => stored[Db(t)] <= anchor

LEMMA LookupsKept ==
  ASSUME Heights, Lookups, NEW t \in Tasks,
         NEW pc, NEW stage, NEW at, NEW anchor, NEW sent, NEW read, NEW why,
         Becomes(t, pc, stage, at, anchor, sent, read, why),
         UNCHANGED stored, overtaken' \in {overtaken, overtaken \ {t}}, SyncingMoves(t),
         LookupRow(t, pc, at, anchor, why)
  PROVE  Lookups'
<1>1. LookupHolds(t)'
  BY DEF LookupHolds, LookupRow, Becomes, Db
<1>2. ASSUME NEW q \in Tasks \ {t} PROVE LookupHolds(q)'
  <2>1. task'[q] = task[q] /\ (q \in overtaken' <=> q \in overtaken) /\ LookupHolds(q)
    BY DEF Becomes, Lookups
  <2>2. task[q].pc = "locked" => syncing'[Db(q)] = q
    <3>1. SUFFICES ASSUME task[q].pc = "locked" PROVE syncing'[Db(q)] = q
      OBVIOUS
    <3>2. syncing[Db(q)] = q /\ q # Nobody
      BY <2>1, <3>1, NobodyIsNoTask DEF LookupHolds
    <3>3. CASE \E x : syncing[Db(t)] \in {Nobody, t} /\ syncing' = [syncing EXCEPT ![Db(t)] = x]
      <4>1. Db(q) # Db(t)
        BY <3>2, <3>3
      <4> QED BY <3>2, <3>3, <4>1, TypesOf, DbIs DEF Heights
    <3> QED BY <3>2, <3>3 DEF SyncingMoves
  <2> QED BY <2>1, <2>2 DEF LookupHolds, Db
<1> QED BY <1>1, <1>2 DEF Lookups

LEMMA LookupsCall ==
  ASSUME Heights, Lookups, NEW t \in Tasks, CallNext(t)
  PROVE  Lookups'
<1>0. /\ task \in [Tasks -> Task(Stages)] /\ task[t] \in Task(Stages) /\ LookupHolds(t)
      /\ Len(ledger) \in 1 .. MaxHeight /\ anchorAt \in 1 .. Len(ledger)
      /\ syncing \in [Databases -> Tasks \cup {Nobody}]
      /\ stored \in [Databases -> 0 .. Len(ledger)] /\ Db(t) \in Databases
  BY TypesOf, DbIs DEF Heights, Lookups
<1>1. task[t].pc \in {"anchor", "sync", "locked", "got"} => task[t].at # 0
  BY DEF Heights
<1>2. /\ task[t].at \in 0 .. MaxHeight /\ task[t].anchor \in 0 .. MaxHeight
      /\ task[t].sent \in Hashes /\ task[t].stage \in Stages
  BY <1>0, RowIs
<1>3. /\ cache \in [Clients -> [1 .. MaxHeight -> 0 .. MaxHeight]]
      /\ ClientOf[t] \in Clients /\ {"got", "locked", "item"} \subseteq Pcs
  BY TypesOf, DbIs DEF Heights, Pcs
<1>t. Len(ledger) \in 0 .. MaxHeight /\ 0 \in 0 .. MaxHeight /\ anchorAt \in 0 .. MaxHeight
      /\ stored[Db(t)] \in 0 .. Len(ledger) /\ stored[Db(t)] <= Len(ledger)
  BY <1>0, BoundsAreNat
<1>4. CASE GetItem(t)
  <2>1. Becomes(t, "anchor", task[t].stage, Len(ledger), task[t].anchor, task[t].sent,
                task[t].read, task[t].why)
    BY <1>0, <1>4, <1>t DEF GetItem, Becomes, Task, Pcs
  <2>2. task[t].why = ""
    BY <1>0, <1>4 DEF GetItem, At, LookupHolds
  <2>3. UNCHANGED <<stored, syncing>> /\ overtaken' \in {overtaken, overtaken \ {t}}
    BY <1>4 DEF GetItem, headers
  <2>4. SyncingMoves(t) /\ LookupRow(t, "anchor", Len(ledger), task[t].anchor, task[t].why)
    BY <1>t, <2>2, <2>3 DEF SyncingMoves, LookupRow
  <2> QED BY <2>1, <2>3, <2>4, LookupsKept
<1>5. CASE AnchorCached(t)
  <2>0. task[t].pc = "anchor"
    BY <1>5 DEF AnchorCached, At
  <2>1. task[t].at \in 1 .. MaxHeight /\ task[t].pc = "anchor" /\ task[t].why = ""
    <3>1. task[t].at # 0
      BY <1>1, <2>0
    <3>2. task[t].why = ""
      BY <1>0, <2>0 DEF LookupHolds
    <3>3. \A n \in 0 .. MaxHeight : n # 0 => n \in 1 .. MaxHeight
      BY BoundsAreNat
    <3>4. task[t].at \in 1 .. MaxHeight
      BY <1>2, <3>1, <3>3
    <3> QED BY <2>0, <3>2, <3>4
  <2>2. PICK n \in 0 .. MaxHeight : n = Cached(t)
    BY <1>3, <2>1 DEF Cached
  <2>3. task[t].at <= n
    BY <1>3, <1>5, <2>1, <2>2 DEF Heights, Cached, AnchorCached
  <2>4. Becomes(t, "sync", task[t].stage, task[t].at, n, task[t].sent, task[t].read, task[t].why)
    BY <1>0, <1>5, <2>2 DEF AnchorCached, Becomes, Task, Pcs
  <2>5. UNCHANGED <<stored, syncing, overtaken>>
    BY <1>5 DEF AnchorCached, headers
  <2>6. t \notin overtaken => stored[Db(t)] <= task[t].at
    BY <1>0, <2>1 DEF LookupHolds
  <2>7. SyncingMoves(t) /\ LookupRow(t, "sync", task[t].at, n, task[t].why)
    BY <2>1, <2>3, <2>5, <2>6 DEF SyncingMoves, LookupRow
  <2> QED BY <2>4, <2>5, <2>7, LookupsKept
<1>6. CASE AnchorFetched(t)
  <2>1. task[t].pc = "anchor" /\ task[t].why = "" /\ task[t].at <= anchorAt
    BY <1>0, <1>2, <1>6 DEF AnchorFetched, At, LookupHolds
  <2>2. Becomes(t, "sync", task[t].stage, task[t].at, anchorAt, task[t].sent, task[t].read, task[t].why)
    BY <1>0, <1>6, <1>t DEF AnchorFetched, Becomes, Task, Pcs
  <2>3. t \notin overtaken => stored[Db(t)] <= task[t].at
    BY <1>0, <2>1 DEF LookupHolds
  <2>4. UNCHANGED <<stored, syncing, overtaken>>
    BY <1>6 DEF AnchorFetched
  <2>5. SyncingMoves(t) /\ LookupRow(t, "sync", task[t].at, anchorAt, task[t].why)
    BY <2>1, <2>3, <2>4 DEF SyncingMoves, LookupRow
  <2> QED BY <2>2, <2>4, <2>5, LookupsKept
<1>7. CASE SyncBegin(t)
  <2>1. Becomes(t, "locked", task[t].stage, task[t].at, task[t].anchor, task[t].sent, task[t].read, task[t].why)
    BY <1>0, <1>3, <1>7, GotoIs DEF SyncBegin
  <2>2. task[t].pc = "sync" /\ task[t].why = "" /\ task[t].at <= task[t].anchor
    BY <1>0, <1>7 DEF SyncBegin, At, LookupHolds
  <2>3. t \notin overtaken => stored[Db(t)] <= task[t].anchor
    <3>1. t \notin overtaken => stored[Db(t)] <= task[t].at
      BY <1>0, <2>2 DEF LookupHolds
    <3>2. stored[Db(t)] \in Nat /\ task[t].at \in Nat /\ task[t].anchor \in Nat
      BY <1>0, <1>2, <1>t, BoundsAreNat
    <3>3. \A n, m, a \in Nat : n <= m /\ m <= a => n <= a
      OBVIOUS
    <3>4. task[t].at <= task[t].anchor
      BY <2>2
    <3> HIDE DEF Db
    <3> QED BY <3>1, <3>2, <3>3, <3>4
  <2>4. /\ UNCHANGED <<stored, overtaken>> /\ syncing[Db(t)] = Nobody
        /\ syncing' = [syncing EXCEPT ![Db(t)] = t] /\ syncing'[Db(t)] = t
    BY <1>0, <1>7 DEF SyncBegin
  <2>5. SyncingMoves(t) /\ LookupRow(t, "locked", task[t].at, task[t].anchor, task[t].why)
    BY <2>2, <2>3, <2>4 DEF SyncingMoves, LookupRow
  <2> QED BY <2>1, <2>4, <2>5, LookupsKept
<1>8. CASE SyncBatch(t)
  <2>1. /\ task' = task /\ syncing' = syncing /\ task[t].pc = "locked" /\ syncing[Db(t)] = t
    BY <1>0, <1>8 DEF SyncBatch, At, LookupHolds
  <2>2. PICK last \in Nat, n \in Nat, a \in Nat, end \in Nat :
          /\ last = stored[Db(t)] /\ n = BatchLimit /\ a = task[t].anchor
          /\ end = IF last + n < a THEN last + n ELSE a
    <3>1. stored[Db(t)] \in Nat /\ task[t].anchor \in Nat /\ BatchLimit \in Nat
      BY <1>2, <1>t, BatchLimitType
    <3> QED BY <3>1
  <2>3. /\ stored' = [stored EXCEPT ![Db(t)] = end] /\ end <= a
        /\ overtaken' = overtaken \cup
             {o \in Tasks \ {t} : /\ Db(o) = Db(t) /\ task[o].pc \in {"anchor", "sync"}
                                  /\ task[o].at < end}
    BY <1>8, <2>2 DEF SyncBatch
  <2>4. ASSUME NEW q \in Tasks PROVE LookupHolds(q)'
    <3>0. /\ LookupHolds(q) /\ (q \in overtaken => q \in overtaken') /\ Db(q) \in Databases
          /\ task[q].at \in Nat /\ task[q].anchor \in Nat
      <4>1. task[q] \in Task(Stages)
        BY <1>0
      <4>2. task[q].at \in 0 .. MaxHeight /\ task[q].anchor \in 0 .. MaxHeight
        BY <4>1, RowIs
      <4> QED BY <2>3, <4>2, DbIs DEF Lookups
    <3>1. CASE q = t
      <4>1. stored'[Db(t)] = end
        BY <1>0, <2>3
      <4> QED BY <2>1, <2>2, <2>3, <3>0, <3>1, <4>1 DEF LookupHolds, Db
    <3>2. CASE q # t /\ Db(q) = Db(t)
      <4>1. stored'[Db(q)] = end /\ task[q].pc # "locked"
        BY <1>0, <2>1, <2>3, <3>0, <3>2 DEF LookupHolds
      <4>2. task[q].pc \in {"anchor", "sync"} /\ q \notin overtaken' => end <= task[q].at
        BY <2>3, <3>0, <3>2
      <4> QED BY <2>1, <3>0, <4>1, <4>2 DEF LookupHolds, Db
    <3>3. CASE Db(q) # Db(t)
      <4>1. stored'[Db(q)] = stored[Db(q)] /\ (q \in overtaken' <=> q \in overtaken)
        BY <1>0, <2>3, <3>0, <3>3
      <4> QED BY <2>1, <3>0, <4>1 DEF LookupHolds, Db
    <3> QED BY <3>1, <3>2, <3>3
  <2> QED BY <2>4 DEF Lookups
<1>9. CASE SyncEnds(t)
  <2>1. /\ task[t].pc = "locked" /\ task[t].why = "" /\ syncing[Db(t)] = t
        /\ task[t].at <= task[t].anchor
        /\ t \notin overtaken => stored[Db(t)] <= task[t].anchor
    BY <1>0, <1>9 DEF SyncEnds, At, LookupHolds
  <2>2. /\ UNCHANGED <<stored, overtaken>> /\ syncing' = [syncing EXCEPT ![Db(t)] = Nobody]
    BY <1>9 DEF SyncEnds
  <2>3. CASE task' = Goto(t, "got")
    <3>1. Becomes(t, "got", task[t].stage, task[t].at, task[t].anchor, task[t].sent, task[t].read, task[t].why)
      BY <1>0, <1>3, <2>3, GotoIs
    <3>2. SyncingMoves(t) /\ LookupRow(t, "got", task[t].at, task[t].anchor, task[t].why)
      BY <2>1, <2>2 DEF SyncingMoves, LookupRow
    <3> QED BY <2>2, <3>1, <3>2, LookupsKept
  <2>4. CASE /\ task' = Failed(t, "lookup")
             /\ ~(stored[Db(t)] = task[t].anchor /\ task[t].at <= task[t].anchor)
    <3>1. Becomes(t, "failed", task[t].stage, task[t].at, task[t].anchor, task[t].sent, task[t].read, "lookup")
      BY <1>0, <2>4, FailedIs
    <3>2. t \in overtaken
      <4>1. stored[Db(t)] >= task[t].anchor /\ stored[Db(t)] # task[t].anchor
        BY <1>9, <2>1, <2>4 DEF SyncEnds
      <4>2. stored[Db(t)] \in Nat /\ task[t].anchor \in Nat
        BY <1>0, <1>2, <1>t, BoundsAreNat
      <4>3. \A n, a \in Nat : n >= a /\ n <= a => n = a
        OBVIOUS
      <4>4. ~(stored[Db(t)] <= task[t].anchor)
        BY <4>1, <4>2, <4>3
      <4> QED BY <2>1, <4>4
    <3>3. SyncingMoves(t) /\ LookupRow(t, "failed", task[t].at, task[t].anchor, "lookup")
      BY <2>1, <2>2, <3>2 DEF SyncingMoves, LookupRow
    <3> QED BY <2>2, <3>1, <3>3, LookupsKept
  <2> QED BY <1>9, <2>3, <2>4 DEF SyncEnds
<1>10. CASE LookupFails(t)
  <2>1. Becomes(t, "failed", task[t].stage, task[t].at, task[t].anchor, task[t].sent, task[t].read, "other")
    BY <1>0, <1>10, FailedIs DEF LookupFails
  <2>2. /\ UNCHANGED <<stored, overtaken>>
        /\ \/ UNCHANGED syncing
           \/ syncing[Db(t)] = t /\ syncing' = [syncing EXCEPT ![Db(t)] = Nobody]
    BY <1>10 DEF LookupFails
  <2>3. SyncingMoves(t) /\ LookupRow(t, "failed", task[t].at, task[t].anchor, "other")
    BY <2>1, <2>2 DEF SyncingMoves, LookupRow
  <2> QED BY <2>1, <2>2, <2>3, LookupsKept
<1>11. CASE InsertChecked(t)
  <2>1. Becomes(t, "checked", task[t].stage, task[t].at, task[t].anchor, task[t].sent,
                Len(ledger), task[t].why)
    BY <1>0, <1>11, <1>t DEF InsertChecked, Becomes, Task, Pcs
  <2>2. task[t].why = "" /\ UNCHANGED <<stored, syncing, overtaken>>
    BY <1>0, <1>11 DEF InsertChecked, At, LookupHolds, headers
  <2>3. SyncingMoves(t) /\ LookupRow(t, "checked", task[t].at, task[t].anchor, task[t].why)
    BY <2>1, <2>2 DEF SyncingMoves, LookupRow
  <2> QED BY <2>1, <2>2, <2>3, LookupsKept
<1>12. CASE InsertStaged(t)
  <2>1. Becomes(t, "item", task[t].stage, task[t].at, task[t].anchor, task[t].sent, 0, task[t].why)
    BY <1>0, <1>12, <1>t DEF InsertStaged, Becomes, Task, Pcs
  <2>2. task[t].why = "" /\ UNCHANGED <<stored, syncing, overtaken>>
    BY <1>0, <1>12 DEF InsertStaged, At, LookupHolds, headers
  <2>3. SyncingMoves(t) /\ LookupRow(t, "item", task[t].at, task[t].anchor, task[t].why)
    BY <2>1, <2>2 DEF SyncingMoves, LookupRow
  <2> QED BY <2>1, <2>2, <2>3, LookupsKept
<1>13. CASE InsertRefused(t) \/ WaitTimesOut(t) \/ InsertFails(t)
  <2>1. task' = Failed(t, "other") /\ UNCHANGED <<stored, syncing, overtaken>>
    BY <1>13 DEF InsertRefused, WaitTimesOut, InsertFails, headers
  <2>2. Becomes(t, "failed", task[t].stage, task[t].at, task[t].anchor, task[t].sent, task[t].read, "other")
    BY <1>0, <2>1, FailedIs
  <2>3. SyncingMoves(t) /\ LookupRow(t, "failed", task[t].at, task[t].anchor, "other")
    BY <2>1, <2>2 DEF SyncingMoves, LookupRow
  <2> QED BY <2>1, <2>2, <2>3, LookupsKept
<1>14. CASE WaitAgain(t)
  <2>1. Becomes(t, "item", task[t].stage, task[t].at, task[t].anchor, task[t].sent, task[t].read, task[t].why)
    BY <1>0, <1>3, <1>14, GotoIs DEF WaitAgain
  <2>2. task[t].why = "" /\ UNCHANGED <<stored, syncing, overtaken>>
    BY <1>0, <1>14 DEF WaitAgain, At, LookupHolds, headers
  <2>3. SyncingMoves(t) /\ LookupRow(t, "item", task[t].at, task[t].anchor, task[t].why)
    BY <2>1, <2>2 DEF SyncingMoves, LookupRow
  <2> QED BY <2>1, <2>2, <2>3, LookupsKept
<1> QED
  BY <1>4, <1>5, <1>6, <1>7, <1>8, <1>9, <1>10, <1>11, <1>12, <1>13, <1>14 DEF CallNext

(* A step of one task that leaves the headers and the semaphores.          *)
NoLookup(pc, why) ==
  /\ pc \notin {"anchor", "sync", "locked"}
  /\ why = "" \/ (why = "other" /\ pc = "failed")

LEMMA LookupsLeft ==
  ASSUME Heights, Lookups, NEW t \in Tasks,
         NEW pc, NEW stage, NEW at, NEW anchor, NEW sent, NEW read, NEW why,
         Becomes(t, pc, stage, at, anchor, sent, read, why),
         UNCHANGED <<stored, syncing, overtaken>>, NoLookup(pc, why)
  PROVE  Lookups'
<1>1. SyncingMoves(t) /\ LookupRow(t, pc, at, anchor, why)
  BY DEF SyncingMoves, LookupRow, NoLookup
<1> QED BY <1>1, LookupsKept

LEMMA LookupsTask ==
  ASSUME Heights, Lookups, NEW t \in Tasks, TaskNext(t)
  PROVE  Lookups'
<1>0. /\ task \in [Tasks -> Task(Stages)]
      /\ task[t].why # "" => task[t].pc = "failed"
      /\ {"item", "ok", "between", "failed"} \subseteq Pcs /\ PkOf[t] \in Pks
  BY TypesOf, PkOfType DEF Heights, Lookups, LookupHolds, Pcs
<1>1. {"query", "add", "describe", "adding", "describing", "auth", "upload", "persist"} \subseteq Stages
  BY DEF Stages
<1>2. CASE CallNext(t) /\ UNCHANGED <<identity, running>>
  BY <1>2, LookupsCall
<1>3. ASSUME UNCHANGED <<stored, syncing, overtaken>>, NEW pc \in {"item", "ok", "between"},
             NEW stage \in Stages, task[t].pc = "got", NextStage(t, pc, stage)
      PROVE  Lookups'
  <2>1. Becomes(t, pc, stage, task[t].at, task[t].anchor, NothingSent, task[t].read, task[t].why)
    BY <1>0, <1>3, NextStageIs
  <2>2. NoLookup(pc, task[t].why)
    BY <1>0, <1>3 DEF NoLookup
  <2> QED BY <1>3, <2>1, <2>2, LookupsLeft
<1>4. ASSUME UNCHANGED <<stored, syncing, overtaken>>, NEW stage \in Stages,
             NEW kind \in {"add", "update"}, task[t].pc = "got", InsertBegin(t, kind, PkOf[t], stage)
      PROVE  Lookups'
  <2>1. PICK sent \in Hashes :
          /\ Becomes(t, "insert", stage, task[t].at, task[t].anchor, sent, task[t].read, task[t].why)
          /\ sent # NothingSent /\ sent[Len(sent)] = <<kind, PkOf[t]>>
    BY <1>0, <1>4, HistoryIs, InsertBeginIs
  <2>2. NoLookup("insert", task[t].why)
    BY <1>0, <1>4 DEF NoLookup
  <2> QED BY <1>4, <2>1, <2>2, LookupsLeft
<1>5. ASSUME UNCHANGED <<stored, syncing, overtaken>>, task' = Failed(t, "other")
      PROVE  Lookups'
  <2>1. Becomes(t, "failed", task[t].stage, task[t].at, task[t].anchor, task[t].sent, task[t].read, "other")
    BY <1>0, <1>5, FailedIs
  <2>2. NoLookup("failed", "other")
    BY DEF NoLookup
  <2> QED BY <1>5, <2>1, <2>2, LookupsLeft
<1>6. ASSUME UNCHANGED <<stored, syncing, overtaken>>, task[t].pc \in {"off", "between"},
             NEW pc \in {"item", "ok"}, task' = Goto(t, pc)
      PROVE  Lookups'
  <2>1. Becomes(t, pc, task[t].stage, task[t].at, task[t].anchor, task[t].sent, task[t].read, task[t].why)
    BY <1>0, <1>6, GotoIs
  <2>2. NoLookup(pc, task[t].why)
    BY <1>0, <1>6 DEF NoLookup
  <2> QED BY <1>6, <2>1, <2>2, LookupsLeft
<1>7. CASE StartAgain(t)
  <2>1. NothingSent \in Hashes /\ 0 \in 0 .. MaxHeight
    BY EmptySeq, BoundsAreNat DEF NothingSent, Hashes
  <2>2. Becomes(t, "item", "query", 0, 0, NothingSent, 0, "")
    BY <1>0, <1>7, <2>1 DEF StartAgain, Becomes, Task, Pcs, Stages
  <2>3. NoLookup("item", "")
    BY DEF NoLookup
  <2>4. UNCHANGED <<stored, syncing, overtaken>>
    BY <1>7 DEF StartAgain, unchanged, headers
  <2> QED BY <2>2, <2>3, <2>4, LookupsLeft
<1>8. CASE ServerCall(t)
  <2>1. PICK stage \in Stages : stage = IF task[t].stage = "auth" THEN "upload" ELSE "persist"
    BY <1>1
  <2>2. task' = [task EXCEPT ![t].stage = stage] /\ task[t].pc = "between"
    BY <1>8, <2>1 DEF ServerCall, At
  <2>3. Becomes(t, "between", stage, task[t].at, task[t].anchor, task[t].sent, task[t].read, task[t].why)
    BY <1>0, <2>2 DEF Becomes, Task
  <2>4. NoLookup("between", task[t].why)
    BY <1>0, <2>2 DEF NoLookup
  <2>5. UNCHANGED <<stored, syncing, overtaken>>
    BY <1>8 DEF ServerCall, unchanged, headers
  <2> QED BY <2>3, <2>4, <2>5, LookupsLeft
<1>9. CASE Start(t)
  BY <1>6, <1>9 DEF Start, At, unchanged, headers
<1>10. CASE NameFree(t) \/ NameIsMine(t) \/ BundleFits(t) \/ OwnerAdded(t) \/ Described(t)
  BY <1>1, <1>3, <1>10
     DEF NameFree, NameIsMine, BundleFits, OwnerAdded, Described, Got, At, unchanged, headers
<1>11. CASE AddOwner(t) \/ Describe(t)
  BY <1>1, <1>4, <1>11 DEF AddOwner, Describe, Got, At, unchanged, headers
<1>12. CASE NameTaken(t) \/ ServerCallFails(t)
  BY <1>5, <1>12 DEF NameTaken, ServerCallFails, unchanged, headers
<1>13. CASE Persist(t)
  BY <1>5, <1>6, <1>13 DEF Persist, At, headers
<1> QED
  BY <1>2, <1>7, <1>8, <1>9, <1>10, <1>11, <1>12, <1>13 DEF TaskNext

LEMMA LookupsStep ==
  ASSUME Heights, Lookups, [RegistrationNext]_registrationVars
  PROVE  Lookups'
<1>1. ASSUME UNCHANGED <<stored, syncing, task, overtaken>>
      PROVE  Lookups'
  BY <1>1 DEF Lookups, LookupHolds, Db
<1>2. CASE UNCHANGED registrationVars \/ DirectoryNext
  BY <1>1, <1>2
     DEF registrationVars, headers, DirectoryNext, DirectoryCommit, DirectoryRefuse,
         DirectoryDrops, DirectorySigns
<1>3. CASE \E t \in Tasks : TaskNext(t)
  BY <1>3, LookupsTask
<1>4. ASSUME NEW d \in Databases, ProcessCrash(d), NEW t \in Tasks
      PROVE  LookupHolds(t)'
  <2>1. /\ UNCHANGED <<stored, overtaken>> /\ syncing' = [syncing EXCEPT ![d] = Nobody]
        /\ syncing \in [Databases -> Tasks \cup {Nobody}] /\ Db(t) \in Databases /\ LookupHolds(t)
    BY <1>4, TypesOf, DbIs DEF ProcessCrash, Heights, Lookups
  <2>2. CASE task'[t] = task[t] /\ (Db(t) = d => task[t].pc \in {"off", "ok", "failed"})
    <3>1. task[t].pc = "locked" => Db(t) # d
      BY <2>2
    <3>2. Db(t) # d => syncing'[Db(t)] = syncing[Db(t)]
      BY <2>1
    <3> QED BY <2>1, <2>2, <3>1, <3>2 DEF LookupHolds, Db
  <2>3. CASE task'[t].pc = "failed" /\ task'[t].why = "other"
    BY <2>3 DEF LookupHolds
  <2> QED BY <1>4, <2>2, <2>3, CrashIs
<1> QED BY <1>2, <1>3, <1>4 DEF RegistrationNext, Lookups
-----------------------------------------------------------------------------
(* The histories.                                                          *)
LEMMA InitHistories ==
  ASSUME RegistrationInit
  PROVE  Histories
<1>1. /\ Len(ledger) = 1 /\ ledger[1] = NoHistories /\ staged = NoHistories
  BY DEF RegistrationInit, ClientInit
<1>2. ASSUME NEW k \in Keys
      PROVE  NoHistories[k] = <<>>
  BY DEF NoHistories
<1>3. Len(<<>>) = 0 /\ (1 .. 0) = {}
  OBVIOUS
<1>4. PICK none : none = <<>>
  OBVIOUS
<1>5. Len(none) = 0
  BY <1>3, <1>4
<1>6. VerifyHistory(none) /\ AllAuthentic(none) /\ Begins(none, none)
  BY <1>3, <1>5 DEF VerifyHistory, AllAuthentic, Begins
<1>7. \A k \in Keys : staged[k] = none /\ ledger[1][k] = none /\ Now(k) = none
  BY <1>1, <1>2, <1>4 DEF Now
<1>8. ASSUME NEW i \in 1 .. Len(ledger)
      PROVE  i = 1
  BY <1>1
<1> QED BY <1>6, <1>7, <1>8 DEF Histories

(* A step that publishes nothing and stages what is authentic.             *)
LEMMA HistoriesKept ==
  ASSUME Histories, UNCHANGED ledger,
         \A k \in Keys : AllAuthentic(staged'[k])
  PROVE  Histories'
BY DEF Histories, Now

LEMMA StagedIs ==
  ASSUME Heights, Histories, NEW t \in Tasks, task[t].pc = "checked",
         staged' = [staged EXCEPT ![KeyOf[t]] = Append(@, Signed(task[t].sent))]
  PROVE  \A k \in Keys : AllAuthentic(staged'[k])
<1>1. /\ staged \in [Keys -> Seq(Made)] /\ task[t].sent \in Hashes /\ task[t].sent # NothingSent
  <2>1. task[t] \in Task(Stages) /\ staged \in [Keys -> Seq(Made)] /\ task[t].sent # NothingSent
    BY TypesOf DEF Heights
  <2> QED BY <2>1, RowIs
<1>2. PICK u \in Made : u = Signed(task[t].sent) /\ Authentic(u)
  BY <1>1, SignedIs
<1>3. ASSUME NEW k \in Keys
      PROVE  AllAuthentic(staged'[k])
  <2>1. AllAuthentic(staged[k]) /\ staged[k] \in Seq(Made)
    BY <1>1 DEF Histories
  <2>2. CASE k # KeyOf[t]
    BY <1>1, <2>1, <2>2
  <2>3. CASE k = KeyOf[t]
    <3>1. PICK h \in Seq(Made) : h = staged[k]
      BY <2>1
    <3>2. staged'[k] = Append(h, u)
      BY <1>1, <1>2, <2>3, <3>1
    <3>3. /\ Len(h) \in Nat /\ Len(Append(h, u)) = Len(h) + 1
          /\ \A i \in 1 .. Len(h) : Append(h, u)[i] = h[i]
          /\ Append(h, u)[Len(h) + 1] = u
      BY AppendIs
    <3>4. AllAuthentic(h)
      BY <2>1, <3>1
    <3>5. ASSUME NEW i \in 1 .. Len(h) + 1
          PROVE  Authentic(Append(h, u)[i])
      <4>1. i \in 1 .. Len(h) \/ i = Len(h) + 1
        BY <3>3
      <4> QED BY <1>2, <3>3, <3>4, <4>1 DEF AllAuthentic
    <3> QED BY <3>2, <3>3, <3>5 DEF AllAuthentic
  <2> QED BY <2>2, <2>3
<1> QED BY <1>3

LEMMA NothingStaged ==
  ASSUME staged' = NoHistories
  PROVE  \A k \in Keys : AllAuthentic(staged'[k])
<1>1. \A k \in Keys : staged'[k] = <<>>
  BY DEF NoHistories
<1>2. Len(<<>>) = 0 /\ (1 .. 0) = {}
  OBVIOUS
<1> QED BY <1>1, <1>2 DEF AllAuthentic

LEMMA HistoriesStep ==
  ASSUME Heights, Histories, [RegistrationNext]_registrationVars
  PROVE  Histories'
<1>1. CASE UNCHANGED <<ledger, staged>>
  BY <1>1, HistoriesKept DEF Histories
<1>2. CASE DirectoryCommit
  <2>1. PICK e \in [Keys -> Seq(Made)] :
          /\ e = Extended
          /\ \A k \in Keys :
               /\ Now(k) \in Seq(Made) /\ Len(Now(k)) \in Nat /\ Begins(Now(k), e[k])
               /\ staged[k] \in Seq(Made)
               /\ \A i \in 1 .. Len(e[k]) :
                    \/ i \in 1 .. Len(Now(k)) /\ e[k][i] = Now(k)[i]
                    \/ \E j \in 1 .. Len(staged[k]) : e[k][i] = staged[k][j]
    BY ExtendedIs
  <2>2. /\ ledger' = Append(ledger, e) /\ staged' = NoHistories
        /\ \A k \in Keys : VerifyHistory(e[k])
    BY <1>2, <2>1 DEF DirectoryCommit, AllVerify
  <2>3. PICK n \in Nat : n = Len(ledger)
    BY TypesOf, LenProperties DEF Heights
  <2>4. /\ Len(ledger') = n + 1 /\ ledger'[n + 1] = e
        /\ \A i \in 1 .. n : ledger'[i] = ledger[i]
    BY <2>2, <2>3, TypesOf, AppendProperties DEF Heights
  <2>5. ASSUME NEW k \in Keys
        PROVE  /\ AllAuthentic(e[k]) /\ Begins(e[k], e[k])
               /\ \A i \in 1 .. n : Begins(ledger[i][k], e[k])
    <3>1. AllAuthentic(Now(k)) /\ AllAuthentic(staged[k])
      <4>1. Len(ledger) \in 1 .. Len(ledger)
        BY <2>3 DEF Heights
      <4> QED BY <4>1 DEF Histories, Now
    <3>2. AllAuthentic(e[k])
      BY <2>1, <3>1 DEF AllAuthentic
    <3>3. Len(e[k]) \in Nat
      BY LenProperties
    <3>4. Begins(e[k], e[k])
      BY <3>3 DEF Begins
    <3>5. ASSUME NEW i \in 1 .. n
          PROVE  Begins(ledger[i][k], e[k])
      <4>1. Begins(ledger[i][k], Now(k)) /\ Begins(Now(k), e[k])
        BY <2>1, <2>3 DEF Histories
      <4>2. Len(ledger[i][k]) \in Nat /\ Len(Now(k)) \in Nat
        <5>1. ledger \in Seq([Keys -> Seq(Made)])
          BY TypesOf DEF Heights
        <5>2. ledger[i] \in [Keys -> Seq(Made)]
          BY <2>3, <5>1, ElementOfSeq
        <5>3. ledger[i][k] \in Seq(Made)
          BY <5>2
        <5> QED BY <2>1, <5>3, LenProperties
      <4>3. PICK a \in Nat, b \in Nat, c \in Nat :
              a = Len(ledger[i][k]) /\ b = Len(Now(k)) /\ c = Len(e[k])
        BY <3>3, <4>2
      <4>4. a <= b /\ b <= c
        BY <4>1, <4>3 DEF Begins
      <4>5. a <= c /\ 1 .. a \subseteq 1 .. b
        BY <4>4
      <4>6. \A j \in 1 .. a : e[k][j] = ledger[i][k][j]
        BY <4>1, <4>3, <4>5 DEF Begins
      <4> QED BY <4>3, <4>5, <4>6 DEF Begins
    <3> QED BY <3>2, <3>4, <3>5
  <2>6. \A k \in Keys : Now(k)' = e[k]
    BY <2>4 DEF Now
  <2>7. ASSUME NEW i \in 1 .. n + 1, NEW k \in Keys
        PROVE  /\ VerifyHistory(ledger'[i][k]) /\ AllAuthentic(ledger'[i][k])
               /\ Begins(ledger'[i][k], e[k])
    <3>1. CASE i = n + 1
      BY <2>2, <2>4, <2>5, <3>1
    <3>2. CASE i \in 1 .. n
      <4>1. VerifyHistory(ledger[i][k]) /\ AllAuthentic(ledger[i][k])
        BY <2>3, <3>2 DEF Histories
      <4> QED BY <2>4, <2>5, <3>2, <4>1
    <3>3. i = n + 1 \/ i \in 1 .. n
      OBVIOUS
    <3> QED BY <3>1, <3>2, <3>3
  <2>8. \A k \in Keys : AllAuthentic(staged'[k])
    BY <2>2, NothingStaged
  <2> QED BY <2>4, <2>6, <2>7, <2>8 DEF Histories
<1>3. CASE DirectoryRefuse \/ DirectoryDrops
  <2>1. UNCHANGED ledger /\ staged' = NoHistories
    BY <1>3 DEF DirectoryRefuse, DirectoryDrops
  <2> QED BY <2>1, NothingStaged, HistoriesKept
<1>4. ASSUME NEW t \in Tasks, InsertStaged(t) \/ InsertFails(t)
      PROVE  Histories'
  <2>1. /\ UNCHANGED ledger /\ task[t].pc = "checked"
        /\ \/ staged' = staged
           \/ staged' = [staged EXCEPT ![KeyOf[t]] = Append(@, Signed(task[t].sent))]
    BY <1>4 DEF InsertStaged, InsertFails, At
  <2>2. CASE staged' = staged
    BY <1>1, <2>1, <2>2
  <2>3. CASE staged' = [staged EXCEPT ![KeyOf[t]] = Append(@, Signed(task[t].sent))]
    BY <2>1, <2>3, StagedIs, HistoriesKept
  <2> QED BY <2>1, <2>2, <2>3
<1>5. ASSUME NEW t \in Tasks, CallNext(t)
      PROVE  Histories'
  BY <1>1, <1>4, <1>5
     DEF CallNext, GetItem, AnchorCached, AnchorFetched, SyncBegin, SyncBatch, SyncEnds,
         LookupFails, InsertChecked, InsertRefused, WaitAgain, WaitTimesOut, directory
<1>6. ASSUME NEW t \in Tasks, TaskNext(t)
      PROVE  Histories'
  BY <1>1, <1>5, <1>6
     DEF TaskNext, Start, StartAgain, NameFree, NameIsMine, BundleFits, NameTaken, AddOwner,
         OwnerAdded, Describe, Described, ServerCall, ServerCallFails, Persist, unchanged, directory
<1>7. CASE UNCHANGED registrationVars \/ DirectorySigns \/ \E d \in Databases : ProcessCrash(d)
  BY <1>1, <1>7 DEF registrationVars, directory, DirectorySigns, ProcessCrash
<1> QED BY <1>2, <1>3, <1>6, <1>7 DEF RegistrationNext, DirectoryNext
-----------------------------------------------------------------------------
(* What registrations go by.                                               *)
RegistrationHolds(t) ==
  /\ task[t].stage \in {"add", "adding", "describe", "describing"} =>
       KindOf[t] \in {"user", "server"}
  /\ task[t].stage = "describing" /\ task[t].pc # "ok" =>
       task[t].sent # NothingSent /\ task[t].sent[Len(task[t].sent)] = <<"update", PkOf[t]>>
  /\ task[t].stage \in {"auth", "upload", "persist"} =>
       KindOf[t] \in {"user", "device"} /\ Told(t)
  /\ task[t].pc = "ok" => Told(t)

(* The same of a row a step gives a task.                                  *)
RegistrationRow(t, pc, stage, sent) ==
  /\ stage \in {"add", "adding", "describe", "describing"} => KindOf[t] \in {"user", "server"}
  /\ stage = "describing" /\ pc # "ok" =>
       sent # NothingSent /\ sent[Len(sent)] = <<"update", PkOf[t]>>
  /\ stage \in {"auth", "upload", "persist"} => KindOf[t] \in {"user", "device"} /\ Told(t)
  /\ pc = "ok" => Told(t)

LEMMA RegistrationsKept ==
  ASSUME Heights, Registrations, NEW t \in Tasks, UNCHANGED ledger, task[t].pc # "ok",
         NEW pc, NEW stage, NEW at, NEW anchor, NEW sent, NEW read, NEW why,
         Becomes(t, pc, stage, at, anchor, sent, read, why), RegistrationRow(t, pc, stage, sent),
         UNCHANGED identity \/ (identity' = [identity EXCEPT ![Db(t)] = t] /\ pc = "ok")
  PROVE  Registrations'
<1>1. \A q \in Tasks : Told(q)' <=> Told(q)
  BY DEF Told, Now
<1>2. ASSUME NEW q \in Tasks PROVE RegistrationHolds(q)'
  <2>1. CASE q = t
    BY <1>1, <2>1 DEF RegistrationHolds, RegistrationRow, Becomes
  <2>2. CASE q # t
    <3>1. task'[q] = task[q] /\ RegistrationHolds(q)
      BY <2>2 DEF Becomes, Registrations, RegistrationHolds
    <3> QED BY <1>1, <3>1 DEF RegistrationHolds
  <2> QED BY <2>1, <2>2
<1>3. ASSUME NEW d \in Databases, identity'[d] # Nobody
      PROVE  identity'[d] \in Tasks /\ DbOf[ClientOf[identity'[d]]] = d /\ task'[identity'[d]].pc = "ok"
  <2>1. identity \in [Databases -> Tasks \cup {Nobody}] /\ Db(t) \in Databases
    BY TypesOf, DbIs DEF Heights
  <2>2. CASE identity'[d] = identity[d]
    <3>1. PICK q \in Tasks : q = identity[d]
      BY <1>3, <2>2 DEF Registrations
    <3>2. Db(q) = d /\ task[q].pc = "ok" /\ q # t
      BY <1>3, <2>2, <3>1 DEF Registrations, At
    <3>3. task'[q] = task[q]
      BY <3>2 DEF Becomes
    <3> QED BY <2>2, <3>1, <3>2, <3>3 DEF Db
  <2>3. CASE identity'[d] # identity[d]
    <3>1. d = Db(t) /\ identity'[d] = t /\ pc = "ok"
      BY <2>1, <2>3
    <3> QED BY <3>1 DEF Becomes, Db
  <2> QED BY <2>2, <2>3
<1> QED BY <1>2, <1>3 DEF Registrations, RegistrationHolds, Db, At

(* A step in which a task looks up or inserts, is refused or gives up.     *)
LEMMA RegistrationsLeft ==
  ASSUME Heights, Registrations, NEW t \in Tasks, UNCHANGED <<ledger, identity>>, task[t].pc # "ok",
         NEW pc, NEW at, NEW anchor, NEW read, NEW why, pc # "ok",
         Becomes(t, pc, task[t].stage, at, anchor, task[t].sent, read, why)
  PROVE  Registrations'
<1>1. RegistrationRow(t, pc, task[t].stage, task[t].sent)
  BY DEF Registrations, RegistrationRow
<1> QED BY <1>1, RegistrationsKept

LEMMA RegistrationsCall ==
  ASSUME Heights, Registrations, NEW t \in Tasks, CallNext(t), UNCHANGED identity
  PROVE  Registrations'
<1>0. task \in [Tasks -> Task(Stages)] /\ task[t] \in Task(Stages) /\ {"got", "locked", "item"} \subseteq Pcs
  BY TypesOf DEF Heights, Pcs
<1>1. Len(ledger) \in 0 .. MaxHeight /\ anchorAt \in 0 .. MaxHeight /\ 0 \in 0 .. MaxHeight
  BY TypesOf, BoundsAreNat DEF Heights
<1>2. CASE GetItem(t)
  <2>1. Becomes(t, "anchor", task[t].stage, Len(ledger), task[t].anchor, task[t].sent,
                task[t].read, task[t].why)
    BY <1>0, <1>1, <1>2 DEF GetItem, Becomes, Task, Pcs
  <2> QED BY <1>2, <2>1, RegistrationsLeft DEF GetItem, At, directory
<1>3. CASE AnchorCached(t)
  <2>1. PICK n \in 0 .. MaxHeight : n = Cached(t)
    <3>1. cache \in [Clients -> [1 .. MaxHeight -> 0 .. MaxHeight]] /\ ClientOf[t] \in Clients
      BY TypesOf, DbIs DEF Heights
    <3>2. task[t].at \in 0 .. MaxHeight /\ task[t].at # 0
      BY <1>0, <1>3, RowIs DEF Heights, AnchorCached, At
    <3>3. \A m \in 0 .. MaxHeight : m # 0 => m \in 1 .. MaxHeight
      BY BoundsAreNat
    <3>4. task[t].at \in 1 .. MaxHeight
      BY <3>2, <3>3
    <3> QED BY <3>1, <3>4 DEF Cached
  <2>2. Becomes(t, "sync", task[t].stage, task[t].at, n, task[t].sent, task[t].read, task[t].why)
    BY <1>0, <1>3, <2>1 DEF AnchorCached, Becomes, Task, Pcs
  <2> QED BY <1>3, <2>2, RegistrationsLeft DEF AnchorCached, At, directory
<1>4. CASE AnchorFetched(t)
  <2>1. Becomes(t, "sync", task[t].stage, task[t].at, anchorAt, task[t].sent, task[t].read, task[t].why)
    BY <1>0, <1>1, <1>4 DEF AnchorFetched, Becomes, Task, Pcs
  <2> QED BY <1>4, <2>1, RegistrationsLeft DEF AnchorFetched, At, directory
<1>5. CASE SyncBatch(t)
  <2>1. UNCHANGED <<ledger, task, identity>>
    BY <1>5 DEF SyncBatch, directory
  <2> QED BY <2>1 DEF Registrations, Told, Now, At
<1>6. ASSUME UNCHANGED ledger, task[t].pc # "ok", NEW pc \in {"got", "locked", "item"}, task' = Goto(t, pc)
      PROVE  Registrations'
  <2>1. Becomes(t, pc, task[t].stage, task[t].at, task[t].anchor, task[t].sent, task[t].read, task[t].why)
    BY <1>0, <1>6, GotoIs
  <2> QED BY <1>6, <2>1, RegistrationsLeft
<1>7. ASSUME UNCHANGED ledger, task[t].pc # "ok", NEW why \in {"lookup", "other"}, task' = Failed(t, why)
      PROVE  Registrations'
  <2>1. Becomes(t, "failed", task[t].stage, task[t].at, task[t].anchor, task[t].sent, task[t].read, why)
    BY <1>0, <1>7, FailedIs
  <2> QED BY <1>7, <2>1, RegistrationsLeft
<1>8. CASE InsertChecked(t)
  <2>1. Becomes(t, "checked", task[t].stage, task[t].at, task[t].anchor, task[t].sent,
                Len(ledger), task[t].why)
    BY <1>0, <1>1, <1>8 DEF InsertChecked, Becomes, Task, Pcs
  <2> QED BY <1>8, <2>1, RegistrationsLeft DEF InsertChecked, At, directory
<1>9. CASE InsertStaged(t)
  <2>1. Becomes(t, "item", task[t].stage, task[t].at, task[t].anchor, task[t].sent, 0, task[t].why)
    BY <1>0, <1>1, <1>9 DEF InsertStaged, Becomes, Task, Pcs
  <2> QED BY <1>9, <2>1, RegistrationsLeft DEF InsertStaged, At
<1>10. CASE SyncBegin(t) \/ SyncEnds(t) \/ WaitAgain(t)
  BY <1>6, <1>7, <1>10 DEF SyncBegin, SyncEnds, WaitAgain, At, directory
<1>11. CASE LookupFails(t) \/ InsertRefused(t) \/ InsertFails(t) \/ WaitTimesOut(t)
  BY <1>7, <1>11 DEF LookupFails, InsertRefused, InsertFails, WaitTimesOut, At, directory
<1> QED
  BY <1>2, <1>3, <1>4, <1>5, <1>8, <1>9, <1>10, <1>11 DEF CallNext

(* What a task reads in a verified history is in the last one.             *)
LEMMA ToldByHistory ==
  ASSUME Heights, Histories, NEW t \in Tasks, task[t].pc = "got", Says(History(t), KeyFor(t))
  PROVE  Told(t)
<1>1. task[t].at \in 1 .. Len(ledger) /\ KeyOf[t] \in Keys /\ History(t) \in Seq(Made)
  BY HistoryIs
<1>2. Begins(History(t), Now(KeyOf[t]))
  BY <1>1 DEF Histories, History
<1>3. Len(History(t)) \in Nat /\ Len(Now(KeyOf[t])) \in Nat
  BY <1>1, ExtendedIs, LenProperties
<1> QED BY <1>2, <1>3, SaysStays DEF Told

LEMMA RegistrationsTask ==
  ASSUME Heights, Histories, Registrations, NEW t \in Tasks, TaskNext(t)
  PROVE  Registrations'
<1>0. /\ task \in [Tasks -> Task(Stages)] /\ task[t] \in Task(Stages)
      /\ PkOf[t] \in Pks /\ PkOf[BundleOf[t]] \in Pks /\ KindOf[t] \in Kinds
      /\ {"item", "ok", "between"} \subseteq Pcs
      /\ {"query", "add", "describe", "adding", "describing", "auth", "upload", "persist"} \subseteq Stages
  BY TypesOf, PkOfType, BundleOfType, KindOfType DEF Heights, Pcs, Stages
<1>1. RegistrationHolds(t)
  BY DEF Registrations, RegistrationHolds
<1>2. CASE CallNext(t) /\ UNCHANGED <<identity, running>>
  BY <1>2, RegistrationsCall
<1>3. ASSUME UNCHANGED <<ledger, identity>>, task[t].pc = "got",
             NEW pc \in {"item", "ok", "between"}, NEW stage \in Stages, NextStage(t, pc, stage),
             RegistrationRow(t, pc, stage, NothingSent)
      PROVE  Registrations'
  <2>1. Becomes(t, pc, stage, task[t].at, task[t].anchor, NothingSent, task[t].read, task[t].why)
    BY <1>0, <1>3, NextStageIs
  <2> QED BY <1>3, <2>1, RegistrationsKept
<1>4. ASSUME UNCHANGED <<ledger, identity>>, NEW stage \in Stages, stage \in {"adding", "describing"},
             NEW kind \in {"add", "update"}, stage = "describing" => kind = "update",
             task[t].pc = "got", KindOf[t] \in {"user", "server"}, InsertBegin(t, kind, PkOf[t], stage)
      PROVE  Registrations'
  <2>1. PICK sent \in Hashes :
          /\ Becomes(t, "insert", stage, task[t].at, task[t].anchor, sent, task[t].read, task[t].why)
          /\ sent # NothingSent /\ sent[Len(sent)] = <<kind, PkOf[t]>>
    <3>1. /\ task \in [Tasks -> Task(Stages)] /\ PkOf[t] \in Pks
          /\ LastHash(History(t)) \in Hashes /\ InsertBegin(t, kind, PkOf[t], stage)
      BY <1>0, <1>4, HistoryIs
    <3> HIDE DEF InsertBegin, LastHash, History, Becomes
    <3> QED BY <3>1, InsertBeginIs, ZenonT(60)
  <2>2. RegistrationRow(t, "insert", stage, sent)
    BY <1>4, <2>1 DEF RegistrationRow
  <2> QED BY <1>4, <2>1, <2>2, RegistrationsKept
<1>5. ASSUME UNCHANGED <<ledger, identity>>, task[t].pc # "ok", task' = Failed(t, "other")
      PROVE  Registrations'
  <2>1. Becomes(t, "failed", task[t].stage, task[t].at, task[t].anchor, task[t].sent, task[t].read, "other")
    BY <1>0, <1>5, FailedIs
  <2> QED BY <1>5, <2>1, RegistrationsLeft
<1>6. CASE Start(t)
  <2>1. Becomes(t, "item", task[t].stage, task[t].at, task[t].anchor, task[t].sent, task[t].read, task[t].why)
    BY <1>0, <1>6, GotoIs DEF Start
  <2> QED BY <1>6, <2>1, RegistrationsLeft DEF Start, At, unchanged, directory
<1>7. CASE StartAgain(t)
  <2>1. NothingSent \in Hashes /\ 0 \in 0 .. MaxHeight
    BY EmptySeq, BoundsAreNat DEF NothingSent, Hashes
  <2>2. Becomes(t, "item", "query", 0, 0, NothingSent, 0, "")
    BY <1>0, <1>7, <2>1 DEF StartAgain, Becomes, Task, Pcs, Stages
  <2>3. RegistrationRow(t, "item", "query", NothingSent)
    BY DEF RegistrationRow
  <2>4. UNCHANGED <<ledger, identity>> /\ task[t].pc # "ok"
    BY <1>7 DEF StartAgain, At, unchanged, directory
  <2> QED BY <2>2, <2>3, <2>4, RegistrationsKept
<1>8. CASE NameFree(t)
  <2>1. RegistrationRow(t, "item", "add", NothingSent)
    BY <1>8 DEF NameFree, RegistrationRow
  <2> QED BY <1>0, <1>3, <1>8, <2>1 DEF NameFree, Got, At, unchanged, directory
<1>9. CASE NameIsMine(t)
  <2>1. task[t].pc = "got" /\ KindOf[t] = "server" /\ Descriptor(History(t)) = PkOf[t]
    BY <1>9 DEF NameIsMine, Got, At
  <2>2. KeyFor(t) = PkOf[t]
    BY <2>1 DEF KeyFor
  <2>3. Told(t)
    BY <1>0, <2>1, <2>2, HistoryIs, DescriptorIsSaid, ToldByHistory
  <2>4. RegistrationRow(t, "ok", "query", NothingSent)
    BY <2>3 DEF RegistrationRow
  <2> QED BY <1>0, <1>3, <1>9, <2>1, <2>4 DEF NameIsMine, unchanged, directory
<1>10. CASE BundleFits(t)
  <2>1. task[t].pc = "got" /\ KindOf[t] = "device" /\ Descriptor(History(t)) = PkOf[BundleOf[t]]
    BY <1>10 DEF BundleFits, Got, At
  <2>2. KeyFor(t) = PkOf[BundleOf[t]]
    BY <2>1 DEF KeyFor
  <2>3. Told(t)
    BY <1>0, <2>1, <2>2, HistoryIs, DescriptorIsSaid, ToldByHistory
  <2>4. RegistrationRow(t, "between", "auth", NothingSent)
    BY <2>1, <2>3 DEF RegistrationRow
  <2> QED BY <1>0, <1>3, <1>10, <2>1, <2>4 DEF BundleFits, unchanged, directory
<1>11. CASE NameTaken(t) \/ ServerCallFails(t)
  BY <1>5, <1>11 DEF NameTaken, ServerCallFails, Got, At, unchanged, directory
<1>12. CASE AddOwner(t)
  <2>1. KindOf[t] \in {"user", "server"}
    BY <1>1, <1>12 DEF AddOwner, Got, RegistrationHolds
  <2> QED BY <1>0, <1>4, <1>12, <2>1 DEF AddOwner, Got, At, unchanged, directory
<1>13. CASE OwnerAdded(t)
  <2>1. RegistrationRow(t, "item", "describe", NothingSent)
    BY <1>1, <1>13 DEF OwnerAdded, Got, RegistrationHolds, RegistrationRow
  <2> QED BY <1>0, <1>3, <1>13, <2>1 DEF OwnerAdded, Got, At, unchanged, directory
<1>14. CASE Describe(t)
  <2>1. KindOf[t] \in {"user", "server"}
    BY <1>1, <1>14 DEF Describe, Got, RegistrationHolds
  <2> QED BY <1>0, <1>4, <1>14, <2>1 DEF Describe, Got, At, unchanged, directory
<1>15. CASE Described(t)
  <2>1. /\ task[t].pc = "got" /\ KindOf[t] \in {"user", "server"} /\ Landed(t)
        /\ task[t].sent[Len(task[t].sent)] = <<"update", PkOf[t]>>
    BY <1>1, <1>15 DEF Described, Got, At, RegistrationHolds
  <2>2. task[t].at \in 1 .. Len(ledger) /\ KeyOf[t] \in Keys /\ History(t) \in Seq(Made)
    BY <2>1, HistoryIs
  <2>3. PICK i \in 1 .. Len(History(t)) : History(t)[i].id = task[t].sent
    BY <2>1 DEF Landed
  <2>4. Authentic(History(t)[i])
    BY <2>2 DEF Histories, History, AllAuthentic
  <2>5. PICK e : e = <<"update", PkOf[t]>>
    OBVIOUS
  <2>6. History(t)[i].kind = e[1] /\ History(t)[i].owner = e[2]
    BY <2>1, <2>3, <2>4, <2>5 DEF Authentic
  <2>7. Says(History(t), PkOf[t]) /\ KeyFor(t) = PkOf[t]
    BY <2>1, <2>5, <2>6 DEF Says, KeyFor
  <2>8. Told(t)
    BY <2>1, <2>7, ToldByHistory
  <2>9. /\ KindOf[t] = "server" => RegistrationRow(t, "ok", "describing", NothingSent)
        /\ KindOf[t] # "server" => RegistrationRow(t, "between", "auth", NothingSent)
    BY <2>1, <2>8 DEF RegistrationRow
  <2> QED BY <1>0, <1>3, <1>15, <2>1, <2>9 DEF Described, unchanged, directory
<1>16. CASE ServerCall(t)
  <2>1. /\ task[t].pc = "between" /\ task[t].stage \in {"auth", "upload"}
        /\ UNCHANGED <<ledger, identity>>
    BY <1>16 DEF ServerCall, At, unchanged, directory
  <2>2. PICK stage \in {"upload", "persist"} : stage = IF task[t].stage = "auth" THEN "upload" ELSE "persist"
    OBVIOUS
  <2>3. task' = [task EXCEPT ![t].stage = stage]
    BY <1>16, <2>2 DEF ServerCall
  <2>4. Becomes(t, "between", stage, task[t].at, task[t].anchor, task[t].sent, task[t].read, task[t].why)
    BY <1>0, <2>1, <2>3 DEF Becomes, Task
  <2>5. RegistrationRow(t, "between", stage, task[t].sent)
    BY <1>1, <2>1 DEF RegistrationHolds, RegistrationRow
  <2> QED BY <2>1, <2>4, <2>5, RegistrationsKept
<1>17. CASE Persist(t)
  <2>1. task[t].pc = "between" /\ task[t].stage = "persist" /\ UNCHANGED ledger
    BY <1>17 DEF Persist, At, directory
  <2>2. CASE task' = Failed(t, "other") /\ UNCHANGED identity
    BY <1>5, <2>1, <2>2
  <2>3. CASE task' = Goto(t, "ok") /\ identity' = [identity EXCEPT ![Db(t)] = t]
    <3>1. Becomes(t, "ok", task[t].stage, task[t].at, task[t].anchor, task[t].sent, task[t].read, task[t].why)
      BY <1>0, <2>3, GotoIs
    <3>2. RegistrationRow(t, "ok", task[t].stage, task[t].sent)
      BY <1>1, <2>1 DEF RegistrationHolds, RegistrationRow
    <3> QED BY <2>1, <2>3, <3>1, <3>2, RegistrationsKept
  <2> QED BY <1>17, <2>2, <2>3 DEF Persist
<1> QED
  BY <1>2, <1>6, <1>7, <1>8, <1>9, <1>10, <1>11, <1>12, <1>13, <1>14, <1>15, <1>16, <1>17
     DEF TaskNext

LEMMA RegistrationsStep ==
  ASSUME Heights, Histories, Registrations, [RegistrationNext]_registrationVars
  PROVE  Registrations'
<1>1. CASE UNCHANGED <<ledger, task, identity>>
  BY <1>1 DEF Registrations, Told, Now, At
<1>2. CASE DirectoryCommit /\ UNCHANGED <<identity, running>>
  <2>1. UNCHANGED <<task, identity>>
    BY <1>2 DEF DirectoryCommit
  <2>2. ASSUME NEW t \in Tasks, Told(t)
        PROVE  Told(t)'
    <3>1. PICK e \in [Keys -> Seq(Made)] :
            e = Extended /\ \A k \in Keys : Len(Now(k)) \in Nat /\ Begins(Now(k), e[k])
      BY ExtendedIs
    <3>2. /\ ledger' = Append(ledger, e) /\ ledger \in Seq([Keys -> Seq(Made)]) /\ KeyOf[t] \in Keys
      BY <1>2, <3>1, TypesOf, KeyOfType DEF DirectoryCommit, Heights
    <3>3. ledger'[Len(ledger')] = e
      BY <3>2, AppendProperties, LenProperties
    <3>4. Len(e[KeyOf[t]]) \in Nat
      BY <3>2, LenProperties
    <3>5. Says(e[KeyOf[t]], KeyFor(t))
      BY <2>2, <3>1, <3>2, <3>4, SaysStays DEF Told
    <3> QED BY <3>3, <3>5 DEF Told, Now, KeyFor
  <2> QED BY <2>1, <2>2 DEF Registrations, At
<1>3. CASE (DirectoryRefuse \/ DirectoryDrops \/ DirectorySigns) /\ UNCHANGED <<identity, running>>
  BY <1>1, <1>3 DEF DirectoryRefuse, DirectoryDrops, DirectorySigns
<1>4. CASE \E t \in Tasks : TaskNext(t)
  BY <1>4, RegistrationsTask
<1>5. ASSUME NEW d \in Databases, ProcessCrash(d), UNCHANGED <<identity, running>>
      PROVE  Registrations'
  <2>1. UNCHANGED <<ledger, identity>>
    BY <1>5 DEF ProcessCrash, directory
  <2>2. ASSUME NEW t \in Tasks
        PROVE  RegistrationHolds(t)'
    <3>1. RegistrationHolds(t) /\ (Told(t)' <=> Told(t))
      BY <2>1 DEF Registrations, RegistrationHolds, Told, Now
    <3>2. /\ task'[t] = task[t] \/ (task'[t].pc = "failed" /\ task[t].pc # "ok")
          /\ task'[t].stage = task[t].stage /\ task'[t].sent = task[t].sent
      BY <1>5, CrashIs
    <3> QED BY <3>1, <3>2 DEF RegistrationHolds
  <2>3. ASSUME NEW t \in Tasks, task[t].pc = "ok"
        PROVE  task'[t].pc = "ok"
    BY <1>5, <2>3, CrashIs
  <2> QED BY <2>1, <2>2, <2>3 DEF Registrations, RegistrationHolds, At
<1>6. CASE UNCHANGED registrationVars
  BY <1>1, <1>6 DEF registrationVars, directory
<1> QED BY <1>2, <1>3, <1>4, <1>5, <1>6 DEF RegistrationNext, DirectoryNext
-----------------------------------------------------------------------------
LEMMA InitRegistrations ==
  ASSUME RegistrationInit
  PROVE  Lookups /\ Registrations
<1>1. ASSUME NEW t \in Tasks
      PROVE  task[t].pc = "off" /\ task[t].stage = "query" /\ task[t].why = ""
  <2>1. PICK r : r = [pc |-> "off", stage |-> "query", at |-> 0, anchor |-> 0,
                      sent |-> NothingSent, read |-> 0, why |-> ""]
    OBVIOUS
  <2>2. task[t] = r
    BY <2>1 DEF RegistrationInit, ClientInit
  <2>3. r.pc = "off" /\ r.stage = "query" /\ r.why = ""
    BY <2>1
  <2> QED BY <2>2, <2>3
<1>2. \A d \in Databases : identity[d] = Nobody
  BY DEF RegistrationInit
<1> QED BY <1>1, <1>2 DEF Lookups, LookupHolds, Registrations

LEMMA RegInvariant == RegistrationSpec => []RegInv
<1>1. RegistrationInit => RegInv
  BY InitHeights, InitHistories, InitRegistrations DEF RegInv
<1>2. RegInv /\ [RegistrationNext]_registrationVars => RegInv'
  BY HeightsStep, LookupsStep, HistoriesStep, RegistrationsStep DEF RegInv
<1> QED BY <1>1, <1>2, PTL DEF RegistrationSpec

(* A lookup whose calls are all answered fails only if another lookup of   *)
(* its process stored a newer header meanwhile (fetch_verified_response).  *)
THEOREM LookupsFailOnlyWhenOvertaken == RegistrationSpec => []LookupFailsOnlyIfOvertaken
<1>1. RegInv => LookupFailsOnlyIfOvertaken
  BY DEF RegInv, Lookups, LookupHolds, LookupFailsOnlyIfOvertaken
<1> QED BY <1>1, RegInvariant, PTL

(* Who was told that it registered owns the name, alone and for good, and  *)
(* the identities clients store are of names they own.                     *)
THEOREM RegistrationsAreOwned == RegistrationSpec => []RegisteredMeansOwned
<1>1. ASSUME RegInv
      PROVE  RegisteredMeansOwned
  <2>1. ASSUME NEW t \in Tasks, Told(t)
        PROVE  Owners(Now(KeyOf[t])) = {KeyFor(t)} /\ Descriptor(Now(KeyOf[t])) = KeyFor(t)
    <3>1. KeyOf[t] \in Keys /\ Len(ledger) \in 1 .. Len(ledger)
      BY <1>1, KeyOfType DEF RegInv, Heights
    <3>2. Now(KeyOf[t]) \in Seq(Made)
      BY <1>1, <3>1, ExtendedIs DEF RegInv
    <3>3. VerifyHistory(Now(KeyOf[t])) /\ AllAuthentic(Now(KeyOf[t]))
      BY <1>1, <3>1 DEF RegInv, Histories, Now
    <3> QED BY <2>1, <3>2, <3>3, SaysIsOwned DEF Told
  <2>2. ASSUME NEW t \in Tasks, At(t, "ok"), KindOf[t] \in {"user", "server"}
        PROVE  Owners(Now(KeyOf[t])) = {PkOf[t]} /\ Descriptor(Now(KeyOf[t])) = PkOf[t]
    <3>1. Told(t) /\ KeyFor(t) = PkOf[t]
      BY <1>1, <2>2 DEF RegInv, Registrations, At, KeyFor
    <3> QED BY <2>1, <3>1
  <2>3. ASSUME NEW d \in Databases, identity[d] # Nobody
        PROVE  /\ Db(identity[d]) = d /\ At(identity[d], "ok")
               /\ Descriptor(Now(KeyOf[identity[d]]))
                    = PkOf[IF KindOf[identity[d]] = "device" THEN BundleOf[identity[d]] ELSE identity[d]]
    <3>1. identity[d] \in Tasks /\ Db(identity[d]) = d /\ At(identity[d], "ok")
      BY <1>1, <2>3 DEF RegInv, Registrations
    <3>2. Told(identity[d])
      BY <1>1, <3>1 DEF RegInv, Registrations, At
    <3> QED BY <2>1, <3>1, <3>2 DEF KeyFor
  <2> QED BY <1>1, <2>2, <2>3 DEF RegInv, Heights, RegisteredMeansOwned
<1> QED BY <1>1, RegInvariant, PTL
=============================================================================
