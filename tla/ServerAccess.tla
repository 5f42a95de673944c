---------------------------- MODULE ServerAccess ----------------------------
(***************************************************************************)
(* Who may use which mailbox of a nullspace-server: device_auth            *)
(* (device.rs), register_group and mailbox_acl_edit (mailbox.rs) as        *)
(* concurrent SQLite transactions.                                         *)
(*                                                                         *)
(* A transaction that starts with a SELECT reads a snapshot and takes the  *)
(* write lock at its first INSERT.  If another transaction committed a     *)
(* change in between, SQLite refuses the upgrade (SQLITE_BUSY_SNAPSHOT):   *)
(* the handler answers RetryLater and nothing is written.  A transaction   *)
(* that starts with a write is serialised by the write lock.  So every     *)
(* handler is one step that reads and decides and, if it writes, a second  *)
(* step that takes the lock, writes and commits.                           *)
(***************************************************************************)
EXTENDS Naturals, FiniteSets, MailboxAcl

CONSTANTS
  Users,     (* user names registered to this server in the directory     *)
  Devices,   (* devices whose certificate chain verifies                  *)
  UserOf,    (* the user each device belongs to                           *)
  Groups,    (* group ids                                                 *)
  Handlers,  (* request handlers: at most one request each at a time      *)
  NoToken,   (* no row in device_auth_tokens                              *)
  EditArgs   (* the mailbox_acl_edit calls that clients make              *)

Direct(u) == <<"dm", u>>
GroupBoxes(g) == {<<"messages", g>>, <<"management", g>>}
DirectBoxes == {Direct(u) : u \in Users}
Mailboxes == DirectBoxes \cup UNION {GroupBoxes(g) : g \in Groups}

EditArg == [caller : Tokens, mailbox : Mailboxes, target : Tokens, row : SUBSET Rights]

ASSUME UserOfType == UserOf \in [Devices -> Users]
ASSUME NoTokenIsNone == NoToken \notin Tokens
ASSUME EditArgsType == EditArgs \subseteq EditArg

VARIABLES
  boxes,    (* table mailboxes                                            *)
  acl,      (* table mailbox_acl                                          *)
  tokenOf,  (* table device_auth_tokens                                   *)
  tx,       (* the open transaction of every handler                      *)
  issued    (* history: the tokens device_auth has returned to a device   *)

vars == <<boxes, acl, tokenOf, tx, issued>>

Idle == [op |-> "idle"]

(* What a handler holds between its reads and its first write; `stale` is  *)
(* set once another transaction has committed a change.                    *)
EditTx ==
  [op : {"edit"}, arg : EditArg, existing : Row, holder : SUBSET Rights, stale : BOOLEAN]
GroupTx == [op : {"group"}, caller : Tokens, group : Groups, stale : BOOLEAN]
AuthTx == [op : {"auth"}, device : Devices, existing : Tokens \cup {NoToken}, stale : BOOLEAN]

TypeOK ==
  /\ boxes \in SUBSET Mailboxes
  /\ acl \in [Mailboxes -> [Tokens -> Row]]
  /\ tokenOf \in [Devices -> Tokens \cup {NoToken}]
  /\ tx \in [Handlers -> {Idle} \cup EditTx \cup GroupTx \cup AuthTx]
  /\ issued \in [Devices -> SUBSET Tokens]

Init ==
  /\ boxes = {}
  /\ acl = [m \in Mailboxes |-> NoRows]
  /\ tokenOf = [d \in Devices |-> NoToken]
  /\ tx = [h \in Handlers |-> Idle]
  /\ issued = [d \in Devices |-> {}]

-----------------------------------------------------------------------------
(* h commits a change: the snapshots of all other open transactions age.   *)
Commit(h) ==
  tx' = [g \in Handlers |-> IF g = h \/ tx[g] = Idle THEN [op |-> "idle"]
                            ELSE [tx[g] EXCEPT !.stale = TRUE]]

Open(h, t) == tx[h] = Idle /\ tx' = [tx EXCEPT ![h] = t]

(* Fault variant: the write goes ahead on an old snapshot.                 *)
Upgrades_Always(h) == tx[h].op # "idle"

(* The upgrade to a write lock succeeds only on the newest snapshot.       *)
Upgrades(h) == ~tx[h].stale

(* RetryLater, or the request is abandoned (client gone, process killed):  *)
(* the transaction rolls back.                                             *)
Abort(h) ==
  /\ tx[h] # Idle
  /\ tx' = [tx EXCEPT ![h] = Idle]
  /\ UNCHANGED <<boxes, acl, tokenOf, issued>>

-----------------------------------------------------------------------------
(* mailbox_acl_edit, removing the caller's own row: the DELETE comes first *)
(* and needs no right.  Where there is no row it changes nothing.          *)
EditSelfRemove(h, a) ==
  /\ tx[h] = Idle
  /\ a.target = a.caller /\ AclIsEmpty(a.row)
  /\ acl[a.mailbox][a.target] # Absent
  /\ acl' = [acl EXCEPT ![a.mailbox] = DeleteAcl(@, a.target)]
  /\ Commit(h)
  /\ UNCHANGED <<boxes, tokenOf, issued>>

(* Fault variant: a row that is there may be replaced too.                 *)
EditAllowed_Overwrites(row, existing, holder) ==
  "edit" \in holder \/ AclIsSubset(row, holder)

(* mailbox_acl_edit up to its decision: an edit that changes nothing       *)
(* answers Ok at once, one that is denied AccessDenied, and neither        *)
(* writes.  Only a permitted change stays open.                            *)
EditAllowed(row, existing, holder) ==
  \/ "edit" \in holder
  \/ existing = Absent /\ AclIsSubset(row, holder)

EditRead(h, a) ==
  LET existing == acl[a.mailbox][a.target]
      holder == AclForToken(acl[a.mailbox], a.caller)
  IN  /\ ~(a.target = a.caller /\ AclIsEmpty(a.row))
      /\ existing # a.row
      /\ EditAllowed(a.row, existing, holder)
      /\ Open(h, [op |-> "edit", arg |-> a, existing |-> existing,
                  holder |-> holder, stale |-> FALSE])
      /\ UNCHANGED <<boxes, acl, tokenOf, issued>>

(* insert_acl and commit; the foreign key asks for the mailbox's row.      *)
EditWrite(h) ==
  /\ tx[h].op = "edit"
  /\ Upgrades(h)
  /\ tx[h].arg.mailbox \in boxes
  /\ acl' = [acl EXCEPT ![tx[h].arg.mailbox] = InsertAcl(@, tx[h].arg.target, tx[h].arg.row)]
  /\ Commit(h)
  /\ UNCHANGED <<boxes, tokenOf, issued>>

-----------------------------------------------------------------------------
(* register_group: any token that device_auth has issued may call it.      *)
RegisterRead(h, t, g) ==
  /\ \E d \in Devices : tokenOf[d] = t
  /\ Open(h, [op |-> "group", caller |-> t, group |-> g, stale |-> FALSE])
  /\ UNCHANGED <<boxes, acl, tokenOf, issued>>

RegisterWrite(h) ==
  /\ tx[h].op = "group"
  /\ Upgrades(h)
  /\ boxes' = boxes \cup GroupBoxes(tx[h].group)
  /\ acl' = [m \in Mailboxes |->
               IF m \in GroupBoxes(tx[h].group) THEN InsertAcl(acl[m], tx[h].caller, Rights)
               ELSE acl[m]]
  /\ Commit(h)
  /\ UNCHANGED <<tokenOf, issued>>

-----------------------------------------------------------------------------
(* AuthToken::random(): a token nobody has seen.                           *)
Fresh(t) ==
  /\ t # Anonymous
  /\ \A d \in Devices : tokenOf[d] # t /\ t \notin issued[d]
  /\ \A m \in Mailboxes : acl[m][t] = Absent
  /\ \A h \in Handlers : tx[h].op = "edit" => t \notin {tx[h].arg.caller, tx[h].arg.target}

(* update_dm_mailbox *)
UpdateDmMailbox(u, newToken) ==
  /\ boxes' = boxes \cup {Direct(u)}
  /\ acl' = [acl EXCEPT ![Direct(u)] =
               IF newToken = NoToken THEN InsertAcl(@, Anonymous, {"send"})
               ELSE InsertAcl(InsertAcl(@, Anonymous, {"send"}), newToken, {"send", "recv"})]

(* device_auth up to its SELECT; directory lookup and chain verification   *)
(* have succeeded.                                                         *)
AuthRead(h, d) ==
  /\ Open(h, [op |-> "auth", device |-> d, existing |-> tokenOf[d], stale |-> FALSE])
  /\ UNCHANGED <<boxes, acl, tokenOf, issued>>

(* The rest of device_auth when it knows the device, and when it does not. *)
AuthKnown(h) ==
  /\ tx[h].op = "auth"
  /\ Upgrades(h)
  /\ tx[h].existing # NoToken
  /\ UpdateDmMailbox(UserOf[tx[h].device], NoToken)
  /\ issued' = [issued EXCEPT ![tx[h].device] = @ \cup {tx[h].existing}]
  /\ Commit(h)
  /\ UNCHANGED tokenOf

AuthNew(h) ==
  /\ tx[h].op = "auth"
  /\ Upgrades(h)
  /\ tx[h].existing = NoToken
  /\ \E t \in Tokens :
       /\ Fresh(t)
       /\ UpdateDmMailbox(UserOf[tx[h].device], t)
       /\ tokenOf' = [tokenOf EXCEPT ![tx[h].device] = t]
       /\ issued' = [issued EXCEPT ![tx[h].device] = @ \cup {t}]
  /\ Commit(h)

Next ==
  \E h \in Handlers :
    \/ Abort(h)
    \/ \E a \in EditArgs : EditSelfRemove(h, a) \/ EditRead(h, a)
    \/ EditWrite(h)
    \/ \E t \in Tokens, g \in Groups : RegisterRead(h, t, g)
    \/ RegisterWrite(h)
    \/ \E d \in Devices : AuthRead(h, d)
    \/ AuthKnown(h)
    \/ AuthNew(h)

Spec == Init /\ [][Next]_vars

-----------------------------------------------------------------------------
(* server.rs:35: device_auth returns one token per device, however many of *)
(* its requests run at once and however often they are repeated.           *)
OneTokenPerDevice == \A d \in Devices : issued[d] \subseteq {tokenOf[d]}

(* No row of a direct mailbox ever carries the right to edit: neither      *)
(* device_auth nor any sequence of edits, whose callers can pass on no     *)
(* more than they hold, introduces it.                                     *)
DirectNeverEditable ==
  \A u \in Users, t \in Tokens :
    acl[Direct(u)][t] # Absent => "edit" \notin acl[Direct(u)][t]

(* A row of a direct mailbox stays as it was written until its own token   *)
(* removes it: two edits that both saw no row cannot overwrite each other, *)
(* and a repeated device_auth does not touch the rows of devices.  The     *)
(* anonymous row is another matter: every device_auth restores it.         *)
DirectRowsStable ==
  [][\A u \in Users, t \in Tokens \ {Anonymous} :
       acl[Direct(u)][t] # Absent /\ acl'[Direct(u)][t] # acl[Direct(u)][t]
         => /\ acl'[Direct(u)][t] = Absent
            /\ \E a \in EditArgs : a.caller = t /\ a.target = t /\ AclIsEmpty(a.row)]_vars

(* When a row is given to a token, its giver has, in the state in which    *)
(* the row appears, the right to edit or every right given: what the       *)
(* handler read before it took the lock still holds when it writes.        *)
GrantsFollowRights ==
  [][\A h \in Handlers :
       tx[h].op = "edit" /\ acl' # acl /\ tx'[h] = Idle
         => LET a == tx[h].arg
                holder == AclForToken(acl[a.mailbox], a.caller)
            IN  \/ "edit" \in holder
                \/ acl[a.mailbox][a.target] = Absent /\ a.row \subseteq holder]_vars
=============================================================================
