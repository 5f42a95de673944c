-------------------------------- MODULE Group -------------------------------
(***************************************************************************)
(* One group as its members' devices see it (nullspace-client, convo/):    *)
(* every device replays the management mailbox into a roster, follows the  *)
(* rekeys of the messages mailbox, invites, accepts, sends and rekeys.     *)
(*                                                                         *)
(* A mailbox is the sequence of its entries in the order in which readers  *)
(* get them; a cursor is the number of entries behind it.  Its entries do  *)
(* not expire: group mailboxes are sent to without a ttl.                  *)
(*                                                                         *)
(* A device's tasks await between a read of the database and the call that *)
(* uses it; what a task holds meanwhile is in `flight`.  Other clients of  *)
(* the protocol may post any management message (Posts).                   *)
(***************************************************************************)
EXTENDS Roster, FiniteSets

CONSTANTS
  Devices,      (* devices                                                *)
  UserOf,       (* their users                                            *)
  Creator,      (* the device that creates the group                      *)
  Workloads,    (* names of what users do and of the bounds that go with  *)
                (* it; the constants below are functions of it            *)
  InviteArgs,   (* the pairs <<device, user>> of invites that users make  *)
  Posts,        (* management messages that other clients may post        *)
  Loaders,      (* bound: devices that load rosters outside transactions  *)
  MaxManage,    (* bound: entries of the management mailbox               *)
  MaxMessages,  (* bound: entries of the messages mailbox                 *)
  MaxSkips,     (* bound: entries whose processing fails, per mailbox     *)
  MaxFlight     (* bound: tasks between a read and a call                 *)

ASSUME UserOfType == UserOf \in [Devices -> Users]
ASSUME CreatorType == Creator \in Devices /\ UserOf[Creator] = InitAdmin
ASSUME WorkloadsType ==
  \A w \in Workloads :
    /\ \A i \in InviteArgs[w] : i \in Devices \X Users /\ i[2] # UserOf[i[1]]
    /\ Posts[w] \subseteq ManageMsg
    /\ Loaders[w] \subseteq Devices
    /\ {MaxManage[w], MaxMessages[w], MaxFlight[w]} \subseteq Nat
    /\ MaxSkips[w] \in [{"manage", "messages"} -> Nat]

VARIABLES
  workload,  (* which workload this behaviour has                         *)
  manage,    (* the management mailbox                                    *)
  messages,  (* the messages mailbox                                      *)
  group,     (* table groups, group_members and the cursors, per device   *)
  invites,   (* invites delivered by direct message                       *)
  flight,    (* what tasks hold between a read and a call                 *)
  shown,     (* history: <<device, n>> where entry n became a message     *)
  skipped,   (* history: <<device, mailbox, n>> where processing failed   *)
  switched,  (* history: <<device, n>> where entry n changed the key      *)
  late       (* history: devices where a load wrote over a loaded roster  *)

vars == <<workload, manage, messages, group, invites, flight, shown, skipped, switched, late>>

(* Keys are numbered; the creator's is 0, a rekey's is its position.  As   *)
(* history, a record keeps the key it started with and where it started,   *)
(* and a rekey whom its sender's roster had banned when the rekey began.   *)
Key == Nat
NoGroup == [joined |-> FALSE]
GroupRecord ==
  [joined : {TRUE}, roster : Rosters, version : Nat, cur : Key, prev : Key,
   first : Key, from : Nat, managed : Nat, read : Nat]
MessageEntry ==
  [kind : {"message"}, key : Key]
    \cup [kind : {"rekey"}, sender : Users, to : SUBSET Devices, out : SUBSET Users]
Invite == [to : Users, key : Key, at : Nat]
Flight ==
  [task : {"invite", "invited"}, dev : Devices, to : Users, key : Key]
    \cup [task : {"accept", "load", "loaded"}, dev : Devices]
    \cup [task : {"send"}, dev : Devices, key : Key]
    \cup [task : {"rekey"}, dev : Devices, out : SUBSET Users]
    \cup [task : {"rekeyed"}, dev : Devices, out : SUBSET Users, to : SUBSET Devices]

TypeOK ==
  /\ workload \in Workloads
  /\ manage \in Seq(ManageMsg)
  /\ messages \in Seq(MessageEntry)
  /\ group \in [Devices -> {NoGroup} \cup GroupRecord]
  /\ invites \in SUBSET Invite
  /\ flight \in SUBSET Flight
  /\ shown \in SUBSET (Devices \X Nat)
  /\ skipped \in SUBSET (Devices \X {"manage", "messages"} \X Nat)
  /\ switched \in SUBSET (Devices \X Nat)
  /\ late \in SUBSET Devices

NewGroup(key, read) ==
  [joined |-> TRUE, roster |-> NoMembers, version |-> 0, cur |-> key, prev |-> key,
   first |-> key, from |-> read, managed |-> 0, read |-> read]

-----------------------------------------------------------------------------
(* Fault variant: the initial admin is put back whenever the row is gone.  *)
Loaded_Repairs(g) ==
  IF g.roster[InitAdmin].status # "none" THEN g
  ELSE [g EXCEPT !.roster = Put(@, InitAdmin, TRUE, "accepted"), !.version = @ + 1]

(* GroupRoster::load: the first load puts the initial admin in.  It is one *)
(* step in a transaction, or where nothing else writes between (RecvRekey). *)
Loaded(g) ==
  IF g.version # 0 THEN g
  ELSE [g EXCEPT !.roster = Put(@, InitAdmin, TRUE, "accepted"), !.version = 1]

(* create_group loads the roster in the transaction of its INSERT.         *)
Init ==
  /\ workload \in Workloads
  /\ manage = <<>> /\ messages = <<>>
  /\ group = [d \in Devices |-> IF d = Creator THEN Loaded(NewGroup(0, 0)) ELSE NoGroup]
  /\ invites = {} /\ flight = {}
  /\ shown = {} /\ skipped = {} /\ switched = {} /\ late = {}

Joined(d) == group[d].joined

(* A task of a device does one thing at a time.                            *)
Free(d, tasks) ==
  /\ \A o \in flight : o.dev = d => o.task \notin tasks
  /\ Cardinality(flight) < MaxFlight[workload]

PostManage(u, kind, about) ==
  /\ Len(manage) < MaxManage[workload]
  /\ manage' = Append(manage, [sender |-> u, kind |-> kind, about |-> about])

PostMessage(entry) ==
  /\ Len(messages) < MaxMessages[workload]
  /\ messages' = Append(messages, entry)

-----------------------------------------------------------------------------
(* invite: the group is loaded first, the invitee's token is given access, *)
(* the management message is posted, and only then the invite is queued,   *)
(* with the key that was loaded and the time of now.                       *)
InviteLoad(d, u) ==
  /\ Joined(d) /\ <<d, u>> \in InviteArgs[workload]
  /\ Free(d, {"invite", "invited"})
  /\ Len(manage) < MaxManage[workload]
  /\ flight' = flight \cup {[task |-> "invite", dev |-> d, to |-> u, key |-> group[d].cur]}
  /\ UNCHANGED <<workload, manage, messages, group, invites, shown, skipped, switched, late>>

InvitePost(o) ==
  /\ o.task = "invite"
  /\ PostManage(UserOf[o.dev], "invite_sent", o.to)
  /\ flight' = (flight \ {o}) \cup {[o EXCEPT !.task = "invited"]}
  /\ UNCHANGED <<workload, messages, group, invites, shown, skipped, switched, late>>

InviteDeliver(o) ==
  /\ o.task = "invited"
  /\ invites' = invites \cup {[to |-> o.to, key |-> o.key, at |-> Len(messages)]}
  /\ flight' = flight \ {o}
  /\ UNCHANGED <<workload, manage, messages, group, shown, skipped, switched, late>>

(* accept_invite: the group row is written unless there is one, and the    *)
(* cursors unless there are some; then the acceptance is posted.           *)
AcceptStore(d, i) ==
  /\ i.to = UserOf[d]
  /\ Free(d, {"accept"})
  /\ Len(manage) < MaxManage[workload]
  /\ group' = IF Joined(d) THEN group ELSE [group EXCEPT ![d] = NewGroup(i.key, i.at)]
  /\ flight' = flight \cup {[task |-> "accept", dev |-> d]}
  /\ UNCHANGED <<workload, manage, messages, invites, shown, skipped, switched, late>>

AcceptPost(o) ==
  /\ o.task = "accept"
  /\ PostManage(UserOf[o.dev], "invite_accepted", UserOf[o.dev])
  /\ flight' = flight \ {o}
  /\ UNCHANGED <<workload, messages, group, invites, shown, skipped, switched, late>>

(* Another client posts a management message.                              *)
Post(m) ==
  /\ \E d \in Devices : UserOf[d] = m.sender /\ Joined(d)
  /\ PostManage(m.sender, m.kind, m.about)
  /\ UNCHANGED <<workload, messages, group, invites, flight, shown, skipped, switched, late>>

-----------------------------------------------------------------------------
(* group_recv_once with a management entry: the cursor, then the roster.   *)
RecvManage(d) ==
  /\ Joined(d) /\ group[d].managed < Len(manage)
  /\ LET g == Loaded(group[d])
         r == Apply(g.roster, manage[g.managed + 1])
     IN  group' = [group EXCEPT ![d] =
           [g EXCEPT !.managed = @ + 1, !.roster = r,
                     !.version = IF r = g.roster THEN @ ELSE @ + 1]]
  /\ UNCHANGED <<workload, manage, messages, invites, flight, shown, skipped, switched, late>>

MaySkip(mailbox) == Cardinality({e \in skipped : e[2] = mailbox}) < MaxSkips[workload][mailbox]

(* The cursor is saved, and then processing fails (directory, database) or *)
(* the process ends: the entry is never seen again.                        *)
SkipManage(d) ==
  /\ Joined(d) /\ group[d].managed < Len(manage)
  /\ MaySkip("manage")
  /\ group' = [group EXCEPT ![d].managed = @ + 1]
  /\ skipped' = skipped \cup {<<d, "manage", group[d].managed + 1>>}
  /\ UNCHANGED <<workload, manage, messages, invites, flight, shown, switched, late>>

(* Fault variant: the old key is not kept.                                 *)
Rekeyed_ForgetsPrev(g, key) == [g EXCEPT !.prev = key, !.cur = key]

Rekeyed(g, key) == [g EXCEPT !.prev = g.cur, !.cur = key]

(* A rekey that the device can decrypt, from an active admin of its own    *)
(* roster, shifts the keys.                                                *)
RecvRekey(d) ==
  LET n == group[d].read + 1
      e == messages[n]
      g == [Loaded(group[d]) EXCEPT !.read = n]
      accepted == d \in e.to /\ e.sender \in ActiveAdmins(g.roster)
  IN  /\ Joined(d) /\ n <= Len(messages) /\ e.kind = "rekey"
      /\ group' = [group EXCEPT ![d] =
           IF d \notin e.to THEN [group[d] EXCEPT !.read = n]
           ELSE IF accepted THEN Rekeyed(g, n) ELSE g]
      /\ switched' = IF accepted THEN switched \cup {<<d, n>>} ELSE switched
      /\ UNCHANGED <<workload, manage, messages, invites, flight, shown, skipped, late>>

(* A message is shown if one of the two keys opens it.                     *)
RecvMessage(d) ==
  LET n == group[d].read + 1
      e == messages[n]
  IN  /\ Joined(d) /\ n <= Len(messages) /\ e.kind = "message"
      /\ group' = [group EXCEPT ![d].read = n]
      /\ shown' = IF e.key \in {group[d].cur, group[d].prev} THEN shown \cup {<<d, n>>}
                  ELSE shown
      /\ UNCHANGED <<workload, manage, messages, invites, flight, skipped, switched, late>>

SkipMessage(d) ==
  /\ Joined(d) /\ group[d].read < Len(messages)
  /\ MaySkip("messages")
  /\ group' = [group EXCEPT ![d].read = @ + 1]
  /\ skipped' = skipped \cup {<<d, "messages", group[d].read + 1>>}
  /\ UNCHANGED <<workload, manage, messages, invites, flight, shown, switched, late>>

-----------------------------------------------------------------------------
(* send_group_message: the key is loaded, the message posted later.        *)
SendLoad(d) ==
  /\ Joined(d)
  /\ Free(d, {"send"})
  /\ Len(messages) < MaxMessages[workload]
  /\ flight' = flight \cup {[task |-> "send", dev |-> d, key |-> group[d].cur]}
  /\ UNCHANGED <<workload, manage, messages, group, invites, shown, skipped, switched, late>>

SendPost(o) ==
  /\ o.task = "send"
  /\ PostMessage([kind |-> "message", key |-> o.key])
  /\ flight' = flight \ {o}
  /\ UNCHANGED <<workload, manage, group, invites, shown, skipped, switched, late>>

(* The rekey loop and the listing of members load the roster without a     *)
(* transaction: the version is read, the row of the initial admin is put,  *)
(* and the version set, each by a statement of its own.                    *)
LoadRead(d) ==
  /\ Joined(d) /\ group[d].version = 0
  /\ d \in Loaders[workload] /\ Free(d, {"load", "loaded"})
  /\ flight' = flight \cup {[task |-> "load", dev |-> d]}
  /\ UNCHANGED <<workload, manage, messages, group, invites, shown, skipped, switched, late>>

LoadPut(o) ==
  /\ o.task = "load"
  /\ group' = [group EXCEPT ![o.dev].roster = Put(@, InitAdmin, TRUE, "accepted")]
  /\ late' = IF group[o.dev].version = 0 THEN late ELSE late \cup {o.dev}
  /\ flight' = (flight \ {o}) \cup {[o EXCEPT !.task = "loaded"]}
  /\ UNCHANGED <<workload, manage, messages, invites, shown, skipped, switched>>

LoadVersion(o) ==
  /\ o.task = "loaded"
  /\ group' = [group EXCEPT ![o.dev].version = 1]
  /\ flight' = flight \ {o}
  /\ UNCHANGED <<workload, manage, messages, invites, shown, skipped, switched, late>>

(* group_rekey_loop_once: with the roster loaded, an active admin of it    *)
(* may rekey.                                                              *)
RekeyCheck(d) ==
  /\ Joined(d) /\ group[d].version # 0
  /\ Free(d, {"rekey", "rekeyed"})
  /\ Len(messages) < MaxMessages[workload]
  /\ UserOf[d] \in ActiveAdmins(group[d].roster)
  /\ flight' = flight \cup {[task |-> "rekey", dev |-> d, out |-> Banned(group[d].roster)]}
  /\ UNCHANGED <<workload, manage, messages, group, invites, shown, skipped, switched, late>>

(* Fault variant: every row of the roster is a recipient.                  *)
Recipients_All(r) == {d \in Devices : r[UserOf[d]].status # "none"}

(* collect_group_recipients: the devices of the active members.            *)
Recipients(r) == {d \in Devices : UserOf[d] \in Active(r)}

RekeyCollect(o) ==
  LET to == Recipients(group[o.dev].roster)
  IN  /\ o.task = "rekey"
      /\ to # {}
      /\ flight' = (flight \ {o})
           \cup {[task |-> "rekeyed", dev |-> o.dev, out |-> o.out, to |-> to]}
      /\ UNCHANGED <<workload, manage, messages, group, invites, shown, skipped, switched, late>>

RekeyPost(o) ==
  /\ o.task = "rekeyed"
  /\ PostMessage([kind |-> "rekey", sender |-> UserOf[o.dev], to |-> o.to, out |-> o.out])
  /\ flight' = flight \ {o}
  /\ UNCHANGED <<workload, manage, group, invites, shown, skipped, switched, late>>

(* A call fails or the process ends before the next call.                  *)
Abandon(o) ==
  /\ flight' = flight \ {o}
  /\ UNCHANGED <<workload, manage, messages, group, invites, shown, skipped, switched, late>>

DeviceNext(d) ==
  \/ \E u \in Users : InviteLoad(d, u)
  \/ \E i \in invites : AcceptStore(d, i)
  \/ RecvManage(d) \/ SkipManage(d)
  \/ RecvRekey(d) \/ RecvMessage(d) \/ SkipMessage(d)
  \/ SendLoad(d) \/ LoadRead(d) \/ RekeyCheck(d)

FlightNext(o) ==
  InvitePost(o) \/ InviteDeliver(o) \/ AcceptPost(o) \/ SendPost(o)
    \/ LoadPut(o) \/ LoadVersion(o) \/ RekeyCollect(o) \/ RekeyPost(o) \/ Abandon(o)

Next ==
  \/ \E d \in Devices : DeviceNext(d)
  \/ \E o \in flight : FlightNext(o)
  \/ \E m \in Posts[workload] : Post(m)

Spec == Init /\ [][Next]_vars

-----------------------------------------------------------------------------
SkippedBy(d, mailbox) == {n \in 1 .. Len(manage) + Len(messages) : <<d, mailbox, n>> \in skipped}

(* Whenever a device looks at its roster, the table is what replaying the  *)
(* management mailbox gives, up to its cursor and but for the entries      *)
(* whose processing failed: however the replay is cut up, and even when    *)
(* the initial admin has left.  A load that read version 0 and put its row *)
(* after another had begun the replay is the one exception.  (And the       *)
(* variables have their types.)                                            *)
RosterIsReplayOfProcessed ==
  /\ TypeOK
  /\ \A d \in Devices \ late :
       Joined(d) => Loaded(group[d]).roster
                      = Replay(manage, group[d].managed, SkippedBy(d, "manage"))

(* groups.md, "Roster": a deterministic, derived data structure computed   *)
(* by replaying management messages in order.  That would be the replay of *)
(* all messages behind the cursor, whoever loads the roster when.          *)
RosterIsReplay ==
  \A d \in Devices :
    Joined(d) => Loaded(group[d]).roster = Replay(manage, group[d].managed, {})

(* A user banned on a device's roster stays banned there, whatever the     *)
(* user or others post, until that device applies an unban by someone who  *)
(* is then an active admin on it, or, for the initial admin, a late load.  *)
BanSticks ==
  [][\A d \in Devices : Joined(d) =>
       \A u \in Banned(group[d].roster) \ Banned(group'[d].roster) :
         \/ u = InitAdmin /\ d \in late'
         \/ \E s \in ActiveAdmins(group[d].roster) :
              /\ group'[d].managed = group[d].managed + 1
              /\ manage[group'[d].managed] = [sender |-> s, kind |-> "unban", about |-> u]]_vars

(* A group without active admins, on a device's roster, never gets one     *)
(* again: admins come from admins, and the initial admin is put in once,   *)
(* unless by a late load.                                                  *)
NoAdminIsForever ==
  [][\A d \in Devices \ late' :
       Joined(d) /\ group[d].version # 0 /\ ActiveAdmins(group[d].roster) = {}
         => ActiveAdmins(group'[d].roster) = {}]_vars

(* A device fails to show a message that it processed only if it never     *)
(* took the key, or if two rekeys were posted between the key's and the    *)
(* message: one rekey may overtake a message on its way to the mailbox.    *)
LostOnlyIfOvertaken ==
  \A d \in Devices : Joined(d) =>
    \A n \in group[d].from + 1 .. group[d].read :
      messages[n].kind = "message" /\ <<d, n>> \notin shown
        /\ n \notin SkippedBy(d, "messages") =>
        LET key == messages[n].key
        IN  \/ key # group[d].first /\ <<d, key>> \notin switched
            \/ Cardinality({j \in key + 1 .. n - 1 : messages[j].kind = "rekey"}) >= 2

(* A rekey is not addressed to a user whom its sender's roster had banned  *)
(* when the rekey began, unless someone posted an unban or, for the        *)
(* initial admin, a late load put him back on the sender's roster; and the *)
(* user gets hold of its key only if invited.                              *)
RekeyExcludesBanned ==
  \A n \in 1 .. Len(messages) : messages[n].kind = "rekey" =>
    \A u \in messages[n].out, d \in Devices :
      UserOf[d] = u /\ Joined(d) /\ (d \in messages[n].to \/ n \in {group[d].cur, group[d].prev})
        => \/ \E m \in 1 .. Len(manage) : manage[m].kind = "unban" /\ manage[m].about = u
           \/ u = InitAdmin /\ \E e \in late : UserOf[e] = messages[n].sender
           \/ \E i \in invites : i.to = u /\ i.key = n
=============================================================================
