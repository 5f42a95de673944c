----------------------------- MODULE GroupProofs ----------------------------
(***************************************************************************)
(* Proofs about Group, for any users, devices, workloads and bounds.       *)
(***************************************************************************)
EXTENDS Group, WellFoundedInduction, FiniteSetTheorems, SequenceTheorems, TLAPS

(* A set of numbers that is not empty has a least one.                     *)
LEMMA LeastElement ==
  ASSUME NEW S \in SUBSET Nat, S # {}
  PROVE  \E x \in S : \A y \in S : x <= y
<1>1. PICK x \in S : \A y \in S : <<y, x>> \notin OpToRel(<, Nat)
  BY NatLessThanWellFounded, WFMin
<1>2. \A y \in S : ~(y < x)
  BY <1>1 DEF OpToRel
<1> QED BY <1>2
-----------------------------------------------------------------------------
(* Replay: f is the function it defines.  There is one, and what it gives  *)
(* depends only on the entries and skips up to that point.                 *)
IsReplay(f, log, n, skips) ==
  f = [i \in 0 .. n |-> IF i = 0 THEN FirstRoster
                        ELSE IF i \in skips THEN f[i - 1] ELSE Apply(f[i - 1], log[i])]

LEMMA ReplayExists ==
  ASSUME NEW log, NEW skips, NEW n \in Nat
  PROVE  \E f : IsReplay(f, log, n, skips)
<1> DEFINE S == {k \in Nat : ~\E f : IsReplay(f, log, k, skips)}
<1> SUFFICES ASSUME S # {} PROVE FALSE
  OBVIOUS
<1>1. PICK k \in S : \A y \in S : k <= y
  <2>1. S \in SUBSET Nat
    OBVIOUS
  <2> HIDE DEF S
  <2> QED BY <2>1, LeastElement
<1>2. k # 0
  <2>1. IsReplay([i \in 0 .. 0 |-> FirstRoster], log, 0, skips)
    BY DEF IsReplay
  <2> QED BY <1>1, <2>1
<1>3. k - 1 \in Nat /\ k - 1 \notin S
  BY <1>1, <1>2
<1>4. PICK f : IsReplay(f, log, k - 1, skips)
  BY <1>3
<1> DEFINE last == IF k \in skips THEN f[k - 1] ELSE Apply(f[k - 1], log[k])
           g == [i \in 0 .. k |-> IF i < k THEN f[i] ELSE last]
<1>5. \A i \in 0 .. k - 1 :
        f[i] = IF i = 0 THEN FirstRoster
               ELSE IF i \in skips THEN f[i - 1] ELSE Apply(f[i - 1], log[i])
  BY <1>4 DEF IsReplay
<1>6. ASSUME NEW i \in 0 .. k
      PROVE  g[i] = IF i = 0 THEN FirstRoster
                    ELSE IF i \in skips THEN g[i - 1] ELSE Apply(g[i - 1], log[i])
  <2> HIDE DEF last
  <2>1. i \in 0 .. k - 1 => g[i] = f[i]
    BY <1>3
  <2>2. i # 0 => g[i - 1] = f[i - 1]
    BY <1>3
  <2>3. CASE i \in 0 .. k - 1
    BY <1>5, <2>1, <2>2, <2>3
  <2>4. CASE i = k
    <3>1. g[k] = last
      BY <1>3
    <3> QED BY <1>2, <2>2, <2>4, <3>1 DEF last
  <2> QED BY <1>3, <2>3, <2>4
<1>7. IsReplay(g, log, k, skips)
  <2>1. g = [i \in 0 .. k |-> g[i]]
    OBVIOUS
  <2> HIDE DEF g
  <2> QED BY <1>6, <2>1 DEF IsReplay
<1> HIDE DEF g
<1> QED BY <1>1, <1>7

(* Up to n, two logs and what was skipped of them are the same.            *)
Alike(log, skips, log2, skips2, n) ==
  \A i \in 1 .. n : log[i] = log2[i] /\ (i \in skips <=> i \in skips2)

LEMMA AlikeItself ==
  ASSUME NEW log, NEW skips, NEW n
  PROVE  Alike(log, skips, log, skips, n)
BY DEF Alike

LEMMA ReplayAgrees ==
  ASSUME NEW log, NEW skips, NEW n \in Nat, NEW f, IsReplay(f, log, n, skips),
         NEW log2, NEW skips2, NEW m \in Nat, NEW g, IsReplay(g, log2, m, skips2), n <= m,
         Alike(log, skips, log2, skips2, n)
  PROVE  \A i \in 0 .. n : f[i] = g[i]
<1> DEFINE S == {i \in 0 .. n : f[i] # g[i]}
<1> SUFFICES ASSUME S # {} PROVE FALSE
  OBVIOUS
<1>1. PICK k \in S : \A y \in S : k <= y
  <2>1. S \in SUBSET Nat
    OBVIOUS
  <2> HIDE DEF S
  <2> QED BY <2>1, LeastElement
<1>2. \A i \in 0 .. n :
        /\ f[i] = IF i = 0 THEN FirstRoster
                  ELSE IF i \in skips THEN f[i - 1] ELSE Apply(f[i - 1], log[i])
        /\ g[i] = IF i = 0 THEN FirstRoster
                  ELSE IF i \in skips2 THEN g[i - 1] ELSE Apply(g[i - 1], log2[i])
  <2>1. \A i \in 0 .. n : i \in 0 .. m
    OBVIOUS
  <2> QED BY <2>1 DEF IsReplay
<1>3. k # 0
  BY <1>1, <1>2
<1>4. k - 1 \in 0 .. n /\ k - 1 \notin S
  BY <1>1, <1>3
<1>5. f[k - 1] = g[k - 1] /\ k \in 1 .. n
  BY <1>1, <1>3, <1>4
<1>6. f[k] = g[k]
  BY <1>2, <1>3, <1>5 DEF Alike
<1> QED BY <1>1, <1>6

LEMMA ReplayIs ==
  ASSUME NEW log, NEW skips, NEW n \in Nat, NEW f, IsReplay(f, log, n, skips)
  PROVE  Replay(log, n, skips) = f[n]
<1>1. PICK g : g = CHOOSE h : IsReplay(h, log, n, skips)
  OBVIOUS
<1>2. IsReplay(g, log, n, skips)
  BY <1>1
<1>3. Replay(log, n, skips) = g[n]
  BY <1>1 DEF Replay, IsReplay
<1>4. \A i \in 0 .. n : f[i] = g[i]
  BY <1>2, AlikeItself, ReplayAgrees
<1> QED BY <1>3, <1>4

(* Replay by one entry more, and from equal beginnings.                    *)
LEMMA ReplayStep ==
  ASSUME NEW log, NEW skips, NEW n \in Nat
  PROVE  /\ Replay(log, 0, skips) = FirstRoster
         /\ Replay(log, n + 1, skips) =
              IF n + 1 \in skips THEN Replay(log, n, skips)
              ELSE Apply(Replay(log, n, skips), log[n + 1])
<1>1. PICK f : IsReplay(f, log, 0, skips)
  BY ReplayExists
<1>2. Replay(log, 0, skips) = FirstRoster
  <2>1. Replay(log, 0, skips) = f[0]
    BY <1>1, ReplayIs
  <2>2. 0 \in 0 .. 0
    OBVIOUS
  <2> QED BY <1>1, <2>1, <2>2 DEF IsReplay
<1>3. PICK g : IsReplay(g, log, n, skips)
  BY ReplayExists
<1>4. PICK h : IsReplay(h, log, n + 1, skips)
  BY ReplayExists
<1>5. g[n] = h[n]
  <2>1. n + 1 \in Nat /\ n <= n + 1 /\ n \in 0 .. n
    OBVIOUS
  <2>2. \A i \in 0 .. n : g[i] = h[i]
    BY <1>3, <1>4, <2>1, AlikeItself, ReplayAgrees
  <2> QED BY <2>1, <2>2
<1>6. h[n + 1] = IF n + 1 \in skips THEN h[n] ELSE Apply(h[n], log[n + 1])
  BY <1>4 DEF IsReplay
<1>7. Replay(log, n, skips) = g[n] /\ Replay(log, n + 1, skips) = h[n + 1]
  BY <1>3, <1>4, ReplayIs
<1> QED BY <1>2, <1>5, <1>6, <1>7

LEMMA ReplaySame ==
  ASSUME NEW log, NEW skips, NEW log2, NEW skips2, NEW n \in Nat,
         \A i \in 1 .. n : log[i] = log2[i] /\ (i \in skips <=> i \in skips2)
  PROVE  Replay(log, n, skips) = Replay(log2, n, skips2)
<1>1. PICK f : IsReplay(f, log, n, skips)
  BY ReplayExists
<1>2. PICK g : IsReplay(g, log2, n, skips2)
  BY ReplayExists
<1>3. f[n] = g[n]
  <2>1. Alike(log, skips, log2, skips2, n)
    BY DEF Alike
  <2>2. n \in 0 .. n
    OBVIOUS
  <2> QED BY <1>1, <1>2, <2>1, <2>2, ReplayAgrees
<1> QED BY <1>1, <1>2, <1>3, ReplayIs
-----------------------------------------------------------------------------
(* The roster of a member's row, and what a management message can do.     *)
LEMMA PutIs ==
  ASSUME NEW r \in Rosters, NEW u \in Users, NEW a \in BOOLEAN, NEW s \in Statuses
  PROVE  /\ Put(r, u, a, s) \in Rosters
         /\ \A v \in Users : Put(r, u, a, s)[v] = IF v = u THEN [admin |-> a, status |-> s] ELSE r[v]
BY DEF Put, Rosters, Member

LEMMA FirstRosterIs ==
  /\ NoMembers \in Rosters /\ FirstRoster \in Rosters
  /\ Put(NoMembers, InitAdmin, TRUE, "accepted") = FirstRoster
  /\ Put(FirstRoster, InitAdmin, TRUE, "accepted") = FirstRoster
  /\ Banned(NoMembers) = {} /\ Banned(FirstRoster) = {}
<1>1. NoMembers \in Rosters /\ "accepted" \in Statuses /\ TRUE \in BOOLEAN
  BY DEF NoMembers, Rosters, Member, Statuses
<1>2. FirstRoster \in Rosters
        /\ \A v \in Users : FirstRoster[v] = IF v = InitAdmin THEN [admin |-> TRUE, status |-> "accepted"]
                                             ELSE NoMembers[v]
  BY <1>1, InitAdminIsUser DEF FirstRoster, Put, Rosters, Member
<1>3. Put(FirstRoster, InitAdmin, TRUE, "accepted") = FirstRoster
  <2>1. FirstRoster[InitAdmin] = [admin |-> TRUE, status |-> "accepted"]
    BY <1>2, InitAdminIsUser
  <2> QED BY <1>2, <2>1 DEF Put, Rosters
<1>4. \A v \in Users : NoMembers[v].status # "banned" /\ FirstRoster[v].status # "banned"
  <2>1. \A v \in Users : NoMembers[v].status = "none"
    BY DEF NoMembers
  <2>2. [admin |-> TRUE, status |-> "accepted"].status # "banned"
    OBVIOUS
  <2> QED BY <1>2, <2>1, <2>2
<1> QED BY <1>1, <1>2, <1>3, <1>4 DEF FirstRoster, Banned

LEMMA ApplyKinds ==
  ASSUME NEW r \in Rosters, NEW m \in ManageMsg
  PROVE  /\ m.sender \in Users /\ m.about \in Users
         /\ \/ m.kind = "invite_sent" /\ Apply(r, m) = InviteSent(r, m)
            \/ m.kind = "invite_accepted" /\ Apply(r, m) = InviteAccepted(r, m)
            \/ m.kind = "leave" /\ Apply(r, m) = Leave(r, m)
            \/ m.kind = "ban" /\ Apply(r, m) = Ban(r, m)
            \/ m.kind = "unban" /\ Apply(r, m) = Unban(r, m)
            \/ m.kind = "add_admin" /\ Apply(r, m) = SetAdmin(r, m, TRUE)
            \/ m.kind = "remove_admin" /\ Apply(r, m) = SetAdmin(r, m, FALSE)
<1>1. m.sender \in Users /\ m.about \in Users /\ m.kind \in Kinds
  BY DEF ManageMsg
<1> QED BY <1>1 DEF Apply, Kinds

LEMMA ApplyType ==
  ASSUME NEW r \in Rosters, NEW m \in ManageMsg
  PROVE  Apply(r, m) \in Rosters
<1>1. m.sender \in Users /\ m.about \in Users /\ r[m.about].status \in Statuses
  BY ApplyKinds DEF Rosters, Member
<1>2. "none" \in Statuses /\ "pending" \in Statuses /\ "accepted" \in Statuses /\ "banned" \in Statuses
        /\ TRUE \in BOOLEAN /\ FALSE \in BOOLEAN
  BY DEF Statuses
<1>3. InviteSent(r, m) \in Rosters /\ InviteAccepted(r, m) \in Rosters
  BY <1>1, <1>2, PutIs DEF InviteSent, InviteAccepted
<1>4. Leave(r, m) \in Rosters /\ Ban(r, m) \in Rosters /\ Unban(r, m) \in Rosters
  BY <1>1, <1>2, PutIs DEF Leave, Ban, Unban
<1>5. SetAdmin(r, m, TRUE) \in Rosters /\ SetAdmin(r, m, FALSE) \in Rosters
  BY <1>1, <1>2 DEF SetAdmin, Put, Rosters, Member
<1> QED BY <1>3, <1>4, <1>5, ApplyKinds

(* Only an unban by an active admin takes back a ban.                      *)
LEMMA ApplyKeepsBans ==
  ASSUME NEW r \in Rosters, NEW m \in ManageMsg, NEW u \in Banned(r), u \notin Banned(Apply(r, m))
  PROVE  m.kind = "unban" /\ m.about = u /\ m.sender \in ActiveAdmins(r)
<1>1. u \in Users /\ r[u].status = "banned"
  BY DEF Banned
<1>2. ASSUME NEW v \in Users, NEW a \in BOOLEAN, NEW s \in Statuses, Apply(r, m) = Put(r, v, a, s)
      PROVE  u = v /\ s # "banned"
  <2>1. Apply(r, m)[u] = IF u = v THEN [admin |-> a, status |-> s] ELSE r[u]
    BY <1>1, <1>2, PutIs
  <2>2. Apply(r, m)[u].status # "banned"
    BY <1>1 DEF Banned
  <2> QED BY <1>1, <2>1, <2>2
<1>3. Apply(r, m) # r
  OBVIOUS
<1>4. {"none", "pending", "accepted", "banned"} = Statuses /\ {TRUE, FALSE} = BOOLEAN
  BY DEF Statuses
<1>5. CASE m.kind = "invite_sent"
  BY <1>1, <1>2, <1>3, <1>4, <1>5, ApplyKinds DEF InviteSent
<1>6. CASE m.kind = "invite_accepted"
  BY <1>1, <1>2, <1>3, <1>4, <1>6, ApplyKinds DEF InviteAccepted
<1>7. CASE m.kind = "leave"
  BY <1>1, <1>2, <1>3, <1>4, <1>7, ApplyKinds DEF Leave
<1>8. CASE m.kind = "ban"
  BY <1>1, <1>2, <1>3, <1>4, <1>8, ApplyKinds DEF Ban
<1>9. CASE m.kind = "unban"
  BY <1>1, <1>2, <1>3, <1>4, <1>9, ApplyKinds DEF Unban
<1>10. CASE m.kind \in {"add_admin", "remove_admin"}
  <2>1. m.about \in Active(r) => r[m.about].status # "banned" /\ r[m.about].status \in Statuses
    BY <1>4, ApplyKinds DEF Active, IsActive, Rosters, Member
  <2> QED BY <1>1, <1>2, <1>3, <1>4, <1>10, <2>1, ApplyKinds DEF SetAdmin
<1> QED BY <1>5, <1>6, <1>7, <1>8, <1>9, <1>10, ApplyKinds

(* Admins come from admins.                                                *)
LEMMA ApplyNoAdmin ==
  ASSUME NEW r \in Rosters, NEW m \in ManageMsg, ActiveAdmins(r) = {}
  PROVE  ActiveAdmins(Apply(r, m)) = {}
<1>1. \A v \in Users : ~(IsActive(r[v]) /\ r[v].admin)
  BY DEF ActiveAdmins, Active
<1>2. ASSUME NEW v \in Users, NEW s \in Statuses, Apply(r, m) = Put(r, v, FALSE, s)
      PROVE  ActiveAdmins(Apply(r, m)) = {}
  <2>1. \A w \in Users : Apply(r, m)[w] = IF w = v THEN [admin |-> FALSE, status |-> s] ELSE r[w]
    BY <1>2 DEF Put, Rosters
  <2> QED BY <1>1, <2>1 DEF ActiveAdmins, Active
<1>3. Apply(r, m) = r \/ \E v \in Users, s \in Statuses : Apply(r, m) = Put(r, v, FALSE, s)
  BY ApplyKinds DEF InviteSent, InviteAccepted, Leave, Ban, Unban, SetAdmin, Statuses
<1> QED BY <1>2, <1>3
-----------------------------------------------------------------------------
(* The shapes of what the variables hold.                                  *)
LEMMA JoinedIs ==
  ASSUME TypeOK, NEW d \in Devices
  PROVE  /\ Joined(d) \in BOOLEAN
         /\ IF Joined(d) THEN group[d] \in GroupRecord ELSE group[d] = NoGroup
<1>1. group[d] = NoGroup \/ group[d] \in GroupRecord
  BY DEF TypeOK
<1>2. NoGroup.joined = FALSE
  BY DEF NoGroup
<1>3. ASSUME NEW g \in GroupRecord PROVE g.joined = TRUE
  BY DEF GroupRecord
<1> QED BY <1>1, <1>2, <1>3 DEF Joined

LEMMA NewGroupIs ==
  ASSUME NEW k \in Nat, NEW n \in Nat
  PROVE  NewGroup(k, n) \in GroupRecord
BY FirstRosterIs DEF NewGroup, GroupRecord, Key

(* Loading changes the roster and the version only.                        *)
LEMMA LoadedIs ==
  ASSUME NEW g \in GroupRecord
  PROVE  /\ Loaded(g) \in GroupRecord /\ Loaded(g).version # 0
         /\ g.version # 0 => Loaded(g) = g
         /\ g.version = 0 => Loaded(g).roster = Put(g.roster, InitAdmin, TRUE, "accepted")
         /\ g.version = 0 => Loaded(g) = [g EXCEPT !.roster = Loaded(g).roster, !.version = 1]
         /\ Loaded(g).cur = g.cur /\ Loaded(g).prev = g.prev /\ Loaded(g).first = g.first
         /\ Loaded(g).from = g.from /\ Loaded(g).managed = g.managed /\ Loaded(g).read = g.read
<1>1. Put(g.roster, InitAdmin, TRUE, "accepted") \in Rosters
  BY InitAdminIsUser DEF GroupRecord, Put, Rosters, Member, Statuses
<1>2. CASE g.version = 0
  <2>1. PICK r \in Rosters : r = Put(g.roster, InitAdmin, TRUE, "accepted")
    BY <1>1
  <2>2. Loaded(g) = [g EXCEPT !.roster = r, !.version = 1]
    BY <1>2, <2>1 DEF Loaded, GroupRecord
  <2>3. /\ Loaded(g) \in GroupRecord /\ Loaded(g).version = 1 /\ Loaded(g).roster = r
        /\ Loaded(g).cur = g.cur /\ Loaded(g).prev = g.prev /\ Loaded(g).first = g.first
        /\ Loaded(g).from = g.from /\ Loaded(g).managed = g.managed /\ Loaded(g).read = g.read
    <3>1. PICK h : h = Loaded(g)
      OBVIOUS
    <3>2. h = [g EXCEPT !.roster = r, !.version = 1]
      BY <2>2, <3>1
    <3>3. /\ h.version = 1 /\ h.roster = r
          /\ h.cur = g.cur /\ h.prev = g.prev /\ h.first = g.first
          /\ h.from = g.from /\ h.managed = g.managed /\ h.read = g.read
      BY <3>2 DEF GroupRecord
    <3>4. h \in GroupRecord
      BY <3>2 DEF GroupRecord
    <3> QED BY <3>1, <3>3, <3>4
  <2> QED BY <1>2, <2>1, <2>2, <2>3
<1>3. CASE g.version # 0
  BY <1>3 DEF Loaded
<1> QED BY <1>2, <1>3

LEMMA LoadedRoster ==
  ASSUME NEW g \in GroupRecord
  PROVE  Loaded(g).roster = IF g.version = 0 THEN Put(g.roster, InitAdmin, TRUE, "accepted")
                            ELSE g.roster
<1>1. CASE g.version = 0
  BY <1>1, LoadedIs
<1>2. CASE g.version # 0
  BY <1>2 DEF Loaded
<1> QED BY <1>1, <1>2

LEMMA FlightIs ==
  ASSUME TypeOK, NEW o \in flight
  PROVE  /\ o.dev \in Devices
         /\ o.task \in {"invite", "invited"} => o.to \in Users /\ o.key \in Nat
         /\ o.task = "send" => o.key \in Nat
         /\ o.task \in {"rekey", "rekeyed"} => o.out \in SUBSET Users
         /\ o.task = "rekeyed" => o.to \in SUBSET Devices
BY DEF TypeOK, Flight, Key

LEMMA MessageIs ==
  ASSUME TypeOK, NEW n \in 1 .. Len(messages)
  PROVE  /\ messages[n] \in MessageEntry
         /\ messages[n].kind \in {"message", "rekey"}
         /\ messages[n].kind = "message" => messages[n].key \in Nat
         /\ messages[n].kind = "rekey" =>
              /\ messages[n].sender \in Users
              /\ messages[n].to \in SUBSET Devices /\ messages[n].out \in SUBSET Users
<1>1. messages[n] \in MessageEntry
  BY ElementOfSeq DEF TypeOK
<1> QED BY <1>1 DEF MessageEntry, Key

LEMMA ManageIs ==
  ASSUME TypeOK, NEW n \in 1 .. Len(manage)
  PROVE  manage[n] \in ManageMsg
BY ElementOfSeq DEF TypeOK

(* Either mailbox gets one entry or stays as it is.                        *)
Kept(old, new) == Len(old) <= Len(new) /\ \A n \in 1 .. Len(old) : new[n] = old[n]

LEMMA KeptIs ==
  ASSUME NEW S, NEW c \in Seq(S)
  PROVE  /\ Len(c) \in Nat /\ Kept(c, c)
         /\ \A e : Kept(c, Append(c, e)) /\ Len(Append(c, e)) = Len(c) + 1
                     /\ Append(c, e)[Len(c) + 1] = e
<1>1. ASSUME NEW e
      PROVE  Kept(c, Append(c, e)) /\ Len(Append(c, e)) = Len(c) + 1
               /\ Append(c, e)[Len(c) + 1] = e
  <2>1. Len(Append(c, e)) = Len(c) + 1 /\ Append(c, e)[Len(c) + 1] = e
          /\ \A n \in 1 .. Len(c) : Append(c, e)[n] = c[n]
    BY AppendProperties
  <2> QED BY <2>1 DEF Kept
<1> QED BY <1>1 DEF Kept
-----------------------------------------------------------------------------
(* Each action's effect on the row of the device that it is of.            *)
LEMMA RecvManageIs ==
  ASSUME TypeOK, NEW d \in Devices, RecvManage(d)
  PROVE  /\ Joined(d) /\ group[d] \in GroupRecord
         /\ group[d].managed + 1 \in 1 .. Len(manage)
         /\ \E g \in GroupRecord :
              /\ group' = [group EXCEPT ![d] = g]
              /\ g.roster = Apply(Loaded(group[d]).roster, manage[group[d].managed + 1])
              /\ g.version # 0 /\ g.managed = group[d].managed + 1
              /\ g.cur = group[d].cur /\ g.prev = group[d].prev /\ g.first = group[d].first
              /\ g.from = group[d].from /\ g.read = group[d].read
<1>1. Joined(d) /\ group[d] \in GroupRecord
  BY JoinedIs DEF RecvManage
<1>2. group[d].managed \in Nat /\ Len(manage) \in Nat /\ group[d].managed < Len(manage)
  BY <1>1 DEF RecvManage, GroupRecord, TypeOK
<1>3. group[d].managed + 1 \in 1 .. Len(manage)
  BY <1>2
<1>4. PICK g \in GroupRecord : g = Loaded(group[d])
  BY <1>1, LoadedIs
<1>5. /\ g.managed = group[d].managed /\ g.version # 0 /\ g.version \in Nat
      /\ g.cur = group[d].cur /\ g.prev = group[d].prev /\ g.first = group[d].first
      /\ g.from = group[d].from /\ g.read = group[d].read
  BY <1>1, <1>4, LoadedIs DEF GroupRecord
<1>6. PICK r \in Rosters : r = Apply(g.roster, manage[g.managed + 1])
  BY <1>3, <1>5, ManageIs, ApplyType DEF GroupRecord
<1>7. PICK v \in Nat : v = (IF r = g.roster THEN g.version ELSE g.version + 1) /\ v # 0
  BY <1>5
<1>8. group' = [group EXCEPT ![d] = [g EXCEPT !.managed = @ + 1, !.roster = r, !.version = v]]
  BY <1>4, <1>6, <1>7 DEF RecvManage
<1>9. PICK h : h = [g EXCEPT !.managed = @ + 1, !.roster = r, !.version = v]
  OBVIOUS
<1>10. /\ h.managed = g.managed + 1 /\ h.roster = r /\ h.version = v
       /\ h.cur = g.cur /\ h.prev = g.prev /\ h.first = g.first
       /\ h.from = g.from /\ h.read = g.read
  BY <1>9 DEF GroupRecord
<1>11. h \in GroupRecord
  <2>1. PICK x \in Nat : x = g.managed + 1
    BY <1>5 DEF GroupRecord
  <2>2. h = [g EXCEPT !.managed = x, !.roster = r, !.version = v]
    BY <1>9, <2>1
  <2> QED BY <2>2 DEF GroupRecord
<1>12. group' = [group EXCEPT ![d] = h]
  BY <1>8, <1>9
<1> QED BY <1>1, <1>3, <1>4, <1>5, <1>6, <1>7, <1>10, <1>11, <1>12

LEMMA RecvRekeyIs ==
  ASSUME TypeOK, NEW d \in Devices, RecvRekey(d)
  PROVE  /\ Joined(d) /\ group[d] \in GroupRecord
         /\ group[d].read + 1 \in 1 .. Len(messages)
         /\ messages[group[d].read + 1].kind = "rekey"
         /\ \E g \in GroupRecord :
              /\ group' = [group EXCEPT ![d] = g]
              /\ g.read = group[d].read + 1 /\ g.first = group[d].first
              /\ g.from = group[d].from /\ g.managed = group[d].managed
              /\ \/ g.version = group[d].version /\ g.roster = group[d].roster
                 \/ g.version # 0 /\ g.roster = Loaded(group[d]).roster
              /\ \/ g.cur = group[d].cur /\ g.prev = group[d].prev /\ switched' = switched
                 \/ /\ d \in messages[g.read].to /\ g.cur = g.read /\ g.prev = group[d].cur
                    /\ switched' = switched \cup {<<d, g.read>>}
<1>1. Joined(d) /\ group[d] \in GroupRecord
  BY JoinedIs DEF RecvRekey
<1>2. PICK n \in Nat : n = group[d].read + 1
  <2>1. group[d].read \in Nat
    BY <1>1 DEF GroupRecord
  <2> QED BY <2>1
<1>3. n \in 1 .. Len(messages) /\ messages[n].kind = "rekey" /\ n = group[d].read + 1
  BY <1>2, <1>1 DEF RecvRekey, TypeOK, GroupRecord
<1>4. PICK h \in GroupRecord : h = Loaded(group[d])
  BY <1>1, LoadedIs
<1> DEFINE accepted == d \in messages[n].to
                         /\ messages[n].sender \in ActiveAdmins([h EXCEPT !.read = n].roster)
<1>5. group' = [group EXCEPT ![d] =
                  IF d \notin messages[n].to THEN [group[d] EXCEPT !.read = n]
                  ELSE IF accepted THEN Rekeyed([h EXCEPT !.read = n], n) ELSE [h EXCEPT !.read = n]]
        /\ switched' = IF accepted THEN switched \cup {<<d, n>>} ELSE switched
  BY <1>2, <1>4 DEF RecvRekey
<1>6. /\ h.cur = group[d].cur /\ h.prev = group[d].prev /\ h.first = group[d].first
      /\ h.from = group[d].from /\ h.managed = group[d].managed /\ h.version # 0
  BY <1>1, <1>4, LoadedIs
<1> HIDE DEF accepted
<1>7. CASE d \notin messages[n].to
  <2>1. ~accepted
    BY <1>7 DEF accepted
  <2>2. PICK g : g = [group[d] EXCEPT !.read = n]
    OBVIOUS
  <2>3. g \in GroupRecord /\ g.read = n /\ g.first = group[d].first /\ g.from = group[d].from
          /\ g.managed = group[d].managed /\ g.version = group[d].version
          /\ g.roster = group[d].roster /\ g.cur = group[d].cur /\ g.prev = group[d].prev
    BY <2>2, <1>1 DEF GroupRecord
  <2>4. group' = [group EXCEPT ![d] = g] /\ switched' = switched
    BY <1>5, <1>7, <2>1, <2>2
  <2> QED BY <1>1, <1>3, <2>3, <2>4
<1>8. CASE d \in messages[n].to /\ accepted
  <2>1. PICK g : g = Rekeyed([h EXCEPT !.read = n], n)
    OBVIOUS
  <2>2. g \in GroupRecord /\ g.read = n /\ g.first = h.first /\ g.from = h.from
          /\ g.managed = h.managed /\ g.version = h.version
          /\ g.roster = h.roster /\ g.cur = n /\ g.prev = h.cur
    BY <2>1 DEF GroupRecord, Rekeyed, Key
  <2>3. group' = [group EXCEPT ![d] = g] /\ switched' = switched \cup {<<d, n>>}
    BY <1>5, <1>8, <2>1
  <2> QED BY <1>1, <1>3, <1>4, <1>6, <1>8, <2>2, <2>3
<1>9. CASE d \in messages[n].to /\ ~accepted
  <2>1. PICK g : g = [h EXCEPT !.read = n]
    OBVIOUS
  <2>2. g \in GroupRecord /\ g.read = n /\ g.first = h.first /\ g.from = h.from
          /\ g.managed = h.managed /\ g.version = h.version
          /\ g.roster = h.roster /\ g.cur = h.cur /\ g.prev = h.prev
    BY <2>1 DEF GroupRecord
  <2>3. group' = [group EXCEPT ![d] = g] /\ switched' = switched
    BY <1>5, <1>9, <2>1
  <2> QED BY <1>1, <1>3, <1>4, <1>6, <2>2, <2>3
<1> QED BY <1>7, <1>8, <1>9
-----------------------------------------------------------------------------
(* Cursors stay within the mailboxes; failures are behind the cursor.      *)
CursorsBounded ==
  \A d \in Devices :
    /\ Joined(d) =>
         /\ group[d].managed <= Len(manage)
         /\ group[d].from <= group[d].read /\ group[d].read <= Len(messages)
    /\ \A n \in Nat : <<d, "manage", n>> \in skipped => Joined(d) /\ n <= group[d].managed

(* The tasks that write a roster, or read one, are of devices in the group.*)
FlightJoined ==
  \A o \in flight : o.task \in {"load", "loaded", "rekey", "rekeyed"} => Joined(o.dev)

(* Before the first load ends, the initial admin's row is all there can be *)
(* in a roster; with a load about to end, it is there.                     *)
VersionZero ==
  /\ \A d \in Devices :
       Joined(d) /\ group[d].version = 0 => group[d].roster \in {NoMembers, FirstRoster}
  /\ \A o \in flight :
       o.task = "loaded" /\ o.dev \notin late =>
         group[o.dev].version # 0 \/ group[o.dev].roster = FirstRoster

(* Where a device loads its roster in time, it has the replay's.           *)
ReplayHolds ==
  \A d \in Devices \ late :
    Joined(d) => Loaded(group[d]).roster
                   = Replay(manage, group[d].managed, SkippedBy(d, "manage"))

(* A key that is handed on is that of a rekey posted before.               *)
KeysBounded ==
  /\ \A i \in invites : i.key <= i.at /\ i.at <= Len(messages)
  /\ \A o \in flight : o.task \in {"invite", "invited", "send"} => o.key <= Len(messages)
  /\ \A n \in 1 .. Len(messages) : messages[n].kind = "message" => messages[n].key < n

(* The keys a device took, in the order of their rekeys: of them it holds  *)
(* the last and the one before.                                            *)
Took(d, k) == k = group[d].first \/ <<d, k>> \in switched
KeyChain ==
  \A d \in Devices :
    /\ \A k \in Nat : <<d, k>> \in switched =>
         /\ Joined(d) /\ group[d].from < k /\ k <= group[d].read
         /\ messages[k].kind = "rekey" /\ d \in messages[k].to
    /\ Joined(d) =>
         /\ group[d].first <= group[d].from
         /\ Took(d, group[d].cur) /\ Took(d, group[d].prev) /\ group[d].prev <= group[d].cur
         /\ \A k \in Nat : Took(d, k) =>
              \/ k \in {group[d].cur, group[d].prev}
              \/ k < group[d].prev /\ group[d].prev < group[d].cur

(* Who has joined has created the group or was invited with the first key. *)
FirstInvited ==
  \A d \in Devices : Joined(d) =>
    group[d].first = 0 \/ \E i \in invites : i.to = UserOf[d] /\ i.key = group[d].first

(* What a rekey knows of those banned when it began: they are banned still *)
(* when it collects its recipients, and are not among them.                *)
Unbanned(u) == \E m \in 1 .. Len(manage) : manage[m].kind = "unban" /\ manage[m].about = u
LeftOut(u, to) == \A d \in to : UserOf[d] # u
RekeysExclude ==
  /\ \A o \in flight : o.task \in {"rekey", "rekeyed"} =>
       \A u \in o.out :
         \/ Unbanned(u)
         \/ u = InitAdmin /\ o.dev \in late
         \/ IF o.task = "rekey" THEN u \in Banned(group[o.dev].roster) ELSE LeftOut(u, o.to)
  /\ \A n \in 1 .. Len(messages) : messages[n].kind = "rekey" =>
       \A u \in messages[n].out :
         \/ Unbanned(u)
         \/ u = InitAdmin /\ \E e \in late : UserOf[e] = messages[n].sender
         \/ LeftOut(u, messages[n].to)
-----------------------------------------------------------------------------
(* The other actions that change a row.                                    *)
LEMMA SkipManageIs ==
  ASSUME TypeOK, NEW d \in Devices, SkipManage(d)
  PROVE  /\ Joined(d) /\ group[d] \in GroupRecord
         /\ group[d].managed + 1 \in 1 .. Len(manage)
         /\ skipped' = skipped \cup {<<d, "manage", group[d].managed + 1>>}
         /\ \E g \in GroupRecord :
              /\ group' = [group EXCEPT ![d] = g]
              /\ g.managed = group[d].managed + 1 /\ g.read = group[d].read
              /\ g.version = group[d].version /\ g.roster = group[d].roster
              /\ g.cur = group[d].cur /\ g.prev = group[d].prev
              /\ g.first = group[d].first /\ g.from = group[d].from
<1>1. Joined(d) /\ group[d] \in GroupRecord
  BY JoinedIs DEF SkipManage
<1>2. group[d].managed \in Nat /\ Len(manage) \in Nat /\ group[d].managed < Len(manage)
  BY <1>1 DEF SkipManage, GroupRecord, TypeOK
<1>3. PICK n \in Nat : n = group[d].managed + 1
  BY <1>2
<1>4. PICK g : g = [group[d] EXCEPT !.managed = n]
  OBVIOUS
<1>5. /\ g \in GroupRecord /\ g.managed = n /\ g.read = group[d].read
      /\ g.version = group[d].version /\ g.roster = group[d].roster
      /\ g.cur = group[d].cur /\ g.prev = group[d].prev
      /\ g.first = group[d].first /\ g.from = group[d].from
  BY <1>1, <1>4 DEF GroupRecord
<1>6. group' = [group EXCEPT ![d] = g]
  BY <1>3, <1>4 DEF SkipManage
<1>7. n \in 1 .. Len(manage) /\ skipped' = skipped \cup {<<d, "manage", n>>}
  BY <1>2, <1>3 DEF SkipManage
<1> QED BY <1>1, <1>3, <1>5, <1>6, <1>7

LEMMA RecvMessageIs ==
  ASSUME TypeOK, NEW d \in Devices, RecvMessage(d) \/ SkipMessage(d)
  PROVE  /\ Joined(d) /\ group[d] \in GroupRecord
         /\ group[d].read + 1 \in 1 .. Len(messages)
         /\ \E g \in GroupRecord :
              /\ group' = [group EXCEPT ![d] = g]
              /\ g.managed = group[d].managed /\ g.read = group[d].read + 1
              /\ g.version = group[d].version /\ g.roster = group[d].roster
              /\ g.cur = group[d].cur /\ g.prev = group[d].prev
              /\ g.first = group[d].first /\ g.from = group[d].from
<1>1. Joined(d) /\ group[d] \in GroupRecord
  BY JoinedIs DEF RecvMessage, SkipMessage
<1>2. group[d].read \in Nat /\ Len(messages) \in Nat /\ group[d].read + 1 <= Len(messages)
  BY <1>1 DEF RecvMessage, SkipMessage, GroupRecord, TypeOK
<1>3. PICK n \in Nat : n = group[d].read + 1
  BY <1>2
<1>4. PICK g : g = [group[d] EXCEPT !.read = n]
  OBVIOUS
<1>5. /\ g \in GroupRecord /\ g.managed = group[d].managed /\ g.read = n
      /\ g.version = group[d].version /\ g.roster = group[d].roster
      /\ g.cur = group[d].cur /\ g.prev = group[d].prev
      /\ g.first = group[d].first /\ g.from = group[d].from
  BY <1>1, <1>4 DEF GroupRecord
<1>6. group' = [group EXCEPT ![d] = g]
  BY <1>3, <1>4 DEF RecvMessage, SkipMessage
<1>7. n \in 1 .. Len(messages)
  BY <1>2, <1>3
<1> QED BY <1>1, <1>3, <1>5, <1>6, <1>7

(* A load puts the initial admin in, or ends; it leaves the rest alone.    *)
LEMMA LoadIs ==
  ASSUME TypeOK, FlightJoined, NEW o \in flight, LoadPut(o) \/ LoadVersion(o)
  PROVE  /\ o.dev \in Devices /\ Joined(o.dev) /\ group[o.dev] \in GroupRecord
         /\ \E g \in GroupRecord :
              /\ group' = [group EXCEPT ![o.dev] = g]
              /\ g.managed = group[o.dev].managed /\ g.read = group[o.dev].read
              /\ g.cur = group[o.dev].cur /\ g.prev = group[o.dev].prev
              /\ g.first = group[o.dev].first /\ g.from = group[o.dev].from
              /\ \/ /\ LoadPut(o) /\ g.version = group[o.dev].version
                    /\ g.roster = Put(group[o.dev].roster, InitAdmin, TRUE, "accepted")
                 \/ LoadVersion(o) /\ g.version = 1 /\ g.roster = group[o.dev].roster
<1>1. PICK d \in Devices : d = o.dev
  BY FlightIs
<1>2. Joined(d) /\ group[d] \in GroupRecord
  BY <1>1, JoinedIs DEF FlightJoined, LoadPut, LoadVersion
<1>3. CASE LoadPut(o)
  <2>1. PICK r \in Rosters : r = Put(group[d].roster, InitAdmin, TRUE, "accepted")
    BY <1>2, InitAdminIsUser DEF GroupRecord, Put, Rosters, Member, Statuses
  <2>2. PICK g : g = [group[d] EXCEPT !.roster = r]
    OBVIOUS
  <2>3. /\ g \in GroupRecord /\ g.managed = group[d].managed /\ g.read = group[d].read
        /\ g.version = group[d].version /\ g.roster = r
        /\ g.cur = group[d].cur /\ g.prev = group[d].prev
        /\ g.first = group[d].first /\ g.from = group[d].from
    BY <1>2, <2>2 DEF GroupRecord
  <2>4. group' = [group EXCEPT ![d] = g]
    BY <1>1, <1>3, <2>1, <2>2 DEF LoadPut
  <2> QED BY <1>1, <1>2, <1>3, <2>1, <2>3, <2>4
<1>4. CASE LoadVersion(o)
  <2>1. PICK g : g = [group[d] EXCEPT !.version = 1]
    OBVIOUS
  <2>2. /\ g \in GroupRecord /\ g.managed = group[d].managed /\ g.read = group[d].read
        /\ g.version = 1 /\ g.roster = group[d].roster
        /\ g.cur = group[d].cur /\ g.prev = group[d].prev
        /\ g.first = group[d].first /\ g.from = group[d].from
    BY <1>2, <2>1 DEF GroupRecord
  <2>3. group' = [group EXCEPT ![d] = g]
    BY <1>1, <1>4, <2>1 DEF LoadVersion
  <2> QED BY <1>1, <1>2, <1>4, <2>2, <2>3
<1> QED BY <1>3, <1>4
-----------------------------------------------------------------------------
(* A device that accepts and has no row gets one.                          *)
Joins(d, i) ==
  /\ i \in invites /\ i.to = UserOf[d] /\ ~Joined(d)
  /\ group' = [group EXCEPT ![d] = NewGroup(i.key, i.at)]
  /\ UNCHANGED <<manage, messages, invites, shown, skipped, switched, late>>

Turn(d) == RecvManage(d) \/ SkipManage(d) \/ RecvRekey(d) \/ RecvMessage(d) \/ SkipMessage(d)

LEMMA StepKinds ==
  ASSUME [Next]_vars
  PROVE  \/ UNCHANGED <<group, shown, skipped, switched, late>>
         \/ \E d \in Devices : Turn(d)
         \/ \E o \in flight : LoadPut(o) \/ LoadVersion(o)
         \/ \E d \in Devices, i \in invites : Joins(d, i)
<1>1. CASE UNCHANGED vars
  BY <1>1 DEF vars
<1>2. ASSUME NEW d \in Devices, DeviceNext(d)
      PROVE  \/ UNCHANGED <<group, shown, skipped, switched, late>>
             \/ Turn(d)
             \/ \E i \in invites : Joins(d, i)
  <2>1. CASE \E u \in Users : InviteLoad(d, u)
    BY <2>1 DEF InviteLoad
  <2>2. CASE \E i \in invites : AcceptStore(d, i)
    BY <2>2 DEF AcceptStore, Joins
  <2>3. CASE SendLoad(d) \/ LoadRead(d) \/ RekeyCheck(d)
    BY <2>3 DEF SendLoad, LoadRead, RekeyCheck
  <2> QED BY <1>2, <2>1, <2>2, <2>3 DEF DeviceNext, Turn
<1>3. ASSUME NEW o \in flight, FlightNext(o)
      PROVE  \/ UNCHANGED <<group, shown, skipped, switched, late>>
             \/ LoadPut(o) \/ LoadVersion(o)
  BY <1>3 DEF FlightNext, InvitePost, InviteDeliver, AcceptPost, SendPost, RekeyCollect,
              RekeyPost, Abandon
<1>4. ASSUME NEW m \in Posts[workload], Post(m)
      PROVE  UNCHANGED <<group, shown, skipped, switched, late>>
  BY <1>4 DEF Post
<1> QED BY <1>1, <1>2, <1>3, <1>4 DEF Next

(* What a step adds to the mailboxes and to the invites.                   *)
LEMMA StepPosts ==
  ASSUME TypeOK, [Next]_vars
  PROVE  /\ workload' = workload
         /\ manage' = manage \/ \E e \in ManageMsg : manage' = Append(manage, e)
         /\ \/ messages' = messages
            \/ \E o \in flight : SendPost(o) \/ RekeyPost(o)
         /\ invites' = invites \/ \E o \in flight : InviteDeliver(o)
<1>1. CASE UNCHANGED vars
  BY <1>1 DEF vars
<1>2. CASE \E d \in Devices : DeviceNext(d)
  <2>1. PICK d \in Devices : DeviceNext(d)
    BY <1>2
  <2>2. CASE \E u \in Users : InviteLoad(d, u)
    BY <2>2 DEF InviteLoad
  <2>3. CASE \E i \in invites : AcceptStore(d, i)
    BY <2>3 DEF AcceptStore
  <2>4. CASE RecvManage(d) \/ SkipManage(d) \/ RecvRekey(d) \/ RecvMessage(d) \/ SkipMessage(d)
    BY <2>4 DEF RecvManage, SkipManage, RecvRekey, RecvMessage, SkipMessage
  <2>5. CASE SendLoad(d) \/ LoadRead(d) \/ RekeyCheck(d)
    BY <2>5 DEF SendLoad, LoadRead, RekeyCheck
  <2> QED BY <2>1, <2>2, <2>3, <2>4, <2>5 DEF DeviceNext
<1>3. CASE \E o \in flight : FlightNext(o)
  <2>1. PICK o \in flight : FlightNext(o)
    BY <1>3
  <2>2. o.dev \in Devices /\ UserOf[o.dev] \in Users
    BY <2>1, FlightIs, UserOfType
  <2>3. CASE InvitePost(o)
    <3>1. [sender |-> UserOf[o.dev], kind |-> "invite_sent", about |-> o.to] \in ManageMsg
      BY <2>1, <2>2, <2>3, FlightIs DEF InvitePost, ManageMsg, Kinds
    <3> QED BY <2>3, <3>1 DEF InvitePost, PostManage
  <2>4. CASE AcceptPost(o)
    <3>1. [sender |-> UserOf[o.dev], kind |-> "invite_accepted", about |-> UserOf[o.dev]] \in ManageMsg
      BY <2>2 DEF ManageMsg, Kinds
    <3> QED BY <2>4, <3>1 DEF AcceptPost, PostManage
  <2>5. CASE InviteDeliver(o) \/ SendPost(o) \/ RekeyPost(o)
    BY <2>1, <2>5 DEF InviteDeliver, SendPost, RekeyPost
  <2>6. CASE LoadPut(o) \/ LoadVersion(o) \/ RekeyCollect(o) \/ Abandon(o)
    BY <2>6 DEF LoadPut, LoadVersion, RekeyCollect, Abandon
  <2> QED BY <2>1, <2>3, <2>4, <2>5, <2>6 DEF FlightNext
<1>4. CASE \E m \in Posts[workload] : Post(m)
  <2>1. PICK m \in Posts[workload] : Post(m)
    BY <1>4
  <2>2. m \in ManageMsg
    BY WorkloadsType DEF TypeOK
  <2>3. [sender |-> m.sender, kind |-> m.kind, about |-> m.about] \in ManageMsg
    BY <2>2 DEF ManageMsg
  <2> QED BY <2>1, <2>3 DEF Post, PostManage
<1> QED BY <1>1, <1>2, <1>3, <1>4 DEF Next

(* The tasks a step begins or takes on.                                    *)
LEMMA StepFlight ==
  ASSUME TypeOK, [Next]_vars, NEW o \in flight', o \notin flight
  PROVE  \/ \E d \in Devices, u \in Users :
              InviteLoad(d, u) /\ o = [task |-> "invite", dev |-> d, to |-> u, key |-> group[d].cur]
         \/ \E p \in flight : InvitePost(p) /\ o = [p EXCEPT !.task = "invited"]
         \/ \E d \in Devices : o = [task |-> "accept", dev |-> d]
         \/ \E d \in Devices : SendLoad(d) /\ o = [task |-> "send", dev |-> d, key |-> group[d].cur]
         \/ \E d \in Devices : LoadRead(d) /\ o = [task |-> "load", dev |-> d]
         \/ \E p \in flight : LoadPut(p) /\ o = [p EXCEPT !.task = "loaded"]
         \/ \E d \in Devices : RekeyCheck(d)
              /\ o = [task |-> "rekey", dev |-> d, out |-> Banned(group[d].roster)]
         \/ \E p \in flight : RekeyCollect(p)
              /\ o = [task |-> "rekeyed", dev |-> p.dev, out |-> p.out,
                      to |-> Recipients(group[p.dev].roster)]
<1>1. CASE UNCHANGED vars
  BY <1>1 DEF vars
<1>2. ASSUME NEW d \in Devices, NEW u \in Users, InviteLoad(d, u)
      PROVE  o = [task |-> "invite", dev |-> d, to |-> u, key |-> group[d].cur]
  BY <1>2 DEF InviteLoad
<1>3. ASSUME NEW d \in Devices, NEW i \in invites, AcceptStore(d, i)
      PROVE  o = [task |-> "accept", dev |-> d]
  BY <1>3 DEF AcceptStore
<1>4. ASSUME NEW d \in Devices, Turn(d)
      PROVE  FALSE
  BY <1>4 DEF Turn, RecvManage, SkipManage, RecvRekey, RecvMessage, SkipMessage
<1>5. ASSUME NEW d \in Devices, SendLoad(d)
      PROVE  o = [task |-> "send", dev |-> d, key |-> group[d].cur]
  BY <1>5 DEF SendLoad
<1>6. ASSUME NEW d \in Devices, LoadRead(d)
      PROVE  o = [task |-> "load", dev |-> d]
  BY <1>6 DEF LoadRead
<1>7. ASSUME NEW d \in Devices, RekeyCheck(d)
      PROVE  o = [task |-> "rekey", dev |-> d, out |-> Banned(group[d].roster)]
  BY <1>7 DEF RekeyCheck
<1>8. ASSUME NEW p \in flight, InvitePost(p)
      PROVE  o = [p EXCEPT !.task = "invited"]
  BY <1>8 DEF InvitePost
<1>9. ASSUME NEW p \in flight, LoadPut(p)
      PROVE  o = [p EXCEPT !.task = "loaded"]
  BY <1>9 DEF LoadPut
<1>10. ASSUME NEW p \in flight, RekeyCollect(p)
       PROVE  o = [task |-> "rekeyed", dev |-> p.dev, out |-> p.out,
                   to |-> Recipients(group[p.dev].roster)]
  BY <1>10 DEF RekeyCollect
<1>11. ASSUME NEW p \in flight,
              \/ InviteDeliver(p) \/ AcceptPost(p) \/ SendPost(p) \/ LoadVersion(p)
              \/ RekeyPost(p) \/ Abandon(p)
       PROVE  FALSE
  BY <1>11 DEF InviteDeliver, AcceptPost, SendPost, LoadVersion, RekeyPost, Abandon
<1>12. ASSUME NEW m \in Posts[workload], Post(m)
       PROVE  FALSE
  BY <1>12 DEF Post
<1>13. CASE \E d \in Devices : DeviceNext(d)
  BY <1>13, <1>2, <1>3, <1>4, <1>5, <1>6, <1>7 DEF DeviceNext, Turn
<1>14. CASE \E p \in flight : FlightNext(p)
  BY <1>14, <1>8, <1>9, <1>10, <1>11 DEF FlightNext
<1> QED BY <1>1, <1>12, <1>13, <1>14 DEF Next
-----------------------------------------------------------------------------
(* The variables keep their types.                                         *)
LEMMA MailboxStep ==
  ASSUME TypeOK, [Next]_vars
  PROVE  /\ manage' \in Seq(ManageMsg) /\ messages' \in Seq(MessageEntry)
         /\ Kept(manage, manage') /\ Kept(messages, messages')
<1>1. manage' \in Seq(ManageMsg) /\ Kept(manage, manage')
  <2>1. CASE manage' = manage
    BY <2>1, KeptIs DEF TypeOK
  <2>2. ASSUME NEW e \in ManageMsg, manage' = Append(manage, e)
        PROVE  manage' \in Seq(ManageMsg) /\ Kept(manage, manage')
    BY <2>2, KeptIs, AppendProperties DEF TypeOK
  <2> QED BY <2>1, <2>2, StepPosts
<1>2. messages' \in Seq(MessageEntry) /\ Kept(messages, messages')
  <2>1. CASE messages' = messages
    BY <2>1, KeptIs DEF TypeOK
  <2>2. ASSUME NEW e \in MessageEntry, messages' = Append(messages, e)
        PROVE  messages' \in Seq(MessageEntry) /\ Kept(messages, messages')
    BY <2>2, KeptIs, AppendProperties DEF TypeOK
  <2>3. ASSUME NEW o \in flight, SendPost(o)
        PROVE  \E e \in MessageEntry : messages' = Append(messages, e)
    <3>1. [kind |-> "message", key |-> o.key] \in MessageEntry
      BY <2>3, FlightIs DEF SendPost, MessageEntry, Key
    <3> QED BY <2>3, <3>1 DEF SendPost, PostMessage
  <2>4. ASSUME NEW o \in flight, RekeyPost(o)
        PROVE  \E e \in MessageEntry : messages' = Append(messages, e)
    <3>1. UserOf[o.dev] \in Users /\ o.to \in SUBSET Devices /\ o.out \in SUBSET Users
      BY <2>4, FlightIs, UserOfType DEF RekeyPost
    <3>2. [kind |-> "rekey", sender |-> UserOf[o.dev], to |-> o.to, out |-> o.out] \in MessageEntry
      BY <3>1 DEF MessageEntry
    <3> QED BY <2>4, <3>2 DEF RekeyPost, PostMessage
  <2> QED BY <2>1, <2>2, <2>3, <2>4, StepPosts
<1> QED BY <1>1, <1>2

LEMMA FlightTypeStep ==
  ASSUME TypeOK, [Next]_vars
  PROVE  flight' \in SUBSET Flight
<1> SUFFICES ASSUME NEW o \in flight', o \notin flight
             PROVE  o \in Flight
  BY DEF TypeOK
<1>1. ASSUME NEW d \in Devices, NEW u \in Users,
             InviteLoad(d, u) /\ o = [task |-> "invite", dev |-> d, to |-> u, key |-> group[d].cur]
      PROVE  o \in Flight
  <2>1. group[d].cur \in Key
    BY <1>1, JoinedIs DEF InviteLoad, GroupRecord
  <2> QED BY <1>1, <2>1 DEF Flight
<1>2. ASSUME NEW p \in flight, InvitePost(p) /\ o = [p EXCEPT !.task = "invited"]
      PROVE  o \in Flight
  <2>1. p \in [task : {"invite", "invited"}, dev : Devices, to : Users, key : Key]
    BY <1>2 DEF InvitePost, TypeOK, Flight
  <2> QED BY <1>2, <2>1 DEF Flight
<1>3. ASSUME NEW d \in Devices, o = [task |-> "accept", dev |-> d]
      PROVE  o \in Flight
  BY <1>3 DEF Flight
<1>4. ASSUME NEW d \in Devices, SendLoad(d) /\ o = [task |-> "send", dev |-> d, key |-> group[d].cur]
      PROVE  o \in Flight
  <2>1. group[d].cur \in Key
    BY <1>4, JoinedIs DEF SendLoad, GroupRecord
  <2> QED BY <1>4, <2>1 DEF Flight
<1>5. ASSUME NEW d \in Devices, o = [task |-> "load", dev |-> d]
      PROVE  o \in Flight
  BY <1>5 DEF Flight
<1>6. ASSUME NEW p \in flight, LoadPut(p) /\ o = [p EXCEPT !.task = "loaded"]
      PROVE  o \in Flight
  <2>1. p \in [task : {"accept", "load", "loaded"}, dev : Devices]
    BY <1>6 DEF LoadPut, TypeOK, Flight
  <2> QED BY <1>6, <2>1 DEF Flight
<1>7. ASSUME NEW d \in Devices, o = [task |-> "rekey", dev |-> d, out |-> Banned(group[d].roster)]
      PROVE  o \in Flight
  <2>1. Banned(group[d].roster) \in SUBSET Users
    BY DEF Banned
  <2> QED BY <1>7, <2>1 DEF Flight
<1>8. ASSUME NEW p \in flight, RekeyCollect(p),
             o = [task |-> "rekeyed", dev |-> p.dev, out |-> p.out,
                  to |-> Recipients(group[p.dev].roster)]
      PROVE  o \in Flight
  <2>1. p.dev \in Devices /\ p.out \in SUBSET Users
    BY <1>8, FlightIs DEF RekeyCollect
  <2>2. Recipients(group[p.dev].roster) \in SUBSET Devices
    BY DEF Recipients
  <2> QED BY <1>8, <2>1, <2>2 DEF Flight
<1> QED BY <1>1, <1>2, <1>3, <1>4, <1>5, <1>6, <1>7, <1>8, StepFlight

LEMMA JoinsIs ==
  ASSUME TypeOK, NEW d \in Devices, NEW i \in invites, Joins(d, i)
  PROVE  /\ i.key \in Nat /\ i.at \in Nat /\ NewGroup(i.key, i.at) \in GroupRecord
         /\ group' = [group EXCEPT ![d] = NewGroup(i.key, i.at)]
<1>1. i.key \in Nat /\ i.at \in Nat
  BY DEF TypeOK, Invite, Key
<1> QED BY <1>1, NewGroupIs DEF Joins

LEMMA TypeStep ==
  ASSUME TypeOK, FlightJoined, [Next]_vars
  PROVE  TypeOK'
<1>1. workload' \in Workloads
  BY StepPosts DEF TypeOK
<1>2. group' \in [Devices -> {NoGroup} \cup GroupRecord]
  <2>1. ASSUME NEW d \in Devices, NEW g \in GroupRecord, group' = [group EXCEPT ![d] = g]
        PROVE  group' \in [Devices -> {NoGroup} \cup GroupRecord]
    <3>1. PICK R : R = {NoGroup} \cup GroupRecord
      OBVIOUS
    <3>2. group \in [Devices -> R] /\ g \in R
      BY <3>1 DEF TypeOK
    <3>3. group' \in [Devices -> R]
      BY <2>1, <3>2
    <3> QED BY <3>1, <3>3
  <2>2. CASE \E d \in Devices : Turn(d)
    BY <2>1, <2>2, RecvManageIs, SkipManageIs, RecvRekeyIs, RecvMessageIs DEF Turn
  <2>3. CASE \E o \in flight : LoadPut(o) \/ LoadVersion(o)
    BY <2>1, <2>3, LoadIs
  <2>4. CASE \E d \in Devices, i \in invites : Joins(d, i)
    BY <2>1, <2>4, JoinsIs
  <2>5. CASE group' = group
    BY <2>5 DEF TypeOK
  <2> QED BY <2>2, <2>3, <2>4, <2>5, StepKinds
<1>3. invites' \in SUBSET Invite
  <2>1. ASSUME NEW o \in flight, InviteDeliver(o)
        PROVE  invites' \in SUBSET Invite
    <3>1. [to |-> o.to, key |-> o.key, at |-> Len(messages)] \in Invite
      BY <2>1, FlightIs DEF InviteDeliver, TypeOK, Invite, Key
    <3> QED BY <2>1, <3>1 DEF InviteDeliver, TypeOK
  <2> QED BY <2>1, StepPosts DEF TypeOK
<1>4. /\ shown' \in SUBSET (Devices \X Nat) /\ switched' \in SUBSET (Devices \X Nat)
      /\ skipped' \in SUBSET (Devices \X {"manage", "messages"} \X Nat)
      /\ late' \in SUBSET Devices
  <2>1. ASSUME NEW d \in Devices, Turn(d)
        PROVE  /\ shown' \in SUBSET (Devices \X Nat) /\ switched' \in SUBSET (Devices \X Nat)
               /\ skipped' \in SUBSET (Devices \X {"manage", "messages"} \X Nat)
               /\ late' \in SUBSET Devices
    <3>1. Joined(d) => group[d].read + 1 \in Nat /\ group[d].managed + 1 \in Nat
      <4>1. \A g \in GroupRecord : g.read \in Nat /\ g.managed \in Nat
        BY DEF GroupRecord
      <4>2. Joined(d) => group[d].read \in Nat /\ group[d].managed \in Nat
        BY <4>1, JoinedIs
      <4> QED BY <4>2
    <3>2. CASE RecvManage(d)
      BY <3>2 DEF RecvManage, TypeOK
    <3>3. CASE SkipManage(d)
      BY <3>1, <3>3 DEF SkipManage, TypeOK
    <3>4. CASE RecvRekey(d)
      BY <3>1, <3>4 DEF RecvRekey, TypeOK
    <3>5. CASE RecvMessage(d)
      BY <3>1, <3>5 DEF RecvMessage, TypeOK
    <3>6. CASE SkipMessage(d)
      BY <3>1, <3>6 DEF SkipMessage, TypeOK
    <3> QED BY <2>1, <3>2, <3>3, <3>4, <3>5, <3>6 DEF Turn
  <2>2. ASSUME NEW o \in flight, LoadPut(o) \/ LoadVersion(o)
        PROVE  /\ UNCHANGED <<shown, skipped, switched>>
               /\ late' \in SUBSET Devices
    BY <2>2, FlightIs DEF LoadPut, LoadVersion, TypeOK
  <2>3. ASSUME NEW d \in Devices, NEW i \in invites, Joins(d, i)
        PROVE  UNCHANGED <<shown, skipped, switched, late>>
    BY <2>3 DEF Joins
  <2> QED BY <2>1, <2>2, <2>3, StepKinds DEF TypeOK
<1> QED BY <1>1, <1>2, <1>3, <1>4, MailboxStep, FlightTypeStep DEF TypeOK
-----------------------------------------------------------------------------
(* What a step does to one device's row and to what is remembered of it.   *)
Same(d) ==
  /\ group'[d] = group[d] /\ (d \in late' <=> d \in late)
  /\ \A n : <<d, n>> \in switched' <=> <<d, n>> \in switched
  /\ \A n : <<d, n>> \in shown' <=> <<d, n>> \in shown
  /\ \A x, n : <<d, x, n>> \in skipped' <=> <<d, x, n>> \in skipped

LEMMA RowStep ==
  ASSUME TypeOK, FlightJoined, [Next]_vars, NEW d \in Devices
  PROVE  \/ Same(d)
         \/ Turn(d)
         \/ \E o \in flight : o.dev = d /\ (LoadPut(o) \/ LoadVersion(o))
         \/ \E i \in invites : Joins(d, i)
<1>1. CASE UNCHANGED <<group, shown, skipped, switched, late>>
  BY <1>1 DEF Same
<1>2. ASSUME NEW e \in Devices, Turn(e), e # d
      PROVE  Same(d)
  <2>1. \E g : group' = [group EXCEPT ![e] = g]
    BY <1>2, RecvManageIs, SkipManageIs, RecvRekeyIs, RecvMessageIs DEF Turn
  <2>2. group'[d] = group[d]
    BY <1>2, <2>1 DEF TypeOK
  <2>3. CASE RecvManage(e)
    BY <2>2, <2>3 DEF RecvManage, Same
  <2>4. CASE SkipManage(e)
    BY <1>2, <2>2, <2>4 DEF SkipManage, Same
  <2>5. CASE RecvRekey(e)
    BY <1>2, <2>2, <2>5 DEF RecvRekey, Same
  <2>6. CASE RecvMessage(e)
    BY <1>2, <2>2, <2>6 DEF RecvMessage, Same
  <2>7. CASE SkipMessage(e)
    BY <1>2, <2>2, <2>7 DEF SkipMessage, Same
  <2> QED BY <1>2, <2>3, <2>4, <2>5, <2>6, <2>7 DEF Turn
<1>3. ASSUME NEW o \in flight, LoadPut(o) \/ LoadVersion(o), o.dev # d
      PROVE  Same(d)
  <2>1. \E g : group' = [group EXCEPT ![o.dev] = g]
    BY <1>3, LoadIs
  <2>2. group'[d] = group[d]
    BY <1>3, <2>1 DEF TypeOK
  <2> QED BY <1>3, <2>2 DEF LoadPut, LoadVersion, Same
<1>4. ASSUME NEW e \in Devices, NEW i \in invites, Joins(e, i), e # d
      PROVE  Same(d)
  <2>1. group'[d] = group[d]
    BY <1>4 DEF TypeOK, Joins
  <2> QED BY <1>4, <2>1 DEF Joins, Same
<1> QED BY <1>1, <1>2, <1>3, <1>4, StepKinds

(* Who is in the group stays, and its cursors only advance.                *)
LEMMA RowKept ==
  ASSUME TypeOK, FlightJoined, [Next]_vars, NEW d \in Devices, Joined(d)
  PROVE  /\ group'[d].joined /\ group[d] \in GroupRecord /\ group'[d] \in GroupRecord
         /\ group'[d].first = group[d].first /\ group'[d].from = group[d].from
         /\ group[d].managed <= group'[d].managed /\ group[d].read <= group'[d].read
<1>1. group[d] \in GroupRecord
  BY JoinedIs
<1>2. \A g \in GroupRecord : g.joined /\ g.managed \in Nat /\ g.read \in Nat
  BY DEF GroupRecord
<1>3. ASSUME NEW g \in GroupRecord, group' = [group EXCEPT ![d] = g]
      PROVE  group'[d] = g
  BY <1>3 DEF TypeOK
<1>4. CASE Same(d)
  BY <1>1, <1>2, <1>4 DEF Same
<1>5. CASE RecvManage(d)
  <2>1. PICK g \in GroupRecord :
          /\ group' = [group EXCEPT ![d] = g] /\ g.managed = group[d].managed + 1
          /\ g.first = group[d].first /\ g.from = group[d].from /\ g.read = group[d].read
    BY <1>5, RecvManageIs
  <2> QED BY <1>1, <1>2, <1>3, <2>1
<1>6. CASE SkipManage(d)
  <2>1. PICK g \in GroupRecord :
          /\ group' = [group EXCEPT ![d] = g] /\ g.managed = group[d].managed + 1
          /\ g.first = group[d].first /\ g.from = group[d].from /\ g.read = group[d].read
    BY <1>6, SkipManageIs
  <2> QED BY <1>1, <1>2, <1>3, <2>1
<1>7. CASE RecvRekey(d)
  <2>1. PICK g \in GroupRecord :
          /\ group' = [group EXCEPT ![d] = g] /\ g.read = group[d].read + 1
          /\ g.first = group[d].first /\ g.from = group[d].from /\ g.managed = group[d].managed
    BY <1>7, RecvRekeyIs
  <2> QED BY <1>1, <1>2, <1>3, <2>1
<1>8. CASE RecvMessage(d) \/ SkipMessage(d)
  <2>1. PICK g \in GroupRecord :
          /\ group' = [group EXCEPT ![d] = g] /\ g.read = group[d].read + 1
          /\ g.first = group[d].first /\ g.from = group[d].from /\ g.managed = group[d].managed
    BY <1>8, RecvMessageIs
  <2> QED BY <1>1, <1>2, <1>3, <2>1
<1>9. ASSUME NEW o \in flight, o.dev = d, LoadPut(o) \/ LoadVersion(o)
      PROVE  /\ group'[d].joined /\ group'[d] \in GroupRecord
             /\ group'[d].first = group[d].first /\ group'[d].from = group[d].from
             /\ group[d].managed <= group'[d].managed /\ group[d].read <= group'[d].read
  <2>1. PICK g \in GroupRecord :
          /\ group' = [group EXCEPT ![d] = g] /\ g.read = group[d].read
          /\ g.first = group[d].first /\ g.from = group[d].from /\ g.managed = group[d].managed
    BY <1>9, LoadIs
  <2> QED BY <1>1, <1>2, <1>3, <2>1
<1>10. ~\E i \in invites : Joins(d, i)
  BY DEF Joins
<1> QED BY <1>1, <1>4, <1>5, <1>6, <1>7, <1>8, <1>9, <1>10, RowStep DEF Turn

LEMMA JoinsKept ==
  ASSUME TypeOK, FlightJoined, [Next]_vars, NEW d \in Devices, ~Joined(d)
  PROVE  \/ Same(d)
         \/ \E i \in invites : Joins(d, i) /\ group'[d] = NewGroup(i.key, i.at)
                                 /\ i.key \in Nat /\ i.at \in Nat
<1>1. ~Turn(d)
  BY DEF Turn, RecvManage, SkipManage, RecvRekey, RecvMessage, SkipMessage
<1>2. ~\E o \in flight : o.dev = d /\ (LoadPut(o) \/ LoadVersion(o))
  BY DEF LoadPut, LoadVersion, FlightJoined
<1>3. ASSUME NEW i \in invites, Joins(d, i)
      PROVE  group'[d] = NewGroup(i.key, i.at) /\ i.key \in Nat /\ i.at \in Nat
  BY <1>3, JoinsIs DEF TypeOK
<1> QED BY <1>1, <1>2, <1>3, RowStep
-----------------------------------------------------------------------------
(* Each part of the invariant is kept.                                     *)
LEMMA FlightJoinedStep ==
  ASSUME TypeOK, FlightJoined, [Next]_vars
  PROVE  FlightJoined'
<1> SUFFICES ASSUME NEW o \in flight', o.task \in {"load", "loaded", "rekey", "rekeyed"}
             PROVE  group'[o.dev].joined
  BY DEF FlightJoined, Joined
<1>1. CASE o \in flight
  BY <1>1, FlightIs, RowKept DEF FlightJoined
<1>2. CASE o \notin flight
  <2>1. ASSUME NEW d \in Devices, Joined(d), o.dev = d
        PROVE  group'[o.dev].joined
    BY <2>1, RowKept
  <2>2. ASSUME NEW d \in Devices, LoadRead(d), o = [task |-> "load", dev |-> d]
        PROVE  Joined(d) /\ o.dev = d
    BY <2>2 DEF LoadRead
  <2>3. ASSUME NEW p \in flight, LoadPut(p), o = [p EXCEPT !.task = "loaded"]
        PROVE  p.dev \in Devices /\ Joined(p.dev) /\ o.dev = p.dev
    <3>1. p \in [task : {"accept", "load", "loaded"}, dev : Devices]
      BY <2>3 DEF LoadPut, TypeOK, Flight
    <3> QED BY <2>3, <3>1 DEF LoadPut, FlightJoined
  <2>4. ASSUME NEW d \in Devices, RekeyCheck(d),
               o = [task |-> "rekey", dev |-> d, out |-> Banned(group[d].roster)]
        PROVE  Joined(d) /\ o.dev = d
    BY <2>4 DEF RekeyCheck
  <2>5. ASSUME NEW p \in flight, RekeyCollect(p),
               o = [task |-> "rekeyed", dev |-> p.dev, out |-> p.out,
                    to |-> Recipients(group[p.dev].roster)]
        PROVE  p.dev \in Devices /\ Joined(p.dev) /\ o.dev = p.dev
    BY <2>5, FlightIs DEF RekeyCollect, FlightJoined
  <2>6. ASSUME NEW p \in flight, InvitePost(p), o = [p EXCEPT !.task = "invited"]
        PROVE  FALSE
    <3>1. p \in [task : {"invite", "invited"}, dev : Devices, to : Users, key : Key]
      BY <2>6 DEF InvitePost, TypeOK, Flight
    <3> QED BY <2>6, <3>1
  <2> QED BY <1>2, <2>1, <2>2, <2>3, <2>4, <2>5, <2>6, StepFlight
<1> QED BY <1>1, <1>2

(* A step leaves the roster and the version of a row, loads and applies a  *)
(* message, puts the initial admin in, or sets the version.                *)
LEMMA RosterStep ==
  ASSUME TypeOK, FlightJoined, [Next]_vars, NEW d \in Devices, Joined(d)
  PROVE  \/ /\ group'[d].version = group[d].version /\ group'[d].roster = group[d].roster
            /\ d \in late' <=> d \in late
         \/ /\ group'[d].version # 0 /\ group'[d].roster = Loaded(group[d]).roster
            /\ late' = late
         \/ /\ RecvManage(d) /\ group'[d].version # 0 /\ late' = late
            /\ group'[d].managed = group[d].managed + 1
            /\ group[d].managed + 1 \in 1 .. Len(manage)
            /\ group'[d].roster = Apply(Loaded(group[d]).roster, manage[group[d].managed + 1])
         \/ /\ \E o \in flight : LoadPut(o) /\ o.dev = d
            /\ group'[d].version = group[d].version
            /\ group'[d].roster = Put(group[d].roster, InitAdmin, TRUE, "accepted")
            /\ d \in late' <=> (d \in late \/ group[d].version # 0)
         \/ /\ \E o \in flight : LoadVersion(o) /\ o.dev = d
            /\ group'[d].version = 1 /\ group'[d].version # 0
            /\ group'[d].roster = group[d].roster /\ late' = late
<1>3. ASSUME NEW g \in GroupRecord, group' = [group EXCEPT ![d] = g]
      PROVE  group'[d] = g
  BY <1>3 DEF TypeOK
<1>4. CASE Same(d)
  BY <1>4 DEF Same
<1>5. CASE RecvManage(d)
  <2>1. PICK g \in GroupRecord :
          /\ group' = [group EXCEPT ![d] = g] /\ g.managed = group[d].managed + 1
          /\ g.roster = Apply(Loaded(group[d]).roster, manage[group[d].managed + 1])
          /\ g.version # 0
    BY <1>5, RecvManageIs
  <2>2. group[d].managed + 1 \in 1 .. Len(manage) /\ late' = late
    BY <1>5, RecvManageIs DEF RecvManage
  <2> QED BY <1>3, <1>5, <2>1, <2>2
<1>6. CASE SkipManage(d)
  <2>1. PICK g \in GroupRecord :
          /\ group' = [group EXCEPT ![d] = g]
          /\ g.version = group[d].version /\ g.roster = group[d].roster
    BY <1>6, SkipManageIs
  <2> QED BY <1>3, <1>6, <2>1 DEF SkipManage
<1>7. CASE RecvRekey(d)
  <2>1. PICK g \in GroupRecord :
          /\ group' = [group EXCEPT ![d] = g]
          /\ \/ g.version = group[d].version /\ g.roster = group[d].roster
             \/ g.version # 0 /\ g.roster = Loaded(group[d]).roster
    BY <1>7, RecvRekeyIs
  <2>2. late' = late
    BY <1>7 DEF RecvRekey
  <2> QED BY <1>3, <2>1, <2>2
<1>8. CASE RecvMessage(d) \/ SkipMessage(d)
  <2>1. PICK g \in GroupRecord :
          /\ group' = [group EXCEPT ![d] = g]
          /\ g.version = group[d].version /\ g.roster = group[d].roster
    BY <1>8, RecvMessageIs
  <2> QED BY <1>3, <1>8, <2>1 DEF RecvMessage, SkipMessage
<1>9. CASE \E o \in flight : o.dev = d /\ LoadPut(o)
  <2>1. PICK o \in flight : o.dev = d /\ LoadPut(o)
    BY <1>9
  <2>2. PICK g \in GroupRecord :
          /\ group' = [group EXCEPT ![d] = g]
          /\ \/ /\ LoadPut(o) /\ g.version = group[d].version
                /\ g.roster = Put(group[d].roster, InitAdmin, TRUE, "accepted")
             \/ LoadVersion(o) /\ g.version = 1 /\ g.roster = group[d].roster
    BY <2>1, LoadIs
  <2>3. ~LoadVersion(o)
    BY <2>1 DEF LoadPut, LoadVersion
  <2>4. d \in late' <=> (d \in late \/ group[d].version # 0)
    BY <2>1 DEF LoadPut
  <2> QED BY <1>3, <2>1, <2>2, <2>3, <2>4
<1>10. CASE \E o \in flight : o.dev = d /\ LoadVersion(o)
  <2>1. PICK o \in flight : o.dev = d /\ LoadVersion(o)
    BY <1>10
  <2>2. PICK g \in GroupRecord :
          /\ group' = [group EXCEPT ![d] = g]
          /\ \/ /\ LoadPut(o) /\ g.version = group[d].version
                /\ g.roster = Put(group[d].roster, InitAdmin, TRUE, "accepted")
             \/ LoadVersion(o) /\ g.version = 1 /\ g.roster = group[d].roster
    BY <2>1, LoadIs
  <2>3. ~LoadPut(o) /\ late' = late
    BY <2>1 DEF LoadPut, LoadVersion
  <2>4. g.version # 0 /\ g.version = 1
    <3>1. g.version = 1
      BY <2>2, <2>3, Zenon
    <3> QED BY <3>1
  <2> QED BY <1>3, <2>1, <2>2, <2>3, <2>4
<1>11. ~\E i \in invites : Joins(d, i)
  BY DEF Joins
<1> QED BY <1>4, <1>5, <1>6, <1>7, <1>8, <1>9, <1>10, <1>11, RowStep DEF Turn

LEMMA VersionZeroStep ==
  ASSUME TypeOK, FlightJoined, VersionZero, [Next]_vars
  PROVE  VersionZero'
<1>1. ASSUME NEW d \in Devices, group'[d].joined, group'[d].version = 0
      PROVE  group'[d].roster \in {NoMembers, FirstRoster}
  <2>1. CASE ~Joined(d)
    <3>1. ~Same(d)
      BY <1>1, <2>1 DEF Same, Joined
    <3>2. PICK i : group'[d] = NewGroup(i.key, i.at)
      BY <2>1, <3>1, JoinsKept
    <3> QED BY <3>2 DEF NewGroup
  <2>2. CASE Joined(d)
    <3>1. group[d].version = 0 => group[d].roster \in {NoMembers, FirstRoster}
      BY <2>2 DEF VersionZero
    <3>2. \/ group'[d].version = group[d].version /\ group'[d].roster = group[d].roster
          \/ group'[d].version # 0
          \/ /\ group'[d].version = group[d].version
             /\ group'[d].roster = Put(group[d].roster, InitAdmin, TRUE, "accepted")
      BY <2>2, RosterStep, Zenon
    <3> QED BY <1>1, <3>1, <3>2, FirstRosterIs
  <2> QED BY <2>1, <2>2
<1>2. ASSUME NEW o \in flight', o.task = "loaded", o.dev \notin late'
      PROVE  group'[o.dev].version # 0 \/ group'[o.dev].roster = FirstRoster
  <2>1. CASE o \in flight
    <3>1. PICK d \in Devices : d = o.dev /\ Joined(d)
      BY <1>2, <2>1, FlightIs DEF FlightJoined
    <3>2. d \notin late => group[d].version # 0 \/ group[d].roster = FirstRoster
      BY <1>2, <2>1, <3>1 DEF VersionZero
    <3>3. /\ d \in late => d \in late'
          /\ \/ group'[d].version = group[d].version /\ group'[d].roster = group[d].roster
             \/ group'[d].version # 0
             \/ /\ group'[d].version = group[d].version
                /\ group'[d].roster = Put(group[d].roster, InitAdmin, TRUE, "accepted")
      BY <3>1, RosterStep, Zenon
    <3> QED BY <1>2, <3>1, <3>2, <3>3, FirstRosterIs
  <2>2. CASE o \notin flight
    <3>1. \E p \in flight : LoadPut(p) /\ o = [p EXCEPT !.task = "loaded"]
      <4>1. ASSUME NEW p \in flight, InvitePost(p), o = [p EXCEPT !.task = "invited"]
            PROVE  FALSE
        <5>1. p \in [task : {"invite", "invited"}, dev : Devices, to : Users, key : Key]
          BY <4>1 DEF InvitePost, TypeOK, Flight
        <5> QED BY <1>2, <4>1, <5>1
      <4> QED BY <1>2, <2>2, <4>1, StepFlight
    <3>2. PICK p \in flight : LoadPut(p) /\ o = [p EXCEPT !.task = "loaded"]
      BY <3>1
    <3>3. p \in [task : {"accept", "load", "loaded"}, dev : Devices]
      BY <3>2 DEF LoadPut, TypeOK, Flight
    <3>4. PICK d \in Devices : d = p.dev /\ o.dev = d /\ Joined(d)
      BY <3>2, <3>3 DEF LoadPut, FlightJoined
    <3>5. PICK g \in GroupRecord :
            /\ group' = [group EXCEPT ![d] = g]
            /\ \/ /\ LoadPut(p) /\ g.version = group[d].version
                  /\ g.roster = Put(group[d].roster, InitAdmin, TRUE, "accepted")
               \/ LoadVersion(p) /\ g.version = 1 /\ g.roster = group[d].roster
      <4>1. LoadPut(p) /\ p.dev = d
        BY <3>2, <3>4
      <4> QED BY <4>1, LoadIs
    <3>6. group'[d] = g
      BY <3>5 DEF TypeOK
    <3>7. ~LoadVersion(p)
      BY <3>2 DEF LoadPut, LoadVersion
    <3>8. group[d].version # 0 \/ group[d].roster \in {NoMembers, FirstRoster}
      BY <3>4 DEF VersionZero
    <3>9. CASE group[d].version # 0
      BY <3>4, <3>5, <3>6, <3>7, <3>9
    <3>10. CASE group[d].roster \in {NoMembers, FirstRoster}
      BY <3>4, <3>5, <3>6, <3>7, <3>10, FirstRosterIs
    <3> QED BY <3>8, <3>9, <3>10
  <2> QED BY <2>1, <2>2
<1> QED BY <1>1, <1>2 DEF VersionZero, Joined

(* What a step does to a device's cursors and to the keys it holds.        *)
LEMMA CursorStep ==
  ASSUME TypeOK, FlightJoined, [Next]_vars, NEW d \in Devices, Joined(d)
  PROVE  \/ Same(d)
         \/ /\ RecvManage(d) \/ SkipManage(d)
            /\ group'[d].managed = group[d].managed + 1
            /\ group[d].managed + 1 \in 1 .. Len(manage)
            /\ group'[d].read = group[d].read
            /\ group'[d].cur = group[d].cur /\ group'[d].prev = group[d].prev
         \/ /\ RecvRekey(d) /\ messages[group[d].read + 1].kind = "rekey"
            /\ group'[d].managed = group[d].managed
            /\ group'[d].read = group[d].read + 1
            /\ group[d].read + 1 \in 1 .. Len(messages)
            /\ \/ /\ group'[d].cur = group[d].cur /\ group'[d].prev = group[d].prev
                  /\ switched' = switched
               \/ /\ group'[d].cur = group[d].read + 1 /\ group'[d].prev = group[d].cur
                  /\ d \in messages[group[d].read + 1].to
                  /\ switched' = switched \cup {<<d, group[d].read + 1>>}
         \/ /\ RecvMessage(d) \/ SkipMessage(d)
            /\ group'[d].managed = group[d].managed
            /\ group'[d].read = group[d].read + 1
            /\ group[d].read + 1 \in 1 .. Len(messages)
            /\ group'[d].cur = group[d].cur /\ group'[d].prev = group[d].prev
         \/ /\ \E o \in flight : LoadPut(o) \/ LoadVersion(o)
            /\ group'[d].managed = group[d].managed /\ group'[d].read = group[d].read
            /\ group'[d].cur = group[d].cur /\ group'[d].prev = group[d].prev
<1>3. ASSUME NEW g \in GroupRecord, group' = [group EXCEPT ![d] = g]
      PROVE  group'[d] = g
  BY <1>3 DEF TypeOK
<1>5. CASE RecvManage(d)
  <2>1. PICK g \in GroupRecord :
          /\ group' = [group EXCEPT ![d] = g] /\ g.managed = group[d].managed + 1
          /\ g.read = group[d].read /\ g.cur = group[d].cur /\ g.prev = group[d].prev
    BY <1>5, RecvManageIs
  <2> QED BY <1>3, <1>5, <2>1, RecvManageIs
<1>6. CASE SkipManage(d)
  <2>1. PICK g \in GroupRecord :
          /\ group' = [group EXCEPT ![d] = g] /\ g.managed = group[d].managed + 1
          /\ g.read = group[d].read /\ g.cur = group[d].cur /\ g.prev = group[d].prev
    BY <1>6, SkipManageIs
  <2> QED BY <1>3, <1>6, <2>1, SkipManageIs
<1>7. CASE RecvRekey(d)
  <2>1. PICK g \in GroupRecord :
          /\ group' = [group EXCEPT ![d] = g] /\ g.read = group[d].read + 1
          /\ g.managed = group[d].managed
          /\ \/ g.cur = group[d].cur /\ g.prev = group[d].prev /\ switched' = switched
             \/ /\ d \in messages[g.read].to /\ g.cur = g.read /\ g.prev = group[d].cur
                /\ switched' = switched \cup {<<d, g.read>>}
    BY <1>7, RecvRekeyIs
  <2>2. group[d].read + 1 \in 1 .. Len(messages) /\ messages[group[d].read + 1].kind = "rekey"
    BY <1>7, RecvRekeyIs
  <2>3. group'[d] = g
    BY <1>3, <2>1
  <2> QED BY <1>7, <2>1, <2>2, <2>3
<1>8. CASE RecvMessage(d) \/ SkipMessage(d)
  <2>1. PICK g \in GroupRecord :
          /\ group' = [group EXCEPT ![d] = g] /\ g.read = group[d].read + 1
          /\ g.managed = group[d].managed /\ g.cur = group[d].cur /\ g.prev = group[d].prev
    BY <1>8, RecvMessageIs
  <2> QED BY <1>3, <1>8, <2>1, RecvMessageIs
<1>9. CASE \E o \in flight : o.dev = d /\ (LoadPut(o) \/ LoadVersion(o))
  <2>1. PICK o \in flight : o.dev = d /\ (LoadPut(o) \/ LoadVersion(o))
    BY <1>9
  <2>2. PICK g \in GroupRecord :
          /\ group' = [group EXCEPT ![d] = g] /\ g.managed = group[d].managed
          /\ g.read = group[d].read /\ g.cur = group[d].cur /\ g.prev = group[d].prev
    BY <2>1, LoadIs
  <2> QED BY <1>3, <2>1, <2>2
<1>11. ~\E i \in invites : Joins(d, i)
  BY DEF Joins
<1> QED BY <1>5, <1>6, <1>7, <1>8, <1>9, <1>11, RowStep DEF Turn

LEMMA CursorsBoundedStep ==
  ASSUME TypeOK, FlightJoined, CursorsBounded, KeysBounded, [Next]_vars
  PROVE  CursorsBounded'
<1>1. /\ Len(manage) \in Nat /\ Len(manage') \in Nat /\ Len(manage) <= Len(manage')
      /\ Len(messages) \in Nat /\ Len(messages') \in Nat /\ Len(messages) <= Len(messages')
  BY MailboxStep DEF Kept, TypeOK
<1>2. \A g \in GroupRecord : g.managed \in Nat /\ g.read \in Nat /\ g.from \in Nat
  BY DEF GroupRecord
<1> SUFFICES ASSUME NEW d \in Devices
             PROVE  /\ group'[d].joined =>
                         /\ group'[d].managed <= Len(manage')
                         /\ group'[d].from <= group'[d].read /\ group'[d].read <= Len(messages')
                    /\ \A n \in Nat : <<d, "manage", n>> \in skipped' =>
                         group'[d].joined /\ n <= group'[d].managed
  BY DEF CursorsBounded, Joined
<1>3. CASE ~Joined(d) /\ Same(d)
  BY <1>3 DEF CursorsBounded, Same, Joined
<1>5. CASE ~Joined(d) /\ ~Same(d)
  <2>2. PICK i \in invites : Joins(d, i) /\ group'[d] = NewGroup(i.key, i.at) /\ i.at \in Nat
    BY <1>5, JoinsKept
  <2>3. group'[d].managed = 0 /\ group'[d].from = i.at /\ group'[d].read = i.at
    BY <2>2 DEF NewGroup
  <2>4. i.at <= Len(messages)
    BY DEF KeysBounded
  <2>5. skipped' = skipped
    BY <2>2 DEF Joins
  <2>6. \A n \in Nat : <<d, "manage", n>> \notin skipped
    BY <1>5 DEF CursorsBounded
  <2> QED BY <1>1, <2>2, <2>3, <2>4, <2>5, <2>6
<1>4. CASE Joined(d)
  <2>1. /\ group[d].managed <= Len(manage) /\ group[d].from <= group[d].read
        /\ group[d].read <= Len(messages)
        /\ \A n \in Nat : <<d, "manage", n>> \in skipped => n <= group[d].managed
    BY <1>4 DEF CursorsBounded
  <2>2. /\ group[d].managed \in Nat /\ group[d].read \in Nat /\ group[d].from \in Nat
        /\ group'[d].managed \in Nat /\ group'[d].read \in Nat /\ group'[d].from = group[d].from
        /\ group[d].managed <= group'[d].managed /\ group[d].read <= group'[d].read
    BY <1>2, <1>4, RowKept
  <2>3. group'[d].managed <= Len(manage) /\ group'[d].read <= Len(messages)
    <3>1. /\ \/ group'[d].managed = group[d].managed
             \/ group[d].managed + 1 \in 1 .. Len(manage) /\ group'[d].managed = group[d].managed + 1
          /\ \/ group'[d].read = group[d].read
             \/ group[d].read + 1 \in 1 .. Len(messages) /\ group'[d].read = group[d].read + 1
      BY <1>4, CursorStep, Zenon DEF Same
    <3> QED BY <2>1, <3>1
  <2>4. ASSUME NEW n \in Nat, <<d, "manage", n>> \in skipped', <<d, "manage", n>> \notin skipped
        PROVE  n <= group'[d].managed
    <3>1. CASE SkipManage(d)
      <4>1. skipped' = skipped \cup {<<d, "manage", group[d].managed + 1>>}
              /\ group'[d].managed = group[d].managed + 1
        BY <1>4, <3>1, SkipManageIs DEF TypeOK
      <4> QED BY <2>2, <2>4, <4>1
    <3>2. CASE Same(d)
      BY <2>4, <3>2 DEF Same
    <3>3. CASE RecvManage(d) \/ RecvRekey(d) \/ RecvMessage(d) \/ SkipMessage(d)
      BY <2>4, <3>3 DEF RecvManage, RecvRekey, RecvMessage, SkipMessage
    <3>4. CASE \E o \in flight : LoadPut(o) \/ LoadVersion(o)
      BY <2>4, <3>4 DEF LoadPut, LoadVersion
    <3> QED BY <1>4, <3>1, <3>2, <3>3, <3>4, CursorStep
  <2>5. group'[d].joined
    BY <1>4, RowKept
  <2> QED BY <1>1, <2>1, <2>2, <2>3, <2>4, <2>5, SMTT(60)
<1> QED BY <1>3, <1>4, <1>5

(* What a device has replayed is fixed.                                    *)
LEMMA ReplayKept ==
  ASSUME TypeOK, FlightJoined, CursorsBounded, [Next]_vars, NEW d \in Devices, Joined(d)
  PROVE  Replay(manage', group[d].managed, SkippedBy(d, "manage")')
           = Replay(manage, group[d].managed, SkippedBy(d, "manage"))
<1>1. PICK m \in Nat : m = group[d].managed
  BY JoinedIs DEF GroupRecord
<1>2. m <= Len(manage) /\ \A n \in Nat : <<d, "manage", n>> \in skipped => n <= m
  BY <1>1 DEF CursorsBounded
<1>3. /\ Len(manage) \in Nat /\ Len(manage') \in Nat /\ Len(manage) <= Len(manage')
      /\ Len(messages) \in Nat /\ Len(messages') \in Nat
      /\ \A i \in 1 .. Len(manage) : manage'[i] = manage[i]
  BY MailboxStep DEF Kept, TypeOK
<1>4. ASSUME NEW i \in 1 .. m
      PROVE  <<d, "manage", i>> \in skipped' <=> <<d, "manage", i>> \in skipped
  <2>1. CASE Same(d)
    BY <2>1 DEF Same
  <2>2. CASE RecvManage(d) \/ RecvRekey(d) \/ RecvMessage(d)
    BY <2>2 DEF RecvManage, RecvRekey, RecvMessage
  <2>3. CASE SkipManage(d)
    <3>1. skipped' = skipped \cup {<<d, "manage", m + 1>>}
      BY <1>1, <2>3 DEF SkipManage
    <3>2. i # m + 1
      BY <1>1
    <3> QED BY <3>1, <3>2
  <2>4. CASE SkipMessage(d)
    BY <2>4 DEF SkipMessage
  <2>5. CASE \E o \in flight : LoadPut(o) \/ LoadVersion(o)
    BY <2>5 DEF LoadPut, LoadVersion
  <2> QED BY <2>1, <2>2, <2>3, <2>4, <2>5, CursorStep
<1>5. \A i \in 1 .. m : /\ manage'[i] = manage[i]
                        /\ i \in SkippedBy(d, "manage")' <=> i \in SkippedBy(d, "manage")
  <2> SUFFICES ASSUME NEW i \in 1 .. m
               PROVE  /\ manage'[i] = manage[i]
                      /\ i \in SkippedBy(d, "manage")' <=> i \in SkippedBy(d, "manage")
    OBVIOUS
  <2>1. i \in 1 .. Len(manage) + Len(messages) /\ i \in 1 .. Len(manage') + Len(messages')
          /\ i \in 1 .. Len(manage)
    BY <1>1, <1>2, <1>3
  <2> QED BY <1>3, <1>4, <2>1 DEF SkippedBy
<1> QED BY <1>1, <1>5, ReplaySame

LEMMA ReplayHoldsStep ==
  ASSUME TypeOK, TypeOK', FlightJoined, CursorsBounded, VersionZero, ReplayHolds, [Next]_vars
  PROVE  ReplayHolds'
<1> SUFFICES ASSUME NEW d \in Devices, d \notin late', group'[d].joined
             PROVE  Loaded(group'[d]).roster
                      = Replay(manage', group'[d].managed, SkippedBy(d, "manage")')
  BY DEF ReplayHolds, Joined
<1>1. CASE ~Joined(d)
  <2>1. PICK i \in invites : group'[d] = NewGroup(i.key, i.at) /\ i.key \in Nat /\ i.at \in Nat
    BY <1>1, JoinsKept DEF Same, Joined
  <2>2. group'[d] \in GroupRecord /\ group'[d].version = 0 /\ group'[d].roster = NoMembers
          /\ group'[d].managed = 0
    <3>1. NewGroup(i.key, i.at) \in GroupRecord
      BY <2>1, NewGroupIs
    <3> QED BY <2>1, <3>1 DEF NewGroup
  <2>3. Loaded(group'[d]).roster = FirstRoster
    BY <2>2, LoadedIs, FirstRosterIs
  <2>4. Replay(manage', 0, SkippedBy(d, "manage")') = FirstRoster
    BY ReplayStep
  <2> QED BY <2>2, <2>3, <2>4
<1>2. CASE Joined(d)
  <2>1. PICK g \in GroupRecord, h \in GroupRecord, m \in Nat :
          g = group[d] /\ h = group'[d] /\ m = g.managed
    BY <1>2, RowKept DEF GroupRecord
  <2>2. d \notin late
    BY <1>2, RosterStep
  <2>3. Loaded(g).roster = Replay(manage, m, SkippedBy(d, "manage"))
    BY <1>2, <2>1, <2>2 DEF ReplayHolds
  <2>4. PICK L, S : L = manage' /\ S = SkippedBy(d, "manage")'
    OBVIOUS
  <2>5. Loaded(g).roster = Replay(L, m, S)
    BY <1>2, <2>1, <2>3, <2>4, ReplayKept
  <2>6. /\ Len(manage) \in Nat /\ Len(L) \in Nat /\ Len(manage) <= Len(L)
        /\ Len(messages') \in Nat
        /\ \A i \in 1 .. Len(manage) : L[i] = manage[i]
    BY <2>4, MailboxStep DEF Kept, TypeOK
  <2>7. CASE RecvManage(d)
    <3>1. h.roster = Apply(Loaded(g).roster, manage[m + 1]) /\ h.version # 0
            /\ h.managed = m + 1 /\ m + 1 \in 1 .. Len(manage)
      <4>1. PICK f \in GroupRecord :
              /\ group' = [group EXCEPT ![d] = f]
              /\ f.roster = Apply(Loaded(g).roster, manage[m + 1])
              /\ f.version # 0 /\ f.managed = m + 1
        BY <2>1, <2>7, RecvManageIs
      <4>2. f = h
        BY <2>1, <4>1 DEF TypeOK
      <4> QED BY <2>1, <2>7, <4>1, <4>2, RecvManageIs
    <3>2. m + 1 \notin S
      <4>1. skipped' = skipped
        BY <2>7 DEF RecvManage
      <4>2. <<d, "manage", m + 1>> \notin skipped
        BY <1>2, <2>1 DEF CursorsBounded
      <4> QED BY <2>4, <4>1, <4>2 DEF SkippedBy
    <3>3. Replay(L, m + 1, S) = Apply(Replay(L, m, S), L[m + 1])
      BY <3>2, ReplayStep
    <3>4. Loaded(h).roster = h.roster
      BY <3>1, LoadedIs
    <3>5. L[m + 1] = manage[m + 1]
      BY <2>6, <3>1
    <3> QED BY <2>1, <2>4, <2>5, <3>1, <3>3, <3>4, <3>5
  <2>8. CASE SkipManage(d)
    <3>1. /\ h.roster = g.roster /\ h.version = g.version /\ h.managed = m + 1
          /\ m + 1 \in 1 .. Len(manage)
      <4>1. PICK f \in GroupRecord :
              /\ group' = [group EXCEPT ![d] = f]
              /\ f.roster = g.roster /\ f.version = g.version /\ f.managed = m + 1
        BY <2>1, <2>8, SkipManageIs
      <4>2. f = h
        BY <2>1, <4>1 DEF TypeOK
      <4> QED BY <2>1, <2>8, <4>1, <4>2, SkipManageIs
    <3>2. m + 1 \in S
      <4>1. <<d, "manage", m + 1>> \in skipped'
        BY <2>1, <2>8, SkipManageIs
      <4>2. m + 1 \in 1 .. Len(manage') + Len(messages')
        BY <2>4, <2>6, <3>1
      <4> QED BY <2>4, <4>1, <4>2 DEF SkippedBy
    <3>3. Replay(L, m + 1, S) = Replay(L, m, S)
      BY <3>2, ReplayStep
    <3>4. Loaded(h).roster = Loaded(g).roster
      BY <3>1, LoadedRoster
    <3> QED BY <2>1, <2>4, <2>5, <3>1, <3>3, <3>4
  <2>9. CASE ~RecvManage(d) /\ ~SkipManage(d)
    <3>1. h.managed = m
      BY <1>2, <2>1, <2>9, CursorStep, Zenon DEF Same
    <3>2. CASE h.version = g.version /\ h.roster = g.roster
      <4>1. Loaded(h).roster = Loaded(g).roster
        BY <3>2, LoadedRoster
      <4> QED BY <2>1, <2>4, <2>5, <3>1, <4>1
    <3>3. CASE h.version # 0 /\ h.roster = Loaded(g).roster
      BY <2>1, <2>4, <2>5, <3>1, <3>3, LoadedIs
    <3>4. CASE /\ h.version = g.version /\ g.version = 0
               /\ h.roster = Put(g.roster, InitAdmin, TRUE, "accepted")
      <4>1. g.roster \in {NoMembers, FirstRoster}
        BY <1>2, <2>1, <3>4 DEF VersionZero
      <4>2. Loaded(g).roster = FirstRoster /\ Loaded(h).roster = FirstRoster
        BY <3>4, <4>1, LoadedRoster, FirstRosterIs
      <4> QED BY <2>1, <2>4, <2>5, <3>1, <4>2
    <3>5. CASE /\ \E o \in flight : LoadVersion(o) /\ o.dev = d
               /\ h.version # 0 /\ h.roster = g.roster
      <4>1. g.version # 0 \/ g.roster = FirstRoster
        BY <2>1, <2>2, <3>5 DEF LoadVersion, VersionZero
      <4>2. Loaded(g).roster = g.roster /\ Loaded(h).roster = h.roster
        BY <3>5, <4>1, LoadedRoster, FirstRosterIs
      <4> QED BY <2>1, <2>4, <2>5, <3>1, <3>5, <4>2
    <3>6. \/ h.version = g.version /\ h.roster = g.roster
          \/ h.version # 0 /\ h.roster = Loaded(g).roster
          \/ /\ h.version = g.version /\ g.version = 0
             /\ h.roster = Put(g.roster, InitAdmin, TRUE, "accepted")
          \/ /\ \E o \in flight : LoadVersion(o) /\ o.dev = d
             /\ h.version # 0 /\ h.roster = g.roster
      BY <1>2, <2>1, <2>2, <2>9, RosterStep, Zenon
    <3> QED BY <3>2, <3>3, <3>4, <3>5, <3>6
  <2> QED BY <2>7, <2>8, <2>9
<1> QED BY <1>1, <1>2

LEMMA KeysHeld ==
  ASSUME TypeOK, CursorsBounded, KeyChain, NEW d \in Devices, Joined(d)
  PROVE  /\ group[d].cur \in Nat /\ group[d].prev \in Nat /\ group[d].read \in Nat
         /\ group[d].first \in Nat /\ group[d].from \in Nat
         /\ group[d].cur <= group[d].read /\ group[d].prev <= group[d].read
         /\ group[d].first <= group[d].from /\ group[d].from <= group[d].read
         /\ group[d].read <= Len(messages) /\ Len(messages) \in Nat
<1>1. /\ group[d].cur \in Nat /\ group[d].prev \in Nat /\ group[d].read \in Nat
      /\ group[d].first \in Nat /\ group[d].from \in Nat
  BY JoinedIs DEF GroupRecord, Key
<1>2. /\ group[d].from <= group[d].read /\ group[d].read <= Len(messages)
      /\ Len(messages) \in Nat
  BY DEF CursorsBounded, TypeOK
<1>3. /\ group[d].first <= group[d].from
      /\ Took(d, group[d].cur) /\ Took(d, group[d].prev)
  BY DEF KeyChain
<1>4. \A k \in Nat : <<d, k>> \in switched => k <= group[d].read
  BY DEF KeyChain
<1> QED BY <1>1, <1>2, <1>3, <1>4 DEF Took

LEMMA KeysBoundedStep ==
  ASSUME TypeOK, CursorsBounded, KeysBounded, KeyChain, [Next]_vars
  PROVE  KeysBounded'
<1>1. /\ Len(messages) \in Nat /\ Len(messages') \in Nat /\ Len(messages) <= Len(messages')
      /\ \A i \in 1 .. Len(messages) : messages'[i] = messages[i]
  BY MailboxStep DEF Kept, TypeOK
<1>2. ASSUME NEW i \in invites'
      PROVE  i.key <= i.at /\ i.at <= Len(messages')
  <2>1. CASE i \in invites
    <3>1. i.key \in Nat /\ i.at \in Nat /\ i.key <= i.at /\ i.at <= Len(messages)
      BY <2>1 DEF TypeOK, Invite, Key, KeysBounded
    <3> QED BY <1>1, <3>1
  <2>2. CASE i \notin invites
    <3>1. PICK o \in flight : InviteDeliver(o)
      BY <2>2, StepPosts
    <3>2. i = [to |-> o.to, key |-> o.key, at |-> Len(messages)]
      BY <2>2, <3>1 DEF InviteDeliver
    <3>3. o.key <= Len(messages)
      BY <3>1 DEF InviteDeliver, KeysBounded
    <3> QED BY <1>1, <3>2, <3>3
  <2> QED BY <2>1, <2>2
<1>3. ASSUME NEW o \in flight', o.task \in {"invite", "invited", "send"}
      PROVE  o.key <= Len(messages')
  <2>1. o \in flight' /\ (o \notin flight => o.key <= Len(messages))
    <3>1. ASSUME NEW d \in Devices, Joined(d), o.key = group[d].cur
          PROVE  o.key <= Len(messages)
      BY <3>1, KeysHeld
    <3>2. ASSUME NEW d \in Devices, NEW u \in Users, InviteLoad(d, u),
                 o = [task |-> "invite", dev |-> d, to |-> u, key |-> group[d].cur]
          PROVE  o.key <= Len(messages)
      <4>1. Joined(d) /\ o.key = group[d].cur
        BY <3>2 DEF InviteLoad
      <4> QED BY <3>1, <4>1
    <3>3. ASSUME NEW d \in Devices, SendLoad(d),
                 o = [task |-> "send", dev |-> d, key |-> group[d].cur]
          PROVE  o.key <= Len(messages)
      <4>1. Joined(d) /\ o.key = group[d].cur
        BY <3>3 DEF SendLoad
      <4> QED BY <3>1, <4>1
    <3>4. ASSUME NEW p \in flight, InvitePost(p), o = [p EXCEPT !.task = "invited"]
          PROVE  o.key <= Len(messages)
      <4>1. p \in [task : {"invite", "invited"}, dev : Devices, to : Users, key : Key]
        BY <3>4 DEF InvitePost, TypeOK, Flight
      <4>2. o.key = p.key
        BY <3>4, <4>1
      <4> QED BY <3>4, <4>2 DEF InvitePost, KeysBounded
    <3>5. ASSUME NEW p \in flight, LoadPut(p), o = [p EXCEPT !.task = "loaded"]
          PROVE  FALSE
      <4>1. p \in [task : {"accept", "load", "loaded"}, dev : Devices]
        BY <3>5 DEF LoadPut, TypeOK, Flight
      <4> QED BY <1>3, <3>5, <4>1
    <3> QED BY <1>3, <3>2, <3>3, <3>4, <3>5, StepFlight
  <2>2. CASE o \in flight
    <3>1. o.key \in Nat /\ o.key <= Len(messages)
      BY <1>3, <2>2, FlightIs DEF KeysBounded
    <3> QED BY <1>1, <3>1
  <2>3. CASE o \notin flight
    <3>1. messages' = messages
      <4>1. ASSUME NEW p \in flight, SendPost(p) \/ RekeyPost(p)
            PROVE  FALSE
        BY <2>3, <4>1 DEF SendPost, RekeyPost
      <4> QED BY <4>1, StepPosts
    <3> QED BY <2>1, <2>3, <3>1
  <2> QED BY <2>2, <2>3
<1>4. ASSUME NEW n \in 1 .. Len(messages'), messages'[n].kind = "message"
      PROVE  messages'[n].key < n
  <2>1. CASE n \in 1 .. Len(messages)
    BY <1>1, <1>4, <2>1 DEF KeysBounded
  <2>2. CASE n \notin 1 .. Len(messages)
    <3>1. PICK o \in flight : SendPost(o) \/ RekeyPost(o)
      BY <1>1, <2>2, StepPosts
    <3>2. PICK e : messages' = Append(messages, e) /\ (e.kind = "message" => e.key = o.key /\ o.task = "send")
      BY <3>1 DEF SendPost, RekeyPost, PostMessage
    <3>3. n = Len(messages) + 1 /\ messages'[n] = e
      BY <1>1, <2>2, <3>2, KeptIs DEF TypeOK
    <3>4. o.key \in Nat /\ o.key <= Len(messages)
      BY <1>4, <3>2, <3>3, FlightIs DEF KeysBounded
    <3>5. messages'[n].key = o.key
      BY <1>4, <3>2, <3>3
    <3> QED BY <1>1, <3>3, <3>4, <3>5
  <2> QED BY <2>1, <2>2
<1> QED BY <1>2, <1>3, <1>4 DEF KeysBounded

(* A step keeps the two keys of a device, or takes the next entry's.       *)
LEMMA KeyStep ==
  ASSUME TypeOK, FlightJoined, [Next]_vars, NEW d \in Devices, Joined(d)
  PROVE  \/ /\ group'[d].cur = group[d].cur /\ group'[d].prev = group[d].prev
            /\ \A k : <<d, k>> \in switched' <=> <<d, k>> \in switched
         \/ /\ RecvRekey(d) /\ group[d].read + 1 \in 1 .. Len(messages)
            /\ messages[group[d].read + 1].kind = "rekey" /\ d \in messages[group[d].read + 1].to
            /\ group'[d].cur = group[d].read + 1 /\ group'[d].prev = group[d].cur
            /\ group'[d].read = group[d].read + 1
            /\ switched' = switched \cup {<<d, group[d].read + 1>>}
<1>1. CASE Same(d)
  BY <1>1 DEF Same
<1>2. CASE ~RecvRekey(d) /\ (RecvManage(d) \/ SkipManage(d) \/ RecvMessage(d) \/ SkipMessage(d))
  <2>1. switched' = switched
    BY <1>2 DEF RecvManage, SkipManage, RecvMessage, SkipMessage
  <2> QED BY <1>2, <2>1, CursorStep, Zenon DEF Same
<1>3. CASE ~RecvRekey(d) /\ \E o \in flight : LoadPut(o) \/ LoadVersion(o)
  <2>1. switched' = switched
    BY <1>3 DEF LoadPut, LoadVersion
  <2> QED BY <1>3, <2>1, CursorStep, Zenon DEF Same
<1>4. CASE RecvRekey(d)
  <2>1. PICK g \in GroupRecord :
          /\ group' = [group EXCEPT ![d] = g] /\ g.read = group[d].read + 1
          /\ \/ g.cur = group[d].cur /\ g.prev = group[d].prev /\ switched' = switched
             \/ /\ d \in messages[g.read].to /\ g.cur = g.read /\ g.prev = group[d].cur
                /\ switched' = switched \cup {<<d, g.read>>}
    BY <1>4, RecvRekeyIs
  <2>2. group[d].read + 1 \in 1 .. Len(messages) /\ messages[group[d].read + 1].kind = "rekey"
    BY <1>4, RecvRekeyIs
  <2>3. group'[d] = g
    BY <2>1 DEF TypeOK
  <2> QED BY <1>4, <2>1, <2>2, <2>3
<1> QED BY <1>1, <1>2, <1>3, <1>4, CursorStep, Zenon

LEMMA KeyChainStep ==
  ASSUME TypeOK, FlightJoined, CursorsBounded, KeysBounded, KeyChain, [Next]_vars
  PROVE  KeyChain'
<1> SUFFICES ASSUME NEW d \in Devices
             PROVE  /\ \A k \in Nat : <<d, k>> \in switched' =>
                         /\ group'[d].joined /\ group'[d].from < k /\ k <= group'[d].read
                         /\ messages'[k].kind = "rekey" /\ d \in messages'[k].to
                    /\ group'[d].joined =>
                         /\ group'[d].first <= group'[d].from
                         /\ Took(d, group[d].cur)' /\ Took(d, group[d].prev)'
                         /\ group'[d].prev <= group'[d].cur
                         /\ \A k \in Nat : (k = group'[d].first \/ <<d, k>> \in switched') =>
                              \/ k \in {group'[d].cur, group'[d].prev}
                              \/ k < group'[d].prev /\ group'[d].prev < group'[d].cur
  BY DEF KeyChain, Took, Joined
<1>1. /\ Len(messages) \in Nat /\ Len(messages') \in Nat /\ Len(messages) <= Len(messages')
      /\ \A i \in 1 .. Len(messages) : messages'[i] = messages[i]
  BY MailboxStep DEF Kept, TypeOK
<1>2. CASE ~Joined(d)
  <2>1. \A k \in Nat : <<d, k>> \notin switched
    BY <1>2 DEF KeyChain
  <2>2. CASE Same(d)
    BY <1>2, <2>1, <2>2 DEF Same, Joined
  <2>3. CASE ~Same(d)
    <3>1. PICK i \in invites : Joins(d, i) /\ group'[d] = NewGroup(i.key, i.at)
                                 /\ i.key \in Nat /\ i.at \in Nat
      BY <1>2, <2>3, JoinsKept
    <3>2. i.key <= i.at /\ switched' = switched
      BY <3>1 DEF KeysBounded, Joins
    <3>3. /\ group'[d].first = i.key /\ group'[d].from = i.at
          /\ group'[d].cur = i.key /\ group'[d].prev = i.key
      BY <3>1 DEF NewGroup
    <3> QED BY <2>1, <3>1, <3>2, <3>3 DEF Took
  <2> QED BY <2>2, <2>3
<1>3. CASE Joined(d)
  <2>1. PICK g \in GroupRecord, h \in GroupRecord :
          /\ g = group[d] /\ h = group'[d]
          /\ h.joined /\ h.first = g.first /\ h.from = g.from /\ g.read <= h.read
    BY <1>3, RowKept
  <2>2. /\ g.cur \in Nat /\ g.prev \in Nat /\ g.read \in Nat /\ g.first \in Nat /\ g.from \in Nat
        /\ g.cur <= g.read /\ g.prev <= g.read /\ g.first <= g.from /\ g.from <= g.read
        /\ g.read <= Len(messages)
    BY <1>3, <2>1, KeysHeld
  <2>3. h.read \in Nat /\ h.cur \in Nat /\ h.prev \in Nat
    BY DEF GroupRecord, Key
  <2>4. /\ \A k \in Nat : <<d, k>> \in switched =>
             /\ g.from < k /\ k <= g.read /\ messages[k].kind = "rekey" /\ d \in messages[k].to
        /\ Took(d, g.cur) /\ Took(d, g.prev) /\ g.prev <= g.cur
        /\ \A k \in Nat : Took(d, k) => \/ k \in {g.cur, g.prev}
                                        \/ k < g.prev /\ g.prev < g.cur
    BY <1>3, <2>1 DEF KeyChain
  <2>5. \A k \in Nat : <<d, k>> \in switched =>
          /\ h.from < k /\ k <= h.read /\ messages'[k].kind = "rekey" /\ d \in messages'[k].to
    <3> SUFFICES ASSUME NEW k \in Nat, <<d, k>> \in switched
                 PROVE  /\ h.from < k /\ k <= h.read
                        /\ messages'[k].kind = "rekey" /\ d \in messages'[k].to
      OBVIOUS
    <3>1. g.from < k /\ k <= g.read /\ messages[k].kind = "rekey" /\ d \in messages[k].to
      BY <2>4
    <3>2. k \in 1 .. Len(messages)
      BY <2>2, <3>1, <1>1
    <3> QED BY <1>1, <2>1, <2>2, <2>3, <3>1, <3>2
  <2>6. CASE /\ h.cur = g.cur /\ h.prev = g.prev
             /\ \A k : <<d, k>> \in switched' <=> <<d, k>> \in switched
    BY <2>1, <2>2, <2>4, <2>5, <2>6 DEF Took
  <2>7. ASSUME NEW n \in 1 .. Len(messages), n = g.read + 1, h.cur = n, h.prev = g.cur,
               messages[n].kind = "rekey", d \in messages[n].to, h.read = n,
               switched' = switched \cup {<<d, n>>}
        PROVE  /\ \A k \in Nat : <<d, k>> \in switched' =>
                    /\ h.joined /\ h.from < k /\ k <= h.read
                    /\ messages'[k].kind = "rekey" /\ d \in messages'[k].to
               /\ h.first <= h.from
               /\ h.cur = h.first \/ <<d, h.cur>> \in switched'
               /\ h.prev = h.first \/ <<d, h.prev>> \in switched'
               /\ h.prev <= h.cur
               /\ \A k \in Nat : (k = h.first \/ <<d, k>> \in switched') =>
                    \/ k \in {h.cur, h.prev}
                    \/ k < h.prev /\ h.prev < h.cur
    <3>1. messages'[n] = messages[n] /\ h.from < n
      BY <1>1, <2>1, <2>2, <2>7
    <3>2. \A k \in Nat : <<d, k>> \in switched' =>
            /\ h.joined /\ h.from < k /\ k <= h.read
            /\ messages'[k].kind = "rekey" /\ d \in messages'[k].to
      BY <2>1, <2>5, <2>7, <3>1
    <3>3. ASSUME NEW k \in Nat, k = h.first \/ <<d, k>> \in switched'
          PROVE  \/ k \in {h.cur, h.prev}
                 \/ k < h.prev /\ h.prev < h.cur
      <4>1. CASE k = n
        BY <2>7, <4>1
      <4>2. CASE Took(d, k)
        <5>1. k \in {g.cur, g.prev} \/ k < g.prev
          BY <2>4, <4>2, Zenon
        <5>2. k = g.cur \/ k < g.cur
          <6>1. g.prev <= g.cur
            BY <2>4, Zenon
          <6> QED BY <2>2, <5>1, <6>1
        <5> QED BY <2>2, <2>7, <5>2
      <4> QED BY <2>1, <2>7, <3>3, <4>1, <4>2 DEF Took
    <3> QED BY <2>1, <2>2, <2>4, <2>7, <3>2, <3>3 DEF Took
  <2>8. \/ /\ h.cur = g.cur /\ h.prev = g.prev
           /\ \A k : <<d, k>> \in switched' <=> <<d, k>> \in switched
        \/ /\ g.read + 1 \in 1 .. Len(messages)
           /\ messages[g.read + 1].kind = "rekey" /\ d \in messages[g.read + 1].to
           /\ h.cur = g.read + 1 /\ h.prev = g.cur /\ h.read = g.read + 1
           /\ switched' = switched \cup {<<d, g.read + 1>>}
    BY <1>3, <2>1, KeyStep, Zenon
  <2> QED BY <1>3, <2>1, <2>6, <2>7, <2>8 DEF Took
<1> QED BY <1>2, <1>3

LEMMA Grows ==
  ASSUME TypeOK, FlightJoined, [Next]_vars
  PROVE  /\ invites \subseteq invites' /\ late \subseteq late' /\ shown \subseteq shown'
         /\ skipped \subseteq skipped' /\ switched \subseteq switched'
         /\ \A u : Unbanned(u) => Unbanned(u)'
<1>1. invites \subseteq invites'
  BY StepPosts DEF InviteDeliver
<1>2. /\ late \subseteq late' /\ shown \subseteq shown'
      /\ skipped \subseteq skipped' /\ switched \subseteq switched'
  <2>1. ASSUME NEW d \in Devices, Turn(d)
        PROVE  /\ late \subseteq late' /\ shown \subseteq shown'
               /\ skipped \subseteq skipped' /\ switched \subseteq switched'
    <3>1. CASE RecvManage(d) \/ SkipManage(d)
      BY <3>1 DEF RecvManage, SkipManage
    <3>2. CASE RecvRekey(d)
      BY <3>2 DEF RecvRekey
    <3>3. CASE RecvMessage(d) \/ SkipMessage(d)
      BY <3>3 DEF RecvMessage, SkipMessage
    <3> QED BY <2>1, <3>1, <3>2, <3>3 DEF Turn
  <2>2. ASSUME NEW o \in flight, LoadPut(o) \/ LoadVersion(o)
        PROVE  late \subseteq late' /\ UNCHANGED <<shown, skipped, switched>>
    BY <2>2 DEF LoadPut, LoadVersion
  <2>3. ASSUME NEW d \in Devices, NEW i \in invites, Joins(d, i)
        PROVE  UNCHANGED <<shown, skipped, switched, late>>
    BY <2>3 DEF Joins
  <2> QED BY <2>1, <2>2, <2>3, StepKinds
<1>3. ASSUME NEW u, Unbanned(u)
      PROVE  Unbanned(u)'
  <2>1. PICK m \in 1 .. Len(manage) : manage[m].kind = "unban" /\ manage[m].about = u
    BY <1>3 DEF Unbanned
  <2>2. m \in 1 .. Len(manage') /\ manage'[m] = manage[m]
    BY MailboxStep DEF Kept, TypeOK
  <2> QED BY <2>1, <2>2 DEF Unbanned
<1> QED BY <1>1, <1>2, <1>3

LEMMA FirstInvitedStep ==
  ASSUME TypeOK, FlightJoined, FirstInvited, [Next]_vars
  PROVE  FirstInvited'
<1> SUFFICES ASSUME NEW d \in Devices, group'[d].joined
             PROVE  group'[d].first = 0
                      \/ \E i \in invites' : i.to = UserOf[d] /\ i.key = group'[d].first
  BY DEF FirstInvited, Joined
<1>1. CASE Joined(d)
  BY <1>1, RowKept, Grows DEF FirstInvited
<1>2. CASE ~Joined(d)
  <2>1. PICK i \in invites : Joins(d, i) /\ group'[d] = NewGroup(i.key, i.at)
    BY <1>2, JoinsKept DEF Same, Joined
  <2> QED BY <2>1, Grows DEF Joins, NewGroup
<1> QED BY <1>1, <1>2

(* A ban is lifted on a device by an unban of an admin, or by a late load. *)
LEMMA BansKept ==
  ASSUME TypeOK, FlightJoined, VersionZero, [Next]_vars, NEW d \in Devices, Joined(d),
         NEW u \in Banned(group[d].roster), u \notin Banned(group'[d].roster)
  PROVE  \/ u = InitAdmin /\ d \in late'
         \/ \E s \in ActiveAdmins(group[d].roster) :
              /\ group'[d].managed = group[d].managed + 1
              /\ group'[d].managed \in 1 .. Len(manage)
              /\ manage[group'[d].managed] = [sender |-> s, kind |-> "unban", about |-> u]
<1>1. PICK g \in GroupRecord, h \in GroupRecord : g = group[d] /\ h = group'[d]
  BY RowKept
<1>2. u \in Users /\ g.roster[u].status = "banned" /\ g.roster \in Rosters
  BY <1>1 DEF Banned, GroupRecord
<1>3. g.version # 0
  BY <1>1, FirstRosterIs DEF VersionZero
<1>4. Loaded(g) = g
  BY <1>3, LoadedIs
<1>5. CASE h.roster = g.roster
  BY <1>1, <1>5
<1>6. CASE /\ h.roster = Put(g.roster, InitAdmin, TRUE, "accepted")
           /\ d \in late'
  <2>1. CASE u = InitAdmin
    BY <1>6, <2>1
  <2>2. CASE u # InitAdmin
    <3>1. h.roster[u] = g.roster[u]
      BY <1>2, <1>6, <2>2 DEF Put, Rosters
    <3> QED BY <1>1, <1>2, <3>1 DEF Banned
  <2> QED BY <2>1, <2>2
<1>7. CASE /\ h.managed = g.managed + 1 /\ g.managed + 1 \in 1 .. Len(manage)
           /\ h.roster = Apply(g.roster, manage[g.managed + 1])
  <2>1. PICK m \in ManageMsg : m = manage[g.managed + 1]
    BY <1>7, ManageIs
  <2>2. m.kind = "unban" /\ m.about = u /\ m.sender \in ActiveAdmins(g.roster)
    BY <1>1, <1>2, <1>7, <2>1, ApplyKeepsBans
  <2>3. m = [sender |-> m.sender, kind |-> "unban", about |-> u]
    BY <2>2 DEF ManageMsg
  <2> QED BY <1>1, <1>7, <2>1, <2>2, <2>3
<1>8. \/ h.roster = g.roster
      \/ h.roster = Put(g.roster, InitAdmin, TRUE, "accepted") /\ d \in late'
      \/ /\ h.managed = g.managed + 1 /\ g.managed + 1 \in 1 .. Len(manage)
         /\ h.roster = Apply(g.roster, manage[g.managed + 1])
  BY <1>1, <1>3, <1>4, RosterStep, Zenon
<1> QED BY <1>5, <1>6, <1>7, <1>8

LEMMA RekeysExcludeStep ==
  ASSUME TypeOK, FlightJoined, VersionZero, RekeysExclude, [Next]_vars
  PROVE  RekeysExclude'
<1>1. ASSUME NEW o \in flight', o.task \in {"rekey", "rekeyed"}, NEW u \in o.out,
             ~Unbanned(u)', ~(u = InitAdmin /\ o.dev \in late')
      PROVE  IF o.task = "rekey" THEN u \in Banned(group'[o.dev].roster) ELSE LeftOut(u, o.to)
  <2>1. ~Unbanned(u) /\ ~(u = InitAdmin /\ o.dev \in late)
    BY <1>1, Grows
  <2>2. CASE o \in flight
    <3>1. IF o.task = "rekey" THEN u \in Banned(group[o.dev].roster) ELSE LeftOut(u, o.to)
      BY <1>1, <2>1, <2>2 DEF RekeysExclude
    <3>2. CASE o.task = "rekey"
      <4>1. PICK d \in Devices : d = o.dev /\ Joined(d)
        BY <1>1, <2>2, FlightIs DEF FlightJoined
      <4>2. u \in Banned(group[d].roster)
        BY <3>1, <3>2, <4>1
      <4>3. ASSUME u \notin Banned(group'[d].roster)
            PROVE  FALSE
        <5>1. PICK s : /\ group'[d].managed \in 1 .. Len(manage)
                       /\ manage[group'[d].managed] = [sender |-> s, kind |-> "unban", about |-> u]
          <6>1. ~(u = InitAdmin /\ d \in late')
            BY <1>1, <4>1
          <6>2. \/ u = InitAdmin /\ d \in late'
                \/ \E s \in ActiveAdmins(group[d].roster) :
                     /\ group'[d].managed = group[d].managed + 1
                     /\ group'[d].managed \in 1 .. Len(manage)
                     /\ manage[group'[d].managed] = [sender |-> s, kind |-> "unban", about |-> u]
            <7>1. Joined(d)
              BY <4>1
            <7> QED BY <7>1, <4>2, <4>3, BansKept
          <6> QED BY <6>1, <6>2
        <5> QED BY <2>1, <5>1 DEF Unbanned
      <4> QED BY <3>2, <4>1, <4>3
    <3> QED BY <1>1, <3>1, <3>2
  <2>3. CASE o \notin flight
    <3>1. ASSUME NEW d \in Devices, RekeyCheck(d),
                 o = [task |-> "rekey", dev |-> d, out |-> Banned(group[d].roster)]
          PROVE  o.task = "rekey" /\ u \in Banned(group'[o.dev].roster)
      <4>1. group' = group
        BY <3>1 DEF RekeyCheck
      <4> QED BY <1>1, <3>1, <4>1
    <3>2. ASSUME NEW p \in flight, RekeyCollect(p),
                 o = [task |-> "rekeyed", dev |-> p.dev, out |-> p.out,
                      to |-> Recipients(group[p.dev].roster)]
          PROVE  o.task = "rekeyed" /\ LeftOut(u, o.to)
      <4>1. p.task = "rekey" /\ u \in p.out /\ o.dev = p.dev
        BY <1>1, <3>2 DEF RekeyCollect
      <4>2. u \in Banned(group[p.dev].roster)
        BY <2>1, <4>1 DEF RekeysExclude
      <4>3. LeftOut(u, Recipients(group[p.dev].roster))
        BY <4>2 DEF LeftOut, Recipients, Active, IsActive, Banned
      <4> QED BY <3>2, <4>3
    <3>3. ASSUME NEW p \in flight, InvitePost(p), o = [p EXCEPT !.task = "invited"]
          PROVE  FALSE
      <4>1. p \in [task : {"invite", "invited"}, dev : Devices, to : Users, key : Key]
        BY <3>3 DEF InvitePost, TypeOK, Flight
      <4> QED BY <1>1, <3>3, <4>1
    <3>4. ASSUME NEW p \in flight, LoadPut(p), o = [p EXCEPT !.task = "loaded"]
          PROVE  FALSE
      <4>1. p \in [task : {"accept", "load", "loaded"}, dev : Devices]
        BY <3>4 DEF LoadPut, TypeOK, Flight
      <4> QED BY <1>1, <3>4, <4>1
    <3> QED BY <1>1, <2>3, <3>1, <3>2, <3>3, <3>4, StepFlight
  <2> QED BY <2>2, <2>3
<1>2. ASSUME NEW n \in 1 .. Len(messages'), messages'[n].kind = "rekey", NEW u \in messages'[n].out,
             ~Unbanned(u)', ~(u = InitAdmin /\ \E e \in late' : UserOf[e] = messages'[n].sender)
      PROVE  LeftOut(u, messages'[n].to)
  <2>1. /\ Len(messages) \in Nat /\ Len(messages') \in Nat /\ Len(messages) <= Len(messages')
        /\ \A i \in 1 .. Len(messages) : messages'[i] = messages[i]
    BY MailboxStep DEF Kept, TypeOK
  <2>2. ~Unbanned(u) /\ ~(u = InitAdmin /\ \E e \in late : UserOf[e] = messages'[n].sender)
    BY <1>2, Grows
  <2>3. CASE n \in 1 .. Len(messages)
    BY <1>2, <2>1, <2>2, <2>3 DEF RekeysExclude
  <2>4. CASE n \notin 1 .. Len(messages)
    <3>1. PICK o \in flight : SendPost(o) \/ RekeyPost(o)
      BY <2>1, <2>4, StepPosts
    <3>2. PICK e : messages' = Append(messages, e)
            /\ (e.kind = "rekey" => /\ o.task = "rekeyed" /\ e.out = o.out /\ e.to = o.to
                                    /\ e.sender = UserOf[o.dev])
      BY <3>1 DEF SendPost, RekeyPost, PostMessage
    <3>3. n = Len(messages) + 1 /\ messages'[n] = e
      BY <2>1, <2>4, <3>2, KeptIs DEF TypeOK
    <3>4. /\ o.task = "rekeyed" /\ u \in o.out /\ messages'[n].to = o.to
          /\ messages'[n].sender = UserOf[o.dev]
      BY <1>2, <3>2, <3>3
    <3>5. ~(u = InitAdmin /\ o.dev \in late)
      BY <2>2, <3>4
    <3> QED BY <2>2, <3>4, <3>5 DEF RekeysExclude
  <2> QED BY <2>3, <2>4
<1> QED BY <1>1, <1>2 DEF RekeysExclude, Unbanned, LeftOut

LEMMA TwoElements ==
  ASSUME NEW a \in Nat, NEW b \in Nat, NEW S \in SUBSET (a .. b), NEW x \in S, NEW y \in S, x # y
  PROVE  Cardinality(S) >= 2
<1>1. IsFiniteSet(S)
  <2>1. IsFiniteSet(a .. b)
    BY FS_Interval
  <2> QED BY <2>1, FS_Subset
<1>2. IsFiniteSet({x}) /\ Cardinality({x}) = 1
  BY FS_Singleton
<1>3. IsFiniteSet({x} \cup {y}) /\ Cardinality({x} \cup {y}) = 2
  BY <1>2, FS_AddElement
<1>4. Cardinality({x} \cup {y}) <= Cardinality(S)
  BY <1>1, FS_Subset
<1>5. Cardinality(S) \in Nat
  BY <1>1, FS_CardinalityType
<1> QED BY <1>3, <1>4, <1>5

LEMMA LostStep ==
  ASSUME TypeOK, FlightJoined, CursorsBounded, KeysBounded, KeyChain, LostOnlyIfOvertaken,
         [Next]_vars
  PROVE  LostOnlyIfOvertaken'
<1> SUFFICES ASSUME NEW d \in Devices, group'[d].joined,
                    NEW n \in group'[d].from + 1 .. group'[d].read,
                    messages'[n].kind = "message", <<d, n>> \notin shown',
                    n \notin SkippedBy(d, "messages")'
             PROVE  \/ /\ messages'[n].key # group'[d].first
                       /\ <<d, messages'[n].key>> \notin switched'
                    \/ Cardinality({j \in messages'[n].key + 1 .. n - 1 :
                                      messages'[j].kind = "rekey"}) >= 2
  BY DEF LostOnlyIfOvertaken, Joined
<1>1. /\ Len(messages) \in Nat /\ Len(messages') \in Nat /\ Len(messages) <= Len(messages')
      /\ Len(manage) \in Nat /\ Len(manage') \in Nat /\ Len(manage) <= Len(manage')
      /\ \A i \in 1 .. Len(messages) : messages'[i] = messages[i]
  BY MailboxStep DEF Kept, TypeOK
<1>2. Joined(d)
  <2> SUFFICES ASSUME ~Joined(d) PROVE FALSE
    OBVIOUS
  <2>1. PICK i : group'[d] = NewGroup(i.key, i.at) /\ i.at \in Nat
    BY JoinsKept DEF Same, Joined
  <2>2. group'[d].from = i.at /\ group'[d].read = i.at
    BY <2>1 DEF NewGroup
  <2> QED BY <2>1, <2>2
<1>3. PICK g \in GroupRecord, h \in GroupRecord :
        g = group[d] /\ h = group'[d] /\ h.first = g.first /\ h.from = g.from
  BY <1>2, RowKept
<1>4. /\ g.cur \in Nat /\ g.prev \in Nat /\ g.read \in Nat /\ g.first \in Nat /\ g.from \in Nat
      /\ g.cur <= g.read /\ g.prev <= g.read /\ g.first <= g.from /\ g.from <= g.read
      /\ g.read <= Len(messages) /\ h.read \in Nat
  BY <1>2, <1>3, KeysHeld DEF GroupRecord
<1>5. h.read = g.read \/ h.read = g.read + 1
  BY <1>2, <1>3, CursorStep, Zenon DEF Same
<1>6. h.read = g.read + 1 => h.read \in 1 .. Len(messages)
  <2>1. h.read = g.read + 1 => h.read = g.read \/ g.read + 1 \in 1 .. Len(messages)
    BY <1>2, <1>3, CursorStep, Zenon DEF Same
  <2> QED BY <1>4, <2>1
<1>7. n \in 1 .. Len(messages) /\ n \in Nat
  BY <1>3, <1>4, <1>5, <1>6
<1>8. PICK key \in Nat : key = messages[n].key /\ messages'[n].key = key /\ key < n
  BY <1>1, <1>7, MessageIs DEF KeysBounded
<1>9. {j \in key + 1 .. n - 1 : messages'[j].kind = "rekey"}
        = {j \in key + 1 .. n - 1 : messages[j].kind = "rekey"}
  <2>1. \A j \in key + 1 .. n - 1 : messages'[j] = messages[j]
    BY <1>1, <1>7, <1>8
  <2> QED BY <2>1
<1>10. CASE n <= g.read
  <2>1. <<d, n>> \notin shown /\ messages[n].kind = "message"
    BY <1>1, <1>7, Grows
  <2>2. n \notin SkippedBy(d, "messages")
    <3>1. n \in 1 .. Len(manage') + Len(messages')
      BY <1>1, <1>7
    <3>2. <<d, "messages", n>> \notin skipped'
      BY <3>1 DEF SkippedBy
    <3> QED BY <3>2, Grows DEF SkippedBy
  <2>3. n \in g.from + 1 .. g.read
    BY <1>3, <1>4, <1>7, <1>10
  <2>4. \/ key # g.first /\ <<d, key>> \notin switched
        \/ Cardinality({j \in key + 1 .. n - 1 : messages[j].kind = "rekey"}) >= 2
    BY <1>2, <1>3, <1>8, <2>1, <2>2, <2>3 DEF LostOnlyIfOvertaken
  <2>5. <<d, key>> \in switched' => <<d, key>> \in switched
    <3>1. \/ \A k : <<d, k>> \in switched' <=> <<d, k>> \in switched
          \/ switched' = switched \cup {<<d, g.read + 1>>}
      BY <1>2, <1>3, KeyStep, Zenon
    <3>2. key # g.read + 1
      BY <1>4, <1>7, <1>8, <1>10
    <3> QED BY <3>1, <3>2
  <2> QED BY <1>3, <1>8, <1>9, <2>4, <2>5
<1>11. CASE n = g.read + 1
  <2>1. RecvMessage(d) \/ SkipMessage(d)
    <3>1. ~(h.read = g.read)
      BY <1>3, <1>4, <1>7, <1>11
    <3>2. messages[g.read + 1].kind # "rekey"
      BY <1>1, <1>7, <1>11
    <3> QED BY <1>2, <1>3, <3>1, <3>2, CursorStep, Zenon DEF Same
  <2>2. ~SkipMessage(d)
    <3> SUFFICES ASSUME SkipMessage(d) PROVE FALSE
      OBVIOUS
    <3>1. <<d, "messages", n>> \in skipped'
      BY <1>3, <1>11 DEF SkipMessage
    <3>2. n \in 1 .. Len(manage') + Len(messages')
      BY <1>1, <1>7
    <3> QED BY <3>1, <3>2 DEF SkippedBy
  <2>3. key \notin {g.cur, g.prev} /\ switched' = switched
    BY <1>3, <1>8, <1>11, <2>1, <2>2 DEF RecvMessage
  <2>4. CASE ~Took(d, key)
    BY <1>3, <1>8, <2>3, <2>4 DEF Took
  <2>5. CASE Took(d, key)
    <3>1. key < g.prev /\ g.prev < g.cur /\ Took(d, g.prev) /\ Took(d, g.cur)
      BY <1>2, <1>3, <2>3, <2>5 DEF KeyChain
    <3>2. g.first <= key
      <4>1. <<d, key>> \in switched => g.from < key
        BY <1>3 DEF KeyChain
      <4> QED BY <1>3, <1>4, <2>5, <4>1 DEF Took
    <3>3. <<d, g.prev>> \in switched /\ <<d, g.cur>> \in switched
      BY <1>3, <1>4, <3>1, <3>2 DEF Took
    <3>4. messages[g.prev].kind = "rekey" /\ messages[g.cur].kind = "rekey"
      BY <1>3, <1>4, <3>3 DEF KeyChain
    <3>5. PICK S : S = {j \in key + 1 .. n - 1 : messages[j].kind = "rekey"}
      OBVIOUS
    <3>6. g.prev \in S /\ g.cur \in S
      BY <1>4, <1>11, <3>1, <3>4, <3>5, SMTT(60)
    <3>7. S \in SUBSET (key + 1 .. n - 1) /\ key + 1 \in Nat /\ n - 1 \in Nat /\ g.prev # g.cur
      BY <1>4, <1>7, <3>1, <3>5
    <3>8. Cardinality(S) >= 2
      BY <3>6, <3>7, TwoElements
    <3> QED BY <1>8, <1>9, <3>5, <3>8
  <2> QED BY <2>4, <2>5
<1> QED BY <1>3, <1>4, <1>5, <1>7, <1>10, <1>11
-----------------------------------------------------------------------------
Inv ==
  /\ TypeOK /\ CursorsBounded /\ FlightJoined /\ VersionZero /\ ReplayHolds
  /\ KeysBounded /\ KeyChain /\ FirstInvited /\ RekeysExclude /\ LostOnlyIfOvertaken

LEMMA InitInv == Init => Inv
<1> SUFFICES ASSUME Init PROVE Inv
  OBVIOUS
<1>1. \A d \in Devices : group[d] = IF d = Creator THEN Loaded(NewGroup(0, 0)) ELSE NoGroup
  BY DEF Init
<1>2. PICK g \in GroupRecord : g = NewGroup(0, 0) /\ g = [joined |-> TRUE, roster |-> NoMembers,
        version |-> 0, cur |-> 0, prev |-> 0, first |-> 0, from |-> 0, managed |-> 0, read |-> 0]
  BY NewGroupIs DEF NewGroup
<1>3. PICK h \in GroupRecord : h = Loaded(NewGroup(0, 0))
  BY <1>2, LoadedIs
<1>4. /\ h.version # 0 /\ h.roster = FirstRoster /\ h.cur = 0 /\ h.prev = 0 /\ h.first = 0
      /\ h.from = 0 /\ h.managed = 0 /\ h.read = 0 /\ h.joined
  <2>1. g.version = 0 /\ g.roster = NoMembers /\ g.cur = 0 /\ g.prev = 0 /\ g.first = 0
          /\ g.from = 0 /\ g.managed = 0 /\ g.read = 0
    BY <1>2
  <2>2. h.version # 0 /\ h.roster = FirstRoster
    BY <1>2, <1>3, <2>1, LoadedIs, FirstRosterIs
  <2>3. /\ h.cur = 0 /\ h.prev = 0 /\ h.first = 0
        /\ h.from = 0 /\ h.managed = 0 /\ h.read = 0
    <3>1. h = Loaded(g)
      BY <1>2, <1>3
    <3>2. /\ Loaded(g).cur = g.cur /\ Loaded(g).prev = g.prev /\ Loaded(g).first = g.first
          /\ Loaded(g).from = g.from /\ Loaded(g).managed = g.managed /\ Loaded(g).read = g.read
      BY LoadedIs
    <3> QED BY <2>1, <3>1, <3>2
  <2> QED BY <2>2, <2>3 DEF GroupRecord
<1>5. \A d \in Devices : group[d] = IF d = Creator THEN h ELSE NoGroup
  BY <1>1, <1>3
<1>6. \A d \in Devices : Joined(d) => group[d] = h
  BY <1>5 DEF Joined, NoGroup
<1>7. manage = <<>> /\ messages = <<>> /\ Len(manage) = 0 /\ Len(messages) = 0
        /\ invites = {} /\ flight = {} /\ skipped = {} /\ switched = {}
  BY DEF Init
<1>8. TypeOK
  <2>1. group \in [Devices -> {NoGroup} \cup GroupRecord]
    BY <1>3, <1>5 DEF Init
  <2> QED BY <1>7, <2>1 DEF Init, TypeOK
<1>9. CursorsBounded /\ FlightJoined /\ VersionZero
  BY <1>4, <1>6, <1>7 DEF CursorsBounded, FlightJoined, VersionZero
<1>10. ReplayHolds
  <2> SUFFICES ASSUME NEW d \in Devices, Joined(d)
               PROVE  Loaded(group[d]).roster
                        = Replay(manage, group[d].managed, SkippedBy(d, "manage"))
    BY DEF ReplayHolds
  <2>1. Loaded(h).roster = FirstRoster
    BY <1>4, LoadedRoster
  <2>2. Replay(manage, 0, SkippedBy(d, "manage")) = FirstRoster
    BY ReplayStep
  <2> QED BY <1>4, <1>6, <2>1, <2>2
<1>11. KeysBounded /\ RekeysExclude
  BY <1>7 DEF KeysBounded, RekeysExclude
<1>12. KeyChain /\ FirstInvited
  BY <1>4, <1>6, <1>7 DEF KeyChain, FirstInvited, Took
<1>13. LostOnlyIfOvertaken
  <2>1. \A d \in Devices : Joined(d) => group[d].from + 1 .. group[d].read = {}
    BY <1>4, <1>6
  <2> QED BY <2>1 DEF LostOnlyIfOvertaken
<1> QED BY <1>8, <1>9, <1>10, <1>11, <1>12, <1>13 DEF Inv

LEMMA NextInv == Inv /\ [Next]_vars => Inv'
<1> SUFFICES ASSUME Inv, [Next]_vars PROVE Inv'
  OBVIOUS
<1> USE DEF Inv
<1>1. TypeOK' /\ FlightJoined'
  BY TypeStep, FlightJoinedStep
<1>2. CursorsBounded' /\ VersionZero' /\ KeysBounded'
  BY CursorsBoundedStep, VersionZeroStep, KeysBoundedStep
<1>3. ReplayHolds'
  BY <1>1, ReplayHoldsStep
<1>4. KeyChain' /\ FirstInvited'
  BY KeyChainStep, FirstInvitedStep
<1>5. RekeysExclude' /\ LostOnlyIfOvertaken'
  BY RekeysExcludeStep, LostStep
<1> QED BY <1>1, <1>2, <1>3, <1>4, <1>5

THEOREM Invariance == Spec => []Inv
BY InitInv, NextInv, PTL DEF Spec

(* Of the code of group_recv_once and GroupRoster::load: a device's roster *)
(* is the replay of the management messages it processed, unless a load    *)
(* outside a transaction wrote late.                                       *)
THEOREM RosterIsReplayed == Spec => []RosterIsReplayOfProcessed
<1>1. Inv => RosterIsReplayOfProcessed
  BY DEF Inv, ReplayHolds, RosterIsReplayOfProcessed
<1> QED BY <1>1, Invariance, PTL

(* Of the two keys a group row keeps: a processed message goes unshown only*)
(* if its key was never taken or two rekeys overtook it.                   *)
THEOREM OneRekeyLosesNothing == Spec => []LostOnlyIfOvertaken
<1>1. Inv => LostOnlyIfOvertaken
  BY DEF Inv
<1> QED BY <1>1, Invariance, PTL

(* Of group_rekey_loop_once: who was banned when the rekey began neither   *)
(* gets its key by it nor takes it.                                        *)
THEOREM BannedAreLeftOut == Spec => []RekeyExcludesBanned
<1>1. ASSUME Inv, NEW n \in 1 .. Len(messages), messages[n].kind = "rekey",
             NEW u \in messages[n].out, NEW d \in Devices,
             UserOf[d] = u, Joined(d), d \in messages[n].to \/ n \in {group[d].cur, group[d].prev},
             ~Unbanned(u), ~(u = InitAdmin /\ \E e \in late : UserOf[e] = messages[n].sender)
      PROVE  \E i \in invites : i.to = u /\ i.key = n
  <2>1. LeftOut(u, messages[n].to)
    BY <1>1 DEF Inv, RekeysExclude
  <2>2. d \notin messages[n].to
    BY <1>1, <2>1 DEF LeftOut
  <2>3. Took(d, n)
    BY <1>1, <2>2 DEF Inv, KeyChain
  <2>4. <<d, n>> \notin switched
    BY <1>1, <2>2 DEF Inv, KeyChain
  <2>5. group[d].first = n /\ n # 0
    BY <2>3, <2>4 DEF Took
  <2> QED BY <1>1, <2>5 DEF Inv, FirstInvited
<1>2. Inv => RekeyExcludesBanned
  BY <1>1 DEF RekeyExcludesBanned, Unbanned
<1> QED BY <1>2, Invariance, PTL

(* Of apply_manage_message: a ban on a device's roster is lifted by an     *)
(* unban of someone who is an active admin there, and by nothing else but  *)
(* a late load of the initial admin.                                       *)
THEOREM BansStick == Spec => BanSticks
<1>1. ASSUME Inv, [Next]_vars, NEW d \in Devices, Joined(d),
             NEW u \in Banned(group[d].roster) \ Banned(group'[d].roster)
      PROVE  \/ u = InitAdmin /\ d \in late'
             \/ \E s \in ActiveAdmins(group[d].roster) :
                  /\ group'[d].managed = group[d].managed + 1
                  /\ manage[group'[d].managed] = [sender |-> s, kind |-> "unban", about |-> u]
  BY <1>1, BansKept DEF Inv
<1>2. Inv /\ [Next]_vars =>
        \A d \in Devices : Joined(d) =>
          \A u \in Banned(group[d].roster) \ Banned(group'[d].roster) :
            \/ u = InitAdmin /\ d \in late'
            \/ \E s \in ActiveAdmins(group[d].roster) :
                 /\ group'[d].managed = group[d].managed + 1
                 /\ manage[group'[d].managed] = [sender |-> s, kind |-> "unban", about |-> u]
  BY <1>1
<1> QED BY <1>2, Invariance, PTL DEF Spec, BanSticks

(* Of apply_manage_message and GroupRoster::load: without an active admin  *)
(* a roster stays without one.                                             *)
THEOREM NoAdminReturns == Spec => NoAdminIsForever
<1>1. ASSUME Inv, [Next]_vars, NEW d \in Devices \ late', Joined(d), group[d].version # 0,
             ActiveAdmins(group[d].roster) = {}
      PROVE  ActiveAdmins(group'[d].roster) = {}
  <2>1. PICK g \in GroupRecord, h \in GroupRecord : g = group[d] /\ h = group'[d]
    BY <1>1, RowKept DEF Inv
  <2>2. Loaded(g) = g
    BY <1>1, <2>1, LoadedIs
  <2>3. \/ h.roster = g.roster
        \/ /\ g.managed + 1 \in 1 .. Len(manage)
           /\ h.roster = Apply(g.roster, manage[g.managed + 1])
    BY <1>1, <2>1, <2>2, RosterStep, Zenon DEF Inv
  <2>4. CASE /\ g.managed + 1 \in 1 .. Len(manage)
             /\ h.roster = Apply(g.roster, manage[g.managed + 1])
    <3>1. PICK m \in ManageMsg : m = manage[g.managed + 1]
      BY <1>1, <2>4, ManageIs DEF Inv
    <3>2. g.roster \in Rosters
      BY DEF GroupRecord
    <3> QED BY <1>1, <2>1, <2>4, <3>1, <3>2, ApplyNoAdmin
  <2> QED BY <1>1, <2>1, <2>3, <2>4
<1>2. Inv /\ [Next]_vars =>
        \A d \in Devices \ late' :
          Joined(d) /\ group[d].version # 0 /\ ActiveAdmins(group[d].roster) = {}
            => ActiveAdmins(group'[d].roster) = {}
  BY <1>1
<1> QED BY <1>2, Invariance, PTL DEF Spec, NoAdminIsForever
=============================================================================
