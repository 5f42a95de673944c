------------------------------- MODULE Roster -------------------------------
(***************************************************************************)
(* The roster of a group (nullspace-client, convo/roster.rs): a table of   *)
(* members, derived by applying management messages one at a time.         *)
(***************************************************************************)
EXTENDS Naturals, Sequences

CONSTANTS
  Users,      (* user names                                               *)
  InitAdmin   (* GroupDescriptor::init_admin                              *)

ASSUME InitAdminIsUser == InitAdmin \in Users

Statuses == {"none", "pending", "accepted", "banned"}

(* "none" stands for no row.                                               *)
Member == [admin : BOOLEAN, status : Statuses]
Rosters == [Users -> Member]

(* GroupManageMsg; `about` is the user named by it, or its sender where it *)
(* names none.                                                             *)
Kinds == {"invite_sent", "invite_accepted", "leave", "ban", "unban", "add_admin", "remove_admin"}
ManageMsg == [sender : Users, kind : Kinds, about : Users]

NoMembers == [u \in Users |-> [admin |-> FALSE, status |-> "none"]]

Put(r, u, admin, status) == [r EXCEPT ![u] = [admin |-> admin, status |-> status]]

(* RosterMember::is_active *)
IsActive(member) == member.status \in {"pending", "accepted"}

Active(r) == {u \in Users : IsActive(r[u])}
ActiveAdmins(r) == {u \in Active(r) : r[u].admin}
Banned(r) == {u \in Users : r[u].status = "banned"}

-----------------------------------------------------------------------------
(* The effect of each kind of message; a message without the authority it  *)
(* needs, or about a member in the wrong state, has none.                  *)
InviteSent(r, m) ==
  IF m.sender \in Active(r) /\ r[m.about].status = "none"
    THEN Put(r, m.about, FALSE, "pending") ELSE r

(* Fault variant: whoever accepts is a member.                             *)
InviteAccepted_Always(r, m) == Put(r, m.sender, FALSE, "accepted")

InviteAccepted(r, m) ==
  IF r[m.sender].status # "banned" THEN Put(r, m.sender, FALSE, "accepted") ELSE r

Leave(r, m) ==
  IF r[m.sender].status # "banned" THEN Put(r, m.sender, FALSE, "none") ELSE r

Ban(r, m) ==
  IF m.sender \in ActiveAdmins(r) THEN Put(r, m.about, FALSE, "banned") ELSE r

Unban(r, m) ==
  IF m.sender \in ActiveAdmins(r) /\ m.about \in Banned(r)
    THEN Put(r, m.about, FALSE, "pending") ELSE r

SetAdmin(r, m, admin) ==
  IF m.sender \in ActiveAdmins(r) /\ m.about \in Active(r)
    THEN Put(r, m.about, admin, r[m.about].status) ELSE r

(* apply_manage_message *)
Apply(r, m) ==
  CASE m.kind = "invite_sent" -> InviteSent(r, m)
    [] m.kind = "invite_accepted" -> InviteAccepted(r, m)
    [] m.kind = "leave" -> Leave(r, m)
    [] m.kind = "ban" -> Ban(r, m)
    [] m.kind = "unban" -> Unban(r, m)
    [] m.kind = "add_admin" -> SetAdmin(r, m, TRUE)
    [] m.kind = "remove_admin" -> SetAdmin(r, m, FALSE)

(* Where the replay starts.                                                *)
FirstRoster == Put(NoMembers, InitAdmin, TRUE, "accepted")

-----------------------------------------------------------------------------
(* Reference: the roster after the first n messages of a log, without      *)
(* those at the positions skipped.                                         *)
Replay(log, n, skipped) ==
  LET after[i \in 0 .. n] ==
        IF i = 0 THEN FirstRoster
        ELSE IF i \in skipped THEN after[i - 1]
        ELSE Apply(after[i - 1], log[i])
  IN  after[n]
=============================================================================
