------------------------------- MODULE MCGroup ------------------------------
(* Group for TLC: a creates the group, b is invited, both with one device. *)
(* "roster" has bans, unbans, leaving and admin changes of both users, and *)
(* no messages; "keys" has a ban, rekeys and messages; "skips" has them    *)
(* with an entry that fails to process, and one task at a time; "late" has *)
(* a rekey by b around a roster load that overtakes a ban of a.            *)
EXTENDS Group, TLC

CONSTANTS a, b, da, db

MCUserOf == (da :> a) @@ (db :> b)

Says(sender, kind, about) == [sender |-> sender, kind |-> kind, about |-> about]

Each(roster, keys, skips, lates) ==
  ("roster" :> roster) @@ ("keys" :> keys) @@ ("skips" :> skips) @@ ("late" :> lates)

Skips(manageSkips, messageSkips) == [manage |-> manageSkips, messages |-> messageSkips]

BanB == Says(a, "ban", b)
RosterPosts ==
  {BanB, Says(a, "unban", b), Says(a, "add_admin", b), Says(a, "leave", a), Says(b, "ban", a)}

LatePosts == {Says(a, "add_admin", b), Says(b, "ban", a)}

MCWorkloads == {"roster", "keys", "skips", "late"}
MCInviteArgs == Each({<<da, b>>, <<db, a>>}, {<<da, b>>}, {<<da, b>>}, {<<da, b>>})
MCPosts == Each(RosterPosts, {BanB}, {BanB}, LatePosts)
MCLoaders == Each({db}, {}, {}, {db})
MCMaxManage == Each(4, 2, 2, 3)
MCMaxMessages == Each(0, 3, 3, 1)
MCMaxSkips == Each(Skips(1, 0), Skips(0, 0), Skips(0, 1), Skips(0, 0))
MCMaxFlight == Each(1, 2, 1, 2)

(* For the replay: the roster's workload without failures.                 *)
ReplayWorkload == {"roster"}
ReplayMaxManage == Each(3, 0, 0, 0)
ReplayMaxSkips == Each(Skips(0, 0), Skips(0, 0), Skips(0, 0), Skips(0, 0))
=============================================================================
