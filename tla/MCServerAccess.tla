--------------------------- MODULE MCServerAccess ---------------------------
(* ServerAccess for TLC: two devices of one user, and one group.           *)
EXTENDS ServerAccess

CONSTANTS anon, t1, t2, t3, d1, d2, u1, g1

MCTokens == {anon, t1, t2, t3}
MCUserOf == [d \in {d1, d2} |-> u1]

DmEdits ==
  [caller : {t1}, mailbox : {Direct(u1)}, target : {t1, t3}, row : {{}, {"send", "recv"}}]
    \cup [caller : {t2}, mailbox : {Direct(u1)}, target : {t3}, row : {{"send"}, Rights}]
AnonymousEdits ==
  [caller : {anon}, mailbox : {Direct(u1)}, target : {anon}, row : {{}}]
    \cup [caller : {t1}, mailbox : {Direct(u1)}, target : {anon}, row : {{"send", "recv"}}]
GroupEdits ==
  [caller : {t1}, mailbox : {<<"messages", g1>>}, target : {t1, t3}, row : {{}, {"send"}}]
    \cup [caller : {t3}, mailbox : {<<"messages", g1>>}, target : {t2}, row : {{"send"}, Rights}]
MCEditArgs == DmEdits \cup AnonymousEdits \cup GroupEdits
=============================================================================
