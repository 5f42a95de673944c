------------------------------ MODULE MCMailbox ------------------------------
(* Mailbox for TLC: one device that reads, two that send.                  *)
EXTENDS Mailbox

CONSTANTS r1, s1, s2, anon

MCTokens == {r1, s1, s2, anon}

(* The reader loses its right to read and gets it back.                    *)
MCAclEdits == {<<r1, {"send"}>>, <<r1, {"send", "recv"}>>}
=============================================================================
