----------------------------- MODULE MCDirectory ----------------------------
(* Directory for TLC.  Key k1 is claimed by o1, then its owner posts an    *)
(* update; k2 is claimed by o2.                                            *)
EXTENDS Directory

CONSTANTS k1, k2, o1, o2

Upd(id, prev, kind, owner, signer) ==
  [id |-> id, prev |-> prev, kind |-> kind, owner |-> owner, signer |-> signer]

Claim1 == Upd("claim1", ZeroHash, "add", o1, o1)
Update1 == Upd("update1", "claim1", "update", o1, o1)
Claim2 == Upd("claim2", ZeroHash, "add", o2, o2)

MCIds == {"claim1", "update1", "claim2"}
MCUpdates == {Claim1, Update1, Claim2}
MCInserts == {<<k1, Claim1>>, <<k1, Update1>>, <<k2, Claim2>>}
=============================================================================
