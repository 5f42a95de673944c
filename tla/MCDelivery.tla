----------------------------- MODULE MCDelivery -----------------------------
(* Delivery for TLC: a and b with a device each; a writes to b and to      *)
(* itself, b to a.                                                         *)
EXTENDS Delivery, TLC

CONSTANTS a, b, da, db

MCUserOf == (da :> a) @@ (db :> b)
MCSends == {<<da, b>>, <<db, a>>, <<da, a>>}
=============================================================================
