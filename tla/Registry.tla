------------------------------ MODULE Registry ------------------------------
(***************************************************************************)
(* What the directory promises: an append-only ledger of registry states.  *)
(* Each published state extends the verified history of every key, and a   *)
(* replica follows the ledger from the start, one state at a time, never   *)
(* past its end.                                                           *)
(***************************************************************************)
EXTENDS DirectoryHistory

CONSTANT Keys

VARIABLES
  ledger,   (* the published states, oldest first                         *)
  seen      (* how many of them the replica has                           *)

RegistryState == [Keys -> Seq(Updates)]

NoUpdates == [k \in Keys |-> <<>>]

Latest(log) == IF log = <<>> THEN NoUpdates ELSE log[Len(log)]

IsExtension(new, old) == Len(old) <= Len(new) /\ SubSeq(new, 1, Len(old)) = old

Extends(new, old) ==
  \A k \in Keys : VerifyHistory(new[k]) /\ IsExtension(new[k], old[k])

RegistryInit == ledger = <<>> /\ seen = 0

Publish ==
  /\ ledger' \in Seq(RegistryState)
  /\ Len(ledger') = Len(ledger) + 1
  /\ IsExtension(ledger', ledger)
  /\ Extends(ledger'[Len(ledger')], Latest(ledger))
  /\ UNCHANGED seen

Follow ==
  /\ seen < Len(ledger)
  /\ seen' = seen + 1
  /\ UNCHANGED ledger

RegistryNext == Publish \/ Follow

RegistrySpec == RegistryInit /\ [][RegistryNext]_<<ledger, seen>>
=============================================================================
