---------------------------- MODULE Conversation ----------------------------
(***************************************************************************)
(* What direct messaging promises.  A message is queued once and shown at  *)
(* once by the device that queued it; other devices of its two users may   *)
(* show it from then on; what is shown stays; and its sending ends once,   *)
(* in success or in failure.                                               *)
(***************************************************************************)
CONSTANTS
  Users, Devices, UserOf,
  Msgs       (* messages: each names its device `from` and its user `to`  *)

VARIABLES
  pending,   (* the messages that are being sent                          *)
  sent,      (* those whose sending succeeded                             *)
  failed,    (* those whose sending failed                                *)
  shown      (* the pairs of a device and a message it shows              *)

Audience(m) == {d \in Devices : UserOf[d] \in {UserOf[m.from], m.to}}

ConversationInit == pending = {} /\ sent = {} /\ failed = {} /\ shown = {}

Queued(m) ==
  /\ m \notin pending \cup sent \cup failed
  /\ pending' = pending \cup {m}
  /\ shown' = shown \cup {<<m.from, m>>}
  /\ UNCHANGED <<sent, failed>>

Settled(m) ==
  /\ m \in pending
  /\ pending' = pending \ {m}
  /\ \/ sent' = sent \cup {m} /\ UNCHANGED failed
     \/ failed' = failed \cup {m} /\ UNCHANGED sent
  /\ UNCHANGED shown

Shown(m) ==
  /\ m \in pending \cup sent \cup failed
  /\ \E d \in Audience(m) : shown' = shown \cup {<<d, m>>}
  /\ UNCHANGED <<pending, sent, failed>>

ConversationNext == \E m \in Msgs : Queued(m) \/ Settled(m) \/ Shown(m)

ConversationSpec == ConversationInit /\ [][ConversationNext]_<<pending, sent, failed, shown>>
=============================================================================
