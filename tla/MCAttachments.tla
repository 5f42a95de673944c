---------------------------- MODULE MCAttachments ---------------------------
(* Attachments for TLC.  a has three leaves under two nodes and is this    *)
(* client's; b has one leaf, which its uploader keeps for a time and       *)
(* another client for ever.                                                *)
EXTENDS Attachments, TLC

CONSTANTS a, b, me, other

MCTotalSize == (a :> 5) @@ (b :> 1)
MCUploader == (a :> me) @@ (b :> other)
MCTtls == (a :> {0}) @@ (b :> {1})
MCFrags == Leaves[a] \cup Nodes[a] \cup Leaves[b]
MCOneShots == {<<b, "oneshot">>}
MCCalls == ({me} \X MCFrags) \cup ({other} \X Leaves[b])
MCRenewals == {me} \X Leaves[b] \X {0}
=============================================================================
