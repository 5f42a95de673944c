----------------------------- MODULE MailboxAcl -----------------------------
(***************************************************************************)
(* The mailbox access-control lists of nullspace-server: one row per       *)
(* mailbox and auth-token hash (table mailbox_acl).  The rows of a mailbox *)
(* are a function from tokens to a set of rights, or to Absent where the   *)
(* table has no row.  Tokens stand for their hashes.                       *)
(***************************************************************************)
CONSTANTS
  Tokens,     (* the auth tokens clients may present                      *)
  Anonymous,  (* AuthToken::anonymous(), the well-known token             *)
  Absent      (* no row in mailbox_acl                                    *)

Rights == {"edit", "send", "recv"}

ASSUME AnonymousIsToken == Anonymous \in Tokens
ASSUME AbsentIsNoRow == \A row \in SUBSET Rights : Absent # row

Row == {Absent} \cup SUBSET Rights

(* No row for any token: a mailbox nobody has been given access to.        *)
NoRows == [t \in Tokens |-> Absent]

(* acl_for_token: the token's own row, else the anonymous row, else none.  *)
AclForToken(rows, t) ==
  IF rows[t] # Absent THEN rows[t]
  ELSE IF rows[Anonymous] # Absent THEN rows[Anonymous]
  ELSE {}

(* Fault variant: the right to edit is not compared.                       *)
AclIsSubset_NoEdit(candidate, holder) == candidate \ {"edit"} \subseteq holder

(* acl_is_subset *)
AclIsSubset(candidate, holder) == candidate \subseteq holder

(* acl_is_empty *)
AclIsEmpty(candidate) == candidate = {}

(* insert_acl: INSERT OR REPLACE *)
InsertAcl(rows, t, row) == [rows EXCEPT ![t] = row]

(* delete_acl *)
DeleteAcl(rows, t) == [rows EXCEPT ![t] = Absent]
=============================================================================
