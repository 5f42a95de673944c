--------------------------- MODULE DirectoryHistory -------------------------
(***************************************************************************)
(* The history of one directory key (nullspace-structs, directory.rs): a   *)
(* hash chain of updates, each signed by an owner at that point.           *)
(*                                                                         *)
(* An update is identified by its id, which stands for its hash; `prev` is *)
(* the hash it names as its predecessor's, `signer` the key that made its  *)
(* signature, and `owner` the key an "add" or "del" is about.              *)
(***************************************************************************)
EXTENDS Naturals, Sequences

CONSTANTS
  Updates,   (* the updates clients may submit                            *)
  Ids,       (* the hashes of updates                                     *)
  Pks,       (* signing public keys                                       *)
  ZeroHash   (* the all-zero hash                                         *)

Update ==
  [id : Ids, prev : Ids \cup {ZeroHash}, kind : {"add", "del", "update"},
   owner : Pks, signer : Pks]

ASSUME UpdatesType == Updates \subseteq Update
ASSUME ZeroHashIsNoUpdate == ZeroHash \notin Ids

(* The owners after each prefix of a history.                              *)
OwnersAfter(h) ==
  LET owners[i \in 0 .. Len(h)] ==
        IF i = 0 THEN {}
        ELSE CASE h[i].kind = "add" -> owners[i - 1] \cup {h[i].owner}
               [] h[i].kind = "del" -> owners[i - 1] \ {h[i].owner}
               [] OTHER -> owners[i - 1]
  IN  owners

PrevHash(h, i) == IF i = 1 THEN ZeroHash ELSE h[i - 1].id

(* Without owners only an AddOwner signed by the very key it adds; with    *)
(* owners, anything signed by one of them.                                 *)
Authorised(h, i) ==
  LET owners == OwnersAfter(h)[i - 1]
  IN  IF owners = {} THEN h[i].kind = "add" /\ h[i].signer = h[i].owner
      ELSE h[i].signer \in owners

(* verify_history *)
VerifyHistory(h) ==
  \A i \in 1 .. Len(h) : h[i].prev = PrevHash(h, i) /\ Authorised(h, i)
=============================================================================
