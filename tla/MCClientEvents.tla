----------------------------- MODULE MCClientEvents -------------------------
(* One message written and one that comes in; a page holds one row, so     *)
(* that a refresh can leave rows out.                                      *)
EXTENDS ClientEvents
=============================================================================
