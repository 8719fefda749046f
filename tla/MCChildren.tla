----------------------------- MODULE MCChildren -----------------------------
(* Small instances of Children. *)
EXTENDS Children
=============================================================================
