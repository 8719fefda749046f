---------------------------- MODULE MCCrossPipe ----------------------------
(* Small instances of CrossPipe. *)
EXTENDS CrossPipe
=============================================================================
