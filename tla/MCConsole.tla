----------------------------- MODULE MCConsole -----------------------------
(* Small instances of Console. *)
EXTENDS Console

\* Two commands, the exit, and a line behind it.
MCScript == <<"cmd", "cmd", "exit", "cmd">>
=============================================================================
