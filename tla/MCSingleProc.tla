---------------------------- MODULE MCSingleProc ----------------------------
(* Small instances of SingleProc. *)
EXTENDS SingleProc

\* To and from every user, itself included, both ways in one line, and an id
\* that is too large.
MCPipeLines == {<<0, 1>>, <<0, 2>>, <<1, 0>>, <<2, 0>>, <<1, 1>>, <<2, 1>>, <<3, 3>>}
=============================================================================
