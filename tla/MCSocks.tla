------------------------------ MODULE MCSocks ------------------------------
(* Small instances of Socks. *)
EXTENDS Socks

\* One octet is the beginning of another one.
MCOctets == {<<"1">>, <<"1", "2">>, <<"2">>}
=============================================================================
