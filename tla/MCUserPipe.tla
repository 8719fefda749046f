----------------------------- MODULE MCUserPipe -----------------------------
(* Small instances of UserPipe: the lines the users type, by their ids. *)
EXTENDS UserPipe, TLC

Symmetry == Permutations(Proc)

\* User 1 pipes to user 2, who does not read; and user 2 reads and answers in
\* one line while user 1 may pipe to itself too.
SendOnly == {<<1, 0, 2>>}
AllWays == {<<1, 0, 2>>, <<2, 1, 1>>, <<1, 0, 1>>}
=============================================================================
