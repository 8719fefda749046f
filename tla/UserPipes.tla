----------------------------- MODULE UserPipes -----------------------------
(***************************************************************************)
(* What user pipes promise: "command >n" leaves its output for user n      *)
(* unless there already is some from the same user, "command <n" takes     *)
(* what user n has left, and a pipe is gone when either of its users       *)
(* leaves. Both are announced to everybody.                                *)
(***************************************************************************)
EXTENDS Naturals

CONSTANT Ids

VARIABLES
    present,    \* the ids of the users that are logged in
    pipes,      \* <<i, j>>: user i has left something for user j
    said        \* what the last line announced: received and piped

vars == <<present, pipes, said>>

Nothing == [received |-> {}, piped |-> {}]

Init == present = {} /\ pipes = {} /\ said = Nothing

\* A user finds no pipe that was meant for another one.
Login(i) ==
    /\ present' = present \cup {i}
    /\ pipes' = {p \in pipes : p[2] # i}
    /\ said' = Nothing

Leave(i) ==
    /\ present' = present \ {i}
    /\ pipes' = {p \in pipes : i \notin {p[1], p[2]}}
    /\ said' = Nothing

\* A line of user i with "<in" and ">out", 0 when it has none. The pipe that is
\* read is gone before the one that is written is looked for. A user that reads
\* its own pipe and fills it again is not told about the second half.
Line(i, in, out) ==
    LET read == {<<in, i>>} \cap pipes
        made == {<<i, out>> : n \in {out} \cap present} \ (pipes \ read)
    IN  /\ pipes' = (pipes \ read) \cup made
        /\ said' = [received |-> read, piped |-> made \ read]
        /\ UNCHANGED present

\* Anything else.
Idle == said' = Nothing /\ UNCHANGED <<present, pipes>>

Next ==
    \/ Idle
    \/ \E i \in Ids : Login(i) \/ Leave(i)
    \/ \E i \in present, in, out \in Ids \cup {0} : Line(i, in, out)

Spec == Init /\ [][Next]_vars
=============================================================================
