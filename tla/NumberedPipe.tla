---------------------------- MODULE NumberedPipe ----------------------------
(***************************************************************************)
(* What numbered pipes promise to a user of the shell: the output of       *)
(* "command |k" on line n is the input of the command on line n + k,       *)
(* together with the output of every other line that was sent there.       *)
(* Lines are counted without the blank ones.                               *)
(***************************************************************************)
EXTENDS Naturals

CONSTANTS MaxLine, MaxCross

VARIABLES
    line,   \* the number of the last line
    due,    \* for each line the set of the lines whose output it will read
    got     \* the lines whose output the last command read

vars == <<line, due, got>>

Lines == 1..(MaxLine + MaxCross)

Init ==
    /\ line = 0
    /\ due = [n \in Lines |-> {}]
    /\ got = {}

\* Line n is read.
Read ==
    /\ line < MaxLine
    /\ line' = line + 1
    /\ UNCHANGED <<due, got>>

\* The line is a command; it reads what is due and, for k > 0, is sent on.
Command(k) ==
    /\ line > 0
    /\ got' = due[line]
    /\ due' = [n \in Lines |->
                  IF n = line THEN {}
                  ELSE IF k > 0 /\ n = line + k THEN due[n] \cup {line}
                  ELSE due[n]]
    /\ UNCHANGED line

\* The line is a builtin or fails: what is due is lost.
Discard ==
    /\ line > 0
    /\ due' = [due EXCEPT ![line] = {}]
    /\ UNCHANGED <<line, got>>

Next == Read \/ (\E k \in 0..MaxCross : Command(k)) \/ Discard

Spec == Init /\ [][Next]_vars
=============================================================================
