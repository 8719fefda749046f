------------------------------ MODULE Children ------------------------------
(***************************************************************************)
(* The commands np_single_proc.c forks and the pipes between them. A       *)
(* command that reads a pipe goes on until nobody has the write end any    *)
(* more. A child gets a copy of every descriptor the server has: it closes *)
(* the numbered pipes of its own user, and not those of the others. The    *)
(* server waits for a command whose output goes to its user and serves     *)
(* nobody meanwhile.                                                       *)
(*                                                                         *)
(* Every user is logged in. Lines are numbered as the server reads them,   *)
(* and a pipe has the number of the line that made it. Numbered pipes are  *)
(* "|1": more of them add nothing here, as CrossPipe has their table. Every *)
(* command reads its input to the end; its output is "small" and fits in a *)
(* pipe, or is "big" and waits there for a reader.                         *)
(***************************************************************************)
EXTENDS Naturals, FiniteSets

CONSTANTS
    Users,      \* the ids of the users
    Sizes,      \* the sizes of outputs: a subset of {"small", "big"}
    MaxLine     \* bound on the number of lines

VARIABLES
    line,       \* the number of lines read
    cross,      \* the pipe that waits for the next line of a user, or 0
    user_pipe,  \* list[i].user_pipe[j]: the pipe from j to i, or 0
    commands,   \* the children
    waiting     \* the line the server waits for in waitpid, or 0

vars == <<line, cross, user_pipe, commands, waiting>>

Init ==
    /\ line = 0 /\ waiting = 0 /\ commands = {}
    /\ cross = [i \in Users |-> 0]
    /\ user_pipe = [i \in Users |-> [j \in Users |-> 0]]

-----------------------------------------------------------------------------

\* What a child of user i keeps of the numbered pipes: close_cross_pipe_fd and
\* connect_pipe_to_first_process close the ones in cp_infor of its own user.
Inherited(i) == {cross[k] : k \in Users \ {i}} \ {0}

\* The first command of a line reads the numbered pipe that is due or else the
\* user pipe "<in", its user if there is neither.
Input(i, in) ==
    IF cross[i] # 0 THEN cross[i]
    ELSE IF in # 0 THEN user_pipe[i][in] ELSE 0

\* single_cmd: "command <in", with ">out" or "|1" if cross_num; "<in" and ">out"
\* have existing users, or are 0. The pipe "<in" is closed when it was read.
single_cmd(i, in, out, cross_num, size) ==
    LET new == out # 0 /\ user_pipe[out][i] = 0
        makes == cross_num \/ new
    IN  /\ waiting = 0 /\ line < MaxLine
        /\ line' = line + 1
        /\ commands' = commands \cup
              {[line |-> line + 1, reads |-> Input(i, in),
                writes |-> IF makes THEN line + 1 ELSE 0,
                holds |-> Inherited(i), size |-> size]}
        /\ cross' = [cross EXCEPT ![i] = IF cross_num THEN line + 1 ELSE 0]
        /\ user_pipe' =
              [k \in Users |-> [j \in Users |->
                  IF k = out /\ j = i /\ new THEN line + 1
                  ELSE IF k = i /\ j = in /\ cross[i] = 0 THEN 0
                  ELSE user_pipe[k][j]]]
        /\ waiting' = IF cross_num \/ out # 0 THEN 0 ELSE line + 1

\* The lines a user may type; what is piped to two places is not a line, nor is
\* a pipe to oneself here.
Types(i) ==
    \E in \in (Users \ {i}) \cup {0}, size \in Sizes :
        \/ single_cmd(i, in, 0, FALSE, size)
        \/ single_cmd(i, in, 0, TRUE, size)
        \/ \E out \in Users \ {i} : single_cmd(i, in, out, FALSE, size)

\* Somebody can still write to a pipe: a command, or the server, which has the
\* write end of a numbered pipe until it is due, but not that of a user pipe.
CanWrite(p) ==
    \/ \E c \in commands : p = c.writes \/ p \in c.holds
    \/ \E k \in Users : cross[k] = p

\* A command ends: its input has ended, and its output has room or a reader.
Ends(c) ==
    /\ c.reads # 0 => ~CanWrite(c.reads)
    /\ c.size = "big" /\ c.writes # 0 => \E d \in commands : d.reads = c.writes
    /\ commands' = commands \ {c}
    /\ UNCHANGED <<line, cross, user_pipe, waiting>>

\* waitpid returns.
Returns ==
    /\ waiting # 0 /\ \A c \in commands : c.line # waiting
    /\ waiting' = 0
    /\ UNCHANGED <<line, cross, user_pipe, commands>>

Next == (\E i \in Users : Types(i)) \/ (\E c \in commands : Ends(c)) \/ Returns

Spec == Init /\ [][Next]_vars

\* The operating system runs every command that can go on.
FairSpec == Spec /\ WF_vars((\E c \in commands : Ends(c)) \/ Returns)

-----------------------------------------------------------------------------
(* Expected of the code, and not kept by it. *)

\* "every child fork from parent need to close fd of cross command pipe", so that
\* whoever reads the pipe comes to its end: every wait of the server ends, and
\* the other users are served. (close_cross_pipe_fd, waitpid in single_cmd.)
ServerReturns == waiting # 0 ~> waiting = 0
=============================================================================
