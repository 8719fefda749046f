----------------------------- MODULE CrossPipe -----------------------------
(***************************************************************************)
(* The numbered ("cross") pipes of the shell that serves one client: the   *)
(* table infor.list of waiting pipes, counted down at every line that is   *)
(* not blank, and the descriptors behind it. np_multi_proc.c and           *)
(* np_single_proc.c hold the same code; the lines are those of the former. *)
(*                                                                         *)
(* A pipe is a number, never used again; the descriptors of its two ends   *)
(* are open in the shell together. A line is read and counted (ReadLine),  *)
(* then executed by one of the actions below it. Nothing else runs in      *)
(* between: the table belongs to one process.                              *)
(*                                                                         *)
(* Abstractions: the words of a command are left out; what is kept of it   *)
(* is whether it is a builtin, one command, an ordinary pipe of two or one *)
(* of more commands, and its cross_num. "!k" behaves as "|k". The variable *)
(* pos of single_cmd is not initialised when there is no cross_num, so it  *)
(* is any slot or none. The descriptors of files and of user pipes are not *)
(* counted.                                                                *)
(*                                                                         *)
(* An operator X_Y that is used nowhere is X with the mistake Y; it is     *)
(* kept to show which property notices the mistake.                        *)
(***************************************************************************)
EXTENDS Integers, FiniteSets

CONSTANTS
    fd_infor_list_size,  \* slots of the table (511 in the header)
    FdLimit,             \* descriptors the shell may open for pipes
    MaxCross,            \* bound on the number after "|" and "!"
    MaxLine,             \* bound on the lines of a session
    Forms                \* the lines the user may type

ASSUME TableAssumption == fd_infor_list_size \in Nat \ {0}
\* "equal to (1024-3)/2": the table has a slot for every pair of descriptors.
\* The socket takes one descriptor more, so one slot always stays free.
ASSUME FdAssumption == FdLimit \in Nat /\ FdLimit < 2 * fd_infor_list_size
ASSUME BoundAssumption == MaxCross \in Nat /\ MaxLine \in Nat
ASSUME FormAssumption ==
    Forms \subseteq {"tell", "env", "redir", "single", "pipe", "pipes", "exit", "eot"}

VARIABLES
    count, pipe,        \* infor.list[i].count and the pipe behind its fds
    output_point,       \* the slot whose pipe the current line reads, or -1
    min_input_point,    \* the slot the next new pipe goes to
    record,             \* close_fd_record: the slots still waiting
    freed,              \* close_fd_record has been freed
    open,               \* the pipes the shell has open
    made,               \* number of pipes made so far
    fed,                \* the lines that write to each pipe
    line,               \* number of the last line that was not blank
    writers,            \* the lines whose processes were given the write end of
                        \* each pipe and did not close it
    unset,              \* the lines that ran with pos not initialised
    got,                \* the lines whose output the last command reads
    pc                  \* "prompt", "run", "spin", "exit" or "abort"

infor == <<count, pipe, output_point, min_input_point, record, freed>>
vars == <<infor, open, made, fed, line, writers, unset, got, pc>>

Slots == 0..(fd_infor_list_size - 1)
Pipes == 1..MaxLine
\* One command, two with a pipe between them, three or more.
Commands == {"single", "pipe", "pipes"}

\* initial_fd_infor_list and {-1, 0, 0, NULL}.
Init ==
    /\ count = [i \in Slots |-> -1]
    /\ pipe = [i \in Slots |-> 0]
    /\ output_point = -1
    /\ min_input_point = 0
    /\ record = {}
    /\ freed = FALSE
    /\ open = {}
    /\ made = 0
    /\ fed = [x \in Pipes |-> {}]
    /\ line = 0
    /\ writers = [x \in Pipes |-> {}]
    /\ unset = {}
    /\ got = {}
    /\ pc = "prompt"

-----------------------------------------------------------------------------
\* The slots whose pipe has come to its line: the loop keeps the last of them.
Due == {i \in Slots : count[i] = 1}

CountDown_LeavesSlot(i) == IF count[i] > 0 THEN count[i] - 1 ELSE count[i]
CountDown(i) ==
    IF count[i] > 1 THEN count[i] - 1
    ELSE IF count[i] = 1 THEN -1
    ELSE count[i]

\* The next input goes to the smallest free slot.
LowerPoint_Kept(i) == min_input_point
LowerPoint(i) == IF i < min_input_point THEN i ELSE min_input_point

\* run_shell reads a line that is not blank; count_down_and_check.
ReadLine ==
    /\ pc = "prompt" /\ line < MaxLine
    /\ line' = line + 1
    /\ count' = [i \in Slots |-> CountDown(i)]
    /\ record' = {i \in Slots : count[i] > 1}
    /\ \/ /\ Due = {}
          /\ output_point' = -1
          /\ UNCHANGED min_input_point
       \/ \E i \in Due :
             /\ \A j \in Due : j <= i
             /\ output_point' = i
             /\ min_input_point' = LowerPoint(i)
    /\ freed' = FALSE
    /\ pc' = "run"
    /\ UNCHANGED <<pipe, open, made, fed, writers, unset, got>>

Typed(f) == pc = "run" /\ f \in Forms

\* tell and yell: check_cmd, before string_split.
Tell ==
    /\ Typed("tell")
    /\ pc' = "prompt"
    /\ UNCHANGED <<infor, open, made, fed, line, writers, unset, got>>

\* setenv, printenv, who, name; or an ordinary pipe whose ">" file cannot be
\* opened. string_split frees close_fd_record; the pipe that is due stays open.
NoCommand ==
    /\ Typed("env") \/ Typed("redir")
    /\ pc' = "prompt"
    /\ freed' = (record # {})
    /\ UNCHANGED <<count, pipe, output_point, min_input_point, record, open,
                   made, fed, line, writers, unset, got>>

-----------------------------------------------------------------------------
(* Commands. *)

\* find_same_cross_pipe.
Same(k) == {i \in record : count[i] = k}
IsNew_Always(k) == k > 0
IsNew(k) == k > 0 /\ Same(k) = {}

\* The pipe the line reads; the parent closes both its ends after the fork
\* (connect_pipe_to_first_process).
DuePipe == IF output_point >= 0 THEN {pipe[output_point]} ELSE {}
AfterFirst_NotClosed == open
AfterFirst == open \ DuePipe

\* pipe() finds two free descriptors. A single command makes its new pipe
\* before it closes the one it reads; an ordinary pipe makes its first inner
\* pipe before, and then, for the other inner pipes and for a new numbered
\* one, has the read end of the previous one open too.
CanOpen(f, k) ==
    IF f = "single"
    THEN IsNew(k) => 2 * Cardinality(open) + 2 <= FdLimit
    ELSE /\ 2 * Cardinality(open) + 2 <= FdLimit
         /\ f = "pipes" \/ IsNew(k) => 2 * Cardinality(AfterFirst) + 3 <= FdLimit

\* while (pipe(fd) < 0) {}: nobody else will close a descriptor.
Spin(f, k) ==
    /\ Typed(f) /\ ~CanOpen(f, k)
    /\ pc' = "spin"
    /\ UNCHANGED <<infor, open, made, fed, line, writers, unset, got>>

\* The search for the next free slot; a full table leaves the old one.
NextPoint_Kept == UNCHANGED min_input_point
NextPoint ==
    LET free == {i \in Slots : count'[i] < 0}
    IN  \/ free = {} /\ UNCHANGED min_input_point
        \/ \E i \in free : (\A j \in free : i <= j) /\ min_input_point' = i

\* The new pipe goes to the slot found before, with the lines to wait.
update_cross_pipe_fd(k, x) ==
    /\ count' = [count EXCEPT ![min_input_point] = k]
    /\ pipe' = [pipe EXCEPT ![min_input_point] = x]
    /\ NextPoint

\* The pipes that a child closes: the recorded ones but that of slot pos.
close_cross_pipe_fd_None(pos) == {}
close_cross_pipe_fd(pos) == {pipe[i] : i \in record \ {pos}}

\* The children of a line inherit whatever the shell has open, the leaked
\* pipes too; the first closes the pipe it reads, each what
\* close_cross_pipe_fd tells it to. Those before the last close more.
Inherit(pos) ==
    writers' = [x \in Pipes |->
                   IF x \in open' \ close_cross_pipe_fd(pos)
                   THEN writers[x] \cup {line} ELSE writers[x]]

\* pos in the child that runs the last command of the line.
Pos(f, k) ==
    IF k > 0 THEN (IF IsNew(k) THEN {-1} ELSE Same(k))
    ELSE IF f = "single" THEN Slots \cup {-1} ELSE {-1}

\* single_cmd (f = "single") and ordinary_pipe, with cross_num = k.
Command(f, k) ==
    /\ Typed(f) /\ CanOpen(f, k)
    /\ got' = UNION {fed[x] : x \in DuePipe}
    /\ \E pos \in Pos(f, k) :
          /\ \/ /\ IsNew(k)
                /\ made' = made + 1
                /\ open' = AfterFirst \cup {made'}
                /\ fed' = [fed EXCEPT ![made'] = {line}]
                /\ update_cross_pipe_fd(k, made')
             \/ /\ ~IsNew(k)
                /\ open' = AfterFirst
                /\ fed' = IF k > 0 THEN [fed EXCEPT ![pipe[pos]] = @ \cup {line}]
                                   ELSE fed
                /\ UNCHANGED <<count, pipe, min_input_point, made>>
          /\ Inherit(pos)
    /\ unset' = IF f = "single" /\ k = 0 THEN unset \cup {line} ELSE unset
    /\ freed' = (record # {})
    /\ pc' = "prompt"
    /\ UNCHANGED <<output_point, record, line>>

-----------------------------------------------------------------------------
\* "exit": close what is recorded and leave; the descriptors end with the
\* process.
Exit ==
    /\ Typed("exit")
    /\ pc' = "exit"
    /\ open' = {}
    /\ UNCHANGED <<infor, made, fed, line, writers, unset, got>>

\* A line that begins with byte 4 is not counted down: it meets the
\* close_fd_record of the line before, and a second free() of it, which may
\* abort.
Eot ==
    /\ pc = "prompt" /\ "eot" \in Forms
    /\ pc' \in (IF record # {} /\ freed THEN {"abort", "exit"} ELSE {"exit"})
    /\ open' = {}
    /\ UNCHANGED <<infor, made, fed, line, writers, unset, got>>

Next ==
    \/ ReadLine \/ Tell \/ NoCommand \/ Exit \/ Eot
    \/ \E f \in Commands, k \in 0..MaxCross : Command(f, k) \/ Spin(f, k)

Spec == Init /\ [][Next]_vars

-----------------------------------------------------------------------------
(* Properties. *)

Waiting == {i \in Slots : count[i] > 0}

\* Every variable keeps its type.
TypeOK ==
    /\ count \in [Slots -> {-1} \cup 1..MaxCross] /\ pipe \in [Slots -> 0..MaxLine]
    /\ output_point \in Slots \cup {-1} /\ min_input_point \in Slots
    /\ record \in SUBSET Slots /\ freed \in BOOLEAN
    /\ open \in SUBSET Pipes /\ made \in 0..MaxLine
    /\ fed \in [Pipes -> SUBSET (1..MaxLine)]
    /\ line \in 0..MaxLine
    /\ writers \in [Pipes -> SUBSET (1..MaxLine)] /\ unset \in SUBSET (1..MaxLine)
    /\ got \in SUBSET (1..MaxLine)
    /\ pc \in {"prompt", "run", "spin", "exit", "abort"}

\* The table is sound: two waiting pipes never come due on the same line, no
\* two slots share a pipe, the pipes are open, and the next pipe goes to the
\* smallest free slot, however the lines come. (count_down_and_check and
\* update_cross_pipe_fd keep min_input_point up to date between them.)
TableSound ==
    pc \in {"prompt", "run", "spin"} =>
        /\ \A i, j \in Waiting :
              count[i] = count[j] \/ pipe[i] = pipe[j] => i = j
        /\ \A i \in Waiting : pipe[i] \in open
        /\ min_input_point \notin Waiting
        /\ \A i \in Slots : i < min_input_point => i \in Waiting

\* The pipe of a slot that waits is never replaced, that is, no output that
\* was sent ahead is lost when the descriptors run out. (update_cross_pipe_fd
\* writes to list[min_input_point] without looking at it; the table has a
\* slot more than there are pipes that can wait.)
NoOverwrite ==
    [][\A i \in Slots : count[i] > 0 => pipe'[i] = pipe[i]]_vars

\* The pipes that some line will read or reads, and those the shell has open
\* and will never close.
Live ==
    {pipe[i] : i \in Waiting} \cup (IF pc \in {"run", "spin"} THEN DuePipe ELSE {})
Leaked == open \ Live

\* A command leaves no pipe open that neither waits nor is read, whatever
\* mixture of new, shared and due pipes it meets. (The parent's closes in
\* connect_pipe_to_first_process; a builtin on the line of a due pipe leaks it.)
CommandLeaksNothing ==
    [][(\E f \in Commands, k \in 0..MaxCross : Command(f, k))
           => Leaked' \subseteq Leaked]_vars

\* The line that reads a numbered pipe sees its end when the lines that feed
\* it are over: they hold its write end and, but for the commands that ran with
\* pos not initialised, no process of any other line does, whatever pipes
\* waited, were due, shared or leaked while those lines ran.
\* (close_cross_pipe_fd, called with the slot of find_same_cross_pipe.)
EndIsSeen == \A x \in Live : writers[x] \ unset = fed[x]

\* The table implements numbered pipes: what a line reads is exactly what the
\* earlier lines sent to it.
DueAt(n) ==
    IF n < line THEN {}
    ELSE IF n = line
         THEN IF pc \in {"run", "spin"} THEN UNION {fed[x] : x \in DuePipe} ELSE {}
         ELSE UNION {fed[pipe[i]] : i \in {j \in Waiting : count[j] = n - line}}

Abstract == INSTANCE NumberedPipe
                WITH due <- [n \in 1..(MaxLine + MaxCross) |-> DueAt(n)]

\* Every line reads what NumberedPipe says it reads.
Routing == Abstract!Spec

-----------------------------------------------------------------------------
(* Expected of the code, and not kept by it; nothing above relies on these. *)

\* "every child fork from parent need to close fd of cross command pipe": only
\* the lines that feed a pipe hold its write end. (close_cross_pipe_fd; a
\* single command without a number passes a pos that is not initialised.)
ChildCloses == \A x \in Live : writers[x] \subseteq fed[x]

\* The only descriptors are the ones the table accounts for, so the shell
\* waits for a descriptor only with (nearly) all of them in waiting pipes.
\* (fd_infor_list_size, "equal to (1024-3)/2"; a builtin leaks a due pipe.)
SpinOnlyWhenFull ==
    pc = "spin" => 2 * (Cardinality(Waiting) + Cardinality(DuePipe)) + 3 > FdLimit

\* The end of the input ends the shell in order. (run_shell, "end of file".)
EotEnds == pc # "abort"
=============================================================================
