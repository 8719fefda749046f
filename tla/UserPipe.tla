------------------------------ MODULE UserPipe ------------------------------
(***************************************************************************)
(* User pipes of np_multi_proc.c: "command >n" leaves its output in a fifo *)
(* for user n, "command <n" reads what user n left. This module adds them  *)
(* to the processes of MultiProc, whose mailboxes and semaphores they use. *)
(*                                                                         *)
(* The sender puts the name of the fifo in the receiver's mailbox, sends   *)
(* SIGUSR2 and opens the fifo for writing, which blocks until the receiver *)
(* opens it for reading; the receiver does so in its signal handler, which *)
(* blocks until there is a writer. A process in the handler executes none  *)
(* of its own steps; the other handler, msg_handler, may run inside it. An *)
(* open() that a handler interrupts is started again when it returns.      *)
(*                                                                         *)
(* Abstractions: the command itself takes no time and its output fits in   *)
(* the fifo; ids above max_client_num, with which single_cmd reads beyond  *)
(* its tables, are not typed; clients do not hang up (MultiProc has that). *)
(* A line with a user pipe has no numbered pipe; ordinary_pipe treats the  *)
(* two ids as single_cmd does.                                             *)
(***************************************************************************)
EXTENDS MultiProc

CONSTANTS
    UpLines,    \* the lines that may be typed: <<id of the user, <n, >n>>
    NoFifo      \* the entry -1

ASSUME UpAssumption ==
    /\ UpLines \subseteq Ids \X Slots \X Slots
    /\ MayDrop = {}

VARIABLES
    user_pipe,  \* client_list[i].user_pipe[j]: what j left for i
    from_id,    \* client_list[i].from_id
    fifos,      \* fifo_infor->count
    up,         \* where a process is in a line with "<n" or ">n"
    job,        \* the local variables of single_cmd
    usr2,       \* SIGUSR2 pending
    hand        \* user_pipe_handler: "none", "open" or "store"

up_vars == <<user_pipe, from_id, fifos, up, job, usr2, hand>>
all_vars == <<vars, up_vars>>

\* A fifo: its number, who made it, and whom the line was announced to.
Fifo(n, p, q) == [n |-> n, by |-> p, to |-> q]
\* The path of a fifo in a mailbox.
Path(x) == [from |-> x.by, n |-> x.n, kind |-> "fifo", arg |-> x]

NoJob == [in |-> 0, out |-> 0, read_fd |-> NoFifo, out_state |-> FALSE,
          received |-> FALSE, to |-> Server, fifo |-> NoFifo]

UpInit ==
    /\ Init
    /\ user_pipe = [i \in Slots |-> [j \in Slots |-> NoFifo]]
    /\ from_id = [i \in Slots |-> 0]
    /\ fifos = 0
    /\ up = [p \in Proc |-> "none"]
    /\ job = [p \in Proc |-> NoJob]
    /\ usr2 = [p \in Proc |-> FALSE]
    /\ hand = [p \in Proc |-> "none"]

-----------------------------------------------------------------------------
(* The rest of the program. *)

\* p executes its own steps: it is not in user_pipe_handler.
Runs(p) == hand[p] = "none"

\* The steps of MultiProc; a line with a user pipe continues after a broadcast.
BaseStep(p) ==
    /\ Runs(p) /\ (up[p] = "none" \/ pc[p] \in Loop)
    /\ User(p) \/ Work(p)
    /\ UNCHANGED up_vars

\* delete_client_infor: nothing is left for the user, and nothing from it to
\* the users that are still there. (No descriptor is closed.)
ResetPipes_KeepsRow(p) ==
    user_pipe' = [i \in Slots |-> [j \in Slots |->
        IF j = id[p] /\ state'[i] THEN NoFifo ELSE user_pipe[i][j]]]
ResetPipes(p) ==
    user_pipe' = [i \in Slots |-> [j \in Slots |->
        IF i = id[p] \/ (i \in Ids /\ j = id[p] /\ state'[i])
        THEN NoFifo ELSE user_pipe[i][j]]]

LogoutPipes(p) ==
    /\ Runs(p) /\ Logout(p)
    /\ ResetPipes(p)
    /\ UNCHANGED <<from_id, fifos, up, job, usr2, hand>>

\* msg_handler runs inside anything; what it shows here is never a path.
Handler(p) == msg_handler(p) /\ UNCHANGED up_vars

-----------------------------------------------------------------------------
(* The line, in the process that types it. *)

At(p, s) == Runs(p) /\ pc[p] = "idle" /\ up[p] = s

\* single_cmd begins: the descriptor to read and the state of the receiver are
\* read once, here.
UpLine(p, i, o) ==
    /\ At(p, "none") /\ ncmd[p] <= MaxCmds
    /\ job' = [job EXCEPT ![p] =
                  [NoJob EXCEPT !.in = i, !.out = o,
                                !.read_fd = user_pipe[id[p]][i],
                                !.out_state = state[o]]]
    /\ up' = [up EXCEPT ![p] = "in"]
    /\ ncmd' = [ncmd EXCEPT ![p] = @ + 1]
    /\ UNCHANGED <<mailbox, sem, pc, id, idx, msg, stopped, sig, gone, shown>>
    /\ shared_unchanged
    /\ UNCHANGED <<user_pipe, from_id, fifos, usr2, hand>>

\* A success is told to everybody, an error to the user alone.
Announce(p, ok, k, a) ==
    \/ /\ ok
       /\ StartBroadcast(p, k, a)
    \/ /\ ~ok
       /\ UNCHANGED <<pc, idx, msg, ncmd>>

CanReceive(p) ==
    LET i == job[p].in IN i # 0 /\ state[i] /\ user_pipe[id[p]][i] # NoFifo

CanPipe(p) ==
    LET o == job[p].out IN o # 0 /\ state[o] /\ user_pipe[o][id[p]] = NoFifo

\* print_user_pipe_msg_handler, first "<n" and then ">n". The message names
\* the user that has the id now.
print_user_pipe_in(p) ==
    /\ At(p, "in")
    /\ up' = [up EXCEPT ![p] = "out"]
    /\ Announce(p, CanReceive(p), "received", job[p].in)
    /\ job' = [job EXCEPT ![p].received = CanReceive(p)]
    /\ UNCHANGED <<mailbox, sem, id, stopped, sig, gone, shown>>
    /\ shared_unchanged
    /\ UNCHANGED <<user_pipe, from_id, fifos, usr2, hand>>

print_user_pipe_out(p) ==
    /\ At(p, "out")
    /\ up' = [up EXCEPT ![p] = "create"]
    /\ Announce(p, CanPipe(p), "piped", job[p].out)
    /\ job' = [job EXCEPT ![p].to = IF CanPipe(p) THEN pid[job[p].out] ELSE Server]
    /\ UNCHANGED <<mailbox, sem, id, stopped, sig, gone, shown>>
    /\ shared_unchanged
    /\ UNCHANGED <<user_pipe, from_id, fifos, usr2, hand>>

\* The check is made again for the pipe itself: a receiver that was not there
\* when the line began gets none. create_user_pipe then counts a fifo.
Creates_NotRechecked(p) == job[p].to # Server
Creates(p) == CanPipe(p) /\ job[p].out_state

Decide(p) ==
    /\ At(p, "create")
    /\ \/ /\ Creates(p)
          /\ up' = [up EXCEPT ![p] = "wait"]
          /\ fifos' = fifos + 1
          /\ job' = [job EXCEPT ![p].fifo = Fifo(fifos', p, job[p].to)]
       \/ /\ ~Creates(p)
          /\ up' = [up EXCEPT ![p] = "fork"]
          /\ UNCHANGED <<fifos, job>>
    /\ UNCHANGED <<vars, user_pipe, from_id, usr2, hand>>

\* create_user_pipe goes on: wait for the receiver's semaphore, leave the path
\* of the fifo in its mailbox ...
PipeSlotFree_NotWaited(p) == TRUE
PipeSlotFree(p) == sem[job[p].out] > 0

\* ... and one's id next to it ...
SetFrom_Forgotten(p) == UNCHANGED from_id
SetFrom(p) == from_id' = [from_id EXCEPT ![job[p].out] = id[p]]

create_user_pipe(p) ==
    LET o == job[p].out
    IN  /\ At(p, "wait") /\ PipeSlotFree(p)
        /\ sem' = [sem EXCEPT ![o] = @ - 1]
        /\ mailbox' = [mailbox EXCEPT ![o] = Path(job[p].fifo)]
        /\ SetFrom(p)
        /\ up' = [up EXCEPT ![p] = "recheck"]
        /\ UNCHANGED <<pc, id, idx, msg, stopped, sig, ncmd, gone, shown>>
        /\ shared_unchanged
        /\ UNCHANGED <<user_pipe, fifos, job, usr2, hand>>

\* ... look at its state again ...
RecheckPipe(p) ==
    /\ At(p, "recheck")
    /\ \/ /\ state[job[p].out]
          /\ up' = [up EXCEPT ![p] = "kill"]
          /\ UNCHANGED sem
       \/ /\ ~state[job[p].out]
          /\ sem' = [sem EXCEPT ![job[p].out] = @ + 1]
          /\ up' = [up EXCEPT ![p] = "fork"]
    /\ UNCHANGED <<mailbox, proc_vars>>
    /\ shared_unchanged
    /\ UNCHANGED <<user_pipe, from_id, fifos, job, usr2, hand>>

\* ... and signal it.
KillPipe(p) ==
    /\ At(p, "kill")
    /\ LET q == pid[job[p].out]
       IN  usr2' = IF alive(q) THEN [usr2 EXCEPT ![q] = TRUE] ELSE usr2
    /\ up' = [up EXCEPT ![p] = "open"]
    /\ UNCHANGED <<vars, user_pipe, from_id, fifos, job, hand>>

\* The fork: the parent drops the pipe it read and goes back to the prompt.
TakesPipe(p) == job[p].in # 0 /\ state[job[p].in] /\ job[p].read_fd # NoFifo
DropPipe(p) ==
    user_pipe' = IF TakesPipe(p)
                 THEN [user_pipe EXCEPT ![id[p]][job[p].in] = NoFifo]
                 ELSE user_pipe

Fork(p) ==
    /\ At(p, "fork")
    /\ up' = [up EXCEPT ![p] = "none"]
    /\ DropPipe(p)
    /\ job' = [job EXCEPT ![p] = NoJob]
    /\ UNCHANGED <<vars, from_id, fifos, usr2, hand>>

-----------------------------------------------------------------------------
(* The receiver. *)

\* SIGUSR2 is delivered; the handler opens the fifo its mailbox names.
user_pipe_handler(q) ==
    /\ alive(q) /\ usr2[q] /\ Runs(q)
    /\ usr2' = [usr2 EXCEPT ![q] = FALSE]
    /\ hand' = [hand EXCEPT ![q] = "open"]
    /\ UNCHANGED <<vars, user_pipe, from_id, fifos, up, job>>

\* open(O_WRONLY) of p and open(O_RDONLY) in q's handler meet: both return.
Open(p, q) ==
    /\ At(p, "open") /\ hand[q] = "open"
    /\ mailbox[id[q]] = Path(job[p].fifo)
    /\ up' = [up EXCEPT ![p] = "fork"]
    /\ hand' = [hand EXCEPT ![q] = "store"]
    /\ UNCHANGED <<vars, user_pipe, from_id, fifos, job, usr2>>

\* The handler keeps the descriptor, unless the user is leaving, and posts.
StoreFd(q) ==
    /\ hand[q] = "store"
    /\ user_pipe' = IF stopped[q] THEN user_pipe
                    ELSE [user_pipe EXCEPT ![id[q]][from_id[id[q]]] =
                             mailbox[id[q]].arg]
    /\ PostOwn(q)
    /\ hand' = [hand EXCEPT ![q] = "none"]
    /\ UNCHANGED <<mailbox, proc_vars>>
    /\ shared_unchanged
    /\ UNCHANGED <<from_id, fifos, up, job, usr2>>

-----------------------------------------------------------------------------
Types(p) ==
    \E l \in UpLines : l[1] = id[p] /\ UpLine(p, l[2], l[3])

PipeStep(p) ==
    \/ print_user_pipe_in(p) \/ print_user_pipe_out(p)
    \/ Decide(p) \/ create_user_pipe(p) \/ RecheckPipe(p) \/ KillPipe(p)
    \/ \E q \in Proc : Open(p, q)
    \/ Fork(p)

UpNext ==
    \/ (ServerWait \/ ServerSpin) /\ UNCHANGED up_vars
    \/ \E p \in Proc :
          \/ BaseStep(p) \/ LogoutPipes(p) \/ Handler(p)
          \/ Types(p) \/ PipeStep(p)
          \/ user_pipe_handler(p) \/ StoreFd(p)

UpSpec == UpInit /\ [][UpNext]_all_vars

\* The kernel schedules every runnable process and delivers every signal.
UpFairSpec ==
    /\ UpSpec
    /\ WF_all_vars(ServerWait /\ UNCHANGED up_vars)
    /\ WF_all_vars(ServerSpin /\ UNCHANGED up_vars)
    /\ \A p \in Proc :
          /\ WF_all_vars(BaseStep(p) /\ Work(p)) /\ WF_all_vars(LogoutPipes(p))
          /\ WF_all_vars(Handler(p)) /\ WF_all_vars(PipeStep(p))
          /\ WF_all_vars(user_pipe_handler(p)) /\ WF_all_vars(StoreFd(p))

-----------------------------------------------------------------------------
(* Properties. *)

Fifos == [n : Nat, by : Proc, to : Proc \cup {Server}]

\* Every variable keeps its type; the server has no pipes.
UpTypeOK ==
    /\ user_pipe \in [Slots -> [Slots -> Fifos \cup {NoFifo}]]
    /\ \A i \in Slots : user_pipe[0][i] = NoFifo /\ user_pipe[i][0] = NoFifo
    /\ from_id \in [Slots -> Slots]
    /\ fifos \in Nat
    /\ up \in [Proc -> {"none", "in", "out", "create", "wait", "recheck",
                        "kill", "open", "fork"}]
    /\ \A p \in Proc : job[p].in \in Slots /\ job[p].out \in Slots
    /\ usr2 \in [Proc -> BOOLEAN]
    /\ hand \in [Proc -> {"none", "open", "store"}]

\* Those who have taken the semaphore of slot i: senders of a text or of a
\* path before the signal, receivers from the signal to the end of a handler.
PipeSending(p, i) == up[p] \in {"recheck", "kill"} /\ job[p].out = i
PipeSignalled(q, i) == (usr2[q] \/ hand[q] # "none") /\ id[q] = i
Holders(i) ==
    {p \in Proc : Sending(p, i)} \X {"text"}
    \cup {p \in Proc : Signalled(p, i)} \X {"text'"}
    \cup {p \in Proc : PipeSending(p, i)} \X {"path"}
    \cup {p \in Proc : PipeSignalled(p, i)} \X {"path'"}

\* A mailbox passes from one sender to one receiver, texts and paths alike,
\* however the two signals nest. (broadcast, create_user_pipe and handlers.)
OneMail ==
    \A i \in Ids : sem[i] >= 0 /\ sem[i] + Cardinality(Holders(i)) <= 1

\* No handler takes a path for a text or a text for a path: the signal fits
\* what is in the mailbox. (SIGUSR1 and SIGUSR2 share the mailbox.)
SignalFits ==
    \A q \in Proc :
        /\ sig[q] => mailbox[id[q]].kind # "fifo"
        /\ usr2[q] \/ hand[q] # "none" => mailbox[id[q]].kind = "fifo"

\* "a new client who gets your client id can't receive the message because the
\* pipe is gone": nothing is left for a user that logs in on an unused id.
\* (delete_client_infor and the handler of a user that is leaving.)
FreshRow ==
    [][\A p \in Proc : id[p] = 0 /\ id'[p] # 0 /\ ~state[id'[p]]
          => \A j \in Slots : user_pipe'[id'[p]][j] = NoFifo]_all_vars

\* A pipe that exists is not replaced by another one, although the sender may
\* look for it before the receiver's handler has stored it: the announcement
\* in between waits for the handler. (single_cmd, create_user_pipe.)
NotReplaced ==
    [][\A i, j \in Ids :
          user_pipe[i][j] # NoFifo => user_pipe'[i][j] \in {user_pipe[i][j], NoFifo}
      ]_all_vars

\* Processes that wait for each other: all are in user_pipe_handler, and the
\* writer that each waits for is one of them, so none will open its own fifo.
\* A user that pipes to itself is such a process alone.
Embraced(S) ==
    /\ S # {}
    /\ \A q \in S : hand[q] = "open" /\ mailbox[id[q]].arg.by \in S
Embrace == \E S \in SUBSET Proc : Embraced(S)

\* Nothing but an embrace keeps a line with a user pipe from its end: no
\* semaphore, signal or fifo is waited for in vain, whoever else pipes, reads
\* or broadcasts. (create_user_pipe waits for the semaphore and, in open(),
\* for the receiver's handler.)
PipeEnds == \A p \in Proc : up[p] # "none" ~> up[p] = "none" \/ Embrace

\* Where everybody stays, every single fifo that is made can be received in
\* the end, also the second one between the same users, unless there is an
\* embrace. (create_user_pipe and user_pipe_handler. A fifo is known by its
\* number; the instances make at most MaxCmds of them.)
FifoArrives ==
    \A n \in 1..MaxCmds :
        (\E p \in Proc : up[p] = "wait" /\ job[p].fifo.n = n)
        ~> \/ \E i, j \in Ids : user_pipe[i][j] # NoFifo /\ user_pipe[i][j].n = n
           \/ Embrace

-----------------------------------------------------------------------------
(* Expected of the code, and not kept by it; nothing above relies on these. *)

\* A pipe is received by the user the message named. (print_user_pipe_msg and
\* create_user_pipe look the receiver up one after the other.)
ReceiverIsMeant ==
    \A i, j \in Ids :
        state[i] /\ user_pipe[i][j] # NoFifo => user_pipe[i][j].to = pid[i]

\* Every line with a user pipe ends. (create_user_pipe: two users that pipe to
\* each other, or one that pipes to itself, wait for ever.)
LinesEnd == \A p \in Proc : up[p] # "none" ~> up[p] = "none"

\* What is announced as piped is piped. (print_user_pipe_msg_handler and
\* single_cmd look at the receiver one after the other.)
PipedIsMade ==
    [][\A p \in Proc : up[p] = "create" /\ job[p].to # Server /\ up'[p] # "create"
          => up'[p] = "wait"]_all_vars

\* Who is said to have received a pipe does read it. (single_cmd reads the
\* descriptor before print_user_pipe_msg_handler looks at it.)
ReceivedIsRead ==
    [][\A p \in Proc : up[p] = "fork" /\ job[p].received /\ up'[p] = "none"
          => TakesPipe(p)]_all_vars
=============================================================================
