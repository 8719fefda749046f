----------------------------- MODULE MultiProc -----------------------------
(***************************************************************************)
(* np_multi_proc.c: one process per client, all of them sharing the client *)
(* table (client_list) and the connection counters (connect_state) through *)
(* System V shared memory, POSIX semaphores and signals.                   *)
(*                                                                         *)
(* A message to another user is handed over in four steps by its sender    *)
(* (take the receiver's semaphore, fill its mailbox, look at its state     *)
(* again, send SIGUSR1) and in one by the receiver's signal handler (show  *)
(* the mailbox, post the semaphore), which runs between any two steps of   *)
(* the receiver.                                                           *)
(*                                                                         *)
(* The login and the logout are critical sections of lock2; the rest of    *)
(* the program reads the shared tables without it, so every such read is a *)
(* step of its own here.                                                   *)
(*                                                                         *)
(* Failures: a client may hang up at any time (gone); the process that     *)
(* serves it then dies, of SIGPIPE in a write or of a null pointer in      *)
(* string_split after read() returned 0, without logging out.              *)
(*                                                                         *)
(* An operator X_Y that is used nowhere is X with the mistake Y; it is kept *)
(* to show which property notices the mistake.                             *)
(*                                                                         *)
(* Abstractions: messages are records (who sent it, its number among the   *)
(* sender's, what it is about), addresses and formatting are left out, a   *)
(* process stands for one connection and is not recycled.                  *)
(***************************************************************************)
EXTENDS Integers, FiniteSets

CONSTANTS
    max_client_num,  \* size of the client table (30 in the header)
    Proc,            \* the connections that may be made, one process each
    NickNames,       \* arguments of the command "name"
    NoName,          \* the initial name "(no name)"
    Server,          \* the listening process, client_list[0]
    Cmds,            \* the commands the users may type
    TellIds,         \* the ids the users may type after "tell"
    MaxCmds,         \* bound on the commands of one connection
    MayDrop          \* the connections whose client may hang up

ASSUME SizeAssumption == max_client_num \in Nat \ {0}
ASSUME ProcAssumption == IsFiniteSet(Proc) /\ Server \notin Proc
ASSUME InputAssumption ==
    /\ Cmds \subseteq {"yell", "tell", "name", "exit"}
    /\ TellIds \subseteq Nat
    /\ MaxCmds \in Nat
    /\ MayDrop \subseteq Proc
    /\ NoName \notin NickNames

VARIABLES
    spc,         \* server: "accept", "wait" (on lock), "spin" (on client_num)
    client_num, min_id, lock, lock2,           \* connect_state
    state, pid, name, mailbox, sem,            \* client_list[0..max]
    pc,          \* where each process is
    id,          \* its slot, 0 before the login
    idx,         \* its loop index or the target of a tell
    msg,         \* the message it is sending
    stopped,     \* set when it leaves run_shell
    sig,         \* SIGUSR1 pending
    ncmd,        \* commands executed
    gone,        \* the client has hung up
    shown        \* the messages written to the client's socket so far

connect_state == <<client_num, min_id, lock, lock2>>
client_list == <<state, pid, name, mailbox, sem>>
proc_vars == <<pc, id, idx, msg, stopped, sig, ncmd, gone, shown>>
vars == <<spc, connect_state, client_list, proc_vars>>

Ids == 1..max_client_num
Slots == 0..max_client_num

\* Messages: n is the number of the message among those of its sender, so
\* that equal texts sent twice are told apart. The welcome is number 0.
Kinds == {"welcome", "login", "yell", "tell", "name", "logout"}
Message(p, k, a) == [from |-> p, n |-> ncmd[p] + 1, kind |-> k, arg |-> a]
Welcome(p) == [from |-> p, n |-> 0, kind |-> "welcome", arg |-> 0]
Messages == [from : Proc, n : 0..(MaxCmds + 2), kind : Kinds,
             arg : TellIds \cup NickNames \cup {0}]
NoMsg == [from |-> Server, n |-> 0, kind |-> "none", arg |-> 0]

\* Program counters of a process that exists.
Loop == {"scan", "wait", "recheck", "kill"}
Alive == {"login", "enter", "welcome", "idle", "names", "logout"} \cup Loop
alive(q) == q \in Proc /\ pc[q] \in Alive

\* create_shared_mem: slot 0 belongs to the server; its semaphore is in
\* zeroed memory and is the only one that sem_init does not set to 1.
Init ==
    /\ spc = "accept"
    /\ client_num = 0 /\ min_id = 1 /\ lock = 0 /\ lock2 = 1
    /\ state = [i \in Slots |-> i = 0]
    /\ pid = [i \in Slots |-> Server]
    /\ name = [i \in Slots |-> NoName]
    /\ mailbox = [i \in Slots |-> NoMsg]
    /\ sem = [i \in Slots |-> IF i = 0 THEN 0 ELSE 1]
    /\ pc = [p \in Proc |-> "off"]
    /\ id = [p \in Proc |-> 0]
    /\ idx = [p \in Proc |-> 0]
    /\ msg = [p \in Proc |-> Welcome(p)]
    /\ stopped = [p \in Proc |-> FALSE]
    /\ sig = [p \in Proc |-> FALSE]
    /\ ncmd = [p \in Proc |-> 0]
    /\ gone = [p \in Proc |-> FALSE]
    /\ shown = [p \in Proc |-> {}]

-----------------------------------------------------------------------------
(* The server process. *)

\* accept and fork: the child goes to the login, the parent to sem_wait(lock).
Accept(p) ==
    /\ spc = "accept" /\ pc[p] = "off"
    /\ spc' = "wait"
    /\ pc' = [pc EXCEPT ![p] = "login"]
    /\ UNCHANGED <<connect_state, client_list, id, idx, msg, stopped, sig,
                   ncmd, gone, shown>>

\* The child has registered.
ServerWait ==
    /\ spc = "wait" /\ lock > 0
    /\ lock' = lock - 1
    /\ spc' = "spin"
    /\ UNCHANGED <<client_num, min_id, lock2, client_list, proc_vars>>

\* The busy wait for a place.
HasPlace_OffByOne == client_num <= max_client_num
HasPlace == client_num < max_client_num

ServerSpin ==
    /\ spc = "spin" /\ HasPlace
    /\ spc' = "accept"
    /\ UNCHANGED <<connect_state, client_list, proc_vars>>

-----------------------------------------------------------------------------
(* Login. *)

\* sem_wait(lock2) does not block.
Lock2Free_NotWaited == TRUE
Lock2Free == lock2 = 1

\* sem_wait(lock2); id = min_id; client_num++; update_client_infor.
Login(p) ==
    /\ pc[p] = "login" /\ Lock2Free
    /\ lock2' = 0
    /\ id' = [id EXCEPT ![p] = min_id]
    /\ client_num' = client_num + 1
    /\ pid' = [pid EXCEPT ![min_id] = p]
    /\ state' = [state EXCEPT ![min_id] = TRUE]
    /\ name' = [name EXCEPT ![min_id] = NoName]
    /\ pc' = [pc EXCEPT ![p] = "enter"]
    /\ UNCHANGED <<spc, min_id, lock, mailbox, sem, idx, msg, stopped, sig,
                   ncmd, gone, shown>>

FreeIds == {i \in Ids : ~state[i]}

\* The first free id becomes min_id (a full table leaves it as it is), then
\* both semaphores are posted.
LoginDone(p) ==
    /\ pc[p] = "enter"
    /\ \/ FreeIds = {} /\ UNCHANGED min_id
       \/ \E i \in FreeIds : (\A j \in FreeIds : i <= j) /\ min_id' = i
    /\ lock' = lock + 1
    /\ lock2' = 1
    /\ pc' = [pc EXCEPT ![p] = "welcome"]
    /\ UNCHANGED <<spc, client_num, client_list, id, idx, msg, stopped, sig,
                   ncmd, gone, shown>>

\* write() to the client of p: lost without notice when it has hung up.
write(p, m) ==
    shown' = IF gone[p] THEN shown ELSE [shown EXCEPT ![p] = @ \cup {m}]

\* broadcast(m) begins.
StartBroadcast(p, k, a) ==
    /\ ncmd' = [ncmd EXCEPT ![p] = @ + 1]
    /\ msg' = [msg EXCEPT ![p] = Message(p, k, a)]
    /\ idx' = [idx EXCEPT ![p] = 1]
    /\ pc' = [pc EXCEPT ![p] = "scan"]

print_welcome_msg(p) ==
    /\ pc[p] = "welcome"
    /\ write(p, Welcome(p))
    /\ StartBroadcast(p, "login", 0)
    /\ UNCHANGED <<spc, connect_state, client_list, id, stopped, sig, gone>>

-----------------------------------------------------------------------------
(* broadcast and the hand-over of one message. *)

shared_unchanged == UNCHANGED <<spc, connect_state, state, pid, name>>

\* Slot idx has been served; a tell serves one slot only.
NextSlot(p) ==
    IF msg[p].kind = "tell"
    THEN pc' = [pc EXCEPT ![p] = "idle"] /\ UNCHANGED idx
    ELSE pc' = [pc EXCEPT ![p] = "scan"] /\ idx' = [idx EXCEPT ![p] = @ + 1]

\* One iteration of the loop over a slot that needs no hand-over: a slot
\* nobody uses, or the sender's own, which is a plain write.
ScanSlot(p) ==
    /\ pc[p] = "scan" /\ idx[p] \in Ids
    /\ \/ ~state[idx[p]] /\ UNCHANGED shown
       \/ state[idx[p]] /\ idx[p] = id[p] /\ write(p, msg[p])
    /\ NextSlot(p)
    /\ UNCHANGED <<mailbox, sem, id, msg, stopped, sig, ncmd, gone>>
    /\ shared_unchanged

ScanOther(p) ==
    /\ pc[p] = "scan" /\ idx[p] \in Ids
    /\ state[idx[p]] /\ idx[p] # id[p]
    /\ pc' = [pc EXCEPT ![p] = "wait"]
    /\ UNCHANGED <<mailbox, sem, id, idx, msg, stopped, sig, ncmd, gone, shown>>
    /\ shared_unchanged

\* sem_wait on the semaphore of the slot p is at does not block.
SlotFree_NotWaited(p) == TRUE
SlotFree(p) == sem[idx[p]] > 0

\* sem_wait(&client_list[i].lock); strcpy(client_list[i].mailbox, msg)
SemWait(p) ==
    /\ pc[p] = "wait" /\ SlotFree(p)
    /\ sem' = [sem EXCEPT ![idx[p]] = @ - 1]
    /\ mailbox' = [mailbox EXCEPT ![idx[p]] = msg[p]]
    /\ pc' = [pc EXCEPT ![p] = "recheck"]
    /\ UNCHANGED <<id, idx, msg, stopped, sig, ncmd, gone, shown>>
    /\ shared_unchanged

\* The second look at the receiver's state: gone, so give the semaphore back,
\* or still there, so go on to the signal.
Recheck(p) ==
    /\ pc[p] = "recheck"
    /\ \/ /\ state[idx[p]]
          /\ pc' = [pc EXCEPT ![p] = "kill"]
          /\ UNCHANGED <<sem, idx>>
       \/ /\ ~state[idx[p]]
          /\ sem' = [sem EXCEPT ![idx[p]] = @ + 1]
          /\ NextSlot(p)
    /\ UNCHANGED <<mailbox, id, msg, stopped, sig, ncmd, gone, shown>>
    /\ shared_unchanged

\* kill(client_list[i].pid, SIGUSR1): no effect on a process that has ended.
Kill(p) ==
    /\ pc[p] = "kill" /\ pid[idx[p]] # p
    /\ LET q == pid[idx[p]]
       IN  sig' = IF alive(q) THEN [sig EXCEPT ![q] = TRUE] ELSE sig
    /\ NextSlot(p)
    /\ UNCHANGED <<mailbox, sem, id, msg, stopped, ncmd, gone, shown>>
    /\ shared_unchanged

\* The handler's sem_post(&client_list[id].lock).
PostOwn_Forgotten(p) == UNCHANGED sem
PostOwn(p) == sem' = [sem EXCEPT ![id[p]] = @ + 1]

\* A signal to oneself (a tell to one's own id) is handled before kill()
\* returns: msg_handler shows the mailbox and posts.
KillSelf(p) ==
    /\ pc[p] = "kill" /\ pid[idx[p]] = p
    /\ PostOwn(p)
    /\ write(p, mailbox[id[p]])
    /\ NextSlot(p)
    /\ UNCHANGED <<mailbox, id, msg, stopped, sig, ncmd, gone>>
    /\ shared_unchanged

\* The last thing a process does before exit(0) is to post lock2.
PostLock2_Forgotten == UNCHANGED lock2
PostLock2 == lock2' = lock2 + 1

\* The loop is over: back to the prompt, or after the logout message post
\* lock2 and exit(0), with which a signal not yet handled is lost.
EndBroadcast(p) ==
    /\ pc[p] = "scan" /\ idx[p] \notin Ids
    /\ \/ /\ ~stopped[p]
          /\ pc' = [pc EXCEPT ![p] = "idle"]
          /\ UNCHANGED <<lock2, sig>>
       \/ /\ stopped[p]
          /\ pc' = [pc EXCEPT ![p] = "done"]
          /\ PostLock2
          /\ sig' = [sig EXCEPT ![p] = FALSE]
    /\ UNCHANGED <<spc, client_num, min_id, lock, client_list, id, idx, msg,
                   stopped, ncmd, gone, shown>>

\* The SIGUSR1 handler, between any two steps of its process.
msg_handler(p) ==
    /\ alive(p) /\ sig[p]
    /\ sig' = [sig EXCEPT ![p] = FALSE]
    /\ PostOwn(p)
    /\ IF stopped[p] THEN UNCHANGED shown ELSE write(p, mailbox[id[p]])
    /\ UNCHANGED <<mailbox, pc, id, idx, msg, stopped, ncmd, gone>>
    /\ shared_unchanged

-----------------------------------------------------------------------------
(* Commands. *)

MayType(p, c) == pc[p] = "idle" /\ c \in Cmds /\ ncmd[p] <= MaxCmds

cmd_yell(p) ==
    /\ MayType(p, "yell")
    /\ StartBroadcast(p, "yell", 0)
    /\ UNCHANGED <<mailbox, sem, id, stopped, sig, gone, shown>>
    /\ shared_unchanged

UserExists(t) == t <= max_client_num /\ state[t]

\* The receiver is checked once here and once more in Recheck; an id that is
\* not in use is answered with an error message.
cmd_tell(p, t) ==
    /\ MayType(p, "tell")
    /\ ncmd' = [ncmd EXCEPT ![p] = @ + 1]
    /\ \/ /\ ~UserExists(t)
          /\ UNCHANGED <<pc, idx, msg>>
       \/ /\ UserExists(t)
          /\ pc' = [pc EXCEPT ![p] = "wait"]
          /\ idx' = [idx EXCEPT ![p] = t]
          /\ msg' = [msg EXCEPT ![p] = Message(p, "tell", t)]
    /\ UNCHANGED <<mailbox, sem, id, stopped, sig, gone, shown>>
    /\ shared_unchanged

\* cmd_name compares the wanted name (msg.arg) with one slot at a time ...
cmd_name(p, nm) ==
    /\ MayType(p, "name")
    /\ idx' = [idx EXCEPT ![p] = 1]
    /\ msg' = [msg EXCEPT ![p] = Message(p, "name", nm)]
    /\ pc' = [pc EXCEPT ![p] = "names"]
    /\ UNCHANGED <<mailbox, sem, id, stopped, sig, ncmd, gone, shown>>
    /\ shared_unchanged

Clash(p, i) == i # id[p] /\ state[i] /\ name[i] = msg[p].arg

\* ... gives up at the first clash ...
CompareName(p) ==
    /\ pc[p] = "names" /\ idx[p] \in Ids
    /\ \/ /\ Clash(p, idx[p])
          /\ pc' = [pc EXCEPT ![p] = "idle"]
          /\ ncmd' = [ncmd EXCEPT ![p] = @ + 1]
          /\ UNCHANGED idx
       \/ /\ ~Clash(p, idx[p])
          /\ idx' = [idx EXCEPT ![p] = @ + 1]
          /\ UNCHANGED <<pc, ncmd>>
    /\ UNCHANGED <<mailbox, sem, id, msg, stopped, sig, gone, shown>>
    /\ shared_unchanged

\* ... and after the last slot takes the name and tells everybody.
SetName(p) ==
    /\ pc[p] = "names" /\ idx[p] \notin Ids
    /\ name' = [name EXCEPT ![id[p]] = msg[p].arg]
    /\ StartBroadcast(p, "name", msg[p].arg)
    /\ UNCHANGED <<spc, connect_state, state, pid, mailbox, sem, id, stopped,
                   sig, gone, shown>>

\* "exit", or a line that begins with byte 4: run_shell returns.
Exit(p) ==
    /\ pc[p] = "idle" /\ "exit" \in Cmds
    /\ pc' = [pc EXCEPT ![p] = "logout"]
    /\ stopped' = [stopped EXCEPT ![p] = TRUE]
    /\ UNCHANGED <<mailbox, sem, id, idx, msg, sig, ncmd, gone, shown>>
    /\ shared_unchanged

\* client_num-- and the min_id rule.
Leave_NotCounted(p) ==
    /\ UNCHANGED client_num
    /\ min_id' = IF id[p] < min_id THEN id[p] ELSE min_id
Leave_KeepsMinId(p) ==
    /\ client_num' = client_num - 1
    /\ UNCHANGED min_id
Leave(p) ==
    /\ client_num' = client_num - 1
    /\ min_id' = IF id[p] < min_id THEN id[p] ELSE min_id

\* sem_wait(lock2); delete_client_infor; client_num--; the min_id rule; the
\* logout broadcast begins, with lock2 held to its end.
Logout(p) ==
    /\ pc[p] = "logout" /\ Lock2Free
    /\ lock2' = 0
    /\ state' = [state EXCEPT ![id[p]] = FALSE]
    /\ Leave(p)
    /\ StartBroadcast(p, "logout", 0)
    /\ UNCHANGED <<spc, lock, pid, name, mailbox, sem, id, stopped, sig, gone,
                   shown>>

-----------------------------------------------------------------------------
(* Failures. *)

HangUp(p) ==
    /\ p \in MayDrop /\ alive(p) /\ ~gone[p]
    /\ gone' = [gone EXCEPT ![p] = TRUE]
    /\ UNCHANGED <<mailbox, sem, pc, id, idx, msg, stopped, sig, ncmd, shown>>
    /\ shared_unchanged

\* Where a write to the client may raise SIGPIPE, or read() returns 0 and
\* string_split dereferences a null command.
Writing(p) ==
    \/ pc[p] \in {"welcome", "idle"}
    \/ pc[p] = "scan" /\ idx[p] = id[p] /\ state[idx[p]]
    \/ pc[p] = "kill" /\ pid[idx[p]] = p
    \/ sig[p] /\ ~stopped[p]

\* The process dies where it stands; the shared tables keep its entry.
Crash(p) ==
    /\ alive(p) /\ gone[p] /\ Writing(p)
    /\ pc' = [pc EXCEPT ![p] = "crashed"]
    /\ sig' = [sig EXCEPT ![p] = FALSE]
    /\ UNCHANGED <<mailbox, sem, id, idx, msg, stopped, ncmd, gone, shown>>
    /\ shared_unchanged

-----------------------------------------------------------------------------
\* What the user decides, and what then happens by itself.
User(p) ==
    \/ Accept(p)
    \/ cmd_yell(p)
    \/ \E t \in TellIds : cmd_tell(p, t)
    \/ \E nm \in NickNames : cmd_name(p, nm)
    \/ Exit(p)
    \/ HangUp(p)

Work(p) ==
    \/ Login(p) \/ LoginDone(p) \/ print_welcome_msg(p)
    \/ ScanSlot(p) \/ ScanOther(p) \/ SemWait(p) \/ Recheck(p)
    \/ Kill(p) \/ KillSelf(p) \/ EndBroadcast(p)
    \/ CompareName(p) \/ SetName(p)

Step(p) == Work(p) \/ Logout(p) \/ Crash(p)

Next ==
    \/ ServerWait \/ ServerSpin
    \/ \E p \in Proc : User(p) \/ Step(p) \/ msg_handler(p)

Spec == Init /\ [][Next]_vars

\* The kernel schedules every runnable process and delivers every signal; it
\* owes the users nothing.
Fairness ==
    /\ WF_vars(ServerWait) /\ WF_vars(ServerSpin)
    /\ \A p \in Proc : WF_vars(Step(p)) /\ WF_vars(msg_handler(p))

FairSpec == Spec /\ Fairness

-----------------------------------------------------------------------------
(* Properties. *)

\* Every variable keeps its type.
TypeOK ==
    /\ spc \in {"accept", "wait", "spin"}
    /\ client_num \in Nat /\ min_id \in Ids
    /\ lock \in Nat /\ lock2 \in {0, 1}
    /\ state \in [Slots -> BOOLEAN]
    /\ pid \in [Slots -> Proc \cup {Server}]
    /\ name \in [Slots -> NickNames \cup {NoName}]
    /\ mailbox \in [Slots -> Messages \cup {NoMsg}]
    /\ sem \in [Slots -> Nat]
    /\ pc \in [Proc -> Alive \cup {"off", "done", "crashed"}]
    /\ id \in [Proc -> Slots]
    /\ idx \in [Proc -> 0..(max_client_num + 1)]
    /\ msg \in [Proc -> Messages]
    /\ stopped \in [Proc -> BOOLEAN]
    /\ sig \in [Proc -> BOOLEAN]
    /\ ncmd \in [Proc -> 0..(MaxCmds + 2)]
    /\ gone \in [Proc -> BOOLEAN]
    /\ shown \in [Proc -> SUBSET Messages]

\* p has taken the semaphore of slot i and has not signalled or posted yet.
Sending(p, i) == pc[p] \in {"recheck", "kill"} /\ idx[p] = i
\* p has been signalled as the user of slot i and has not run its handler yet.
Signalled(p, i) == sig[p] /\ id[p] = i

\* The semaphore of a slot passes from the sender to the handler of the
\* receiver: nobody has it while it is posted, and otherwise at most one
\* process does, so the mailbox has one writer or one reader at any time.
\* (broadcast, cmd_tell and msg_handler.)
OneHolder ==
    \A i \in Slots :
        /\ sem[i] \in {0, 1}
        /\ sem[i] = 1 => \A p \in Proc : ~Sending(p, i) /\ ~Signalled(p, i)
        /\ \A p, q \in Proc :
              /\ Sending(p, i) /\ Sending(q, i) => p = q
              /\ Signalled(p, i) /\ Signalled(q, i) => p = q
              /\ ~(Sending(p, i) /\ Signalled(q, i))

\* A client sees the messages of one sender in the order they were sent, and
\* none of them twice: no mailbox is overwritten before it was shown and no
\* signal shows an old one. (broadcast, cmd_tell and msg_handler.)
SenderOrder ==
    \A q \in Proc : sig[q] =>
        \A m \in shown[q] :
            m.from = mailbox[id[q]].from => m.n < mailbox[id[q]].n

\* The processes client_num counts: logged in and not logged out, the ones
\* that died without a logout included.
Registered ==
    {p \in Proc : /\ ~stopped[p] \/ pc[p] = "logout"
                  /\ pc[p] \notin {"off", "login"}}

\* The counter is exact: no login or logout is lost or counted twice, however
\* the processes interleave. (The critical sections of lock2 in main.)
ClientNumExact == client_num = Cardinality(Registered)

\* The server never has more than max_client_num users: its test of client_num
\* is made outside lock2, between two connections. (main.)
Capacity == client_num <= max_client_num

\* Mutual exclusion of the login and the logout. (lock2 in main.)
InLock2(p) ==
    \/ pc[p] = "enter"
    \/ stopped[p] /\ pc[p] \in Loop
OneInLock2 == \A p, q \in Proc : InLock2(p) /\ InLock2(q) => p = q

\* No id is skipped: at a login all ids below the one given are in use, in
\* whatever order users came and went before. (main: min_id is lowered by a
\* logout and raised by the search after a login.)
NoIdSkipped ==
    [][\A p \in Proc : id[p] = 0 /\ id'[p] # 0
          => \A i \in Ids : i < id'[p] => state[i]]_vars

\* A slot's semaphore can be had again: it is posted, or a living process is
\* going to post it. (broadcast's "Protection for client suddenly leave".)
NoLostLock ==
    \A i \in Ids :
        \/ sem[i] > 0
        \/ \E p \in Proc : alive(p) /\ (Sending(p, i) \/ Signalled(p, i))

\* The semaphore of a slot is lost only with a process that has left: one that
\* had the slot, or one that was killed while it held the semaphore of another.
\* Otherwise it is posted, or a living process is going to post it.
\* (broadcast, cmd_tell: every sem_wait has its sem_post here or in a handler.)
LostByLeaving ==
    \A i \in Ids :
        \/ sem[i] > 0
        \/ \E p \in Proc : alive(p) /\ (Sending(p, i) \/ Signalled(p, i))
        \/ \E p \in Proc :
              \/ pc[p] \in {"done", "crashed"} /\ id[p] = i
              \/ pc[p] = "crashed" /\ idx[p] = i

NobodyLeaves == \A p \in Proc : ~stopped[p] /\ pc[p] # "crashed"

\* Among users who stay every message reaches its receivers: a sender is not
\* caught forever between two slots. (broadcast, cmd_tell: sem_wait.)
BroadcastEnds ==
    []NobodyLeaves => \A p \in Proc : pc[p] \in Loop ~> pc[p] \notin Loop

Online(q) == id[q] \in Ids /\ state[id[q]] /\ pid[id[q]] = q

\* "All the users (including yourself) will get the message": a yell is shown
\* to everybody else who was in the table when it began and stays; the sender's
\* own copy is a plain write. (cmd_yell.)
YellReachesAll ==
    []NobodyLeaves =>
        \A p \in Proc : \A q \in Proc \ {p}, n \in 2..(MaxCmds + 1) :
            /\ pc[p] = "scan" /\ idx[p] = 1
            /\ msg[p].kind = "yell" /\ msg[p].n = n
            /\ Online(q)
            ~> \E m \in shown[q] : m.from = p /\ m.n = n

\* Unless a slot's semaphore is lost, every login reaches the prompt and every
\* logout ends. (main: lock2 held through the logout broadcast.)
SessionsMove ==
    []NoLostLock =>
        \A p \in Proc : /\ pc[p] = "login" ~> pc[p] = "idle"
                        /\ pc[p] = "logout" ~> pc[p] = "done"

-----------------------------------------------------------------------------
(* Expected of the code, and not kept by it; nothing above relies on these. *)

\* No two users have the same name, the initial one apart. (cmd_name.)
NamesUnique ==
    \A i, j \in Ids :
        i # j /\ state[i] /\ state[j] /\ name[i] = name[j] => name[i] = NoName

\* The first thing a client sees is the welcome. (main and msg_handler.)
WelcomeFirst ==
    \A p \in Proc : shown[p] # {} => Welcome(p) \in shown[p]

\* Every user in the table has a process that serves it. (run_shell at the
\* end of the client's input.)
NoGhost == \A i \in Ids : state[i] => alive(pid[i])

\* A tell to an id that no user has is answered and not waited on.
\* (cmd_tell with the id 0.)
TellToUser == \A p \in Proc : pc[p] = "wait" => idx[p] \in Ids

\* "Your server should always assign the smallest unused id to a new user":
\* the id given at a login is the least free slot. (main: the search for the
\* next min_id fails when the table is full and leaves an id that is in use.)
SmallestUnusedId ==
    [][\A p \in Proc : id[p] = 0 /\ id'[p] # 0
          => ~state[id'[p]] /\ \A i \in Ids : i < id'[p] => state[i]]_vars
=============================================================================
