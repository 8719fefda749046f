-------------------------- MODULE UserPipe_proofs --------------------------
(***************************************************************************)
(* Proofs about UserPipe, for every table size, every finite set of        *)
(* connections and every set of lines with "<n" and ">n". The inductive    *)
(* invariant has five layers:                                              *)
(*                                                                         *)
(*   UpTypes   the types of what single_cmd and the handlers use           *)
(*   UpControl what the program counters say about slots and fifos         *)
(*   OneOwner  who has the mailbox of a slot                               *)
(*   MailFits  what the owner of a mailbox will find in it                 *)
(*   Nested    SIGUSR2 does not come while its handler runs                *)
(*                                                                         *)
(* They depend on each other: the handler stores a fifo because the        *)
(* mailbox still has the path its sender put there, and it has because     *)
(* nobody else had the mailbox in between.                                 *)
(*                                                                         *)
(* Above them are the rows of the table (OwnRows) and the pipes on their   *)
(* way to it (OnItsWay). For these no two users may have the same id, which*)
(* is so as long as the table does not fill up (Places).                   *)
(***************************************************************************)
EXTENDS UserPipe, FiniteSetTheorems, TLAPS

\* What a mailbox has: a text, with which SIGUSR1 is sent, or the path of a
\* fifo, with which SIGUSR2 is.
TextKinds == Kinds \cup {"none", "received", "piped"}
Args == TellIds \cup NickNames \cup Slots
Texts == [from : Proc \cup {Server}, n : Nat, kind : TextKinds, arg : Args]
Paths == [from : Proc, n : Nat, kind : {"fifo"}, arg : Fifos]

\* The local variables of single_cmd.
Jobs == [in : Slots, out : Slots, read_fd : Fifos \cup {NoFifo},
         out_state : BOOLEAN, received : BOOLEAN, to : Proc \cup {Server},
         fifo : Fifos \cup {NoFifo}]

\* The types of the shared tables and of the processes, as far as the hand-over
\* of a mailbox depends on them.
SharedTypes ==
    /\ min_id \in Ids
    /\ state \in [Slots -> BOOLEAN]
    /\ pid \in [Slots -> Proc \cup {Server}]
    /\ mailbox \in [Slots -> Texts \cup Paths]
    /\ sem \in [Slots -> Nat]
ProcTypes ==
    /\ pc \in [Proc -> Alive \cup {"off", "done", "crashed"}]
    /\ id \in [Proc -> Slots]
    /\ idx \in [Proc -> 0..(max_client_num + 1)]
    /\ msg \in [Proc -> Texts]
    /\ stopped \in [Proc -> BOOLEAN]
    /\ sig \in [Proc -> BOOLEAN]
    /\ ncmd \in [Proc -> Nat]
PipeTypes ==
    /\ user_pipe \in [Slots -> [Slots -> Fifos \cup {NoFifo}]]
    /\ \A i \in Slots : user_pipe[0][i] = NoFifo /\ user_pipe[i][0] = NoFifo
    /\ from_id \in [Slots -> Slots]
    /\ fifos \in Nat
    /\ up \in [Proc -> {"none", "in", "out", "create", "wait", "recheck",
                        "kill", "open", "fork"}]
    /\ job \in [Proc -> Jobs]
    /\ usr2 \in [Proc -> BOOLEAN]
    /\ hand \in [Proc -> {"none", "open", "store"}]
UpTypes == SharedTypes /\ ProcTypes /\ PipeTypes

\* What the program counters say: only a process with a slot is signalled, a
\* slot's pid knows the slot as its own, and a sender on its way to a mailbox
\* has a slot and a fifo.
PcControl ==
    \A p \in Proc :
        /\ pc[p] \in {"off", "login"} =>
              id[p] = 0 /\ ~sig[p] /\ ~usr2[p] /\ hand[p] = "none"
        /\ pc[p] \notin {"off", "login"} => id[p] \in Ids
        /\ pc[p] \in {"wait", "recheck", "kill"} => idx[p] \in Slots
        /\ up[p] \in {"wait", "recheck", "kill", "open"} =>
              job[p].out \in Ids /\ job[p].fifo \in Fifos
SlotControl ==
    \A i \in Slots :
        /\ pid[i] \in Proc => i \in Ids /\ id[pid[i]] = i
        /\ mailbox[i].kind = "fifo" => from_id[i] \in Ids
UpControl == PcControl /\ SlotControl

\* The four ways in which a process has the mailbox of slot i.
Owns(p, k, i) ==
    \/ k = "text" /\ Sending(p, i)
    \/ k = "text'" /\ Signalled(p, i)
    \/ k = "path" /\ PipeSending(p, i)
    \/ k = "path'" /\ PipeSignalled(p, i)
Ways == {"text", "text'", "path", "path'"}

\* Nobody has it while the semaphore is posted, and otherwise at most one
\* process does, in one way.
OneOwner ==
    \A i \in Ids :
        /\ sem[i] \in {0, 1}
        /\ sem[i] = 1 => \A p \in Proc, k \in Ways : ~Owns(p, k, i)
        /\ \A p, q \in Proc, k, l \in Ways :
              Owns(p, k, i) /\ Owns(q, l, i) => p = q /\ k = l

\* A text for whoever shows it, a path for whoever opens it.
MailFits ==
    \A i \in Ids, p \in Proc :
        /\ Owns(p, "text", i) \/ Owns(p, "text'", i) => mailbox[i] \in Texts
        /\ Owns(p, "path", i) \/ Owns(p, "path'", i) => mailbox[i] \in Paths

\* The handler has the mailbox that the signal would be about.
Nested == \A p \in Proc : hand[p] # "none" => ~usr2[p]

UpInv == UpTypes /\ UpControl /\ OneOwner /\ MailFits /\ Nested

-----------------------------------------------------------------------------
USE SizeAssumption, ProcAssumption, InputAssumption, UpAssumption

\* create_shared_mem and the empty user pipes.
LEMMA UpInitInv == UpInit => UpInv
<1> SUFFICES ASSUME UpInit PROVE UpInv
  OBVIOUS
<1> USE DEF UpInit, Init
<1>1. 0 \in Slots /\ 1 \in Ids /\ \A i \in Ids : i \in Slots /\ i # 0
  BY DEF Slots, Ids
<1>2. NoMsg \in Texts /\ \A p \in Proc : Welcome(p) \in Texts
  BY <1>1 DEF NoMsg, Welcome, Texts, TextKinds, Kinds, Args
<1>3. SharedTypes
  BY <1>1, <1>2 DEF SharedTypes
<1>4. ProcTypes
  BY <1>1, <1>2 DEF ProcTypes
<1>5. PipeTypes
  BY <1>1 DEF PipeTypes, NoJob, Jobs
<1>6. PcControl
  BY DEF PcControl
<1>7. SlotControl
  BY <1>2 DEF SlotControl, NoMsg
<1>8. \A p \in Proc, k \in Ways, i \in Ids : ~Owns(p, k, i)
  BY DEF Owns, Sending, Signalled, PipeSending, PipeSignalled
<1>9. OneOwner
  BY <1>1, <1>8 DEF OneOwner
<1>10. MailFits
  BY <1>8 DEF MailFits, Ways
<1>11. Nested
  BY DEF Nested
<1> QED
  BY <1>3, <1>4, <1>5, <1>6, <1>7, <1>9, <1>10, <1>11
     DEF UpInv, UpTypes, UpControl

\* Texts and paths are told apart by their kind.
LEMMA MailKinds ==
    /\ \A m \in Texts : m.kind # "fifo"
    /\ \A m \in Paths : m.kind = "fifo" /\ m.arg \in Fifos
    /\ \A x \in Fifos : Path(x) \in Paths
BY DEF Texts, TextKinds, Kinds, Paths, Path, Fifos

\* What broadcast and cmd_tell send is a text.
LEMMA MessageIsText ==
    ASSUME ProcTypes, NEW p \in Proc, NEW k \in TextKinds, NEW a \in Args
    PROVE  Message(p, k, a) \in Texts
BY DEF ProcTypes, Message, Texts

\* The shared tables keep their types.
LEMMA SharedTypesNext ==
    ASSUME UpInv, [UpNext]_all_vars PROVE SharedTypes'
<1> USE DEF UpInv, UpTypes, UpControl
<1>a. Ids \subseteq Slots
  BY DEF Ids, Slots
<1>0. ASSUME UNCHANGED <<min_id, state, pid, mailbox, sem>> PROVE SharedTypes'
  BY <1>0 DEF SharedTypes
<1>1. CASE UNCHANGED all_vars
  BY <1>0, <1>1 DEF all_vars, vars, connect_state, client_list
<1>2. CASE ServerWait \/ ServerSpin
  BY <1>0, <1>2 DEF ServerWait, ServerSpin, connect_state, client_list
<1>3. ASSUME NEW p \in Proc, User(p)
      PROVE  SharedTypes'
  BY <1>0, <1>3 DEF User, Accept, cmd_yell, cmd_tell, cmd_name, Exit, HangUp,
         shared_unchanged, connect_state, client_list
<1>4. ASSUME NEW p \in Proc, Login(p)
      PROVE  SharedTypes'
  BY <1>4, <1>a DEF Login, SharedTypes
<1>5. ASSUME NEW p \in Proc, LoginDone(p)
      PROVE  SharedTypes'
  <2>1. min_id' \in Ids
    BY <1>5 DEF LoginDone, FreeIds, SharedTypes
  <2> QED
    BY <1>5, <2>1 DEF LoginDone, client_list, SharedTypes
<1>6. ASSUME NEW p \in Proc,
             \/ print_welcome_msg(p) \/ ScanSlot(p) \/ ScanOther(p) \/ Kill(p)
             \/ EndBroadcast(p) \/ CompareName(p) \/ SetName(p)
      PROVE  SharedTypes'
  BY <1>0, <1>6 DEF print_welcome_msg, ScanSlot, ScanOther, Kill, EndBroadcast,
         CompareName, SetName, shared_unchanged, connect_state, client_list
<1>7. ASSUME NEW p \in Proc, SemWait(p)
      PROVE  SharedTypes'
  <2>1. idx[p] \in Slots /\ msg[p] \in Texts
    BY <1>7 DEF SemWait, PcControl, ProcTypes
  <2> QED
    BY <1>7, <2>1 DEF SemWait, SlotFree, shared_unchanged, connect_state,
           SharedTypes
<1>8. ASSUME UNCHANGED <<min_id, state, pid, mailbox>>,
             NEW j \in Slots, sem' = [sem EXCEPT ![j] = @ + 1]
      PROVE  SharedTypes'
  BY <1>8 DEF SharedTypes
<1>9. ASSUME NEW p \in Proc, Recheck(p)
      PROVE  SharedTypes'
  <2>1. idx[p] \in Slots
    BY <1>9 DEF Recheck, PcControl
  <2> QED
    BY <1>0, <1>8, <1>9, <2>1 DEF Recheck, shared_unchanged, connect_state
<1>10. ASSUME NEW p \in Proc, KillSelf(p) \/ msg_handler(p)
      PROVE  SharedTypes'
  <2>1. id[p] \in Slots
    BY DEF ProcTypes
  <2> QED
    BY <1>8, <1>10, <2>1 DEF KillSelf, msg_handler, PostOwn, shared_unchanged,
           connect_state
<1>11. ASSUME NEW p \in Proc, Logout(p)
      PROVE  SharedTypes'
  <2>1. id[p] \in Ids
    BY <1>11 DEF Logout, PcControl
  <2> QED
    BY <1>11, <2>1, <1>a DEF Logout, Leave, SharedTypes
<1>12. ASSUME NEW p \in Proc,
              \/ (\E l \in UpLines : UpLine(p, l[2], l[3]))
              \/ print_user_pipe_in(p) \/ print_user_pipe_out(p)
              \/ Decide(p) \/ KillPipe(p) \/ (\E q \in Proc : Open(p, q))
              \/ Fork(p) \/ user_pipe_handler(p)
      PROVE  SharedTypes'
  BY <1>0, <1>12 DEF UpLine, print_user_pipe_in, print_user_pipe_out, Decide,
         KillPipe, Open, Fork, user_pipe_handler, shared_unchanged, vars,
         connect_state, client_list
<1>13. ASSUME NEW p \in Proc, create_user_pipe(p)
      PROVE  SharedTypes'
  <2>1. job[p].out \in Slots /\ Path(job[p].fifo) \in Paths
    BY <1>13, <1>a, MailKinds DEF create_user_pipe, At, PcControl
  <2> QED
    BY <1>13, <2>1 DEF create_user_pipe, PipeSlotFree, shared_unchanged,
           connect_state, SharedTypes
<1>14. ASSUME NEW p \in Proc, RecheckPipe(p)
      PROVE  SharedTypes'
  <2>1. job[p].out \in Slots
    BY <1>14, <1>a DEF RecheckPipe, At, PcControl
  <2> QED
    BY <1>0, <1>8, <1>14, <2>1 DEF RecheckPipe, shared_unchanged, connect_state
<1>15. ASSUME NEW p \in Proc, StoreFd(p)
      PROVE  SharedTypes'
  <2>1. id[p] \in Slots
    BY DEF ProcTypes
  <2> QED
    BY <1>8, <1>15, <2>1 DEF StoreFd, PostOwn, shared_unchanged, connect_state
<1> QED
  BY <1>1, <1>2, <1>3, <1>4, <1>5, <1>6, <1>7, <1>9, <1>10, <1>11, <1>12,
     <1>13, <1>14, <1>15
     DEF UpNext, BaseStep, Work, LogoutPipes, Handler, Types, PipeStep

\* The variables of the processes keep their types.
LEMMA ProcTypesNext ==
    ASSUME UpInv, [UpNext]_all_vars PROVE ProcTypes'
<1> USE DEF UpInv, UpTypes, UpControl
<1>a. Ids \subseteq Slots /\ 1 \in 0..(max_client_num + 1) /\ 0 \in Args
  BY DEF Ids, Slots, Args
<1>b. /\ {"yell", "tell", "name", "login", "logout", "received", "piped"}
            \subseteq TextKinds
      /\ TellIds \subseteq Args /\ NickNames \subseteq Args /\ Slots \subseteq Args
  BY DEF TextKinds, Kinds, Args
<1>0. ASSUME UNCHANGED proc_vars PROVE ProcTypes'
  BY <1>0 DEF ProcTypes, proc_vars
<1>s. ASSUME NEW p \in Proc, NEW k \in TextKinds, NEW a \in Args,
             StartBroadcast(p, k, a), UNCHANGED <<id, stopped, sig>>
      PROVE  ProcTypes'
  <2>1. Message(p, k, a) \in Texts
    BY <1>s, MessageIsText
  <2> QED
    BY <1>s, <1>a, <2>1 DEF StartBroadcast, ProcTypes, Alive, Loop
<1>n. ASSUME NEW p \in Proc, pc[p] \in Loop, NextSlot(p),
             pc[p] = "scan" => idx[p] \in Ids
      PROVE  /\ pc' \in [Proc -> Alive \cup {"off", "done", "crashed"}]
             /\ idx' \in [Proc -> 0..(max_client_num + 1)]
  <2>1. idx[p] \in 0..max_client_num
    BY <1>n DEF PcControl, Loop, Slots, Ids
  <2>2. idx[p] + 1 \in 0..(max_client_num + 1)
    BY <2>1
  <2> QED
    BY <1>n, <2>2 DEF NextSlot, ProcTypes, Alive, Loop
<1>1. CASE UNCHANGED all_vars
  BY <1>0, <1>1 DEF all_vars, vars
<1>2. CASE ServerWait \/ ServerSpin
  BY <1>0, <1>2 DEF ServerWait, ServerSpin
<1>3. ASSUME NEW p \in Proc, Accept(p) \/ Exit(p) \/ HangUp(p)
      PROVE  ProcTypes'
  BY <1>3, ZenonT(30) DEF Accept, Exit, HangUp, ProcTypes, Alive
<1>4. ASSUME NEW p \in Proc,
             \/ cmd_yell(p) \/ print_welcome_msg(p) \/ Logout(p)
      PROVE  ProcTypes'
  BY <1>4, <1>s, <1>a, <1>b DEF cmd_yell, print_welcome_msg, Logout
<1>5. ASSUME NEW p \in Proc, NEW t \in TellIds, cmd_tell(p, t)
      PROVE  ProcTypes'
  <2>1. Message(p, "tell", t) \in Texts
    BY <1>b, MessageIsText
  <2>2. UserExists(t) => t \in 0..(max_client_num + 1)
    BY DEF UserExists
  <2> QED
    BY <1>5, <2>1, <2>2 DEF cmd_tell, ProcTypes, Alive, Loop
<1>6. ASSUME NEW p \in Proc, NEW nm \in NickNames, cmd_name(p, nm)
      PROVE  ProcTypes'
  <2>1. Message(p, "name", nm) \in Texts
    BY <1>b, MessageIsText
  <2> QED
    BY <1>6, <2>1, <1>a DEF cmd_name, ProcTypes, Alive
<1>7. ASSUME NEW p \in Proc, Login(p) \/ LoginDone(p)
      PROVE  ProcTypes'
  BY <1>7, <1>a DEF Login, LoginDone, SharedTypes, ProcTypes, Alive
<1>8. ASSUME NEW p \in Proc, ScanOther(p) \/ SemWait(p)
      PROVE  ProcTypes'
  BY <1>8 DEF ScanOther, SemWait, ProcTypes, Alive, Loop
<1>9. ASSUME NEW p \in Proc, ScanSlot(p) \/ KillSelf(p)
      PROVE  ProcTypes'
  BY <1>9, <1>n DEF ScanSlot, KillSelf, ProcTypes, Loop
<1>10. ASSUME NEW p \in Proc, Recheck(p)
      PROVE  ProcTypes'
  <2>1. CASE state[idx[p]]
    BY <1>10, <2>1 DEF Recheck, ProcTypes, Alive, Loop
  <2>2. CASE ~state[idx[p]]
    BY <1>10, <2>2, <1>n DEF Recheck, ProcTypes, Loop
  <2> QED
    BY <2>1, <2>2
<1>11. ASSUME NEW p \in Proc, Kill(p)
      PROVE  ProcTypes'
  <2>1. sig' \in [Proc -> BOOLEAN]
    BY <1>11 DEF Kill, ProcTypes
  <2> QED
    BY <1>11, <2>1, <1>n DEF Kill, ProcTypes, Loop
<1>12. ASSUME NEW p \in Proc, EndBroadcast(p)
      PROVE  ProcTypes'
  BY <1>12 DEF EndBroadcast, ProcTypes, Alive
<1>13. ASSUME NEW p \in Proc, CompareName(p)
      PROVE  ProcTypes'
  BY <1>13 DEF CompareName, ProcTypes, Alive, Ids
<1>14. ASSUME NEW p \in Proc, SetName(p)
      PROVE  ProcTypes'
  <2>1. msg[p].arg \in Args
    BY DEF ProcTypes, Texts
  <2> QED
    BY <1>14, <2>1, <1>s, <1>b DEF SetName
<1>15. ASSUME NEW p \in Proc, msg_handler(p)
      PROVE  ProcTypes'
  BY <1>15 DEF msg_handler, ProcTypes
<1>16. ASSUME NEW p \in Proc, \E l \in UpLines : UpLine(p, l[2], l[3])
      PROVE  ProcTypes'
  BY <1>16 DEF UpLine, ProcTypes
<1>17. ASSUME NEW p \in Proc, print_user_pipe_in(p) \/ print_user_pipe_out(p)
      PROVE  ProcTypes'
  <2>1. job[p].in \in Args /\ job[p].out \in Args
    BY <1>b DEF PipeTypes, Jobs
  <2>2. UNCHANGED <<id, stopped, sig>>
    BY <1>17 DEF print_user_pipe_in, print_user_pipe_out
  <2>3. CASE UNCHANGED <<pc, idx, msg, ncmd>>
    BY <2>2, <2>3 DEF ProcTypes
  <2>4. CASE StartBroadcast(p, "received", job[p].in)
    BY <2>1, <2>2, <2>4, <1>s, <1>b
  <2>5. CASE StartBroadcast(p, "piped", job[p].out)
    BY <2>1, <2>2, <2>5, <1>s, <1>b
  <2> QED
    BY <1>17, <2>3, <2>4, <2>5
       DEF print_user_pipe_in, print_user_pipe_out, Announce
<1>18. ASSUME NEW p \in Proc,
              \/ Decide(p) \/ KillPipe(p) \/ (\E q \in Proc : Open(p, q))
              \/ Fork(p) \/ user_pipe_handler(p) \/ RecheckPipe(p) \/ StoreFd(p)
      PROVE  ProcTypes'
  BY <1>0, <1>18 DEF Decide, KillPipe, Open, Fork, user_pipe_handler,
         RecheckPipe, StoreFd, vars
<1>19. ASSUME NEW p \in Proc, create_user_pipe(p)
      PROVE  ProcTypes'
  BY <1>19 DEF create_user_pipe, ProcTypes
<1> QED
  BY <1>1, <1>2, <1>3, <1>4, <1>5, <1>6, <1>7, <1>8, <1>9, <1>10, <1>11,
     <1>12, <1>13, <1>14, <1>15, <1>16, <1>17, <1>18, <1>19
     DEF UpNext, BaseStep, User, Work, LogoutPipes, Handler, Types, PipeStep

\* The fields of a job that is changed in one field keep their types.
LEMMA JobFields ==
    ASSUME NEW j \in Jobs
    PROVE  /\ \A b \in BOOLEAN : [j EXCEPT !.received = b] \in Jobs
           /\ \A q \in Proc \cup {Server} : [j EXCEPT !.to = q] \in Jobs
           /\ \A x \in Fifos : [j EXCEPT !.fifo = x] \in Jobs
BY DEF Jobs

\* A line begins with what it read of the tables (single_cmd).
LEMMA JobBegins ==
    ASSUME NEW i \in Slots, NEW o \in Slots, NEW x \in Fifos \cup {NoFifo},
           NEW b \in BOOLEAN
    PROVE  [NoJob EXCEPT !.in = i, !.out = o, !.read_fd = x, !.out_state = b]
              \in Jobs
BY DEF NoJob, Jobs

\* The tables of the user pipes keep their types; the handler stores a fifo,
\* and in the row and the column of a user.
LEMMA PipeTypesNext ==
    ASSUME UpInv, [UpNext]_all_vars PROVE PipeTypes'
<1> USE DEF UpInv, UpTypes, UpControl
<1>a. Ids \subseteq Slots /\ 0 \in Slots /\ 0 \notin Ids
  BY DEF Ids, Slots
<1>0. ASSUME UNCHANGED up_vars PROVE PipeTypes'
  BY <1>0 DEF up_vars, PipeTypes
<1>1. CASE UNCHANGED all_vars
  BY <1>0, <1>1 DEF all_vars
<1>2. ASSUME NEW p \in Proc, LogoutPipes(p)
      PROVE  PipeTypes'
  <2>1. user_pipe' \in [Slots -> [Slots -> Fifos \cup {NoFifo}]]
    BY <1>2 DEF LogoutPipes, ResetPipes, PipeTypes
  <2>2. \A i \in Slots : user_pipe'[0][i] = NoFifo /\ user_pipe'[i][0] = NoFifo
    BY <1>2, <1>a DEF LogoutPipes, ResetPipes, PipeTypes
  <2> QED
    BY <1>2, <2>1, <2>2 DEF LogoutPipes, PipeTypes
<1>3. ASSUME NEW p \in Proc, NEW l \in UpLines, UpLine(p, l[2], l[3])
      PROVE  PipeTypes'
  <2>1. l[2] \in Slots /\ l[3] \in Slots
    OBVIOUS
  <2>2. user_pipe[id[p]][l[2]] \in Fifos \cup {NoFifo} /\ state[l[3]] \in BOOLEAN
    BY <2>1 DEF PipeTypes, ProcTypes, SharedTypes
  <2>3. job' \in [Proc -> Jobs]
    BY <1>3, <2>1, <2>2, JobBegins DEF UpLine, PipeTypes
  <2> QED
    BY <1>3, <2>3 DEF UpLine, PipeTypes
<1>4. ASSUME NEW p \in Proc, print_user_pipe_in(p)
      PROVE  PipeTypes'
  <2>1. CanReceive(p) \in BOOLEAN /\ job[p] \in Jobs
    BY DEF CanReceive, PipeTypes
  <2>2. job' = [job EXCEPT ![p] = [job[p] EXCEPT !.received = CanReceive(p)]]
    BY <1>4 DEF print_user_pipe_in
  <2>3. job' \in [Proc -> Jobs]
    BY <2>1, <2>2, JobFields DEF PipeTypes
  <2> QED
    BY <1>4, <2>3 DEF print_user_pipe_in, PipeTypes
<1>5. ASSUME NEW p \in Proc, print_user_pipe_out(p)
      PROVE  PipeTypes'
  <2> DEFINE to == IF CanPipe(p) THEN pid[job[p].out] ELSE Server
  <2>1. job[p] \in Jobs /\ job[p].out \in Slots
    BY DEF PipeTypes, Jobs
  <2>2. to \in Proc \cup {Server}
    BY <2>1 DEF SharedTypes
  <2>3. job' = [job EXCEPT ![p] = [job[p] EXCEPT !.to = to]]
    BY <1>5 DEF print_user_pipe_out
  <2>4. job' \in [Proc -> Jobs]
    BY <2>1, <2>2, <2>3, JobFields DEF PipeTypes
  <2> QED
    BY <1>5, <2>4 DEF print_user_pipe_out, PipeTypes
<1>6. ASSUME NEW p \in Proc, Decide(p)
      PROVE  PipeTypes'
  <2>1. CASE Creates(p)
    <3>1. job[p] \in Jobs /\ job[p].to \in Proc \cup {Server}
      BY DEF PipeTypes, Jobs
    <3>2. fifos' \in Nat
      BY <1>6, <2>1 DEF Decide, PipeTypes
    <3>3. Fifo(fifos', p, job[p].to) \in Fifos
      BY <3>1, <3>2 DEF Fifo, Fifos
    <3>4. job' = [job EXCEPT ![p] = [job[p] EXCEPT !.fifo = Fifo(fifos', p, job[p].to)]]
      BY <1>6, <2>1 DEF Decide
    <3>5. job' \in [Proc -> Jobs]
      BY <3>1, <3>3, <3>4, JobFields DEF PipeTypes
    <3> QED
      BY <1>6, <2>1, <3>2, <3>5 DEF Decide, PipeTypes
  <2>2. CASE ~Creates(p)
    BY <1>6, <2>2 DEF Decide, PipeTypes
  <2> QED
    BY <2>1, <2>2
<1>7. ASSUME NEW p \in Proc, create_user_pipe(p)
      PROVE  PipeTypes'
  BY <1>7 DEF create_user_pipe, SetFrom, ProcTypes, PipeTypes
<1>8. ASSUME NEW p \in Proc, RecheckPipe(p) \/ \E q \in Proc : Open(p, q)
      PROVE  PipeTypes'
  <2>1. UNCHANGED <<user_pipe, from_id, fifos, job, usr2>>
    BY <1>8 DEF RecheckPipe, Open
  <2>2. up' \in [Proc -> {"none", "in", "out", "create", "wait", "recheck",
                          "kill", "open", "fork"}]
    BY <1>8 DEF RecheckPipe, Open, PipeTypes
  <2>3. hand' \in [Proc -> {"none", "open", "store"}]
    BY <1>8 DEF RecheckPipe, Open, PipeTypes
  <2> QED
    BY <2>1, <2>2, <2>3 DEF PipeTypes
<1>9. ASSUME NEW p \in Proc, KillPipe(p) \/ user_pipe_handler(p)
      PROVE  PipeTypes'
  <2>1. usr2' \in [Proc -> BOOLEAN]
    BY <1>9 DEF KillPipe, user_pipe_handler, PipeTypes
  <2>3. /\ up' \in [Proc -> {"none", "in", "out", "create", "wait", "recheck",
                             "kill", "open", "fork"}]
        /\ hand' \in [Proc -> {"none", "open", "store"}]
    <3>1. CASE KillPipe(p)
      BY <3>1 DEF KillPipe, PipeTypes
    <3>2. CASE user_pipe_handler(p)
      BY <3>2 DEF user_pipe_handler, PipeTypes
    <3> QED
      BY <1>9, <3>1, <3>2
  <2>2. UNCHANGED <<user_pipe, from_id, fifos, job>>
    BY <1>9 DEF KillPipe, user_pipe_handler
  <2> QED
    BY <2>1, <2>2, <2>3 DEF PipeTypes
<1>10. ASSUME NEW p \in Proc, Fork(p)
      PROVE  PipeTypes'
  <2>1. NoJob \in Jobs
    BY <1>a DEF NoJob, Jobs
  <2>2. id[p] \in Slots /\ job[p].in \in Slots
    BY DEF ProcTypes, PipeTypes, Jobs
  <2>3. user_pipe' \in [Slots -> [Slots -> Fifos \cup {NoFifo}]]
    BY <1>10, <2>2 DEF Fork, DropPipe, PipeTypes
  <2>4. \A i \in Slots : user_pipe'[0][i] = NoFifo /\ user_pipe'[i][0] = NoFifo
    BY <1>10, <2>2, <1>a DEF Fork, DropPipe, PipeTypes
  <2> QED
    BY <1>10, <2>1, <2>3, <2>4 DEF Fork, PipeTypes
<1>11. ASSUME NEW p \in Proc, StoreFd(p)
      PROVE  PipeTypes'
  <2>1. id[p] \in Ids
    BY <1>11 DEF StoreFd, PcControl
  <2>2. mailbox[id[p]] \in Paths
    <3>1. Owns(p, "path'", id[p])
      BY <1>11 DEF StoreFd, Owns, PipeSignalled
    <3> QED
      BY <2>1, <3>1 DEF MailFits
  <2>3. mailbox[id[p]].arg \in Fifos /\ from_id[id[p]] \in Ids
    BY <2>1, <2>2, <1>a, MailKinds DEF SlotControl
  <2>4. user_pipe' \in [Slots -> [Slots -> Fifos \cup {NoFifo}]]
    BY <1>11, <2>1, <2>3, <1>a DEF StoreFd, PipeTypes
  <2>5. \A i \in Slots : user_pipe'[0][i] = NoFifo /\ user_pipe'[i][0] = NoFifo
    BY <1>11, <2>1, <2>3, <1>a DEF StoreFd, PipeTypes
  <2> QED
    BY <1>11, <2>4, <2>5 DEF StoreFd, PipeTypes
<1> QED
  BY <1>0, <1>1, <1>2, <1>3, <1>4, <1>5, <1>6, <1>7, <1>8, <1>9, <1>10, <1>11
     DEF UpNext, BaseStep, Handler, Types, PipeStep

\* What the program counters say stays true.
LEMMA PcControlNext ==
    ASSUME UpInv, [UpNext]_all_vars PROVE PcControl'
<1> USE DEF UpInv, UpTypes, UpControl
<1>a. /\ pc \in [Proc -> Alive \cup {"off", "done", "crashed"}]
      /\ id \in [Proc -> Slots]
      /\ idx \in [Proc -> 0..(max_client_num + 1)]
      /\ sig \in [Proc -> BOOLEAN] /\ usr2 \in [Proc -> BOOLEAN]
      /\ up \in [Proc -> {"none", "in", "out", "create", "wait", "recheck",
                          "kill", "open", "fork"}]
      /\ hand \in [Proc -> {"none", "open", "store"}]
  BY DEF ProcTypes, PipeTypes
<1>b. Ids \subseteq Slots /\ min_id \in Ids /\ 0 \notin Ids
  BY DEF Ids, Slots, SharedTypes
<1>c. /\ job \in [Proc -> Jobs]
      /\ pid \in [Slots -> Proc \cup {Server}]
  BY DEF PipeTypes, SharedTypes
\* The steps of MultiProc, which leave the fifos alone.
<1>0. ASSUME NEW p \in Proc, UNCHANGED <<up, job, usr2, hand>>,
             \A r \in Proc \ {p} :
                /\ pc'[r] = pc[r] /\ idx'[r] = idx[r] /\ id'[r] = id[r]
                /\ sig'[r] => sig[r],
             sig'[p] => sig[p],
             \/ pc'[p] \in {"off", "login"} /\ pc[p] \in {"off", "login"}
                   /\ id'[p] = id[p]
             \/ pc'[p] \notin {"off", "login"} /\ id'[p] \in Ids,
             pc'[p] \in {"wait", "recheck", "kill"} => idx'[p] \in Slots
      PROVE  PcControl'
  BY <1>0 DEF PcControl
<1>1. CASE UNCHANGED all_vars
  BY <1>1 DEF all_vars, vars, proc_vars, up_vars, PcControl
<1>2. CASE (ServerWait \/ ServerSpin) /\ UNCHANGED up_vars
  BY <1>2 DEF ServerWait, ServerSpin, proc_vars, up_vars, PcControl
<1>3. ASSUME NEW p \in Proc,
             \/ Accept(p) \/ cmd_yell(p) \/ Exit(p) \/ HangUp(p)
             \/ \E nm \in NickNames : cmd_name(p, nm),
             UNCHANGED up_vars
      PROVE  PcControl'
  BY <1>0, <1>3, <1>a DEF Accept, cmd_yell, Exit, HangUp, cmd_name, MayType,
         alive, StartBroadcast, up_vars, PcControl
<1>4. ASSUME NEW p \in Proc, NEW t \in TellIds, cmd_tell(p, t), UNCHANGED up_vars
      PROVE  PcControl'
  <2>1. UserExists(t) => t \in Slots
    BY DEF UserExists, Slots
  <2> QED
    BY <1>0, <1>4, <2>1, <1>a DEF cmd_tell, MayType, up_vars, PcControl
<1>5. ASSUME NEW p \in Proc, Login(p), UNCHANGED up_vars
      PROVE  PcControl'
  BY <1>0, <1>5, <1>a, <1>b DEF Login, up_vars
<1>6. ASSUME NEW p \in Proc,
             LoginDone(p) \/ print_welcome_msg(p) \/ EndBroadcast(p),
             UNCHANGED up_vars
      PROVE  PcControl'
  BY <1>0, <1>6, <1>a DEF LoginDone, print_welcome_msg, EndBroadcast,
         StartBroadcast, up_vars, PcControl
<1>7. ASSUME NEW p \in Proc, ScanSlot(p) \/ ScanOther(p), UNCHANGED up_vars
      PROVE  PcControl'
  BY <1>0, <1>7, <1>a, <1>b DEF ScanSlot, ScanOther, NextSlot, up_vars,
         PcControl
<1>8. ASSUME NEW p \in Proc, SemWait(p) \/ KillSelf(p), UNCHANGED up_vars
      PROVE  PcControl'
  BY <1>0, <1>8, <1>a DEF SemWait, KillSelf, NextSlot, up_vars, PcControl
<1>9. ASSUME NEW p \in Proc, Recheck(p), UNCHANGED up_vars
      PROVE  PcControl'
  BY <1>0, <1>9, <1>a DEF Recheck, NextSlot, up_vars, PcControl
<1>10. ASSUME NEW p \in Proc, Kill(p), UNCHANGED up_vars
      PROVE  PcControl'
  <2>1. PICK j \in Slots : j = idx[p]
    BY <1>10 DEF Kill, PcControl
  <2>2. \A r \in Proc : sig'[r] => sig[r] \/ id[r] \in Ids
    BY <1>10, <2>1, <1>a DEF Kill, alive, SlotControl
  <2>3. /\ UNCHANGED id /\ \A r \in Proc \ {p} : pc'[r] = pc[r] /\ idx'[r] = idx[r]
        /\ pc'[p] \in {"idle", "scan"} /\ pc[p] = "kill"
    BY <1>10, <1>a DEF Kill, NextSlot
  <2> QED
    BY <1>10, <2>2, <2>3, <1>b DEF up_vars, PcControl
<1>11. ASSUME NEW p \in Proc, CompareName(p) \/ SetName(p), UNCHANGED up_vars
      PROVE  PcControl'
  BY <1>0, <1>11, <1>a DEF CompareName, SetName, StartBroadcast, up_vars,
         PcControl
<1>12. ASSUME NEW p \in Proc, LogoutPipes(p)
      PROVE  PcControl'
  BY <1>0, <1>12, <1>a DEF LogoutPipes, Logout, StartBroadcast, PcControl
<1>13. ASSUME NEW p \in Proc, Handler(p)
      PROVE  PcControl'
  BY <1>13, <1>a DEF Handler, msg_handler, up_vars, PcControl
\* The steps of a line.
<1>14. ASSUME NEW p \in Proc, NEW l \in UpLines, UpLine(p, l[2], l[3])
      PROVE  PcControl'
  BY <1>14, <1>a, <1>c DEF UpLine, PcControl
<1>15. ASSUME NEW p \in Proc, print_user_pipe_in(p) \/ print_user_pipe_out(p)
      PROVE  PcControl'
  <2>1. /\ UNCHANGED <<id, sig, usr2, hand>>
        /\ \A r \in Proc \ {p} : /\ pc'[r] = pc[r] /\ idx'[r] = idx[r]
                                 /\ up'[r] = up[r] /\ job'[r] = job[r]
        /\ pc[p] = "idle" /\ pc'[p] \in {"idle", "scan"}
        /\ up'[p] \in {"out", "create"}
    BY <1>15, <1>a, <1>c DEF print_user_pipe_in, print_user_pipe_out, At,
           Announce, StartBroadcast
  <2> QED
    BY <2>1 DEF PcControl
<1>16. ASSUME NEW p \in Proc, Decide(p)
      PROVE  PcControl'
  <2>1. UNCHANGED <<pc, id, idx, sig, usr2, hand>> /\ pc[p] = "idle"
    BY <1>16 DEF Decide, At, vars, proc_vars
  <2>2. CASE Creates(p)
    <3>1. job[p] \in Jobs /\ job[p].to \in Proc \cup {Server}
      BY DEF PipeTypes, Jobs
    <3>2. Fifo(fifos', p, job[p].to) \in Fifos
      BY <1>16, <2>2, <3>1 DEF Decide, PipeTypes, Fifo, Fifos
    <3>3. job[p].out \in Ids
      BY <2>2, <3>1 DEF Creates, CanPipe, Jobs, Slots, Ids
    <3>4. /\ job'[p].out \in Ids /\ job'[p].fifo \in Fifos
          /\ \A r \in Proc \ {p} : up'[r] = up[r] /\ job'[r] = job[r]
      BY <1>16, <2>2, <3>1, <3>2, <3>3, <1>a, <1>c DEF Decide, Jobs
    <3> QED
      BY <2>1, <3>4 DEF PcControl
  <2>3. CASE ~Creates(p)
    BY <1>16, <2>1, <2>3, <1>a DEF Decide, PcControl
  <2> QED
    BY <2>2, <2>3
<1>17. ASSUME NEW p \in Proc,
              \/ create_user_pipe(p) \/ RecheckPipe(p)
              \/ \E q \in Proc : Open(p, q)
      PROVE  PcControl'
  <2>1. /\ UNCHANGED <<pc, id, idx, sig, usr2, job>>
        /\ \A r \in Proc : hand'[r] = hand[r] \/ (hand[r] # "none")
        /\ \A r \in Proc \ {p} : up'[r] = up[r]
        /\ up[p] \in {"wait", "recheck", "open"}
    BY <1>17, <1>a DEF create_user_pipe, RecheckPipe, Open, At, vars, proc_vars
  <2> QED
    BY <2>1 DEF PcControl
<1>18. ASSUME NEW p \in Proc, KillPipe(p)
      PROVE  PcControl'
  <2>1. PICK j \in Ids : j = job[p].out
    BY <1>18 DEF KillPipe, At, PcControl
  <2>2. \A r \in Proc : usr2'[r] => usr2[r] \/ id[r] \in Ids
    BY <1>18, <2>1, <1>a, <1>b DEF KillPipe, alive, SlotControl
  <2>3. /\ UNCHANGED <<pc, id, idx, sig, job, hand>>
        /\ \A r \in Proc \ {p} : up'[r] = up[r]
        /\ up[p] = "kill" /\ up'[p] = "open"
    BY <1>18, <1>a DEF KillPipe, At, vars, proc_vars
  <2> QED
    BY <2>2, <2>3, <1>b DEF PcControl
<1>19. ASSUME NEW p \in Proc, Fork(p)
      PROVE  PcControl'
  BY <1>19, <1>a, <1>c DEF Fork, vars, proc_vars, PcControl
<1>20. ASSUME NEW p \in Proc, user_pipe_handler(p) \/ StoreFd(p)
      PROVE  PcControl'
  BY <1>20, <1>a DEF user_pipe_handler, StoreFd, vars, proc_vars, PcControl
<1> QED
  BY <1>1, <1>2, <1>3, <1>4, <1>5, <1>6, <1>7, <1>8, <1>9, <1>10, <1>11,
     <1>12, <1>13, <1>14, <1>15, <1>16, <1>17, <1>18, <1>19, <1>20
     DEF UpNext, BaseStep, User, Work, Types, PipeStep

\* The pid of a slot knows the slot as its own, and a path in a mailbox has the
\* id of its sender next to it.
LEMMA SlotControlNext ==
    ASSUME UpInv, [UpNext]_all_vars PROVE SlotControl'
<1> USE DEF UpInv, UpTypes, UpControl
<1>a. /\ id \in [Proc -> Slots] /\ pid \in [Slots -> Proc \cup {Server}]
      /\ mailbox \in [Slots -> Texts \cup Paths] /\ msg \in [Proc -> Texts]
      /\ min_id \in Ids /\ from_id \in [Slots -> Slots]
  BY DEF SharedTypes, ProcTypes, PipeTypes
<1>b. Ids \subseteq Slots /\ 0 \notin Ids
  BY DEF Ids, Slots
<1>0. ASSUME UNCHANGED <<id, pid, mailbox, from_id>> PROVE SlotControl'
  BY <1>0 DEF SlotControl
<1>1. CASE UNCHANGED all_vars
  BY <1>0, <1>1 DEF all_vars, vars, client_list, proc_vars, up_vars
<1>2. CASE (ServerWait \/ ServerSpin) /\ UNCHANGED up_vars
  BY <1>0, <1>2 DEF ServerWait, ServerSpin, client_list, proc_vars, up_vars
<1>3. ASSUME NEW p \in Proc, User(p), UNCHANGED up_vars
      PROVE  SlotControl'
  BY <1>0, <1>3 DEF User, Accept, cmd_yell, cmd_tell, cmd_name, Exit, HangUp,
         shared_unchanged, client_list, up_vars
<1>4. ASSUME NEW p \in Proc, Login(p), UNCHANGED up_vars
      PROVE  SlotControl'
  <2>1. \A i \in Slots : pid[i] # p
    BY <1>4, <1>a, <1>b DEF Login, PcControl, SlotControl
  <2>2. /\ UNCHANGED <<mailbox, from_id>> /\ id'[p] = min_id /\ pid'[min_id] = p
        /\ \A r \in Proc \ {p} : id'[r] = id[r]
        /\ \A i \in Slots \ {min_id} : pid'[i] = pid[i]
    BY <1>4, <1>a, <1>b DEF Login, up_vars
  <2> QED
    BY <2>1, <2>2, <1>a, <1>b DEF SlotControl
<1>5. ASSUME NEW p \in Proc,
             \/ LoginDone(p) \/ print_welcome_msg(p) \/ ScanSlot(p)
             \/ ScanOther(p) \/ Recheck(p) \/ Kill(p) \/ KillSelf(p)
             \/ EndBroadcast(p) \/ CompareName(p) \/ SetName(p)
             \/ msg_handler(p),
             UNCHANGED up_vars
      PROVE  SlotControl'
  BY <1>0, <1>5 DEF LoginDone, print_welcome_msg, ScanSlot, ScanOther, Recheck,
         Kill, KillSelf, EndBroadcast, CompareName, SetName, msg_handler,
         shared_unchanged, client_list, up_vars
<1>6. ASSUME NEW p \in Proc, SemWait(p), UNCHANGED up_vars
      PROVE  SlotControl'
  <2>1. msg[p].kind # "fifo"
    BY <1>a, MailKinds
  <2> QED
    BY <1>6, <2>1, <1>a, <1>b DEF SemWait, shared_unchanged, up_vars, SlotControl
<1>7. ASSUME NEW p \in Proc, LogoutPipes(p)
      PROVE  SlotControl'
  BY <1>0, <1>7 DEF LogoutPipes, Logout
<1>8. ASSUME NEW p \in Proc,
             \/ (\E l \in UpLines : UpLine(p, l[2], l[3]))
             \/ print_user_pipe_in(p) \/ print_user_pipe_out(p)
             \/ Decide(p) \/ RecheckPipe(p) \/ KillPipe(p)
             \/ (\E q \in Proc : Open(p, q))
             \/ Fork(p) \/ user_pipe_handler(p) \/ StoreFd(p)
      PROVE  SlotControl'
  BY <1>0, <1>8 DEF UpLine, print_user_pipe_in, print_user_pipe_out, Decide,
         RecheckPipe, KillPipe, Open, Fork, user_pipe_handler, StoreFd,
         shared_unchanged, vars, client_list, proc_vars
<1>9. ASSUME NEW p \in Proc, create_user_pipe(p)
      PROVE  SlotControl'
  <2>1. PICK o \in Slots : o = job[p].out
    BY <1>9, <1>a, <1>b DEF create_user_pipe, At, PcControl
  <2>2. id[p] \in Ids
    BY <1>9 DEF create_user_pipe, At, PcControl
  <2>3. /\ UNCHANGED <<pid, id>> /\ from_id'[o] = id[p]
        /\ \A i \in Slots \ {o} : mailbox'[i] = mailbox[i] /\ from_id'[i] = from_id[i]
    BY <1>9, <2>1, <1>a, <1>b DEF create_user_pipe, SetFrom, shared_unchanged
  <2> QED
    BY <2>2, <2>3 DEF SlotControl
<1> QED
  BY <1>1, <1>2, <1>3, <1>4, <1>5, <1>6, <1>7, <1>8, <1>9
     DEF UpNext, BaseStep, Work, Handler, Types, PipeStep

-----------------------------------------------------------------------------
(***************************************************************************)
(* The mailbox of a slot, and the four things a step can do with it.       *)
(***************************************************************************)

\* Nobody gets one.
Kept ==
    /\ \A i \in Ids : sem'[i] = sem[i] /\ mailbox'[i] = mailbox[i]
    /\ \A p \in Proc, k \in Ways, i \in Ids : Owns(p, k, i)' => Owns(p, k, i)

\* p takes that of slot j, to send a text or a path.
Taken(p, k, j) ==
    /\ sem[j] > 0 /\ sem' = [sem EXCEPT ![j] = @ - 1]
    /\ \A i \in Slots \ {j} : mailbox'[i] = mailbox[i]
    /\ \A q \in Proc, l \in Ways, i \in Ids :
          Owns(q, l, i)' => Owns(q, l, i) \/ (q = p /\ l = k /\ i = j)

\* p, which has that of slot j, passes it on to q by a signal.
Passed(p, k, q, l, j) ==
    /\ UNCHANGED <<sem, mailbox>>
    /\ Owns(p, k, j) /\ ~Owns(p, k, j)'
    /\ \A r \in Proc, m \in Ways, i \in Ids :
          Owns(r, m, i)' => Owns(r, m, i) \/ (r = q /\ m = l /\ i = j)

\* p, which has that of slot j, posts the semaphore.
Posted(p, k, j) ==
    /\ UNCHANGED mailbox
    /\ Owns(p, k, j) /\ ~Owns(p, k, j)'
    /\ sem' = [sem EXCEPT ![j] = @ + 1]
    /\ \A r \in Proc, m \in Ways, i \in Ids : Owns(r, m, i)' => Owns(r, m, i)

\* A step that gives nobody a mailbox leaves each with one owner at most.
LEMMA OwnerKept == ASSUME OneOwner, Kept PROVE OneOwner'
BY DEF OneOwner, Kept

\* The same of a step that takes one.
LEMMA OwnerTaken ==
    ASSUME SharedTypes, OneOwner, NEW p \in Proc, NEW k \in Ways, NEW j \in Ids,
           Taken(p, k, j)
    PROVE  OneOwner'
<1>1. /\ sem[j] = 1 /\ sem'[j] = 0
      /\ \A i \in Ids \ {j} : sem'[i] = sem[i]
  BY DEF OneOwner, Taken, SharedTypes, Ids, Slots
<1>2. \A q \in Proc, l \in Ways : ~Owns(q, l, j)
  BY <1>1 DEF OneOwner
<1> QED
  BY <1>1, <1>2 DEF OneOwner, Taken

\* Of one that passes one on.
LEMMA OwnerPassed ==
    ASSUME OneOwner, NEW p \in Proc, NEW k \in Ways, NEW q \in Proc,
           NEW l \in Ways, NEW j \in Ids, Passed(p, k, q, l, j)
    PROVE  OneOwner'
<1>1. sem'[j] = 0 /\ UNCHANGED sem
  BY DEF OneOwner, Passed
<1>2. \A r \in Proc, m \in Ways : Owns(r, m, j)' => r = q /\ m = l
  BY DEF OneOwner, Passed
<1>3. \A r \in Proc, m \in Ways, i \in Ids \ {j} : Owns(r, m, i)' => Owns(r, m, i)
  BY DEF Passed
<1> QED
  BY <1>1, <1>2, <1>3 DEF OneOwner

\* Of one that posts.
LEMMA OwnerPosted ==
    ASSUME SharedTypes, OneOwner, NEW p \in Proc, NEW k \in Ways, NEW j \in Ids,
           Posted(p, k, j)
    PROVE  OneOwner'
<1>1. /\ sem[j] = 0 /\ sem'[j] = 1
      /\ \A i \in Ids \ {j} : sem'[i] = sem[i]
  BY DEF OneOwner, Posted, SharedTypes, Ids, Slots
<1>2. \A r \in Proc, m \in Ways : ~Owns(r, m, j)'
  BY DEF OneOwner, Posted
<1>3. \A r \in Proc, m \in Ways, i \in Ids \ {j} : Owns(r, m, i)' => Owns(r, m, i)
  BY DEF Posted
<1> QED
  BY <1>1, <1>2, <1>3 DEF OneOwner

\* What a way of having a mailbox expects in it.
Expected(k) == IF k \in {"text", "text'"} THEN Texts ELSE Paths

\* MailFits in these words.
LEMMA FitsForm ==
    MailFits <=> \A i \in Ids, p \in Proc, k \in Ways :
                    Owns(p, k, i) => mailbox[i] \in Expected(k)
BY DEF MailFits, Ways, Expected

\* The same after a step.
LEMMA FitsFormNext ==
    (\A i \in Ids, p \in Proc, k \in Ways :
        Owns(p, k, i)' => mailbox'[i] \in Expected(k)) => MailFits'
BY DEF MailFits, Ways, Expected

\* Process r gets no mailbox and goes on to have the slot it has.
Still(r) ==
    /\ pc'[r] \in {"recheck", "kill"} =>
          pc[r] \in {"recheck", "kill"} /\ idx'[r] = idx[r]
    /\ up'[r] \in {"recheck", "kill"} =>
          up[r] \in {"recheck", "kill"} /\ job'[r].out = job[r].out
    /\ sig'[r] => sig[r] /\ id'[r] = id[r]
    /\ usr2'[r] \/ hand'[r] # "none" =>
          (usr2[r] \/ hand[r] # "none") /\ id'[r] = id[r]

\* Such a process has no mailbox that it did not have.
LEMMA StillOwns ==
    ASSUME NEW r \in Proc, Still(r)
    PROVE  \A k \in Ways, i \in Ids : Owns(r, k, i)' => Owns(r, k, i)
BY DEF Still, Owns, Sending, Signalled, PipeSending, PipeSignalled

\* If all processes are such, nobody gets a mailbox.
LEMMA StillKept ==
    ASSUME \A i \in Ids : sem'[i] = sem[i] /\ mailbox'[i] = mailbox[i],
           \A r \in Proc : Still(r)
    PROVE  Kept
BY StillOwns DEF Kept

\* What a step can do with the mailboxes, whatever process takes it.
MailStep ==
    \/ Kept
    \/ \E p \in Proc, k \in Ways, j \in Ids :
          Taken(p, k, j) /\ mailbox'[j] \in Expected(k)
    \/ \E p, q \in Proc, k, l \in Ways, j \in Ids :
          Passed(p, k, q, l, j) /\ Expected(k) = Expected(l)
    \/ \E p \in Proc, k \in Ways, j \in Ids : Posted(p, k, j)

\* Every step of broadcast, cmd_tell, create_user_pipe and of the two handlers
\* does one of these things, and all other steps leave the mailboxes alone.
LEMMA MailSteps ==
    ASSUME UpInv, [UpNext]_all_vars PROVE MailStep
<1> USE DEF UpInv, UpTypes, UpControl
<1>a. /\ pc \in [Proc -> Alive \cup {"off", "done", "crashed"}]
      /\ id \in [Proc -> Slots]
      /\ idx \in [Proc -> 0..(max_client_num + 1)]
      /\ sig \in [Proc -> BOOLEAN] /\ usr2 \in [Proc -> BOOLEAN]
      /\ up \in [Proc -> {"none", "in", "out", "create", "wait", "recheck",
                          "kill", "open", "fork"}]
      /\ hand \in [Proc -> {"none", "open", "store"}]
  BY DEF ProcTypes, PipeTypes
<1>b. /\ job \in [Proc -> Jobs] /\ msg \in [Proc -> Texts]
      /\ pid \in [Slots -> Proc \cup {Server}]
      /\ mailbox \in [Slots -> Texts \cup Paths] /\ sem \in [Slots -> Nat]
  BY DEF PipeTypes, SharedTypes, ProcTypes
<1>c. Ids \subseteq Slots /\ Ways = {"text", "text'", "path", "path'"}
  BY DEF Ids, Slots, Ways
<1>0. ASSUME UNCHANGED <<sem, mailbox>>, \A r \in Proc : Still(r)
      PROVE  MailStep
  BY <1>0, StillKept DEF MailStep
<1>1. CASE UNCHANGED all_vars
  BY <1>0, <1>1 DEF all_vars, vars, client_list, proc_vars, up_vars, Still
<1>2. CASE (ServerWait \/ ServerSpin) /\ UNCHANGED up_vars
  BY <1>0, <1>2 DEF ServerWait, ServerSpin, client_list, proc_vars, up_vars,
         Still
<1>3. ASSUME NEW p \in Proc, User(p), UNCHANGED up_vars
      PROVE  MailStep
  BY <1>0, <1>3, <1>a DEF User, Accept, cmd_yell, cmd_tell, cmd_name, Exit,
         HangUp, MayType, StartBroadcast, client_list, up_vars, Still
<1>4. ASSUME NEW p \in Proc, Login(p), UNCHANGED up_vars
      PROVE  MailStep
  <2>1. ~sig[p] /\ ~usr2[p] /\ hand[p] = "none"
    BY <1>4 DEF Login, PcControl
  <2> QED
    BY <1>0, <1>4, <2>1, <1>a DEF Login, up_vars, Still
<1>5. ASSUME NEW p \in Proc,
             \/ LoginDone(p) \/ print_welcome_msg(p) \/ ScanSlot(p)
             \/ ScanOther(p) \/ EndBroadcast(p) \/ CompareName(p) \/ SetName(p),
             UNCHANGED up_vars
      PROVE  MailStep
  BY <1>0, <1>5, <1>a DEF LoginDone, print_welcome_msg, ScanSlot, ScanOther,
         EndBroadcast, CompareName, SetName, NextSlot, StartBroadcast,
         client_list, up_vars, Still
<1>6. ASSUME NEW p \in Proc, LogoutPipes(p)
      PROVE  MailStep
  BY <1>0, <1>6, <1>a DEF LogoutPipes, Logout, StartBroadcast, Still
<1>7. ASSUME NEW p \in Proc,
             \/ (\E l \in UpLines : UpLine(p, l[2], l[3]))
             \/ print_user_pipe_in(p) \/ print_user_pipe_out(p)
      PROVE  MailStep
  <2>1. /\ UNCHANGED <<sem, mailbox, id, sig, usr2, hand>>
        /\ \A r \in Proc \ {p} : /\ pc'[r] = pc[r] /\ idx'[r] = idx[r]
                                 /\ up'[r] = up[r] /\ job'[r] = job[r]
        /\ pc'[p] \in {"idle", "scan"} /\ up'[p] \in {"in", "out", "create"}
    BY <1>7, <1>a, <1>b, ZenonT(30) DEF UpLine, print_user_pipe_in, print_user_pipe_out,
           At, Announce, StartBroadcast
  <2> QED
    BY <1>0, <2>1 DEF Still
<1>8. ASSUME NEW p \in Proc, Decide(p) \/ Fork(p)
      PROVE  MailStep
  <2>1. /\ UNCHANGED <<sem, mailbox, pc, idx, id, sig, usr2, hand>>
        /\ \A r \in Proc \ {p} : up'[r] = up[r] /\ job'[r] = job[r]
        /\ up'[p] \in {"wait", "fork", "none"}
    BY <1>8, <1>a, <1>b DEF Decide, Fork, vars, client_list, proc_vars
  <2> QED
    BY <1>0, <2>1 DEF Still
<1>9. ASSUME NEW p \in Proc,
             user_pipe_handler(p) \/ \E q \in Proc : Open(p, q)
      PROVE  MailStep
  <2>1. UNCHANGED <<sem, mailbox, pc, idx, id, sig, job>>
    BY <1>9 DEF user_pipe_handler, Open, vars, client_list, proc_vars
  <2>2. \A r \in Proc : up'[r] \in {"recheck", "kill"} => up'[r] = up[r]
    BY <1>9, <1>a DEF user_pipe_handler, Open
  <2>3. \A r \in Proc : usr2'[r] \/ hand'[r] # "none" =>
                           usr2[r] \/ hand[r] # "none"
    BY <1>9, <1>a DEF user_pipe_handler, Open
  <2> QED
    BY <1>0, <2>1, <2>2, <2>3 DEF Still
\* A text.
<1>10. ASSUME NEW p \in Proc, SemWait(p), UNCHANGED up_vars
      PROVE  MailStep
  <2>1. PICK j \in Slots : j = idx[p]
    BY <1>10 DEF SemWait, PcControl
  <2>2. /\ sem[j] > 0 /\ sem' = [sem EXCEPT ![j] = @ - 1]
        /\ mailbox' = [mailbox EXCEPT ![j] = msg[p]]
        /\ UNCHANGED <<id, idx, sig, up, job, usr2, hand>>
        /\ \A r \in Proc \ {p} : pc'[r] = pc[r]
        /\ pc[p] = "wait" /\ pc'[p] = "recheck"
    BY <1>10, <2>1, <1>a DEF SemWait, SlotFree, up_vars
  <2>3. \A r \in Proc \ {p} : Still(r)
    BY <2>2 DEF Still
  <2>4. \A l \in Ways, i \in Ids :
           Owns(p, l, i)' => Owns(p, l, i) \/ (l = "text" /\ i = j)
    BY <2>1, <2>2, <1>c DEF Owns, Sending, Signalled, PipeSending,
           PipeSignalled
  <2>5. CASE j \in Ids
    <3>1. Taken(p, "text", j)
      BY <2>2, <2>3, <2>4, <1>b, StillOwns DEF Taken
    <3>2. mailbox'[j] \in Expected("text")
      BY <2>2, <1>b DEF Expected
    <3> QED
      BY <2>5, <3>1, <3>2, <1>c DEF MailStep
  <2>6. CASE j \notin Ids
    <3>1. Kept
      BY <2>2, <2>3, <2>4, <2>6, <1>b, <1>c, StillOwns DEF Kept
    <3> QED
      BY <3>1 DEF MailStep
  <2> QED
    BY <2>5, <2>6
<1>11. ASSUME NEW p \in Proc, Recheck(p), UNCHANGED up_vars
      PROVE  MailStep
  <2>1. PICK j \in Slots : j = idx[p]
    BY <1>11 DEF Recheck, PcControl
  <2>2. \A r \in Proc : Still(r)
    BY <1>11, <1>a DEF Recheck, NextSlot, up_vars, Still
  <2>3. UNCHANGED mailbox
    BY <1>11 DEF Recheck
  <2>4. CASE state[j]
    BY <1>0, <1>11, <2>1, <2>2, <2>3, <2>4 DEF Recheck
  <2>5. CASE ~state[j] /\ j \in Ids
    <3>1. Posted(p, "text", j)
      <4>1. Owns(p, "text", j) /\ ~Owns(p, "text", j)'
        BY <1>11, <2>1, <2>5, <1>a DEF Recheck, NextSlot, Owns, Sending
      <4>2. sem' = [sem EXCEPT ![j] = @ + 1]
        BY <1>11, <2>1, <2>5 DEF Recheck
      <4> QED
        BY <2>2, <2>3, <4>1, <4>2, StillOwns DEF Posted
    <3> QED
      BY <2>5, <3>1, <1>c DEF MailStep
  <2>6. CASE ~state[j] /\ j \notin Ids
    <3>1. \A i \in Ids : sem'[i] = sem[i]
      BY <1>11, <2>1, <2>6, <1>b, <1>c DEF Recheck
    <3> QED
      BY <2>2, <2>3, <3>1, StillKept DEF MailStep
  <2> QED
    BY <2>4, <2>5, <2>6
<1>12. ASSUME NEW p \in Proc, Kill(p), UNCHANGED up_vars
      PROVE  MailStep
  <2>1. PICK j \in Slots : j = idx[p]
    BY <1>12 DEF Kill, PcControl
  <2>2. UNCHANGED <<sem, mailbox, id, up, job, usr2, hand>>
    BY <1>12 DEF Kill, up_vars
  <2>3. \A r \in Proc : pc'[r] \in {"recheck", "kill"} =>
           r # p /\ pc'[r] = pc[r] /\ idx'[r] = idx[r]
    BY <1>12, <1>a DEF Kill, NextSlot
  <2>4. CASE alive(pid[j])
    <3>1. PICK q \in Proc : q = pid[j] /\ j \in Ids /\ id[q] = j
      BY <2>4 DEF alive, SlotControl
    <3>2. \A r \in Proc : sig'[r] => sig[r] \/ r = q
      BY <1>12, <2>1, <2>4, <3>1, <1>a DEF Kill
    <3>3. Owns(p, "text", j) /\ ~Owns(p, "text", j)'
      BY <1>12, <2>1, <2>3 DEF Kill, Owns, Sending
    <3>4. \A r \in Proc, m \in Ways, i \in Ids :
             Owns(r, m, i)' => Owns(r, m, i) \/ (r = q /\ m = "text'" /\ i = j)
      BY <2>2, <2>3, <3>1, <3>2, <1>c DEF Owns, Sending, Signalled,
             PipeSending, PipeSignalled
    <3>5. Passed(p, "text", q, "text'", j)
      BY <2>2, <3>3, <3>4 DEF Passed
    <3>6. Expected("text") = Expected("text'")
      BY DEF Expected
    <3> QED
      BY <3>1, <3>5, <3>6, <1>c DEF MailStep
  <2>5. CASE ~alive(pid[j])
    <3>1. UNCHANGED sig
      BY <1>12, <2>1, <2>5 DEF Kill
    <3> QED
      BY <1>0, <2>2, <2>3, <3>1 DEF Still
  <2> QED
    BY <2>4, <2>5
<1>13. ASSUME NEW p \in Proc, KillSelf(p), UNCHANGED up_vars
      PROVE  MailStep
  <2>1. PICK j \in Ids : j = idx[p] /\ j = id[p]
    BY <1>13 DEF KillSelf, PcControl, SlotControl
  <2>2. \A r \in Proc : Still(r)
    BY <1>13, <1>a DEF KillSelf, NextSlot, up_vars, Still
  <2>3. Owns(p, "text", j) /\ ~Owns(p, "text", j)'
    BY <1>13, <2>1, <1>a DEF KillSelf, NextSlot, Owns, Sending
  <2>4. sem' = [sem EXCEPT ![j] = @ + 1] /\ UNCHANGED mailbox
    BY <1>13, <2>1 DEF KillSelf, PostOwn
  <2>5. Posted(p, "text", j)
    BY <2>2, <2>3, <2>4, StillOwns DEF Posted
  <2> QED
    BY <2>5, <1>c DEF MailStep
<1>14. ASSUME NEW p \in Proc, Handler(p)
      PROVE  MailStep
  <2>1. PICK j \in Ids : j = id[p]
    BY <1>14 DEF Handler, msg_handler, PcControl
  <2>2. \A r \in Proc : Still(r)
    BY <1>14, <1>a DEF Handler, msg_handler, up_vars, Still
  <2>3. Owns(p, "text'", j) /\ ~Owns(p, "text'", j)'
    BY <1>14, <2>1, <1>a DEF Handler, msg_handler, Owns, Signalled
  <2>4. sem' = [sem EXCEPT ![j] = @ + 1] /\ UNCHANGED mailbox
    BY <1>14, <2>1 DEF Handler, msg_handler, PostOwn
  <2>5. Posted(p, "text'", j)
    BY <2>2, <2>3, <2>4, StillOwns DEF Posted
  <2> QED
    BY <2>5, <1>c DEF MailStep
\* A path.
<1>15. ASSUME NEW p \in Proc, create_user_pipe(p)
      PROVE  MailStep
  <2>1. PICK j \in Ids : j = job[p].out
    BY <1>15 DEF create_user_pipe, At, PcControl
  <2>2. /\ sem[j] > 0 /\ sem' = [sem EXCEPT ![j] = @ - 1]
        /\ mailbox' = [mailbox EXCEPT ![j] = Path(job[p].fifo)]
        /\ UNCHANGED <<pc, id, idx, sig, job, usr2, hand>>
        /\ \A r \in Proc \ {p} : up'[r] = up[r]
        /\ up[p] = "wait" /\ up'[p] = "recheck"
    BY <1>15, <2>1, <1>a DEF create_user_pipe, At, PipeSlotFree
  <2>3. \A r \in Proc \ {p} : Still(r)
    BY <2>2 DEF Still
  <2>4. \A l \in Ways, i \in Ids :
           Owns(p, l, i)' => Owns(p, l, i) \/ (l = "path" /\ i = j)
    BY <2>1, <2>2, <1>c DEF Owns, Sending, Signalled, PipeSending,
           PipeSignalled
  <2>5. Taken(p, "path", j)
    BY <2>2, <2>3, <2>4, <1>b, StillOwns DEF Taken
  <2>6. Path(job[p].fifo) \in Paths
    BY <1>15, MailKinds DEF create_user_pipe, At, PcControl
  <2>7. mailbox'[j] \in Expected("path")
    BY <2>2, <2>6, <1>b, <1>c DEF Expected
  <2> QED
    BY <2>5, <2>7, <1>c DEF MailStep
<1>16. ASSUME NEW p \in Proc, RecheckPipe(p)
      PROVE  MailStep
  <2>1. PICK j \in Ids : j = job[p].out
    BY <1>16 DEF RecheckPipe, At, PcControl
  <2>2. UNCHANGED <<mailbox, pc, id, idx, sig, job, usr2, hand>>
    BY <1>16 DEF RecheckPipe, proc_vars
  <2>3. \A r \in Proc : up'[r] \in {"recheck", "kill"} =>
           up[r] \in {"recheck", "kill"}
    BY <1>16, <1>a DEF RecheckPipe, At
  <2>4. \A r \in Proc : Still(r)
    BY <2>2, <2>3 DEF Still
  <2>5. CASE state[j]
    BY <1>0, <1>16, <2>1, <2>2, <2>4, <2>5 DEF RecheckPipe
  <2>6. CASE ~state[j]
    <3>1. Owns(p, "path", j) /\ ~Owns(p, "path", j)'
      BY <1>16, <2>1, <2>6, <1>a DEF RecheckPipe, At, Owns, PipeSending
    <3>2. sem' = [sem EXCEPT ![j] = @ + 1]
      BY <1>16, <2>1, <2>6 DEF RecheckPipe
    <3>3. Posted(p, "path", j)
      BY <2>2, <2>4, <3>1, <3>2, StillOwns DEF Posted
    <3> QED
      BY <3>3, <1>c DEF MailStep
  <2> QED
    BY <2>5, <2>6
<1>17. ASSUME NEW p \in Proc, KillPipe(p)
      PROVE  MailStep
  <2>1. PICK j \in Ids : j = job[p].out
    BY <1>17 DEF KillPipe, At, PcControl
  <2>2. UNCHANGED <<sem, mailbox, pc, idx, id, sig, job, hand>>
    BY <1>17 DEF KillPipe, vars, client_list, proc_vars
  <2>3. \A r \in Proc : up'[r] \in {"recheck", "kill"} => r # p /\ up'[r] = up[r]
    BY <1>17, <1>a DEF KillPipe
  <2>4. CASE alive(pid[j])
    <3>1. PICK q \in Proc : q = pid[j] /\ id[q] = j
      BY <2>4, <1>c DEF alive, SlotControl
    <3>2. \A r \in Proc : usr2'[r] => usr2[r] \/ r = q
      BY <1>17, <2>1, <2>4, <3>1, <1>a DEF KillPipe
    <3>3. Owns(p, "path", j) /\ ~Owns(p, "path", j)'
      BY <1>17, <2>1, <2>3 DEF KillPipe, At, Owns, PipeSending
    <3>4. \A r \in Proc, m \in Ways, i \in Ids :
             Owns(r, m, i)' => Owns(r, m, i) \/ (r = q /\ m = "path'" /\ i = j)
      BY <2>2, <2>3, <3>1, <3>2, <1>c DEF Owns, Sending, Signalled,
             PipeSending, PipeSignalled
    <3>5. Passed(p, "path", q, "path'", j)
      BY <2>2, <3>3, <3>4 DEF Passed
    <3>6. Expected("path") = Expected("path'")
      BY DEF Expected
    <3> QED
      BY <3>1, <3>5, <3>6, <1>c DEF MailStep
  <2>5. CASE ~alive(pid[j])
    <3>1. UNCHANGED usr2
      BY <1>17, <2>1, <2>5 DEF KillPipe
    <3> QED
      BY <1>0, <2>2, <2>3, <3>1 DEF Still
  <2> QED
    BY <2>4, <2>5
<1>18. ASSUME NEW p \in Proc, StoreFd(p)
      PROVE  MailStep
  <2>1. PICK j \in Ids : j = id[p]
    BY <1>18 DEF StoreFd, PcControl
  <2>2. UNCHANGED <<mailbox, pc, idx, id, sig, up, job, usr2>>
    BY <1>18 DEF StoreFd, proc_vars
  <2>3. hand[p] # "none" /\ hand'[p] = "none" /\ \A r \in Proc \ {p} : hand'[r] = hand[r]
    BY <1>18, <1>a DEF StoreFd
  <2>4. \A r \in Proc : Still(r)
    BY <2>2, <2>3 DEF Still
  <2>5. Owns(p, "path'", j) /\ ~Owns(p, "path'", j)'
    BY <2>1, <2>2, <2>3 DEF Nested, Owns, PipeSignalled
  <2>6. sem' = [sem EXCEPT ![j] = @ + 1]
    BY <1>18, <2>1 DEF StoreFd, PostOwn
  <2>7. Posted(p, "path'", j)
    BY <2>2, <2>4, <2>5, <2>6, StillOwns DEF Posted
  <2> QED
    BY <2>7, <1>c DEF MailStep
<1> QED
  BY <1>1, <1>2, <1>3, <1>4, <1>5, <1>6, <1>7, <1>8, <1>9, <1>10, <1>11,
     <1>12, <1>13, <1>14, <1>15, <1>16, <1>17, <1>18
     DEF UpNext, BaseStep, Work, Types, PipeStep

\* MailFits after each of these steps.
LEMMA FitsNext ==
    ASSUME SharedTypes, OneOwner, MailFits, MailStep PROVE MailFits'
<1>a. Ids \subseteq Slots
  BY DEF Ids, Slots
<1>0. \A i \in Ids, p \in Proc, k \in Ways :
         Owns(p, k, i) => mailbox[i] \in Expected(k)
  BY FitsForm
<1>1. CASE Kept
  <2>1. \A i \in Ids, p \in Proc, k \in Ways :
           Owns(p, k, i)' => mailbox'[i] \in Expected(k)
    BY <1>0, <1>1 DEF Kept
  <2> QED
    BY <2>1, FitsFormNext
<1>2. ASSUME NEW p \in Proc, NEW k \in Ways, NEW j \in Ids,
             Taken(p, k, j), mailbox'[j] \in Expected(k)
      PROVE  MailFits'
  <2>1. \A q \in Proc, l \in Ways : ~Owns(q, l, j)
    BY <1>2 DEF Taken, OneOwner
  <2>2. \A i \in Ids, q \in Proc, l \in Ways :
           Owns(q, l, i)' => mailbox'[i] \in Expected(l)
    BY <1>0, <1>2, <2>1, <1>a DEF Taken
  <2> QED
    BY <2>2, FitsFormNext
<1>3. ASSUME NEW p \in Proc, NEW q \in Proc, NEW k \in Ways, NEW l \in Ways,
             NEW j \in Ids, Passed(p, k, q, l, j), Expected(k) = Expected(l)
      PROVE  MailFits'
  <2>1. mailbox[j] \in Expected(l)
    BY <1>0, <1>3 DEF Passed
  <2>2. \A i \in Ids, r \in Proc, m \in Ways :
           Owns(r, m, i)' => mailbox'[i] \in Expected(m)
    BY <1>0, <1>3, <2>1 DEF Passed
  <2> QED
    BY <2>2, FitsFormNext
<1>4. ASSUME NEW p \in Proc, NEW k \in Ways, NEW j \in Ids, Posted(p, k, j)
      PROVE  MailFits'
  <2>1. \A i \in Ids, r \in Proc, m \in Ways :
           Owns(r, m, i)' => mailbox'[i] \in Expected(m)
    BY <1>0, <1>4 DEF Posted
  <2> QED
    BY <2>1, FitsFormNext
<1> QED
  BY <1>1, <1>2, <1>3, <1>4 DEF MailStep

\* OneOwner after each of them.
LEMMA OwnerNext ==
    ASSUME SharedTypes, OneOwner, MailStep PROVE OneOwner'
BY OwnerKept, OwnerTaken, OwnerPassed, OwnerPosted DEF MailStep

\* A sender that could signal a process in user_pipe_handler would have the
\* mailbox that the handler has.
LEMMA NestedNext ==
    ASSUME UpInv, [UpNext]_all_vars PROVE Nested'
<1> USE DEF UpInv, UpTypes, UpControl
<1>a. /\ usr2 \in [Proc -> BOOLEAN]
      /\ hand \in [Proc -> {"none", "open", "store"}]
      /\ pid \in [Slots -> Proc \cup {Server}]
  BY DEF PipeTypes, SharedTypes
<1>b. Ids \subseteq Slots /\ {"path", "path'"} \subseteq Ways
  BY DEF Ids, Slots, Ways
<1>0. ASSUME UNCHANGED <<usr2, hand>> PROVE Nested'
  BY <1>0 DEF Nested
<1>1. CASE UNCHANGED all_vars
  BY <1>0, <1>1 DEF all_vars, up_vars
<1>2. ASSUME NEW p \in Proc,
             \/ BaseStep(p) \/ LogoutPipes(p) \/ Handler(p) \/ Types(p)
             \/ print_user_pipe_in(p) \/ print_user_pipe_out(p) \/ Decide(p)
             \/ create_user_pipe(p) \/ RecheckPipe(p) \/ Fork(p)
      PROVE  Nested'
  BY <1>0, <1>2 DEF BaseStep, LogoutPipes, Handler, Types, UpLine,
         print_user_pipe_in, print_user_pipe_out, Decide, create_user_pipe,
         RecheckPipe, Fork, up_vars
<1>3. ASSUME NEW p \in Proc, KillPipe(p)
      PROVE  Nested'
  <2>1. PICK j \in Ids : j = job[p].out
    BY <1>3 DEF KillPipe, At, PcControl
  <2>2. CASE alive(pid[j])
    <3>1. PICK q \in Proc : q = pid[j] /\ id[q] = j
      BY <2>2, <1>b DEF alive, SlotControl
    <3>2. Owns(p, "path", j)
      BY <1>3, <2>1 DEF KillPipe, At, Owns, PipeSending
    <3>3. ~Owns(q, "path'", j)
      BY <3>2, <1>b DEF OneOwner
    <3>4. hand[q] = "none"
      BY <3>1, <3>3 DEF Owns, PipeSignalled
    <3>5. UNCHANGED hand /\ \A r \in Proc : usr2'[r] => usr2[r] \/ r = q
      BY <1>3, <2>1, <2>2, <3>1, <1>a DEF KillPipe
    <3> QED
      BY <3>4, <3>5 DEF Nested
  <2>3. CASE ~alive(pid[j])
    BY <1>0, <1>3, <2>1, <2>3 DEF KillPipe
  <2> QED
    BY <2>2, <2>3
<1>4. ASSUME NEW p \in Proc, NEW q \in Proc, Open(p, q)
      PROVE  Nested'
  BY <1>4, <1>a DEF Open, Nested
<1>5. ASSUME NEW p \in Proc, user_pipe_handler(p) \/ StoreFd(p)
      PROVE  Nested'
  BY <1>5, <1>a DEF user_pipe_handler, StoreFd, Nested
<1>6. CASE (ServerWait \/ ServerSpin) /\ UNCHANGED up_vars
  BY <1>0, <1>6 DEF up_vars
<1> QED
  BY <1>1, <1>2, <1>3, <1>4, <1>5, <1>6 DEF UpNext, PipeStep

-----------------------------------------------------------------------------
(***************************************************************************)
(* The theorems.                                                           *)
(***************************************************************************)

\* The inductive invariant holds in every behaviour.
THEOREM UpInvariant == UpSpec => []UpInv
<1>1. UpInit => UpInv
  BY UpInitInv
<1>2. UpInv /\ [UpNext]_all_vars => UpInv'
  <2> SUFFICES ASSUME UpInv, [UpNext]_all_vars PROVE UpInv'
    OBVIOUS
  <2>1. UpTypes'
    BY SharedTypesNext, ProcTypesNext, PipeTypesNext DEF UpTypes
  <2>2. UpControl'
    BY PcControlNext, SlotControlNext DEF UpControl
  <2>3. MailStep /\ SharedTypes /\ OneOwner /\ MailFits
    BY MailSteps DEF UpInv, UpTypes
  <2>4. OneOwner' /\ MailFits'
    BY <2>3, OwnerNext, FitsNext
  <2> QED
    BY <2>1, <2>2, <2>4, NestedNext DEF UpInv
<1> QED
  BY <1>1, <1>2, PTL DEF UpSpec

\* Every variable of the user pipes keeps its type.
THEOREM TypeCorrect == UpSpec => []UpTypeOK
<1>1. UpInv => UpTypeOK
  BY DEF UpInv, UpTypes, PipeTypes, Jobs, UpTypeOK
<1> QED
  BY <1>1, UpInvariant, PTL

\* A mailbox has one owner at a time, and none while its semaphore is posted,
\* whatever the interleaving of texts, paths and the two signal handlers.
THEOREM MailboxPassesOn == UpSpec => []OneMail
<1>1. UpInv => OneMail
  <2> SUFFICES ASSUME UpInv, NEW i \in Ids
               PROVE  sem[i] >= 0 /\ sem[i] + Cardinality(Holders(i)) <= 1
    BY DEF OneMail
  <2>1. \A h \in Holders(i) : \E p \in Proc, k \in Ways :
           h = <<p, k>> /\ Owns(p, k, i)
    BY DEF Holders, Owns, Ways
  <2>2. /\ sem[i] \in {0, 1}
        /\ sem[i] = 1 => \A p \in Proc, k \in Ways : ~Owns(p, k, i)
        /\ \A p, q \in Proc, k, l \in Ways :
              Owns(p, k, i) /\ Owns(q, l, i) => p = q /\ k = l
    BY DEF UpInv, OneOwner
  <2>3. CASE Holders(i) = {}
    BY <2>2, <2>3, FS_EmptySet
  <2>4. ASSUME NEW h \in Holders(i)
        PROVE  sem[i] >= 0 /\ sem[i] + Cardinality(Holders(i)) <= 1
    <3>1. Holders(i) = {h}
      BY <2>1, <2>2
    <3>2. Cardinality({h}) = 1
      BY FS_Singleton
    <3>3. sem[i] = 0
      BY <2>1, <2>2
    <3> QED
      BY <3>1, <3>2, <3>3
  <2> QED
    BY <2>3, <2>4
<1> QED
  BY <1>1, UpInvariant, PTL

\* msg_handler finds a text and user_pipe_handler the path of a fifo.
THEOREM HandlersFindTheirMail == UpSpec => []SignalFits
<1>1. UpInv => SignalFits
  <2> SUFFICES ASSUME UpInv, NEW q \in Proc
               PROVE  /\ sig[q] => mailbox[id[q]].kind # "fifo"
                      /\ usr2[q] \/ hand[q] # "none" =>
                            mailbox[id[q]].kind = "fifo"
    BY DEF SignalFits
  <2>1. sig[q] \/ usr2[q] \/ hand[q] # "none" => id[q] \in Ids
    BY DEF UpInv, UpControl, PcControl
  <2>2. sig[q] => mailbox[id[q]] \in Texts
    BY <2>1 DEF UpInv, MailFits, Owns, Signalled
  <2>3. usr2[q] \/ hand[q] # "none" => mailbox[id[q]] \in Paths
    BY <2>1 DEF UpInv, MailFits, Owns, PipeSignalled
  <2> QED
    BY <2>2, <2>3, MailKinds
<1> QED
  BY <1>1, UpInvariant, PTL

-----------------------------------------------------------------------------
(***************************************************************************)
(* The rows of the table. Two users may get the same id once the table has *)
(* been full (SmallestUnusedId is not kept by the code), and then one of   *)
(* them leaves the other's pipes behind; until that happens a free row has *)
(* no pipe.                                                                *)
(***************************************************************************)

\* A user that leaves does not come back to the prompt: its last broadcast is
\* no tell.
Leaving ==
    \A p \in Proc :
        /\ stopped[p] => \/ pc[p] \in {"logout", "done"}
                         \/ pc[p] \in Loop /\ msg[p].kind # "tell"
        /\ pc[p] = "logout" => stopped[p]

\* The registered users have slots of their own, in use, and a free slot has
\* no pipes.
OwnRows ==
    /\ \A p \in Registered : state[id[p]]
    /\ \A p, q \in Registered : id[p] = id[q] => p = q
    /\ \A i \in Ids, j \in Slots : ~state[i] => user_pipe[i][j] = NoFifo

RowInv == UpInv /\ Leaving /\ OwnRows

\* The id given at a login is not in use: what SmallestUnusedId says of a step.
UnusedId ==
    \A p \in Proc : id[p] = 0 /\ id'[p] # 0 =>
        ~state[id'[p]] /\ \A i \in Ids : i < id'[p] => state[i]

\* Leaving is inductive by itself.
LEMMA LeavingNext ==
    ASSUME UpInv, Leaving, [UpNext]_all_vars PROVE Leaving'
<1>a. /\ pc \in [Proc -> Alive \cup {"off", "done", "crashed"}]
      /\ stopped \in [Proc -> BOOLEAN] /\ msg \in [Proc -> Texts]
  BY DEF UpInv, UpTypes, ProcTypes
<1>0. ASSUME UNCHANGED <<pc, stopped, msg>> PROVE Leaving'
  BY <1>0 DEF Leaving
<1>s. ASSUME NEW p \in Proc, NEW k, NEW a, k # "tell", StartBroadcast(p, k, a),
             UNCHANGED stopped
      PROVE  Leaving'
  BY <1>s, <1>a DEF StartBroadcast, Message, Loop, Leaving
<1>n. ASSUME NEW p \in Proc, pc[p] \in Loop, NextSlot(p), UNCHANGED <<stopped, msg>>
      PROVE  Leaving'
  BY <1>n, <1>a DEF NextSlot, Loop, Leaving
<1>1. CASE UNCHANGED all_vars
  BY <1>0, <1>1 DEF all_vars, vars, proc_vars
<1>2. CASE ServerWait \/ ServerSpin
  BY <1>0, <1>2 DEF ServerWait, ServerSpin, proc_vars
<1>3. ASSUME NEW p \in Proc,
             \/ Accept(p) \/ Exit(p) \/ HangUp(p)
             \/ (\E t \in TellIds : cmd_tell(p, t))
             \/ (\E nm \in NickNames : cmd_name(p, nm))
             \/ Login(p) \/ LoginDone(p) \/ CompareName(p)
             \/ (\E l \in UpLines : UpLine(p, l[2], l[3]))
      PROVE  Leaving'
  BY <1>3, <1>a, ZenonT(30) DEF Accept, Exit, HangUp, cmd_tell, cmd_name, MayType, Login,
         LoginDone, CompareName, UpLine, At, Loop, Leaving
<1>4. ASSUME NEW p \in Proc,
             cmd_yell(p) \/ print_welcome_msg(p) \/ SetName(p) \/ Logout(p)
      PROVE  Leaving'
  BY <1>4, <1>s DEF cmd_yell, print_welcome_msg, SetName, Logout
<1>5. ASSUME NEW p \in Proc, ScanSlot(p) \/ Kill(p) \/ KillSelf(p)
      PROVE  Leaving'
  BY <1>5, <1>n DEF ScanSlot, Kill, KillSelf, Loop
<1>6. ASSUME NEW p \in Proc, ScanOther(p) \/ SemWait(p) \/ EndBroadcast(p)
      PROVE  Leaving'
  BY <1>6, <1>a DEF ScanOther, SemWait, EndBroadcast, Loop, Leaving
<1>7. ASSUME NEW p \in Proc, Recheck(p)
      PROVE  Leaving'
  <2>1. CASE state[idx[p]]
    BY <1>7, <2>1, <1>a DEF Recheck, Loop, Leaving
  <2>2. CASE ~state[idx[p]]
    BY <1>7, <2>2, <1>n DEF Recheck, Loop
  <2> QED
    BY <2>1, <2>2
<1>8. ASSUME NEW p \in Proc, print_user_pipe_in(p) \/ print_user_pipe_out(p)
      PROVE  Leaving'
  BY <1>0, <1>8, <1>s DEF print_user_pipe_in, print_user_pipe_out, Announce
<1>9. ASSUME NEW p \in Proc,
             \/ Decide(p) \/ KillPipe(p) \/ (\E q \in Proc : Open(p, q))
             \/ Fork(p) \/ user_pipe_handler(p) \/ RecheckPipe(p)
             \/ StoreFd(p) \/ create_user_pipe(p) \/ msg_handler(p)
      PROVE  Leaving'
  BY <1>0, <1>9 DEF Decide, KillPipe, Open, Fork, user_pipe_handler,
         RecheckPipe, StoreFd, create_user_pipe, msg_handler, vars, proc_vars
<1> QED
  BY <1>1, <1>2, <1>3, <1>4, <1>5, <1>6, <1>7, <1>8, <1>9
     DEF UpNext, BaseStep, User, Work, LogoutPipes, Handler, Types, PipeStep

\* What most steps do to OwnRows: nobody registers and no pipe is made.
LEMMA RowsFrame ==
    ASSUME OwnRows, UNCHANGED <<id, state>>, Registered' \subseteq Registered,
           \A i \in Ids, j \in Slots :
              ~state[i] /\ user_pipe[i][j] = NoFifo => user_pipe'[i][j] = NoFifo
    PROVE  OwnRows'
<1>1. \A p \in Registered' : state'[id'[p]]
  BY DEF OwnRows
<1>2. \A p, q \in Registered' : id'[p] = id'[q] => p = q
  BY DEF OwnRows
<1>3. \A i \in Ids, j \in Slots : ~state'[i] => user_pipe'[i][j] = NoFifo
  BY DEF OwnRows
<1> QED
  BY <1>1, <1>2, <1>3 DEF OwnRows

\* A login gives a slot that nobody has, a logout clears the slot, and a handler
\* stores in the slot of a registered user.
LEMMA RowsNext ==
    ASSUME RowInv, [UpNext]_all_vars, [UnusedId]_vars PROVE OwnRows'
<1> USE DEF RowInv, UpInv, UpTypes, UpControl
<1>a. /\ pc \in [Proc -> Alive \cup {"off", "done", "crashed"}]
      /\ id \in [Proc -> Slots] /\ stopped \in [Proc -> BOOLEAN]
      /\ state \in [Slots -> BOOLEAN] /\ min_id \in Ids
      /\ user_pipe \in [Slots -> [Slots -> Fifos \cup {NoFifo}]]
  BY DEF ProcTypes, SharedTypes, PipeTypes
<1>b. Ids \subseteq Slots /\ 0 \notin Ids
  BY DEF Ids, Slots
<1>0. ASSUME NEW p \in Proc, UNCHANGED <<id, state, user_pipe>>,
             \A r \in Proc \ {p} : pc'[r] = pc[r] /\ stopped'[r] = stopped[r],
             p \in Registered' => p \in Registered
      PROVE  OwnRows'
  <2>1. Registered' \subseteq Registered
    BY <1>0 DEF Registered
  <2> QED
    BY <1>0, <2>1, RowsFrame
<1>u. ASSUME UNCHANGED <<id, state, user_pipe, pc, stopped>> PROVE OwnRows'
  BY <1>u DEF OwnRows, Registered
<1>1. CASE UNCHANGED all_vars
  BY <1>u, <1>1 DEF all_vars, vars, client_list, proc_vars, up_vars
<1>2. CASE (ServerWait \/ ServerSpin) /\ UNCHANGED up_vars
  BY <1>u, <1>2 DEF ServerWait, ServerSpin, client_list, proc_vars, up_vars
<1>3. ASSUME NEW p \in Proc, User(p), UNCHANGED up_vars
      PROVE  OwnRows'
  <2>1. /\ UNCHANGED <<id, state, user_pipe>>
        /\ \A r \in Proc \ {p} : pc'[r] = pc[r] /\ stopped'[r] = stopped[r]
    BY <1>3, <1>a DEF User, Accept, cmd_yell, cmd_tell, cmd_name, Exit, HangUp,
           StartBroadcast, shared_unchanged, client_list, up_vars
  <2>2. p \in Registered' => p \in Registered
    BY <1>3, <1>a DEF User, Accept, cmd_yell, cmd_tell, cmd_name, MayType, Exit,
           HangUp, StartBroadcast, Registered, Leaving, Loop
  <2> QED
    BY <1>0, <2>1, <2>2
<1>4. ASSUME NEW p \in Proc, Login(p), UNCHANGED up_vars
      PROVE  OwnRows'
  <2>1. /\ id[p] = 0 /\ id'[p] = min_id
        /\ \A r \in Proc \ {p} : id'[r] = id[r] /\ pc'[r] = pc[r]
        /\ UNCHANGED <<stopped, user_pipe>> /\ state' = [state EXCEPT ![min_id] = TRUE]
    BY <1>4, <1>a DEF Login, PcControl, up_vars
  <2>2. ~state[min_id]
    BY <2>1, <1>a, <1>b DEF vars, proc_vars, UnusedId
  <2>3. \A r \in Registered' : r = p \/ (r \in Registered /\ id'[r] = id[r])
    BY <2>1 DEF Registered
  <2>4. \A r \in Registered' : r \in Proc /\ id'[r] \in Slots
    BY <2>1, <1>a, <1>b DEF Registered
  <2>5. \A r \in Registered' : state'[id'[r]]
    BY <2>1, <2>3, <2>4, <1>a DEF OwnRows
  <2>6. \A r \in Registered' : r = p \/ id'[r] # min_id
    BY <2>2, <2>3 DEF OwnRows
  <2>7. \A r, q \in Registered' : id'[r] = id'[q] => r = q
    BY <2>1, <2>3, <2>6 DEF OwnRows
  <2>8. \A i \in Ids, j \in Slots : ~state'[i] => user_pipe'[i][j] = NoFifo
    BY <2>1, <1>a, <1>b DEF OwnRows
  <2> QED
    BY <2>5, <2>7, <2>8 DEF OwnRows
<1>5. ASSUME NEW p \in Proc,
             \/ LoginDone(p) \/ print_welcome_msg(p) \/ ScanSlot(p)
             \/ ScanOther(p) \/ SemWait(p) \/ Recheck(p) \/ Kill(p)
             \/ KillSelf(p) \/ EndBroadcast(p) \/ CompareName(p) \/ SetName(p),
             UNCHANGED up_vars
      PROVE  OwnRows'
  <2>1. /\ UNCHANGED <<id, state, user_pipe>>
        /\ \A r \in Proc \ {p} : pc'[r] = pc[r] /\ stopped'[r] = stopped[r]
    BY <1>5, <1>a DEF LoginDone, print_welcome_msg, ScanSlot, ScanOther,
           SemWait, Recheck, Kill, KillSelf, EndBroadcast, CompareName, SetName,
           StartBroadcast, NextSlot, shared_unchanged, client_list, up_vars
  <2>2. pc[p] \notin {"off", "login"} /\ pc'[p] # "logout" /\ UNCHANGED stopped
    BY <1>5, <1>a DEF LoginDone, print_welcome_msg, ScanSlot, ScanOther,
           SemWait, Recheck, Kill, KillSelf, EndBroadcast, CompareName, SetName,
           StartBroadcast, NextSlot
  <2>3. p \in Registered' => p \in Registered
    BY <2>2 DEF Registered
  <2> QED
    BY <1>0, <2>1, <2>3
<1>6. ASSUME NEW p \in Proc, LogoutPipes(p)
      PROVE  OwnRows'
  <2>1. PICK k \in Ids : k = id[p]
    BY <1>6 DEF LogoutPipes, Logout, PcControl
  <2>2. /\ UNCHANGED <<id, stopped>> /\ state' = [state EXCEPT ![k] = FALSE]
        /\ \A r \in Proc \ {p} : pc'[r] = pc[r]
        /\ pc[p] = "logout" /\ pc'[p] = "scan"
    BY <1>6, <2>1, <1>a DEF LogoutPipes, Logout, StartBroadcast
  <2>3. p \in Registered /\ stopped[p]
    BY <2>2 DEF Registered, Leaving
  <2>4. Registered' \subseteq Registered \ {p}
    BY <2>2, <2>3 DEF Registered
  <2>5. \A r \in Registered' : id[r] # k /\ id[r] \in Slots
    BY <2>1, <2>3, <2>4, <1>a DEF OwnRows, Registered
  <2>6. \A r \in Registered' : state'[id'[r]]
    BY <2>2, <2>4, <2>5, <1>a DEF OwnRows
  <2>7. \A r, q \in Registered' : id'[r] = id'[q] => r = q
    BY <2>2, <2>4 DEF OwnRows
  <2>8. \A j \in Slots : user_pipe'[k][j] = NoFifo
    BY <1>6, <2>1, <1>b DEF LogoutPipes, ResetPipes
  <2>9. \A i \in Ids, j \in Slots :
           user_pipe[i][j] = NoFifo => user_pipe'[i][j] = NoFifo
    BY <1>6, <2>1, <1>b DEF LogoutPipes, ResetPipes
  <2>10. \A i \in Ids, j \in Slots : ~state'[i] => user_pipe'[i][j] = NoFifo
    BY <2>2, <2>8, <2>9, <1>a, <1>b DEF OwnRows
  <2> QED
    BY <2>6, <2>7, <2>10 DEF OwnRows
<1>7. ASSUME NEW p \in Proc,
             \/ (\E l \in UpLines : UpLine(p, l[2], l[3]))
             \/ print_user_pipe_in(p) \/ print_user_pipe_out(p)
      PROVE  OwnRows'
  <2>1. /\ UNCHANGED <<id, state, user_pipe, stopped>>
        /\ \A r \in Proc \ {p} : pc'[r] = pc[r]
        /\ pc[p] = "idle" /\ pc'[p] \in {"idle", "scan"}
    BY <1>7, <1>a DEF UpLine, print_user_pipe_in, print_user_pipe_out, At,
           Announce, StartBroadcast, shared_unchanged
  <2>2. p \in Registered' => p \in Registered
    BY <2>1 DEF Registered
  <2> QED
    BY <1>0, <2>1, <2>2
<1>8. ASSUME NEW p \in Proc,
             \/ Decide(p) \/ create_user_pipe(p) \/ RecheckPipe(p) \/ KillPipe(p)
             \/ (\E q \in Proc : Open(p, q)) \/ user_pipe_handler(p)
             \/ Handler(p)
      PROVE  OwnRows'
  BY <1>u, <1>8 DEF Decide, create_user_pipe, RecheckPipe, KillPipe, Open,
         user_pipe_handler, Handler, msg_handler, shared_unchanged, vars,
         client_list, proc_vars, up_vars
<1>9. ASSUME NEW p \in Proc, Fork(p)
      PROVE  OwnRows'
  <2>1. UNCHANGED <<id, state, pc, stopped>> /\ Registered' = Registered
    BY <1>9 DEF Fork, vars, client_list, proc_vars, Registered
  <2>2. \A i \in Ids, j \in Slots :
           user_pipe[i][j] = NoFifo => user_pipe'[i][j] = NoFifo
    BY <1>9, <1>a, <1>b DEF Fork, DropPipe
  <2> QED
    BY <2>1, <2>2, RowsFrame
<1>10. ASSUME NEW p \in Proc, StoreFd(p)
      PROVE  OwnRows'
  <2>1. UNCHANGED <<id, state, pc, stopped>> /\ Registered' = Registered
    BY <1>10 DEF StoreFd, shared_unchanged, proc_vars, Registered
  <2>2. CASE stopped[p]
    BY <1>10, <1>u, <2>1, <2>2 DEF StoreFd
  <2>3. CASE ~stopped[p]
    <3>1. p \in Registered
      BY <1>10, <2>3 DEF StoreFd, PcControl, Registered
    <3>2. PICK k \in Slots : k = id[p] /\ state[k]
      BY <3>1, <1>a DEF OwnRows
    <3>3. \A i \in Slots \ {k} : user_pipe'[i] = user_pipe[i]
      BY <1>10, <2>3, <3>2, <1>a DEF StoreFd
    <3> QED
      BY <2>1, <3>2, <3>3, <1>b, RowsFrame
  <2> QED
    BY <2>2, <2>3
<1> QED
  BY <1>1, <1>2, <1>3, <1>4, <1>5, <1>6, <1>7, <1>8, <1>9, <1>10
     DEF UpNext, BaseStep, Work, Types, PipeStep

\* The id of a process changes in a login only.
LEMMA IdFromLogin ==
    ASSUME UpNext, NEW p \in Proc, id'[p] # id[p]
    PROVE  \E q \in Proc : Login(q) /\ UNCHANGED up_vars
<1>1. ASSUME NEW q \in Proc, User(q)
      PROVE  UNCHANGED id
  BY <1>1 DEF User, Accept, cmd_yell, cmd_tell, cmd_name, Exit, HangUp
<1>2. ASSUME NEW q \in Proc, Work(q)
      PROVE  UNCHANGED id \/ Login(q)
  BY <1>2 DEF Work, LoginDone, print_welcome_msg, ScanSlot, ScanOther,
         SemWait, Recheck, Kill, KillSelf, EndBroadcast, CompareName, SetName
<1>3. ASSUME NEW q \in Proc,
             \/ LogoutPipes(q) \/ Handler(q) \/ Types(q) \/ PipeStep(q)
             \/ user_pipe_handler(q) \/ StoreFd(q)
      PROVE  UNCHANGED id
  BY <1>3 DEF LogoutPipes, Logout, Handler, msg_handler, Types, UpLine,
         PipeStep, print_user_pipe_in, print_user_pipe_out, Decide,
         create_user_pipe, RecheckPipe, KillPipe, Open, Fork,
         user_pipe_handler, StoreFd, vars, proc_vars
<1>4. CASE (ServerWait \/ ServerSpin) /\ UNCHANGED up_vars
  BY <1>4 DEF ServerWait, ServerSpin, proc_vars
<1> QED
  BY <1>1, <1>2, <1>3, <1>4 DEF UpNext, BaseStep

\* The rows stay like that as long as every login gets an unused id.
LEMMA RowsInvariant == UpSpec /\ SmallestUnusedId => []RowInv
<1>1. UpInit => Leaving /\ OwnRows
  BY DEF UpInit, Init, Leaving, OwnRows, Registered, Ids, Slots
<1>2. RowInv /\ [UpNext]_all_vars /\ [UnusedId]_vars => Leaving' /\ OwnRows'
  BY LeavingNext, RowsNext DEF RowInv
<1> QED
  BY <1>1, <1>2, UpInvariant, PTL DEF UpSpec, SmallestUnusedId, RowInv, UnusedId

\* "a new client who gets your client id can't receive the message because the
\* pipe is gone": as long as every login gets an unused id, a user that logs in
\* finds no pipe in its row, whatever was on its way to the one before it.
THEOREM RowsAreFresh == UpSpec /\ SmallestUnusedId => FreshRow
<1>1. UpInv /\ OwnRows /\ [UpNext]_all_vars =>
         [\A p \in Proc : id[p] = 0 /\ id'[p] # 0 /\ ~state[id'[p]]
             => \A j \in Slots : user_pipe'[id'[p]][j] = NoFifo]_all_vars
  <2> SUFFICES ASSUME UpInv, OwnRows, UpNext, NEW p \in Proc,
                      id[p] = 0, id'[p] # 0, ~state[id'[p]], NEW j \in Slots
               PROVE  user_pipe'[id'[p]][j] = NoFifo
    OBVIOUS
  <2>1. id \in [Proc -> Slots] /\ min_id \in Ids
    BY DEF UpInv, UpTypes, ProcTypes, SharedTypes
  <2>2. PICK q \in Proc : Login(q) /\ UNCHANGED up_vars
    BY IdFromLogin
  <2>3. id'[p] = min_id /\ UNCHANGED user_pipe
    BY <2>1, <2>2 DEF Login, up_vars
  <2> QED
    BY <2>1, <2>3 DEF OwnRows
<1> QED
  BY <1>1, RowsInvariant, PTL DEF UpSpec, FreshRow, RowInv

-----------------------------------------------------------------------------
(***************************************************************************)
(* Pipes are not replaced. The sender looks for a pipe in the table, which *)
(* has none while the handler of the receiver is about to store one. What  *)
(* keeps the sender from making a second one is the announcement: it waits *)
(* for the mailbox of the receiver, which the handler has. A user that     *)
(* pipes to itself announces nothing to itself, but it never comes out of  *)
(* open(). The ids have to be unique here too: of two users with one id    *)
(* each could make a pipe for the same receiver.                           *)
(***************************************************************************)

\* A line with a user pipe is executed at the prompt, but for the broadcasts of
\* what was received and what was piped.
LinePc(p) ==
    /\ up[p] # "none" =>
          /\ ~stopped[p]
          /\ \/ pc[p] = "idle"
             \/ /\ up[p] \in {"out", "create"} /\ pc[p] \in Loop
                /\ msg[p].kind # "tell"
    /\ pc[p] = "scan" => idx[p] >= 1
PipePc == \A p \in Proc : LinePc(p)

\* Every fifo has a number of its own, and its path is in no other mailbox than
\* that of the user it is made for.
Making == {"wait", "recheck", "kill", "open"}
IsPath(m) == m.kind = "fifo"
Counted ==
    /\ \A i \in Slots : IsPath(mailbox[i]) => mailbox[i].n <= fifos
    /\ \A p \in Proc : up[p] \in Making => job[p].fifo.n <= fifos
OwnNumbers ==
    \A p, q \in Proc : up[p] \in Making /\ up[q] \in Making
                          /\ job[p].fifo.n = job[q].fifo.n => p = q
OwnPaths ==
    \A p \in Proc, i \in Slots :
        up[p] \in Making /\ IsPath(mailbox[i]) /\ mailbox[i].n = job[p].fifo.n
           => i = job[p].out
Numbers == Counted /\ OwnNumbers /\ OwnPaths

\* The handler of q, in slot i, has got or is about to get the signal for a pipe
\* of slot j, and will store it.
Stores(q, i, j) == PipeSignalled(q, i) /\ ~stopped[q] /\ from_id[i] = j
Storing(i, j) == \E q \in Proc : Stores(q, i, j)

\* Who pipes to itself waits in open() for its own handler.
SelfPipe ==
    \A p \in Proc, i \in Ids :
        Stores(p, i, i) => up[p] = "open" /\ job[p].out = i

\* The announcement of what p pipes has got past the receiver.
PastReceiver(p) ==
    \/ pc[p] = "idle"
    \/ idx[p] > job[p].out
    \/ idx[p] = job[p].out /\ pc[p] \in {"recheck", "kill"}

\* While a pipe is on its way the table has none in its place, and its sender
\* gets past the receiver with another one only when it is no longer on its way.
FirstOnly ==
    \A i \in Ids, j \in Slots : Storing(i, j) => user_pipe[i][j] = NoFifo
NoSecond(p) ==
    up[p] = "wait" \/ (up[p] = "create" /\ PastReceiver(p) /\ job[p].out \in Ids)
       => ~Storing(job[p].out, id[p])
Room(p) ==
    /\ up[p] \in {"wait", "recheck", "kill"} =>
          user_pipe[job[p].out][id[p]] = NoFifo
    /\ up[p] \in {"recheck", "kill"} => from_id[job[p].out] = id[p]
OnItsWay == FirstOnly /\ \A p \in Proc : NoSecond(p) /\ Room(p)

\* A line begins at the prompt, and the broadcasts in it are no tells.
LEMMA PipePcNext ==
    ASSUME UpInv, Leaving, PipePc, [UpNext]_all_vars PROVE PipePc'
<1>a. /\ pc \in [Proc -> Alive \cup {"off", "done", "crashed"}]
      /\ stopped \in [Proc -> BOOLEAN] /\ msg \in [Proc -> Texts]
      /\ idx \in [Proc -> 0..(max_client_num + 1)]
  BY DEF UpInv, UpTypes, ProcTypes
<1>b. /\ up \in [Proc -> {"none", "in", "out", "create", "wait", "recheck",
                          "kill", "open", "fork"}]
  BY DEF UpInv, UpTypes, PipeTypes
<1>c. \A p \in Proc : idx[p] \in Int
  BY <1>a
<1>0. ASSUME UNCHANGED <<pc, stopped, msg, idx, up>> PROVE PipePc'
  BY <1>0 DEF PipePc, LinePc
<1>o. ASSUME NEW p \in Proc, LinePc(p)',
             \A r \in Proc \ {p} : /\ pc'[r] = pc[r] /\ stopped'[r] = stopped[r]
                                   /\ msg'[r] = msg[r] /\ idx'[r] = idx[r]
                                   /\ up'[r] = up[r]
      PROVE  PipePc'
  BY <1>o DEF PipePc, LinePc
<1>1. CASE UNCHANGED all_vars
  BY <1>0, <1>1 DEF all_vars, vars, proc_vars, up_vars
<1>2. CASE (ServerWait \/ ServerSpin) /\ UNCHANGED up_vars
  BY <1>0, <1>2 DEF ServerWait, ServerSpin, proc_vars, up_vars
<1>3. ASSUME NEW p \in Proc, up[p] = "none", User(p), UNCHANGED up_vars
      PROVE  PipePc'
  <2>1. \A r \in Proc \ {p} : /\ pc'[r] = pc[r] /\ stopped'[r] = stopped[r]
                              /\ msg'[r] = msg[r] /\ idx'[r] = idx[r]
    BY <1>3, <1>a DEF User, Accept, cmd_yell, cmd_tell, cmd_name, Exit, HangUp,
           StartBroadcast
  <2>2. pc'[p] = "scan" => idx'[p] >= 1
    BY <1>3, <1>a DEF User, Accept, cmd_yell, cmd_tell, cmd_name, Exit, HangUp,
           StartBroadcast, MayType, PipePc, LinePc
  <2> QED
    BY <1>3, <1>o, <2>1, <2>2 DEF up_vars, LinePc
<1>4. ASSUME NEW p \in Proc,
             \/ Login(p) \/ LoginDone(p) \/ print_welcome_msg(p)
             \/ CompareName(p) \/ SetName(p) \/ Logout(p),
             UNCHANGED up
      PROVE  PipePc'
  <2>1. \A r \in Proc \ {p} : /\ pc'[r] = pc[r] /\ stopped'[r] = stopped[r]
                              /\ msg'[r] = msg[r] /\ idx'[r] = idx[r]
    BY <1>4, <1>a DEF Login, LoginDone, print_welcome_msg, CompareName, SetName,
           Logout, StartBroadcast
  <2>2. pc'[p] = "scan" => idx'[p] >= 1
    BY <1>4, <1>a DEF Login, LoginDone, print_welcome_msg, CompareName, SetName,
           Logout, StartBroadcast, PipePc, LinePc
  <2>3. up[p] = "none"
    BY <1>4 DEF Login, LoginDone, print_welcome_msg, CompareName, SetName,
           Logout, PipePc, LinePc, Loop
  <2> QED
    BY <1>4, <1>o, <2>1, <2>2, <2>3 DEF LinePc
<1>n. ASSUME NEW p \in Proc, pc[p] \in Loop, NextSlot(p), UNCHANGED <<stopped, msg, up>>,
             pc[p] = "scan" => idx[p] \in Ids
      PROVE  PipePc'
  <2>1. \A r \in Proc \ {p} : /\ pc'[r] = pc[r] /\ stopped'[r] = stopped[r]
                              /\ msg'[r] = msg[r] /\ idx'[r] = idx[r]
    BY <1>n, <1>a DEF NextSlot
  <2>2. \/ pc'[p] = "idle"
        \/ pc'[p] = "scan" /\ idx'[p] = idx[p] + 1
    BY <1>n, <1>a DEF NextSlot
  <2>3. pc'[p] = "scan" => idx'[p] >= 1
    BY <2>2, <1>a
  <2> QED
    BY <1>n, <1>o, <2>1, <2>2, <2>3 DEF LinePc, PipePc, Loop
<1>5. ASSUME NEW p \in Proc, ScanSlot(p) \/ Kill(p) \/ KillSelf(p), UNCHANGED up
      PROVE  PipePc'
  BY <1>5, <1>n DEF ScanSlot, Kill, KillSelf, Loop
<1>6. ASSUME NEW p \in Proc, ScanOther(p) \/ SemWait(p), UNCHANGED up
      PROVE  PipePc'
  BY <1>6, <1>a DEF ScanOther, SemWait, Loop, PipePc, LinePc
<1>7. ASSUME NEW p \in Proc, EndBroadcast(p), UNCHANGED up
      PROVE  PipePc'
  <2>1. CASE stopped[p]
    BY <1>7, <2>1, <1>a DEF EndBroadcast, Loop, PipePc, LinePc
  <2>2. CASE ~stopped[p]
    BY <1>7, <2>2, <1>a DEF EndBroadcast, Loop, PipePc, LinePc
  <2> QED
    BY <2>1, <2>2
<1>8. ASSUME NEW p \in Proc, Recheck(p), UNCHANGED up
      PROVE  PipePc'
  <2>1. CASE state[idx[p]]
    BY <1>8, <2>1, <1>a DEF Recheck, Loop, PipePc, LinePc
  <2>2. CASE ~state[idx[p]]
    BY <1>8, <2>2, <1>n DEF Recheck, Loop
  <2> QED
    BY <2>1, <2>2
<1>9. ASSUME NEW p \in Proc,
             \/ (\E l \in UpLines : UpLine(p, l[2], l[3]))
             \/ print_user_pipe_in(p) \/ print_user_pipe_out(p)
      PROVE  PipePc'
  <2>1. /\ \A r \in Proc \ {p} : /\ pc'[r] = pc[r] /\ msg'[r] = msg[r]
                                 /\ idx'[r] = idx[r] /\ up'[r] = up[r]
        /\ UNCHANGED stopped /\ pc[p] = "idle"
    BY <1>9, <1>a, <1>b DEF UpLine, print_user_pipe_in, print_user_pipe_out, At,
           Announce, StartBroadcast
  <2>2. ~stopped[p]
    BY <2>1 DEF Leaving, Loop
  <2>3. \/ pc'[p] = "idle"
        \/ /\ pc'[p] = "scan" /\ idx'[p] = 1 /\ msg'[p].kind \in {"received", "piped"}
           /\ up'[p] \in {"out", "create"}
    <3>1. CASE \E l \in UpLines : UpLine(p, l[2], l[3])
      BY <3>1, <2>1 DEF UpLine
    <3>2. ASSUME NEW k, NEW x, k \in {"received", "piped"}, StartBroadcast(p, k, x)
          PROVE  pc'[p] = "scan" /\ idx'[p] = 1 /\ msg'[p].kind \in {"received", "piped"}
      BY <3>2, <1>a DEF StartBroadcast, Message
    <3>3. CASE print_user_pipe_in(p)
      BY <3>2, <3>3, <2>1, <1>b DEF print_user_pipe_in, Announce
    <3>4. CASE print_user_pipe_out(p)
      BY <3>2, <3>4, <2>1, <1>b DEF print_user_pipe_out, Announce
    <3> QED
      BY <1>9, <3>1, <3>3, <3>4
  <2> QED
    BY <1>o, <2>1, <2>2, <2>3 DEF LinePc, Loop
<1>10. ASSUME NEW p \in Proc,
             \/ Decide(p) \/ KillPipe(p) \/ (\E q \in Proc : Open(p, q))
             \/ Fork(p) \/ RecheckPipe(p) \/ create_user_pipe(p)
      PROVE  PipePc'
  <2>1. /\ UNCHANGED <<pc, msg, idx, stopped>> /\ pc[p] = "idle"
        /\ \A r \in Proc \ {p} : up'[r] = up[r]
    BY <1>10, <1>b DEF Decide, KillPipe, Open, Fork, RecheckPipe,
           create_user_pipe, At, vars, proc_vars
  <2>2. ~stopped[p]
    BY <2>1 DEF Leaving, Loop
  <2> QED
    BY <1>o, <2>1, <2>2 DEF LinePc
<1>11. ASSUME NEW p \in Proc, user_pipe_handler(p) \/ StoreFd(p) \/ Handler(p)
      PROVE  PipePc'
  BY <1>0, <1>11 DEF user_pipe_handler, StoreFd, Handler, msg_handler, vars,
         proc_vars, up_vars
<1>12. ASSUME NEW p \in Proc, BaseStep(p)
      PROVE  PipePc'
  <2>1. CASE User(p)
    <3>1. up[p] = "none" \/ pc[p] \in Loop
      BY <1>12 DEF BaseStep
    <3>2. CASE up[p] = "none"
      BY <1>3, <1>12, <2>1, <3>2 DEF BaseStep
    <3>3. CASE pc[p] \in Loop
      BY <1>12, <2>1, <3>3 DEF User, Accept, cmd_yell, cmd_tell, cmd_name, Exit,
             HangUp, MayType, Loop
    <3> QED
      BY <3>1, <3>2, <3>3
  <2>2. CASE Work(p)
    BY <1>12, <2>2, <1>4, <1>5, <1>6, <1>7, <1>8 DEF BaseStep, Work, up_vars
  <2> QED
    BY <1>12, <2>1, <2>2 DEF BaseStep
<1> QED
  BY <1>1, <1>2, <1>4, <1>9, <1>10, <1>11, <1>12
     DEF UpNext, LogoutPipes, Types, PipeStep

\* A step that leaves the paths alone and makes nobody begin a fifo.
LEMMA NumbersFrame ==
    ASSUME Numbers, UNCHANGED fifos,
           \A i \in Slots : IsPath(mailbox'[i]) => mailbox'[i] = mailbox[i],
           \A p \in Proc : up'[p] \in Making => up[p] \in Making /\ job'[p] = job[p]
    PROVE  Numbers'
<1>1. Counted'
  BY DEF Numbers, Counted
<1>2. OwnNumbers'
  BY DEF Numbers, OwnNumbers
<1>3. OwnPaths'
  BY DEF Numbers, OwnPaths
<1> QED
  BY <1>1, <1>2, <1>3 DEF Numbers

\* A new fifo gets a number that no path has, and its path is put in the mailbox
\* of its receiver only.
LEMMA NumbersNext ==
    ASSUME UpInv, Numbers, [UpNext]_all_vars PROVE Numbers'
<1> USE DEF UpInv, UpTypes, UpControl
<1>a. /\ up \in [Proc -> {"none", "in", "out", "create", "wait", "recheck",
                          "kill", "open", "fork"}]
      /\ job \in [Proc -> Jobs] /\ fifos \in Nat
      /\ mailbox \in [Slots -> Texts \cup Paths] /\ msg \in [Proc -> Texts]
  BY DEF PipeTypes, SharedTypes, ProcTypes
<1>0. ASSUME UNCHANGED <<mailbox, up, job, fifos>> PROVE Numbers'
  BY <1>0, NumbersFrame
<1>1. CASE UNCHANGED all_vars
  BY <1>0, <1>1 DEF all_vars, vars, client_list, up_vars
<1>2. CASE (ServerWait \/ ServerSpin) /\ UNCHANGED up_vars
  BY <1>0, <1>2 DEF ServerWait, ServerSpin, client_list, up_vars
<1>3. ASSUME NEW p \in Proc, User(p) \/ Work(p), ~SemWait(p), UNCHANGED up_vars
      PROVE  Numbers'
  BY <1>0, <1>3 DEF User, Accept, cmd_yell, cmd_tell, cmd_name, Exit, HangUp,
         Work, Login, LoginDone, print_welcome_msg, ScanSlot, ScanOther, Recheck,
         Kill, KillSelf, EndBroadcast, CompareName, SetName, client_list, up_vars
<1>4. ASSUME NEW p \in Proc, SemWait(p), UNCHANGED up_vars
      PROVE  Numbers'
  <2>1. ~IsPath(msg[p])
    BY <1>a, MailKinds DEF IsPath
  <2>2. \A i \in Slots : IsPath(mailbox'[i]) => mailbox'[i] = mailbox[i]
    BY <1>4, <1>a, <2>1 DEF SemWait
  <2> QED
    BY <1>4, <2>2, NumbersFrame DEF up_vars
<1>5. ASSUME NEW p \in Proc,
             \/ LogoutPipes(p) \/ Handler(p) \/ user_pipe_handler(p) \/ StoreFd(p)
      PROVE  Numbers'
  BY <1>0, <1>5 DEF LogoutPipes, Logout, Handler, msg_handler, user_pipe_handler,
         StoreFd, vars, client_list, up_vars
<1>6. ASSUME NEW p \in Proc,
             \/ (\E l \in UpLines : UpLine(p, l[2], l[3]))
             \/ print_user_pipe_in(p) \/ print_user_pipe_out(p)
             \/ RecheckPipe(p) \/ KillPipe(p) \/ (\E q \in Proc : Open(p, q))
             \/ Fork(p)
      PROVE  Numbers'
  <2>1. UNCHANGED <<mailbox, fifos>>
    BY <1>6 DEF UpLine, print_user_pipe_in, print_user_pipe_out, RecheckPipe,
           KillPipe, Open, Fork, vars, client_list
  <2>2. \A r \in Proc \ {p} : up'[r] = up[r] /\ job'[r] = job[r]
    BY <1>6, <1>a DEF UpLine, print_user_pipe_in, print_user_pipe_out,
           RecheckPipe, KillPipe, Open, Fork
  <2>3. up'[p] \in Making => up[p] \in Making /\ job'[p] = job[p]
    BY <1>6, <1>a DEF UpLine, print_user_pipe_in, print_user_pipe_out,
           RecheckPipe, KillPipe, Open, Fork, At, Making
  <2> QED
    BY <2>1, <2>2, <2>3, NumbersFrame
<1>7. ASSUME NEW p \in Proc, Decide(p)
      PROVE  Numbers'
  <2>1. UNCHANGED mailbox /\ \A r \in Proc \ {p} : up'[r] = up[r] /\ job'[r] = job[r]
    BY <1>7, <1>a DEF Decide, vars, client_list
  <2>2. CASE Creates(p)
    <3>1. fifos' = fifos + 1 /\ job'[p].fifo.n = fifos' /\ up'[p] = "wait"
      BY <1>7, <2>2, <1>a DEF Decide, Fifo, Jobs
    <3>2. \A i \in Slots : IsPath(mailbox[i]) => mailbox[i].n <= fifos /\ mailbox[i].n \in Nat
      BY <1>a, MailKinds DEF Numbers, Counted, IsPath, Texts, Paths
    <3>3. \A r \in Proc : up[r] \in Making => job[r].fifo.n <= fifos /\ job[r].fifo.n \in Nat
      BY <1>a DEF Numbers, Counted, PcControl, Making, Fifos
    <3>4. Counted'
      BY <2>1, <3>1, <3>2, <3>3, <1>a DEF Counted
    <3>5. OwnNumbers'
      BY <2>1, <3>1, <3>3, <1>a DEF OwnNumbers, Numbers
    <3>6. OwnPaths'
      <4> SUFFICES ASSUME NEW r \in Proc, NEW i \in Slots, up'[r] \in Making,
                          IsPath(mailbox'[i]), mailbox'[i].n = job'[r].fifo.n
                   PROVE  i = job'[r].out
        BY DEF OwnPaths
      <4>1. r # p
        BY <2>1, <3>1, <3>2, <1>a
      <4> QED
        BY <2>1, <4>1 DEF OwnPaths, Numbers
    <3> QED
      BY <3>4, <3>5, <3>6 DEF Numbers
  <2>3. CASE ~Creates(p)
    <3>1. UNCHANGED <<fifos, job>> /\ up'[p] = "fork"
      BY <1>7, <2>3, <1>a DEF Decide
    <3> QED
      BY <2>1, <3>1, NumbersFrame DEF Making
  <2> QED
    BY <2>2, <2>3
<1>8. ASSUME NEW p \in Proc, create_user_pipe(p)
      PROVE  Numbers'
  <2>1. PICK o \in Slots : o = job[p].out
    BY <1>a DEF Jobs
  <2>2. /\ mailbox' = [mailbox EXCEPT ![o] = Path(job[p].fifo)]
        /\ UNCHANGED <<fifos, job>> /\ \A r \in Proc \ {p} : up'[r] = up[r]
        /\ up[p] = "wait" /\ up'[p] = "recheck"
    BY <1>8, <2>1, <1>a DEF create_user_pipe, At
  <2>3. \A r \in Proc : up'[r] \in Making <=> up[r] \in Making
    BY <2>2 DEF Making
  <2>4. /\ mailbox'[o].n = job[p].fifo.n
        /\ \A i \in Slots \ {o} : mailbox'[i] = mailbox[i]
    BY <2>2, <1>a DEF Path
  <2>5. Counted'
    BY <2>2, <2>3, <2>4 DEF Numbers, Counted, Making
  <2>6. OwnNumbers'
    BY <2>2, <2>3 DEF Numbers, OwnNumbers
  <2>7. OwnPaths'
    <3> SUFFICES ASSUME NEW r \in Proc, NEW i \in Slots, up'[r] \in Making,
                        IsPath(mailbox'[i]), mailbox'[i].n = job'[r].fifo.n
                 PROVE  i = job'[r].out
      BY DEF OwnPaths
    <3>1. CASE i = o
      <4>1. r = p
        BY <3>1, <2>2, <2>3, <2>4 DEF Numbers, OwnNumbers, Making
      <4> QED
        BY <3>1, <4>1, <2>1, <2>2
    <3>2. CASE i # o
      BY <3>2, <2>2, <2>3, <2>4 DEF Numbers, OwnPaths
    <3> QED
      BY <3>1, <3>2
  <2> QED
    BY <2>5, <2>6, <2>7 DEF Numbers
<1> QED
  BY <1>1, <1>2, <1>3, <1>4, <1>5, <1>6, <1>7, <1>8
     DEF UpNext, BaseStep, Types, PipeStep

-----------------------------------------------------------------------------

\* A step that makes nobody a receiver of a path.
LEMMA StoresFrame ==
    ASSUME UNCHANGED from_id,
           \A r \in Proc : /\ usr2'[r] \/ hand'[r] # "none" =>
                                 (usr2[r] \/ hand[r] # "none") /\ id'[r] = id[r]
                           /\ stopped[r] => stopped'[r]
    PROVE  \A q \in Proc, i \in Ids, j \in Slots : Stores(q, i, j)' => Stores(q, i, j)
BY DEF Stores, PipeSignalled

\* A pipe is on its way to a user when create_user_pipe has signalled it, and
\* not otherwise.
LEMMA StoresNext ==
    ASSUME UpInv, [UpNext]_all_vars,
           NEW q \in Proc, NEW i \in Ids, NEW j \in Slots, Stores(q, i, j)'
    PROVE  \/ Stores(q, i, j)
           \/ \E p \in Proc : /\ KillPipe(p) /\ job[p].out = i /\ from_id[i] = j
                              /\ id[q] = i /\ ~stopped[q]
                              /\ pc[q] \notin {"off", "login"}
<1> USE DEF UpInv, UpTypes, UpControl
<1>a. /\ stopped \in [Proc -> BOOLEAN] /\ usr2 \in [Proc -> BOOLEAN]
      /\ hand \in [Proc -> {"none", "open", "store"}]
      /\ from_id \in [Slots -> Slots] /\ id \in [Proc -> Slots]
      /\ pid \in [Slots -> Proc \cup {Server}]
  BY DEF PipeTypes, SharedTypes, ProcTypes
<1>b. Ids \subseteq Slots /\ {"path", "path'"} \subseteq Ways /\ 0 \notin Ids
  BY DEF Ids, Slots, Ways
<1>0. ASSUME UNCHANGED <<id, from_id, usr2, hand, stopped>> PROVE Stores(q, i, j)
  BY <1>0, StoresFrame
<1>1. CASE UNCHANGED all_vars
  BY <1>0, <1>1 DEF all_vars, vars, proc_vars, up_vars
<1>2. CASE (ServerWait \/ ServerSpin) /\ UNCHANGED up_vars
  BY <1>0, <1>2 DEF ServerWait, ServerSpin, proc_vars, up_vars
<1>3. ASSUME NEW p \in Proc, User(p), UNCHANGED up_vars
      PROVE  Stores(q, i, j)
  <2>1. UNCHANGED id /\ \A r \in Proc : stopped[r] => stopped'[r]
    BY <1>3, <1>a DEF User, Accept, cmd_yell, cmd_tell, cmd_name, Exit, HangUp
  <2> QED
    BY <1>3, <2>1, StoresFrame DEF up_vars
<1>4. ASSUME NEW p \in Proc, Login(p), UNCHANGED up_vars
      PROVE  Stores(q, i, j)
  <2>1. ~usr2[p] /\ hand[p] = "none"
    BY <1>4 DEF Login, PcControl
  <2>2. UNCHANGED stopped /\ \A r \in Proc \ {p} : id'[r] = id[r]
    BY <1>4, <1>a DEF Login
  <2> QED
    BY <1>4, <2>1, <2>2, StoresFrame DEF up_vars
<1>5. ASSUME NEW p \in Proc, Work(p), ~Login(p), UNCHANGED up_vars
      PROVE  Stores(q, i, j)
  BY <1>0, <1>5 DEF Work, LoginDone, print_welcome_msg, ScanSlot, ScanOther,
         SemWait, Recheck, Kill, KillSelf, EndBroadcast, CompareName, SetName,
         up_vars
<1>6. ASSUME NEW p \in Proc,
             \/ LogoutPipes(p) \/ Handler(p)
             \/ (\E l \in UpLines : UpLine(p, l[2], l[3]))
             \/ print_user_pipe_in(p) \/ print_user_pipe_out(p)
             \/ Decide(p) \/ RecheckPipe(p) \/ Fork(p)
      PROVE  Stores(q, i, j)
  BY <1>0, <1>6 DEF LogoutPipes, Logout, Handler, msg_handler, UpLine,
         print_user_pipe_in, print_user_pipe_out, Decide, RecheckPipe, Fork,
         vars, proc_vars, up_vars
<1>7. ASSUME NEW p \in Proc,
             user_pipe_handler(p) \/ StoreFd(p) \/ (\E r \in Proc : Open(p, r))
      PROVE  Stores(q, i, j)
  <2>1. UNCHANGED <<id, from_id, stopped>>
    BY <1>7 DEF user_pipe_handler, StoreFd, Open, vars, proc_vars
  <2>2. \A r \in Proc : usr2'[r] \/ hand'[r] # "none" => usr2[r] \/ hand[r] # "none"
    BY <1>7, <1>a DEF user_pipe_handler, StoreFd, Open
  <2> QED
    BY <2>1, <2>2, StoresFrame
<1>8. ASSUME NEW p \in Proc, create_user_pipe(p)
      PROVE  Stores(q, i, j)
  <2>1. PICK o \in Ids : o = job[p].out
    BY <1>8 DEF create_user_pipe, At, PcControl
  <2>2. UNCHANGED <<id, usr2, hand, stopped>> /\ sem[o] > 0
    BY <1>8, <2>1 DEF create_user_pipe, PipeSlotFree
  <2>3. ~Owns(q, "path'", o)
    BY <2>2, <1>b DEF OneOwner
  <2>4. i # o
    BY <2>2, <2>3 DEF Owns, Stores, PipeSignalled
  <2>5. from_id'[i] = from_id[i]
    BY <1>8, <2>1, <2>4, <1>a, <1>b DEF create_user_pipe, SetFrom
  <2> QED
    BY <2>2, <2>5 DEF Stores, PipeSignalled
<1>9. ASSUME NEW p \in Proc, KillPipe(p), ~Stores(q, i, j)
      PROVE  /\ job[p].out = i /\ from_id[i] = j
             /\ id[q] = i /\ ~stopped[q] /\ pc[q] \notin {"off", "login"}
  <2>1. PICK o \in Ids : o = job[p].out
    BY <1>9 DEF KillPipe, At, PcControl
  <2>2. UNCHANGED <<id, from_id, hand, stopped>>
    BY <1>9 DEF KillPipe, vars, proc_vars
  <2>3. id[q] = i /\ ~stopped[q] /\ from_id[i] = j /\ usr2'[q] /\ ~usr2[q]
    BY <1>9, <2>2 DEF Stores, PipeSignalled
  <2>4. q = pid[o]
    BY <1>9, <2>1, <2>3, <1>a DEF KillPipe
  <2>5. id[q] = o
    BY <2>4, <1>b DEF SlotControl
  <2>6. pc[q] \notin {"off", "login"}
    BY <2>3, <1>b DEF PcControl
  <2> QED
    BY <2>1, <2>3, <2>5, <2>6
<1> QED
  BY <1>1, <1>2, <1>3, <1>4, <1>5, <1>6, <1>7, <1>8, <1>9
     DEF UpNext, BaseStep, Types, PipeStep

\* A pipe is put in the table by the handler that was about to store it.
LEMMA PipeNext ==
    ASSUME UpInv, [UpNext]_all_vars, NEW i \in Ids, NEW j \in Slots
    PROVE  \/ user_pipe'[i][j] \in {user_pipe[i][j], NoFifo}
           \/ \E q \in Proc : StoreFd(q) /\ Stores(q, i, j)
<1> USE DEF UpInv, UpTypes, UpControl
<1>a. /\ user_pipe \in [Slots -> [Slots -> Fifos \cup {NoFifo}]]
      /\ id \in [Proc -> Slots] /\ from_id \in [Slots -> Slots]
      /\ stopped \in [Proc -> BOOLEAN]
  BY DEF PipeTypes, ProcTypes
<1>b. Ids \subseteq Slots
  BY DEF Ids, Slots
<1>1. CASE UNCHANGED user_pipe
  BY <1>1
<1>2. ASSUME NEW p \in Proc, LogoutPipes(p)
      PROVE  user_pipe'[i][j] \in {user_pipe[i][j], NoFifo}
  BY <1>2, <1>b DEF LogoutPipes, ResetPipes
<1>3. ASSUME NEW p \in Proc, Fork(p)
      PROVE  user_pipe'[i][j] \in {user_pipe[i][j], NoFifo}
  BY <1>3, <1>a, <1>b DEF Fork, DropPipe
<1>4. ASSUME NEW p \in Proc, StoreFd(p), user_pipe'[i][j] # user_pipe[i][j]
      PROVE  Stores(p, i, j)
  <2>1. PICK k \in Slots : k = id[p]
    BY <1>a
  <2>2. PICK f \in Slots : f = from_id[k]
    BY <1>a
  <2>3. ~stopped[p] /\ user_pipe' = [user_pipe EXCEPT ![k][f] = mailbox[k].arg]
    BY <1>4, <2>1, <2>2 DEF StoreFd
  <2>4. i = k /\ j = f
    BY <1>4, <2>3, <1>a, <1>b
  <2> QED
    BY <1>4, <2>1, <2>2, <2>3, <2>4 DEF StoreFd, Stores, PipeSignalled
<1>5. ASSUME NEW p \in Proc,
             \/ BaseStep(p) \/ Handler(p) \/ Types(p) \/ print_user_pipe_in(p)
             \/ print_user_pipe_out(p) \/ Decide(p) \/ create_user_pipe(p)
             \/ RecheckPipe(p) \/ KillPipe(p) \/ (\E r \in Proc : Open(p, r))
             \/ user_pipe_handler(p)
      PROVE  UNCHANGED user_pipe
  BY <1>5 DEF BaseStep, Handler, Types, UpLine, print_user_pipe_in,
         print_user_pipe_out, Decide, create_user_pipe, RecheckPipe, KillPipe,
         Open, user_pipe_handler, up_vars
<1>6. CASE UNCHANGED all_vars \/ ((ServerWait \/ ServerSpin) /\ UNCHANGED up_vars)
  BY <1>1, <1>6 DEF all_vars, up_vars
<1> QED
  BY <1>1, <1>2, <1>3, <1>4, <1>5, <1>6 DEF UpNext, PipeStep

\* Who executes a line is registered.
LEMMA LineRegistered ==
    ASSUME PipePc, NEW p \in Proc, up[p] # "none" PROVE p \in Registered
BY DEF PipePc, LinePc, Registered, Loop

\* So is who is about to store a pipe.
LEMMA StoresRegistered ==
    ASSUME UpInv, NEW q \in Proc, NEW i \in Ids, NEW j \in Slots, Stores(q, i, j)
    PROVE  q \in Registered /\ id[q] = i
BY DEF UpInv, UpControl, PcControl, Stores, PipeSignalled, Registered

\* What waits for its own handler in open() stays there: no other handler has
\* the path it waits for.
LEMMA SelfNext ==
    ASSUME RowInv, PipePc, Numbers, SelfPipe, \A p \in Proc : Room(p),
           [UpNext]_all_vars
    PROVE  SelfPipe'
<1> USE DEF RowInv
<1>a. /\ up \in [Proc -> {"none", "in", "out", "create", "wait", "recheck",
                          "kill", "open", "fork"}]
      /\ job \in [Proc -> Jobs] /\ id \in [Proc -> Slots]
  BY DEF UpInv, UpTypes, PipeTypes, ProcTypes
<1>b. Ids \subseteq Slots /\ {"path", "path'"} \subseteq Ways
  BY DEF Ids, Slots, Ways
<1> SUFFICES ASSUME NEW q \in Proc, NEW i \in Ids, Stores(q, i, i)'
             PROVE  up'[q] = "open" /\ job'[q].out = i
  BY DEF SelfPipe
<1>1. CASE Stores(q, i, i)
  <2>1. up[q] = "open" /\ job[q].out = i /\ pc[q] = "idle" /\ Owns(q, "path'", i)
    BY <1>1 DEF SelfPipe, PipePc, LinePc, Owns, Stores
  <2>2. ASSUME NEW r \in Proc, Open(q, r) PROVE FALSE
    <3>1. /\ hand[q] = "none" /\ hand[r] = "open" /\ id[r] \in Slots
          /\ mailbox[id[r]] = Path(job[q].fifo)
      BY <2>2, <1>a DEF Open, At, Runs
    <3>2. IsPath(mailbox[id[r]]) /\ mailbox[id[r]].n = job[q].fifo.n
      BY <3>1 DEF IsPath, Path
    <3>3. id[r] = i
      BY <2>1, <3>1, <3>2 DEF Numbers, OwnPaths, Making
    <3>4. Owns(r, "path'", i)
      BY <3>1, <3>3 DEF Owns, PipeSignalled
    <3> QED
      BY <2>1, <3>1, <3>4, <1>b DEF UpInv, OneOwner
  <2>3. ASSUME NEW p \in Proc,
               \/ BaseStep(p) \/ LogoutPipes(p) \/ Handler(p)
               \/ user_pipe_handler(p) \/ StoreFd(p)
        PROVE  UNCHANGED <<up, job>>
    BY <2>3 DEF BaseStep, LogoutPipes, Handler, user_pipe_handler, StoreFd, up_vars
  <2>4. ASSUME NEW p \in Proc,
               \/ Types(p) \/ print_user_pipe_in(p) \/ print_user_pipe_out(p)
               \/ Decide(p) \/ create_user_pipe(p) \/ RecheckPipe(p) \/ KillPipe(p)
               \/ Fork(p)
        PROVE  p # q /\ up'[q] = up[q] /\ job'[q] = job[q]
    BY <2>4, <2>1, <1>a DEF Types, UpLine, print_user_pipe_in, print_user_pipe_out,
           Decide, create_user_pipe, RecheckPipe, KillPipe, Fork, At
  <2>5. ASSUME NEW p \in Proc, NEW r \in Proc, Open(p, r)
        PROVE  up'[q] = up[q] /\ job'[q] = job[q]
    BY <2>2, <2>5, <1>a DEF Open
  <2>6. UNCHANGED all_vars \/ ((ServerWait \/ ServerSpin) /\ UNCHANGED up_vars)
           => UNCHANGED <<up, job>>
    BY DEF all_vars, up_vars
  <2> QED
    BY <2>1, <2>3, <2>4, <2>5, <2>6 DEF UpNext, PipeStep
<1>2. CASE ~Stores(q, i, i)
  <2>1. PICK p \in Proc : /\ KillPipe(p) /\ job[p].out = i /\ from_id[i] = i
                          /\ id[q] = i /\ ~stopped[q]
                          /\ pc[q] \notin {"off", "login"}
    BY <1>2, <1>b, StoresNext
  <2>2. up[p] = "kill" /\ up'[p] = "open" /\ UNCHANGED job
    BY <2>1, <1>a DEF KillPipe, At
  <2>3. id[p] = i
    BY <2>1, <2>2 DEF Room
  <2>4. p \in Registered /\ q \in Registered
    BY <2>1, <2>2, LineRegistered DEF Registered
  <2>5. p = q
    BY <2>1, <2>3, <2>4 DEF OwnRows
  <2> QED
    BY <2>1, <2>2, <2>5
<1> QED
  BY <1>1, <1>2

\* What a step may do to the line of p: go on with the same ids, and begin to
\* make a pipe, or get past the receiver, only when none is on its way.
Goes(p) ==
    LET o == job[p].out
    IN  /\ up'[p] \in {"create", "wait", "recheck", "kill"} =>
              id'[p] = id[p] /\ job'[p].out = o
        /\ up'[p] = "create" /\ PastReceiver(p)' /\ o \in Ids =>
              (up[p] = "create" /\ PastReceiver(p)) \/ ~Storing(o, id[p])
        /\ up'[p] = "wait" =>
              \/ up[p] = "wait"
              \/ o \in Ids /\ ~Storing(o, id[p]) /\ user_pipe[o][id[p]] = NoFifo
        /\ up'[p] \in {"recheck", "kill"} =>
              \/ up[p] \in {"recheck", "kill"} /\ from_id'[o] = from_id[o]
              \/ up[p] = "wait" /\ from_id'[o] = id[p]

\* A step that puts no pipe on its way and none in the table.
LEMMA WayFrame ==
    ASSUME UpInv, OnItsWay, \A p \in Proc : Goes(p),
           \A i \in Ids, j \in Slots : Storing(i, j)' => Storing(i, j),
           \A i, j \in Slots : user_pipe[i][j] = NoFifo => user_pipe'[i][j] = NoFifo
    PROVE  OnItsWay'
<1>a. Ids \subseteq Slots /\ id \in [Proc -> Slots] /\ job \in [Proc -> Jobs]
  BY DEF UpInv, UpTypes, ProcTypes, PipeTypes, Ids, Slots
<1>1. FirstOnly'
  BY <1>a DEF OnItsWay, FirstOnly
<1>2. ASSUME NEW p \in Proc
      PROVE  NoSecond(p)' /\ Room(p)'
  <2>1. PICK o \in Slots : o = job[p].out
    BY <1>a DEF Jobs
  <2>2. PICK k \in Slots : k = id[p]
    BY <1>a
  <2>3. up[p] \in {"wait", "recheck", "kill"} => o \in Ids
    BY <2>1 DEF UpInv, UpControl, PcControl
  <2>4. Goes(p) /\ NoSecond(p) /\ Room(p)
    BY DEF OnItsWay
  <2>5. NoSecond(p)'
    <3> SUFFICES ASSUME \/ up'[p] = "wait"
                        \/ up'[p] = "create" /\ PastReceiver(p)' /\ job'[p].out \in Ids
                 PROVE  ~Storing(job[p].out, id[p])'
      BY DEF NoSecond
    <3>1. id'[p] = k /\ job'[p].out = o
      BY <2>1, <2>2, <2>4 DEF Goes
    <3>2. o \in Ids /\ ~Storing(o, k)
      BY <2>1, <2>2, <2>3, <2>4, <3>1 DEF Goes, NoSecond
    <3>3. ~Storing(o, k)'
      BY <3>2
    <3> QED
      BY <3>1, <3>3 DEF Storing, Stores, PipeSignalled
  <2>6. Room(p)'
    BY <2>1, <2>2, <2>4 DEF Goes, Room
  <2> QED
    BY <2>5, <2>6
<1> QED
  BY <1>1, <1>2 DEF OnItsWay

\* A process that takes no step of its own.
LEMMA GoesStill ==
    ASSUME NEW r \in Proc,
           up'[r] = up[r], job'[r] = job[r], id'[r] = id[r],
           pc'[r] = pc[r], idx'[r] = idx[r],
           up[r] \in {"recheck", "kill"} => from_id'[job[r].out] = from_id[job[r].out]
    PROVE  Goes(r)
BY DEF Goes, PastReceiver

\* An announcement gets past the receiver with its semaphore, or when there is
\* no receiver, or when it is the sender's own slot.
LEMMA GoesAnnouncing ==
    ASSUME RowInv, PipePc, SelfPipe, NEW p \in Proc, up[p] = "create",
           \/ ScanSlot(p) \/ ScanOther(p) \/ SemWait(p) \/ Recheck(p)
           \/ Kill(p) \/ KillSelf(p) \/ EndBroadcast(p),
           UNCHANGED up_vars
    PROVE  Goes(p)
<1> USE DEF RowInv
<1>a. /\ pc \in [Proc -> Alive \cup {"off", "done", "crashed"}]
      /\ idx \in [Proc -> 0..(max_client_num + 1)]
      /\ id \in [Proc -> Slots] /\ job \in [Proc -> Jobs]
  BY DEF UpInv, UpTypes, PipeTypes, ProcTypes
<1>b. Ids \subseteq Slots /\ "path'" \in Ways
  BY DEF Ids, Slots, Ways
<1>c. UNCHANGED <<id, up, job>>
  BY DEF ScanSlot, ScanOther, SemWait, Recheck, Kill, KillSelf, EndBroadcast,
         up_vars
<1>1. PICK o \in Slots : o = job[p].out
  BY <1>a DEF Jobs
<1>2. PICK x \in 0..(max_client_num + 1) : x = idx[p]
  BY <1>a
<1>3. SUFFICES ASSUME PastReceiver(p)', o \in Ids
               PROVE  PastReceiver(p) \/ ~Storing(o, id[p])
  BY <1>1, <1>c DEF Goes
<1>4. ~stopped[p] /\ msg[p].kind # "tell" /\ (pc[p] = "scan" => x >= 1)
  <2>1. pc[p] # "idle"
    BY DEF ScanSlot, ScanOther, SemWait, Recheck, Kill, KillSelf, EndBroadcast
  <2> QED
    BY <1>2, <2>1 DEF PipePc, LinePc
<1>5. p \in Registered
  BY LineRegistered
<1>6. ~state[o] => ~Storing(o, id[p])
  <2> SUFFICES ASSUME NEW q \in Proc, Stores(q, o, id[p]) PROVE state[o]
    BY DEF Storing
  <2> QED
    BY <1>3, <1>a, StoresRegistered DEF OwnRows
<1>7. o = id[p] => ~Storing(o, id[p])
  <2> SUFFICES ASSUME o = id[p], NEW q \in Proc, Stores(q, o, o) PROVE FALSE
    BY DEF Storing
  <2>1. q = p
    BY <1>3, <1>5, <1>b, StoresRegistered DEF OwnRows
  <2> QED
    BY <1>3, <2>1 DEF SelfPipe
<1>8. sem[o] > 0 => ~Storing(o, id[p])
  <2> SUFFICES ASSUME sem[o] > 0, NEW q \in Proc, Stores(q, o, id[p]) PROVE FALSE
    BY DEF Storing
  <2>1. Owns(q, "path'", o)
    BY DEF Stores, Owns
  <2> QED
    BY <1>3, <2>1, <1>b DEF UpInv, OneOwner
<1>9. ASSUME NextSlot(p)
      PROVE  idx'[p] = x + 1 /\ pc'[p] = "scan"
  BY <1>9, <1>2, <1>4, <1>a DEF NextSlot
<1>10. PastReceiver(p) <=> \/ pc[p] = "idle" \/ x > o
                           \/ x = o /\ pc[p] \in {"recheck", "kill"}
  BY <1>1, <1>2 DEF PastReceiver
<1>11. \/ pc'[p] = "idle" \/ idx'[p] > o
       \/ idx'[p] = o /\ pc'[p] \in {"recheck", "kill"}
  BY <1>1, <1>3, <1>c DEF PastReceiver
<1>12. CASE ScanSlot(p)
  <2>1. x + 1 > o
    BY <1>9, <1>11, <1>12 DEF ScanSlot
  <2>2. CASE x > o
    BY <1>10, <2>2
  <2>3. CASE x = o
    BY <1>2, <1>6, <1>7, <1>12, <2>3 DEF ScanSlot
  <2> QED
    BY <2>1, <2>2, <2>3 DEF Slots
<1>13. CASE ScanOther(p)
  <2>1. pc'[p] = "wait" /\ idx'[p] = x
    BY <1>2, <1>13, <1>a DEF ScanOther
  <2> QED
    BY <1>10, <1>11, <2>1
<1>14. CASE SemWait(p)
  <2>1. idx'[p] = x /\ sem[x] > 0 /\ pc'[p] = "recheck"
    BY <1>2, <1>14, <1>a DEF SemWait, SlotFree
  <2> QED
    BY <1>8, <1>10, <1>11, <2>1
<1>15. CASE Recheck(p)
  <2>1. pc[p] = "recheck"
    BY <1>15 DEF Recheck
  <2>2. CASE state[x]
    <3>1. idx'[p] = x /\ pc'[p] = "kill"
      BY <1>2, <1>15, <2>2, <1>a DEF Recheck
    <3> QED
      BY <1>10, <1>11, <2>1, <3>1
  <2>3. CASE ~state[x]
    <3>1. NextSlot(p)
      BY <1>2, <1>15, <2>3 DEF Recheck
    <3>2. x >= o
      BY <1>9, <1>11, <3>1 DEF Slots
    <3> QED
      BY <1>10, <2>1, <3>2 DEF Slots
  <2> QED
    BY <2>2, <2>3
<1>16. CASE Kill(p) \/ KillSelf(p)
  <2>1. NextSlot(p) /\ pc[p] = "kill"
    BY <1>16 DEF Kill, KillSelf
  <2>2. x >= o
    BY <1>9, <1>11, <2>1 DEF Slots
  <2> QED
    BY <1>10, <2>1, <2>2 DEF Slots
<1>17. CASE EndBroadcast(p)
  <2>1. x >= 1 /\ x \notin Ids
    BY <1>2, <1>4, <1>17 DEF EndBroadcast
  <2>2. x > o
    BY <2>1 DEF Ids, Slots
  <2> QED
    BY <1>10, <2>2
<1> QED
  BY <1>12, <1>13, <1>14, <1>15, <1>16, <1>17

\* Every line goes on like that in every step.
LEMMA GoesNext ==
    ASSUME RowInv, PipePc, SelfPipe, OnItsWay, [UpNext]_all_vars, NEW r \in Proc
    PROVE  Goes(r)
<1> USE DEF RowInv
<1>a. /\ pc \in [Proc -> Alive \cup {"off", "done", "crashed"}]
      /\ idx \in [Proc -> 0..(max_client_num + 1)]
      /\ id \in [Proc -> Slots]
  BY DEF UpInv, UpTypes, ProcTypes
<1>b. /\ up \in [Proc -> {"none", "in", "out", "create", "wait", "recheck",
                          "kill", "open", "fork"}]
      /\ job \in [Proc -> Jobs] /\ from_id \in [Slots -> Slots]
  BY DEF UpInv, UpTypes, PipeTypes
<1>c. Ids \subseteq Slots /\ {"path", "path'"} \subseteq Ways
  BY DEF Ids, Slots, Ways
<1>0. ASSUME UNCHANGED <<up, job, id, pc, idx, from_id>> PROVE Goes(r)
  BY <1>0, GoesStill
<1>n. ASSUME up'[r] \notin {"create", "wait", "recheck", "kill"} PROVE Goes(r)
  BY <1>n DEF Goes
<1>1. CASE UNCHANGED all_vars
  BY <1>0, <1>1 DEF all_vars, vars, proc_vars, up_vars
<1>2. CASE (ServerWait \/ ServerSpin) /\ UNCHANGED up_vars
  BY <1>0, <1>2 DEF ServerWait, ServerSpin, proc_vars, up_vars
<1>3. ASSUME NEW p \in Proc, r # p, User(p) \/ Work(p) \/ Logout(p),
             UNCHANGED <<up, job, from_id>>
      PROVE  Goes(r)
  <2>1. CASE User(p)
    <3>1. pc'[r] = pc[r] /\ idx'[r] = idx[r] /\ id'[r] = id[r]
      BY <1>3, <2>1, <1>a DEF User, Accept, cmd_yell, cmd_tell, cmd_name, Exit,
             HangUp, StartBroadcast
    <3> QED
      BY <1>3, <3>1, GoesStill
  <2>2. CASE Work(p)
    <3>1. pc'[r] = pc[r] /\ idx'[r] = idx[r] /\ id'[r] = id[r]
      BY <1>3, <2>2, <1>a DEF Work, Login, LoginDone, print_welcome_msg, ScanSlot,
             ScanOther, SemWait, Recheck, Kill, KillSelf, EndBroadcast,
             CompareName, SetName, StartBroadcast, NextSlot
    <3> QED
      BY <1>3, <3>1, GoesStill
  <2>3. CASE Logout(p)
    <3>1. pc'[r] = pc[r] /\ idx'[r] = idx[r] /\ id'[r] = id[r]
      BY <1>3, <2>3, <1>a DEF Logout, StartBroadcast
    <3> QED
      BY <1>3, <3>1, GoesStill
  <2> QED
    BY <1>3, <2>1, <2>2, <2>3
<1>4. CASE BaseStep(r)
  <2>1. UNCHANGED <<up, job, from_id>>
    BY <1>4 DEF BaseStep, up_vars
  <2>2. CASE up[r] = "none"
    BY <1>n, <2>1, <2>2
  <2>3. CASE up[r] # "none" /\ User(r)
    BY <1>4, <2>3 DEF BaseStep, User, Accept, cmd_yell, cmd_tell, cmd_name, Exit,
           HangUp, MayType, Loop
  <2>4. CASE up[r] # "none" /\ Work(r)
    <3>1. pc[r] \in Loop /\ up[r] \in {"out", "create"}
      BY <1>4, <2>4 DEF BaseStep, PipePc, LinePc, Loop
    <3>2. \/ ScanSlot(r) \/ ScanOther(r) \/ SemWait(r) \/ Recheck(r)
          \/ Kill(r) \/ KillSelf(r) \/ EndBroadcast(r)
      BY <2>4, <3>1 DEF Work, Login, LoginDone, print_welcome_msg, CompareName,
             SetName, Loop
    <3>3. CASE up[r] = "create"
      BY <1>4, <3>2, <3>3, GoesAnnouncing DEF BaseStep
    <3>4. CASE up[r] = "out"
      BY <1>n, <2>1, <3>4
    <3> QED
      BY <3>1, <3>3, <3>4
  <2> QED
    BY <1>4, <2>2, <2>3, <2>4 DEF BaseStep
<1>5. CASE LogoutPipes(r)
  <2>1. up'[r] = "none"
    BY <1>5 DEF LogoutPipes, Logout, PipePc, LinePc, Loop
  <2> QED
    BY <1>n, <2>1
<1>6. ASSUME NEW p \in Proc, r # p,
             \/ (\E l \in UpLines : UpLine(p, l[2], l[3]))
             \/ print_user_pipe_in(p) \/ print_user_pipe_out(p) \/ Decide(p)
             \/ RecheckPipe(p) \/ KillPipe(p) \/ (\E q \in Proc : Open(p, q))
             \/ Fork(p)
      PROVE  Goes(r)
  <2>1. UNCHANGED <<id, from_id>> /\ up'[r] = up[r] /\ job'[r] = job[r]
    BY <1>6, <1>b DEF UpLine, print_user_pipe_in, print_user_pipe_out, Decide,
           RecheckPipe, KillPipe, Open, Fork, vars, proc_vars
  <2>2. pc'[r] = pc[r] /\ idx'[r] = idx[r]
    BY <1>6, <1>a DEF UpLine, print_user_pipe_in, print_user_pipe_out, Announce,
           StartBroadcast, Decide, RecheckPipe, KillPipe, Open, Fork, vars,
           proc_vars
  <2> QED
    BY <2>1, <2>2, GoesStill
<1>7. ASSUME NEW p \in Proc, r # p, create_user_pipe(p)
      PROVE  Goes(r)
  <2>1. PICK o \in Ids : o = job[p].out
    BY <1>7 DEF create_user_pipe, At, UpInv, UpControl, PcControl
  <2>2. /\ UNCHANGED <<id, job, pc, idx>> /\ up'[r] = up[r] /\ sem[o] > 0
        /\ from_id' = [from_id EXCEPT ![o] = id[p]]
    BY <1>7, <2>1, <1>b DEF create_user_pipe, PipeSlotFree, SetFrom
  <2>3. ASSUME up[r] \in {"recheck", "kill"}
        PROVE  from_id'[job[r].out] = from_id[job[r].out]
    <3>1. PICK k \in Ids : k = job[r].out
      BY <2>3 DEF UpInv, UpControl, PcControl
    <3>2. Owns(r, "path", k)
      BY <2>3, <3>1 DEF Owns, PipeSending
    <3>3. k # o
      BY <2>2, <3>2, <1>c DEF UpInv, OneOwner
    <3> QED
      BY <2>2, <3>1, <3>3, <1>b, <1>c
  <2> QED
    BY <2>2, <2>3, GoesStill
<1>8. CASE (\E l \in UpLines : UpLine(r, l[2], l[3])) \/ print_user_pipe_in(r)
           \/ KillPipe(r) \/ (\E q \in Proc : Open(r, q)) \/ Fork(r)
  BY <1>8, <1>n, <1>b DEF UpLine, print_user_pipe_in, KillPipe, Open, Fork
<1>9. CASE print_user_pipe_out(r)
  <2>1. PICK o \in Slots : o = job[r].out
    BY <1>b DEF Jobs
  <2>2. UNCHANGED <<id, from_id>> /\ up'[r] = "create" /\ job'[r].out = o
    BY <1>9, <2>1, <1>b DEF print_user_pipe_out, Jobs
  <2>3. CASE CanPipe(r)
    <3>1. pc'[r] = "scan" /\ idx'[r] = 1
      BY <1>9, <2>3, <1>a DEF print_user_pipe_out, Announce, StartBroadcast
    <3>2. o \in Ids => ~PastReceiver(r)'
      BY <2>2, <3>1 DEF PastReceiver, Ids
    <3> QED
      BY <2>1, <2>2, <3>2 DEF Goes
  <2>4. CASE ~CanPipe(r) /\ o \in Ids
    <3>1. PICK k \in Slots : k = id[r]
      BY <1>a
    <3>2. ~state[o] \/ user_pipe[o][k] # NoFifo
      BY <2>1, <2>4, <3>1 DEF CanPipe, Ids
    <3>3. ~state[o] => ~Storing(o, k)
      <4> SUFFICES ASSUME NEW q \in Proc, Stores(q, o, k) PROVE state[o]
        BY DEF Storing
      <4> QED
        BY <2>4, StoresRegistered DEF OwnRows
    <3>4. ~Storing(o, k)
      BY <2>4, <3>2, <3>3 DEF OnItsWay, FirstOnly
    <3> QED
      BY <2>1, <2>2, <3>1, <3>4 DEF Goes
  <2>5. CASE o \notin Ids
    BY <2>1, <2>2, <2>5 DEF Goes
  <2> QED
    BY <2>3, <2>4, <2>5
<1>10. CASE Decide(r)
  <2>1. CASE ~Creates(r)
    BY <1>10, <2>1, <1>n, <1>b DEF Decide
  <2>2. CASE Creates(r)
    <3>1. PICK o \in Slots : o = job[r].out
      BY <1>b DEF Jobs
    <3>2. up'[r] = "wait" /\ UNCHANGED id /\ job'[r].out = o
      BY <1>10, <2>2, <3>1, <1>b DEF Decide, vars, proc_vars, Jobs
    <3>3. o \in Ids /\ user_pipe[o][id[r]] = NoFifo
      BY <2>2, <3>1 DEF Creates, CanPipe, Ids, Slots
    <3>4. up[r] = "create" /\ PastReceiver(r)
      BY <1>10 DEF Decide, At, PastReceiver
    <3>5. ~Storing(o, id[r])
      BY <3>1, <3>3, <3>4 DEF OnItsWay, NoSecond
    <3> QED
      BY <3>1, <3>2, <3>3, <3>5 DEF Goes
  <2> QED
    BY <2>1, <2>2
<1>11. CASE create_user_pipe(r)
  <2>1. up[r] = "wait" /\ up'[r] = "recheck" /\ UNCHANGED <<id, job>>
    BY <1>11, <1>b DEF create_user_pipe, At
  <2>2. PICK o \in Slots : o = job[r].out
    BY <1>b DEF Jobs
  <2>3. from_id'[o] = id[r]
    BY <1>11, <2>2, <1>b DEF create_user_pipe, SetFrom
  <2> QED
    BY <2>1, <2>2, <2>3 DEF Goes
<1>12. CASE RecheckPipe(r)
  <2>1. up[r] = "recheck" /\ up'[r] \in {"kill", "fork"} /\ UNCHANGED <<id, job, from_id>>
    BY <1>12, <1>b DEF RecheckPipe, At, proc_vars
  <2> QED
    BY <2>1 DEF Goes
<1>13. ASSUME NEW p \in Proc, Handler(p) \/ user_pipe_handler(p) \/ StoreFd(p)
      PROVE  Goes(r)
  BY <1>13, <1>0 DEF Handler, msg_handler, user_pipe_handler, StoreFd, vars,
         proc_vars, up_vars
<1>14. ASSUME NEW p \in Proc, BaseStep(p) \/ LogoutPipes(p)
      PROVE  Goes(r)
  BY <1>14, <1>3, <1>4, <1>5 DEF BaseStep, LogoutPipes, up_vars
<1>15. ASSUME NEW p \in Proc, Types(p) \/ PipeStep(p)
      PROVE  Goes(r)
  <2>1. CASE p = r
    BY <1>15, <2>1, <1>8, <1>9, <1>10, <1>11, <1>12 DEF Types, PipeStep
  <2>2. CASE p # r
    BY <1>15, <2>2, <1>6, <1>7 DEF Types, PipeStep
  <2> QED
    BY <2>1, <2>2
<1> QED
  BY <1>1, <1>2, <1>13, <1>14, <1>15 DEF UpNext

\* The signal puts a pipe on its way where the table has none and no other line
\* is about to make one; the handler stores it where no other one is on its way.
LEMMA WayNext ==
    ASSUME RowInv, PipePc, SelfPipe, OnItsWay, [UpNext]_all_vars PROVE OnItsWay'
<1> USE DEF RowInv
<1>a. /\ id \in [Proc -> Slots] /\ job \in [Proc -> Jobs]
      /\ up \in [Proc -> {"none", "in", "out", "create", "wait", "recheck",
                          "kill", "open", "fork"}]
      /\ hand \in [Proc -> {"none", "open", "store"}]
      /\ user_pipe \in [Slots -> [Slots -> Fifos \cup {NoFifo}]]
  BY DEF UpInv, UpTypes, PipeTypes, ProcTypes
<1>b. Ids \subseteq Slots /\ {"path", "path'"} \subseteq Ways
      /\ \A i \in Slots : i \notin Ids => i = 0
  BY DEF Ids, Slots, Ways
<1>c. \A j \in Slots : user_pipe'[0][j] = NoFifo
  <2>1. PipeTypes'
    BY PipeTypesNext
  <2> QED
    BY <2>1 DEF PipeTypes
<1>1. ASSUME NEW p \in Proc, KillPipe(p)
      PROVE  OnItsWay'
  <2>1. PICK o \in Ids : o = job[p].out
    BY <1>1 DEF KillPipe, At, UpInv, UpControl, PcControl
  <2>2. PICK k \in Slots : k = id[p]
    BY <1>a
  <2>3. /\ UNCHANGED <<user_pipe, from_id, job, id, pc, idx>>
        /\ up[p] = "kill" /\ up'[p] = "open"
        /\ \A r \in Proc \ {p} : up'[r] = up[r]
    BY <1>1, <1>a DEF KillPipe, At, vars, proc_vars
  <2>4. from_id[o] = k /\ user_pipe[o][k] = NoFifo
    BY <2>1, <2>2, <2>3 DEF OnItsWay, Room
  <2>5. \A i \in Ids, j \in Slots :
           Storing(i, j)' => Storing(i, j) \/ (i = o /\ j = k)
    <3> SUFFICES ASSUME NEW i \in Ids, NEW j \in Slots, NEW q \in Proc,
                        Stores(q, i, j)', ~Stores(q, i, j)
                 PROVE  i = o /\ j = k
      BY DEF Storing
    <3>1. PICK r \in Proc : KillPipe(r) /\ job[r].out = i /\ from_id[i] = j
      BY StoresNext
    <3>2. r = p
      BY <2>3, <3>1, <1>a DEF KillPipe, At
    <3> QED
      BY <2>1, <2>4, <3>1, <3>2
  <2>6. FirstOnly'
    BY <2>3, <2>4, <2>5 DEF OnItsWay, FirstOnly
  <2>7. ASSUME NEW r \in Proc
        PROVE  NoSecond(r)' /\ Room(r)'
    <3>1. CASE r = p
      BY <2>3, <3>1 DEF NoSecond, Room
    <3>2. CASE r # p
      <4>1. Room(r)'
        BY <2>3, <3>2 DEF OnItsWay, Room
      <4>2. PICK x \in Slots : x = job[r].out
        BY <1>a DEF Jobs
      <4>3. PICK y \in Slots : y = id[r]
        BY <1>a
      <4>4. SUFFICES ASSUME \/ up[r] = "wait"
                            \/ up[r] = "create" /\ PastReceiver(r) /\ x \in Ids
                     PROVE  ~Storing(x, y)'
        BY <2>3, <3>2, <4>1, <4>2, <4>3 DEF NoSecond, PastReceiver, Storing,
               Stores, PipeSignalled
      <4>5. x \in Ids /\ ~Storing(x, y)
        BY <4>2, <4>3, <4>4 DEF OnItsWay, NoSecond, UpInv, UpControl, PcControl
      <4>6. r \in Registered /\ p \in Registered
        BY <2>3, <4>4, LineRegistered
      <4>7. y # k
        BY <3>2, <2>2, <4>3, <4>6 DEF OwnRows
      <4> QED
        BY <2>5, <4>5, <4>7
    <3> QED
      BY <3>1, <3>2
  <2> QED
    BY <2>6, <2>7 DEF OnItsWay
<1>2. ASSUME \A p \in Proc : ~KillPipe(p)
      PROVE  \A i \in Ids, j \in Slots : Storing(i, j)' => Storing(i, j)
  BY <1>2, StoresNext DEF Storing
<1>3. ASSUME NEW q \in Proc, StoreFd(q)
      PROVE  OnItsWay'
  <2>1. /\ UNCHANGED <<mailbox, from_id, up, job, usr2, id, pc, idx>>
        /\ hand[q] = "store" /\ hand'[q] = "none"
        /\ \A r \in Proc \ {q} : hand'[r] = hand[r]
    BY <1>3, <1>a DEF StoreFd, proc_vars
  <2>2. \A p \in Proc : ~KillPipe(p)
    BY <2>1, <1>a DEF KillPipe, At
  <2>3. \A i \in Ids, j \in Slots : Storing(i, j)' => Storing(i, j)
    BY <1>2, <2>2
  <2>4. ~usr2[q]
    BY <2>1 DEF UpInv, Nested
  <2>5. \A r \in Proc : StoreFd(r) => r = q
    BY <2>1, <1>a DEF StoreFd
  <2>6. \A i \in Ids, j \in Slots :
           user_pipe[i][j] = NoFifo => user_pipe'[i][j] = NoFifo \/ Stores(q, i, j)
    BY <2>5, PipeNext
  <2>7. FirstOnly'
    <3> SUFFICES ASSUME NEW i \in Ids, NEW j \in Slots, NEW r \in Proc,
                        Stores(r, i, j)'
                 PROVE  user_pipe'[i][j] = NoFifo
      BY DEF FirstOnly, Storing
    <3>1. Stores(r, i, j)
      BY <2>2, StoresNext
    <3>2. r # q
      BY <2>1, <2>4 DEF Stores, PipeSignalled
    <3>3. ~Stores(q, i, j)
      BY <3>1, <3>2, <1>b DEF Stores, Owns, UpInv, OneOwner
    <3> QED
      BY <2>6, <3>1, <3>3 DEF OnItsWay, FirstOnly, Storing
  <2>8. ASSUME NEW r \in Proc
        PROVE  NoSecond(r)' /\ Room(r)'
    <3>1. PICK x \in Slots : x = job[r].out
      BY <1>a DEF Jobs
    <3>2. PICK y \in Slots : y = id[r]
      BY <1>a
    <3>3. NoSecond(r)'
      <4>1. SUFFICES ASSUME \/ up[r] = "wait"
                            \/ up[r] = "create" /\ PastReceiver(r) /\ x \in Ids
                     PROVE  ~Storing(x, y)'
        BY <2>1, <3>1, <3>2 DEF NoSecond, PastReceiver, Storing, Stores,
               PipeSignalled
      <4>2. x \in Ids /\ ~Storing(x, y)
        BY <3>1, <3>2, <4>1 DEF OnItsWay, NoSecond, UpInv, UpControl, PcControl
      <4> QED
        BY <2>3, <4>2
    <3>4. Room(r)'
      <4>1. SUFFICES ASSUME up[r] \in {"wait", "recheck", "kill"}
                     PROVE  user_pipe'[x][y] = NoFifo
        BY <2>1, <3>1, <3>2 DEF OnItsWay, Room
      <4>2. x \in Ids /\ user_pipe[x][y] = NoFifo
        BY <3>1, <3>2, <4>1 DEF OnItsWay, Room, UpInv, UpControl, PcControl
      <4>3. up[r] = "wait" => ~Stores(q, x, y)
        BY <3>1, <3>2 DEF OnItsWay, NoSecond, Storing
      <4>4. up[r] \in {"recheck", "kill"} => ~Stores(q, x, y)
        <5> SUFFICES ASSUME up[r] \in {"recheck", "kill"}, Stores(q, x, y)
                     PROVE  FALSE
          OBVIOUS
        <5>1. Owns(r, "path", x) /\ Owns(q, "path'", x)
          BY <3>1 DEF Owns, PipeSending, Stores
        <5>2. "path" = "path'"
          BY <4>2, <5>1, <1>b DEF UpInv, OneOwner
        <5> QED
          BY <5>2
      <4> QED
        BY <2>6, <4>1, <4>2, <4>3, <4>4
    <3> QED
      BY <3>3, <3>4
  <2> QED
    BY <2>7, <2>8 DEF OnItsWay
<1>4. CASE (\A p \in Proc : ~KillPipe(p)) /\ (\A q \in Proc : ~StoreFd(q))
  <2>1. \A i \in Ids, j \in Slots : Storing(i, j)' => Storing(i, j)
    BY <1>2, <1>4
  <2>2. \A i, j \in Slots : user_pipe[i][j] = NoFifo => user_pipe'[i][j] = NoFifo
    BY <1>4, <1>b, <1>c, PipeNext
  <2> QED
    BY <2>1, <2>2, GoesNext, WayFrame
<1> QED
  BY <1>1, <1>3, <1>4

\* A pipe that exists is not replaced: as long as every login gets an unused id,
\* a handler never stores a descriptor over another one, although the sender
\* looks for a pipe before the handler of its last one may have run.
THEOREM PipesNotReplaced == UpSpec /\ SmallestUnusedId => NotReplaced
<1> DEFINE PipeInv == PipePc /\ Numbers /\ SelfPipe /\ OnItsWay
<1>1. UpInit => PipeInv
  BY DEF UpInit, Init, PipePc, LinePc, Numbers, Counted, OwnNumbers, OwnPaths,
         Making, IsPath, NoMsg, SelfPipe, OnItsWay, FirstOnly, NoSecond, Room,
         Storing, Stores, PipeSignalled
<1>2. RowInv /\ PipeInv /\ [UpNext]_all_vars => PipeInv'
  BY PipePcNext, NumbersNext, SelfNext, WayNext DEF RowInv, OnItsWay
<1>3. UpInv /\ PipeInv /\ [UpNext]_all_vars =>
         [\A i, j \in Ids :
             user_pipe[i][j] # NoFifo => user_pipe'[i][j] \in {user_pipe[i][j], NoFifo}
         ]_all_vars
  <2> SUFFICES ASSUME UpInv, PipeInv, [UpNext]_all_vars, NEW i \in Ids, NEW j \in Ids,
                      user_pipe[i][j] # NoFifo
               PROVE  user_pipe'[i][j] \in {user_pipe[i][j], NoFifo}
    OBVIOUS
  <2>1. j \in Slots
    BY DEF Ids, Slots
  <2>2. \A q \in Proc : ~Stores(q, i, j)
    BY <2>1 DEF OnItsWay, FirstOnly, Storing
  <2> QED
    BY <2>1, <2>2, PipeNext
<1> QED
  BY <1>1, <1>2, <1>3, RowsInvariant, PTL DEF UpSpec, NotReplaced, RowInv

-----------------------------------------------------------------------------
(***************************************************************************)
(* When every login gets an unused id: as long as the table does not fill  *)
(* up. lock2 keeps logins and logouts apart, min_id is free whenever lock2 *)
(* is and until a logout posts it, and the ids below min_id are in use.    *)
(***************************************************************************)
LoggingOut(p) == stopped[p] /\ pc[p] \in Loop
OneInside ==
    /\ lock2 \in {0, 1}
    /\ \A p \in Proc : InLock2(p) => lock2 = 0
    /\ OneInLock2
MinFree == lock2 = 1 \/ (\E p \in Proc : LoggingOut(p)) => ~state[min_id]
LowInUse == \A i \in Ids : i < min_id => state[i]
Places == OneInside /\ MinFree /\ LowInUse

\* What most steps do to them.
LEMMA PlacesFrame ==
    ASSUME Places, UNCHANGED <<lock2, min_id, state>>,
           \A r \in Proc : /\ pc'[r] = "enter" => pc[r] = "enter"
                           /\ LoggingOut(r)' => LoggingOut(r)
    PROVE  Places'
<1>1. \A r \in Proc : InLock2(r)' => InLock2(r)
  BY DEF InLock2, LoggingOut
<1>2. OneInside'
  BY <1>1 DEF Places, OneInside, OneInLock2
<1>3. MinFree' /\ LowInUse'
  BY DEF Places, MinFree, LowInUse
<1> QED
  BY <1>2, <1>3 DEF Places

\* A login takes min_id and looks for the next one, a logout lowers it.
LEMMA PlacesNext ==
    ASSUME UpInv, Leaving, FreeIds # {}, Places, [UpNext]_all_vars PROVE Places'
<1>a. /\ state \in [Slots -> BOOLEAN] /\ min_id \in Ids
      /\ id \in [Proc -> Slots]
      /\ pc \in [Proc -> Alive \cup {"off", "done", "crashed"}]
      /\ stopped \in [Proc -> BOOLEAN]
  BY DEF UpInv, UpTypes, SharedTypes, ProcTypes
<1>b. Ids \subseteq Slots /\ Ids \subseteq Int /\ Slots \subseteq Int
  BY DEF Ids, Slots
<1>c. OneInside /\ MinFree /\ LowInUse
  BY DEF Places
<1>0. ASSUME UNCHANGED <<lock2, min_id, state, pc, stopped>> PROVE Places'
  BY <1>0, PlacesFrame DEF LoggingOut
<1>p. ASSUME NEW p \in Proc, UNCHANGED <<lock2, min_id, state, stopped>>,
             \A r \in Proc \ {p} : pc'[r] = pc[r],
             pc'[p] # "enter", pc'[p] \in Loop => pc[p] \in Loop \/ ~stopped[p]
      PROVE  Places'
  BY <1>p, PlacesFrame DEF LoggingOut
<1>1. CASE UNCHANGED all_vars
  BY <1>0, <1>1 DEF all_vars, vars, connect_state, client_list, proc_vars
<1>2. CASE ServerWait \/ ServerSpin
  BY <1>0, <1>2 DEF ServerWait, ServerSpin, connect_state, client_list, proc_vars
<1>3. ASSUME NEW p \in Proc, User(p)
      PROVE  Places'
  <2>1. UNCHANGED <<min_id, state, lock2>>
    BY <1>3 DEF User, Accept, cmd_yell, cmd_tell, cmd_name, Exit, HangUp,
           shared_unchanged, connect_state, client_list
  <2>2. \A r \in Proc : /\ pc'[r] = "enter" => pc[r] = "enter"
                        /\ LoggingOut(r)' => LoggingOut(r)
    BY <1>3, <1>a DEF User, Accept, cmd_yell, cmd_tell, cmd_name, Exit, HangUp,
           MayType, StartBroadcast, Leaving, Loop, LoggingOut
  <2> QED
    BY <2>1, <2>2, PlacesFrame
<1>4. ASSUME NEW p \in Proc,
             \/ print_welcome_msg(p)
             \/ ScanSlot(p) \/ ScanOther(p) \/ SemWait(p) \/ Recheck(p)
             \/ Kill(p) \/ KillSelf(p) \/ CompareName(p) \/ SetName(p)
      PROVE  Places'
  <2>1. UNCHANGED <<min_id, state, lock2, stopped>>
    BY <1>4 DEF print_welcome_msg, ScanSlot, ScanOther, SemWait, Recheck,
           Kill, KillSelf, CompareName, SetName, shared_unchanged, connect_state,
           client_list
  <2>2. pc'[p] # "enter" /\ \A r \in Proc \ {p} : pc'[r] = pc[r]
    BY <1>4, <1>a DEF print_welcome_msg, ScanSlot, ScanOther, SemWait, Recheck,
           Kill, KillSelf, CompareName, SetName, StartBroadcast, NextSlot
  <2>3. pc[p] \in Loop \/ ~stopped[p]
    BY <1>4 DEF print_welcome_msg, ScanSlot, ScanOther, SemWait, Recheck,
           Kill, KillSelf, CompareName, SetName, Leaving, Loop
  <2> QED
    BY <1>p, <2>1, <2>2, <2>3
<1>5. ASSUME NEW p \in Proc, EndBroadcast(p)
      PROVE  Places'
  <2>1. /\ UNCHANGED <<min_id, state, stopped>> /\ pc[p] \in Loop
        /\ pc'[p] \in {"idle", "done"} /\ \A r \in Proc \ {p} : pc'[r] = pc[r]
    BY <1>5, <1>a DEF EndBroadcast, client_list, Loop
  <2>2. CASE ~stopped[p]
    <3>1. UNCHANGED lock2
      BY <1>5, <2>2 DEF EndBroadcast
    <3> QED
      BY <1>p, <2>1, <3>1 DEF Loop
  <2>3. CASE stopped[p]
    <3>1. lock2 = 0 /\ \A r \in Proc \ {p} : ~InLock2(r)
      BY <1>c, <2>1, <2>3 DEF OneInside, OneInLock2, InLock2
    <3>2. lock2' = 1 /\ \A r \in Proc : ~InLock2(r)'
      BY <1>5, <2>1, <2>3, <3>1 DEF EndBroadcast, PostLock2, InLock2, Loop
    <3>3. ~state[min_id]
      BY <1>c, <2>1, <2>3 DEF MinFree, LoggingOut
    <3> QED
      BY <1>c, <2>1, <3>2, <3>3 DEF Places, OneInside, OneInLock2, MinFree, LowInUse
  <2> QED
    BY <2>2, <2>3
<1>6. ASSUME NEW p \in Proc, Login(p)
      PROVE  Places'
  <2>1. \A r \in Proc : ~InLock2(r)
    BY <1>6, <1>c DEF Login, Lock2Free, OneInside
  <2>2. /\ lock2' = 0 /\ UNCHANGED <<min_id, stopped>>
        /\ pc'[p] = "enter" /\ \A r \in Proc \ {p} : pc'[r] = pc[r]
        /\ \A i \in Slots : state[i] => state'[i]
    BY <1>6, <1>a, <1>b DEF Login
  <2>3. \A r \in Proc : InLock2(r)' => r = p
    BY <2>1, <2>2 DEF InLock2
  <2>4. \A r \in Proc : ~LoggingOut(r)'
    BY <2>1, <2>2 DEF InLock2, LoggingOut, Loop
  <2>5. OneInside' /\ MinFree'
    BY <2>2, <2>3, <2>4 DEF OneInside, OneInLock2, MinFree
  <2>6. LowInUse'
    BY <1>c, <2>2, <1>b DEF LowInUse
  <2> QED
    BY <2>5, <2>6 DEF Places
<1>7. ASSUME NEW p \in Proc, LoginDone(p)
      PROVE  Places'
  <2>1. PICK i \in FreeIds : (\A j \in FreeIds : i <= j) /\ min_id' = i
    BY <1>7 DEF LoginDone
  <2>2. UNCHANGED <<state, stopped>> /\ lock2' = 1 /\ pc'[p] = "welcome"
        /\ \A r \in Proc \ {p} : pc'[r] = pc[r]
    BY <1>7, <1>a DEF LoginDone, client_list
  <2>3. \A r \in Proc \ {p} : ~InLock2(r)
    BY <1>7, <1>c DEF LoginDone, OneInside, OneInLock2, InLock2
  <2>4. \A r \in Proc : ~InLock2(r)'
    BY <2>2, <2>3 DEF InLock2, Loop
  <2>5. OneInside' /\ MinFree'
    BY <2>1, <2>2, <2>4 DEF OneInside, OneInLock2, MinFree, FreeIds
  <2>6. \A j \in Ids : j < i => state[j]
    <3> SUFFICES ASSUME NEW j \in Ids, j < i, ~state[j] PROVE FALSE
      OBVIOUS
    <3>1. j \in FreeIds /\ i \in Int
      BY <1>b DEF FreeIds
    <3> QED
      BY <2>1, <3>1, <1>b
  <2>7. LowInUse'
    BY <2>1, <2>2, <2>6 DEF LowInUse
  <2> QED
    BY <2>5, <2>7 DEF Places
<1>8. ASSUME NEW p \in Proc, Logout(p)
      PROVE  Places'
  <2>1. \A r \in Proc : ~InLock2(r)
    BY <1>8, <1>c DEF Logout, Lock2Free, OneInside
  <2>2. PICK k \in Slots : k = id[p]
    BY <1>a
  <2>3. /\ lock2 = 1 /\ lock2' = 0 /\ UNCHANGED stopped
        /\ pc'[p] = "scan" /\ \A r \in Proc \ {p} : pc'[r] = pc[r]
        /\ state' = [state EXCEPT ![k] = FALSE]
        /\ min_id' = IF k < min_id THEN k ELSE min_id
    BY <1>8, <2>2, <1>a DEF Logout, Lock2Free, Leave, StartBroadcast
  <2>4. \A r \in Proc : InLock2(r)' => r = p
    BY <2>1, <2>3 DEF InLock2
  <2>5. OneInside'
    BY <2>3, <2>4 DEF OneInside, OneInLock2
  <2>6. MinFree'
    BY <1>c, <2>3, <1>a, <1>b DEF MinFree
  <2>7. LowInUse'
    BY <1>c, <2>3, <1>a, <1>b DEF LowInUse
  <2> QED
    BY <2>5, <2>6, <2>7 DEF Places
<1>9. ASSUME NEW p \in Proc,
             \/ (\E l \in UpLines : UpLine(p, l[2], l[3]))
             \/ print_user_pipe_in(p) \/ print_user_pipe_out(p)
      PROVE  Places'
  <2>1. /\ UNCHANGED <<min_id, state, lock2, stopped>> /\ pc[p] = "idle"
        /\ pc'[p] \in {"idle", "scan"} /\ \A r \in Proc \ {p} : pc'[r] = pc[r]
    BY <1>9, <1>a DEF UpLine, print_user_pipe_in, print_user_pipe_out, At,
           Announce, StartBroadcast, shared_unchanged, connect_state
  <2>2. ~stopped[p]
    BY <2>1 DEF Leaving, Loop
  <2> QED
    BY <1>p, <2>1, <2>2
<1>10. ASSUME NEW p \in Proc,
              \/ Decide(p) \/ create_user_pipe(p) \/ RecheckPipe(p) \/ KillPipe(p)
              \/ (\E q \in Proc : Open(p, q)) \/ Fork(p) \/ user_pipe_handler(p)
              \/ StoreFd(p) \/ msg_handler(p)
      PROVE  Places'
  BY <1>0, <1>10 DEF Decide, create_user_pipe, RecheckPipe, KillPipe, Open, Fork,
         user_pipe_handler, StoreFd, msg_handler, shared_unchanged, vars,
         connect_state, client_list, proc_vars
<1> QED
  BY <1>1, <1>2, <1>3, <1>4, <1>5, <1>6, <1>7, <1>8, <1>9, <1>10
     DEF UpNext, BaseStep, Work, LogoutPipes, Handler, Types, PipeStep

\* User pipes keep what they promise for as long as the table does not fill up:
\* a new user finds no pipe of the one before it, and no pipe is replaced.
THEOREM PipesUnlessFull ==
    UpSpec /\ [](FreeIds # {}) => FreshRow /\ NotReplaced
<1>1. UpInit => Leaving /\ Places
  <2>1. 1 \in Slots /\ ~(1 = 0)
    BY DEF Slots
  <2>2. UpInit => state[1] = (1 = 0) /\ min_id = 1
    BY <2>1 DEF UpInit, Init
  <2>3. UpInit => OneInside /\ LowInUse
    BY DEF UpInit, Init, OneInside, OneInLock2, InLock2, LowInUse, Ids
  <2>4. UpInit => MinFree
    BY <2>1, <2>2 DEF MinFree
  <2> QED
    BY <2>3, <2>4 DEF Places, UpInit, Init, Leaving
<1>2. UpInv /\ Leaving /\ [UpNext]_all_vars => Leaving'
  BY LeavingNext
<1>3. UpInv /\ Leaving /\ FreeIds # {} /\ Places /\ [UpNext]_all_vars => Places'
  BY PlacesNext
<1>4. UpInv /\ Places /\ [UpNext]_all_vars => [UnusedId]_vars
  <2> SUFFICES ASSUME UpInv, Places, UpNext, NEW p \in Proc, id[p] = 0, id'[p] # 0
               PROVE  ~state[id'[p]] /\ \A i \in Ids : i < id'[p] => state[i]
    BY DEF UnusedId, all_vars
  <2>1. id \in [Proc -> Slots]
    BY DEF UpInv, UpTypes, ProcTypes
  <2>2. PICK q \in Proc : Login(q)
    BY IdFromLogin
  <2>3. id'[p] = min_id /\ lock2 = 1
    BY <2>1, <2>2 DEF Login, Lock2Free
  <2> QED
    BY <2>3 DEF Places, MinFree, LowInUse
<1>5. UpSpec /\ [](FreeIds # {}) => SmallestUnusedId
  BY <1>1, <1>2, <1>3, <1>4, UpInvariant, PTL DEF UpSpec, SmallestUnusedId, UnusedId
<1> QED
  BY <1>5, RowsAreFresh, PipesNotReplaced, PTL
=============================================================================
