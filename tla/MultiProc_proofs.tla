-------------------------- MODULE MultiProc_proofs --------------------------
(***************************************************************************)
(* Proofs about MultiProc, for every table size, every finite set of       *)
(* connections, every set of commands and every set of clients that hang   *)
(* up. Each layer of the inductive invariant is proved from the layers     *)
(* before it:                                                              *)
(*                                                                         *)
(*   Types, PcInv   what each program counter says about the process       *)
(*   LockInv        who is inside lock2                                    *)
(*   OneHolder      who holds the semaphore of a slot                      *)
(*   ClientNumExact what client_num counts                                 *)
(*   ServerInv      what the listening process knows about client_num      *)
(*   LowInUse       which ids are in use                                   *)
(*   MinFree        when min_id is not in use                              *)
(*   PidInv         which slots have had a user                            *)
(*   LostByLeaving  who answers for a semaphore that is not posted         *)
(*   SendInv        what a sender has put where                            *)
(*   SeenInv        what a client has seen, and is about to see            *)
(***************************************************************************)
EXTENDS MultiProc, FiniteSetTheorems, TLAPS

\* TypeOK but for the sign of client_num, which needs ClientNumExact.
Types ==
    /\ spc \in {"accept", "wait", "spin"}
    /\ client_num \in Int /\ min_id \in Ids
    /\ lock \in Nat /\ lock2 \in {0, 1}
    /\ state \in [Slots -> BOOLEAN]
    /\ pid \in [Slots -> Proc \cup {Server}]
    /\ name \in [Slots -> NickNames \cup {NoName}]
    /\ mailbox \in [Slots -> Messages \cup {NoMsg}]
    /\ sem \in [Slots -> Nat]
    /\ pc \in [Proc -> Alive \cup {"off", "done", "crashed"}]
    /\ id \in [Proc -> Slots]
    /\ idx \in [Proc -> 0..(max_client_num + 1)]
    /\ msg \in [Proc -> Messages]
    /\ stopped \in [Proc -> BOOLEAN]
    /\ sig \in [Proc -> BOOLEAN]
    /\ ncmd \in [Proc -> 0..(MaxCmds + 2)]
    /\ gone \in [Proc -> BOOLEAN]
    /\ shown \in [Proc -> SUBSET Messages]

\* What the program counter of a process says about its other variables.
PcInv ==
    \A p \in Proc :
        /\ pc[p] \in {"off", "login"} => id[p] = 0
        /\ pc[p] \notin {"off", "login"} => id[p] \in Ids
        /\ sig[p] => pc[p] \in Alive \ {"login"}
        /\ pc[p] \in {"scan", "names"} => idx[p] \in 1..(max_client_num + 1)
        /\ pc[p] \in {"wait", "recheck", "kill"} =>
              idx[p] \in Slots /\ (msg[p].kind # "tell" => idx[p] \in Ids)
        /\ pc[p] = "scan" => msg[p].kind # "tell"
        /\ pc[p] = "names" => msg[p].arg \in NickNames
        /\ stopped[p] =>
              /\ pc[p] \in {"logout", "done", "crashed"} \cup Loop
              /\ pc[p] \in Loop => msg[p].kind # "tell"
        /\ pc[p] = "logout" => stopped[p]

\* The number of commands, which bounds the number of messages.
NcmdInv ==
    \A p \in Proc :
        /\ pc[p] \in {"off", "login", "enter", "welcome"} => ncmd[p] = 0
        /\ pc[p] = "names" => ncmd[p] <= MaxCmds
        /\ ~stopped[p] \/ pc[p] = "logout" => ncmd[p] <= MaxCmds + 1

\* Critical sections of lock2.
LockInv ==
    /\ \A p \in Proc : InLock2(p) => lock2 = 0
    /\ OneInLock2

\* The process in a slot knows the slot as its own, and a mailbox that is
\* being handed over holds a message.
MailInv ==
    /\ \A i \in Slots : pid[i] \in Proc => i \in Ids /\ id[pid[i]] = i
    /\ \A p \in Proc :
          /\ pc[p] \in {"recheck", "kill"} => mailbox[idx[p]] \in Messages
          /\ sig[p] => mailbox[id[p]] \in Messages

\* The first layers together; every later one is proved from them.
Base == Types /\ PcInv /\ NcmdInv /\ LockInv /\ MailInv

USE SizeAssumption, ProcAssumption, InputAssumption

\* What broadcast and cmd_tell send is a message as long as the number of
\* commands is within its bound.
LEMMA MessageType ==
    ASSUME Types, NEW p \in Proc, ncmd[p] <= MaxCmds + 1, NEW k \in Kinds,
           NEW a \in TellIds \cup NickNames \cup {0}
    PROVE  Message(p, k, a) \in Messages
BY DEF Types, Message, Messages

\* The welcome text is a message (print_welcome_msg).
LEMMA WelcomeType == \A p \in Proc : Welcome(p) \in Messages
BY DEF Welcome, Messages, Kinds

\* create_shared_mem establishes the first layers.
LEMMA BaseInit == Init => Base
<1> SUFFICES ASSUME Init PROVE Base
  OBVIOUS
<1>1. Types
  BY WelcomeType DEF Init, Types, Slots, Ids, Alive, Loop
<1>2. PcInv /\ NcmdInv /\ MailInv
  BY DEF Init, PcInv, NcmdInv, MailInv, Slots, Ids, Alive, Loop
<1>3. LockInv
  BY DEF Init, LockInv, InLock2, OneInLock2, Loop
<1> QED
  BY <1>1, <1>2, <1>3 DEF Base

\* Every step of the server, of a process and of a handler keeps them.
LEMMA BaseNext == Base /\ [Next]_vars => Base'
<1> SUFFICES ASSUME Base, [Next]_vars PROVE Base'
  OBVIOUS
<1> USE DEF Base
<1>a. /\ pc \in [Proc -> Alive \cup {"off", "done", "crashed"}]
      /\ id \in [Proc -> Slots]
      /\ idx \in [Proc -> 0..(max_client_num + 1)]
      /\ stopped \in [Proc -> BOOLEAN] /\ sig \in [Proc -> BOOLEAN]
  BY DEF Types
<1>b. /\ ncmd \in [Proc -> 0..(MaxCmds + 2)]
      /\ msg \in [Proc -> Messages]
      /\ pid \in [Slots -> Proc \cup {Server}]
      /\ mailbox \in [Slots -> Messages \cup {NoMsg}]
  BY DEF Types
<1>1. CASE UNCHANGED vars
  <2>1. Types'
    BY <1>1 DEF Types, Alive, Loop, vars, connect_state, client_list,
           proc_vars
  <2>2. PcInv'
    BY <1>1, <1>a, <1>b DEF PcInv, Slots, Ids, Alive, Loop, vars, proc_vars
  <2>3. NcmdInv'
    BY <1>1, <1>a, <1>b DEF PcInv, NcmdInv, Loop, vars, proc_vars
  <2>4. LockInv'
    BY <1>1, <1>a DEF PcInv, LockInv, InLock2, OneInLock2, Loop, vars,
           connect_state, proc_vars
  <2>5. MailInv'
    BY <1>1, <1>a, <1>b DEF PcInv, MailInv, Slots, Ids, Alive, vars,
           client_list, proc_vars
  <2> QED
    BY <2>1, <2>2, <2>3, <2>4, <2>5
<1>2. CASE ServerWait
  <2>1. Types'
    BY <1>2 DEF Types, Alive, Loop, ServerWait, client_list, proc_vars
  <2>2. PcInv'
    BY <1>2, <1>a, <1>b DEF PcInv, Slots, Ids, Alive, Loop, ServerWait,
           proc_vars
  <2>3. NcmdInv'
    BY <1>2, <1>a, <1>b DEF PcInv, NcmdInv, Loop, ServerWait, proc_vars
  <2>4. LockInv'
    BY <1>2, <1>a DEF PcInv, LockInv, InLock2, OneInLock2, Loop, ServerWait,
           proc_vars
  <2>5. MailInv'
    BY <1>2, <1>a, <1>b DEF PcInv, MailInv, Slots, Ids, Alive, ServerWait,
           client_list, proc_vars
  <2> QED
    BY <2>1, <2>2, <2>3, <2>4, <2>5
<1>3. CASE ServerSpin
  <2>1. Types'
    BY <1>3 DEF Types, Alive, Loop, ServerSpin, connect_state, client_list,
           proc_vars
  <2>2. PcInv'
    BY <1>3, <1>a, <1>b DEF PcInv, Slots, Ids, Alive, Loop, ServerSpin,
           proc_vars
  <2>3. NcmdInv'
    BY <1>3, <1>a, <1>b DEF PcInv, NcmdInv, Loop, ServerSpin, proc_vars
  <2>4. LockInv'
    BY <1>3, <1>a DEF PcInv, LockInv, InLock2, OneInLock2, Loop, ServerSpin,
           connect_state, proc_vars
  <2>5. MailInv'
    BY <1>3, <1>a, <1>b DEF PcInv, MailInv, Slots, Ids, Alive, ServerSpin,
           client_list, proc_vars
  <2> QED
    BY <2>1, <2>2, <2>3, <2>4, <2>5
<1>4. ASSUME NEW p \in Proc, Accept(p)
       PROVE  Base'
  <2>1. Types'
    BY <1>4 DEF Types, Alive, Loop, Accept, connect_state, client_list
  <2>2. PcInv'
    BY <1>4, <1>a, <1>b DEF PcInv, Slots, Ids, Alive, Loop, Accept
  <2>3. NcmdInv'
    BY <1>4, <1>a, <1>b DEF PcInv, NcmdInv, Loop, Accept
  <2>4. LockInv'
    BY <1>4, <1>a DEF PcInv, LockInv, InLock2, OneInLock2, Loop, Accept,
           connect_state
  <2>5. MailInv'
    BY <1>4, <1>a, <1>b DEF PcInv, MailInv, Slots, Ids, Alive, Accept,
           client_list
  <2> QED
    BY <2>1, <2>2, <2>3, <2>4, <2>5
<1>5. ASSUME NEW p \in Proc, cmd_yell(p)
       PROVE  Base'
  <2>1. Types'
    <3>1. Message(p, "yell", 0) \in Messages
      BY <1>5, <1>b, MessageType DEF cmd_yell, MayType, PcInv, NcmdInv, Kinds
    <3> QED
      BY <1>5, <3>1, WelcomeType, SMTT(30) DEF Types, Alive, Loop, Slots, cmd_yell,
             MayType, StartBroadcast, shared_unchanged, connect_state
  <2>2. PcInv'
    BY <1>5, <1>a, <1>b DEF PcInv, Slots, Ids, Alive, Loop, cmd_yell, MayType,
           StartBroadcast, Message
  <2>3. NcmdInv'
    BY <1>5, <1>a, <1>b DEF PcInv, NcmdInv, Loop, cmd_yell, MayType,
           StartBroadcast
  <2>4. LockInv'
    BY <1>5, <1>a DEF PcInv, LockInv, InLock2, OneInLock2, Loop, cmd_yell,
           MayType, StartBroadcast, shared_unchanged, connect_state
  <2>5. MailInv'
    BY <1>5, <1>a, <1>b DEF PcInv, MailInv, Slots, Ids, Alive, cmd_yell,
           MayType, StartBroadcast, shared_unchanged
  <2> QED
    BY <2>1, <2>2, <2>3, <2>4, <2>5
<1>6. ASSUME NEW p \in Proc, NEW t \in TellIds, cmd_tell(p, t)
       PROVE  Base'
  <2>1. Types'
    <3>1. Message(p, "tell", t) \in Messages
      BY <1>6, <1>b, MessageType DEF cmd_tell, MayType, PcInv, NcmdInv, Kinds
    <3> QED
      BY <1>6, <3>1, WelcomeType DEF Types, Alive, Loop, cmd_tell, MayType,
             UserExists, shared_unchanged, connect_state
  <2>2. PcInv'
    <3>1. CASE ~UserExists(t)
      BY <1>6, <3>1, <1>a DEF PcInv, cmd_tell, MayType, shared_unchanged,
             connect_state
    <3>2. CASE UserExists(t)
      <4>1. t \in Slots
        BY <3>2 DEF UserExists, Slots
      <4> QED
        BY <1>6, <3>2, <4>1, <1>a, <1>b DEF PcInv, Alive, Loop, cmd_tell,
               MayType, Message, shared_unchanged, connect_state
    <3> QED
      BY <3>1, <3>2
  <2>3. NcmdInv'
    BY <1>6, <1>a, <1>b DEF PcInv, NcmdInv, Loop, cmd_tell, MayType
  <2>4. LockInv'
    BY <1>6, <1>a DEF PcInv, LockInv, InLock2, OneInLock2, Loop, cmd_tell,
           MayType, shared_unchanged, connect_state
  <2>5. MailInv'
    <3>1. /\ \A r \in Proc : pc'[r] \in {"recheck", "kill"} =>
                pc'[r] = pc[r] /\ idx'[r] = idx[r]
          /\ UNCHANGED <<pid, id, mailbox, sig>>
      BY <1>6, <1>a DEF cmd_tell, MayType, shared_unchanged
    <3> QED
      BY <3>1 DEF MailInv
  <2> QED
    BY <2>1, <2>2, <2>3, <2>4, <2>5
<1>7. ASSUME NEW p \in Proc, NEW nm \in NickNames, cmd_name(p, nm)
       PROVE  Base'
  <2>1. Types'
    <3>1. Message(p, "name", nm) \in Messages
      <4>1. nm \in TellIds \cup NickNames \cup {0} /\ "name" \in Kinds
        BY DEF Kinds
      <4>2. ncmd[p] <= MaxCmds + 1
        BY <1>7, <1>b DEF cmd_name, MayType
      <4> QED
        BY <4>1, <4>2, MessageType
    <3> QED
      BY <1>7, <3>1 DEF Types, Alive, Loop, cmd_name, shared_unchanged,
             connect_state
  <2>2. PcInv'
    BY <1>7, <1>a, <1>b DEF PcInv, Slots, Ids, Alive, Loop, cmd_name, MayType,
           Message
  <2>3. NcmdInv'
    BY <1>7, <1>a, <1>b DEF PcInv, NcmdInv, Loop, cmd_name, MayType
  <2>4. LockInv'
    BY <1>7, <1>a DEF PcInv, LockInv, InLock2, OneInLock2, Loop, cmd_name,
           MayType, shared_unchanged, connect_state
  <2>5. MailInv'
    BY <1>7, <1>a, <1>b DEF PcInv, MailInv, Slots, Ids, Alive, cmd_name,
           MayType, shared_unchanged
  <2> QED
    BY <2>1, <2>2, <2>3, <2>4, <2>5
<1>8. ASSUME NEW p \in Proc, Exit(p)
       PROVE  Base'
  <2>1. Types'
    BY <1>8 DEF Types, Alive, Loop, Exit, shared_unchanged, connect_state
  <2>2. PcInv'
    BY <1>8, <1>a, <1>b DEF PcInv, Slots, Ids, Alive, Loop, Exit
  <2>3. NcmdInv'
    BY <1>8, <1>a, <1>b DEF PcInv, NcmdInv, Loop, Exit
  <2>4. LockInv'
    BY <1>8, <1>a DEF PcInv, LockInv, InLock2, OneInLock2, Loop, Exit,
           shared_unchanged, connect_state
  <2>5. MailInv'
    BY <1>8, <1>a, <1>b DEF PcInv, MailInv, Slots, Ids, Alive, Exit,
           shared_unchanged
  <2> QED
    BY <2>1, <2>2, <2>3, <2>4, <2>5
<1>9. ASSUME NEW p \in Proc, HangUp(p)
       PROVE  Base'
  <2>1. Types'
    BY <1>9 DEF Types, Alive, Loop, HangUp, alive, shared_unchanged,
           connect_state
  <2>2. PcInv'
    BY <1>9, <1>a, <1>b DEF PcInv, Slots, Ids, Alive, Loop, HangUp, alive
  <2>3. NcmdInv'
    BY <1>9, <1>a, <1>b DEF PcInv, NcmdInv, Loop, HangUp
  <2>4. LockInv'
    BY <1>9, <1>a DEF PcInv, LockInv, InLock2, OneInLock2, Loop, HangUp,
           shared_unchanged, connect_state
  <2>5. MailInv'
    BY <1>9, <1>a, <1>b DEF PcInv, MailInv, Slots, Ids, Alive, HangUp, alive,
           shared_unchanged
  <2> QED
    BY <2>1, <2>2, <2>3, <2>4, <2>5
<1>10. ASSUME NEW p \in Proc, Login(p)
       PROVE  Base'
  <2>1. Types'
    BY <1>10 DEF Types, Alive, Loop, Ids, Slots, Login, Lock2Free
  <2>2. PcInv'
    <3>1. min_id \in Ids
      BY DEF Types
    <3> QED
      BY <1>10, <3>1, <1>a DEF PcInv, Alive, Loop, Login
  <2>3. NcmdInv'
    BY <1>10, <1>a, <1>b DEF PcInv, NcmdInv, Loop, Login
  <2>4. LockInv'
    BY <1>10, <1>a DEF PcInv, LockInv, InLock2, OneInLock2, Loop, Login,
           Lock2Free
  <2>5. MailInv'
    <3>1. min_id \in Ids /\ min_id \in Slots
      BY DEF Types, Ids, Slots
    <3>2. id[p] = 0 /\ ~sig[p]
      BY <1>10 DEF PcInv, Login
    <3>3. \A i \in Slots : pid[i] # p
      BY <3>2 DEF MailInv, Ids
    <3> QED
      BY <1>10, <3>1, <3>2, <3>3, <1>a, <1>b DEF MailInv, Login
  <2> QED
    BY <2>1, <2>2, <2>3, <2>4, <2>5
<1>11. ASSUME NEW p \in Proc, LoginDone(p)
       PROVE  Base'
  <2>1. Types'
    BY <1>11 DEF Types, Alive, Loop, LoginDone, FreeIds, client_list
  <2>2. PcInv'
    BY <1>11, <1>a, <1>b DEF PcInv, Slots, Ids, Alive, Loop, LoginDone
  <2>3. NcmdInv'
    BY <1>11, <1>a, <1>b DEF PcInv, NcmdInv, Loop, LoginDone
  <2>4. LockInv'
    BY <1>11, <1>a DEF Types, PcInv, LockInv, InLock2, OneInLock2, Loop,
           LoginDone
  <2>5. MailInv'
    BY <1>11, <1>a, <1>b DEF PcInv, MailInv, Slots, Ids, Alive, LoginDone,
           client_list
  <2> QED
    BY <2>1, <2>2, <2>3, <2>4, <2>5
<1>12. ASSUME NEW p \in Proc, print_welcome_msg(p)
       PROVE  Base'
  <2>1. Types'
    <3>1. Message(p, "login", 0) \in Messages
      BY <1>12, <1>b, MessageType DEF print_welcome_msg, MayType, PcInv,
             NcmdInv, Kinds
    <3> QED
      BY <1>12, <3>1, WelcomeType DEF Types, Alive, Loop, NcmdInv,
             print_welcome_msg, write, StartBroadcast, connect_state,
             client_list
  <2>2. PcInv'
    <3>1. 1 \in 1..(max_client_num + 1) /\ Message(p, "login", 0).kind =
           "login"
      BY DEF Message
    <3> QED
      BY <1>12, <3>1, <1>a, <1>b DEF PcInv, Alive, Loop, print_welcome_msg,
             StartBroadcast
  <2>3. NcmdInv'
    BY <1>12, <1>a, <1>b DEF PcInv, NcmdInv, Loop, print_welcome_msg,
           StartBroadcast
  <2>4. LockInv'
    BY <1>12, <1>a DEF PcInv, LockInv, InLock2, OneInLock2, Loop,
           print_welcome_msg, StartBroadcast, connect_state
  <2>5. MailInv'
    BY <1>12, <1>a, <1>b DEF PcInv, MailInv, Slots, Ids, Alive,
           print_welcome_msg, StartBroadcast, client_list
  <2> QED
    BY <2>1, <2>2, <2>3, <2>4, <2>5
<1>13. ASSUME NEW p \in Proc, ScanSlot(p)
       PROVE  Base'
  <2>1. Types'
    <3>1. shown' \in [Proc -> SUBSET Messages]
      BY <1>13 DEF Types, ScanSlot, write
    <3>2. /\ pc' \in [Proc -> Alive \cup {"off", "done", "crashed"}]
          /\ idx' \in [Proc -> 0..(max_client_num + 1)]
      BY <1>13, <1>a DEF ScanSlot, NextSlot, Alive, Loop, Ids
    <3> QED
      BY <1>13, <3>1, <3>2 DEF Types, ScanSlot, shared_unchanged, connect_state
  <2>2. PcInv'
    <3>1. CASE msg[p].kind = "tell"
      BY <1>13, <3>1, <1>a DEF PcInv, Slots, Ids, Alive, Loop, ScanSlot,
             NextSlot
    <3>2. CASE msg[p].kind # "tell"
      BY <1>13, <3>2, <1>a DEF PcInv, Slots, Ids, Alive, Loop, ScanSlot,
             NextSlot
    <3> QED
      BY <3>1, <3>2
  <2>3. NcmdInv'
    BY <1>13, <1>a, <1>b DEF PcInv, NcmdInv, Loop, ScanSlot, NextSlot
  <2>4. LockInv'
    BY <1>13, <1>a DEF PcInv, LockInv, InLock2, OneInLock2, Loop, ScanSlot,
           NextSlot, shared_unchanged, connect_state
  <2>5. MailInv'
    <3>1. /\ \A r \in Proc : pc'[r] \in {"recheck", "kill"} =>
                pc'[r] = pc[r] /\ idx'[r] = idx[r]
          /\ UNCHANGED <<pid, id, mailbox, sig>>
      BY <1>13, <1>a DEF ScanSlot, NextSlot, shared_unchanged
    <3> QED
      BY <3>1 DEF MailInv
  <2> QED
    BY <2>1, <2>2, <2>3, <2>4, <2>5
<1>14. ASSUME NEW p \in Proc, ScanOther(p)
       PROVE  Base'
  <2>1. Types'
    BY <1>14 DEF Types, Alive, Loop, ScanOther, shared_unchanged,
           connect_state
  <2>2. PcInv'
    BY <1>14, <1>a, <1>b DEF PcInv, Slots, Ids, Alive, Loop, ScanOther
  <2>3. NcmdInv'
    BY <1>14, <1>a, <1>b DEF PcInv, NcmdInv, Loop, ScanOther
  <2>4. LockInv'
    BY <1>14, <1>a DEF PcInv, LockInv, InLock2, OneInLock2, Loop, ScanOther,
           shared_unchanged, connect_state
  <2>5. MailInv'
    BY <1>14, <1>a, <1>b DEF PcInv, MailInv, Slots, Ids, Alive, ScanOther,
           shared_unchanged
  <2> QED
    BY <2>1, <2>2, <2>3, <2>4, <2>5
<1>15. ASSUME NEW p \in Proc, SemWait(p)
       PROVE  Base'
  <2>1. Types'
    <3>1. idx[p] \in Slots
      BY <1>15 DEF SemWait, PcInv
    <3> QED
      BY <1>15, <3>1 DEF Types, Alive, Loop, SemWait, SlotFree,
             shared_unchanged, connect_state
  <2>2. PcInv'
    BY <1>15, <1>a, <1>b DEF PcInv, Slots, Ids, Alive, Loop, SemWait
  <2>3. NcmdInv'
    BY <1>15, <1>a, <1>b DEF PcInv, NcmdInv, Loop, SemWait
  <2>4. LockInv'
    BY <1>15, <1>a DEF PcInv, LockInv, InLock2, OneInLock2, Loop, SemWait,
           shared_unchanged, connect_state
  <2>5. MailInv'
    BY <1>15, <1>a, <1>b DEF PcInv, MailInv, Slots, Ids, Alive, SemWait,
           shared_unchanged
  <2> QED
    BY <2>1, <2>2, <2>3, <2>4, <2>5
<1>16. ASSUME NEW p \in Proc, Recheck(p)
       PROVE  Base'
  <2>1. Types'
    <3>1. idx[p] \in Slots /\ (msg[p].kind # "tell" => idx[p] \in Ids)
      BY <1>16 DEF Recheck, PcInv
    <3>2. sem' \in [Slots -> Nat]
      BY <1>16, <3>1 DEF Types, Recheck
    <3>3. idx' \in [Proc -> 0..(max_client_num + 1)]
      BY <1>16, <3>1 DEF Types, Recheck, NextSlot, Ids
    <3> QED
      BY <1>16, <3>2, <3>3 DEF Types, Alive, Loop, Recheck, NextSlot,
             shared_unchanged, connect_state
  <2>2. PcInv'
    <3>1. CASE msg[p].kind = "tell"
      BY <1>16, <3>1, <1>a DEF PcInv, Slots, Ids, Alive, Loop, Recheck,
             NextSlot
    <3>2. CASE msg[p].kind # "tell"
      BY <1>16, <3>2, <1>a DEF PcInv, Slots, Ids, Alive, Loop, Recheck,
             NextSlot
    <3> QED
      BY <3>1, <3>2
  <2>3. NcmdInv'
    BY <1>16, <1>a, <1>b DEF PcInv, NcmdInv, Loop, Recheck, NextSlot
  <2>4. LockInv'
    BY <1>16, <1>a DEF PcInv, LockInv, InLock2, OneInLock2, Loop, Recheck,
           NextSlot, shared_unchanged, connect_state
  <2>5. MailInv'
    BY <1>16, <1>a, <1>b DEF PcInv, MailInv, Slots, Ids, Alive, Recheck,
           NextSlot, shared_unchanged
  <2> QED
    BY <2>1, <2>2, <2>3, <2>4, <2>5
<1>17. ASSUME NEW p \in Proc, Kill(p)
       PROVE  Base'
  <2>1. Types'
    <3>1. msg[p].kind # "tell" => idx[p] \in Ids
      BY <1>17 DEF Kill, PcInv
    <3>2. idx' \in [Proc -> 0..(max_client_num + 1)]
      BY <1>17, <3>1 DEF Types, Kill, NextSlot, Ids
    <3>3. sig' \in [Proc -> BOOLEAN]
      BY <1>17 DEF Types, Kill, alive
    <3> QED
      BY <1>17, <3>2, <3>3 DEF Types, Alive, Loop, Kill, NextSlot,
             shared_unchanged, connect_state
  <2>2. PcInv'
    <3>1. /\ pc[p] = "kill" /\ NextSlot(p) /\ UNCHANGED <<id, msg, stopped>>
          /\ \A r \in Proc : sig'[r] => sig[r] \/ pc[r] \in Alive \ {"login"}
      <4>1. LET q == pid[idx[p]]
            IN  alive(q) => q \in Proc /\ pc[q] \in Alive \ {"login"}
        BY <1>17, <1>a DEF Kill, alive, MailInv, PcInv, Ids
      <4>2. \A r \in Proc : sig'[r] =>
              sig[r] \/ (alive(pid[idx[p]]) /\ r = pid[idx[p]])
        BY <1>17, <1>a DEF Kill
      <4> QED
        BY <1>17, <4>1, <4>2 DEF Kill
    <3>2. CASE msg[p].kind = "tell"
      BY <3>1, <3>2, <1>a DEF PcInv, Alive, Loop, NextSlot
    <3>3. CASE msg[p].kind # "tell"
      BY <3>1, <3>3, <1>a DEF PcInv, Alive, Loop, NextSlot, Ids
    <3> QED
      BY <3>2, <3>3
  <2>3. NcmdInv'
    BY <1>17, <1>a, <1>b DEF PcInv, NcmdInv, Loop, Kill, NextSlot
  <2>4. LockInv'
    BY <1>17, <1>a DEF PcInv, LockInv, InLock2, OneInLock2, Loop, Kill,
           NextSlot, shared_unchanged, connect_state
  <2>5. MailInv'
    BY <1>17, <1>a, <1>b DEF PcInv, MailInv, Slots, Ids, Alive, Kill,
           NextSlot, alive, shared_unchanged
  <2> QED
    BY <2>1, <2>2, <2>3, <2>4, <2>5
<1>18. ASSUME NEW p \in Proc, KillSelf(p)
       PROVE  Base'
  <2>1. Types'
    <3>1. msg[p].kind # "tell" => idx[p] \in Ids
      BY <1>18 DEF KillSelf, PcInv
    <3>2. id[p] \in Slots /\ mailbox[id[p]] \in Messages
      BY <1>18, <1>a DEF KillSelf, PcInv, MailInv
    <3>3. idx' \in [Proc -> 0..(max_client_num + 1)]
      BY <1>18, <3>1 DEF Types, KillSelf, NextSlot, Ids
    <3>4. sem' \in [Slots -> Nat] /\ shown' \in [Proc -> SUBSET Messages]
      BY <1>18, <3>2 DEF Types, KillSelf, PostOwn, write
    <3> QED
      BY <1>18, <3>3, <3>4 DEF Types, Alive, Loop, KillSelf, NextSlot,
             shared_unchanged, connect_state
  <2>2. PcInv'
    <3>1. CASE msg[p].kind = "tell"
      BY <1>18, <3>1, <1>a DEF PcInv, Slots, Ids, Alive, Loop, KillSelf,
             NextSlot
    <3>2. CASE msg[p].kind # "tell"
      BY <1>18, <3>2, <1>a DEF PcInv, Slots, Ids, Alive, Loop, KillSelf,
             NextSlot
    <3> QED
      BY <3>1, <3>2
  <2>3. NcmdInv'
    BY <1>18, <1>a, <1>b DEF PcInv, NcmdInv, Loop, KillSelf, NextSlot
  <2>4. LockInv'
    BY <1>18, <1>a DEF PcInv, LockInv, InLock2, OneInLock2, Loop, KillSelf,
           NextSlot, shared_unchanged, connect_state
  <2>5. MailInv'
    BY <1>18, <1>a, <1>b DEF PcInv, MailInv, Slots, Ids, Alive, KillSelf,
           NextSlot, shared_unchanged
  <2> QED
    BY <2>1, <2>2, <2>3, <2>4, <2>5
<1>19. ASSUME NEW p \in Proc, EndBroadcast(p)
       PROVE  Base'
  <2>1. Types'
    <3>1. stopped[p] => lock2 = 0
      BY <1>19 DEF EndBroadcast, LockInv, InLock2, Loop
    <3>2. lock2' \in {0, 1}
      BY <1>19, <3>1 DEF Types, EndBroadcast, PostLock2
    <3>3. pc' \in [Proc -> Alive \cup {"off", "done", "crashed"}]
      BY <1>19, <1>a DEF EndBroadcast, Alive
    <3>4. sig' \in [Proc -> BOOLEAN]
      BY <1>19, <1>a DEF EndBroadcast
    <3>5. UNCHANGED <<spc, client_num, min_id, lock, client_list, id, idx,
           msg, stopped, ncmd, gone, shown>>
      BY <1>19 DEF EndBroadcast
    <3> QED
      BY <3>2, <3>3, <3>4, <3>5 DEF Types, client_list
  <2>2. PcInv'
    BY <1>19, <1>a, <1>b DEF PcInv, Slots, Ids, Alive, Loop, EndBroadcast
  <2>3. NcmdInv'
    BY <1>19, <1>a, <1>b DEF PcInv, NcmdInv, Loop, EndBroadcast
  <2>4. LockInv'
    BY <1>19, <1>a, SMTT(30) DEF Types, PcInv, LockInv, InLock2, OneInLock2, Loop,
           EndBroadcast, PostLock2
  <2>5. MailInv'
    <3>1. /\ \A r \in Proc : sig'[r] => sig[r]
          /\ \A r \in Proc : pc'[r] \in {"recheck", "kill"} => pc'[r] = pc[r]
          /\ UNCHANGED <<pid, id, mailbox, idx>>
      BY <1>19, <1>a DEF EndBroadcast, client_list
    <3> QED
      BY <3>1 DEF MailInv
  <2> QED
    BY <2>1, <2>2, <2>3, <2>4, <2>5
<1>20. ASSUME NEW p \in Proc, CompareName(p)
       PROVE  Base'
  <2>1. Types'
    BY <1>20, SMTT(30) DEF Types, Alive, Loop, PcInv, NcmdInv, Ids, CompareName, Clash,
           shared_unchanged, connect_state
  <2>2. PcInv'
    <3>1. pc[p] = "names" /\ idx[p] \in 1..max_client_num
      BY <1>20 DEF CompareName, Ids
    <3>2. \A r \in Proc : r # p => pc'[r] = pc[r] /\ idx'[r] = idx[r]
      BY <1>20, <1>a DEF CompareName
    <3>3. \/ pc'[p] = "idle"
          \/ pc'[p] = "names" /\ idx'[p] = idx[p] + 1
      BY <1>20, <1>a DEF CompareName
    <3>4. UNCHANGED <<id, sig, msg, stopped>>
      BY <1>20 DEF CompareName
    <3> QED
      BY <3>1, <3>2, <3>3, <3>4, <1>a DEF PcInv, Alive, Loop
  <2>3. NcmdInv'
    BY <1>20, <1>a, <1>b DEF PcInv, NcmdInv, Loop, CompareName
  <2>4. LockInv'
    BY <1>20, <1>a DEF PcInv, LockInv, InLock2, OneInLock2, Loop, CompareName,
           shared_unchanged, connect_state
  <2>5. MailInv'
    <3>1. /\ \A r \in Proc : pc'[r] \in {"recheck", "kill"} =>
                pc'[r] = pc[r] /\ idx'[r] = idx[r]
          /\ UNCHANGED <<pid, id, mailbox, sig>>
      BY <1>20, <1>a DEF CompareName, shared_unchanged
    <3> QED
      BY <3>1 DEF MailInv
  <2> QED
    BY <2>1, <2>2, <2>3, <2>4, <2>5
<1>21. ASSUME NEW p \in Proc, SetName(p)
       PROVE  Base'
  <2>1. Types'
    <3>1. /\ msg[p].arg \in NickNames
          /\ id[p] \in Slots /\ ncmd[p] + 1 \in 0..(MaxCmds + 2)
      BY <1>21, <1>a, <1>b DEF SetName, PcInv, NcmdInv
    <3>2. Message(p, "name", msg[p].arg) \in Messages
      <4>1. msg[p].arg \in TellIds \cup NickNames \cup {0} /\ "name" \in Kinds
        BY <3>1 DEF Kinds
      <4>2. ncmd[p] <= MaxCmds + 1
        BY <3>1, <1>b
      <4> QED
        BY <4>1, <4>2, MessageType
    <3> QED
      BY <1>21, <3>1, <3>2 DEF Types, Alive, Loop, SetName, StartBroadcast,
             connect_state
  <2>2. PcInv'
    BY <1>21, <1>a, <1>b DEF PcInv, Slots, Ids, Alive, Loop, SetName,
           StartBroadcast, Message
  <2>3. NcmdInv'
    BY <1>21, <1>a, <1>b DEF PcInv, NcmdInv, Loop, SetName, StartBroadcast
  <2>4. LockInv'
    BY <1>21, <1>a DEF PcInv, LockInv, InLock2, OneInLock2, Loop, SetName,
           StartBroadcast, connect_state
  <2>5. MailInv'
    BY <1>21, <1>a, <1>b DEF PcInv, MailInv, Slots, Ids, Alive, SetName,
           StartBroadcast
  <2> QED
    BY <2>1, <2>2, <2>3, <2>4, <2>5
<1>22. ASSUME NEW p \in Proc, Logout(p)
       PROVE  Base'
  <2>1. Types'
    <3>1. Message(p, "logout", 0) \in Messages
      BY <1>22, <1>b, MessageType DEF Logout, PcInv, NcmdInv, Kinds
    <3>2. id[p] \in Ids /\ id[p] \in Slots /\ ncmd[p] + 1 \in 0..(MaxCmds + 2)
      BY <1>22, <1>a, <1>b DEF Logout, PcInv, NcmdInv
    <3> QED
      BY <1>22, <3>1, <3>2 DEF Types, Alive, Loop, Logout, Lock2Free, Leave,
             StartBroadcast
  <2>2. PcInv'
    BY <1>22, <1>a, <1>b DEF PcInv, Slots, Ids, Alive, Loop, Logout,
           StartBroadcast, Message
  <2>3. NcmdInv'
    BY <1>22, <1>a, <1>b DEF PcInv, NcmdInv, Loop, Logout, StartBroadcast
  <2>4. LockInv'
    BY <1>22, <1>a DEF PcInv, LockInv, InLock2, OneInLock2, Loop, Logout,
           Lock2Free, StartBroadcast
  <2>5. MailInv'
    BY <1>22, <1>a, <1>b DEF PcInv, MailInv, Slots, Ids, Alive, Logout,
           StartBroadcast
  <2> QED
    BY <2>1, <2>2, <2>3, <2>4, <2>5
<1>23. ASSUME NEW p \in Proc, Crash(p)
       PROVE  Base'
  <2>1. Types'
    BY <1>23 DEF Types, Alive, Loop, Crash, alive, Writing, shared_unchanged,
           connect_state
  <2>2. PcInv'
    BY <1>23, <1>a, <1>b DEF PcInv, Slots, Ids, Alive, Loop, Crash, alive,
           Writing
  <2>3. NcmdInv'
    BY <1>23, <1>a, <1>b DEF PcInv, NcmdInv, Loop, Crash
  <2>4. LockInv'
    BY <1>23, <1>a DEF PcInv, LockInv, InLock2, OneInLock2, Loop, Crash,
           shared_unchanged, connect_state
  <2>5. MailInv'
    BY <1>23, <1>a, <1>b DEF PcInv, MailInv, Slots, Ids, Alive, Crash, alive,
           shared_unchanged
  <2> QED
    BY <2>1, <2>2, <2>3, <2>4, <2>5
<1>24. ASSUME NEW p \in Proc, msg_handler(p)
       PROVE  Base'
  <2>1. Types'
    <3>1. id[p] \in Slots /\ mailbox[id[p]] \in Messages
      BY <1>24, <1>a DEF msg_handler, MailInv
    <3>2. sem' \in [Slots -> Nat] /\ shown' \in [Proc -> SUBSET Messages]
      BY <1>24, <3>1 DEF Types, msg_handler, PostOwn, write
    <3> QED
      BY <1>24, <3>2 DEF Types, msg_handler, shared_unchanged, connect_state
  <2>2. PcInv'
    BY <1>24, <1>a, <1>b DEF PcInv, Slots, Ids, Alive, Loop, msg_handler,
           alive
  <2>3. NcmdInv'
    BY <1>24, <1>a, <1>b DEF PcInv, NcmdInv, Loop, msg_handler
  <2>4. LockInv'
    BY <1>24, <1>a DEF PcInv, LockInv, InLock2, OneInLock2, Loop, msg_handler,
           shared_unchanged, connect_state
  <2>5. MailInv'
    BY <1>24, <1>a, <1>b DEF PcInv, MailInv, Slots, Ids, Alive, msg_handler,
           alive, shared_unchanged
  <2> QED
    BY <2>1, <2>2, <2>3, <2>4, <2>5
<1> QED
  BY <1>1, <1>2, <1>3, <1>4, <1>5, <1>6, <1>7, <1>8, <1>9, <1>10, <1>11,
         <1>12, <1>13, <1>14, <1>15, <1>16, <1>17, <1>18, <1>19, <1>20, <1>21,
         <1>22, <1>23, <1>24 DEF Next, User, Step, Work

(***************************************************************************)
(* Who holds the semaphore of a slot.                                      *)
(***************************************************************************)

\* A step that posts nothing and gives nobody a semaphore.
LEMMA HolderFrame ==
    ASSUME OneHolder, UNCHANGED sem,
           \A r \in Proc, i \in Slots :
              /\ Sending(r, i)' => Sending(r, i)
              /\ Signalled(r, i)' => Signalled(r, i)
    PROVE  OneHolder'
BY DEF OneHolder

\* A step in which the holder of the semaphore of slot j posts it.
LEMMA HolderPosts ==
    ASSUME OneHolder, sem \in [Slots -> Nat],
           NEW j \in Slots, NEW p \in Proc, Sending(p, j) \/ Signalled(p, j),
           sem' = [sem EXCEPT ![j] = @ + 1],
           \A r \in Proc, i \in Slots :
              /\ Sending(r, i)' => Sending(r, i)
              /\ Signalled(r, i)' => Signalled(r, i),
           ~Sending(p, j)', ~Signalled(p, j)'
    PROVE  OneHolder'
<1>1. sem[j] = 0 /\ sem'[j] = 1 /\ \A i \in Slots \ {j} : sem'[i] = sem[i]
  BY DEF OneHolder
<1>2. \A r \in Proc : ~Sending(r, j)' /\ ~Signalled(r, j)'
  BY DEF OneHolder
<1> QED
  BY <1>1, <1>2 DEF OneHolder

\* Every step hands a semaphore on to one process at most: broadcast and
\* cmd_tell take it and signal, msg_handler posts it.
LEMMA HolderNext == Base /\ OneHolder /\ [Next]_vars => OneHolder'
<1> SUFFICES ASSUME Base, OneHolder, [Next]_vars PROVE OneHolder'
  OBVIOUS
<1>a. /\ pc \in [Proc -> Alive \cup {"off", "done", "crashed"}]
      /\ id \in [Proc -> Slots] /\ idx \in [Proc -> 0..(max_client_num + 1)]
      /\ sig \in [Proc -> BOOLEAN] /\ sem \in [Slots -> Nat]
      /\ pid \in [Slots -> Proc \cup {Server}]
  BY DEF Base, Types
\* The actions that leave the semaphores and the signals alone.
<1>1. CASE UNCHANGED vars
  BY <1>1, HolderFrame DEF vars, client_list, proc_vars, Sending, Signalled
<1>2. CASE ServerWait \/ ServerSpin
  BY <1>2, HolderFrame DEF ServerWait, ServerSpin, client_list, proc_vars,
         Sending, Signalled
<1>3. ASSUME NEW p \in Proc,
             \/ cmd_yell(p) \/ (\E t \in TellIds : cmd_tell(p, t))
             \/ \E nm \in NickNames : cmd_name(p, nm)
       PROVE  OneHolder'
  BY <1>3, <1>a, HolderFrame DEF cmd_yell, cmd_tell, cmd_name, MayType,
         StartBroadcast, Sending, Signalled
<1>4. ASSUME NEW p \in Proc, Accept(p) \/ Exit(p) \/ HangUp(p)
       PROVE  OneHolder'
  BY <1>4, <1>a, HolderFrame DEF Accept, Exit, HangUp, client_list, Sending,
         Signalled
<1>5. ASSUME NEW p \in Proc, Login(p)
       PROVE  OneHolder'
  <2>1. ~sig[p]
    BY <1>5 DEF Login, Base, PcInv
  <2> QED
    BY <1>5, <2>1, <1>a, HolderFrame DEF Login, Sending, Signalled
<1>6. ASSUME NEW p \in Proc,
             LoginDone(p) \/ print_welcome_msg(p) \/ Logout(p)
       PROVE  OneHolder'
  BY <1>6, <1>a, HolderFrame DEF LoginDone, print_welcome_msg, Logout,
         StartBroadcast, client_list, Sending, Signalled
<1>7. ASSUME NEW p \in Proc, ScanSlot(p) \/ ScanOther(p)
       PROVE  OneHolder'
  BY <1>7, <1>a, HolderFrame DEF ScanSlot, ScanOther, NextSlot, Sending,
         Signalled
<1>8. ASSUME NEW p \in Proc, CompareName(p) \/ SetName(p)
       PROVE  OneHolder'
  BY <1>8, <1>a, HolderFrame DEF CompareName, SetName, StartBroadcast,
         Sending, Signalled
\* The actions that hand a semaphore over.
<1>9. ASSUME NEW p \in Proc, SemWait(p)
       PROVE  OneHolder'
  <2>1. idx[p] \in Slots
    BY <1>9 DEF SemWait, Base, PcInv
  <2>2. sem[idx[p]] = 1
    BY <1>9, <2>1 DEF SemWait, SlotFree, OneHolder
  <2>3. \A r \in Proc, i \in Slots :
           /\ Sending(r, i)' => Sending(r, i) \/ (r = p /\ i = idx[p])
           /\ Signalled(r, i)' => Signalled(r, i)
    BY <1>9, <1>a DEF SemWait, Sending, Signalled
  <2>4. sem'[idx[p]] = 0 /\ \A i \in Slots \ {idx[p]} : sem'[i] = sem[i]
    BY <1>9, <1>a, <2>1, <2>2 DEF SemWait
  <2> QED
    BY <2>1, <2>2, <2>3, <2>4 DEF OneHolder
<1>10. ASSUME NEW p \in Proc, Recheck(p)
       PROVE  OneHolder'
  <2>1. PICK j \in Slots : j = idx[p] /\ Sending(p, j)
    BY <1>10 DEF Recheck, Base, PcInv, Sending
  <2>2. \A r \in Proc, i \in Slots :
           /\ Sending(r, i)' => Sending(r, i)
           /\ Signalled(r, i)' => Signalled(r, i)
    BY <1>10, <1>a DEF Recheck, NextSlot, Sending, Signalled
  <2>3. CASE state[idx[p]]
    BY <1>10, <2>2, <2>3, HolderFrame DEF Recheck
  <2>4. CASE ~state[idx[p]]
    <3>1. ~Sending(p, j)' /\ ~Signalled(p, j)'
      <4>1. ~Sending(p, j)'
        BY <1>10, <2>4, <1>a DEF Recheck, NextSlot, Sending
      <4>2. ~Signalled(p, j)'
        BY <2>1, <2>2 DEF OneHolder
      <4> QED
        BY <4>1, <4>2
    <3>2. sem' = [sem EXCEPT ![j] = @ + 1]
      BY <1>10, <2>1, <2>4 DEF Recheck
    <3> QED
      BY <2>1, <2>2, <3>1, <3>2, <1>a, HolderPosts
  <2> QED
    BY <2>3, <2>4
<1>11. ASSUME NEW p \in Proc, Kill(p)
       PROVE  OneHolder'
  <2> DEFINE i0 == idx[p]
             q == pid[i0]
  <2>1. i0 \in Slots /\ Sending(p, i0) /\ UNCHANGED <<sem, id>>
    BY <1>11 DEF Kill, Base, PcInv, Sending
  <2>2. alive(q) => q \in Proc /\ id[q] = i0
    BY <2>1 DEF Base, MailInv, alive
  <2>3. \A r \in Proc, i \in Slots :
           /\ Sending(r, i)' => Sending(r, i) /\ r # p
           /\ Signalled(r, i)' => Signalled(r, i) \/ (r = q /\ i = i0)
    BY <1>11, <2>1, <2>2, <1>a DEF Kill, NextSlot, Sending, Signalled
  <2> QED
    BY <2>1, <2>3 DEF OneHolder
<1>12. ASSUME NEW p \in Proc, KillSelf(p)
       PROVE  OneHolder'
  <2>1. PICK j \in Slots : j = idx[p] /\ id[p] = j /\ Sending(p, j)
    BY <1>12 DEF KillSelf, Base, PcInv, MailInv, Sending
  <2>2. \A r \in Proc, i \in Slots :
           /\ Sending(r, i)' => Sending(r, i)
           /\ Signalled(r, i)' => Signalled(r, i)
    BY <1>12, <1>a DEF KillSelf, NextSlot, Sending, Signalled
  <2>3. ~Sending(p, j)' /\ ~Signalled(p, j)'
    <3>1. ~Sending(p, j)'
      BY <1>12, <1>a DEF KillSelf, NextSlot, Sending
    <3>2. ~Signalled(p, j)'
      BY <2>1, <2>2 DEF OneHolder
    <3> QED
      BY <3>1, <3>2
  <2>4. sem' = [sem EXCEPT ![j] = @ + 1]
    BY <1>12, <2>1 DEF KillSelf, PostOwn
  <2> QED
    BY <2>1, <2>2, <2>3, <2>4, <1>a, HolderPosts
<1>13. ASSUME NEW p \in Proc, EndBroadcast(p) \/ Crash(p)
       PROVE  OneHolder'
  BY <1>13, <1>a, HolderFrame DEF EndBroadcast, Crash, client_list, Sending,
         Signalled
<1>14. ASSUME NEW p \in Proc, msg_handler(p)
       PROVE  OneHolder'
  <2>1. PICK j \in Slots : j = id[p] /\ Signalled(p, j)
    BY <1>14, <1>a DEF msg_handler, Signalled
  <2>2. \A r \in Proc, i \in Slots :
           /\ Sending(r, i)' => Sending(r, i)
           /\ Signalled(r, i)' => Signalled(r, i)
    BY <1>14, <1>a DEF msg_handler, Sending, Signalled
  <2>3. ~Sending(p, j)' /\ ~Signalled(p, j)'
    <3>1. ~Sending(p, j)'
      BY <2>1, <2>2 DEF OneHolder
    <3>2. ~Signalled(p, j)'
      BY <1>14, <1>a DEF msg_handler, Signalled
    <3> QED
      BY <3>1, <3>2
  <2>4. sem' = [sem EXCEPT ![j] = @ + 1]
    BY <1>14, <2>1 DEF msg_handler, PostOwn
  <2> QED
    BY <2>1, <2>2, <2>3, <2>4, <1>a, HolderPosts
<1> QED
  BY <1>1, <1>2, <1>3, <1>4, <1>5, <1>6, <1>7, <1>8, <1>9, <1>10, <1>11,
     <1>12, <1>13, <1>14 DEF Next, User, Step, Work

(***************************************************************************)
(* What client_num counts.                                                 *)
(***************************************************************************)

\* Finitely many processes are registered.
LEMMA RegisteredFinite == IsFiniteSet(Registered)
BY FS_Subset, Registered \in SUBSET Proc DEF Registered

\* client_num changes with the set of registered processes, by one, in the
\* critical sections of main and nowhere else.
LEMMA CountNext == Base /\ ClientNumExact /\ [Next]_vars => ClientNumExact'
<1> SUFFICES ASSUME Base, ClientNumExact, [Next]_vars PROVE ClientNumExact'
  OBVIOUS
<1>a. /\ pc \in [Proc -> Alive \cup {"off", "done", "crashed"}]
      /\ stopped \in [Proc -> BOOLEAN]
  BY DEF Base, Types
<1>0. ASSUME UNCHANGED client_num, Registered' = Registered
      PROVE  ClientNumExact'
  BY <1>0 DEF ClientNumExact
<1>1. CASE UNCHANGED vars
  BY <1>0, <1>1 DEF vars, connect_state, proc_vars, Registered
<1>2. CASE ServerWait \/ ServerSpin
  BY <1>0, <1>2 DEF ServerWait, ServerSpin, connect_state, proc_vars,
         Registered
<1>3. ASSUME NEW p \in Proc,
             \/ Accept(p) \/ cmd_yell(p) \/ Exit(p) \/ HangUp(p)
             \/ (\E t \in TellIds : cmd_tell(p, t))
             \/ \E nm \in NickNames : cmd_name(p, nm)
       PROVE  ClientNumExact'
  <2>1. UNCHANGED client_num
    BY <1>3 DEF Accept, cmd_yell, cmd_tell, cmd_name, Exit, HangUp,
           shared_unchanged, connect_state
  <2>2. Registered' = Registered
    <3>1. CASE Accept(p) \/ HangUp(p)
      BY <3>1, <1>a DEF Accept, HangUp, Registered
    <3>4. CASE Exit(p)
      <4>1. ~stopped[p]
        BY <3>4 DEF Exit, Base, PcInv, Loop
      <4>2. \A r \in Proc \ {p} : pc'[r] = pc[r] /\ stopped'[r] = stopped[r]
        BY <3>4, <1>a DEF Exit
      <4>3. pc[p] = "idle" /\ pc'[p] = "logout"
        BY <3>4, <1>a DEF Exit
      <4> QED
        BY <4>1, <4>2, <4>3 DEF Registered
    <3>2. CASE cmd_yell(p) \/ \E nm \in NickNames : cmd_name(p, nm)
      BY <3>2, <1>a DEF cmd_yell, cmd_name, MayType, StartBroadcast, Registered
    <3>3. CASE \E t \in TellIds : cmd_tell(p, t)
      BY <3>3, <1>a DEF cmd_tell, MayType, Registered
    <3> QED
      BY <1>3, <3>1, <3>2, <3>3, <3>4
  <2> QED
    BY <2>1, <2>2, <1>0
<1>4. ASSUME NEW p \in Proc,
             \/ LoginDone(p) \/ print_welcome_msg(p)
             \/ ScanSlot(p) \/ ScanOther(p) \/ SemWait(p) \/ Recheck(p)
             \/ Kill(p) \/ KillSelf(p) \/ EndBroadcast(p)
             \/ CompareName(p) \/ SetName(p) \/ Crash(p) \/ msg_handler(p)
       PROVE  ClientNumExact'
  <2>1. UNCHANGED client_num
    BY <1>4 DEF LoginDone, print_welcome_msg, ScanSlot, ScanOther, SemWait,
           Recheck, Kill, KillSelf, EndBroadcast, CompareName, SetName, Crash,
           msg_handler, shared_unchanged, connect_state
  <2>2. Registered' = Registered
    <3>1. CASE LoginDone(p) \/ print_welcome_msg(p) \/ EndBroadcast(p)
      BY <3>1, <1>a DEF LoginDone, print_welcome_msg, EndBroadcast,
             StartBroadcast, Registered
    <3>2. CASE \/ ScanSlot(p) \/ ScanOther(p) \/ SemWait(p) \/ Recheck(p)
               \/ Kill(p) \/ KillSelf(p)
      BY <3>2, <1>a DEF ScanSlot, ScanOther, SemWait, Recheck, Kill, KillSelf,
             NextSlot, Registered
    <3>3. CASE CompareName(p) \/ SetName(p) \/ msg_handler(p)
      BY <3>3, <1>a DEF CompareName, SetName, msg_handler, StartBroadcast,
             Registered
    <3>4. CASE Crash(p)
      <4>1. pc[p] \notin {"off", "login", "logout"}
        BY <3>4 DEF Crash, Writing, alive, Alive, Loop, Base, PcInv
      <4> QED
        BY <3>4, <4>1, <1>a DEF Crash, Registered
    <3> QED
      BY <1>4, <3>1, <3>2, <3>3, <3>4
  <2> QED
    BY <2>1, <2>2, <1>0
<1>5. ASSUME NEW p \in Proc, Login(p)
       PROVE  ClientNumExact'
  <2>1. ~stopped[p]
    BY <1>5 DEF Login, Base, PcInv, Loop
  <2>2. Registered' = Registered \cup {p} /\ p \notin Registered
    BY <1>5, <1>a, <2>1 DEF Login, Registered
  <2> QED
    BY <1>5, <2>2, RegisteredFinite, FS_AddElement DEF Login, ClientNumExact
<1>6. ASSUME NEW p \in Proc, Logout(p)
       PROVE  ClientNumExact'
  <2>1. stopped[p]
    BY <1>6 DEF Logout, Base, PcInv
  <2>2. Registered' = Registered \ {p} /\ p \in Registered
    BY <1>6, <1>a, <2>1 DEF Logout, StartBroadcast, Registered
  <2> QED
    BY <1>6, <2>2, RegisteredFinite, FS_RemoveElement
       DEF Logout, Leave, ClientNumExact
<1> QED
  BY <1>1, <1>2, <1>3, <1>4, <1>5, <1>6 DEF Next, User, Step, Work

(***************************************************************************)
(* What the listening process knows: it looks at client_num only between   *)
(* the registration of one connection and the fork of the next.            *)
(***************************************************************************)

\* Where the server is between accept and the busy wait, at most one process
\* has still to register, and there is a place for it.
ServerInv ==
    /\ client_num <= max_client_num
    /\ spc = "accept" => client_num < max_client_num
    /\ \A p \in Proc : pc[p] = "login" => client_num < max_client_num
    /\ \A p \in Proc : pc[p] \in {"login", "enter"} => spc = "wait" /\ lock = 0
    /\ \A p, q \in Proc :
          pc[p] \in {"login", "enter"} /\ pc[q] \in {"login", "enter"} => p = q
    /\ lock \in {0, 1}
    /\ lock = 1 => spc = "wait"

\* Every step keeps what the server knows, the logouts it does not see included.
LEMMA ServerNext == Base /\ ServerInv /\ [Next]_vars => ServerInv'
<1> SUFFICES ASSUME Base, ServerInv, [Next]_vars PROVE ServerInv'
  OBVIOUS
<1>a. /\ pc \in [Proc -> Alive \cup {"off", "done", "crashed"}]
      /\ client_num \in Int /\ lock \in Nat
  BY DEF Base, Types
\* A step that makes nobody log in and counts nobody more.
<1>0. ASSUME UNCHANGED <<spc, lock>>,
             client_num' \in Int, client_num' <= client_num,
             \A r \in Proc : pc'[r] \in {"login", "enter"} => pc'[r] = pc[r]
      PROVE  ServerInv'
  BY <1>0, <1>a DEF ServerInv
<1>1. CASE UNCHANGED vars
  BY <1>0, <1>1, <1>a DEF vars, connect_state, proc_vars
<1>2. CASE ServerWait
  BY <1>2, <1>a DEF ServerWait, ServerInv, proc_vars
<1>3. CASE ServerSpin
  BY <1>3, <1>a DEF ServerSpin, HasPlace, ServerInv, connect_state, proc_vars
<1>4. ASSUME NEW p \in Proc, Accept(p)
       PROVE  ServerInv'
  BY <1>4, <1>a DEF Accept, ServerInv, connect_state
<1>5. ASSUME NEW p \in Proc, Login(p)
       PROVE  ServerInv'
  BY <1>5, <1>a DEF Login, ServerInv
<1>6. ASSUME NEW p \in Proc, LoginDone(p)
       PROVE  ServerInv'
  BY <1>6, <1>a DEF LoginDone, ServerInv
<1>7. ASSUME NEW p \in Proc,
             \/ cmd_yell(p) \/ Exit(p) \/ HangUp(p)
             \/ (\E t \in TellIds : cmd_tell(p, t))
             \/ \E nm \in NickNames : cmd_name(p, nm)
       PROVE  ServerInv'
  BY <1>0, <1>7, <1>a DEF cmd_yell, cmd_tell, cmd_name, Exit, HangUp,
         StartBroadcast, shared_unchanged, connect_state
<1>8. ASSUME NEW p \in Proc,
             \/ ScanSlot(p) \/ ScanOther(p) \/ SemWait(p) \/ Recheck(p)
             \/ Kill(p) \/ KillSelf(p)
       PROVE  ServerInv'
  BY <1>0, <1>8, <1>a DEF ScanSlot, ScanOther, SemWait, Recheck, Kill,
         KillSelf, NextSlot, shared_unchanged, connect_state
<1>9. ASSUME NEW p \in Proc,
             \/ print_welcome_msg(p) \/ EndBroadcast(p) \/ CompareName(p)
             \/ SetName(p) \/ Crash(p) \/ msg_handler(p)
       PROVE  ServerInv'
  BY <1>0, <1>9, <1>a DEF print_welcome_msg, EndBroadcast, CompareName,
         SetName, Crash, msg_handler, StartBroadcast, shared_unchanged,
         connect_state
<1>10. ASSUME NEW p \in Proc, Logout(p)
       PROVE  ServerInv'
  BY <1>0, <1>10, <1>a DEF Logout, Leave, StartBroadcast
<1> QED
  BY <1>1, <1>2, <1>3, <1>4, <1>5, <1>6, <1>7, <1>8, <1>9, <1>10
     DEF Next, User, Step, Work

(***************************************************************************)
(* The ids that are given at a login.                                      *)
(***************************************************************************)

\* Every id below min_id is in use: a logout lowers min_id to the id it frees,
\* and the search after a login stops at the first free one.
LowInUse == \A i \in Ids : i < min_id => state[i]

\* Every step keeps it; only Login, LoginDone and Logout write these variables.
LEMMA LowNext == Base /\ LowInUse /\ [Next]_vars => LowInUse'
<1> SUFFICES ASSUME Base, LowInUse, [Next]_vars PROVE LowInUse'
  OBVIOUS
<1>a. /\ state \in [Slots -> BOOLEAN] /\ min_id \in Ids
      /\ id \in [Proc -> Slots]
  BY DEF Base, Types
<1>b. Ids \subseteq Slots /\ Ids \subseteq Int
  BY DEF Ids, Slots
<1>0. ASSUME UNCHANGED <<min_id, state>> PROVE LowInUse'
  BY <1>0 DEF LowInUse
<1>1. CASE UNCHANGED vars
  BY <1>0, <1>1 DEF vars, connect_state, client_list
<1>2. CASE ServerWait \/ ServerSpin
  BY <1>0, <1>2 DEF ServerWait, ServerSpin, connect_state, client_list
<1>3. ASSUME NEW p \in Proc,
             \/ Accept(p) \/ cmd_yell(p) \/ Exit(p) \/ HangUp(p)
             \/ (\E t \in TellIds : cmd_tell(p, t))
             \/ \E nm \in NickNames : cmd_name(p, nm)
       PROVE  LowInUse'
  BY <1>0, <1>3 DEF Accept, cmd_yell, cmd_tell, cmd_name, Exit, HangUp,
         shared_unchanged, connect_state, client_list
<1>4. ASSUME NEW p \in Proc,
             \/ print_welcome_msg(p)
             \/ ScanSlot(p) \/ ScanOther(p) \/ SemWait(p) \/ Recheck(p)
             \/ Kill(p) \/ KillSelf(p) \/ EndBroadcast(p)
             \/ CompareName(p) \/ SetName(p) \/ Crash(p) \/ msg_handler(p)
       PROVE  LowInUse'
  BY <1>0, <1>4 DEF print_welcome_msg, ScanSlot, ScanOther, SemWait, Recheck,
         Kill, KillSelf, EndBroadcast, CompareName, SetName, Crash,
         msg_handler, shared_unchanged, connect_state, client_list
<1>5. ASSUME NEW p \in Proc, Login(p)
       PROVE  LowInUse'
  BY <1>5, <1>a, <1>b DEF Login, LowInUse
<1>6. ASSUME NEW p \in Proc, LoginDone(p)
       PROVE  LowInUse'
  <2>1. UNCHANGED state
    BY <1>6 DEF LoginDone, client_list
  <2>2. CASE FreeIds = {} /\ UNCHANGED min_id
    BY <2>1, <2>2, <1>0
  <2>3. CASE \E i \in FreeIds : (\A j \in FreeIds : i <= j) /\ min_id' = i
    <3>1. PICK i \in Ids : (\A j \in FreeIds : i <= j) /\ min_id' = i
      BY <2>3 DEF FreeIds
    <3>2. \A j \in Ids : j < i => state[j]
      <4> SUFFICES ASSUME NEW j \in Ids, j < i, ~state[j] PROVE FALSE
        OBVIOUS
      <4>1. j \in FreeIds
        BY DEF FreeIds
      <4> QED
        BY <4>1, <3>1, <1>b
    <3> QED
      BY <2>1, <3>1, <3>2 DEF LowInUse
  <2> QED
    BY <1>6, <2>2, <2>3 DEF LoginDone
<1>7. ASSUME NEW p \in Proc, Logout(p)
       PROVE  LowInUse'
  <2>1. min_id' <= min_id /\ min_id' <= id[p] /\ id[p] \in Int /\ min_id' \in Int
    BY <1>7, <1>a, <1>b DEF Logout, Leave, Slots
  <2> QED
    BY <1>7, <2>1, <1>a, <1>b DEF Logout, LowInUse
<1> QED
  BY <1>1, <1>2, <1>3, <1>4, <1>5, <1>6, <1>7 DEF Next, User, Step, Work

\* The id of a process changes in its login only, to min_id.
LEMMA IdFromLogin ==
    ASSUME Base, [Next]_vars, NEW p \in Proc, id'[p] # id[p]
    PROVE  id'[p] = min_id /\ lock2 = 1
<1>a. id \in [Proc -> Slots]
  BY DEF Base, Types
<1>1. ~UNCHANGED id
  OBVIOUS
<1>2. ~UNCHANGED vars /\ ~ServerWait /\ ~ServerSpin
  BY <1>1 DEF vars, ServerWait, ServerSpin, proc_vars
<1>3. \A q \in Proc :
         /\ ~Accept(q) /\ ~cmd_yell(q) /\ ~Exit(q) /\ ~HangUp(q)
         /\ (\A t \in TellIds : ~cmd_tell(q, t))
         /\ \A nm \in NickNames : ~cmd_name(q, nm)
  BY <1>1 DEF Accept, cmd_yell, cmd_tell, cmd_name, Exit, HangUp
<1>4. \A q \in Proc :
         /\ ~LoginDone(q) /\ ~print_welcome_msg(q)
         /\ ~ScanSlot(q) /\ ~ScanOther(q) /\ ~SemWait(q) /\ ~Recheck(q)
         /\ ~Kill(q) /\ ~KillSelf(q) /\ ~EndBroadcast(q)
         /\ ~CompareName(q) /\ ~SetName(q) /\ ~Crash(q) /\ ~msg_handler(q)
         /\ ~Logout(q)
  BY <1>1 DEF LoginDone, print_welcome_msg, ScanSlot, ScanOther, SemWait,
         Recheck, Kill, KillSelf, EndBroadcast, CompareName, SetName, Crash,
         msg_handler, Logout
<1>5. PICK q \in Proc : Login(q)
  BY <1>2, <1>3, <1>4 DEF Next, User, Step, Work
<1> QED
  BY <1>5, <1>a DEF Login, Lock2Free

-----------------------------------------------------------------------------
(***************************************************************************)
(* The one way in which an id in use is given again: the search for the    *)
(* next min_id after a login finds nothing. As long as it finds something, *)
(* min_id is free whenever lock2 is, and until a logout posts it.          *)
(***************************************************************************)
MinFree ==
    lock2 = 1 \/ (\E p \in Proc : stopped[p] /\ pc[p] \in Loop) => ~state[min_id]

\* A logout gives its own id back or leaves a smaller one that is free.
LEMMA MinFreeNext ==
    Base /\ FreeIds # {} /\ MinFree /\ [Next]_vars => MinFree'
<1> SUFFICES ASSUME Base, FreeIds # {}, MinFree, [Next]_vars PROVE MinFree'
  OBVIOUS
<1>a. /\ state \in [Slots -> BOOLEAN] /\ min_id \in Ids
      /\ id \in [Proc -> Slots] /\ lock2 \in {0, 1}
      /\ pc \in [Proc -> Alive \cup {"off", "done", "crashed"}]
      /\ stopped \in [Proc -> BOOLEAN]
  BY DEF Base, Types
<1>b. Ids \subseteq Slots
  BY DEF Ids, Slots
<1>0. ASSUME UNCHANGED <<min_id, state, lock2>>,
             \A r \in Proc : stopped'[r] /\ pc'[r] \in Loop =>
                                stopped[r] /\ pc[r] \in Loop
      PROVE  MinFree'
  BY <1>0 DEF MinFree
<1>1. CASE UNCHANGED vars
  BY <1>0, <1>1 DEF vars, connect_state, client_list, proc_vars
<1>2. CASE ServerWait \/ ServerSpin
  BY <1>0, <1>2 DEF ServerWait, ServerSpin, connect_state, client_list, proc_vars
<1>3. ASSUME NEW p \in Proc,
             \/ Accept(p) \/ cmd_yell(p) \/ Exit(p) \/ HangUp(p)
             \/ (\E t \in TellIds : cmd_tell(p, t))
             \/ \E nm \in NickNames : cmd_name(p, nm)
       PROVE  MinFree'
  <2>1. UNCHANGED <<min_id, state, lock2>>
    BY <1>3 DEF Accept, cmd_yell, cmd_tell, cmd_name, Exit, HangUp,
           shared_unchanged, connect_state, client_list
  <2>2. \A r \in Proc : stopped'[r] /\ pc'[r] \in Loop => stopped[r] /\ pc[r] \in Loop
    BY <1>3, <1>a DEF Accept, cmd_yell, cmd_tell, cmd_name, Exit, HangUp, MayType,
           StartBroadcast, Base, PcInv, Loop
  <2> QED
    BY <1>0, <2>1, <2>2
<1>4. ASSUME NEW p \in Proc,
             \/ print_welcome_msg(p)
             \/ ScanSlot(p) \/ ScanOther(p) \/ SemWait(p) \/ Recheck(p)
             \/ Kill(p) \/ KillSelf(p)
             \/ CompareName(p) \/ SetName(p) \/ Crash(p) \/ msg_handler(p)
       PROVE  MinFree'
  <2>1. UNCHANGED <<min_id, state, lock2, stopped>>
    BY <1>4 DEF print_welcome_msg, ScanSlot, ScanOther, SemWait, Recheck,
           Kill, KillSelf, CompareName, SetName, Crash, msg_handler,
           shared_unchanged, connect_state, client_list
  <2>2. \A r \in Proc \ {p} : pc'[r] = pc[r]
    BY <1>4, <1>a DEF print_welcome_msg, ScanSlot, ScanOther, SemWait, Recheck,
           Kill, KillSelf, CompareName, SetName, Crash, msg_handler,
           StartBroadcast, NextSlot
  <2>3. pc'[p] \in Loop => pc[p] \in Loop \/ ~stopped[p]
    BY <1>4, <1>a DEF print_welcome_msg, ScanSlot, ScanOther, SemWait, Recheck,
           Kill, KillSelf, CompareName, SetName, Crash, msg_handler, Base, PcInv,
           Loop
  <2> QED
    BY <1>0, <2>1, <2>2, <2>3
<1>5. ASSUME NEW p \in Proc, EndBroadcast(p)
       PROVE  MinFree'
  <2>1. UNCHANGED <<min_id, state, stopped>> /\ pc[p] \in Loop
    BY <1>5 DEF EndBroadcast, client_list, Loop
  <2>2. \A r \in Proc : pc'[r] \in Loop => pc[r] \in Loop
    BY <1>5, <1>a DEF EndBroadcast, Loop
  <2>3. stopped[p] \/ UNCHANGED lock2
    BY <1>5 DEF EndBroadcast
  <2> QED
    BY <2>1, <2>2, <2>3 DEF MinFree
<1>6. ASSUME NEW p \in Proc, Login(p)
       PROVE  MinFree'
  <2>1. \A r \in Proc : ~(stopped[r] /\ pc[r] \in Loop)
    BY <1>6 DEF Login, Lock2Free, Base, LockInv, InLock2
  <2>2. \A r \in Proc : ~(stopped'[r] /\ pc'[r] \in Loop)
    BY <1>6, <2>1, <1>a DEF Login, Loop
  <2>3. lock2' # 1
    BY <1>6 DEF Login
  <2> QED
    BY <2>2, <2>3 DEF MinFree
<1>7. ASSUME NEW p \in Proc, LoginDone(p)
       PROVE  MinFree'
  <2>1. PICK i \in FreeIds : min_id' = i
    BY <1>7 DEF LoginDone
  <2>2. ~state'[min_id']
    BY <1>7, <2>1 DEF LoginDone, client_list, FreeIds
  <2> QED
    BY <2>2 DEF MinFree
<1>8. ASSUME NEW p \in Proc, Logout(p)
       PROVE  MinFree'
  <2>1. ~state[min_id] /\ id[p] \in Slots /\ min_id \in Slots
    BY <1>8, <1>a, <1>b DEF Logout, Lock2Free, MinFree
  <2>2. ~state'[min_id']
    BY <1>8, <2>1, <1>a DEF Logout, Leave
  <2> QED
    BY <2>2 DEF MinFree
<1> QED
  BY <1>1, <1>2, <1>3, <1>4, <1>5, <1>6, <1>7, <1>8 DEF Next, User, Step, Work

(***************************************************************************)
(* How the semaphore of a slot can be lost.                                *)
(***************************************************************************)

\* A slot in use, and a slot whose user is about to be signalled, have had a
\* user: its pid is not the one create_shared_mem left there.
PidInv ==
    /\ \A i \in Ids : state[i] => pid[i] \in Proc
    /\ \A p \in Proc : pc[p] = "kill" /\ idx[p] \in Ids => pid[idx[p]] \in Proc

\* Every step keeps it.
LEMMA PidNext == Base /\ PidInv /\ [Next]_vars => PidInv'
<1> SUFFICES ASSUME Base, PidInv, [Next]_vars PROVE PidInv'
  OBVIOUS
<1>a. /\ pc \in [Proc -> Alive \cup {"off", "done", "crashed"}]
      /\ idx \in [Proc -> 0..(max_client_num + 1)]
      /\ state \in [Slots -> BOOLEAN]
      /\ pid \in [Slots -> Proc \cup {Server}]
      /\ min_id \in Ids /\ Ids \subseteq Slots
  BY DEF Base, Types, Ids, Slots
<1>0. ASSUME UNCHANGED <<state, pid>>,
             \A r \in Proc : pc'[r] = "kill" => pc[r] = "kill" /\ idx'[r] = idx[r]
      PROVE  PidInv'
  BY <1>0 DEF PidInv
<1>1. CASE UNCHANGED vars
  BY <1>0, <1>1 DEF vars, client_list, proc_vars
<1>2. CASE ServerWait \/ ServerSpin
  BY <1>0, <1>2 DEF ServerWait, ServerSpin, client_list, proc_vars
<1>3. ASSUME NEW p \in Proc,
             \/ Accept(p) \/ cmd_yell(p) \/ Exit(p) \/ HangUp(p)
             \/ (\E t \in TellIds : cmd_tell(p, t))
             \/ \E nm \in NickNames : cmd_name(p, nm)
       PROVE  PidInv'
  BY <1>0, <1>3, <1>a DEF Accept, cmd_yell, cmd_tell, cmd_name, MayType, Exit,
         HangUp, StartBroadcast, shared_unchanged, client_list
<1>4. ASSUME NEW p \in Proc,
             \/ ScanSlot(p) \/ ScanOther(p) \/ SemWait(p)
             \/ Kill(p) \/ KillSelf(p)
       PROVE  PidInv'
  BY <1>0, <1>4, <1>a DEF ScanSlot, ScanOther, SemWait, Kill, KillSelf,
         NextSlot, shared_unchanged
<1>5. ASSUME NEW p \in Proc,
             \/ LoginDone(p) \/ print_welcome_msg(p) \/ EndBroadcast(p)
             \/ CompareName(p) \/ SetName(p) \/ Crash(p) \/ msg_handler(p)
       PROVE  PidInv'
  BY <1>0, <1>5, <1>a DEF LoginDone, print_welcome_msg, EndBroadcast,
         CompareName, SetName, Crash, msg_handler, StartBroadcast,
         shared_unchanged, client_list
<1>6. ASSUME NEW p \in Proc, Login(p)
       PROVE  PidInv'
  BY <1>6, <1>a DEF Login, PidInv
<1>7. ASSUME NEW p \in Proc, Recheck(p)
       PROVE  PidInv'
  <2>1. CASE state[idx[p]]
    BY <1>7, <2>1, <1>a DEF Recheck, PidInv, shared_unchanged
  <2>2. CASE ~state[idx[p]]
    BY <1>0, <1>7, <2>2, <1>a DEF Recheck, NextSlot, shared_unchanged
  <2> QED
    BY <2>1, <2>2
<1>8. ASSUME NEW p \in Proc, Logout(p)
       PROVE  PidInv'
  BY <1>8, <1>a DEF Logout, StartBroadcast, PidInv
<1> QED
  BY <1>1, <1>2, <1>3, <1>4, <1>5, <1>6, <1>7, <1>8 DEF Next, User, Step, Work

\* The three ways in which a taken semaphore is accounted for.
Holder(p, i) == alive(p) /\ (Sending(p, i) \/ Signalled(p, i))
Departed(p, i) ==
    \/ pc[p] \in {"done", "crashed"} /\ id[p] = i
    \/ pc[p] = "crashed" /\ idx[p] = i

\* LostByLeaving in these words.
LEMMA LostForm ==
    LostByLeaving <=>
        \A i \in Ids : \/ sem[i] > 0
                       \/ \E p \in Proc : Holder(p, i) \/ Departed(p, i)
BY DEF LostByLeaving, Holder, Departed

\* A step that takes no semaphore, and in which whoever answers for one goes
\* on doing so.
LEMMA LostFrame ==
    ASSUME LostByLeaving,
           \A i \in Ids : sem[i] > 0 => sem'[i] > 0,
           \A i \in Ids : \A r \in Proc : Holder(r, i) \/ Departed(r, i) =>
              \/ sem'[i] > 0
              \/ \E q \in Proc : Holder(q, i)' \/ Departed(q, i)'
    PROVE  LostByLeaving'
<1>1. \A i \in Ids : \/ sem'[i] > 0
                     \/ \E p \in Proc : Holder(p, i)' \/ Departed(p, i)'
  BY LostForm
<1> QED
  BY <1>1 DEF LostByLeaving, Holder, Departed

\* Every sem_wait of broadcast and cmd_tell is answered by the sender, by the
\* handler of the process it signals, or by nobody because that one has left.
LEMMA LostNext == Base /\ PidInv /\ LostByLeaving /\ [Next]_vars => LostByLeaving'
<1> SUFFICES ASSUME Base, PidInv, LostByLeaving, [Next]_vars
             PROVE  LostByLeaving'
  OBVIOUS
<1>a. /\ pc \in [Proc -> Alive \cup {"off", "done", "crashed"}]
      /\ id \in [Proc -> Slots] /\ idx \in [Proc -> 0..(max_client_num + 1)]
      /\ sig \in [Proc -> BOOLEAN] /\ sem \in [Slots -> Nat]
      /\ pid \in [Slots -> Proc \cup {Server}]
      /\ Ids \subseteq Slots
  BY DEF Base, Types, Ids, Slots
<1>b. \A r \in Proc : sig[r] => alive(r) /\ pc[r] # "login"
  BY DEF Base, PcInv, alive
\* A step that leaves the semaphores alone, and p's own part in them.
<1>0. ASSUME NEW p \in Proc, UNCHANGED <<sem, sig>>,
             \A r \in Proc \ {p} :
                pc'[r] = pc[r] /\ idx'[r] = idx[r] /\ id'[r] = id[r],
             pc[p] \notin {"recheck", "kill", "done", "crashed"},
             sig[p] => id'[p] = id[p] /\ pc'[p] \in Alive
      PROVE  LostByLeaving'
  <2>1. \A i \in Ids, r \in Proc :
           /\ Holder(r, i) => Holder(r, i)'
           /\ Departed(r, i) => Departed(r, i)'
    BY <1>0, <1>a DEF Holder, Departed, Sending, Signalled, alive, Alive, Loop
  <2> QED
    BY <1>0, <2>1, LostFrame
<1>1. CASE UNCHANGED vars
  BY <1>1 DEF vars, client_list, proc_vars, LostByLeaving, alive, Sending,
         Signalled
<1>2. CASE ServerWait \/ ServerSpin
  BY <1>2 DEF ServerWait, ServerSpin, client_list, proc_vars, LostByLeaving,
         alive, Sending, Signalled
<1>3. ASSUME NEW p \in Proc,
             \/ cmd_yell(p) \/ (\E t \in TellIds : cmd_tell(p, t))
             \/ \E nm \in NickNames : cmd_name(p, nm)
       PROVE  LostByLeaving'
  BY <1>0, <1>3, <1>a DEF cmd_yell, cmd_tell, cmd_name, MayType,
         StartBroadcast, Alive, Loop
<1>4. ASSUME NEW p \in Proc, Accept(p) \/ Exit(p)
       PROVE  LostByLeaving'
  BY <1>0, <1>4, <1>a DEF Accept, Exit, client_list, Alive
<1>5. ASSUME NEW p \in Proc, HangUp(p)
       PROVE  LostByLeaving'
  BY <1>5 DEF HangUp, LostByLeaving, alive, Sending, Signalled
<1>6. ASSUME NEW p \in Proc, Login(p)
       PROVE  LostByLeaving'
  BY <1>0, <1>6, <1>a, <1>b DEF Login
<1>7. ASSUME NEW p \in Proc,
             LoginDone(p) \/ print_welcome_msg(p) \/ Logout(p)
       PROVE  LostByLeaving'
  BY <1>0, <1>7, <1>a DEF LoginDone, print_welcome_msg, Logout,
         StartBroadcast, client_list, Alive, Loop
<1>8. ASSUME NEW p \in Proc, ScanSlot(p) \/ ScanOther(p)
       PROVE  LostByLeaving'
  BY <1>0, <1>8, <1>a DEF ScanSlot, ScanOther, NextSlot, Alive, Loop
<1>9. ASSUME NEW p \in Proc, CompareName(p) \/ SetName(p)
       PROVE  LostByLeaving'
  BY <1>0, <1>9, <1>a DEF CompareName, SetName, StartBroadcast, Alive, Loop
\* The sender takes the semaphore: it answers for it from now on.
<1>10. ASSUME NEW p \in Proc, SemWait(p)
       PROVE  LostByLeaving'
  <2>0. PICK j \in Slots : j = idx[p]
    BY <1>10 DEF SemWait, Base, PcInv
  <2>1. /\ \A i \in Slots \ {j} : sem'[i] = sem[i]
        /\ Holder(p, j)'
    BY <1>10, <2>0, <1>a DEF SemWait, Holder, Sending, alive, Alive, Loop
  <2>2. \A i \in Ids, r \in Proc :
           /\ Holder(r, i) => Holder(r, i)'
           /\ Departed(r, i) => Departed(r, i)'
    BY <1>10, <1>a DEF SemWait, Holder, Departed, Sending, Signalled, alive,
           Alive, Loop
  <2>3. \A i \in Ids : \/ sem'[i] > 0
                       \/ \E r \in Proc : Holder(r, i)' \/ Departed(r, i)'
    BY <2>1, <2>2, <1>a, LostForm
  <2> QED
    BY <2>3 DEF LostByLeaving, Holder, Departed
\* The holder of the semaphore of slot j posts it.
<1>11. ASSUME NEW p \in Proc, NEW j \in Slots,
              sem' = [sem EXCEPT ![j] = @ + 1],
              \A r \in Proc \ {p} : /\ pc'[r] = pc[r] /\ idx'[r] = idx[r]
                                    /\ id'[r] = id[r] /\ sig'[r] = sig[r],
              alive(p), id'[p] = id[p],
              \A i \in Ids \ {j} : Holder(p, i) => Holder(p, i)'
       PROVE  LostByLeaving'
  <2>1. sem'[j] > 0 /\ \A i \in Slots \ {j} : sem'[i] = sem[i]
    BY <1>11, <1>a
  <2>2. \A i \in Ids \ {j}, r \in Proc :
           Holder(r, i) \/ Departed(r, i) => Holder(r, i)' \/ Departed(r, i)'
    <3> SUFFICES ASSUME NEW i \in Ids \ {j}, NEW r \in Proc,
                        Holder(r, i) \/ Departed(r, i)
                 PROVE  Holder(r, i)' \/ Departed(r, i)'
      OBVIOUS
    <3>1. CASE r = p
      BY <3>1, <1>11 DEF Departed, alive, Alive, Loop
    <3>2. CASE r # p
      BY <3>2, <1>11 DEF Holder, Departed, Sending, Signalled, alive
    <3> QED
      BY <3>1, <3>2
  <2> QED
    BY <2>1, <2>2, <1>a, LostFrame
<1>12. ASSUME NEW p \in Proc, Recheck(p)
       PROVE  LostByLeaving'
  <2>0. idx[p] \in Slots /\ alive(p)
    BY <1>12 DEF Recheck, Base, PcInv, alive, Alive, Loop
  <2>1. CASE state[idx[p]]
    <3>1. \A i \in Ids, r \in Proc :
             /\ Holder(r, i) => Holder(r, i)'
             /\ Departed(r, i) => Departed(r, i)'
      BY <1>12, <2>1, <1>a DEF Recheck, Holder, Departed, Sending, Signalled,
             alive, Alive, Loop
    <3> QED
      BY <1>12, <2>1, <3>1, LostFrame DEF Recheck
  <2>2. CASE ~state[idx[p]]
    <3>1. \A i \in Ids \ {idx[p]} : Holder(p, i) => Holder(p, i)'
      BY <1>12, <2>2, <1>a DEF Recheck, NextSlot, Holder, Sending, Signalled,
             alive, Alive, Loop
    <3>2. /\ sem' = [sem EXCEPT ![idx[p]] = @ + 1] /\ id'[p] = id[p]
          /\ \A r \in Proc \ {p} : /\ pc'[r] = pc[r] /\ idx'[r] = idx[r]
                                   /\ id'[r] = id[r] /\ sig'[r] = sig[r]
      BY <1>12, <2>2, <1>a DEF Recheck, NextSlot
    <3> QED
      BY <2>0, <3>1, <3>2, <1>11
  <2> QED
    BY <2>1, <2>2
<1>13. ASSUME NEW p \in Proc, Kill(p)
       PROVE  LostByLeaving'
  <2>1. PICK j \in Slots : j = idx[p]
    BY <1>13 DEF Kill, Base, PcInv
  <2>2. /\ UNCHANGED sem
        /\ \A r \in Proc \ {p} : Departed(r, j) => Departed(r, j)'
        /\ \A r \in Proc, i \in Ids \ {j} :
              /\ Holder(r, i) => Holder(r, i)'
              /\ Departed(r, i) => Departed(r, i)'
    BY <1>13, <2>1, <1>a DEF Kill, NextSlot, Holder, Departed, Sending,
           Signalled, alive, Alive, Loop
  \* Whom the signal is sent to: it is served, or it has left.
  <2>3. j \in Ids => \E q \in Proc : Holder(q, j)' \/ Departed(q, j)'
    <3> SUFFICES ASSUME j \in Ids
                 PROVE  \E q \in Proc : Holder(q, j)' \/ Departed(q, j)'
      OBVIOUS
    <3>1. PICK q \in Proc : q = pid[j] /\ id[q] = j /\ q # p
      BY <1>13, <2>1 DEF Kill, PidInv, Base, MailInv
    <3>2. CASE alive(q)
      <4>1. sig'[q] /\ id'[q] = j /\ pc'[q] = pc[q]
        BY <1>13, <2>1, <3>1, <3>2, <1>a DEF Kill, NextSlot
      <4> QED
        BY <3>1, <3>2, <4>1 DEF Holder, Signalled, alive
    <3>3. CASE ~alive(q)
      <4>1. pc[q] \in {"done", "crashed"}
        BY <3>1, <3>3, <1>a DEF alive, Base, PcInv, Ids
      <4>2. id'[q] = j /\ pc'[q] = pc[q]
        BY <1>13, <3>1, <1>a DEF Kill, NextSlot
      <4> QED
        BY <4>1, <4>2, <3>1 DEF Departed
    <3> QED
      BY <3>2, <3>3
  <2> QED
    BY <2>2, <2>3, LostFrame
<1>14. ASSUME NEW p \in Proc, KillSelf(p)
       PROVE  LostByLeaving'
  <2>1. idx[p] \in Slots /\ idx[p] = id[p] /\ alive(p)
    BY <1>14 DEF KillSelf, Base, PcInv, MailInv, alive, Alive, Loop
  <2>2. \A i \in Ids \ {id[p]} : Holder(p, i) => Holder(p, i)'
    BY <1>14, <2>1, <1>a DEF KillSelf, NextSlot, Holder, Sending, Signalled,
           alive, Alive, Loop
  <2>3. /\ sem' = [sem EXCEPT ![id[p]] = @ + 1] /\ id'[p] = id[p]
        /\ \A r \in Proc \ {p} : /\ pc'[r] = pc[r] /\ idx'[r] = idx[r]
                                 /\ id'[r] = id[r] /\ sig'[r] = sig[r]
    BY <1>14, <1>a DEF KillSelf, PostOwn, NextSlot
  <2> QED
    BY <2>1, <2>2, <2>3, <1>11
\* A process leaves: a semaphore it answered for is lost with it.
<1>15. ASSUME NEW p \in Proc, EndBroadcast(p) \/ Crash(p)
       PROVE  LostByLeaving'
  <2>1. \A i \in Ids, r \in Proc : Departed(r, i) => Departed(r, i)'
    BY <1>15, <1>a DEF EndBroadcast, Crash, alive, Departed, Alive, Loop
  <2>2. \A i \in Ids, r \in Proc :
           Holder(r, i) => Holder(r, i)' \/ Departed(r, i)'
    BY <1>15, <1>a DEF EndBroadcast, Crash, Holder, Departed, Sending,
           Signalled, alive, Alive, Loop
  <2>3. UNCHANGED sem
    BY <1>15 DEF EndBroadcast, Crash, client_list
  <2> QED
    BY <2>1, <2>2, <2>3, LostFrame
<1>16. ASSUME NEW p \in Proc, msg_handler(p)
       PROVE  LostByLeaving'
  <2>1. id[p] \in Slots /\ alive(p)
    BY <1>16, <1>a DEF msg_handler
  <2>2. \A i \in Ids \ {id[p]} : Holder(p, i) => Holder(p, i)'
    BY <1>16, <1>a DEF msg_handler, Holder, Sending, Signalled, alive
  <2>3. /\ sem' = [sem EXCEPT ![id[p]] = @ + 1] /\ id'[p] = id[p]
        /\ \A r \in Proc \ {p} : /\ pc'[r] = pc[r] /\ idx'[r] = idx[r]
                                 /\ id'[r] = id[r] /\ sig'[r] = sig[r]
    BY <1>16, <1>a DEF msg_handler, PostOwn
  <2> QED
    BY <2>1, <2>2, <2>3, <1>11
<1> QED
  BY <1>1, <1>2, <1>3, <1>4, <1>5, <1>6, <1>7, <1>8, <1>9, <1>10, <1>12,
     <1>13, <1>14, <1>15, <1>16 DEF Next, User, Step, Work

(***************************************************************************)
(* The order in which the messages of one sender are shown.                *)
(***************************************************************************)

\* The message p is sending may still be handed to the user of slot i.
Ahead(p, i) == pc[p] \in Loop /\ (msg[p].kind = "tell" \/ idx[p] <= i)

\* m has been sent, and it is not the message its sender may still hand to
\* the user of slot i but an earlier one.
Old(m, i) ==
    /\ m.n <= ncmd[m.from]
    /\ Ahead(m.from, i) => m.n < ncmd[m.from]

\* A process sends its message number ncmd, leaves it in the mailbox of the
\* slot whose semaphore it has, and a process that is not logged in has shown
\* nothing.
SendInv ==
    \A p \in Proc :
        /\ pc[p] \in Loop => msg[p].n = ncmd[p] /\ msg[p].from = p
        /\ pc[p] \in {"recheck", "kill"} => mailbox[idx[p]] = msg[p]
        /\ pc[p] \in {"off", "login"} => shown[p] = {}

\* What a client has seen, and what its handler is about to show, is old.
SeenInv ==
    \A q \in Proc :
        /\ \A m \in shown[q] : Old(m, id[q])
        /\ sig[q] => mailbox[id[q]].from # q /\ Old(mailbox[id[q]], id[q])

\* Every step keeps what the senders do.
LEMMA SendNext == Base /\ OneHolder /\ SendInv /\ [Next]_vars => SendInv'
<1> SUFFICES ASSUME Base, OneHolder, SendInv, [Next]_vars PROVE SendInv'
  OBVIOUS
<1>a. /\ pc \in [Proc -> Alive \cup {"off", "done", "crashed"}]
      /\ idx \in [Proc -> 0..(max_client_num + 1)]
      /\ msg \in [Proc -> Messages] /\ ncmd \in [Proc -> 0..(MaxCmds + 2)]
      /\ mailbox \in [Slots -> Messages \cup {NoMsg}]
      /\ shown \in [Proc -> SUBSET Messages]
  BY DEF Base, Types
\* A step that writes no mailbox and, for whoever goes on sending, nothing.
<1>0. ASSUME UNCHANGED mailbox,
             \A r \in Proc :
                /\ pc'[r] \in Loop =>
                      \/ pc[r] \in Loop /\ msg'[r] = msg[r] /\ ncmd'[r] = ncmd[r]
                      \/ msg'[r].n = ncmd'[r] /\ msg'[r].from = r
                /\ pc'[r] \in {"recheck", "kill"} =>
                      /\ pc[r] \in {"recheck", "kill"}
                      /\ idx'[r] = idx[r] /\ msg'[r] = msg[r]
                /\ pc'[r] \in {"off", "login"} =>
                      pc[r] \in {"off", "login"} /\ shown'[r] = shown[r]
      PROVE  SendInv'
  BY <1>0 DEF SendInv
<1>1. CASE UNCHANGED vars
  BY <1>0, <1>1 DEF vars, client_list, proc_vars
<1>2. CASE ServerWait \/ ServerSpin
  BY <1>0, <1>2 DEF ServerWait, ServerSpin, client_list, proc_vars
<1>3. ASSUME NEW p \in Proc,
             \/ cmd_yell(p) \/ SetName(p) \/ print_welcome_msg(p) \/ Logout(p)
       PROVE  SendInv'
  <2>1. PICK k, a : StartBroadcast(p, k, a)
    BY <1>3 DEF cmd_yell, SetName, print_welcome_msg, Logout
  <2>2. pc'[p] = "scan" /\ msg'[p].n = ncmd'[p] /\ msg'[p].from = p
    BY <2>1, <1>a DEF StartBroadcast, Message
  <2>3. \A r \in Proc \ {p} :
           /\ pc'[r] = pc[r] /\ msg'[r] = msg[r] /\ ncmd'[r] = ncmd[r]
           /\ idx'[r] = idx[r] /\ shown'[r] = shown[r]
    BY <1>3, <2>1, <1>a DEF StartBroadcast, cmd_yell, SetName,
           print_welcome_msg, Logout, write
  <2>4. UNCHANGED mailbox
    BY <1>3 DEF cmd_yell, SetName, print_welcome_msg, Logout, client_list
  <2> QED
    BY <1>0, <2>2, <2>3, <2>4
<1>4. ASSUME NEW p \in Proc, NEW t \in TellIds, cmd_tell(p, t)
       PROVE  SendInv'
  <2>1. /\ UNCHANGED <<mailbox, shown>>
        /\ \A r \in Proc \ {p} :
              /\ pc'[r] = pc[r] /\ msg'[r] = msg[r] /\ ncmd'[r] = ncmd[r]
              /\ idx'[r] = idx[r]
    BY <1>4, <1>a DEF cmd_tell
  <2>2. \/ pc'[p] = "idle"
        \/ pc'[p] = "wait" /\ msg'[p].n = ncmd'[p] /\ msg'[p].from = p
    BY <1>4, <1>a DEF cmd_tell, MayType, Message
  <2> QED
    BY <1>0, <2>1, <2>2 DEF Loop
<1>5. ASSUME NEW p \in Proc,
             \/ Accept(p) \/ Exit(p) \/ HangUp(p)
             \/ \E nm \in NickNames : cmd_name(p, nm)
       PROVE  SendInv'
  BY <1>0, <1>5, <1>a DEF Accept, Exit, HangUp, cmd_name, MayType, client_list,
         Loop
<1>6. ASSUME NEW p \in Proc,
             \/ Login(p) \/ LoginDone(p) \/ CompareName(p) \/ EndBroadcast(p)
             \/ Crash(p)
       PROVE  SendInv'
  BY <1>0, <1>6, <1>a DEF Login, LoginDone, CompareName, EndBroadcast, Crash,
         client_list, Loop
<1>7. ASSUME NEW p \in Proc,
             ScanSlot(p) \/ Kill(p) \/ KillSelf(p)
       PROVE  SendInv'
  <2>1. /\ UNCHANGED <<mailbox, msg, ncmd>>
        /\ \A r \in Proc \ {p} :
              /\ pc'[r] = pc[r] /\ idx'[r] = idx[r] /\ shown'[r] = shown[r]
        /\ pc[p] \in Loop /\ pc'[p] \in {"scan", "idle"}
    BY <1>7, <1>a DEF ScanSlot, Kill, KillSelf, NextSlot, write, Loop
  <2> QED
    BY <1>0, <2>1 DEF Loop
<1>8. ASSUME NEW p \in Proc, ScanOther(p) \/ Recheck(p)
       PROVE  SendInv'
  BY <1>0, <1>8, <1>a DEF ScanOther, Recheck, NextSlot, Loop
<1>9. ASSUME NEW p \in Proc, msg_handler(p)
       PROVE  SendInv'
  <2>1. pc[p] \notin {"off", "login"}
    BY <1>9 DEF msg_handler, Base, PcInv, Alive, Loop
  <2>2. /\ UNCHANGED <<mailbox, pc, idx, msg, ncmd>>
        /\ \A r \in Proc \ {p} : shown'[r] = shown[r]
    BY <1>9, <1>a DEF msg_handler, write
  <2> QED
    BY <1>0, <2>1, <2>2
\* Nobody else is handing a message over through the mailbox p fills.
<1>10. ASSUME NEW p \in Proc, SemWait(p)
       PROVE  SendInv'
  <2>1. PICK j \in Slots : j = idx[p]
    BY <1>10 DEF SemWait, Base, PcInv
  <2>2. \A r \in Proc : ~Sending(r, j)
    BY <1>10, <2>1 DEF SemWait, SlotFree, OneHolder
  <2>3. /\ UNCHANGED <<idx, msg, ncmd, shown>>
        /\ mailbox'[j] = msg[p] /\ \A i \in Slots \ {j} : mailbox'[i] = mailbox[i]
        /\ pc[p] = "wait" /\ pc'[p] = "recheck"
        /\ \A r \in Proc \ {p} : pc'[r] = pc[r]
    BY <1>10, <2>1, <1>a DEF SemWait
  <2>4. \A r \in Proc \ {p} :
           pc[r] \in {"recheck", "kill"} => mailbox'[idx[r]] = mailbox[idx[r]]
    BY <2>2, <2>3 DEF Sending, Base, PcInv
  <2> QED
    BY <2>1, <2>3, <2>4 DEF SendInv, Loop
<1> QED
  BY <1>1, <1>2, <1>3, <1>4, <1>5, <1>6, <1>7, <1>8, <1>9, <1>10
     DEF Next, User, Step, Work

\* A process that gets a message to send, or moves back in the loop, has
\* counted a command more.
LEMMA AheadNext ==
    ASSUME Base, [Next]_vars, NEW r \in Proc, NEW i \in Slots
    PROVE  \/ ncmd'[r] = ncmd[r] /\ (Ahead(r, i)' => Ahead(r, i))
           \/ ncmd'[r] = ncmd[r] + 1
<1> DEFINE Goal == \/ ncmd'[r] = ncmd[r] /\ (Ahead(r, i)' => Ahead(r, i))
                   \/ ncmd'[r] = ncmd[r] + 1
<1> SUFFICES Goal
  OBVIOUS
<1>a. /\ pc \in [Proc -> Alive \cup {"off", "done", "crashed"}]
      /\ idx \in [Proc -> 0..(max_client_num + 1)]
      /\ msg \in [Proc -> Messages] /\ ncmd \in [Proc -> 0..(MaxCmds + 2)]
  BY DEF Base, Types
<1>0. ASSUME pc'[r] \in Loop => pc[r] \in Loop /\ idx'[r] = idx[r],
             msg'[r] = msg[r], ncmd'[r] = ncmd[r]
      PROVE  Goal
  BY <1>0 DEF Ahead
<1>1. CASE UNCHANGED vars
  BY <1>0, <1>1 DEF vars, proc_vars
<1>2. CASE ServerWait \/ ServerSpin
  BY <1>0, <1>2 DEF ServerWait, ServerSpin, proc_vars
<1>3. ASSUME NEW p \in Proc,
             \/ cmd_yell(p) \/ SetName(p) \/ print_welcome_msg(p) \/ Logout(p)
       PROVE  Goal
  <2>1. PICK k, a : StartBroadcast(p, k, a)
    BY <1>3 DEF cmd_yell, SetName, print_welcome_msg, Logout
  <2> QED
    BY <1>0, <2>1, <1>a DEF StartBroadcast
<1>4. ASSUME NEW p \in Proc, NEW t \in TellIds, cmd_tell(p, t)
       PROVE  Goal
  BY <1>0, <1>4, <1>a DEF cmd_tell
<1>5. ASSUME NEW p \in Proc, NEW nm \in NickNames, cmd_name(p, nm)
       PROVE  Goal
  <2>1. ncmd'[r] = ncmd[r]
    BY <1>5 DEF cmd_name
  <2>2. Ahead(r, i)' => Ahead(r, i)
    BY <1>5, <1>a DEF cmd_name, MayType, Ahead, Loop
  <2> QED
    BY <2>1, <2>2
<1>6. ASSUME NEW p \in Proc, CompareName(p)
       PROVE  Goal
  <2>1. CASE Clash(p, idx[p])
    BY <1>0, <1>6, <2>1, <1>a DEF CompareName
  <2>2. CASE ~Clash(p, idx[p])
    BY <1>0, <1>6, <2>2, <1>a DEF CompareName, Loop
  <2> QED
    BY <2>1, <2>2
<1>7. ASSUME NEW p \in Proc,
             \/ Accept(p) \/ Exit(p) \/ HangUp(p) \/ msg_handler(p)
             \/ Login(p) \/ LoginDone(p) \/ EndBroadcast(p) \/ Crash(p)
             \/ ScanOther(p) \/ SemWait(p)
       PROVE  Goal
  BY <1>0, <1>7, <1>a DEF Accept, Exit, HangUp, msg_handler, Login, LoginDone,
         EndBroadcast, Crash, ScanOther, SemWait, Loop
<1>8. ASSUME NEW p \in Proc, pc[p] \in Loop, NextSlot(p), UNCHANGED <<msg, ncmd>>
       PROVE  Goal
  <2>1. CASE r = p
    <3>1. i \in Int /\ idx[p] \in Int
      BY <1>a DEF Slots
    <3> QED
      BY <1>8, <2>1, <3>1, <1>a DEF NextSlot, Ahead, Loop
  <2>2. CASE r # p
    BY <1>0, <1>8, <2>2, <1>a DEF NextSlot
  <2> QED
    BY <2>1, <2>2
<1>9. ASSUME NEW p \in Proc,
             ScanSlot(p) \/ Recheck(p) \/ Kill(p) \/ KillSelf(p)
       PROVE  Goal
  <2>1. pc[p] \in Loop /\ UNCHANGED <<msg, ncmd>>
    BY <1>9 DEF ScanSlot, Recheck, Kill, KillSelf, Loop
  <2>2. CASE NextSlot(p)
    BY <1>8, <2>1, <2>2
  <2>3. CASE ~NextSlot(p)
    BY <1>0, <1>9, <2>1, <2>3, <1>a DEF ScanSlot, Recheck, Kill, KillSelf, Loop
  <2> QED
    BY <2>2, <2>3
<1> QED
  BY <1>1, <1>2, <1>3, <1>4, <1>5, <1>6, <1>7, <1>9 DEF Next, User, Step, Work

\* What is old stays old.
LEMMA OldStays ==
    ASSUME Base, [Next]_vars, NEW m \in Messages, NEW i \in Slots, Old(m, i)
    PROVE  Old(m, i)'
<1>1. m.from \in Proc /\ m.n \in Int
  BY DEF Messages
<1>2. ncmd[m.from] \in Int
  BY <1>1 DEF Base, Types
<1>3. \/ ncmd'[m.from] = ncmd[m.from] /\ (Ahead(m.from, i)' => Ahead(m.from, i))
      \/ ncmd'[m.from] = ncmd[m.from] + 1
  BY <1>1, AheadNext
<1> QED
  BY <1>1, <1>2, <1>3 DEF Old

\* The message a process has handed over is old for the slot it has passed.
LEMMA PassedIsOld ==
    ASSUME Base, SendInv, NEW p \in Proc, pc[p] \in Loop, NextSlot(p),
           UNCHANGED <<msg, ncmd>>
    PROVE  \A i \in Slots : i = idx[p] => Old(msg[p], i)'
<1>a. /\ pc \in [Proc -> Alive \cup {"off", "done", "crashed"}]
      /\ idx \in [Proc -> 0..(max_client_num + 1)]
      /\ ncmd \in [Proc -> 0..(MaxCmds + 2)]
  BY DEF Base, Types
<1>1. msg[p].n = ncmd[p] /\ msg[p].from = p
  BY DEF SendInv
<1> SUFFICES ASSUME NEW i \in Slots, i = idx[p] PROVE Old(msg[p], i)'
  OBVIOUS
<1>2. i \in Int /\ ncmd[p] \in Int
  BY <1>a DEF Slots
<1>3. ~Ahead(p, i)'
  <2>1. CASE msg[p].kind = "tell"
    BY <2>1, <1>a DEF NextSlot, Ahead, Loop
  <2>2. CASE msg[p].kind # "tell"
    BY <2>2, <1>a, <1>2 DEF NextSlot, Ahead
  <2> QED
    BY <2>1, <2>2
<1> QED
  BY <1>1, <1>2, <1>3 DEF Old

\* A step that writes at most one message, w, to at most one client, that of
\* p; fills no mailbox and signals nobody.
LEMMA SeenWrite ==
    ASSUME Base, SeenInv, SenderOrder, [Next]_vars,
           UNCHANGED <<mailbox, id>>,
           \A r \in Proc : sig'[r] => sig[r],
           NEW p \in Proc, NEW w,
           \A r \in Proc \ {p} : shown'[r] = shown[r],
           shown'[p] \subseteq shown[p] \cup {w},
           w \in shown'[p] \ shown[p] => Old(w, id[p])',
           w \in shown'[p] \ shown[p] => w.from = p \/ ~sig'[p]
    PROVE  SeenInv' /\ SenderOrder'
<1>a. /\ id \in [Proc -> Slots] /\ shown \in [Proc -> SUBSET Messages]
      /\ mailbox \in [Slots -> Messages \cup {NoMsg}]
  BY DEF Base, Types
<1>1. \A q \in Proc : \A m \in shown[q] : Old(m, id[q])'
  <2> SUFFICES ASSUME NEW q \in Proc, NEW m \in shown[q] PROVE Old(m, id[q])'
    OBVIOUS
  <2>1. PICK i \in Slots : i = id[q] /\ i = id'[q]
    BY <1>a
  <2>2. m \in Messages /\ Old(m, i)
    BY <1>a, <2>1 DEF SeenInv
  <2> QED
    BY <2>1, <2>2, OldStays DEF Old
<1>2. \A q \in Proc : \A m \in shown'[q] : Old(m, id[q])'
  BY <1>1
<1>3. \A q \in Proc : sig'[q] =>
         mailbox'[id'[q]].from # q /\ Old(mailbox[id[q]], id[q])'
  <2> SUFFICES ASSUME NEW q \in Proc, sig'[q]
               PROVE  mailbox'[id'[q]].from # q /\ Old(mailbox[id[q]], id[q])'
    OBVIOUS
  <2>1. PICK i \in Slots, m \in Messages : i = id[q] /\ m = mailbox[i]
    BY <1>a DEF Base, MailInv
  <2>2. m.from # q /\ Old(m, i)
    BY <2>1 DEF SeenInv
  <2> QED
    BY <2>1, <2>2, OldStays DEF Old
<1>4. SeenInv'
  BY <1>2, <1>3 DEF SeenInv
<1>5. SenderOrder'
  <2> SUFFICES ASSUME NEW q \in Proc, sig'[q], NEW m \in shown'[q],
                      m.from = mailbox[id[q]].from
               PROVE  m.n < mailbox[id[q]].n
    BY DEF SenderOrder
  <2>1. mailbox[id[q]].from # q
    BY DEF SeenInv
  <2>2. m \in shown[q]
    BY <2>1
  <2> QED
    BY <2>2 DEF SenderOrder
<1> QED
  BY <1>4, <1>5

\* Every step shows messages in the order of their sender: what a signal makes
\* the handler show is newer than all it has shown of that sender.
LEMMA SeenNext ==
    Base /\ OneHolder /\ SendInv /\ SeenInv /\ SenderOrder /\ [Next]_vars
        => SeenInv' /\ SenderOrder'
<1> SUFFICES ASSUME Base, OneHolder, SendInv, SeenInv, SenderOrder, [Next]_vars
             PROVE  SeenInv' /\ SenderOrder'
  OBVIOUS
<1> DEFINE Goal == SeenInv' /\ SenderOrder'
<1>a. /\ pc \in [Proc -> Alive \cup {"off", "done", "crashed"}]
      /\ id \in [Proc -> Slots] /\ idx \in [Proc -> 0..(max_client_num + 1)]
      /\ sig \in [Proc -> BOOLEAN] /\ shown \in [Proc -> SUBSET Messages]
  BY DEF Base, Types
<1>b. /\ mailbox \in [Slots -> Messages \cup {NoMsg}]
      /\ msg \in [Proc -> Messages] /\ ncmd \in [Proc -> 0..(MaxCmds + 2)]
      /\ pid \in [Slots -> Proc \cup {Server}]
  BY DEF Base, Types
<1>0. ASSUME UNCHANGED <<mailbox, id, shown>>,
             \A r \in Proc : sig'[r] => sig[r]
      PROVE  Goal
  <2>1. CASE Proc = {}
    BY <2>1 DEF SeenInv, SenderOrder
  <2>2. CASE Proc # {}
    <3>1. PICK p : p \in Proc
      BY <2>2
    <3> QED
      BY <1>0, <3>1, SeenWrite
  <2> QED
    BY <2>1, <2>2
<1>1. CASE UNCHANGED vars
  BY <1>0, <1>1 DEF vars, client_list, proc_vars
<1>2. CASE ServerWait \/ ServerSpin
  BY <1>0, <1>2 DEF ServerWait, ServerSpin, client_list, proc_vars
<1>3. ASSUME NEW p \in Proc,
             \/ Accept(p) \/ cmd_yell(p) \/ Exit(p) \/ HangUp(p)
             \/ (\E t \in TellIds : cmd_tell(p, t))
             \/ \E nm \in NickNames : cmd_name(p, nm)
       PROVE  Goal
  BY <1>0, <1>3 DEF Accept, cmd_yell, cmd_tell, cmd_name, Exit, HangUp,
         client_list
<1>4. ASSUME NEW p \in Proc,
             \/ LoginDone(p) \/ ScanOther(p) \/ Recheck(p) \/ EndBroadcast(p)
             \/ CompareName(p) \/ SetName(p) \/ Logout(p) \/ Crash(p)
       PROVE  Goal
  BY <1>0, <1>4, <1>a DEF LoginDone, ScanOther, Recheck, EndBroadcast,
         CompareName, SetName, Logout, Crash, client_list
<1>5. ASSUME NEW p \in Proc, Login(p)
       PROVE  Goal
  <2>1. shown[p] = {} /\ ~sig[p]
    BY <1>5 DEF Login, SendInv, Base, PcInv
  <2>2. /\ UNCHANGED <<mailbox, shown, sig>>
        /\ \A r \in Proc \ {p} : id'[r] = id[r]
    BY <1>5, <1>a DEF Login
  <2>3. \A q \in Proc \ {p} : \A m \in Messages : Old(m, id[q]) => Old(m, id[q])'
    <3> SUFFICES ASSUME NEW q \in Proc \ {p}, NEW m \in Messages, Old(m, id[q])
                 PROVE  Old(m, id[q])'
      OBVIOUS
    <3>1. PICK i \in Slots : i = id[q] /\ i = id'[q]
      BY <1>a, <2>2
    <3> QED
      BY <3>1, OldStays DEF Old
  <2>4. \A q \in Proc : sig[q] => mailbox[id[q]] \in Messages
    BY DEF Base, MailInv
  <2>5. SeenInv'
    <3>1. \A q \in Proc : \A m \in shown'[q] : Old(m, id[q])'
      BY <1>a, <2>1, <2>2, <2>3 DEF SeenInv
    <3>2. \A q \in Proc : sig'[q] =>
             mailbox'[id'[q]].from # q /\ Old(mailbox[id[q]], id[q])'
      <4> SUFFICES ASSUME NEW q \in Proc, sig[q]
                   PROVE  mailbox'[id'[q]].from # q /\ Old(mailbox[id[q]], id[q])'
        BY <2>2
      <4>1. q # p /\ id'[q] = id[q] /\ mailbox' = mailbox
        BY <2>1, <2>2
      <4>2. PICK m \in Messages : m = mailbox[id[q]]
        BY <2>4
      <4>3. m.from # q /\ Old(m, id[q])'
        BY <2>3, <4>1, <4>2 DEF SeenInv
      <4> QED
        BY <4>1, <4>2, <4>3 DEF Old
    <3> QED
      BY <3>1, <3>2 DEF SeenInv
  <2>6. SenderOrder'
    BY <2>1, <2>2 DEF SenderOrder
  <2> QED
    BY <2>5, <2>6
<1>6. ASSUME NEW p \in Proc, print_welcome_msg(p)
       PROVE  Goal
  <2>1. ncmd'[p] = 1
    BY <1>6, <1>b DEF print_welcome_msg, StartBroadcast, Base, NcmdInv
  <2>2. Old(Welcome(p), id[p])'
    BY <2>1 DEF Old, Welcome
  <2>3. /\ UNCHANGED <<mailbox, id, sig>>
        /\ \A r \in Proc \ {p} : shown'[r] = shown[r]
        /\ shown'[p] \subseteq shown[p] \cup {Welcome(p)}
    BY <1>6, <1>a DEF print_welcome_msg, write, client_list
  <2>4. Welcome(p).from = p
    BY DEF Welcome
  <2> QED
    BY <2>2, <2>3, <2>4, SeenWrite
<1>7. ASSUME NEW p \in Proc, ScanSlot(p)
       PROVE  Goal
  <2>1. CASE UNCHANGED shown
    BY <1>0, <1>7, <2>1 DEF ScanSlot
  <2>2. CASE idx[p] = id[p] /\ write(p, msg[p])
    <3>1. PICK w : w = msg[p]
      OBVIOUS
    <3>2. w.from = p
      BY <1>7, <3>1 DEF ScanSlot, SendInv, Loop
    <3>3. /\ UNCHANGED <<mailbox, id, sig, msg>>
          /\ \A r \in Proc \ {p} : shown'[r] = shown[r]
          /\ shown'[p] \subseteq shown[p] \cup {w}
      BY <1>7, <2>2, <3>1, <1>a DEF ScanSlot, write
    <3>4. PICK i \in Slots : i = id[p] /\ i = id'[p]
      BY <3>3, <1>a
    <3>5. Old(msg[p], i)'
      BY <1>7, <2>2, <3>4, PassedIsOld DEF ScanSlot, Loop
    <3>6. Old(w, id[p])'
      BY <3>1, <3>3, <3>4, <3>5 DEF Old
    <3> QED
      BY <3>2, <3>3, <3>6, SeenWrite
  <2> QED
    BY <1>7, <2>1, <2>2 DEF ScanSlot
\* Nobody has been signalled to show the mailbox that is filled.
<1>8. ASSUME NEW p \in Proc, SemWait(p)
       PROVE  Goal
  <2>1. PICK j \in Slots : j = idx[p]
    BY <1>8 DEF SemWait, Base, PcInv
  <2>2. \A q \in Proc : sig[q] => id[q] # j
    BY <1>8, <2>1 DEF SemWait, SlotFree, OneHolder, Signalled
  <2>3. /\ UNCHANGED <<id, sig, shown>>
        /\ \A i \in Slots \ {j} : mailbox'[i] = mailbox[i]
    BY <1>8, <2>1, <1>b DEF SemWait
  <2>4. \A q \in Proc : sig[q] => mailbox'[id[q]] = mailbox[id[q]]
    BY <2>2, <2>3, <1>a
  <2>5. \A q \in Proc : \A m \in Messages : Old(m, id[q]) => Old(m, id[q])'
    <3> SUFFICES ASSUME NEW q \in Proc, NEW m \in Messages, Old(m, id[q])
                 PROVE  Old(m, id[q])'
      OBVIOUS
    <3>1. PICK i \in Slots : i = id[q] /\ i = id'[q]
      BY <1>a, <2>3
    <3> QED
      BY <3>1, OldStays DEF Old
  <2>6. SeenInv'
    <3>1. \A q \in Proc : \A m \in shown'[q] : Old(m, id[q])'
      BY <1>a, <2>3, <2>5 DEF SeenInv
    <3>2. \A q \in Proc : sig'[q] =>
             mailbox'[id'[q]].from # q /\ Old(mailbox[id[q]], id[q])'
      <4> SUFFICES ASSUME NEW q \in Proc, sig[q]
                   PROVE  mailbox'[id'[q]].from # q /\ Old(mailbox[id[q]], id[q])'
        BY <2>3
      <4>2. PICK m \in Messages : m = mailbox[id[q]] /\ m = mailbox'[id'[q]]
        BY <2>3, <2>4 DEF Base, MailInv
      <4>3. m.from # q /\ Old(m, id[q])'
        BY <2>5, <4>2 DEF SeenInv
      <4> QED
        BY <4>2, <4>3 DEF Old
    <3> QED
      BY <3>1, <3>2 DEF SeenInv
  <2>7. SenderOrder'
    BY <2>3, <2>4 DEF SenderOrder
  <2> QED
    BY <2>6, <2>7
\* The signal: the mailbox has the message of p, which nobody in the slot has
\* seen, nor any later one of p.
<1>9. ASSUME NEW p \in Proc, Kill(p)
       PROVE  Goal
  <2>1. PICK j \in Slots : j = idx[p]
    BY <1>9 DEF Kill, Base, PcInv
  <2>2. PICK m \in Messages : m = msg[p] /\ m = mailbox[j]
    BY <1>9, <2>1, <1>b DEF Kill, SendInv
  <2>3. m.n = ncmd[p] /\ m.from = p /\ Ahead(p, j) /\ m.n \in Int
    <3>1. m.n = ncmd[p] /\ m.from = p
      BY <1>9, <2>2, ZenonT(30) DEF Kill, SendInv, Loop
    <3>2. j <= j
      BY DEF Slots
    <3>3. Ahead(p, j)
      BY <1>9, <2>1, <3>2 DEF Kill, Ahead, Loop
    <3> QED
      BY <3>1, <3>3, <1>b
  <2>4. UNCHANGED <<mailbox, id, shown, msg>>
    BY <1>9 DEF Kill
  <2>5. \A q \in Proc : sig'[q] => sig[q] \/ (q = pid[j] /\ q # p /\ id[q] = j)
    BY <1>9, <2>1, <1>a DEF Kill, Base, MailInv
  <2>6. Old(m, j)'
    <3>1. Old(msg[p], j)'
      BY <1>9, <2>1, PassedIsOld DEF Kill, Loop
    <3> QED
      BY <3>1, <2>2, <2>4 DEF Old
  <2>7. \A q \in Proc : \A v \in Messages : Old(v, id[q]) => Old(v, id[q])'
    <3> SUFFICES ASSUME NEW q \in Proc, NEW v \in Messages, Old(v, id[q])
                 PROVE  Old(v, id[q])'
      OBVIOUS
    <3>1. PICK i \in Slots : i = id[q] /\ i = id'[q]
      BY <1>a, <2>4
    <3> QED
      BY <3>1, OldStays DEF Old
  <2>8. SeenInv'
    <3>1. \A q \in Proc : \A v \in shown'[q] : Old(v, id[q])'
      BY <1>a, <2>4, <2>7 DEF SeenInv
    <3>2. \A q \in Proc : sig'[q] =>
             mailbox'[id'[q]].from # q /\ Old(mailbox[id[q]], id[q])'
      <4> SUFFICES ASSUME NEW q \in Proc, sig'[q]
                   PROVE  mailbox'[id'[q]].from # q /\ Old(mailbox[id[q]], id[q])'
        OBVIOUS
      <4>1. CASE sig[q]
        <5>1. PICK v \in Messages : v = mailbox[id[q]] /\ v = mailbox'[id'[q]]
          BY <2>4, <4>1 DEF Base, MailInv
        <5>2. v.from # q /\ Old(v, id[q])'
          BY <2>7, <4>1, <5>1 DEF SeenInv
        <5> QED
          BY <5>1, <5>2 DEF Old
      <4>2. CASE q # p /\ id[q] = j
        <5>1. m = mailbox'[id'[q]] /\ id'[q] = j /\ m.from # q
          BY <2>2, <2>3, <2>4, <4>2
        <5> QED
          BY <5>1, <2>6 DEF Old
      <4> QED
        BY <2>5, <4>1, <4>2
    <3> QED
      BY <3>1, <3>2 DEF SeenInv
  <2>9. SenderOrder'
    <3> SUFFICES ASSUME NEW q \in Proc, sig'[q], NEW v \in shown[q],
                        v.from = mailbox[id[q]].from
                 PROVE  v.n < mailbox[id[q]].n
      BY <2>4 DEF SenderOrder
    <3>1. CASE sig[q]
      BY <3>1 DEF SenderOrder
    <3>2. CASE id[q] = j
      <4>1. Old(v, j)
        BY <3>2 DEF SeenInv
      <4> QED
        BY <3>2, <4>1, <2>2, <2>3 DEF Old
    <3> QED
      BY <2>5, <3>1, <3>2
  <2> QED
    BY <2>8, <2>9
<1>10. ASSUME NEW p \in Proc, KillSelf(p)
       PROVE  Goal
  <2>1. PICK j \in Slots : j = idx[p] /\ j = id[p]
    BY <1>10 DEF KillSelf, Base, PcInv, MailInv
  <2>2. PICK w : w = msg[p] /\ w = mailbox[id[p]]
    <3>1. mailbox[idx[p]] = msg[p]
      BY <1>10 DEF KillSelf, SendInv
    <3> QED
      BY <2>1, <3>1
  <2>3. w.from = p
    BY <1>10, <2>2 DEF KillSelf, SendInv, Loop
  <2>4. /\ UNCHANGED <<mailbox, id, sig, msg>>
        /\ \A r \in Proc \ {p} : shown'[r] = shown[r]
        /\ shown'[p] \subseteq shown[p] \cup {w}
    BY <1>10, <2>2, <1>a DEF KillSelf, write
  <2>5. Old(msg[p], j)'
    BY <1>10, <2>1, PassedIsOld DEF KillSelf, Loop
  <2>6. Old(w, id[p])'
    BY <2>1, <2>2, <2>4, <2>5 DEF Old
  <2> QED
    BY <2>3, <2>4, <2>6, SeenWrite
<1>11. ASSUME NEW p \in Proc, msg_handler(p)
       PROVE  Goal
  <2>1. PICK w \in Messages : w = mailbox[id[p]]
    BY <1>11 DEF msg_handler, Base, MailInv
  <2>2. /\ UNCHANGED <<mailbox, id>>
        /\ ~sig'[p] /\ \A r \in Proc : sig'[r] => sig[r]
        /\ \A r \in Proc \ {p} : shown'[r] = shown[r]
        /\ shown'[p] \subseteq shown[p] \cup {w}
    BY <1>11, <2>1, <1>a DEF msg_handler, write
  <2>3. PICK j \in Slots : j = id[p] /\ j = id'[p]
    BY <2>2, <1>a
  <2>4. Old(w, j)
    BY <1>11, <2>1, <2>3 DEF msg_handler, SeenInv
  <2>5. Old(w, id[p])'
    BY <2>3, <2>4, OldStays DEF Old
  <2> QED
    BY <2>2, <2>5, SeenWrite
<1> QED
  BY <1>1, <1>2, <1>3, <1>4, <1>5, <1>6, <1>7, <1>8, <1>9, <1>10, <1>11
     DEF Next, User, Step, Work

(***************************************************************************)
(* The theorems.                                                           *)
(***************************************************************************)

\* The base layer is an invariant.
THEOREM BaseInvariant == Spec => []Base
BY BaseInit, BaseNext, PTL DEF Spec

\* At most one process holds the semaphore of a slot, whichever messages are
\* sent, whoever leaves and whoever is killed.
THEOREM HandOver == Spec => []OneHolder
<1>1. Init => OneHolder
  BY DEF Init, OneHolder, Sending, Signalled, Slots
<1> QED
  BY <1>1, HolderNext, BaseInvariant, PTL DEF Spec

\* Login and logout exclude each other.
THEOREM Lock2Excludes == Spec => []OneInLock2
<1>1. Base => OneInLock2
  BY DEF Base, LockInv
<1> QED
  BY <1>1, BaseInvariant, PTL

\* client_num is the number of registered processes.
THEOREM CountIsExact == Spec => []ClientNumExact
<1>1. Init => ClientNumExact
  <2>1. Init => Registered = {} /\ client_num = 0
    BY DEF Init, Registered
  <2> QED
    BY <2>1, FS_EmptySet DEF ClientNumExact
<1> QED
  BY <1>1, CountNext, BaseInvariant, PTL DEF Spec

\* The server never has more than max_client_num users.
THEOREM NeverOverfull == Spec => []Capacity
<1>1. Init => ServerInv
  BY DEF Init, ServerInv
<1>2. ServerInv => Capacity
  BY DEF ServerInv, Capacity
<1> QED
  BY <1>1, <1>2, ServerNext, BaseInvariant, PTL DEF Spec

\* Every variable keeps its type.
THEOREM TypeCorrect == Spec => []TypeOK
<1>1. Base /\ ClientNumExact => TypeOK
  BY RegisteredFinite, FS_CardinalityType
     DEF Base, Types, ClientNumExact, TypeOK
<1> QED
  BY <1>1, BaseInvariant, CountIsExact, PTL

\* No id is skipped at a login, whoever came and went before, and without
\* regard to who reads the table meanwhile.
THEOREM IdsAreGivenInOrder == Spec => NoIdSkipped
<1>1. Init => LowInUse
  BY DEF Init, LowInUse, Ids
<1>2. Base /\ LowInUse /\ [Next]_vars =>
         \A p \in Proc : id[p] = 0 /\ id'[p] # 0
            => \A i \in Ids : i < id'[p] => state[i]
  <2> SUFFICES ASSUME Base, LowInUse, [Next]_vars,
                      NEW p \in Proc, id[p] = 0, id'[p] # 0,
                      NEW i \in Ids, i < id'[p]
               PROVE  state[i]
    OBVIOUS
  <2>1. id'[p] = min_id
    BY IdFromLogin
  <2> QED
    BY <2>1 DEF LowInUse
<1> QED
  BY <1>1, <1>2, LowNext, BaseInvariant, PTL DEF Spec, NoIdSkipped

\* "Your server should always assign the smallest unused id to a new user": it
\* does as long as the table never fills up. A full table is thus the only cause
\* of the id that is given twice.
THEOREM SmallestUnlessFull == Spec /\ [](FreeIds # {}) => SmallestUnusedId
<1>1. Init => MinFree
  <2>1. 1 \in Slots /\ ~(1 = 0)
    BY DEF Slots
  <2>2. Init => state[1] = (1 = 0) /\ min_id = 1
    BY <2>1 DEF Init
  <2> QED
    BY <2>1, <2>2 DEF MinFree
<1>2. Base /\ MinFree /\ LowInUse /\ [Next]_vars =>
         [\A p \in Proc : id[p] = 0 /\ id'[p] # 0
            => ~state[id'[p]] /\ \A i \in Ids : i < id'[p] => state[i]]_vars
  <2> SUFFICES ASSUME Base, MinFree, LowInUse, [Next]_vars,
                      NEW p \in Proc, id[p] = 0, id'[p] # 0
               PROVE  ~state[id'[p]] /\ \A i \in Ids : i < id'[p] => state[i]
    OBVIOUS
  <2>1. id'[p] = min_id /\ lock2 = 1
    BY IdFromLogin
  <2> QED
    BY <2>1 DEF LowInUse, MinFree
<1>3. Init => LowInUse
  BY DEF Init, LowInUse, Ids
<1> QED
  BY <1>1, <1>2, <1>3, MinFreeNext, LowNext, BaseInvariant, PTL
     DEF Spec, SmallestUnusedId

\* The semaphore of a slot is posted, or a living process is going to post it,
\* or it went with a process that has left: whatever is sent and whoever dies,
\* no hand-over between processes that stay loses it.
THEOREM OnlyLeavingLoses == Spec => []LostByLeaving
<1>1. Init => PidInv /\ LostByLeaving
  <2>1. Init => PidInv
    <3>1. \A i \in Ids : i \in Slots /\ i # 0
      BY DEF Ids, Slots
    <3>2. Init => (\A i \in Ids : ~state[i]) /\ \A p \in Proc : pc[p] # "kill"
      BY <3>1 DEF Init
    <3> QED
      BY <3>2 DEF PidInv
  <2>2. Init => \A i \in Ids : sem[i] = 1
    BY DEF Init, Ids, Slots
  <2> QED
    BY <2>1, <2>2 DEF LostByLeaving
<1> QED
  BY <1>1, PidNext, LostNext, BaseInvariant, PTL DEF Spec

\* Whatever a handler is about to show is newer than all its client has seen
\* of that sender: no message is shown twice, none overtakes another and none
\* is overwritten in the mailbox after its signal.
THEOREM MessagesInOrder == Spec => []SenderOrder
<1>1. Init => SendInv /\ SeenInv /\ SenderOrder
  BY DEF Init, SendInv, SeenInv, SenderOrder, Loop
<1> QED
  BY <1>1, SendNext, SeenNext, HandOver, BaseInvariant, PTL DEF Spec
=============================================================================
