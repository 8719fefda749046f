-------------------------- MODULE CrossPipe_proofs --------------------------
(***************************************************************************)
(* Proofs about CrossPipe, for every size of the table, every limit on the *)
(* descriptors that leaves a slot free, and every sequence of lines. The   *)
(* invariant IInv says that the table is sound and that the descriptors    *)
(* the shell has open bound the slots that wait; Traces adds what the      *)
(* lines that ran have left behind.                                        *)
(***************************************************************************)
EXTENDS CrossPipe, FiniteSetTheorems, TLAPS

\* The types of the table, of the descriptors and of what is observed.
TableTypes ==
    /\ count \in [Slots -> {-1} \cup 1..MaxCross]
    /\ pipe \in [Slots -> 0..MaxLine]
    /\ output_point \in Slots \cup {-1}
    /\ min_input_point \in Slots
    /\ record \in SUBSET Slots
    /\ freed \in BOOLEAN
    /\ pc \in {"prompt", "run", "spin", "exit", "abort"}
OutTypes ==
    /\ made \in 0..MaxLine
    /\ line \in 0..MaxLine
    /\ fed \in [Pipes -> SUBSET (1..MaxLine)]
    /\ writers \in [Pipes -> SUBSET (1..MaxLine)]
    /\ unset \in SUBSET (1..MaxLine)
    /\ got \in SUBSET (1..MaxLine)

\* The number of the next pipe is not in use, and there is one for every line.
Fresh ==
    /\ open \subseteq 1..made
    /\ made <= line
    /\ pc = "run" => made < line

\* The open pipes fit in the descriptors.
Descriptors ==
    /\ IsFiniteSet(open)
    /\ 2 * Cardinality(open) <= FdLimit

\* While a line runs, the record is up to date, and the pipe the line reads
\* is open and out of the table.
Current ==
    pc \in {"run", "spin"} =>
        /\ record = Waiting
        /\ output_point >= 0 =>
              /\ output_point \notin Waiting
              /\ pipe[output_point] \in open
              /\ \A i \in Waiting : pipe[i] # pipe[output_point]

IInv == TableTypes /\ OutTypes /\ Fresh /\ Descriptors /\ TableSound /\ Current

-----------------------------------------------------------------------------
USE TableAssumption, FdAssumption, BoundAssumption, FormAssumption

\* The empty table is sound (initial_fd_infor_list).
LEMMA InitInv == Init => IInv
<1> SUFFICES ASSUME Init PROVE IInv
    OBVIOUS
<1>1. TableTypes
  <2>1. 0 \in Slots
    BY DEF Slots
  <2>2. count \in [Slots -> {-1} \cup 1..MaxCross]
    BY DEF Init
  <2>3. pipe \in [Slots -> 0..MaxLine]
    BY DEF Init
  <2> QED BY <2>1, <2>2, <2>3 DEF Init, TableTypes
<1>2. OutTypes
    BY DEF Init, OutTypes, Pipes
<1>3. Fresh
    BY DEF Init, Fresh
<1>4. Descriptors
    BY FS_EmptySet DEF Init, Descriptors
<1>5. Waiting = {}
    BY DEF Init, Waiting
<1>6. TableSound
    BY <1>5 DEF Init, TableSound, Slots
<1>7. Current
    BY DEF Init, Current
<1> QED BY <1>1, <1>2, <1>3, <1>4, <1>6, <1>7 DEF IInv

\* A line that counts down keeps the table sound: at most one pipe comes due,
\* and its slot is the next to be used if it is the smallest free one
\* (count_down_and_check).
LEMMA ReadLineInv == ASSUME IInv, ReadLine PROVE IInv'
<1> USE DEF IInv
<1>1. \A i \in Slots : count'[i] = CountDown(i)
    BY DEF ReadLine
<1>2. \A i \in Slots : /\ count[i] \in Int
                       /\ count[i] > 1 => count'[i] = count[i] - 1
                       /\ count[i] <= 1 => count'[i] = -1
    BY <1>1 DEF TableTypes, CountDown
<1>3. Waiting' = {i \in Slots : count[i] > 1}
    BY <1>2 DEF Waiting
<1>4. \A i, j \in Due : i = j
    BY DEF ReadLine, Due, TableSound, Waiting, TableTypes
<1>5. /\ output_point' \in Slots \cup {-1}
      /\ min_input_point' \in Slots
      /\ \/ Due = {} /\ output_point' = -1 /\ min_input_point' = min_input_point
         \/ /\ output_point' \in Due
            /\ \/ min_input_point' = output_point'
                  /\ output_point' < min_input_point
               \/ min_input_point' = min_input_point
                  /\ output_point' >= min_input_point
    BY DEF ReadLine, Due, LowerPoint, TableTypes, Slots
<1>6. TableTypes'
  <2>1. count' \in [Slots -> {-1} \cup 1..MaxCross]
    BY DEF ReadLine, TableTypes, CountDown
  <2>2. UNCHANGED pipe /\ record' \in SUBSET Slots /\ freed' = FALSE /\ pc' = "run"
    BY DEF ReadLine
  <2> QED BY <1>5, <2>1, <2>2 DEF TableTypes
<1>7. OutTypes' /\ Fresh' /\ Descriptors'
    BY DEF ReadLine, OutTypes, Fresh, Descriptors
<1>8. TableSound'
  <2>1. TableSound!2
    BY DEF TableSound, ReadLine
  <2>2. Waiting' \subseteq Waiting /\ Waiting \ Waiting' = Due
    BY <1>2, <1>3 DEF Waiting, Due
  <2>3. UNCHANGED <<pipe, open>>
    BY DEF ReadLine
  <2>4. \A i, j \in Waiting' : count'[i] = count'[j] \/ pipe'[i] = pipe'[j] => i = j
    BY <1>2, <1>3, <2>1, <2>2, <2>3
  <2>5. \A i \in Waiting' : pipe'[i] \in open'
    BY <2>1, <2>2, <2>3
  <2>6. min_input_point' \notin Waiting'
    BY <1>5, <2>1, <2>2
  <2>7. \A i \in Slots : i < min_input_point' => i \in Waiting'
    <3> SUFFICES ASSUME NEW i \in Slots, i < min_input_point'
                 PROVE  i \in Waiting'
      OBVIOUS
    <3>1. min_input_point \in Int /\ min_input_point' \in Int /\ i \in Int
      BY <1>6 DEF TableTypes, Slots
    <3>2. i < min_input_point /\ i \notin Due
      BY <1>4, <1>5, <3>1
    <3> QED BY <2>1, <2>2, <3>2
  <2> QED BY <2>4, <2>5, <2>6, <2>7 DEF TableSound
<1>9. Current'
  <2>1. pc = "prompt" /\ record' = Waiting' /\ UNCHANGED <<pipe, open>>
    BY <1>3 DEF ReadLine
  <2>2. ASSUME output_point' >= 0
        PROVE  /\ output_point' \notin Waiting'
               /\ pipe'[output_point'] \in open'
               /\ \A i \in Waiting' : pipe'[i] # pipe'[output_point']
    <3>1. output_point' \in Due
      BY <1>5, <2>2
    <3>2. output_point' \in Waiting /\ output_point' \notin Waiting' /\ Waiting' \subseteq Waiting
      BY <1>2, <1>3, <3>1 DEF Due, Waiting
    <3> QED BY <2>1, <3>2 DEF TableSound
  <2> QED BY <2>1, <2>2 DEF Current
<1> QED BY <1>6, <1>7, <1>8, <1>9

\* The lines that are not commands leave the table as it is (check_cmd,
\* env_setting, cmd_who, cmd_name, the failed ">", "exit", byte 4, and pipe()
\* that finds no descriptor).
LEMMA QuietInv ==
    ASSUME IInv, UNCHANGED <<count, pipe, output_point, min_input_point, record>>,
           UNCHANGED <<made, fed, line, writers, unset, got>>, freed' \in BOOLEAN,
           \/ pc = "run" /\ UNCHANGED open /\ pc' \in {"prompt", "spin"}
           \/ open' = {} /\ pc' \in {"exit", "abort"}
    PROVE  IInv'
<1> USE DEF IInv
<1>1. TableTypes' /\ OutTypes'
    BY DEF TableTypes, OutTypes
<1>2. Waiting' = Waiting
    BY DEF Waiting
<1>3. Fresh' /\ TableSound' /\ Current'
    BY <1>2 DEF Fresh, TableSound, Current
<1>4. Descriptors'
    BY FS_EmptySet DEF Descriptors
<1> QED BY <1>1, <1>3, <1>4

\* A table whose waiting slots have pipes of their own, all of them open, has
\* a free slot: there are not enough descriptors to fill it (the comment on
\* fd_infor_list_size).
LEMMA FreeSlot ==
    ASSUME NEW S, IsFiniteSet(S), 2 * Cardinality(S) <= FdLimit,
           NEW f \in [Slots -> S], \A i, j \in Slots : f[i] = f[j] => i = j
    PROVE  FALSE
<1>1. f \in Injection(Slots, S)
    BY DEF Injection, IsInjective
<1>2. Cardinality(Slots) <= Cardinality(S)
    BY <1>1, FS_Injection
<1>3. Cardinality(Slots) = fd_infor_list_size
    BY FS_Interval DEF Slots
<1>4. Cardinality(S) \in Nat
    BY FS_CardinalityType
<1> QED BY <1>2, <1>3, <1>4

\* Closing the pipe that is due leaves the others (connect_pipe_to_first_process).
LEMMA AfterFirstFacts ==
    ASSUME IInv, pc = "run"
    PROVE  /\ AfterFirst \subseteq open
           /\ IsFiniteSet(AfterFirst)
           /\ Cardinality(AfterFirst) \in Nat
           /\ Cardinality(open) \in Nat
           /\ Cardinality(AfterFirst) <= Cardinality(open)
           /\ \A i \in Waiting : pipe[i] \in AfterFirst
<1> USE DEF IInv
<1>1. AfterFirst \in SUBSET open
    BY DEF AfterFirst
<1>2. /\ IsFiniteSet(AfterFirst)
      /\ Cardinality(AfterFirst) <= Cardinality(open)
    BY <1>1, FS_Subset DEF Descriptors
<1>3. Cardinality(AfterFirst) \in Nat /\ Cardinality(open) \in Nat
    BY <1>2, FS_CardinalityType DEF Descriptors
<1>4. \A i \in Waiting : pipe[i] \in AfterFirst
    BY DEF AfterFirst, DuePipe, TableSound, Current
<1> QED BY <1>1, <1>2, <1>3, <1>4

\* A command that makes a new pipe keeps the invariant: the pipe goes to a free
\* slot, with a count no other slot has, and a free slot is left for the next
\* (update_cross_pipe_fd).
LEMMA NewPipeInv ==
    ASSUME IInv, NEW f \in Commands, NEW k \in 0..MaxCross,
           Command(f, k), IsNew(k)
    PROVE  IInv'
<1> USE DEF IInv
<1>1. pc = "run" /\ pc' = "prompt" /\ CanOpen(f, k)
    BY DEF Command, Typed
<1>2. /\ made' = made + 1
      /\ open' = AfterFirst \cup {made'}
      /\ fed' = [fed EXCEPT ![made'] = {line}]
      /\ count' = [count EXCEPT ![min_input_point] = k]
      /\ pipe' = [pipe EXCEPT ![min_input_point] = made']
      /\ NextPoint
    BY DEF Command, update_cross_pipe_fd
<1>3. UNCHANGED <<output_point, record, line>> /\ freed' \in BOOLEAN
    BY DEF Command
<1>4. k \in 1..MaxCross /\ \A i \in Waiting : count[i] # k
    BY <1>1 DEF IsNew, Same, Current
<1>5. /\ made' \in 1..MaxLine /\ made' <= line /\ line \in 1..MaxLine
      /\ \A x \in open : x \in 1..made /\ x # made'
    BY <1>1, <1>2 DEF Fresh, OutTypes
<1>6. /\ min_input_point \in Slots /\ min_input_point \notin Waiting
      /\ \A i \in Waiting : pipe[i] \in open
    BY <1>1 DEF TableSound, TableTypes
<1>7. /\ Waiting' = Waiting \cup {min_input_point}
      /\ count'[min_input_point] = k /\ pipe'[min_input_point] = made'
      /\ \A i \in Slots \ {min_input_point} :
            count'[i] = count[i] /\ pipe'[i] = pipe[i]
    BY <1>2, <1>4, <1>6 DEF Waiting, TableTypes
<1>8. \A i, j \in Waiting' : count'[i] = count'[j] \/ pipe'[i] = pipe'[j] => i = j
    BY <1>1, <1>4, <1>5, <1>6, <1>7 DEF TableSound, Waiting
<1>9. \A i \in Waiting' : pipe'[i] \in open'
    BY <1>1, <1>2, <1>6, <1>7, AfterFirstFacts DEF Waiting
<1>10. Descriptors'
  <2>0. IsFiniteSet(AfterFirst) /\ Cardinality(AfterFirst) \in Nat
    BY <1>1, AfterFirstFacts
  <2>1. /\ IsFiniteSet(open')
        /\ \/ Cardinality(open') = Cardinality(AfterFirst)
           \/ Cardinality(open') = Cardinality(AfterFirst) + 1
    BY <1>2, <2>0, FS_AddElement
  <2>2. Cardinality(open') \in Nat
    BY <2>1, FS_CardinalityType
  <2>3. 2 * (Cardinality(AfterFirst) + 1) <= FdLimit
    BY <1>1, AfterFirstFacts DEF CanOpen
  <2> QED BY <1>1, <2>1, <2>2, <2>3, AfterFirstFacts DEF Descriptors
<1>11. Waiting' # Slots
  <2> SUFFICES ASSUME Waiting' = Slots PROVE FALSE
    OBVIOUS
  <2>1. pipe' \in [Slots -> open']
    BY <1>2, <1>9 DEF TableTypes
  <2>2. \A i, j \in Slots : pipe'[i] = pipe'[j] => i = j
    BY <1>8
  <2> QED BY <1>10, <2>1, <2>2, FreeSlot DEF Descriptors
<1>12. count' \in [Slots -> {-1} \cup 1..MaxCross]
    BY <1>2, <1>4 DEF TableTypes
<1>13. \A i \in Slots : count'[i] < 0 <=> i \notin Waiting'
    BY <1>12 DEF Waiting
<1>14. /\ min_input_point' \in Slots \ Waiting'
       /\ \A i \in Slots \ Waiting' : min_input_point' <= i
  <2>1. {i \in Slots : count'[i] < 0} # {}
    BY <1>11, <1>13 DEF Waiting
  <2> QED BY <1>2, <1>13, <2>1 DEF NextPoint
<1>15. TableTypes'
    BY <1>1, <1>2, <1>3, <1>5, <1>12, <1>14 DEF TableTypes
<1>16. Fresh'
  <2>1. AfterFirst \subseteq open
    BY <1>1, AfterFirstFacts
  <2>2. \A x \in open' : x \in 1..made'
    BY <1>2, <1>5, <2>1 DEF OutTypes
  <2> QED BY <1>1, <1>3, <1>5, <2>2 DEF Fresh
<1>17. TableSound'
  <2>1. \A i \in Slots : i < min_input_point' => i \in Waiting'
    BY <1>14 DEF Slots
  <2> QED BY <1>8, <1>9, <1>14, <2>1 DEF TableSound
<1>18. OutTypes'
  <2>1. got' = UNION {fed[x] : x \in DuePipe}
    BY DEF Command
  <2>2. writers' \in [Pipes -> SUBSET (1..MaxLine)] /\ unset' \in SUBSET (1..MaxLine)
    BY <1>5 DEF Command, Inherit, OutTypes
  <2>3. DuePipe \subseteq Pipes
    BY <1>1, <1>5 DEF DuePipe, Current, Pipes, OutTypes
  <2>4. got' \in SUBSET (1..MaxLine)
    BY <2>1, <2>3 DEF OutTypes
  <2>5. fed' \in [Pipes -> SUBSET (1..MaxLine)]
    BY <1>2, <1>5 DEF OutTypes, Pipes
  <2> QED BY <1>3, <1>5, <2>2, <2>4, <2>5 DEF OutTypes
<1>19. Current'
    BY <1>1 DEF Current
<1> QED BY <1>10, <1>15, <1>16, <1>17, <1>18, <1>19

\* A command without a new pipe leaves the table as it is
\* (find_same_cross_pipe found one, or the line has no cross_num).
LEMMA OldPipeInv ==
    ASSUME IInv, NEW f \in Commands, NEW k \in 0..MaxCross,
           Command(f, k), ~IsNew(k)
    PROVE  IInv'
<1> USE DEF IInv
<1>1. pc = "run" /\ pc' = "prompt"
    BY DEF Command, Typed
<1>2. /\ UNCHANGED <<count, pipe, min_input_point, made, output_point, record, line>>
      /\ freed' \in BOOLEAN
      /\ open' = AfterFirst
      /\ got' = UNION {fed[x] : x \in DuePipe}
    BY DEF Command
<1>3. Waiting' = Waiting
    BY <1>2 DEF Waiting
<1>4. TableTypes' /\ Current'
    BY <1>1, <1>2 DEF TableTypes, Current
<1>5. TableSound'
    BY <1>1, <1>2, <1>3, AfterFirstFacts DEF TableSound
<1>6. Descriptors'
    BY <1>1, <1>2, AfterFirstFacts DEF Descriptors
<1>7. Fresh'
    BY <1>1, <1>2, AfterFirstFacts DEF Fresh, OutTypes
<1>8. OutTypes'
  <2>0. open \subseteq Pipes /\ line \in 1..MaxLine
    BY <1>1 DEF Fresh, OutTypes, Pipes
  <2>1. record = Waiting /\ \A i \in record : pipe[i] \in Pipes
    BY <1>1, <2>0 DEF Current, TableSound
  <2>2. DuePipe \subseteq Pipes
    BY <1>1, <2>0 DEF DuePipe, Current
  <2>3. got' \in SUBSET (1..MaxLine)
    BY <1>2, <2>2 DEF OutTypes
  <2>4. PICK pos \in Pos(f, k) :
            fed' = IF k > 0 THEN [fed EXCEPT ![pipe[pos]] = @ \cup {line}]
                            ELSE fed
    BY DEF Command
  <2>5. k > 0 => pos \in record
    BY <2>4 DEF Pos, Same
  <2>6. writers' \in [Pipes -> SUBSET (1..MaxLine)] /\ unset' \in SUBSET (1..MaxLine)
    BY <2>0 DEF Command, Inherit, OutTypes
  <2>7. fed' \in [Pipes -> SUBSET (1..MaxLine)]
    BY <2>0, <2>1, <2>4, <2>5 DEF OutTypes
  <2> QED BY <1>2, <2>3, <2>6, <2>7 DEF OutTypes
<1> QED BY <1>4, <1>5, <1>6, <1>7, <1>8

\* Every line keeps the invariant.
LEMMA NextInv == IInv /\ [Next]_vars => IInv'
<1> SUFFICES ASSUME IInv, [Next]_vars PROVE IInv'
    OBVIOUS
<1>1. CASE ReadLine
    BY <1>1, ReadLineInv
<1>2. CASE Tell
    BY <1>2, QuietInv DEF Tell, Typed, infor, IInv, TableTypes
<1>3. CASE NoCommand
    BY <1>3, QuietInv DEF NoCommand, Typed
<1>4. CASE Exit
    BY <1>4, QuietInv DEF Exit, Typed, infor, IInv, TableTypes
<1>5. CASE Eot
    BY <1>5, QuietInv DEF Eot, infor, IInv, TableTypes
<1>6. ASSUME NEW f \in Commands, NEW k \in 0..MaxCross, Command(f, k)
      PROVE  IInv'
    BY <1>6, NewPipeInv, OldPipeInv
<1>7. ASSUME NEW f \in Commands, NEW k \in 0..MaxCross, Spin(f, k)
      PROVE  IInv'
    BY <1>7, QuietInv DEF Spin, Typed, infor, IInv, TableTypes
<1>8. CASE UNCHANGED vars
  <2>1. Waiting' = Waiting
    BY <1>8 DEF vars, infor, Waiting
  <2> QED BY <1>8, <2>1 DEF vars, infor, IInv, TableTypes, OutTypes, Fresh,
             Descriptors, TableSound, Current
<1> QED BY <1>1, <1>2, <1>3, <1>4, <1>5, <1>6, <1>7, <1>8 DEF Next

-----------------------------------------------------------------------------
\* The table stays sound, whatever the user types.
THEOREM Sound == Spec => []IInv
BY InitInv, NextInv, PTL DEF Spec

\* Every variable keeps its type.
THEOREM TypeCorrect == Spec => []TypeOK
<1>1. IInv => TypeOK
  <2> SUFFICES ASSUME IInv PROVE TypeOK
    OBVIOUS
  <2>1. open \in SUBSET Pipes
    BY DEF IInv, Fresh, OutTypes, Pipes
  <2> QED BY <2>1 DEF IInv, TableTypes, OutTypes, TypeOK
<1> QED BY <1>1, Sound, PTL

\* Two waiting pipes never come due on the same line or share a pipe, they are
\* open, and the next pipe goes to the smallest free slot.
THEOREM TableIsSound == Spec => []TableSound
<1>1. IInv => TableSound
    BY DEF IInv
<1> QED BY <1>1, Sound, PTL

\* The pipe of a waiting slot is never replaced: update_cross_pipe_fd always
\* writes to a slot that is free.
THEOREM NothingOverwritten == Spec => NoOverwrite
<1>1. IInv /\ [Next]_vars => [\A i \in Slots : count[i] > 0 => pipe'[i] = pipe[i]]_vars
  <2> SUFFICES ASSUME IInv, Next, NEW i \in Slots, count[i] > 0
               PROVE  pipe'[i] = pipe[i]
    OBVIOUS
  <2>1. CASE UNCHANGED pipe
    BY <2>1
  <2>2. ASSUME NEW f \in Commands, NEW k \in 0..MaxCross, Command(f, k)
        PROVE  pipe'[i] = pipe[i]
    <3>1. i \in Waiting /\ min_input_point \notin Waiting
      BY <2>2 DEF Command, Typed, Waiting, IInv, TableSound
    <3>2. UNCHANGED pipe \/ pipe' = [pipe EXCEPT ![min_input_point] = made']
      BY <2>2 DEF Command, update_cross_pipe_fd
    <3> QED BY <3>1, <3>2 DEF IInv, TableTypes
  <2> QED BY <2>1, <2>2 DEF Next, ReadLine, Tell, NoCommand, Exit, Eot, Spin, infor
<1> QED BY <1>1, Sound, PTL DEF Spec, NoOverwrite

-----------------------------------------------------------------------------
(***************************************************************************)
(* Who holds the write ends.                                               *)
(***************************************************************************)
\* A pipe that is not made yet has no writers, and the line that is about to
\* run has left no trace yet.
Traces ==
    /\ \A x \in Pipes : x > made => writers[x] = {}
    /\ \A n \in unset : n <= line /\ (pc = "run" => n < line)
    /\ \A x \in Pipes : \A n \in fed[x] : n <= line /\ (pc = "run" => n < line)

\* The pipes that are read or will be are pipes that were made.
LEMMA LiveIsOpen ==
    ASSUME IInv, pc \in {"prompt", "run", "spin"}
    PROVE  Live \subseteq open /\ open \subseteq Pipes
BY DEF IInv, Live, DuePipe, TableSound, Current, Fresh, OutTypes, Pipes

\* A command leaves its line behind, and nothing at the pipes to come.
LEMMA TracesStep ==
    ASSUME IInv, Traces, NEW f \in Commands, NEW k \in 0..MaxCross, Command(f, k)
    PROVE  Traces'
<1>1. /\ pc = "run" /\ pc' = "prompt" /\ line' = line /\ line \in Nat /\ made \in Nat
      /\ unset' \subseteq unset \cup {line}
    BY DEF Command, Typed, IInv, OutTypes
<1>2. /\ made' \in {made, made + 1}
      /\ \A x \in open' : x <= made'
  <2>1. AfterFirst \subseteq open /\ \A x \in open : x \in 1..made
    BY <1>1, AfterFirstFacts DEF IInv, Fresh
  <2>2. \/ made' = made /\ open' = AfterFirst
        \/ made' = made + 1 /\ open' = AfterFirst \cup {made'}
    BY DEF Command
  <2> QED BY <1>1, <2>1, <2>2
<1>3. \A x \in Pipes : x > made' => writers'[x] = {}
  <2> TAKE x \in Pipes
  <2> HAVE x > made'
  <2>1. x > made /\ x \notin open'
    BY <1>1, <1>2 DEF Pipes
  <2>2. writers'[x] = writers[x]
    BY <2>1 DEF Command, Inherit
  <2> QED BY <2>1, <2>2 DEF Traces
<1>4. \A x \in Pipes : fed'[x] \subseteq fed[x] \cup {line}
  <2>1. \/ fed' = fed
        \/ \E y : fed' = [fed EXCEPT ![y] = {line}] \/ fed' = [fed EXCEPT ![y] = @ \cup {line}]
    BY DEF Command
  <2> QED BY <2>1 DEF IInv, OutTypes
<1> QED BY <1>1, <1>3, <1>4 DEF Traces

\* The slots recorded for the children are the ones that wait, so a child
\* closes every pipe that waits but its own: the new pipe and a shared one get
\* this line as a writer, and every other live pipe keeps the ones it had
\* (close_cross_pipe_fd).
LEMMA EndStep ==
    ASSUME IInv, Traces, EndIsSeen, NEW f \in Commands, NEW k \in 0..MaxCross,
           Command(f, k)
    PROVE  EndIsSeen'
<1> SUFFICES ASSUME NEW x \in Live' PROVE writers'[x] \ unset' = fed'[x]
    BY DEF EndIsSeen
<1> USE DEF IInv
<1>1. /\ pc = "run" /\ pc' = "prompt" /\ record = Waiting /\ line \in Nat
      /\ \A i \in Waiting : pipe[i] \in open /\ pipe[i] \in Live
      /\ \A i, j \in Waiting : pipe[i] = pipe[j] => i = j
      /\ open \subseteq Pipes
    BY LiveIsOpen DEF Command, Typed, Current, TableSound, Live, OutTypes
<1>2. PICK i \in Waiting' : x = pipe'[i]
    BY <1>1 DEF Live
<1>3. PICK pos \in Pos(f, k) :
          /\ Inherit(pos)
          /\ ~IsNew(k) => fed' = IF k > 0 THEN [fed EXCEPT ![pipe[pos]] = @ \cup {line}]
                                          ELSE fed
    BY DEF Command
<1>4. unset' = IF f = "single" /\ k = 0 THEN unset \cup {line} ELSE unset
    BY DEF Command
<1>5. /\ line \notin unset
      /\ \A y \in Pipes : line \notin fed[y]
    BY <1>1 DEF Traces, OutTypes
<1>6. \A j \in Waiting : pipe[j] \in AfterFirst
    BY <1>1, AfterFirstFacts
<1>7. ASSUME i \in Waiting, pipe'[i] = pipe[i], i # pos, fed'[x] = fed[x]
      PROVE  writers'[x] \ unset' = fed'[x]
  <2>1. x \in Pipes /\ x \in Live /\ x \in close_cross_pipe_fd(pos)
    BY <1>1, <1>2, <1>7 DEF close_cross_pipe_fd
  <2>2. writers'[x] = writers[x]
    BY <1>3, <2>1 DEF Inherit
  <2>3. writers[x] \ unset = fed[x]
    BY <2>1 DEF EndIsSeen
  <2> QED BY <1>4, <1>5, <1>7, <2>1, <2>2, <2>3
<1>8. CASE IsNew(k)
  <2>1. /\ made' = made + 1 /\ made' \in Pipes /\ made' \notin open
        /\ open' = AfterFirst \cup {made'}
        /\ fed' = [fed EXCEPT ![made'] = {line}]
        /\ count' = [count EXCEPT ![min_input_point] = k]
        /\ pipe' = [pipe EXCEPT ![min_input_point] = made']
    BY <1>1, <1>8 DEF Command, update_cross_pipe_fd, Fresh, OutTypes, Pipes
  <2>2. pos = -1 /\ k > 0 /\ min_input_point \in Slots
    BY <1>3, <1>8 DEF Pos, IsNew, TableTypes
  <2>3. CASE i = min_input_point
    <3>1. x = made' /\ x \notin close_cross_pipe_fd(pos)
      BY <1>1, <1>2, <2>1, <2>2, <2>3 DEF close_cross_pipe_fd, TableTypes
    <3>2. writers[made'] = {}
      BY <2>1 DEF Traces, OutTypes
    <3>3. writers'[x] = {line} /\ fed'[x] = {line}
      BY <1>3, <2>1, <3>1, <3>2 DEF Inherit, OutTypes
    <3> QED BY <1>4, <1>5, <2>2, <3>3
  <2>4. CASE i # min_input_point
    <3>1. i \in Waiting /\ pipe'[i] = pipe[i] /\ i # pos
      BY <1>2, <2>1, <2>2, <2>4 DEF Waiting, TableTypes, Slots
    <3>2. fed'[x] = fed[x]
      BY <1>1, <1>2, <2>1, <3>1 DEF OutTypes
    <3> QED BY <1>7, <3>1, <3>2
  <2> QED BY <2>3, <2>4
<1>9. CASE ~IsNew(k)
  <2>1. open' = AfterFirst /\ UNCHANGED <<count, pipe>>
    BY <1>9 DEF Command
  <2>2. i \in Waiting /\ pipe'[i] = pipe[i] /\ x = pipe[i]
    BY <1>2, <2>1 DEF Waiting
  <2>3. CASE i = pos
    <3>1. x \in Pipes /\ x \in Live /\ x \in open'
      BY <1>1, <1>6, <2>1, <2>2
    <3>2. x \notin close_cross_pipe_fd(pos)
      BY <1>1, <2>2, <2>3 DEF close_cross_pipe_fd
    <3>3. writers'[x] = writers[x] \cup {line}
      BY <1>3, <3>1, <3>2 DEF Inherit
    <3>4. writers[x] \ unset = fed[x]
      BY <3>1 DEF EndIsSeen
    <3>5. CASE k > 0
      <4>1. fed'[x] = fed[x] \cup {line}
        BY <1>3, <1>9, <2>2, <2>3, <3>1, <3>5 DEF OutTypes
      <4> QED BY <1>4, <1>5, <3>3, <3>4, <3>5, <4>1
    <3>6. CASE k = 0
      <4>1. fed'[x] = fed[x]
        BY <1>3, <1>9, <3>6
      <4>2. f = "single"
        BY <1>3, <2>2, <2>3, <3>6 DEF Pos, Waiting, Slots
      <4> QED BY <1>4, <1>5, <3>1, <3>3, <3>4, <3>6, <4>1, <4>2
    <3> QED BY <3>5, <3>6
  <2>4. CASE i # pos
    <3>1. k > 0 => pos \in Waiting
      BY <1>1, <1>3, <1>9 DEF Pos, Same
    <3>2. fed'[x] = fed[x]
      BY <1>1, <1>3, <1>9, <2>2, <2>4, <3>1 DEF OutTypes
    <3> QED BY <1>7, <2>2, <2>4, <3>2
  <2> QED BY <2>3, <2>4
<1> QED BY <1>8, <1>9

\* The reader of a numbered pipe sees its end: of the processes that ran with
\* pos initialised, those of the lines that feed it, and no others, hold its
\* write end, whatever was leaked, shared or due on the way.
THEOREM ReaderSeesEnd == Spec => []EndIsSeen
<1>1. Init => Traces /\ EndIsSeen
  <2> SUFFICES ASSUME Init PROVE Traces /\ EndIsSeen
    OBVIOUS
  <2>1. Live = {}
    BY DEF Init, Live, Waiting
  <2> QED BY <2>1 DEF Init, Traces, EndIsSeen
<1>2. IInv /\ Traces /\ EndIsSeen /\ [Next]_vars => Traces' /\ EndIsSeen'
  <2> SUFFICES ASSUME IInv, Traces, EndIsSeen, [Next]_vars
               PROVE  Traces' /\ EndIsSeen'
    OBVIOUS
  <2>1. ASSUME UNCHANGED <<made, writers, unset, fed>>, Live' \subseteq Live,
               \/ line' = line /\ pc' # "run"
               \/ line' = line + 1
               \/ UNCHANGED <<line, pc>>
        PROVE  Traces' /\ EndIsSeen'
    <3>1. line \in Nat /\ unset \subseteq Nat /\ \A y \in Pipes : fed[y] \subseteq Nat
      BY DEF IInv, OutTypes
    <3>2. Traces'
      BY <2>1, <3>1 DEF Traces
    <3>3. EndIsSeen'
      BY <2>1 DEF EndIsSeen
    <3> QED BY <3>2, <3>3
  <2>2. CASE ReadLine
    <3>1. \A i \in Slots : i \in Waiting' \/ i \in Due => i \in Waiting
      BY <2>2 DEF ReadLine, CountDown, Waiting, Due, IInv, TableTypes
    <3>2. output_point' = -1 \/ output_point' \in Due
      BY <2>2 DEF ReadLine
    <3>3. Live' \subseteq Live
      BY <2>2, <3>1, <3>2 DEF ReadLine, Live, DuePipe, Waiting, Due
    <3> QED BY <2>1, <2>2, <3>3 DEF ReadLine
  <2>3. ASSUME UNCHANGED <<count, pipe, output_point>>,
               pc' \in {"run", "spin"} => pc \in {"run", "spin"}
        PROVE  Live' \subseteq Live
    BY <2>3 DEF Live, DuePipe, Waiting
  <2>4. CASE Tell \/ NoCommand \/ Exit \/ Eot
    BY <2>1, <2>3, <2>4 DEF Tell, NoCommand, Exit, Eot, Typed, infor
  <2>5. ASSUME NEW f \in Commands, NEW k \in 0..MaxCross, Spin(f, k)
        PROVE  Traces' /\ EndIsSeen'
    BY <2>1, <2>3, <2>5 DEF Spin, Typed, infor
  <2>6. ASSUME NEW f \in Commands, NEW k \in 0..MaxCross, Command(f, k)
        PROVE  Traces' /\ EndIsSeen'
    BY <2>6, TracesStep, EndStep
  <2>7. CASE UNCHANGED vars
    BY <2>1, <2>3, <2>7 DEF vars, infor
  <2> QED BY <2>2, <2>4, <2>5, <2>6, <2>7 DEF Next
<1> QED BY <1>1, <1>2, Sound, PTL DEF Spec

\* A command closes every pipe that it reads or that it made and did not put
\* in the table: it adds nothing to what the shell will never close.
THEOREM CommandsLeakNothing == Spec => CommandLeaksNothing
<1>1. IInv /\ (\E f \in Commands, k \in 0..MaxCross : Command(f, k))
         => Leaked' \subseteq Leaked
  <2> SUFFICES ASSUME IInv, NEW f \in Commands, NEW k \in 0..MaxCross,
                      Command(f, k), NEW x \in Leaked'
               PROVE  x \in Leaked
    OBVIOUS
  <2>1. pc = "run" /\ pc' = "prompt"
    BY DEF Command, Typed
  <2>2. x \in open' /\ \A i \in Waiting' : pipe'[i] # x
    BY <2>1 DEF Leaked, Live
  <2>3. CASE IsNew(k)
    <3>1. /\ open' = AfterFirst \cup {made'}
          /\ count' = [count EXCEPT ![min_input_point] = k]
          /\ pipe' = [pipe EXCEPT ![min_input_point] = made']
          /\ k > 0
      BY <2>3 DEF Command, update_cross_pipe_fd, IsNew
    <3>2. min_input_point \in Slots /\ min_input_point \notin Waiting
      BY <2>1 DEF IInv, TableTypes, TableSound
    <3>3. /\ Waiting' = Waiting \cup {min_input_point}
          /\ pipe'[min_input_point] = made'
          /\ \A i \in Waiting : pipe'[i] = pipe[i]
      BY <3>1, <3>2 DEF IInv, TableTypes, Waiting
    <3>4. x \in AfterFirst /\ \A i \in Waiting : pipe[i] # x
      BY <2>2, <3>1, <3>3
    <3> QED BY <2>1, <3>4 DEF Leaked, Live, AfterFirst
  <2>4. CASE ~IsNew(k)
    <3>1. open' = AfterFirst /\ pipe' = pipe /\ Waiting' = Waiting
      BY <2>4 DEF Command, Waiting
    <3> QED BY <2>1, <2>2, <3>1 DEF Leaked, Live, AfterFirst
  <2> QED BY <2>3, <2>4
<1> QED BY <1>1, Sound, PTL DEF Spec, CommandLeaksNothing

-----------------------------------------------------------------------------
(***************************************************************************)
(* The table implements numbered pipes.                                    *)
(***************************************************************************)
Lines == 1..(MaxLine + MaxCross)
Feeders(c) == {j \in Waiting : count[j] = c}

\* What comes after the current line, while the session lasts.
LEMMA DueLater ==
    ASSUME NEW n \in Lines, n > line, line \in Nat
    PROVE  DueAt(n) = UNION {fed[pipe[i]] : i \in Feeders(n - line)}
BY DEF DueAt, Lines, Feeders

\* Counting down moves nothing: what was due in k lines is due in k - 1
\* (count_down_and_check).
LEMMA ReadRoute ==
    ASSUME IInv, ReadLine, NEW n \in Lines
    PROVE  DueAt(n)' = DueAt(n)
<1> USE DEF IInv
<1>1. /\ pc = "prompt" /\ pc' = "run" /\ line' = line + 1 /\ line \in Nat
      /\ UNCHANGED <<fed, pipe>> /\ n \in Nat
    BY DEF ReadLine, OutTypes, Lines
<1>2. \A i \in Slots : /\ count[i] \in Int
                       /\ count[i] > 1 => count'[i] = count[i] - 1
                       /\ count[i] <= 1 => count'[i] = -1
    BY DEF ReadLine, TableTypes, CountDown
<1>3. CASE n <= line
    BY <1>1, <1>3 DEF DueAt
<1>4. CASE n = line + 1
  <2>1. n - line = 1
    BY <1>1, <1>4
  <2>2. Feeders(1) = Due
    BY DEF Feeders, Waiting, Due
  <2>3. \A i, j \in Due : i = j
    BY DEF ReadLine, Due, TableSound, Waiting, TableTypes
  <2>4. {fed[pipe[i]] : i \in Due} = {fed[x] : x \in DuePipe'}
    <3>1. \/ Due = {} /\ output_point' = -1
          \/ output_point' \in Due /\ output_point' >= 0
      BY DEF ReadLine, Due, Slots
    <3>2. DuePipe' = {pipe[i] : i \in Due}
      BY <1>1, <2>3, <3>1 DEF DuePipe
    <3> QED BY <3>2
  <2>5. DueAt(n) = UNION {fed[pipe[i]] : i \in Due}
    BY <1>1, <1>4, <2>1, <2>2, DueLater
  <2>6. DueAt(n)' = UNION {fed[x] : x \in DuePipe'}
    BY <1>1, <1>4 DEF DueAt
  <2> QED BY <2>4, <2>5, <2>6
<1>5. CASE n > line + 1
  <2>1. DueAt(n) = UNION {fed[pipe[i]] : i \in Feeders(n - line)}
    BY <1>1, <1>5, DueLater
  <2>2. DueAt(n)' = UNION {fed[pipe[i]] : i \in {j \in Waiting' : count'[j] = n - (line + 1)}}
    BY <1>1, <1>5 DEF DueAt
  <2>3. Feeders(n - line) = {j \in Waiting' : count'[j] = n - (line + 1)}
    BY <1>1, <1>2, <1>5 DEF Feeders, Waiting
  <2> QED BY <2>1, <2>2, <2>3
<1> QED BY <1>1, <1>3, <1>4, <1>5

\* A line that is not a command leaves what is due later.
LEMMA QuietRoute ==
    ASSUME UNCHANGED <<count, pipe, fed, line>>, line \in Nat,
           NEW n \in Lines, n # line
    PROVE  DueAt(n)' = DueAt(n)
<1>1. Waiting' = Waiting
    BY DEF Waiting
<1> QED BY <1>1 DEF DueAt, Lines

\* A command sends its output where its number says, to a pipe of its own or
\* to the one that is on its way there, and disturbs no other.
LEMMA CommandRoute ==
    ASSUME IInv, NEW f \in Commands, NEW k \in 0..MaxCross,
           Command(f, k), NEW n \in Lines, n > line
    PROVE  DueAt(n)' = IF k > 0 /\ n = line + k THEN DueAt(n) \cup {line}
                                                ELSE DueAt(n)
<1> USE DEF IInv
<1>1. /\ pc = "run" /\ line' = line /\ line \in Nat /\ n \in Nat /\ record = Waiting
    BY DEF Command, Typed, OutTypes, Lines, Current
<1>2. DueAt(n) = UNION {fed[pipe[i]] : i \in Feeders(n - line)}
    BY <1>1, DueLater
<1>3. DueAt(n)' = UNION {fed'[pipe'[i]] : i \in {j \in Waiting' : count'[j] = n - line}}
    BY <1>1 DEF DueAt
<1>4. /\ open \subseteq Pipes
      /\ \A i \in Waiting : i \in Slots /\ pipe[i] \in open
      /\ \A i, j \in Waiting : count[i] = count[j] \/ pipe[i] = pipe[j] => i = j
    BY <1>1 DEF TableSound, Fresh, OutTypes, Pipes, Waiting
<1>5. CASE IsNew(k)
  <2>1. /\ made' = made + 1 /\ made' \in Pipes /\ made' \notin open
        /\ fed' = [fed EXCEPT ![made'] = {line}]
        /\ count' = [count EXCEPT ![min_input_point] = k]
        /\ pipe' = [pipe EXCEPT ![min_input_point] = made']
    BY <1>1, <1>5 DEF Command, update_cross_pipe_fd, Fresh, OutTypes, Pipes
  <2>2. /\ min_input_point \in Slots /\ min_input_point \notin Waiting
        /\ k > 0 /\ \A i \in Waiting : count[i] # k
    BY <1>1, <1>5 DEF TableSound, TableTypes, IsNew, Same
  <2>3. /\ Waiting' = Waiting \cup {min_input_point}
        /\ count'[min_input_point] = k /\ pipe'[min_input_point] = made'
        /\ fed'[made'] = {line}
        /\ \A i \in Waiting : /\ count'[i] = count[i] /\ pipe'[i] = pipe[i]
                              /\ fed'[pipe'[i]] = fed[pipe[i]]
    BY <2>1, <2>2, <1>4 DEF Waiting, TableTypes, OutTypes
  <2>4. CASE n = line + k
    <3>1. Feeders(n - line) = {}
      BY <1>1, <2>2, <2>4 DEF Feeders
    <3>2. {j \in Waiting' : count'[j] = n - line} = {min_input_point}
      BY <1>1, <2>2, <2>3, <2>4
    <3>3. DueAt(n) = {} /\ DueAt(n)' = {line}
      BY <1>2, <1>3, <2>3, <3>1, <3>2
    <3> QED BY <2>2, <2>4, <3>3
  <2>5. CASE n # line + k
    <3>1. {j \in Waiting' : count'[j] = n - line} = Feeders(n - line)
      BY <1>1, <2>2, <2>3, <2>5 DEF Feeders
    <3>2. \A i \in Feeders(n - line) : fed'[pipe'[i]] = fed[pipe[i]]
      BY <2>3 DEF Feeders
    <3>3. DueAt(n)' = DueAt(n)
      BY <1>2, <1>3, <3>1, <3>2
    <3> QED BY <2>5, <3>3
  <2> QED BY <2>4, <2>5
<1>6. CASE ~IsNew(k)
  <2>1. UNCHANGED <<count, pipe>> /\ Waiting' = Waiting
    BY <1>6 DEF Command, Waiting
  <2>2. DueAt(n)' = UNION {fed'[pipe[i]] : i \in Feeders(n - line)}
    BY <1>3, <2>1 DEF Feeders
  <2>3. CASE k = 0
    <3>1. fed' = fed
      BY <1>6, <2>3 DEF Command
    <3> QED BY <1>2, <2>2, <2>3, <3>1
  <2>4. CASE k > 0
    <3>1. PICK pos \in Same(k) : fed' = [fed EXCEPT ![pipe[pos]] = @ \cup {line}]
      BY <1>6, <2>4 DEF Command, Pos
    <3>2. pos \in Waiting /\ count[pos] = k /\ pipe[pos] \in Pipes
      BY <1>1, <1>4, <3>1 DEF Same
    <3>3. /\ fed'[pipe[pos]] = fed[pipe[pos]] \cup {line}
          /\ \A i \in Waiting : i # pos => fed'[pipe[i]] = fed[pipe[i]]
      BY <1>4, <3>1, <3>2 DEF OutTypes
    <3>4. CASE n = line + k
      <4>1. Feeders(n - line) = {pos}
        BY <1>1, <1>4, <3>2, <3>4 DEF Feeders
      <4>2. DueAt(n) = fed[pipe[pos]] /\ DueAt(n)' = fed'[pipe[pos]]
        BY <1>2, <2>2, <4>1
      <4> QED BY <2>4, <3>3, <3>4, <4>2
    <3>5. CASE n # line + k
      <4>1. \A i \in Feeders(n - line) : fed'[pipe[i]] = fed[pipe[i]]
        BY <1>1, <3>2, <3>3, <3>5 DEF Feeders
      <4>2. DueAt(n)' = DueAt(n)
        BY <1>2, <2>2, <4>1
      <4> QED BY <3>5, <4>2
    <3> QED BY <3>4, <3>5
  <2> QED BY <2>3, <2>4
<1> QED BY <1>5, <1>6

\* The empty table promises nothing.
LEMMA RouteInit == Init => Abstract!Init
<1> SUFFICES ASSUME Init PROVE Abstract!Init
    OBVIOUS
<1>1. Waiting = {}
    BY DEF Init, Waiting
<1>2. \A n \in Lines : DueAt(n) = {}
    BY <1>1 DEF Init, DueAt, Lines
<1> QED BY <1>2 DEF Init, Abstract!Init, Abstract!Lines, Lines

\* Every step of the shell is a step of the numbered pipes, or none.
LEMMA RouteNext == IInv /\ [Next]_vars => [Abstract!Next]_(Abstract!vars)
<1> DEFINE due == [n \in 1..(MaxLine + MaxCross) |-> DueAt(n)]
<1> SUFFICES ASSUME IInv, [Next]_vars
             PROVE  \/ Abstract!Next
                    \/ line' = line /\ due' = due /\ got' = got
    BY DEF Abstract!vars
<1>0. line \in Nat /\ line <= MaxLine
    BY DEF IInv, OutTypes
<1>1. CASE ReadLine
  <2>1. \A n \in Lines : DueAt(n)' = DueAt(n)
    BY <1>1, ReadRoute
  <2>2. due' = due
    BY <2>1 DEF Lines
  <2>3. line < MaxLine /\ line' = line + 1 /\ got' = got
    BY <1>1 DEF ReadLine
  <2> QED BY <2>2, <2>3 DEF Abstract!Next, Abstract!Read
<1>2. ASSUME Tell \/ NoCommand \/ Exit PROVE Abstract!Next
  <2>1. /\ pc = "run" /\ pc' \in {"prompt", "exit"}
        /\ UNCHANGED <<count, pipe, fed, line, got>>
    BY <1>2 DEF Tell, NoCommand, Exit, Typed, infor
  <2>2. line \in Lines
    BY <2>1 DEF IInv, OutTypes, Fresh, Lines
  <2>3. \A n \in Lines : DueAt(n)' = IF n = line THEN {} ELSE DueAt(n)
    <3> TAKE n \in Lines
    <3>1. CASE n = line
      BY <1>0, <2>1, <3>1 DEF DueAt
    <3>2. CASE n # line
      BY <1>0, <2>1, <3>2, QuietRoute
    <3> QED BY <3>1, <3>2
  <2>4. due' = [due EXCEPT ![line] = {}]
    BY <2>2, <2>3 DEF Lines
  <2> QED BY <2>1, <2>2, <2>4 DEF Abstract!Next, Abstract!Discard, Lines
<1>3. ASSUME NEW f \in Commands, NEW k \in 0..MaxCross, Command(f, k)
      PROVE  Abstract!Command(k)
  <2>1. /\ pc = "run" /\ pc' = "prompt" /\ line' = line
        /\ got' = UNION {fed[x] : x \in DuePipe}
    BY <1>3 DEF Command, Typed
  <2>2. line \in Lines
    BY <2>1 DEF IInv, OutTypes, Fresh, Lines
  <2>3. DueAt(line) = UNION {fed[x] : x \in DuePipe} /\ DueAt(line)' = {}
    BY <1>0, <2>1 DEF DueAt
  <2>4. \A n \in Lines : DueAt(n)' = IF n = line THEN {}
                                     ELSE IF k > 0 /\ n = line + k
                                          THEN DueAt(n) \cup {line}
                                     ELSE DueAt(n)
    <3> TAKE n \in Lines
    <3>1. CASE n > line
      BY <1>0, <1>3, <3>1, CommandRoute
    <3>2. CASE n = line
      BY <1>0, <2>1, <3>2 DEF DueAt
    <3>3. CASE n < line
      BY <1>0, <2>1, <3>3 DEF DueAt, Lines
    <3> QED BY <1>0, <3>1, <3>2, <3>3 DEF Lines
  <2>5. due' = [n \in 1..(MaxLine + MaxCross) |->
                   IF n = line THEN {}
                   ELSE IF k > 0 /\ n = line + k THEN due[n] \cup {line}
                   ELSE due[n]]
    BY <2>4 DEF Lines
  <2> QED BY <2>1, <2>2, <2>3, <2>5 DEF Abstract!Command, Abstract!Lines, Lines
<1>4. ASSUME \/ \E f \in Commands, k \in 0..MaxCross : Spin(f, k)
             \/ Eot \/ UNCHANGED vars
      PROVE  line' = line /\ due' = due /\ got' = got
  <2>1. /\ UNCHANGED <<count, pipe, fed, line, got, output_point>>
        /\ pc' \in {"run", "spin"} <=> pc \in {"run", "spin"}
    BY <1>4 DEF Spin, Eot, Typed, infor, vars
  <2>2. \A n \in Lines : DueAt(n)' = DueAt(n)
    <3> TAKE n \in Lines
    <3>1. CASE n = line
      BY <1>0, <2>1, <3>1 DEF DueAt, DuePipe
    <3>2. CASE n # line
      BY <1>0, <2>1, <3>2, QuietRoute
    <3> QED BY <3>1, <3>2
  <2> QED BY <2>1, <2>2 DEF Lines
<1> QED BY <1>1, <1>2, <1>3, <1>4 DEF Next, Abstract!Next

\* The table implements numbered pipes: every line reads exactly what the
\* earlier lines sent to it, whatever is typed in between.
THEOREM RoutesPipes == Spec => Routing
BY RouteInit, RouteNext, Sound, PTL DEF Spec, Routing, Abstract!Spec
=============================================================================
