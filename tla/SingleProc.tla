----------------------------- MODULE SingleProc -----------------------------
(***************************************************************************)
(* np_single_proc.c: the remote working ground in one process. The loop of *)
(* main waits in select(), admits at most one connection and serves one    *)
(* line of every connection that has one. Since any of them may be the     *)
(* only one that is ready, every order of these steps can happen.          *)
(*                                                                         *)
(* A line is read from list[id].sockfd, which is the connection it was     *)
(* announced on unless two connections have the same id. The environment   *)
(* belongs to the process; a list keeps the variables of all the users,    *)
(* and those of a user are put in the environment when the user served is  *)
(* another one than before.                                                *)
(*                                                                         *)
(* Abstractions: commands take no time; a descriptor of a user pipe is     *)
(* there or not; numbered pipes are those of CrossPipe, and no line has    *)
(* both kinds. When the code uses memory it has freed or never written,    *)
(* server becomes "undefined", and nothing is said of it from then on.     *)
(*                                                                         *)
(* An operator X_Y that is used nowhere is X with the mistake Y; it is kept *)
(* to show which property notices the mistake.                             *)
(***************************************************************************)
EXTENDS Integers, FiniteSets, Sequences, SequencesExt

CONSTANTS
    max_client_num,
    Names,      \* the names users may take
    Vars,       \* the variables users may set
    Values,     \* the values they may give them
    PipeLines   \* the user pipes of a line: <<in, out>>, 0 for none

ASSUME PlacesAssumption == max_client_num \in Nat \ {0}
ASSUME NamesAssumption == "(no name)" \notin Names /\ "" \notin Names
ASSUME ValuesAssumption ==
    Values \cap {"", "null", "unset", "system", "bin:."} = {}
ASSUME LinesAssumption == PipeLines \subseteq Nat \X Nat

Ids == 1..max_client_num
Fds == 1..max_client_num    \* as many connections as there are places
AllVars == Vars \cup {"PATH"}

VARIABLES
    server,         \* "up", "dead", "stuck" or "undefined"
    fd_id_list,     \* the id of a connection, 0 (-1 in the code) for none
    sockfd,         \* list[i].sockfd, 0 (-1) where list[i].state is 0
    name,           \* list[i].name
    user_pipe,      \* list[i].user_pipe[j] >= 0
    min_id, client_num, env_id,
    environ,        \* the environment of the process
    env_list,       \* the list at env_head, without its head
    said,           \* the user pipes the last line announced
    fresh           \* history: the users whose variables were put in environ

table == <<fd_id_list, sockfd, name, user_pipe, min_id, client_num>>
env == <<env_id, environ, env_list, fresh>>
vars == <<server, table, env, said>>

Present == {i \in Ids : sockfd[i] # 0}
Nothing == [received |-> {}, piped |-> {}]

-----------------------------------------------------------------------------
(* The environment. A node with user_num -1 is not counted and stays. *)

Node(v, n, value) == [env_name |-> v, user_num |-> n, env_value |-> value,
                      freed |-> FALSE]
NoValue == [i \in Ids |-> "null"]

\* initial_env_var does not say what it returns. A compiler leaves the head there,
\* which is followed by a node for PATH, or that node, which is then taken for
\* the head and never looked at.
initial_env_var == {<<Node("PATH", -1, NoValue)>>, <<>>}

\* setenv of the C library.
setenv(v, value, overwrite) ==
    environ' = IF ~overwrite /\ environ[v] # "unset" THEN environ
               ELSE [environ EXCEPT ![v] = value]

\* The place of a variable in the list, 0 if it has none.
Place(list, v) ==
    LET places == {k \in DOMAIN list : ~list[k].freed /\ list[k].env_name = v}
    IN  IF places = {} THEN 0 ELSE CHOOSE k \in places : TRUE

\* A walk through the list up to a place, or to its end, meets a freed node.
Touches(list, place) ==
    \E k \in DOMAIN list : list[k].freed /\ (place = 0 \/ k < place)

\* set_env on the list.
Counted_Always(node, id) == node.user_num + 1
Counted(node, id) ==
    IF node.user_num >= 0 /\ node.env_value[id] = "null" THEN node.user_num + 1
    ELSE node.user_num

set_env(list, v, value, id) ==
    LET k == Place(list, v)
    IN  IF k = 0 THEN Append(list, Node(v, 1, [NoValue EXCEPT ![id] = value]))
        ELSE [list EXCEPT ![k].user_num = Counted(list[k], id),
                          ![k].env_value[id] = value]

\* renew_env_var: a variable of the list that the user has not set is made empty.
renew_env_var_SetOnly(list, id) ==
    [v \in AllVars |->
        LET k == Place(list, v)
        IN  IF k = 0 \/ list[k].env_value[id] = "null" THEN environ[v]
            ELSE list[k].env_value[id]]
renew_env_var(list, id) ==
    [v \in AllVars |->
        LET k == Place(list, v)
        IN  IF k = 0 THEN environ[v]
            ELSE IF list[k].env_value[id] = "null" THEN "" ELSE list[k].env_value[id]]

\* delete_env_var: a variable nobody else has set is freed. pre and pos are the
\* same node after the first one, so that the others stay in the list.
Unset_AllNodes(node, id) == [node EXCEPT !.env_value[id] = "null"]
Unset(node, id) ==
    IF node.env_value[id] = "null" THEN node
    ELSE [node EXCEPT !.env_value[id] = "null",
                      !.user_num = IF @ >= 0 THEN @ - 1 ELSE @]

delete_env_var(list, id) ==
    LET unset == [k \in DOMAIN list |-> Unset(list[k], id)]
        gone == {k \in DOMAIN list : unset[k].user_num = 0}
        first == CHOOSE k \in gone : \A j \in gone : k <= j
        freed == [k \in DOMAIN list |-> [unset[k] EXCEPT !.freed = k \in gone]]
    IN  IF gone = {} THEN unset ELSE RemoveAt(freed, first)

-----------------------------------------------------------------------------
(* Logins. *)

Init ==
    /\ server = "up"
    /\ fd_id_list = [c \in Fds |-> 0]
    /\ sockfd = [i \in Ids |-> 0]
    /\ name = [i \in Ids |-> ""]
    /\ user_pipe = [i \in Ids |-> [j \in Ids |-> FALSE]]
    /\ min_id = 1 /\ client_num = 0 /\ env_id = 0
    /\ environ = [v \in AllVars |-> IF v = "PATH" THEN "system" ELSE "unset"]
    /\ env_list \in initial_env_var
    /\ said = Nothing /\ fresh = {}

\* The search at the end of update_client_infor: no free id leaves min_id alone.
FirstFree_PastEnd(socks) ==
    CHOOSE i \in 1..max_client_num + 1 :
        (i \in Ids => socks[i] = 0) /\ \A j \in 1..i-1 : socks[j] # 0
FirstFree(socks) ==
    LET free == {i \in Ids : socks[i] = 0}
    IN  IF free = {} THEN min_id ELSE CHOOSE i \in free : \A j \in free : i <= j

update_client_infor(c) ==
    /\ sockfd' = [sockfd EXCEPT ![min_id] = c]
    /\ name' = [name EXCEPT ![min_id] = "(no name)"]
    /\ user_pipe' = [user_pipe EXCEPT ![min_id] = [j \in Ids |-> FALSE]]
    /\ fd_id_list' = [fd_id_list EXCEPT ![c] = min_id]
    /\ min_id' = FirstFree(sockfd')

\* accept() returns the smallest free descriptor.
Accept ==
    /\ server = "up" /\ client_num < max_client_num
    /\ ~Touches(env_list, Place(env_list, "PATH"))
    /\ LET free == {c \in Fds : fd_id_list[c] = 0}
       IN  update_client_infor(CHOOSE c \in free : \A d \in free : c <= d)
    /\ setenv("PATH", "bin:.", FALSE)
    /\ env_list' = set_env(env_list, "PATH", "bin:.", min_id)
    /\ client_num' = client_num + 1
    /\ fresh' = fresh \ {min_id}
    /\ said' = Nothing
    /\ UNCHANGED <<server, env_id>>

\* The server stops here, whatever it had done of the step.
Stops(how) == server' = how /\ UNCHANGED <<table, env>> /\ said' = Nothing

\* A freed node of the list is used: by a login ...
AcceptsFreed ==
    /\ server = "up" /\ client_num < max_client_num
    /\ Touches(env_list, Place(env_list, "PATH"))
    /\ Stops("undefined")

-----------------------------------------------------------------------------
(* Serving connection c. *)

\* Before the line is read the variables of its user are put in the environment.
SwitchTo(i) ==
    IF i = env_id THEN UNCHANGED <<env_id, environ, fresh>>
    ELSE /\ env_id' = i
         /\ environ' = renew_env_var(env_list, i)
         /\ fresh' = fresh \cup {i}

Switches(c) ==
    /\ server = "up" /\ fd_id_list[c] # 0
    /\ fd_id_list[c] # env_id => ~Touches(env_list, 0)

\* A line of connection c is read and executed for user i.
Serves(c, i) == Switches(c) /\ i = fd_id_list[c] /\ sockfd[i] # 0

\* A user that shared its id with one who has left: read() of descriptor -1
\* fails for ever.
ReadFails(c) == Switches(c) /\ sockfd[fd_id_list[c]] = 0 /\ Stops("stuck")

\* The client has closed its connection, or sends a line of spaces: string_split
\* compares a null pointer. A message to it would end in SIGPIPE.
HangsUp(c) ==
    Serves(c, fd_id_list[c]) /\ sockfd[fd_id_list[c]] = c /\ Stops("dead")

\* ... by the change of the user ...
UsesFreed(c) ==
    /\ server = "up" /\ fd_id_list[c] \notin {0, env_id} /\ Touches(env_list, 0)
    /\ Stops("undefined")

\* ... by a new variable, or when the user leaves.
SetsFreed(c, i, v) ==
    Serves(c, i) /\ Touches(env_list, Place(env_list, v)) /\ Stops("undefined")
LeavesFreed(c, i) ==
    Serves(c, i) /\ Touches(env_list, 0) /\ Stops("undefined")

\* who, tell, yell, printenv and blank lines write to sockets and change nothing.
Talk(c, i) ==
    /\ Serves(c, i) /\ SwitchTo(i)
    /\ said' = Nothing
    /\ UNCHANGED <<server, table, env_list>>

\* "exit", or byte 4: delete_client_infor, delete_env_var and the rest of main.
PipesAfter_KeepsColumn(i) == [user_pipe EXCEPT ![i] = [j \in Ids |-> FALSE]]
PipesAfter(i) == [k \in Ids |-> [j \in Ids |-> i \notin {j, k} /\ user_pipe[k][j]]]

MinAfter_Kept(i) == min_id
MinAfter(i) == IF i < min_id THEN i ELSE min_id

Leave(c, i) ==
    /\ Serves(c, i) /\ ~Touches(env_list, 0)
    /\ SwitchTo(i)
    /\ sockfd' = [sockfd EXCEPT ![i] = 0]
    /\ name' = [name EXCEPT ![i] = ""]
    /\ user_pipe' = PipesAfter(i)
    /\ env_list' = delete_env_var(env_list, i)
    /\ min_id' = MinAfter(i)
    /\ fd_id_list' = [fd_id_list EXCEPT ![c] = 0]
    /\ client_num' = client_num - 1
    /\ said' = Nothing
    /\ UNCHANGED server

\* cmd_name: refused when another user has the name.
NameTaken_Own(i, n) == name[i] = n
NameTaken(i, n) == \E j \in Present \ {i} : name[j] = n

cmd_name(c, i, n) ==
    /\ Serves(c, i) /\ SwitchTo(i)
    /\ name' = IF NameTaken(i, n) THEN name ELSE [name EXCEPT ![i] = n]
    /\ said' = Nothing
    /\ UNCHANGED <<server, fd_id_list, sockfd, user_pipe, min_id, client_num, env_list>>

\* env_setting: setenv v value.
env_setting(c, i, v, value) ==
    /\ Serves(c, i) /\ ~Touches(env_list, Place(env_list, v))
    /\ env_list' = set_env(env_list, v, value, i)
    /\ IF i = env_id THEN setenv(v, value, TRUE) /\ UNCHANGED <<env_id, fresh>>
       ELSE /\ env_id' = i /\ fresh' = fresh \cup {i}
            /\ environ' = [renew_env_var(env_list, i) EXCEPT ![v] = value]
    /\ said' = Nothing
    /\ UNCHANGED <<server, table>>

-----------------------------------------------------------------------------
(* Lines with user pipes: "<in" and ">out", 0 when the line has none. *)

\* The tests of print_user_pipe_msg_handler, made again where the pipes are used.
CanRead(i, in) == in \in Present /\ user_pipe[i][in]
CanWrite_Unchecked(pipes, i, out) == out \in Present
CanWrite(pipes, i, out) == out \in Present /\ ~pipes[out][i]

\* The messages, "received" first.
print_user_pipe_msg_handler(i, in, out) ==
    said' = [received |-> {<<in, i>> : n \in {x \in {in} : CanRead(i, x)}},
             piped |-> {<<i, out>> : n \in {x \in {out} : CanWrite(user_pipe, i, x)}}]

\* The parent closes the pipe that was read ...
AfterRead_Kept(i, in) == user_pipe
AfterRead(i, in) ==
    IF CanRead(i, in) THEN [user_pipe EXCEPT ![i][in] = FALSE] ELSE user_pipe

\* ... before it stores the one that is written.
AfterWrite(pipes, i, out) ==
    IF CanWrite(pipes, i, out) THEN [pipes EXCEPT ![out][i] = TRUE] ELSE pipes

\* single_cmd decides whether to make a pipe before it closes the one that is
\* read, and whether it has made one afterwards; a user that reads its own pipe
\* and writes it again gets descriptors that were never set.
OwnPipe(i, in, out) == in = i /\ out = i /\ CanRead(i, in)

PipeLine(c, i, in, out) ==
    /\ Serves(c, i) /\ SwitchTo(i)
    /\ print_user_pipe_msg_handler(i, in, out)
    /\ user_pipe' = AfterWrite(AfterRead(i, in), i, out)
    /\ UNCHANGED <<server, fd_id_list, sockfd, name, min_id, client_num, env_list>>

single_cmd(c, i, in, out) == ~OwnPipe(i, in, out) /\ PipeLine(c, i, in, out)
NeverSet(c, i, in, out) == Serves(c, i) /\ OwnPipe(i, in, out) /\ Stops("undefined")

\* ordinary_pipe: the last command looks for its pipe after the first has read.
ordinary_pipe(c, i, in, out) == PipeLine(c, i, in, out)

-----------------------------------------------------------------------------

Serve(c) ==
    \/ ReadFails(c) \/ HangsUp(c) \/ UsesFreed(c)
    \/ \E i \in Ids :
          \/ Talk(c, i) \/ Leave(c, i) \/ LeavesFreed(c, i)
          \/ \E n \in Names : cmd_name(c, i, n)
          \/ \E v \in Vars : SetsFreed(c, i, v)
          \/ \E v \in Vars, value \in Values : env_setting(c, i, v, value)
          \/ \E p \in PipeLines :
                \/ single_cmd(c, i, p[1], p[2]) \/ NeverSet(c, i, p[1], p[2])
                \/ ordinary_pipe(c, i, p[1], p[2])

Next == Accept \/ AcceptsFreed \/ \E c \in Fds : Serve(c)

Spec == Init /\ [][Next]_vars

-----------------------------------------------------------------------------
(* Properties. *)

\* Every variable keeps its type.
TypeOK ==
    /\ server \in {"up", "dead", "stuck", "undefined"}
    /\ fd_id_list \in [Fds -> Ids \cup {0}] /\ sockfd \in [Ids -> Fds \cup {0}]
    /\ name \in [Ids -> Names \cup {"", "(no name)"}]
    /\ user_pipe \in [Ids -> [Ids -> BOOLEAN]]
    /\ min_id \in Ids /\ client_num \in 0..max_client_num /\ env_id \in Ids \cup {0}
    /\ environ \in [AllVars -> Values \cup {"", "unset", "system", "bin:."}]
    /\ \A k \in DOMAIN env_list :
          env_list[k] \in [env_name : AllVars, user_num : Int, freed : BOOLEAN,
                          env_value : [Ids -> Values \cup {"null", "bin:."}]]
    /\ fresh \subseteq Ids

\* client_num counts the open connections, so that there is always a descriptor
\* and a place for the next one, no unused id lies below min_id, whatever the
\* order of logins and logouts and although two users may share an id, and two
\* users that are logged in never have the same name.
\* (main, update_client_infor, cmd_name.)
TableSound ==
    /\ client_num = Cardinality({c \in Fds : fd_id_list[c] # 0})
    /\ \A i \in Ids : i < min_id => i \in Present
    /\ \A i, j \in Present : i # j /\ name[i] = name[j] => name[i] = "(no name)"

\* A variable is in the list once, user_num is the number of users that have set
\* it, at least one of them, and these are logged in: no value is left behind for
\* the next user of an id. (set_env, delete_env_var.)
ListSound ==
    \A k \in DOMAIN env_list :
        LET n == env_list[k]
            set == {i \in Ids : n.env_value[i] # "null"}
        IN  ~n.freed =>
              /\ set \subseteq Present
              /\ n.user_num >= 0 => n.user_num = Cardinality(set) /\ set # {}
              /\ \A m \in DOMAIN env_list :
                    m # k /\ ~env_list[m].freed => env_list[m].env_name # n.env_name

\* Once the variables of a user have been put in the environment they stay there
\* while the user is the one served last: of the variables in the list the process
\* has the values this user gave them, and no value of anybody else.
\* (renew_env_var, set_env, env_id in main.)
EnvFollows ==
    env_id \in Present \cap fresh =>
        \A k \in DOMAIN env_list :
            LET n == env_list[k]
            IN  ~n.freed => environ[n.env_name] =
                    IF n.env_value[env_id] = "null" THEN "" ELSE n.env_value[env_id]

\* The rows of user_pipe implement user pipes: no pipe is replaced, none is read
\* twice or by another user, none outlives either of its users, and exactly what
\* happens is announced. (single_cmd, ordinary_pipe, delete_client_infor.)
UP == INSTANCE UserPipes WITH
          present <- Present,
          pipes <- {p \in Ids \X Ids : user_pipe[p[2]][p[1]]}
PipesKept == UP!Spec

-----------------------------------------------------------------------------
(* Expected of the code, and not kept by it; nothing above relies on these. *)

\* "Notice that every client will have its own environment variables settings":
\* the user served last sees no value but its own. A logout takes the values out
\* of the list and not out of the environment, and a user that gets the id that
\* was served last is not put in it. (delete_env_var, env_id in main.)
EnvIsOwn ==
    env_id \in Present =>
        \A v \in AllVars :
            LET k == Place(env_list, v)
            IN  IF k = 0 \/ env_list[k].env_value[env_id] = "null"
                THEN environ[v] \in {"", "unset"}
                ELSE environ[v] = env_list[k].env_value[env_id]

\* "Your server should always assign the smallest unused id to a new user": two
\* connections never have the same id. (update_client_infor in a full table.)
OneUserPerId ==
    \A c, d \in Fds : c # d /\ fd_id_list[c] # 0 => fd_id_list[c] # fd_id_list[d]

\* A user that leaves does not stop the service for the others.
\* (delete_env_var, run_shell, single_cmd.)
ServerStays == server = "up"
=============================================================================
