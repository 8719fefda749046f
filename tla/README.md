# TLA+ models of the network programming projects

The repository holds three groups of servers (`src/code/`):

* a **remote working ground** server, a chat-like shell server in two variants:
  one process per client with shared memory (`np_multi_proc.c`) and one process
  with `select()` (`np_single_proc.c`);
* a **remote batch system**, an asynchronous HTTP server that runs CGI programs
  (`http_server.cpp`) and a CGI program that plays scripts against shell servers
  (`console.cpp`);
* a **SOCKS4/4A proxy** (`socks_server.cpp`, `connect_to_dest.hpp`) and the batch
  console that goes through it (`console.cpp`).

This directory models the parts of them in which order matters, checks the
models with TLC on small instances, and proves the main results with TLAPS for
every size. In the modules an operator keeps the name of the function it stands
for; `PROJECT.json` gives the lines of every definition.

## Inventory

| Component | State | Operations | What is hard | What makes it correct |
|---|---|---|---|---|
| Login, logout, client table (`np_multi_proc.c`) | `client_num`, `min_id`, semaphores `lock`, `lock2`, `client_list` in shared memory | login, logout, the server's wait for a place, a client hanging up | every process reads the tables without a lock; a process may die anywhere | the count is exact, never above the limit; no id is skipped; one process in `lock2` |
| Messages | one mailbox, one semaphore per user, SIGUSR1 | `broadcast`, `tell`, `yell`, `name`, `msg_handler` | a semaphore is taken in one process and posted by a signal handler in another | one owner of a mailbox; order per sender; every broadcast ends |
| Numbered pipes | the table `infor.list` of one shell, its descriptors | a line is read; builtin, command, pipe; end of input | a small allocator spread over three functions; descriptors at their limit | a line reads exactly what was sent to it; nothing is overwritten or leaked |
| User pipes | `user_pipe`, `from_id`, the mailboxes, SIGUSR2, fifos | `>n`, `<n`, the handler, the reset at logout | two signals over one mailbox, blocking `open()` in a handler, the tables read several times | one owner; a pipe reaches the user it was announced to; lines end |
| Parsing, execution | local | `string_split`, `single_cmd`, `ordinary_pipe` | - | covered as far as pipes depend on it |
| Single-process server (`np_single_proc.c`) | `fd_id_list`, `list`, `min_id`, `client_num`, `env_id`, the list of variables, the environment of the process, the descriptors of the pipes, the children | one round of `select()`: accept, a line of a connection, a hang-up; `waitpid` | one environment for all users; ids at the limit; freed nodes; children inherit what belongs to others | tables and list consistent; a user runs with its own variables; user pipes belong to two users; no wait lasts for ever |
| HTTP server | environment of the process, one object per session | accept, read, write, fork | the handlers of all sessions share the environment | a program sees its own request; one client does not end the server |
| Batch console, console through the proxy (`console.cpp`, twice) | per connection: addresses, script, buffer, socket | resolve, connect, handshake, read, write | prompts and replies cut or joined by the stream; `%` in an output | page in order and complete; the session ends |
| SOCKS session and relay | pending operations, two buffers | request, CONNECT, BIND, relay | two directions that stop each other; peers that end or vanish | bytes in order, none lost at an orderly end; replies first |
| SOCKS firewall | none | `check_dest_ip` | wildcard matching with two indices | passes what the rules mean, nothing by default |
| HTML panels | none | - | - | not modelled |

Processes of the working ground server interact only through the shared tables,
semaphores, signals and fifos; a CGI program gets its input from the HTTP
server through the environment; the console talks to the shell servers, directly
or through the proxy, over TCP.

## Modules

| Module | Stands for | Composition |
|---|---|---|
| `MultiProc` | the server process and the client processes: login, logout, messages, names, hang-ups | - |
| `MultiProc_proofs` | theorems about it | extends `MultiProc` |
| `UserPipe` | `<n` and `>n` on top of those processes | extends `MultiProc`; its next-state relation uses the actions of `MultiProc` and adds its own |
| `UserPipe_proofs` | theorems about it | extends `UserPipe` |
| `CrossPipe` | numbered pipes of one shell | refines `NumberedPipe` |
| `NumberedPipe` | what `command \|k` promises: the output of line *n* is part of the input of line *n + k* | - |
| `CrossPipe_proofs` | theorems about the table and the refinement | extends `CrossPipe` |
| `HttpServer`, `HttpServer_proofs` | the sessions of `http_server.cpp` | - |
| `Firewall`, `Firewall_proofs` | `check_dest_ip`, what the rules mean, and that the two agree | - |
| `Socks`, `Socks_proofs` | one child of the proxy, and theorems about it | extends `Firewall`; the request passes it |
| `SingleProc`, `SingleProc_proofs` | the single-process server: users, names, variables, user pipes; theorems and the refinement | refines `UserPipes` |
| `UserPipes` | what `<n` and `>n` promise | - |
| `Children` | the commands of the single-process server, the pipe ends they inherit, the wait for them | - |
| `Console`, `Console_proofs` | a session of either console, the remote shell and the proxy around it | - |
| `MC*` | instances for TLC (symmetry sets, lines typed) | extend the modules above |

An operator `X_Y` that no action uses (`SlotFree_NotWaited`) is `X` with the
mistake `Y`. Substituting it for `X` makes the property it is meant for fail,
which shows that the property does depend on that line of the code.

### MultiProc

A process is a connection. `pc` says where it is: `login` (before
`sem_wait(lock2)`), `enter` (in the login's critical section), `welcome`, `idle`
(at the prompt), `logout`, and inside `broadcast` or `cmd_tell` one of `scan`
(look at slot `idx`), `wait` (on the slot's semaphore), `recheck` (second look
at the state), `kill`. Each is one access to shared memory that another process
can come between. `msg_handler` may run between any two steps of its process,
except that a signal a process sends itself is handled before `kill()` returns.
`gone` marks a client that has hung up: writes are lost, and at a write or a
read `Crash` ends the process and leaves the tables as they are. `shown` collects
the messages written to each client; `n` numbers the messages of a sender.

Abstractions: the accesses inside the critical sections of `lock2` are grouped
(`Login`, `LoginDone`, `Logout`), since only `state` and `client_num` of them are
read outside the lock; formatting, addresses and `who` are left out; a process
is not recycled.

### UserPipe

`up` says where a process is in a line with a user pipe: `in` and `out` before the
two announcements, `create` before the decision to make a fifo, `wait`, `recheck`,
`kill`, `open` inside `create_user_pipe`, `fork` before the command runs. What
`single_cmd` reads once at its beginning is in `job`. `hand` is the SIGUSR2
handler: `open` while it blocks in `open()`, `store` before it stores the
descriptor. A process in the handler executes nothing else but `msg_handler`;
the two `open()` calls return together (`Open`). A fifo remembers who made it
and whom it was announced to, so that `ReceiverIsMeant` can be stated.
Left out: ids above `max_client_num`, hang-ups, the contents of the fifo, the
combination with numbered pipes.

The liveness properties name the one case in which the code does not keep them. A
set of users is `Embraced` when each of them is in its handler, waiting for a writer
that is itself in its handler and among them; `Embrace` says that there is such a set.
`PipeEnds` (a line ends) and `FifoArrives` (every single fifo that is made, known by its number, is
stored and can be read) hold for all lines unless that happens, and `LinesEnd`, without
the exception, is violated.

### CrossPipe and NumberedPipe

The variables are the fields of `cross_pipe` (`record` is `close_fd_record` with
`data_num`), the descriptors the shell has open, and for each pipe the lines that
write to it (`fed`) and the lines whose processes hold its write end (`writers`). A child
inherits whatever the shell has open, leaked pipes too, and closes what `close_cross_pipe_fd`
tells it to (`Inherit`). A line is read and counted down (`ReadLine`) and then executed as
`tell`/`yell`, another builtin, a failed redirection, a single command, an
ordinary pipe of two commands or one of more (`"pipes"`), or `exit`. `|k` and `!k` are the
same for the table. `pos` of `single_cmd` is uninitialised without a number, hence any slot;
`unset` remembers the lines that ran so. `Spin` is the
retry of `pipe()` at the limit of descriptors.

`FdAssumption` says that descriptors run out before slots do. With 511 slots,
1024 descriptors and four of them taken (0, 1, 2 and the socket) this holds, and one
slot always stays free; without it `update_cross_pipe_fd` can overwrite a waiting pipe.

The refinement mapping gives the abstract `due[n]` as the lines that write to
the pipe with `count = n - line`, or, for the current line, to the pipe at
`output_point`.

### HttpServer

A handler is an action; the handlers of different sessions come in any order.
A variable of the environment holds the session it describes. A client sends its
request in its own time or never (`Ask`), and may end its sending side or close the
connection at any time (`Leave`); one that has only ended its sending side after the
request is served like any other. `Die` is the end
of the server in a session's handler: `remote_endpoint()` throws, or `setenv` is
given a null pointer, where the model lets the library either go on with some
value or crash. Requests are well formed.

### Firewall and Socks

`pending` is the set of asynchronous operations; the completion of each is an
action with the handler's effect. `stop()` empties it, since the handlers it
cancels return at once. A peer is there, has ended its sending side (`shut`), or
is gone. Bytes are numbered in each direction. A destination connects to a BIND
only after the source was told the port. The address in a request is numeric when
it gets as far as the relay (the firewall resolved it), so that it resolves to
one endpoint.

`Firewall` compares texts the way `check_dest_ip` does, one character at a time
with an index into each, and defines beside it what the rules mean (`Lawful`). The
rule file is read at every request and may be any file of at most `MaxRules` rules;
`lawful` remembers what the rules meant then.

### SingleProc and UserPipes

An action is what `main` does for one connection that `select()` reported; since
any connection may be the only one that is ready, all orders are possible.
Connections and ids are different things, because a full table may give one id to
two connections. The environment is a function from variables to values, the
list of `env_var` nodes a sequence in which a node may be `freed`. A walk that meets
such a node makes `server` `"undefined"`, as do descriptors that were never set
(a user that reads its own pipe and fills it in one line): nothing is claimed from then on.
`"dead"` is the end by a null pointer after a hang-up, `"stuck"` the loop around a
`read()` that fails.

`initial_env_var` has no `return`. Built as the Makefile says, without
optimisation, older compilers leave the head in the result register and gcc 12
the PATH node behind it; both are initial states (`initial_env_var`). In the second case the PATH
node of the list is an ordinary one, counted and freed with its last user.
`delete_env_var` also reads `next` of the node it has just freed; glibc has not
touched that field by then, and the model takes the old value.

`UserPipes` knows only who is there, which pairs have a pipe, and what the last
line announced. `PipesKept` says that the rows of descriptors implement it; the mapping
takes `<<i, j>>` as a pipe when `list[j].user_pipe[i]` is a descriptor. Its `Login`
drops only pipes to the id, as `update_client_infor` does when an id is given
twice.

### Children

A command is a record of the pipe it reads, the pipe it writes and the numbered
pipes of other users it inherited. It ends when nobody can write to its input any more and
its output has room or a reader. The server is where `waitpid` leaves it. The table of numbered pipes
is that of `CrossPipe`, hence only `|1` here. Every user is logged in and stays.

### Console

One session: `pending` is the operation the event loop will complete. A token
stands for some bytes of the shell, with a `%` among them or not, and a read
returns any number of tokens that is there and fits in `data_`. The bytes of the
proxy's reply are tokens too. `shown` is what was added to the page. The remote shell
is `run_shell` of the working ground: one `read()` takes any number of the lines that
are there, the first is executed and answered with some output and a prompt, the others
are `dropped`. Lines arrive whole. After the end of the file the console answers prompts
with empty lines, of which the model sends at most `MaxBlank`. A connection closed with lines unread is reset, and what was not read yet may be
lost. `connect_proxy` chooses between the two consoles, whose sessions are otherwise
the same code.

## Runs

Passing runs:

| Run | Instance | Shows |
|---|---|---|
| `mp_session` | 3 connections, 2 places, `exit`, one client may hang up | `TypeOK`, `OneHolder`, `LostByLeaving`, `ClientNumExact`, `Capacity`, `OneInLock2`, `NoIdSkipped`: the tables stay consistent and mailboxes exclusive while users come, go and vanish, and a semaphore is lost only with a process that left |
| `mp_talk` | 2 users, `yell`, `tell`, `name`, `exit`, fairness | `SenderOrder`, `BroadcastEnds`, `YellReachesAll`, `SessionsMove`: messages come in the order they were sent, broadcasts end, a yell reaches everybody, and without a lost semaphore every login and logout ends |
| `cp_table` | 3 slots, 5 descriptors, `\|1`..`\|3`, 7 lines of all kinds | `TypeOK`, `TableSound`, `NoOverwrite`, `Routing`, `EndIsSeen`, `CommandLeaksNothing`: the table stays sound while descriptors run out, a line reads exactly what was sent to it, and it sees the end of it, since no other line holds the write end but for commands with an uninitialised `pos` |
| `up_row` | 3 connections, 2 places, pipes to a user who may leave | `OneMail`, `FreshRow` |
| `up_live` | 2 users who stay, pipes both ways and to oneself, 3 lines each, fairness | `UpTypeOK`, `SignalFits`, `NotReplaced`, `PipeEnds`, `FifoArrives`: handlers find their mail, no pipe is replaced, and unless users wait for each other in `open()` every line ends and every fifo arrives |
| `http_cgi` | 3 sessions, one without a query, fairness of the handlers | `SessionsEnd`: while the server runs, a session whose client has asked or ended its side ends |
| `sk_relay` | addresses of 2 octets, rule files of up to 2 rules, 4 bytes each way, buffers of 2, fairness | `TypeOK`, `FirewallKept`, `InOrder`, `EndIsComplete`, `DataAfterReply`, `RelayEnds` |
| `sp_users` | 2 places, one name, 2 variables and PATH, pipes in all directions | `TypeOK`, `TableSound`, `ListSound`, `EnvFollows`, `PipesKept`: whatever the order of lines, logins and logouts, counters, ids, names and the list of variables agree, the environment is that of the user served last once it has been put there, and user pipes keep their promise |
| `con_script` | two commands, `exit` and a line behind it; 2 addresses, a message, chunks of up to 4 tokens, fairness | `ShownInOrder`, `AllShown`, `SessionEnds`: however the stream is cut, wherever a `%` is and whichever lines the shell drops, the page is in order, nothing is missing, and the session ends unless the `exit` was dropped |

Runs that show where the code departs from its specification or its comments
(each checks one property, which is violated; `PROJECT.json` quotes the
sentence and the lines):

| Run | Property | What happens |
|---|---|---|
| `sp_env` | `EnvIsOwn` | a user sets a variable and leaves; the next one has the same id, so the environment is not renewed |
| `sp_wait` | `ServerReturns` | user 1 has a numbered pipe waiting when user 2 types a command with `\|1`, which inherits the write end of user 1's pipe and has more output than its own pipe holds, so that it waits for user 2's next line; user 1's next line reads the numbered pipe, never sees its end, and the server waits for it. With outputs that fit in a pipe (`Sizes = {"small"}`) the property holds |
| `con_proxy` | `ProxySessionEnds` | the first prompt comes in one chunk with the proxy's reply and is dropped with it |

### Other departures

The last section of a module holds what one would expect of the code and what it
does not keep. These have no configuration of their own; each is reproduced by
adding the property to a configuration with the instance given.

| Property | Instance | What happens |
|---|---|---|
| `SmallestUnusedId` (`MultiProc`) | 4 connections, 2 places, `exit` | a full table leaves `min_id` stale; a later user gets an id in use (`np_multi_proc.c:36`, `:55`), against p. 4 of the specification, "Your server should always assign the smallest unused id to a new user" |
| `NoLostLock` (`MultiProc`) | as `mp_session` | the receiver exits between the second look at its state and the signal, or with the signal pending; its semaphore is lost (`:976`) |
| `NamesUnique` (`MultiProc`) | 2 users, `name` | two users take one name at the same time: compared at `:941`, set at `:955`, no lock (p. 5: "the name CANNOT be the same as other users' name") |
| `WelcomeFirst` (`MultiProc`) | 2 users, `yell` | another user's message comes before the welcome (`:35`, `:45`) |
| `NoGhost` (`MultiProc`) | 2 users, one hangs up | a client that disconnects stays in the table (`:221`) |
| `TellToUser` (`MultiProc`) | `tell 0` | waits for a semaphore that was never initialised (`:898`) |
| `ChildCloses` (`CrossPipe`) | as `cp_table` | an uninitialised `pos` keeps a waiting pipe open in a child (`:403`; the comment at `:711` says that every child closes it) |
| `SpinOnlyWhenFull` (`CrossPipe`) | builtins and single commands | builtins leak the pipe that is due, until `pipe()` fails for ever (`:410`) |
| `EotEnds` (`CrossPipe`) | single commands, byte 4 | `close_fd_record` is freed twice (`:225`) |
| `LinesEnd` (`UserPipe`) | as `up_live` | two users who pipe to each other, or one that pipes to itself, are in the handler and wait for the writer it has interrupted (`:844`, `:859`) |
| `ReceiverIsMeant` (`UserPipe`) | as `up_row` | the receiver leaves, which the sender is told; the next user with the id gets the pipe (`:414`) |
| `PipedIsMade` (`UserPipe`) | as `up_live` with `SendOnly` | the receiver logs in between `:403` and `:764`: announced as piped, written to `/dev/null` |
| `ReceivedIsRead` (`UserPipe`) | as `up_live` | announced as received, read from `/dev/null` (`:403`, `:751`) |
| `RequestIsOwn` (`HttpServer`) | as `http_cgi` | a request read between another session's read and its fork replaces that session's `REQUEST_URI` (`http_server.cpp:42`) |
| `EveryoneServed` (`HttpServer`) | as `http_cgi` | a client that leaves after its request ends the server for everybody (`http_server.cpp:58`) |
| `PlainServed` (`HttpServer`) | as `http_cgi` | a URI without a query may crash the server (`:63`) |
| `FailedIsTold` (`Socks`) | as `sk_relay` | a failed CONNECT gets no reply (`connect_to_dest.hpp:50`) |
| `HalfOpenServed` (`Socks`) | as `sk_relay` | a client that ends its sending side loses the rest of the answer (`:111`) |
| `OneUserPerId` (`SingleProc`) | as `sp_users` | a full table leaves `min_id` stale; two connections share an id and an entry (`np_single_proc.c:240`) |
| `ServerStays` (`SingleProc`) | as `sp_users` | a client that hangs up ends the server for everybody (`:289`, `:410`) |
| `LinesExecuted` (`Console`) | as `con_script` | a `%` in an output is taken for a prompt and the next line is sent ahead; the shell reads two lines at once and executes the first (`remote_batch_system/console.cpp:120`, `np_multi_proc.c:221`, `:231`) |
| `NothingAdded` (`Console`) | as `con_script` | a chunk that fills `data_` has no end, and `html_id` behind it is shown (`:109`) |

### Bounds

* Two places and three connections are the least with which a login waits for a
  place and an id is used again. A fourth is needed for two users to share an
  id (`SmallestUnusedId`); the invariants of `mp_session` hold there as well: all of
  them are proved for any number.
* Two users are enough for a mailbox with a sender and a receiver; with three
  connections a third sender takes part in the login and logout broadcasts. The
  proofs cover any number.
* `MaxCmds` bounds the lines typed per connection. The login message and one
  more give an order between messages of one sender; three lines in `up_live`
  allow a pipe that is sent, read and sent again; user 2 reads and answers in one line, and
  user 1 may pipe to itself.
* Three slots and numbers up to three let slots be reused before seven lines are over.
  `FdLimit` is the largest value that `FdAssumption` allows, so that the limit of
  descriptors is met; as in the code it is met first, and one slot of the table stays free.
* Two sessions are enough for handlers that come between each other's; `http_cgi` has a third,
  whose URI has no query.
* Four bytes and buffers of two make each buffer be used at least twice and in
  part.
* Two octets, of which one is a prefix of another, and `*` in either place tell the
  two indices of the firewall apart; `FirewallExact` covers four octets of any length.
* Two places of the single-process server fill up, and their users share an id;
  two variables and PATH are the least with which a freed node stays in the list
  while a user is there. With PATH set by users as well (`Vars` of three) the run
  has 0.7 million states and the same result.
* Four lines of script, of which one is behind the exit, and a message let the console be
  two lines ahead; a chunk of four tokens holds the welcome, the prompt and more, one of five
  (`con_proxy`) the proxy's reply, the welcome and the prompt. `MaxBlank` is two: unless the
  exit is dropped the console does not send more empty lines than that, so that the
  bound keeps no session from its end.
* Four lines are enough for the wait of `sp_wait`.
* Deadlock is not checked: connections, lines and bytes are bounded, and the
  models stop when all of them are used up.
* Symmetry over the connections is used in runs without a liveness property only,
  and leaves out the ones in `MayDrop`.

### Fairness

Weak fairness on the steps a process takes by itself, on the delivery of signals
and on completion handlers: the kernel schedules every runnable process and
delivers a pending signal, an event loop runs the handlers that are ready. There is none on
what users, clients or destinations do: they may stop at any time; a client of the HTTP
server need not send anything, and since `do_read` has no timeout nothing is claimed of its
session then. `sk_relay` also
assumes that a peer that stays reads what it is sent, since a write to one that
does not may block. A busy semaphore is taken under weak fairness only; this is
enough in the checked instances because a sender that waits does so alone or is
overtaken a bounded number of times. `con_script` assumes that the event loop runs
the handler of what has completed and that the remote shell and the proxy answer;
messages of other users may stop. `sp_wait` assumes that a command that can end does; users
need not type.

## Proofs

`tlapm` checks the modules `*_proofs`. Nothing is assumed but the named
assumptions on the constants; some results have a condition on the behaviour, which
their statement names.

**MultiProc_proofs**, for every table size, finite set of connections, set of
commands and set of clients that hang up. The invariants are layered, each
inductive relative to those before it:

1. `Base`: types, what each program counter implies (`PcInv`), the bound on
   messages (`NcmdInv`), mutual exclusion of `lock2` (`LockInv`), and that the
   process in a slot knows it as its own (`MailInv`). The last one is needed
   because `msg_handler` posts `client_list[id].lock` while the sender took
   `client_list[i].lock` and signalled `client_list[i].pid`.
2. `OneHolder` (theorem `HandOver`): it is inductive over `Base`, as it counts the
   sender before the signal and the receiver after it as holders. A crash only
   removes holders. `Lock2Excludes` is a part of `Base`.
3. `ClientNumExact` (`CountIsExact`), by cardinalities of `Registered`.
4. `Capacity` (`NeverOverfull`) needs `ServerInv`: what the server's program counter
   says about `client_num`, `lock` and the one process that may be between `fork`
   and the post of `lock`. Because `accept` is reached only with a place
   free and at most one login is under way, the test outside `lock2` is safe.
5. `TypeCorrect`: `TypeOK` from `Base` and `ClientNumExact`, which gives
   `client_num >= 0`.
6. `NoIdSkipped` (`IdsAreGivenInOrder`) from `LowInUse`: all ids below `min_id` are in
   use, also when `min_id` itself is stale.
7. `SmallestUnlessFull`: in a behaviour in which the table never fills up every login
   gets the smallest unused id. `MinFree` says that `min_id` is free while `lock2` is,
   and until a logout posts it; only a search that finds nothing breaks it. With
   the counterexample to `SmallestUnusedId` this makes a full table the exact cause.
8. `LostByLeaving` (`OnlyLeavingLoses`): a semaphore that is not posted has a living
   holder or one that has left. `PidInv` is needed, since a signal goes to the
   process in the slot: a slot that is in use or about to be signalled has a
   process as its `pid`, and no longer the server.
9. `SenderOrder` (`MessagesInOrder`) from `SendInv` (a process sends its last
   message and leaves that one in the mailbox it holds) and `SeenInv` (what a client
   has seen, and what its handler is about to show, is older than what the
   same sender may still hand to its slot).

**UserPipe_proofs**, for every table size, finite set of connections and set of lines
with `<n` and `>n`. `UpInv` has five layers that are proved together: types,
`UpControl`, `OneOwner` (a mailbox has one owner, in one of four ways: sending or
signalled, with a text or a path), `MailFits` (what the owner will find) and `Nested`
(SIGUSR2 does not come while its handler runs). Every step takes a mailbox, passes
it on, posts it, or leaves all of them alone (`MailSteps`); what follows is proved once
for these four kinds. Results: `TypeCorrect`, `MailboxPassesOn` (`OneMail`),
`HandlersFindTheirMail` (`SignalFits`).

`FreshRow` and `NotReplaced` are false once two users share an id (four connections and two
places; `up_row` has three connections), so they are proved for behaviours in which every login gets an
unused id:

* `RowsAreFresh`: users have rows of their own and a free row has no pipes (`OwnRows`).
* `PipesNotReplaced`: while a pipe is on its way the table has none in its place and its
  sender does not begin another (`OnItsWay`). The sender's check alone does not
  give this, since the handler may not have run yet; the announcement in
  between does, because it takes the semaphore that the handler will post. A user that pipes
  to itself announces nothing to itself; it waits in `open()` for its own
  handler (`SelfPipe`), and no other handler can open its fifo, since fifos are numbered (`Numbers`).
* `PipesUnlessFull`: both hold while the table never fills up (`Places`, as in
  `SmallestUnlessFull`).

**CrossPipe_proofs**, for every table size, limit of descriptors with
`FdAssumption`, and sequence of lines. `IInv` adds to `TableSound` that open pipes
fit in the descriptors (`Descriptors`), that pipe numbers are fresh, and that
while a line runs the record is exact and the pipe that is due is out of the
table (`Current`). From `Descriptors` and `FdAssumption` a counting argument (`FreeSlot`)
gives a free slot whenever a pipe is made, hence `NothingOverwritten`. With `IInv`
each step is a step of `NumberedPipe` or leaves it unchanged: `RoutesPipes`. The same
invariant gives `CommandsLeakNothing` (`CommandLeaksNothing`). `ReaderSeesEnd` (`EndIsSeen`) adds
`Traces`: no process has a pipe that was not made yet, and the current line is not yet
among those that feed a pipe. What is open at a fork
is leaked, new, waiting or due; the record is exact, so of the waiting ones only that of `pos`,
which the line feeds, stays open in the child.

**SingleProc_proofs**, for any number of places, names, variables, values and lines. `Inv` is
`TypeOK`, `TableSound`, `ListSound` and `EnvFollows` with two additions: every user
that is logged in has PATH in the list (`PathKept`), without which a login could put a
node behind the back of the user served last, and both ends of a pipe are logged in
(`EndsPresent`). Results: `TypeCorrect`, `TableStaysSound`, `ListStaysSound`,
`EnvironmentFollows`, and `PipesRefined`: every step is a step of `UserPipes` or leaves
it unchanged. The walk over the list is a function over positions; its lemmas go by the
least position at which a claim fails.

**HttpServer_proofs**, for any number of sessions: `TypeCorrect` and
`OwnUnlessInterleaved`: in a behaviour in which no two sessions are between their read and
their fork (`Alone`) every program sees its own request. The invariant `Reads` is that `request` describes the
session that is about to fork. With the counterexample to `RequestIsOwn` this makes the
interleaving of the two handlers the exact cause.

**Firewall_proofs**, for any octets, number of octets and rule file: `FirewallExact`, that
`check_dest_ip` lets a request pass exactly when a rule permits its address octet by octet. It says of the text of an address where each octet begins (`Layout`), that
the loop computes a function of the two indices (`Loop`, `LoopExists`), and that the
loop gets from the beginning of an octet to the beginning of the next in both texts if the octets agree
or the pattern has `*`, and fails otherwise (`OctetByOctet`). Inductions are over sets of numbers (`AllNumbers`,
from the least number that is not in a set).

**Socks_proofs**, for any number of bytes, size of the buffers and rule file. `Inv`: before
the relay one operation follows the other (`Phases`); in the relay each direction is
about to read, and then all it has read was written, or about to write what is in its
buffer (`Direction`); nothing is pending after `stop()` (`Ended`); the relay starts after the
last reply (`Replied`). Results: `TypeCorrect`, `BytesInOrder` (`InOrder`), `NothingCutOff`
(`EndIsComplete`), `ReplyComesFirst` (`DataAfterReply`), and, with `FirewallExact` and the invariant `Decided`,
`RulesAreKept` (`FirewallKept`).

**Console_proofs**, for every script, size of the buffer, number of addresses and of messages: the tokens on
their way are the next ones (`InStream`), those on the page are an interval that ends
with the last one read (`Interval`), and every answer follows its line (`Answers`). Results: `TypeCorrect`,
`PageInOrder` (`ShownInOrder`), `PageComplete` (`AllShown`). In a session through the proxy a
chunk with a zero of the reply is lost as a whole, before anything is shown, so
`PageComplete` is about direct sessions.

Only model-checked: liveness (`BroadcastEnds`, `YellReachesAll`, `SessionsMove`,
`PipeEnds`, `FifoArrives`, `SessionsEnd`, `RelayEnds`, `SessionEnds`), which is out of
the prover's reach. Every invariant and action property of the runs that are expected to pass is
stated by a theorem.

## Plan

Done: every component that keeps state is modelled (parsing and execution as far as
pipes and variables depend on them), with the runs above, and all safety properties
of the passing runs are proved. Next:

1. An abstract byte channel that each direction of `Socks` implements.
2. Safety of `Children` (a command reads only pipes that were meant for it) as invariants
   with a theorem.

## Not modelled

* `connect_sock`, `ctrl_c_handler`, `child_handler`, `cmd_who`, formatting, the HTML
  panels and `set_html_format`: input and output without state the properties
  depend on.
* `parse_query_string` of the consoles and `make_socks4a_request`: conversions whose
  result the models take as given.
* Reads beyond the tables (ids above `max_client_num` after `<` and `>` in
  `np_multi_proc.c`, requests with too few words, malformed rule files): undefined,
  and not entered.
* Lines that combine a numbered pipe that is due with `<n`, or a user pipe with
  `|n`, except in `Children`, where the numbered pipe comes first as in the code.
* Scripts without `exit`: the console then answers every prompt with an empty line,
  for ever. The line is also written from a buffer of `start_write` that is gone
  when the write completes; a line is short enough to be taken at once.
