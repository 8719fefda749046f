------------------------------ MODULE Console ------------------------------
(***************************************************************************)
(* One session of the two console.cpp: it connects to a remote shell,      *)
(* directly or, in the console of the SOCKS project, through the proxy,    *)
(* and plays a script: it reads what the shell sends in chunks, shows each *)
(* of them in its part of the page and, when a chunk has a '%' in it,      *)
(* shows and sends the next line of the script. Up to five sessions run in *)
(* one thread and share nothing but the page, of which each has its part.  *)
(*                                                                         *)
(* The shell is that of the rwg servers, the proxy the SOCKS server; of    *)
(* both only what the console meets is kept here. A token stands for some  *)
(* bytes of what the shell sends, and a read returns any number of them    *)
(* that is there and fits in data_. The shell's own read takes any number  *)
(* of the lines that are there, each of them whole, and executes the first *)
(* of them. It answers with some output, which may have a '%' in it, and   *)
(* the prompt; messages of other users may come at any time.               *)
(*                                                                         *)
(* An operator X_Y that is used nowhere is X with the mistake Y; it is kept *)
(* to show which property notices the mistake.                             *)
(***************************************************************************)
EXTENDS Naturals, Sequences

CONSTANTS
    Script,         \* the lines of the file: "cmd" or "exit"
    MaxEndpoints,   \* bound on the addresses a host resolves to
    MaxMsgs,        \* bound on the messages of other users
    MaxBlank,       \* bound on the empty lines sent after the end of the file
    max_length      \* the size of data_ and socks4_reply, in tokens

ASSUME ScriptAssumption ==
    Script \in Seq({"cmd", "exit"}) /\ \E k \in DOMAIN Script : Script[k] = "exit"
ASSUME BoundsAssumption ==
    /\ MaxEndpoints \in Nat \ {0} /\ MaxMsgs \in Nat /\ MaxBlank \in Nat
    /\ max_length \in Nat \ {0, 1, 2}

VARIABLES
    connect_proxy,  \* the session goes through the proxy
    pending,        \* the operation under way, "none" when the session is over
    endpoints,      \* addresses still to be tried, the current one included
    at,             \* lines read from the file
    shown,          \* what was added to the page
    remote,         \* "none", "asked", "granted", "up" or "closed"
    stream,         \* tokens on their way to the console
    inbox,          \* lines on their way to the shell
    dropped,        \* lines the shell has read and not executed
    emitted,        \* number of tokens the shell has sent
    msgs,           \* number of messages among them
    reset           \* the connection was closed with lines unread

console == <<connect_proxy, pending, endpoints, at, shown>>
net == <<remote, stream, inbox, dropped, emitted, msgs, reset>>
vars == <<console, net>>

\* The n-th token of the shell; it is (part of) the answer to line k.
Token(n, mod, k) == [n |-> n, mod |-> mod, line |-> k]
\* The bytes of the proxy's reply; a 0 ends a string.
ReplyByte(code) == Token(0, FALSE, code)
Reply(code) == <<ReplyByte(0), ReplyByte(code), ReplyByte(0)>>
\* What is shown: a token, the line k, or the id of the part of the page.
Line(k) == Token(0, FALSE, k)
HtmlId == Token(0, TRUE, 0)

Init ==
    /\ connect_proxy \in BOOLEAN
    /\ pending = "resolve" /\ endpoints = 0 /\ at = 0 /\ shown = <<>>
    /\ remote = "none" /\ stream = <<>> /\ inbox = <<>> /\ dropped = {}
    /\ emitted = 0 /\ msgs = 0 /\ reset = FALSE

-----------------------------------------------------------------------------
(* The console. *)

\* The shell sends tokens, each with a '%' or not.
Emit(mods, k) ==
    /\ stream' = stream \o [j \in 1..Len(mods) |-> Token(emitted + j, mods[j], k)]
    /\ emitted' = emitted + Len(mods)

Greeting == Emit(<<FALSE, TRUE>>, 0)

\* main, start and start_proxy. A host that does not resolve ends the program
\* with all its sessions, none of which has begun.
start ==
    /\ pending = "resolve"
    /\ \/ pending' = "none" /\ UNCHANGED endpoints
       \/ pending' = "connect" /\ endpoints' \in 1..MaxEndpoints
    /\ UNCHANGED <<connect_proxy, at, shown, net>>

\* start_connect and handle_connect: one address after the other.
handle_connect ==
    /\ pending = "connect"
    /\ \/ /\ endpoints' = endpoints - 1
          /\ pending' = IF endpoints' = 0 THEN "none" ELSE "connect"
          /\ UNCHANGED net
       \/ /\ connect_proxy
          /\ pending' = "send_request" /\ remote' = "asked"
          /\ UNCHANGED <<endpoints, stream, inbox, dropped, emitted, msgs, reset>>
       \/ /\ ~connect_proxy
          /\ pending' = "read" /\ remote' = "up" /\ Greeting
          /\ UNCHANGED <<endpoints, inbox, dropped, msgs, reset>>
    /\ UNCHANGED <<connect_proxy, at, shown>>

\* handle_send_socks4a: the request is out, or the proxy has gone.
handle_send_socks4a ==
    /\ pending = "send_request"
    /\ pending' \in {"receive_reply"} \cup (IF remote = "closed" THEN {"none"} ELSE {})
    /\ UNCHANGED <<connect_proxy, endpoints, at, shown, net>>

\* The end of the connection: after all that was sent, unless it was reset.
EndSeen == remote = "closed" /\ (stream = <<>> \/ reset)

\* handle_receive_socks4: one read, of which the second byte is looked at. What
\* the chunk has after the reply is not used.
handle_receive_socks4 ==
    /\ pending = "receive_reply"
    /\ \/ \E n \in 1..Len(stream) :
             /\ n <= max_length
             /\ pending' = IF n > 1 /\ stream[2] = ReplyByte(90) THEN "read" ELSE "none"
             /\ stream' = SubSeq(stream, n + 1, Len(stream))
       \/ EndSeen /\ pending' = "none" /\ UNCHANGED stream
    /\ UNCHANGED <<connect_proxy, endpoints, at, shown, remote, inbox, dropped,
                   emitted, msgs, reset>>

\* data_ as a string: it ends at a 0, or, when the chunk fills it, after html_id,
\* the member behind it.
AsString_CutShort(chunk) ==
    SubSeq(chunk, 1, IF Len(chunk) = max_length THEN max_length - 1 ELSE Len(chunk))
AsString(chunk) ==
    LET zeros == {j \in DOMAIN chunk : chunk[j].n = 0}
        first == CHOOSE j \in zeros : \A i \in zeros : j <= i
    IN  IF zeros # {} THEN SubSeq(chunk, 1, first - 1)
        ELSE IF Len(chunk) = max_length THEN Append(chunk, HtmlId) ELSE chunk

\* strchr: there is a '%' in what was read.
IncludeMod_AtEnd(text) == text # <<>> /\ text[Len(text)].n > 0 /\ text[Len(text)].mod
IncludeMod(text) == \E j \in DOMAIN text : text[j].n > 0 /\ text[j].mod

\* A line is sent; to a shell that has gone it breaks the connection.
Deliver(k) ==
    IF remote = "closed" THEN reset' = TRUE /\ UNCHANGED inbox
    ELSE inbox' = Append(inbox, k) /\ UNCHANGED reset

\* handle_read: shows the chunk and, after a '%', the next line, which is then
\* sent (start_write); at the end of the file that is an empty line.
handle_read ==
    /\ pending = "read"
    /\ \E n \in 1..Len(stream) :
          LET text == AsString(SubSeq(stream, 1, n))
          IN  /\ n <= max_length
              /\ stream' = SubSeq(stream, n + 1, Len(stream))
              /\ \/ /\ IncludeMod(text) /\ at < Len(Script) + MaxBlank
                    /\ at' = at + 1 /\ shown' = shown \o text \o <<Line(at + 1)>>
                    /\ pending' = "write" /\ Deliver(at + 1)
                 \/ /\ ~IncludeMod(text)
                    /\ shown' = shown \o text
                    /\ UNCHANGED <<at, pending, reset, inbox>>
    /\ UNCHANGED <<connect_proxy, endpoints, remote, dropped, emitted, msgs>>

read_error ==
    /\ pending = "read" /\ EndSeen
    /\ pending' = "none"
    /\ UNCHANGED <<connect_proxy, endpoints, at, shown, net>>

\* handle_write: on to the next chunk, or the end.
handle_write ==
    /\ pending = "write"
    /\ pending' \in {"read"} \cup (IF reset THEN {"none"} ELSE {})
    /\ UNCHANGED <<connect_proxy, endpoints, at, shown, net>>

-----------------------------------------------------------------------------
(* The proxy and the shell. *)

\* The proxy answers the request, or closes the connection without an answer.
ProxyReply ==
    /\ remote = "asked"
    /\ \/ remote' = "granted" /\ stream' = Reply(90)
       \/ remote' = "closed" /\ stream' \in {Reply(91), <<>>}
    /\ UNCHANGED <<console, inbox, dropped, emitted, msgs, reset>>

\* The shell behind the proxy begins.
Begin ==
    /\ remote = "granted"
    /\ remote' = "up" /\ Greeting
    /\ UNCHANGED <<console, inbox, dropped, msgs, reset>>

IsExit(k) == k <= Len(Script) /\ Script[k] = "exit"

\* What the shell sends after line k, read with n - 1 others: a command may have
\* output; an empty line has none, but several in one read are no command.
Responses(k, n) ==
    IF k <= Len(Script) THEN {<<TRUE>>, <<FALSE, TRUE>>, <<TRUE, TRUE>>}
    ELSE IF n = 1 THEN {<<TRUE>>} ELSE {<<FALSE, TRUE>>}

\* run_shell: one read() takes what is there; strtok cuts it after the first
\* line, which is executed. On exit the socket is closed, and what was not read
\* breaks the connection.
Execute ==
    /\ remote = "up"
    /\ \E n \in 1..Len(inbox) :
          LET k == inbox[1]
          IN  /\ inbox' = SubSeq(inbox, n + 1, Len(inbox))
              /\ dropped' = dropped \cup {inbox[j] : j \in 2..n}
              /\ \/ /\ IsExit(k)
                    /\ remote' = "closed" /\ reset' = (n < Len(inbox))
                    /\ UNCHANGED <<stream, emitted>>
                 \/ /\ ~IsExit(k)
                    /\ \E mods \in Responses(k, n) : Emit(mods, k)
                    /\ UNCHANGED <<remote, reset>>
    /\ UNCHANGED <<console, msgs>>

\* A message of another user.
Message ==
    /\ remote = "up" /\ msgs < MaxMsgs
    /\ msgs' = msgs + 1
    /\ \E mod \in BOOLEAN : Emit(<<mod>>, 0)
    /\ UNCHANGED <<console, remote, inbox, dropped, reset>>

-----------------------------------------------------------------------------

Handlers ==
    \/ start \/ handle_connect \/ handle_send_socks4a \/ handle_receive_socks4
    \/ handle_read \/ read_error \/ handle_write
Remote == ProxyReply \/ Begin \/ Execute

Next == Handlers \/ Remote \/ Message

Spec == Init /\ [][Next]_vars

\* The event loop runs the handler of what has completed; the shell executes
\* what it gets and the proxy answers.
FairSpec == Spec /\ WF_vars(Handlers) /\ WF_vars(Remote)

-----------------------------------------------------------------------------
(* Properties. *)

\* Every variable keeps its type.
TypeOK ==
    /\ connect_proxy \in BOOLEAN /\ reset \in BOOLEAN
    /\ pending \in {"resolve", "connect", "send_request", "receive_reply", "read",
                    "write", "none"}
    /\ "connect" = pending => endpoints \in 1..MaxEndpoints
    /\ at \in Nat /\ emitted \in Nat /\ msgs \in 0..MaxMsgs
    /\ remote \in {"none", "asked", "granted", "up", "closed"}
    /\ shown \in Seq([n : Nat, mod : BOOLEAN, line : Nat])
    /\ stream \in Seq([n : Nat, mod : BOOLEAN, line : Nat])
    /\ inbox \in Seq(1..at) /\ dropped \in SUBSET (1..at)

\* Token j is the next one after token i, with nothing but lines in between.
IsToken(j) == shown[j].n > 0
NextToken(i, j) ==
    /\ i < j /\ IsToken(i) /\ IsToken(j)
    /\ \A k \in i+1..j-1 : ~IsToken(k)

\* The page is in order: what the shell sent is shown without a gap or a
\* repetition, from the beginning unless the proxy's reply was read with it, and
\* a line stands before everything the shell answered to it, although lines are
\* sent ahead when an output has a '%' in it. (handle_read, start_write.)
ShownInOrder ==
    /\ \A i, j \in DOMAIN shown : NextToken(i, j) => shown[j].n = shown[i].n + 1
    /\ \A j \in DOMAIN shown :
          ~connect_proxy /\ IsToken(j) /\ (\A k \in 1..j-1 : ~IsToken(k)) =>
              shown[j].n = 1
    /\ \A j \in DOMAIN shown :
          IsToken(j) /\ shown[j].line > 0 =>
              \E i \in 1..j-1 : shown[i] = Line(shown[j].line)

\* When a direct session ends with the shell, all that the shell sent is on the
\* page, unless lines it had not read made the connection break.
\* (handle_read, read_error, handle_write, stop.)
AllShown ==
    ~connect_proxy /\ pending = "none" /\ remote = "closed" /\ ~reset =>
        \A n \in 1..emitted : \E j \in DOMAIN shown : shown[j].n = n

\* The exit was read by the shell together with a line before it.
ExitDropped == \E k \in dropped : IsExit(k)

\* A direct session with a script that has an exit comes to its end, however the
\* stream is cut into chunks, whatever has a '%' in it, whichever other lines the
\* shell drops and whoever sends messages in between: the console and the shell
\* never wait for each other. Only an exit that was dropped keeps it going.
\* (handle_read, start_write, handle_write; run_shell.)
SessionEnds ==
    ~connect_proxy /\ pending = "connect" ~> pending = "none" \/ ExitDropped

-----------------------------------------------------------------------------
(* Expected of the code, and not kept by it; nothing above relies on these. *)

\* The same through the proxy: "Connect to 5 ras/rwg servers through SOCKS server
\* and check the output". A prompt that is read with the proxy's reply is lost,
\* and the console and the shell wait for each other. (handle_receive_socks4.)
ProxySessionEnds ==
    connect_proxy /\ pending = "connect" ~> pending = "none" \/ ExitDropped

\* "send them line-by-line whenever you receive a shell prompt": every line that
\* is sent is executed. A '%' in the output is taken for the prompt, and of the
\* lines that are sent ahead the shell executes the first. (strchr in
\* handle_read; read and strtok in run_shell.)
LinesExecuted == dropped = {}

\* Nothing is shown that the shell did not send and the script does not have.
\* (print_output of a chunk that fills data_.)
NothingAdded == \A j \in DOMAIN shown : shown[j] # HtmlId
=============================================================================
