----------------------------- MODULE HttpServer -----------------------------
(***************************************************************************)
(* http_server.cpp: one thread runs the completion handlers of all the     *)
(* sessions. The handler of the read puts half of the CGI variables in the *)
(* environment of the process, the handler of the write the other half,    *)
(* and then forks the CGI program. Handlers are atomic; those of different *)
(* sessions come in any order.                                             *)
(*                                                                         *)
(* A request is known by its session: a variable of the environment holds  *)
(* the session whose request (or whose connection) it describes.           *)
(*                                                                         *)
(* An operator X_Y that is used nowhere is X with the mistake Y; it is kept *)
(* to show which property notices the mistake.                             *)
(***************************************************************************)
EXTENDS Naturals, FiniteSets

CONSTANTS
    Session,    \* the connections
    Plain,      \* the sessions whose URI has no "?"
    Unset,      \* a variable that is not set
    Garbage     \* what setenv(name, NULL, 1) may leave

ASSUME PlainAssumption == Plain \subseteq Session
ASSUME NameAssumption == Unset \notin Session /\ Garbage \notin Session

VARIABLES
    up,         \* global_io_context.run() has not returned
    at,         \* where each session is
    asked,      \* the client has sent its request
    client,     \* the client is "there", has "shut" its sending side or is "gone"
    request,    \* REQUEST_METHOD, REQUEST_URI, SERVER_PROTOCOL, HTTP_HOST
    query,      \* QUERY_STRING and the four addresses
    cgi         \* what the program of each session sees

vars == <<up, at, asked, client, request, query, cgi>>

NoCgi == [request |-> Unset, query |-> Unset]

Init ==
    /\ up = TRUE
    /\ at = [s \in Session |-> "new"]
    /\ asked = [s \in Session |-> FALSE]
    /\ client = [s \in Session |-> "there"]
    /\ request = Unset /\ query = Unset
    /\ cgi = [s \in Session |-> NoCgi]

\* do_accept: the session starts with a read; the next accept is started.
do_accept(s) ==
    /\ up /\ at[s] = "new"
    /\ at' = [at EXCEPT ![s] = "read"]
    /\ UNCHANGED <<up, asked, client, request, query, cgi>>

\* The client sends its request, in its own time or never ...
Ask(s) ==
    /\ at[s] = "read" /\ ~asked[s] /\ client[s] = "there"
    /\ asked' = [asked EXCEPT ![s] = TRUE]
    /\ UNCHANGED <<up, at, client, request, query, cgi>>

\* ... ends its sending side, or closes the connection.
Leave(s) ==
    /\ at[s] \in {"read", "write"}
    /\ \/ client[s] = "there" /\ client' = [client EXCEPT ![s] = "shut"]
       \/ client[s] # "gone" /\ client' = [client EXCEPT ![s] = "gone"]
    /\ UNCHANGED <<up, at, asked, request, query, cgi>>

\* do_read completes: the variables of the request line, then the write.
StartWrite_Forgotten(s) == UNCHANGED at
StartWrite(s) == at' = [at EXCEPT ![s] = "write"]

do_read(s) ==
    /\ up /\ at[s] = "read" /\ asked[s]
    /\ request' = s
    /\ StartWrite(s)
    /\ UNCHANGED <<up, asked, client, query, cgi>>

\* do_read or do_write completes with an error: the session is dropped.
Drop(s) ==
    /\ up
    /\ \/ at[s] = "read" /\ client[s] = "shut" /\ ~asked[s]
       \/ at[s] \in {"read", "write"} /\ client[s] = "gone"
    /\ at' = [at EXCEPT ![s] = "dropped"]
    /\ UNCHANGED <<up, asked, client, request, query, cgi>>

\* do_write completes: the query (REQUEST_URI of the session is a member, set by
\* its own read) and the addresses, fork, exec. A client that has only ended its
\* sending side is served. A fork that fails is taken for the parent, which closes
\* the socket.
do_write(s) ==
    /\ up /\ at[s] = "write" /\ client[s] # "gone"
    /\ query' = IF s \in Plain THEN Garbage ELSE s
    /\ \/ /\ cgi' = [cgi EXCEPT ![s] = [request |-> request, query |-> query']]
          /\ at' = [at EXCEPT ![s] = "done"]
       \/ /\ at' = [at EXCEPT ![s] = "dropped"]
          /\ UNCHANGED cgi
    /\ UNCHANGED <<up, asked, client, request>>

\* The handler ends the server. The client went after the write had succeeded:
\* remote_endpoint() throws, and main leaves run() for its catch. Or the URI has
\* no "?": setenv() is given a null pointer, which a libc may dereference.
Die(s) ==
    /\ up /\ at[s] = "write"
    /\ client[s] = "gone" \/ s \in Plain
    /\ up' = FALSE
    /\ UNCHANGED <<at, asked, client, request, query, cgi>>

Next ==
    \E s \in Session :
        do_accept(s) \/ Ask(s) \/ Leave(s) \/ do_read(s) \/ Drop(s) \/ do_write(s)
        \/ Die(s)

Spec == Init /\ [][Next]_vars

\* The event loop runs every handler that is ready; a client need not send
\* anything or leave.
Handlers(s) == do_read(s) \/ Drop(s) \/ do_write(s) \/ Die(s)
FairSpec == Spec /\ \A s \in Session : WF_vars(Handlers(s))

-----------------------------------------------------------------------------
(* Properties. *)

\* Every variable keeps its type.
TypeOK ==
    /\ up \in BOOLEAN
    /\ at \in [Session -> {"new", "read", "write", "done", "dropped"}]
    /\ asked \in [Session -> BOOLEAN]
    /\ client \in [Session -> {"there", "shut", "gone"}]
    /\ request \in Session \cup {Unset}
    /\ query \in Session \cup {Unset, Garbage}
    /\ cgi \in [Session -> [request : Session \cup {Unset},
                            query : Session \cup {Unset, Garbage}]]

Ended(s) == at[s] \in {"done", "dropped"}

\* While the server runs, every session whose client has sent its request or ended
\* its side comes to its end. (do_read starts the write, do_write the program; an
\* error ends the session. There is no timeout: a silent client keeps its session.)
SessionsEnd ==
    \A s \in Session :
        at[s] = "read" /\ (asked[s] \/ client[s] # "there") ~> Ended(s) \/ ~up

\* At most one session is between the handler of its read and its fork.
Alone == \A s, t \in Session : at[s] = "write" /\ at[t] = "write" => s = t

-----------------------------------------------------------------------------
(* Expected of the code, and not kept by it; nothing above relies on these. *)

\* "before executing console.cgi, you need to set the corresponding environment
\* variables": the request a program sees is its own. (do_read sets them for
\* the whole process; another session's read may come before the fork.)
RequestIsOwn == \A s \in Session : at[s] = "done" => cgi[s].request = s

\* "capable of managing hundreds of simultaneous client sessions": a client that
\* has sent its request and stays is served, whatever the other clients do.
\* (do_write: remote_endpoint() throws, and main ends the server.)
EveryoneServed ==
    \A s \in Session : at[s] = "read" /\ asked[s] ~> Ended(s) \/ client[s] = "gone"

\* "e.g., /panel.cgi": the server survives a URI without a query, whose client
\* waits for the answer. (do_write: setenv of a null pointer.)
PlainServed ==
    [][\A s \in Plain : at[s] = "write" /\ client[s] = "there" => up']_vars
=============================================================================
