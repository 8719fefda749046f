------------------------------- MODULE Socks -------------------------------
(***************************************************************************)
(* One child of socks_server.cpp: the session that answers a SOCKS request *)
(* and the client of connect_to_dest.hpp that then relays between the      *)
(* source (the SOCKS client) and the destination.                          *)
(*                                                                         *)
(* pending is the set of asynchronous operations that have been started;   *)
(* each completes in an action of its own, which is its handler. When      *)
(* nothing is pending, run() returns and the process ends. stop() closes   *)
(* both sockets; the operations it cancels return at once (stopped_), so   *)
(* they leave pending together.                                            *)
(*                                                                         *)
(* Abstractions: bytes are numbers in the order they were sent. A peer is  *)
(* "there", has "shut" its sending side but still reads, or is "gone". The *)
(* text of the destination's address has one entry when it is resolved.    *)
(* lawful is a history variable: what the rule file meant for the request. *)
(*                                                                         *)
(* An operator X_Y that is used nowhere is X with the mistake Y; it is kept *)
(* to show which property notices the mistake.                             *)
(***************************************************************************)
EXTENDS Firewall

CONSTANTS
    Ops,            \* requests the client may make: "connect", "bind"
    MaxBytes,       \* bound on the bytes each side sends
    max_length      \* size of the buffers data_source and data_dest

ASSUME OpsAssumption == Ops \subseteq {"connect", "bind"}
ASSUME LengthAssumption ==
    MaxBytes \in Nat /\ max_length \in Nat \ {0}

VARIABLES
    op,         \* the request, "none" before it was read
    lawful,     \* the rules allow the request
    endpoints,  \* addresses still to be tried, the current one included
    pending,    \* asynchronous operations under way
    stopped_,   \* stop() was called
    eof,        \* the side whose end of data made the relay stop, or "none"
    replies,    \* the codes of the replies the source has got
    peer,       \* the state of each side
    sent,       \* bytes each side has sent
    taken,      \* bytes read from each side
    buf,        \* data_source, data_dest: the bytes last read from a side
    got         \* the bytes each side has got

net == <<peer, sent>>
vars == <<op, lawful, endpoints, pending, stopped_, eof, replies, peer, sent,
          taken, buf, got>>

Side == {"source", "dest"}
Other(x) == IF x = "source" THEN "dest" ELSE "source"
Read(x) == IF x = "source" THEN "read_source" ELSE "read_dest"
Write(y) == IF y = "source" THEN "write_source" ELSE "write_dest"
Reads == {Read(x) : x \in Side}
Writes == {Write(y) : y \in Side}

Init ==
    /\ op = "none" /\ lawful = FALSE /\ endpoints = 0
    /\ pending = {"request"}
    /\ stopped_ = FALSE /\ eof = "none"
    /\ replies = <<>>
    /\ peer = [x \in Side |-> IF x = "source" THEN "there" ELSE "none"]
    /\ sent = [x \in Side |-> 0]
    /\ taken = [x \in Side |-> 0]
    /\ buf = [x \in Side |-> <<>>]
    /\ got = [x \in Side |-> <<>>]

-----------------------------------------------------------------------------
(* The session. *)

data_unchanged == UNCHANGED <<sent, taken, buf, got>>

\* do_read: a name that does not resolve ends the process, as the resolver
\* throws; one without an IPv4 address leaves the text of the destination empty.
\* The file is read anew for every request. A request it does not allow is
\* answered with 91; CONNECT starts with the address, BIND opens a port and
\* answers with it.
do_read(o) ==
    /\ "request" \in pending
    /\ op' = o
    /\ \/ pending' = {} /\ UNCHANGED <<lawful, endpoints>>
       \/ \E dest \in Addresses \cup {<<>>}, file \in Files :
             /\ lawful' = Lawful(o, dest, file)
             /\ \/ /\ check_dest_ip(o, Text(dest), file)
                   /\ \/ o = "connect" /\ pending' = {"connect"} /\ endpoints' = 1
                      \/ o = "bind" /\ pending' = {"accept", "port_reply"}
                         /\ UNCHANGED endpoints
                \/ /\ ~check_dest_ip(o, Text(dest), file)
                   /\ pending' = {"reject"} /\ UNCHANGED endpoints
    /\ UNCHANGED <<stopped_, eof, replies, peer>> /\ data_unchanged

\* The source left before its request was read.
NoRequest ==
    /\ "request" \in pending /\ peer["source"] # "there"
    /\ pending' = {}
    /\ UNCHANGED <<op, lawful, endpoints, stopped_, eof, replies, peer>> /\ data_unchanged

\* The source gets a reply unless it is gone.
Told(code) == replies' = IF peer["source"] = "gone" THEN replies
                         ELSE Append(replies, code)

\* reply_to_client: nothing follows, except the accept that may be under way.
reply_to_client ==
    /\ \/ "reject" \in pending /\ pending' = {} /\ Told(91)
       \/ "port_reply" \in pending /\ pending' = pending \ {"port_reply"} /\ Told(90)
    /\ UNCHANGED <<op, lawful, endpoints, stopped_, eof, peer>> /\ data_unchanged

-----------------------------------------------------------------------------
(* The client object. *)

Stop == stopped_' = TRUE /\ pending' = {}

\* reply_source: nothing is read before the reply is out.
reply_source_Early(w) == pending' = (pending \ {w}) \cup {"reply"} \cup Reads
reply_source(w) == pending' = (pending \ {w}) \cup {"reply"}

\* start_connect: the next address, until the list of endpoints is at its end.
start_connect_Unchecked(n) == endpoints' = n /\ UNCHANGED <<pending, stopped_>>
start_connect(n) ==
    \/ n > 0 /\ endpoints' = n /\ UNCHANGED <<pending, stopped_>>
    \/ n = 0 /\ endpoints' = n /\ Stop

\* handle_connect: the first address that answers is taken.
handle_connect ==
    /\ "connect" \in pending
    /\ \/ /\ peer' = [peer EXCEPT !["dest"] = "there"]
          /\ reply_source("connect")
          /\ UNCHANGED <<endpoints, stopped_>>
       \/ start_connect(endpoints - 1) /\ UNCHANGED peer
    /\ UNCHANGED <<op, lawful, eof, replies>> /\ data_unchanged

\* The destination, which the source has told the port, connects to it.
bind_operation ==
    /\ "accept" \in pending /\ replies = <<90>>
    /\ peer' = [peer EXCEPT !["dest"] = "there"]
    /\ reply_source("accept")
    /\ UNCHANGED <<op, lawful, endpoints, stopped_, eof, replies>> /\ data_unchanged

\* handle_reply_to_source, and start_read.
handle_reply_to_source ==
    /\ "reply" \in pending
    /\ \/ pending' = (pending \ {"reply"}) \cup Reads /\ UNCHANGED stopped_
       \/ peer["source"] = "gone" /\ Stop
    /\ Told(90)
    /\ UNCHANGED <<op, lawful, endpoints, eof, peer>> /\ data_unchanged

\* What follows a read: the chunk is written to the other side before the
\* buffer is used again.
AfterRead_ReadsOn(x) == pending' = pending \cup {Write(Other(x))}
AfterRead(x) == pending' = (pending \ {Read(x)}) \cup {Write(Other(x))}

\* handle_source_read and handle_dest_read: a chunk ...
handle_read(x) ==
    /\ Read(x) \in pending
    /\ \E n \in 1..max_length :
          /\ taken[x] + n <= sent[x]
          /\ buf' = [buf EXCEPT ![x] = [i \in 1..n |-> taken[x] + i]]
          /\ taken' = [taken EXCEPT ![x] = @ + n]
    /\ AfterRead(x)
    /\ UNCHANGED <<op, lawful, endpoints, stopped_, eof, replies, net, got>>

\* ... or the end: an orderly one after all the data, or an error.
AtEnd_Ignored(x) == pending' = pending \ {Read(x)} /\ UNCHANGED stopped_
AtEnd(x) == Stop

read_error(x) ==
    /\ Read(x) \in pending
    /\ \/ peer[x] = "shut" /\ taken[x] = sent[x] /\ eof' = x
       \/ peer[x] = "gone" /\ UNCHANGED eof
    /\ AtEnd(x)
    /\ UNCHANGED <<op, lawful, endpoints, replies, net, taken, buf, got>>

\* handle_source_write and handle_dest_write: the chunk of the other side has
\* been sent to y. When y is gone it is lost, with an error or without one.
handle_write(y) ==
    LET x == Other(y)
    IN  /\ Write(y) \in pending
        /\ \/ /\ got' = IF peer[y] = "gone" THEN got
                        ELSE [got EXCEPT ![y] = @ \o buf[x]]
              /\ pending' = (pending \ {Write(y)}) \cup {Read(x)}
              /\ UNCHANGED stopped_
           \/ /\ peer[y] = "gone"
              /\ Stop
              /\ UNCHANGED got
        /\ UNCHANGED <<op, lawful, endpoints, eof, replies, net, taken, buf>>

-----------------------------------------------------------------------------
(* The peers. The source sends nothing before it has its last reply. *)

Granted == replies = IF op = "bind" THEN <<90, 90>> ELSE <<90>>

Send(x) ==
    /\ peer[x] = "there" /\ sent[x] < MaxBytes /\ ~stopped_
    /\ x = "source" => Granted
    /\ sent' = [sent EXCEPT ![x] = @ + 1]
    /\ UNCHANGED <<op, lawful, endpoints, pending, stopped_, eof, replies, peer,
                   taken, buf, got>>

Leave(x) ==
    /\ ~stopped_
    /\ \/ peer[x] = "there" /\ peer' = [peer EXCEPT ![x] = "shut"]
       \/ peer[x] \in {"there", "shut"} /\ peer' = [peer EXCEPT ![x] = "gone"]
    /\ UNCHANGED <<op, lawful, endpoints, pending, stopped_, eof, replies, sent,
                   taken, buf, got>>

Handlers ==
    \/ \E o \in Ops : do_read(o)
    \/ NoRequest \/ reply_to_client \/ handle_connect
    \/ handle_reply_to_source
    \/ \E x \in Side : handle_read(x) \/ read_error(x) \/ handle_write(x)

Next == Handlers \/ bind_operation \/ \E x \in Side : Send(x) \/ Leave(x)

Spec == Init /\ [][Next]_vars

\* The event loop runs the handler of everything that has completed, in each
\* direction, and a peer that stays reads what it is sent, so that writes
\* complete; whether a destination ever connects to a BIND is its own affair.
FairSpec ==
    /\ Spec /\ WF_vars(Handlers)
    /\ \A x \in Side : WF_vars(handle_read(x) \/ read_error(x) \/ handle_write(x))

-----------------------------------------------------------------------------
(* Properties. *)

\* Every variable keeps its type.
TypeOK ==
    /\ op \in {"none", "connect", "bind"} /\ lawful \in BOOLEAN /\ endpoints \in 0..1
    /\ pending \subseteq {"request", "reject", "connect", "accept", "port_reply",
                          "reply"} \cup Reads \cup Writes
    /\ "connect" \in pending => endpoints > 0
    /\ stopped_ \in BOOLEAN /\ eof \in Side \cup {"none"}
    /\ replies \in Seq({90, 91})
    /\ peer \in [Side -> {"none", "there", "shut", "gone"}]
    /\ sent \in [Side -> 0..MaxBytes] /\ taken \in [Side -> 0..MaxBytes]
    /\ buf \in [Side -> Seq(1..MaxBytes)] /\ got \in [Side -> Seq(1..MaxBytes)]

\* The rules are kept, octet by octet and with nothing allowed by default: a
\* destination is contacted, or a port opened for it, only for a request that a
\* rule permits, and what is permitted is not refused. (check_dest_ip, whose
\* character loop knows no octets, and do_read.)
FirewallKept ==
    /\ endpoints > 0 \/ "accept" \in pending \/ 90 \in {replies[n] : n \in DOMAIN replies}
       => lawful
    /\ "reject" \in pending \/ 91 \in {replies[n] : n \in DOMAIN replies} => ~lawful

\* A side gets the bytes of the other one in order, without a gap and none of
\* them twice: a buffer is not filled again before it was written.
\* (handle_source_read, handle_dest_write and their counterparts.)
InOrder ==
    \A x \in Side :
        /\ Len(got[Other(x)]) <= taken[x]
        /\ \A i \in 1..Len(got[Other(x)]) : got[Other(x)][i] = i

\* A transfer that its sender ended in order is complete when the relay stops,
\* unless the receiver is gone: the end of one side closes both sockets, yet
\* cuts off nothing of that side. (handle_source_read, handle_dest_read, stop.)
EndIsComplete ==
    eof # "none" /\ peer[Other(eof)] # "gone" => Len(got[Other(eof)]) = sent[eof]

\* The source sees its replies before any data. (reply_source, start_read.)
DataAfterReply == got["source"] # <<>> => Granted

\* When one side is gone the relay of both directions ends. (stop.)
Relaying == pending \cap (Reads \cup Writes) # {}
RelayEnds ==
    \A x \in Side : Relaying /\ peer[x] = "gone" ~> pending = {}

-----------------------------------------------------------------------------
(* Expected of the code, and not kept by it; nothing above relies on these. *)

\* "SOCKS4_REPLY packet (VN=0, CD=90(accepted) or 91(rejected or failed))": a
\* request that fails is answered. (connect_operation when the name does not
\* resolve, start_connect at the end of the list.)
FailedIsTold ==
    pending = {} /\ op # "none" /\ peer["source"] # "gone" => replies # <<>>

\* "Start relaying traffic on both directions": a source that has sent all and
\* still reads gets everything the destination sends. (stop.)
HalfOpenServed ==
    stopped_ /\ eof = "source" /\ peer["source"] = "shut" /\ peer["dest"] = "there"
    => Len(got["source"]) = sent["dest"]
=============================================================================
