---------------------------- MODULE Socks_proofs ----------------------------
(***************************************************************************)
(* Proofs about Socks, for any number of bytes, any size of the buffers    *)
(* and any rule file.                                                      *)
(*                                                                         *)
(* The handlers of the session are taken one after the other until the     *)
(* relay starts (Phases); from then on each direction is either about to   *)
(* read or about to write what it has read (Direction), which is why a     *)
(* buffer is never filled twice; and nothing happens after stop() (Ended). *)
(***************************************************************************)
EXTENDS Socks, Firewall_proofs, SequenceTheorems, TLAPS

Early == {"request", "reject", "connect", "accept", "port_reply", "reply"}

\* What is under way before the relay, with the replies sent so far.
Phases ==
    /\ "request" \in pending => pending = {"request"} /\ op = "none" /\ replies = <<>>
    /\ "reject" \in pending => pending = {"reject"} /\ replies = <<>>
    /\ "connect" \in pending => pending = {"connect"} /\ op = "connect" /\ replies = <<>>
    /\ "port_reply" \in pending =>
          pending \subseteq {"accept", "port_reply"} /\ op = "bind" /\ replies = <<>>
    /\ "accept" \in pending => pending \subseteq {"accept", "port_reply"} /\ op = "bind"
    /\ "reply" \in pending =>
          /\ pending = {"reply"}
          /\ replies = IF op = "bind" THEN <<90>> ELSE <<>>
    /\ pending \cap Early # {} => \A x \in Side : taken[x] = 0 /\ got[x] = <<>>

\* One direction of the relay: all that was read has been written, or is in the
\* buffer that is about to be, unless the receiver is gone.
Direction(x) ==
    /\ taken[x] <= sent[x]
    /\ Len(got[Other(x)]) <= taken[x]
    /\ \A i \in 1..Len(got[Other(x)]) : got[Other(x)][i] = i
    /\ ~(Read(x) \in pending /\ Write(Other(x)) \in pending)
    /\ Read(x) \in pending /\ peer[Other(x)] # "gone" => Len(got[Other(x)]) = taken[x]
    /\ Write(Other(x)) \in pending /\ peer[Other(x)] # "gone" =>
          /\ Len(got[Other(x)]) + Len(buf[x]) = taken[x]
          /\ \A i \in 1..Len(buf[x]) : buf[x][i] = taken[x] - Len(buf[x]) + i

\* Nothing is under way after stop(), and only stop() follows an end of data.
Ended ==
    /\ stopped_ => pending = {}
    /\ eof # "none" => stopped_

\* The relay starts when the source has its last reply, or is gone.
Replied ==
    /\ pending \cap (Reads \cup Writes) # {} => Granted \/ peer["source"] = "gone"
    /\ DataAfterReply

Relay == \A x \in Side : Direction(x)

Inv == TypeOK /\ Phases /\ Relay /\ Ended /\ Replied /\ EndIsComplete

USE OpsAssumption, LengthAssumption

\* The two sides, and the operations on each, are told apart by their names.
LEMMA SideFacts ==
    /\ Side = {"source", "dest"}
    /\ Other("source") = "dest" /\ Other("dest") = "source"
    /\ Read("source") = "read_source" /\ Read("dest") = "read_dest"
    /\ Write("source") = "write_source" /\ Write("dest") = "write_dest"
    /\ Reads = {"read_source", "read_dest"}
    /\ Writes = {"write_source", "write_dest"}
BY DEF Side, Other, Read, Write, Reads, Writes

\* Initially the request is awaited and nothing has been sent.
LEMMA InvInit == Init => Inv
<1> SUFFICES ASSUME Init PROVE Inv
    OBVIOUS
<1> USE SideFacts
<1>1. TypeOK
    <2>1. <<>> \in Seq(1..MaxBytes) /\ <<>> \in Seq({90, 91})
        BY EmptySeq
    <2>2. peer \in [Side -> {"none", "there", "shut", "gone"}]
        BY DEF Init
    <2>3. sent \in [Side -> 0..MaxBytes] /\ taken \in [Side -> 0..MaxBytes]
        BY DEF Init
    <2>4. buf \in [Side -> Seq(1..MaxBytes)] /\ got \in [Side -> Seq(1..MaxBytes)]
        BY <2>1 DEF Init
    <2>5. /\ op = "none" /\ lawful = FALSE /\ endpoints = 0 /\ pending = {"request"}
          /\ stopped_ = FALSE /\ eof = "none" /\ replies = <<>>
        BY DEF Init
    <2> HIDE SideFacts
    <2>6. lawful \in BOOLEAN /\ stopped_ \in BOOLEAN /\ replies \in Seq({90, 91})
        BY <2>1, <2>5
    <2>7. /\ op \in {"none", "connect", "bind"} /\ endpoints \in 0..1
          /\ eof \in Side \cup {"none"} /\ "connect" \notin pending
        BY <2>5
    <2>8. pending \subseteq {"request", "reject", "connect", "accept", "port_reply",
                             "reply"} \cup Reads \cup Writes
        BY <2>5
    <2> QED
        BY <2>2, <2>3, <2>4, <2>6, <2>7, <2>8 DEF TypeOK
<1>2. Phases
    BY DEF Init, Phases
<1>3. Relay
    BY DEF Init, Relay, Direction
<1>4. Ended /\ EndIsComplete
    BY DEF Init, Ended, EndIsComplete
<1>5. Replied
    BY DEF Init, Replied, DataAfterReply
<1> QED
    BY <1>1, <1>2, <1>3, <1>4, <1>5 DEF Inv

\* A chunk of n bytes is a sequence of bytes.
LEMMA ChunkType ==
    ASSUME NEW n \in Nat, NEW t \in Nat, t + n <= MaxBytes
    PROVE  [i \in 1..n |-> t + i] \in Seq(1..MaxBytes)
BY SeqDef

\* Every handler keeps the types.
LEMMA TypeNext == TypeOK /\ [Next]_vars => TypeOK'
<1> SUFFICES ASSUME TypeOK, [Next]_vars PROVE TypeOK'
    OBVIOUS
<1> USE SideFacts DEF TypeOK
<1>1. CASE UNCHANGED vars
    BY <1>1 DEF vars
<1>2. ASSUME NEW o \in Ops, do_read(o) PROVE TypeOK'
    <2>1. lawful' \in BOOLEAN
        BY <1>2 DEF do_read, Lawful
    <2>2. op' \in {"none", "connect", "bind"}
        BY <1>2 DEF do_read
    <2>3. /\ pending' \subseteq {"connect", "accept", "port_reply", "reject"}
          /\ endpoints' \in 0..1 /\ ("connect" \in pending' => endpoints' > 0)
        <3>1. \/ pending' = {} /\ endpoints' = endpoints
              \/ pending' = {"connect"} /\ endpoints' = 1
              \/ pending' = {"accept", "port_reply"} /\ endpoints' = endpoints
              \/ pending' = {"reject"} /\ endpoints' = endpoints
            BY <1>2, Zenon DEF do_read
        <3>2. endpoints \in 0..1
            OBVIOUS
        <3> HIDE SideFacts DEF TypeOK
        <3> QED
            BY <3>1, <3>2
    <2>4. UNCHANGED <<stopped_, eof, replies, peer, sent, taken, buf, got>>
        BY <1>2 DEF do_read, data_unchanged
    <2> QED
        BY <2>1, <2>2, <2>3, <2>4
<1>3. CASE NoRequest
    BY <1>3 DEF NoRequest, data_unchanged
<1>4. CASE reply_to_client
    <2>1. replies' \in Seq({90, 91})
        <3>1. \/ replies' = replies
              \/ replies' = Append(replies, 90) \/ replies' = Append(replies, 91)
            BY <1>4, Zenon DEF reply_to_client, Told
        <3>2. /\ Append(replies, 90) \in Seq({90, 91})
              /\ Append(replies, 91) \in Seq({90, 91})
            BY AppendProperties
        <3> QED
            BY <3>1, <3>2
    <2>2. pending' \subseteq pending
        BY <1>4 DEF reply_to_client
    <2>3. UNCHANGED <<op, lawful, endpoints, stopped_, eof, peer, sent, taken, buf, got>>
        BY <1>4 DEF reply_to_client, data_unchanged
    <2> QED
        BY <2>1, <2>2, <2>3
<1>5. CASE handle_connect
    <2>1. /\ endpoints' \in 0..1 /\ stopped_' \in BOOLEAN
          /\ pending' \subseteq pending \cup {"reply"}
          /\ "connect" \in pending' => endpoints' > 0
        <3>1. CASE reply_source("connect") /\ UNCHANGED <<endpoints, stopped_>>
            BY <3>1 DEF reply_source
        <3>2. CASE start_connect(endpoints - 1)
            <4>1. endpoints = 1
                BY <1>5 DEF handle_connect
            <4> QED
                BY <3>2, <4>1 DEF start_connect, Stop
        <3> QED
            BY <1>5, <3>1, <3>2 DEF handle_connect
    <2>2. peer' \in [Side -> {"none", "there", "shut", "gone"}]
        BY <1>5 DEF handle_connect
    <2>3. UNCHANGED <<op, lawful, eof, replies, sent, taken, buf, got>>
        BY <1>5 DEF handle_connect, data_unchanged
    <2> QED
        BY <2>1, <2>2, <2>3
<1>6. CASE bind_operation
    BY <1>6 DEF bind_operation, reply_source, data_unchanged
<1>7. CASE handle_reply_to_source
    <2>1. replies' \in Seq({90, 91})
        BY <1>7 DEF handle_reply_to_source, Told
    <2>2. pending' \subseteq pending \cup Reads /\ stopped_' \in BOOLEAN
        BY <1>7 DEF handle_reply_to_source, Stop
    <2>3. UNCHANGED <<op, lawful, endpoints, eof, peer, sent, taken, buf, got>>
        BY <1>7 DEF handle_reply_to_source, data_unchanged
    <2> QED
        BY <2>1, <2>2, <2>3
<1>8. ASSUME NEW x \in Side, handle_read(x) PROVE TypeOK'
    <2>1. PICK n \in 1..max_length :
             /\ taken[x] + n <= sent[x]
             /\ buf' = [buf EXCEPT ![x] = [i \in 1..n |-> taken[x] + i]]
             /\ taken' = [taken EXCEPT ![x] = @ + n]
        BY <1>8, Zenon DEF handle_read
    <2>2. PICK t \in 0..MaxBytes, s \in 0..MaxBytes : t = taken[x] /\ s = sent[x]
        OBVIOUS
    <2>3. /\ buf \in [Side -> Seq(1..MaxBytes)] /\ taken \in [Side -> 0..MaxBytes]
          /\ MaxBytes \in Nat /\ max_length \in Nat
        OBVIOUS
    <2>4. /\ pending' \subseteq pending \cup Writes
          /\ "connect" \in pending' => "connect" \in pending
        <3>1. pending' = (pending \ {Read(x)}) \cup {Write(Other(x))}
            BY <1>8, Zenon DEF handle_read, AfterRead
        <3>2. Write(Other(x)) \in {"write_source", "write_dest"}
            OBVIOUS
        <3> HIDE DEF TypeOK
        <3> QED
            BY <3>1, <3>2
    <2>5. UNCHANGED <<op, lawful, endpoints, stopped_, eof, replies, peer, sent, got>>
        BY <1>8, Zenon DEF handle_read, net
    <2>6. [i \in 1..n |-> t + i] \in Seq(1..MaxBytes) /\ t + n \in 0..MaxBytes
        <3> HIDE SideFacts DEF TypeOK
        <3>1. n \in Nat /\ t \in Nat /\ t + n <= MaxBytes
            BY <2>1, <2>2, <2>3
        <3> QED
            BY <2>3, <3>1, ChunkType
    <2>7. buf' \in [Side -> Seq(1..MaxBytes)] /\ taken' \in [Side -> 0..MaxBytes]
        <3> HIDE SideFacts DEF TypeOK
        <3> QED
            BY <2>1, <2>2, <2>3, <2>6
    <2> QED
        BY <2>4, <2>5, <2>7
<1>9. ASSUME NEW x \in Side, read_error(x) PROVE TypeOK'
    BY <1>9 DEF read_error, AtEnd, Stop, net
<1>10. ASSUME NEW y \in Side, handle_write(y) PROVE TypeOK'
    <2>1. PICK r \in Seq(1..MaxBytes) : r = got[y] \o buf[Other(y)]
        BY ConcatProperties
    <2>2. got' \in [Side -> Seq(1..MaxBytes)]
        <3>1. got' = got \/ got' = [got EXCEPT ![y] = r]
            BY <1>10, <2>1 DEF handle_write
        <3> QED
            BY <3>1
    <2>3. /\ pending' \subseteq pending \cup Reads /\ stopped_' \in BOOLEAN
          /\ "connect" \in pending' => "connect" \in pending
        <3>1. \/ pending' = (pending \ {Write(y)}) \cup {Read(Other(y))} /\ stopped_' = stopped_
              \/ pending' = {} /\ stopped_' = TRUE
            BY <1>10, Zenon DEF handle_write, Stop
        <3>2. Read(Other(y)) \in {"read_source", "read_dest"} /\ stopped_ \in BOOLEAN
            OBVIOUS
        <3> HIDE DEF TypeOK
        <3> QED
            BY <3>1, <3>2
    <2>4. UNCHANGED <<op, lawful, endpoints, eof, replies, peer, sent, taken, buf>>
        BY <1>10, Zenon DEF handle_write, net
    <2> QED
        BY <2>2, <2>3, <2>4
<1>11. ASSUME NEW x \in Side, Send(x) PROVE TypeOK'
    <2>1. sent[x] < MaxBytes /\ sent' = [sent EXCEPT ![x] = @ + 1]
        BY <1>11, Zenon DEF Send
    <2>2. UNCHANGED <<op, lawful, endpoints, pending, stopped_, eof, replies, peer,
                      taken, buf, got>>
        BY <1>11, Zenon DEF Send
    <2>3. sent' \in [Side -> 0..MaxBytes]
        <3>1. sent \in [Side -> 0..MaxBytes] /\ MaxBytes \in Nat
            OBVIOUS
        <3> HIDE SideFacts DEF TypeOK
        <3> QED
            BY <2>1, <3>1
    <2> QED
        BY <2>2, <2>3
<1>12. ASSUME NEW x \in Side, Leave(x) PROVE TypeOK'
    BY <1>12 DEF Leave
<1> QED
    BY <1>1, <1>2, <1>3, <1>4, <1>5, <1>6, <1>7, <1>8, <1>9, <1>10, <1>11, <1>12
       DEF Next, Handlers

\* Before the relay the handlers run in the order of the protocol.
LEMMA PhasesNext == TypeOK /\ Phases /\ [Next]_vars => Phases'
<1> SUFFICES ASSUME TypeOK, Phases, [Next]_vars PROVE Phases'
    OBVIOUS
<1> USE SideFacts DEF TypeOK, Phases, Early
<1>1. CASE UNCHANGED vars
    BY <1>1 DEF vars
<1>2. ASSUME NEW o \in Ops, do_read(o) PROVE Phases'
    BY <1>2 DEF do_read, data_unchanged
<1>3. CASE NoRequest
    BY <1>3 DEF NoRequest, data_unchanged
<1>4. CASE reply_to_client
    BY <1>4 DEF reply_to_client, Told, data_unchanged
<1>5. CASE handle_connect
    BY <1>5 DEF handle_connect, reply_source, start_connect, Stop, data_unchanged
<1>6. CASE bind_operation
    BY <1>6, ZenonT(30) DEF bind_operation, reply_source, data_unchanged
<1>7. CASE handle_reply_to_source
    BY <1>7 DEF handle_reply_to_source, Told, Stop, data_unchanged
<1>8. ASSUME NEW x \in Side, handle_read(x) PROVE Phases'
    BY <1>8, SMTT(30) DEF handle_read, AfterRead, net
<1>9. ASSUME NEW x \in Side, read_error(x) PROVE Phases'
    BY <1>9 DEF read_error, AtEnd, Stop, net
<1>10. ASSUME NEW y \in Side, handle_write(y) PROVE Phases'
    <2>1. pending \cap Early = {}
        BY <1>10, SMTT(30) DEF handle_write
    <2>2. pending' \cap Early = {}
        BY <1>10, <2>1 DEF handle_write, Stop
    <2> QED
        BY <2>2
<1>11. ASSUME NEW x \in Side, Send(x) PROVE Phases'
    BY <1>11 DEF Send
<1>12. ASSUME NEW x \in Side, Leave(x) PROVE Phases'
    BY <1>12 DEF Leave
<1> QED
    BY <1>1, <1>2, <1>3, <1>4, <1>5, <1>6, <1>7, <1>8, <1>9, <1>10, <1>11, <1>12
       DEF Next, Handlers

\* stop() is final.
LEMMA EndedNext == TypeOK /\ Phases /\ Ended /\ [Next]_vars => Ended'
<1> SUFFICES ASSUME TypeOK, Phases, Ended, [Next]_vars PROVE Ended'
    OBVIOUS
<1> USE SideFacts DEF TypeOK, Phases, Ended, Early
<1>1. CASE UNCHANGED vars
    BY <1>1 DEF vars
<1>2. ASSUME NEW o \in Ops, do_read(o) PROVE Ended'
    BY <1>2 DEF do_read, data_unchanged
<1>3. CASE NoRequest
    BY <1>3 DEF NoRequest, data_unchanged
<1>4. CASE reply_to_client
    BY <1>4 DEF reply_to_client, Told, data_unchanged
<1>5. CASE handle_connect
    BY <1>5 DEF handle_connect, reply_source, start_connect, Stop, data_unchanged
<1>6. CASE bind_operation
    BY <1>6 DEF bind_operation, reply_source, data_unchanged
<1>7. CASE handle_reply_to_source
    BY <1>7 DEF handle_reply_to_source, Told, Stop, data_unchanged
<1>8. ASSUME NEW x \in Side, handle_read(x) PROVE Ended'
    BY <1>8 DEF handle_read, AfterRead, net
<1>9. ASSUME NEW x \in Side, read_error(x) PROVE Ended'
    BY <1>9 DEF read_error, AtEnd, Stop, net
<1>10. ASSUME NEW y \in Side, handle_write(y) PROVE Ended'
    <2>1. pending # {} /\ ~stopped_ /\ eof = "none"
        BY <1>10 DEF handle_write
    <2>2. eof' = eof
        BY <1>10 DEF handle_write
    <2>3. stopped_' = stopped_ \/ pending' = {}
        BY <1>10, Zenon DEF handle_write, Stop
    <2> QED
        BY <2>1, <2>2, <2>3
<1>11. ASSUME NEW x \in Side, Send(x) PROVE Ended'
    BY <1>11 DEF Send
<1>12. ASSUME NEW x \in Side, Leave(x) PROVE Ended'
    BY <1>12 DEF Leave
<1> QED
    BY <1>1, <1>2, <1>3, <1>4, <1>5, <1>6, <1>7, <1>8, <1>9, <1>10, <1>11, <1>12
       DEF Next, Handlers

\* Sequences of grants are told apart by their lengths.
LEMMA GrantsEqual ==
    ASSUME NEW s \in Seq({90}), NEW t \in Seq({90}), Len(s) = Len(t)
    PROVE  s = t
<1>1. \A i \in 1..Len(s) : s[i] = 90 /\ t[i] = 90
    BY ElementOfSeq
<1> QED
    BY <1>1, SeqEqual

\* The replies of a CONNECT and of a BIND that were granted.
LEMMA AppendGranted == Append(<<90>>, 90) = <<90, 90>> /\ Append(<<>>, 90) = <<90>>
<1>1. <<90>> \in Seq({90}) /\ <<>> \in Seq({90}) /\ <<90, 90>> \in Seq({90})
    OBVIOUS
<1>2. Append(<<90>>, 90) \in Seq({90}) /\ Len(Append(<<90>>, 90)) = 2
    BY <1>1, AppendProperties
<1>3. Append(<<>>, 90) \in Seq({90}) /\ Len(Append(<<>>, 90)) = 1
    BY <1>1, AppendProperties
<1>4. Len(<<90, 90>>) = 2 /\ Len(<<90>>) = 1
    OBVIOUS
<1>5. Append(<<90>>, 90) = <<90, 90>>
    BY <1>1, <1>2, <1>4, GrantsEqual
<1>6. Append(<<>>, 90) = <<90>>
    BY <1>1, <1>3, <1>4, GrantsEqual
<1> QED
    BY <1>5, <1>6

\* A reply comes before all data.
LEMMA RepliedNext == TypeOK /\ Phases /\ Replied /\ [Next]_vars => Replied'
<1> SUFFICES ASSUME TypeOK, Phases, Replied, [Next]_vars PROVE Replied'
    OBVIOUS
<1> USE SideFacts DEF TypeOK, Phases, Replied, DataAfterReply, Granted, Early
<1>1. CASE UNCHANGED vars
    BY <1>1 DEF vars
<1>2. ASSUME NEW o \in Ops, do_read(o) PROVE Replied'
    BY <1>2, ZenonT(30) DEF do_read, data_unchanged
<1>3. CASE NoRequest
    BY <1>3 DEF NoRequest, data_unchanged
<1>4. CASE reply_to_client
    BY <1>4 DEF reply_to_client, Told, data_unchanged
<1>5. CASE handle_connect
    BY <1>5 DEF handle_connect, reply_source, start_connect, Stop, data_unchanged
<1>6. CASE bind_operation
    BY <1>6 DEF bind_operation, reply_source, data_unchanged
<1>7. CASE handle_reply_to_source
    <2>1. /\ op' = op /\ got' = got /\ peer' = peer /\ got["source"] = <<>>
          /\ replies = IF op = "bind" THEN <<90>> ELSE <<>>
        BY <1>7 DEF handle_reply_to_source, data_unchanged
    <2>2. peer["source"] = "gone" \/ replies' = Append(replies, 90)
        BY <1>7 DEF handle_reply_to_source, Told
    <2>3. Append(<<90>>, 90) = <<90, 90>> /\ Append(<<>>, 90) = <<90>>
        BY AppendGranted
    <2>4. peer["source"] = "gone" \/ replies' = IF op = "bind" THEN <<90, 90>> ELSE <<90>>
        BY <2>1, <2>2, <2>3
    <2> QED
        BY <2>1, <2>4
<1>8. ASSUME NEW x \in Side, handle_read(x) PROVE Replied'
    BY <1>8 DEF handle_read, AfterRead, net
<1>9. ASSUME NEW x \in Side, read_error(x) PROVE Replied'
    BY <1>9 DEF read_error, AtEnd, Stop, net
<1>10. ASSUME NEW y \in Side, handle_write(y) PROVE Replied'
    BY <1>10, ZenonT(30) DEF handle_write, Stop, net
<1>11. ASSUME NEW x \in Side, Send(x) PROVE Replied'
    BY <1>11 DEF Send
<1>12. ASSUME NEW x \in Side, Leave(x) PROVE Replied'
    BY <1>12 DEF Leave
<1> QED
    BY <1>1, <1>2, <1>3, <1>4, <1>5, <1>6, <1>7, <1>8, <1>9, <1>10, <1>11, <1>12
       DEF Next, Handlers

\* What an orderly end leaves behind is complete, and stays so.
LEMMA CompleteNext == TypeOK /\ Phases /\ Relay /\ Ended /\ EndIsComplete /\ [Next]_vars => EndIsComplete'
<1> SUFFICES ASSUME TypeOK, Phases, Relay, Ended, EndIsComplete, [Next]_vars PROVE EndIsComplete'
    OBVIOUS
<1> USE SideFacts DEF TypeOK, Phases, Ended, EndIsComplete, Early
<1>1. CASE UNCHANGED vars
    BY <1>1 DEF vars
<1>2. ASSUME NEW o \in Ops, do_read(o) PROVE EndIsComplete'
    BY <1>2 DEF do_read, data_unchanged
<1>3. CASE NoRequest
    BY <1>3 DEF NoRequest, data_unchanged
<1>4. CASE reply_to_client
    BY <1>4 DEF reply_to_client, Told, data_unchanged
<1>5. CASE handle_connect
    BY <1>5 DEF handle_connect, reply_source, start_connect, Stop, data_unchanged
<1>6. CASE bind_operation
    BY <1>6 DEF bind_operation, reply_source, data_unchanged
<1>7. CASE handle_reply_to_source
    BY <1>7 DEF handle_reply_to_source, Told, Stop, data_unchanged
<1>8. ASSUME NEW x \in Side, handle_read(x) PROVE EndIsComplete'
    BY <1>8 DEF handle_read, AfterRead, net
<1>9. ASSUME NEW x \in Side, read_error(x) PROVE EndIsComplete'
    <2>1. Direction(x) /\ UNCHANGED <<got, peer, sent>> /\ ~stopped_ /\ eof = "none"
        BY <1>9 DEF read_error, Relay, net
    <2>2. CASE peer[x] = "shut" /\ taken[x] = sent[x] /\ eof' = x
        BY <1>9, <2>1, <2>2 DEF read_error, Direction
    <2>3. CASE UNCHANGED eof
        BY <2>1, <2>3
    <2> QED
        BY <1>9, <2>2, <2>3 DEF read_error
<1>10. ASSUME NEW y \in Side, handle_write(y) PROVE EndIsComplete'
    BY <1>10 DEF handle_write, Stop, net
<1>11. ASSUME NEW x \in Side, Send(x) PROVE EndIsComplete'
    BY <1>11 DEF Send
<1>12. ASSUME NEW x \in Side, Leave(x) PROVE EndIsComplete'
    BY <1>12 DEF Leave
<1> QED
    BY <1>1, <1>2, <1>3, <1>4, <1>5, <1>6, <1>7, <1>8, <1>9, <1>10, <1>11, <1>12
       DEF Next, Handlers

\* Before the relay, a step that starts no write leaves both directions empty.
LEMMA EarlyStep ==
    ASSUME TypeOK, Phases, Relay, pending \cap Early # {},
           UNCHANGED <<sent, taken, got>>, pending' \cap Writes = {}
    PROVE  Relay'
<1>1. \A x \in Side : taken[x] = 0 /\ got[Other(x)] = <<>> /\ sent[x] \in Nat
    BY SideFacts DEF Phases, TypeOK
<1>2. \A x \in Side : Write(Other(x)) \notin pending'
    BY SideFacts
<1>3. Len(<<>>) = 0 /\ 1..0 = {}
    OBVIOUS
<1>4. \A x \in Side : taken'[x] = 0 /\ got'[Other(x)] = <<>> /\ 0 <= sent'[x]
    BY <1>1
<1>5. ASSUME NEW x \in Side PROVE Direction(x)'
    <2>1. Len(got'[Other(x)]) = 0 /\ taken'[x] = 0 /\ 0 <= sent'[x]
        BY <1>3, <1>4
    <2>2. \A i \in 1..Len(got'[Other(x)]) : got'[Other(x)][i] = i
        BY <1>3, <2>1
    <2> QED
        BY <1>2, <2>1, <2>2 DEF Direction
<1> QED
    BY <1>5 DEF Relay

\* stop() cancels everything, so nothing moves any more.
LEMMA StopStep ==
    ASSUME TypeOK, Relay, UNCHANGED <<sent, taken, got>>, pending' = {}
    PROVE  Relay'
BY SideFacts DEF Relay, Direction

\* The bytes up to t are complete when the chunk that ends at t has been written.
LEMMA ChunkAppended ==
    ASSUME NEW g \in Seq(1..MaxBytes), NEW b \in Seq(1..MaxBytes),
           \A i \in 1..Len(g) : g[i] = i,
           \A i \in 1..Len(b) : b[i] = Len(g) + i
    PROVE  /\ Len(g \o b) = Len(g) + Len(b)
           /\ \A i \in 1..(Len(g) + Len(b)) : (g \o b)[i] = i
<1>1. Len(g) \in Nat /\ Len(b) \in Nat
    BY LenProperties
<1>2. /\ Len(g \o b) = Len(g) + Len(b)
      /\ \A i \in 1..(Len(g) + Len(b)) :
            (g \o b)[i] = IF i <= Len(g) THEN g[i] ELSE b[i - Len(g)]
    BY ConcatProperties
<1>3. ASSUME NEW i \in 1..(Len(g) + Len(b)), i <= Len(g) PROVE (g \o b)[i] = i
    BY <1>1, <1>2, <1>3
<1>4. ASSUME NEW i \in 1..(Len(g) + Len(b)), ~(i <= Len(g)) PROVE (g \o b)[i] = i
    <2>1. i - Len(g) \in 1..Len(b)
        BY <1>1, <1>4
    <2> QED
        BY <1>1, <1>2, <1>4, <2>1
<1> QED
    BY <1>2, <1>3, <1>4

\* In each direction what was read and not yet written is in the buffer.
LEMMA RelayNext == TypeOK /\ Phases /\ Relay /\ [Next]_vars => Relay'
<1> SUFFICES ASSUME TypeOK, Phases, Relay, [Next]_vars PROVE Relay'
    OBVIOUS
<1> USE SideFacts
<1>1. CASE UNCHANGED vars
    BY <1>1 DEF vars, Relay, Direction
<1>2. ASSUME NEW o \in Ops, do_read(o) PROVE Relay'
    <2>1. pending \cap Early # {} /\ pending' \cap Writes = {}
        BY <1>2 DEF do_read, Early
    <2> QED
        BY <1>2, <2>1, EarlyStep DEF do_read, data_unchanged
<1>3. CASE NoRequest
    BY <1>3, StopStep DEF NoRequest, data_unchanged
<1>4. CASE reply_to_client
    <2>1. pending \cap Early # {} /\ pending' \cap Writes = {}
        BY <1>4 DEF reply_to_client, Early, Phases
    <2> QED
        BY <1>4, <2>1, EarlyStep DEF reply_to_client, data_unchanged
<1>5. CASE handle_connect
    <2>1. pending \cap Early # {} /\ pending' \cap Writes = {}
        BY <1>5 DEF handle_connect, reply_source, start_connect, Stop, Early, Phases
    <2> QED
        BY <1>5, <2>1, EarlyStep DEF handle_connect, data_unchanged
<1>6. CASE bind_operation
    <2>1. pending \cap Early # {} /\ pending' \cap Writes = {}
        BY <1>6 DEF bind_operation, reply_source, Early, Phases
    <2> QED
        BY <1>6, <2>1, EarlyStep DEF bind_operation, data_unchanged
<1>7. CASE handle_reply_to_source
    <2>1. pending \cap Early # {} /\ pending' \cap Writes = {}
        BY <1>7 DEF handle_reply_to_source, Stop, Early, Phases
    <2> QED
        BY <1>7, <2>1, EarlyStep DEF handle_reply_to_source, data_unchanged
<1>8. ASSUME NEW x \in Side, handle_read(x) PROVE Relay'
    <2>1. PICK n \in 1..max_length :
             /\ taken[x] + n <= sent[x]
             /\ buf' = [buf EXCEPT ![x] = [i \in 1..n |-> taken[x] + i]]
             /\ taken' = [taken EXCEPT ![x] = @ + n]
        BY <1>8 DEF handle_read
    <2>2. UNCHANGED <<peer, sent, got>>
        BY <1>8 DEF handle_read, net
    <2>3. pending' = (pending \ {Read(x)}) \cup {Write(Other(x))}
        BY <1>8 DEF handle_read, AfterRead
    <2>4. Direction(x)'
        <3>1. taken'[x] = taken[x] + n /\ n \in Nat /\ taken[x] \in Nat
            BY <2>1 DEF TypeOK
        <3>2. buf'[x] = [i \in 1..n |-> taken[x] + i]
            BY <2>1 DEF TypeOK
        <3>3. [i \in 1..n |-> taken[x] + i] \in Seq(Nat)
            BY <3>1, SeqDef
        <3>4. Len(buf'[x]) = n
            BY <3>1, <3>2, <3>3, LenProperties
        <3>5. Read(x) \notin pending'
            BY <2>3
        <3>6. Read(x) \in pending /\ Direction(x)
            BY <1>8 DEF handle_read, Relay
        <3>7. Len(got[Other(x)]) \in Nat
            BY LenProperties DEF TypeOK
        <3>8. \A i \in 1..Len(buf'[x]) : buf'[x][i] = taken'[x] - Len(buf'[x]) + i
            BY <3>1, <3>2, <3>4
        <3>9. peer[Other(x)] # "gone" => Len(got[Other(x)]) + Len(buf'[x]) = taken'[x]
            BY <3>1, <3>4, <3>6, <3>7 DEF Direction
        <3>10. /\ taken'[x] <= sent'[x] /\ Len(got'[Other(x)]) <= taken'[x]
               /\ \A i \in 1..Len(got'[Other(x)]) : got'[Other(x)][i] = i
            BY <2>1, <2>2, <3>1, <3>6, <3>7 DEF Direction
        <3> QED
            BY <2>2, <3>5, <3>8, <3>9, <3>10 DEF Direction
    <2>5. Direction(Other(x))'
        <3>1. Direction(Other(x)) /\ Other(x) # x /\ Other(Other(x)) = x
            BY DEF Relay
        <3>2. /\ taken'[Other(x)] = taken[Other(x)]
              /\ buf'[Other(x)] = buf[Other(x)]
            BY <2>1, <3>1 DEF TypeOK
        <3>3. /\ Read(Other(x)) \in pending' <=> Read(Other(x)) \in pending
              /\ Write(x) \in pending' <=> Write(x) \in pending
            BY <2>3
        <3> QED
            BY <2>2, <3>1, <3>2, <3>3 DEF Direction
    <2> QED
        BY <2>4, <2>5 DEF Relay
<1>9. ASSUME NEW x \in Side, read_error(x) PROVE Relay'
    BY <1>9, StopStep DEF read_error, AtEnd, Stop, net
<1>10. ASSUME NEW y \in Side, handle_write(y) PROVE Relay'
    <2> DEFINE x == Other(y)
    <2>1. /\ x \in Side /\ Other(x) = y /\ x # y /\ Write(y) \in pending
          /\ UNCHANGED <<peer, sent, taken, buf>>
        BY <1>10 DEF handle_write, net
    <2>2. CASE got' = got /\ pending' = {}
        BY <2>1, <2>2, StopStep
    <2>3. ASSUME peer[y] # "gone", got' = [got EXCEPT ![y] = @ \o buf[x]],
                 pending' = (pending \ {Write(y)}) \cup {Read(x)}
          PROVE  Direction(x)'
        <3>1. /\ Direction(x) /\ taken[x] \in Nat
              /\ got[y] \in Seq(1..MaxBytes) /\ buf[x] \in Seq(1..MaxBytes)
            BY <2>1 DEF TypeOK, Relay
        <3>2. got'[y] = got[y] \o buf[x]
            BY <2>3 DEF TypeOK
        <3>3. Len(got[y]) \in Nat /\ Len(buf[x]) \in Nat
            BY <3>1, LenProperties
        <3>4. /\ Len(got[y]) + Len(buf[x]) = taken[x]
              /\ \A i \in 1..Len(buf[x]) : buf[x][i] = taken[x] - Len(buf[x]) + i
              /\ \A i \in 1..Len(got[y]) : got[y][i] = i
              /\ taken[x] <= sent[x]
            BY <2>1, <2>3, <3>1 DEF Direction
        <3>5. \A i \in 1..Len(buf[x]) : buf[x][i] = Len(got[y]) + i
            <4>1. Len(got[y]) + Len(buf[x]) = taken[x]
                BY <3>4
            <4>2. taken[x] - Len(buf[x]) = Len(got[y])
                <5>1. \A a, b, c \in Nat : a + b = c => c - b = a
                    OBVIOUS
                <5>2. taken[x] \in Nat
                    BY <3>1
                <5> QED
                    BY <3>3, <4>1, <5>1, <5>2, Zenon
            <4> QED
                BY <3>4, <4>2
        <3>6. /\ Len(got[y] \o buf[x]) = Len(got[y]) + Len(buf[x])
              /\ \A i \in 1..(Len(got[y]) + Len(buf[x])) : (got[y] \o buf[x])[i] = i
            <4>1. got[y] \in Seq(1..MaxBytes) /\ buf[x] \in Seq(1..MaxBytes)
                BY <3>1
            <4>2. \A i \in 1..Len(got[y]) : got[y][i] = i
                BY <3>4
            <4> HIDE SideFacts DEF x
            <4> QED
                BY <3>5, <4>1, <4>2, ChunkAppended
        <3>7. Write(y) \notin pending'
            BY <2>1, <2>3
        <3>8. Len(got'[y]) = taken[x] /\ \A i \in 1..Len(got'[y]) : got'[y][i] = i
            BY <3>2, <3>4, <3>6
        <3>9. taken[x] <= taken[x]
            BY <3>1
        <3> QED
            BY <2>1, <3>4, <3>7, <3>8, <3>9 DEF Direction
    <2>4. ASSUME peer[y] = "gone", got' = got,
                 pending' = (pending \ {Write(y)}) \cup {Read(x)}
          PROVE  Direction(x)'
        <3>1. Write(y) \notin pending' /\ Direction(x)
            BY <2>1, <2>4 DEF Relay
        <3> QED
            BY <2>1, <2>4, <3>1 DEF Direction
    <2>5. ASSUME got' = got \/ got' = [got EXCEPT ![y] = @ \o buf[x]],
                 pending' = (pending \ {Write(y)}) \cup {Read(x)}
          PROVE  Direction(y)'
        <3>1. got'[x] = got[x] /\ Direction(y)
            BY <2>1, <2>5 DEF TypeOK, Relay
        <3>2. /\ Read(y) \in pending' <=> Read(y) \in pending
              /\ Write(x) \in pending' <=> Write(x) \in pending
            BY <2>1, <2>5
        <3> QED
            BY <2>1, <3>1, <3>2 DEF Direction
    <2>6. ASSUME got' = IF peer[y] = "gone" THEN got ELSE [got EXCEPT ![y] = @ \o buf[x]],
                 pending' = (pending \ {Write(y)}) \cup {Read(x)}
          PROVE  Relay'
        <3>1. Direction(x)'
            BY <2>3, <2>4, <2>6
        <3>2. Direction(y)'
            BY <2>5, <2>6
        <3> QED
            BY <2>1, <3>1, <3>2 DEF Relay
    <2> QED
        BY <1>10, <2>2, <2>6 DEF handle_write, Stop
<1>11. ASSUME NEW x \in Side, Send(x) PROVE Relay'
    <2>1. \A z \in Side : /\ sent'[z] >= sent[z] /\ sent'[z] \in Nat
                        /\ sent[z] \in Nat /\ taken[z] \in Nat
        BY <1>11 DEF Send, TypeOK
    <2>2. UNCHANGED <<pending, peer, taken, buf, got>>
        BY <1>11 DEF Send
    <2> QED
        <3>1. ASSUME NEW z \in Side PROVE taken[z] <= sent'[z]
            BY <2>1 DEF Relay, Direction
        <3> QED
            BY <2>2, <3>1 DEF Relay, Direction
<1>12. ASSUME NEW x \in Side, Leave(x) PROVE Relay'
    <2>1. \A z \in Side : peer'[z] # "gone" => peer[z] # "gone"
        BY <1>12 DEF Leave, TypeOK
    <2>2. UNCHANGED <<pending, sent, taken, buf, got>>
        BY <1>12 DEF Leave
    <2> QED
        BY <2>1, <2>2, ZenonT(30) DEF Relay, Direction
<1> QED
    BY <1>1, <1>2, <1>3, <1>4, <1>5, <1>6, <1>7, <1>8, <1>9, <1>10, <1>11, <1>12
       DEF Next, Handlers

\* The inductive invariant of the relay.
THEOREM RelayInvariant == Spec => []Inv
<1>1. Init => Inv
    BY InvInit
<1>2. Inv /\ [Next]_vars => Inv'
    BY TypeNext, PhasesNext, RelayNext, EndedNext, RepliedNext, CompleteNext DEF Inv
<1> QED
    BY <1>1, <1>2, PTL DEF Spec

\* The type invariant of the session and the relay holds at every step.
THEOREM TypeCorrect == Spec => []TypeOK
<1>1. Inv => TypeOK
    BY DEF Inv
<1> QED
    BY <1>1, RelayInvariant, PTL

\* However the handlers of the two directions interleave, and whichever side
\* leaves, each side gets the bytes of the other one in order, without a gap and
\* none of them twice. (handle_source_read, handle_dest_write, start_read)
THEOREM BytesInOrder == Spec => []InOrder
<1>1. Inv => InOrder
    BY DEF Inv, Relay, Direction, InOrder
<1> QED
    BY <1>1, RelayInvariant, PTL

\* The end of one side's data stops both directions, and yet cuts off nothing of
\* what that side has sent. (handle_source_read, handle_dest_read, stop)
THEOREM NothingCutOff == Spec => []EndIsComplete
<1>1. Inv => EndIsComplete
    BY DEF Inv
<1> QED
    BY <1>1, RelayInvariant, PTL

\* The source has its last reply before it gets a byte of the destination.
\* (reply_source, handle_reply_to_source)
THEOREM ReplyComesFirst == Spec => []DataAfterReply
<1>1. Inv => DataAfterReply
    BY DEF Inv, Replied
<1> QED
    BY <1>1, RelayInvariant, PTL

-----------------------------------------------------------------------------
(* The verdict of the firewall. *)

\* A request is decided once: before that nothing was contacted or answered, and
\* what is under way afterwards is what the rules meant.
Decided ==
    /\ "request" \in pending \/ "reject" \in pending => endpoints = 0
    /\ {"connect", "accept", "port_reply", "reply"} \cap pending # {} => lawful
    /\ FirewallKept

\* FirewallKept without the sets.
LEMMA KeptForm ==
    FirewallKept <=>
        /\ endpoints > 0 \/ "accept" \in pending => lawful
        /\ "reject" \in pending => ~lawful
        /\ \A n \in DOMAIN replies : replies[n] = 90 => lawful
        /\ \A n \in DOMAIN replies : replies[n] = 91 => ~lawful
BY DEF FirewallKept

\* The same after a step.
LEMMA KeptAfter ==
    ASSUME endpoints' > 0 \/ "accept" \in pending' => lawful',
           "reject" \in pending' => ~lawful',
           \A n \in DOMAIN replies' : replies'[n] = 90 => lawful',
           \A n \in DOMAIN replies' : replies'[n] = 91 => ~lawful'
    PROVE  FirewallKept'
BY DEF FirewallKept

\* A reply that agrees with the verdict keeps the replies in agreement with it.
LEMMA ToldKeeps ==
    ASSUME TypeOK, NEW code \in {90, 91}, Told(code), lawful' = lawful,
           code = 90 => lawful, code = 91 => ~lawful,
           \A n \in DOMAIN replies : replies[n] = 90 => lawful,
           \A n \in DOMAIN replies : replies[n] = 91 => ~lawful
    PROVE  /\ \A n \in DOMAIN replies' : replies'[n] = 90 => lawful'
           /\ \A n \in DOMAIN replies' : replies'[n] = 91 => ~lawful'
<1>1. replies \in Seq({90, 91})
    BY DEF TypeOK
<1>2. CASE replies' = replies
    BY <1>2
<1>3. CASE replies' = Append(replies, code)
    <2>1. /\ Len(replies') = Len(replies) + 1 /\ Len(replies) \in Nat
          /\ DOMAIN replies' = 1..Len(replies') /\ DOMAIN replies = 1..Len(replies)
          /\ \A n \in 1..Len(replies) : replies'[n] = replies[n]
          /\ replies'[Len(replies) + 1] = code
        BY <1>1, <1>3, AppendProperties, LenProperties
    <2>2. \A n \in DOMAIN replies' : n \in DOMAIN replies \/ n = Len(replies) + 1
        BY <2>1
    <2> QED
        BY <2>1, <2>2
<1> QED
    BY <1>2, <1>3 DEF Told

\* Every step keeps the verdict; that do_read finds the right one is FirewallExact.
LEMMA DecidedNext == Inv /\ Decided /\ [Next]_vars => Decided'
<1> SUFFICES ASSUME Inv, Decided, [Next]_vars PROVE Decided'
    OBVIOUS
<1> USE SideFacts
<1>a. TypeOK /\ Phases
    BY DEF Inv
<1>b. /\ endpoints > 0 \/ "accept" \in pending => lawful
      /\ "reject" \in pending => ~lawful
      /\ \A n \in DOMAIN replies : replies[n] = 90 => lawful
      /\ \A n \in DOMAIN replies : replies[n] = 91 => ~lawful
    BY KeptForm DEF Decided
<1>c. /\ "request" \in pending \/ "reject" \in pending => endpoints = 0
      /\ {"connect", "accept", "port_reply", "reply"} \cap pending # {} => lawful
    BY DEF Decided
<1>d. endpoints \in 0..1
    BY <1>a DEF TypeOK
\* A step that leaves the verdict and the replies alone and starts nothing new.
<1>e. ASSUME UNCHANGED <<lawful, replies>>, endpoints' \in {endpoints, 0},
             \A x \in {"request", "reject", "connect", "accept", "port_reply"} :
                 x \in pending' => x \in pending,
             "reply" \in pending' => "reply" \in pending \/ lawful
      PROVE  Decided'
    <2>1. /\ endpoints' > 0 \/ "accept" \in pending' => lawful'
          /\ "reject" \in pending' => ~lawful'
          /\ \A n \in DOMAIN replies' : replies'[n] = 90 => lawful'
          /\ \A n \in DOMAIN replies' : replies'[n] = 91 => ~lawful'
        BY <1>b, <1>d, <1>e
    <2>2. /\ "request" \in pending' \/ "reject" \in pending' => endpoints' = 0
          /\ {"connect", "accept", "port_reply", "reply"} \cap pending' # {} => lawful'
        BY <1>c, <1>e
    <2> QED
        BY <2>1, <2>2, KeptAfter DEF Decided
<1>1. CASE UNCHANGED vars
    BY <1>1, <1>e DEF vars
<1>2. ASSUME NEW o \in Ops, do_read(o) PROVE Decided'
    <2>1. endpoints = 0 /\ replies = <<>> /\ replies' = <<>>
        BY <1>2, <1>a, <1>c DEF do_read, Phases
    <2>2. CASE pending' = {} /\ UNCHANGED <<lawful, endpoints>>
        BY <2>1, <2>2, <1>e
    <2>3. ASSUME NEW dest \in Addresses \cup {<<>>}, NEW file \in Files,
                 lawful' = Lawful(o, dest, file),
                 \/ /\ check_dest_ip(o, Text(dest), file)
                    /\ pending' \in {{"connect"}, {"accept", "port_reply"}}
                 \/ /\ ~check_dest_ip(o, Text(dest), file)
                    /\ pending' = {"reject"} /\ endpoints' = endpoints
          PROVE  Decided'
        <3>1. check_dest_ip(o, Text(dest), file) <=> lawful'
            BY <2>3, FirewallExact
        <3>2. DOMAIN replies' = {}
            BY <2>1
        <3>3. CASE lawful' /\ pending' \in {{"connect"}, {"accept", "port_reply"}}
            BY <3>2, <3>3, KeptAfter DEF Decided
        <3>4. CASE ~lawful' /\ pending' = {"reject"} /\ endpoints' = 0
            BY <3>2, <3>4, KeptAfter DEF Decided
        <3> QED
            BY <2>1, <2>3, <3>1, <3>3, <3>4
    <2> QED
        BY <1>2, <2>2, <2>3 DEF do_read
<1>3. CASE NoRequest
    BY <1>3, <1>e DEF NoRequest
<1>4. CASE reply_to_client
    <2>1. UNCHANGED <<lawful, endpoints>>
        BY <1>4 DEF reply_to_client
    <2>2. CASE "reject" \in pending /\ pending' = {} /\ Told(91)
        <3>1. /\ \A n \in DOMAIN replies' : replies'[n] = 90 => lawful'
              /\ \A n \in DOMAIN replies' : replies'[n] = 91 => ~lawful'
            BY <2>1, <2>2, <1>a, <1>b, ToldKeeps
        <3> QED
            BY <3>1, <2>1, <2>2, <1>b, <1>c, KeptAfter DEF Decided
    <2>3. CASE /\ "port_reply" \in pending /\ pending' = pending \ {"port_reply"}
               /\ Told(90)
        <3>1. lawful
            BY <2>3, <1>c
        <3>2. /\ \A n \in DOMAIN replies' : replies'[n] = 90 => lawful'
              /\ \A n \in DOMAIN replies' : replies'[n] = 91 => ~lawful'
            BY <3>1, <2>1, <2>3, <1>a, <1>b, ToldKeeps
        <3> QED
            BY <3>1, <3>2, <2>1, <2>3, <1>b, <1>c, KeptAfter DEF Decided
    <2> QED
        BY <1>4, <2>2, <2>3 DEF reply_to_client
<1>5. CASE handle_connect
    <2>1. "connect" \in pending /\ lawful /\ UNCHANGED <<lawful, replies>>
          /\ endpoints' \in {endpoints, endpoints - 1}
        BY <1>5, <1>c DEF handle_connect, start_connect
    <2>2. endpoints > 0
        BY <2>1, <1>a DEF TypeOK
    <2>3. endpoints' \in {endpoints, 0}
        BY <2>1, <2>2, <1>d
    <2>4. \A x \in {"request", "reject", "connect", "accept", "port_reply"} :
             x \in pending' => x \in pending
        BY <1>5 DEF handle_connect, start_connect, Stop, reply_source
    <2> QED
        BY <2>1, <2>3, <2>4, <1>e
<1>6. CASE bind_operation
    <2>1. "accept" \in pending /\ UNCHANGED <<lawful, replies, endpoints>>
        BY <1>6 DEF bind_operation
    <2>2. \A x \in {"request", "reject", "connect", "accept", "port_reply"} :
             x \in pending' => x \in pending
        BY <1>6 DEF bind_operation, reply_source
    <2> QED
        BY <2>1, <2>2, <1>b, <1>e
<1>7. CASE handle_reply_to_source
    <2>1. lawful /\ Told(90) /\ UNCHANGED <<lawful, endpoints>> /\ "reply" \in pending
        BY <1>7, <1>c DEF handle_reply_to_source
    <2>2. /\ \A n \in DOMAIN replies' : replies'[n] = 90 => lawful'
          /\ \A n \in DOMAIN replies' : replies'[n] = 91 => ~lawful'
        BY <2>1, <1>a, <1>b, ToldKeeps
    <2>3. pending = {"reply"}
        BY <2>1, <1>a DEF Phases
    <2>4. pending' \subseteq Reads
        BY <1>7, <2>3 DEF handle_reply_to_source, Stop
    <2> QED
        BY <2>1, <2>2, <2>4, KeptAfter DEF Decided
<1>8. ASSUME NEW x \in Side, handle_read(x) \/ read_error(x) \/ handle_write(x)
      PROVE  Decided'
    <2>1. UNCHANGED <<lawful, replies, endpoints>>
        BY <1>8 DEF handle_read, read_error, handle_write
    <2>2. \A y \in Early : y \in pending' => y \in pending
        BY <1>8 DEF handle_read, AfterRead, read_error, AtEnd, handle_write, Stop, Early
    <2> QED
        BY <2>1, <2>2, <1>e DEF Early
<1>9. ASSUME NEW x \in Side, Send(x) \/ Leave(x) PROVE Decided'
    BY <1>9, <1>e DEF Send, Leave
<1> QED
    BY <1>1, <1>2, <1>3, <1>4, <1>5, <1>6, <1>7, <1>8, <1>9 DEF Next, Handlers

\* A destination is contacted, or a port opened for it, only for a request that a
\* rule permits octet by octet, and what a rule permits is not refused, for any
\* address and any rule file. (do_read, check_dest_ip)
THEOREM RulesAreKept == Spec => []FirewallKept
<1>1. Init => Decided
    BY KeptForm DEF Init, Decided
<1>2. Decided => FirewallKept
    BY DEF Decided
<1> QED
    BY <1>1, <1>2, DecidedNext, RelayInvariant, PTL DEF Spec
=============================================================================
