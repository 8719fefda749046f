------------------------- MODULE HttpServer_proofs -------------------------
(***************************************************************************)
(* Proofs about HttpServer, for any number of sessions.                    *)
(***************************************************************************)
EXTENDS HttpServer, TLAPS

\* The variables of the request line are those of the session about to fork, and
\* every program has got its own.
Reads ==
    /\ \A s \in Session : at[s] = "write" => request = s
    /\ RequestIsOwn

\* Initially every variable has its type.
LEMMA InitType == Init => TypeOK
BY DEF Init, TypeOK, NoCgi

\* Every handler keeps the types.
LEMMA NextType == TypeOK /\ [Next]_vars => TypeOK'
<1> SUFFICES ASSUME TypeOK, [Next]_vars PROVE TypeOK'
    OBVIOUS
<1> USE DEF TypeOK
<1>1. CASE UNCHANGED vars
    BY <1>1 DEF vars
<1>2. ASSUME NEW s \in Session, do_accept(s) PROVE TypeOK'
    BY <1>2 DEF do_accept
<1>3. ASSUME NEW s \in Session, Ask(s) \/ Leave(s) PROVE TypeOK'
    BY <1>3 DEF Ask, Leave
<1>4. ASSUME NEW s \in Session, do_read(s) PROVE TypeOK'
    BY <1>4 DEF do_read, StartWrite
<1>5. ASSUME NEW s \in Session, Drop(s) PROVE TypeOK'
    BY <1>5 DEF Drop
<1>6. ASSUME NEW s \in Session, do_write(s) PROVE TypeOK'
    BY <1>6 DEF do_write
<1>7. ASSUME NEW s \in Session, Die(s) PROVE TypeOK'
    BY <1>7 DEF Die
<1>8. QED
    BY <1>1, <1>2, <1>3, <1>4, <1>5, <1>6, <1>7 DEF Next

\* The type invariant of the server holds at every step.
THEOREM TypeCorrect == Spec => []TypeOK
<1>1. Init => TypeOK
    BY InitType
<1>2. TypeOK /\ [Next]_vars => TypeOK'
    BY NextType
<1>3. QED
    BY <1>1, <1>2, PTL DEF Spec

\* Initially no session has been read.
LEMMA InitOwn == Init => Reads
BY DEF Init, Reads, RequestIsOwn

\* Where the handlers of one session are not interleaved with those of another one,
\* the environment stays that of the session which is about to fork.
LEMMA NextOwn == TypeOK /\ Reads /\ Alone' /\ [Next]_vars => Reads'
<1> SUFFICES ASSUME TypeOK, Reads, Alone', [Next]_vars PROVE Reads'
    OBVIOUS
<1> USE DEF TypeOK, Reads, RequestIsOwn
<1>1. CASE UNCHANGED vars
    BY <1>1 DEF vars
<1>2. ASSUME NEW s \in Session, do_accept(s) PROVE Reads'
    BY <1>2 DEF do_accept
<1>3. ASSUME NEW s \in Session, Ask(s) \/ Leave(s) PROVE Reads'
    BY <1>3 DEF Ask, Leave
<1>4. ASSUME NEW s \in Session, do_read(s) PROVE Reads'
    <2>1. at'[s] = "write" /\ request' = s /\ cgi' = cgi
        BY <1>4 DEF do_read, StartWrite
    <2>2. ASSUME NEW t \in Session, at'[t] = "write" PROVE request' = t
        BY <2>1, <2>2 DEF Alone
    <2>3. ASSUME NEW t \in Session, at'[t] = "done" PROVE cgi'[t].request = t
        BY <1>4, <2>1, <2>3 DEF do_read, StartWrite
    <2> QED
        BY <2>2, <2>3
<1>5. ASSUME NEW s \in Session, Drop(s) PROVE Reads'
    BY <1>5 DEF Drop
<1>6. ASSUME NEW s \in Session, do_write(s) PROVE Reads'
    <2>1. request = s /\ request' = request
        BY <1>6 DEF do_write
    <2>2. ASSUME NEW t \in Session, t # s PROVE at'[t] = at[t] /\ cgi'[t] = cgi[t]
        BY <1>6, <2>2 DEF do_write
    <2>3. at'[s] # "write" /\ (at'[s] = "done" => cgi'[s].request = s)
        BY <1>6, <2>1 DEF do_write
    <2> QED
        BY <2>1, <2>2, <2>3
<1>7. ASSUME NEW s \in Session, Die(s) PROVE Reads'
    BY <1>7 DEF Die
<1>8. QED
    BY <1>1, <1>2, <1>3, <1>4, <1>5, <1>6, <1>7 DEF Next

\* While no two sessions are between read and fork at the same time, every program
\* sees its own request. With the behaviour that violates RequestIsOwn this makes
\* the interleaving of two sessions the exact cause. (do_read, do_write)
THEOREM OwnUnlessInterleaved == Spec /\ []Alone => []RequestIsOwn
<1>1. Init => Reads
    BY InitOwn
<1>2. TypeOK /\ Reads /\ Alone' /\ [Next]_vars => Reads'
    BY NextOwn
<1>3. Reads => RequestIsOwn
    BY DEF Reads
<1>4. QED
    BY <1>1, <1>2, <1>3, TypeCorrect, PTL DEF Spec
=============================================================================
