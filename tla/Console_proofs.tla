--------------------------- MODULE Console_proofs ---------------------------
(***************************************************************************)
(* Proofs about Console, for every script, every size of the buffer, any   *)
(* number of addresses and of messages of other users.                     *)
(*                                                                         *)
(* The tokens on their way are numbered up to the last one the shell has   *)
(* sent (InStream), so the first Consumed ones were read; those on the     *)
(* page are an interval that ends with the last one read (Interval), from  *)
(* the first one on in a direct session. A zero of the proxy's reply can   *)
(* be in a chunk only before anything was shown, and then the chunk is     *)
(* lost as a whole; this is what a session through the proxy may miss.     *)
(***************************************************************************)
EXTENDS Console, Integers, SequenceTheorems, TLAPS

Tokens == [n : Nat, mod : BOOLEAN, line : Nat]

\* What the operation under way says about the connection and the page.
Phases ==
    /\ pending \in {"resolve", "connect"} => remote = "none"
    /\ remote = "none" =>
          /\ pending \in {"resolve", "connect", "none"}
          /\ shown = <<>> /\ stream = <<>> /\ emitted = 0
    /\ remote = "asked" =>
          pending \in {"send_request", "receive_reply"} /\ stream = <<>>
    /\ pending \in {"send_request", "receive_reply"} => connect_proxy /\ shown = <<>>
    /\ reset => remote = "closed"
    /\ ~connect_proxy => remote # "granted"
    /\ ~connect_proxy /\ pending = "none" =>
          remote = "none" \/ (remote = "closed" /\ (reset \/ stream = <<>>))

\* Line k is on the page.
OnPage(k) == \E i \in DOMAIN shown : shown[i] = Line(k)

\* The number of tokens read; less than 0 while a reply of the proxy is unread.
Consumed == emitted - Len(stream)

\* The tokens in the stream are the next ones, their lines are on the page, and
\* the bytes of a reply stand before them and before anything is shown.
InStream ==
    \A j \in DOMAIN stream :
        /\ stream[j].n > 0 =>
              /\ stream[j].n = Consumed + j
              /\ stream[j].line > 0 => OnPage(stream[j].line)
        /\ stream[j].n = 0 =>
              /\ connect_proxy /\ shown = <<>> /\ j <= 3
              /\ pending \in {"read", "write"} => j = 1

\* A line that was sent is on the page.
InInbox == \A j \in DOMAIN inbox : OnPage(inbox[j])

\* The tokens on the page are those after b, in order, and the answers to a line
\* stand behind the line.
Ordered ==
    \A i, j \in DOMAIN shown :
        i < j /\ IsToken(i) /\ IsToken(j) => shown[i].n < shown[j].n
From(b) ==
    /\ b <= Consumed
    /\ \A j \in DOMAIN shown :
          IsToken(j) => b < shown[j].n /\ shown[j].n <= Consumed
    /\ \A m \in b+1..Consumed : \E j \in DOMAIN shown : shown[j].n = m
Interval == \E b \in Int : From(b) /\ (~connect_proxy => b = 0)
Answers ==
    \A j \in DOMAIN shown :
        IsToken(j) /\ shown[j].line > 0 =>
            \E i \in 1..j-1 : shown[i] = Line(shown[j].line)

Inv ==
    /\ TypeOK /\ Phases /\ InStream /\ InInbox
    /\ Ordered /\ Interval /\ Answers

USE ScriptAssumption, BoundsAssumption

-----------------------------------------------------------------------------
(***************************************************************************)
(* What the steps do to the stream and to the page.                        *)
(***************************************************************************)

\* The shell sends n tokens, which answer line k.
Sends(n, k) ==
    /\ stream' \in Seq(Tokens) /\ emitted' = emitted + n
    /\ Len(stream') = Len(stream) + n
    /\ \A j \in 1..Len(stream) : stream'[j] = stream[j]
    /\ \A j \in 1..n : /\ stream'[Len(stream) + j].n = emitted + j
                       /\ stream'[Len(stream) + j].line = k

\* n tokens are taken from the stream.
Takes(n) ==
    /\ stream' \in Seq(Tokens)
    /\ Len(stream') = Len(stream) - n
    /\ \A j \in 1..Len(stream) - n : stream'[j] = stream[n + j]

\* The page goes on with the first n tokens of the stream, and with things that
\* are no tokens.
Shows(n) ==
    /\ shown' \in Seq(Tokens)
    /\ Len(shown') >= Len(shown) + n
    /\ \A j \in 1..Len(shown) : shown'[j] = shown[j]
    /\ \A j \in 1..n : shown'[Len(shown) + j] = stream[j]
    /\ \A j \in Len(shown) + n + 1..Len(shown') : shown'[j].n = 0

\* The sequences are those of Tokens.
LEMMA SeqTypes ==
    ASSUME TypeOK
    PROVE  /\ shown \in Seq(Tokens) /\ Len(shown) \in Nat
           /\ DOMAIN shown = 1..Len(shown)
           /\ \A j \in 1..Len(shown) : shown[j] \in Tokens
           /\ stream \in Seq(Tokens) /\ Len(stream) \in Nat
           /\ DOMAIN stream = 1..Len(stream)
           /\ \A j \in 1..Len(stream) : stream[j] \in Tokens
           /\ emitted \in Nat
<1>1. shown \in Seq(Tokens) /\ stream \in Seq(Tokens) /\ emitted \in Nat
  BY DEF TypeOK, Tokens
<1> QED
  BY <1>1, LenProperties, ElementOfSeq

\* What Emit does.
LEMMA EmitSends ==
    ASSUME TypeOK, NEW mods \in Seq(BOOLEAN), NEW k \in Nat, Emit(mods, k)
    PROVE  Len(mods) \in Nat /\ Sends(Len(mods), k) /\ emitted' \in Nat
<1>1. Len(mods) \in Nat /\ \A j \in 1..Len(mods) : mods[j] \in BOOLEAN
  BY LenProperties
<1>2. emitted \in Nat /\ stream \in Seq(Tokens) /\ Len(stream) \in Nat
  BY SeqTypes
<1> DEFINE new == [j \in 1..Len(mods) |-> Token(emitted + j, mods[j], k)]
<1>3. \A j \in 1..Len(mods) : Token(emitted + j, mods[j], k) \in Tokens
  BY <1>1, <1>2 DEF Token, Tokens
<1>4. new \in [1..Len(mods) -> Tokens]
  BY <1>3
<1>5. new \in Seq(Tokens)
  BY <1>1, <1>4, SeqDef
<1>6. DOMAIN new = 1..Len(mods) /\ DOMAIN new = 1..Len(new) /\ Len(new) \in Nat
  BY <1>5, LenProperties
<1>7. Len(new) = Len(mods)
  BY <1>1, <1>6
<1>8. \A j \in 1..Len(mods) : new[j].n = emitted + j /\ new[j].line = k
  BY DEF Token
<1>9. stream' = stream \o new /\ emitted' = emitted + Len(mods)
  BY DEF Emit
<1> HIDE DEF new
<1>10. /\ stream' \in Seq(Tokens) /\ Len(stream') = Len(stream) + Len(mods)
       /\ \A i \in 1..Len(stream) + Len(mods) :
             stream'[i] = IF i <= Len(stream) THEN stream[i] ELSE new[i - Len(stream)]
  <2>1. /\ stream \o new \in Seq(Tokens)
        /\ Len(stream \o new) = Len(stream) + Len(new)
        /\ \A i \in 1..Len(stream) + Len(new) : (stream \o new)[i] =
              IF i <= Len(stream) THEN stream[i] ELSE new[i - Len(stream)]
    BY <1>2, <1>5, ConcatProperties
  <2> QED
    BY <1>7, <1>9, <2>1
<1>11. \A j \in 1..Len(stream) : stream'[j] = stream[j]
  BY <1>1, <1>2, <1>10
<1>12. \A j \in 1..Len(mods) : stream'[Len(stream) + j] = new[j]
  <2> SUFFICES ASSUME NEW j \in 1..Len(mods)
               PROVE  stream'[Len(stream) + j] = new[j]
    OBVIOUS
  <2>1. /\ Len(stream) + j \in 1..Len(stream) + Len(mods)
        /\ ~(Len(stream) + j <= Len(stream)) /\ Len(stream) + j - Len(stream) = j
    BY <1>1, <1>2
  <2> QED
    BY <2>1, <1>10
<1> QED
  BY <1>1, <1>2, <1>8, <1>9, <1>10, <1>11, <1>12 DEF Sends

\* What the reads do to the stream.
LEMMA SubSeqTakes ==
    ASSUME TypeOK, NEW n \in 1..Len(stream),
           stream' = SubSeq(stream, n + 1, Len(stream))
    PROVE  Takes(n)
<1>1. /\ stream \in Seq(Tokens) /\ Len(stream) \in Nat
      /\ \A j \in 1..Len(stream) : stream[j] \in Tokens
  BY SeqTypes
<1>2. n + 1 \in Int /\ Len(stream) \in Int /\ \A j \in n+1..Len(stream) : stream[j] \in Tokens
  BY <1>1
<1>3. /\ stream' \in Seq(Tokens)
      /\ Len(stream') = IF n + 1 <= Len(stream) THEN Len(stream) - (n + 1) + 1 ELSE 0
      /\ \A i \in 1..Len(stream) - (n + 1) + 1 : stream'[i] = stream[n + 1 + i - 1]
  BY <1>2, SubSeqProperties
<1>4. Len(stream') = Len(stream) - n
  BY <1>1, <1>3
<1>5. \A j \in 1..Len(stream) - n : stream'[j] = stream[n + j]
  <2> SUFFICES ASSUME NEW j \in 1..Len(stream) - n
               PROVE  stream'[j] = stream[n + j]
    OBVIOUS
  <2>1. j \in 1..Len(stream) - (n + 1) + 1 /\ n + 1 + j - 1 = n + j
    BY <1>1
  <2> QED
    BY <2>1, <1>3
<1> QED
  BY <1>3, <1>4, <1>5 DEF Takes

\* The string in data_: nothing if the chunk begins with the rest of a reply,
\* and otherwise the chunk, with html_id behind it when it fills the buffer.
LEMMA StringForm ==
    ASSUME NEW chunk \in Seq(Tokens), \A j \in DOMAIN chunk : chunk[j].n = 0 => j = 1
    PROVE  /\ (\E j \in DOMAIN chunk : chunk[j].n = 0) => AsString(chunk) = <<>>
           /\ (\A j \in DOMAIN chunk : chunk[j].n # 0) =>
                 AsString(chunk) \in {chunk, Append(chunk, HtmlId)}
<1> DEFINE zeros == {j \in DOMAIN chunk : chunk[j].n = 0}
           first == CHOOSE j \in zeros : \A i \in zeros : j <= i
<1>0. AsString(chunk) =
         IF zeros # {} THEN SubSeq(chunk, 1, first - 1)
         ELSE IF Len(chunk) = max_length THEN Append(chunk, HtmlId) ELSE chunk
  BY DEF AsString
<1>1. ASSUME zeros # {} PROVE AsString(chunk) = <<>>
  <2>1. zeros = {1}
    BY <1>1
  <2>2. first = 1
    BY <2>1
  <2> HIDE DEF zeros, first
  <2>3. SubSeq(chunk, 1, first - 1) = <<>>
    BY <2>2, SubSeqEmpty
  <2> QED
    BY <1>0, <1>1, <2>3
<1>2. ASSUME zeros = {} PROVE AsString(chunk) \in {chunk, Append(chunk, HtmlId)}
  BY <1>0, <1>2
<1> QED
  BY <1>1, <1>2

\* The page after a read, whether the next line is shown or not.
LEMMA PageGrows ==
    ASSUME TypeOK, NEW n \in 0..Len(stream), NEW text \in Seq(Tokens),
           NEW more \in Seq(Tokens),
           \/ text = <<>> /\ n = 0
           \/ text = SubSeq(stream, 1, n)
           \/ text = Append(SubSeq(stream, 1, n), HtmlId),
           \A j \in DOMAIN more : more[j].n = 0,
           shown' = shown \o text \o more
    PROVE  Shows(n) /\ Len(shown') = Len(shown) + Len(text) + Len(more)
<1>1. /\ stream \in Seq(Tokens) /\ Len(stream) \in Nat
      /\ \A j \in 1..Len(stream) : stream[j] \in Tokens
      /\ shown \in Seq(Tokens) /\ Len(shown) \in Nat
  BY SeqTypes
<1>2. /\ Len(more) \in Nat /\ Len(text) \in Nat
      /\ \A j \in 1..Len(more) : more[j].n = 0
  BY LenProperties
<1>3. /\ Len(text) >= n /\ \A j \in 1..n : text[j] = stream[j]
      /\ \A j \in n+1..Len(text) : text[j].n = 0
  <2> DEFINE chunk == SubSeq(stream, 1, n)
  <2>1. \A j \in 1..n : stream[j] \in Tokens
    BY <1>1
  <2>2. /\ chunk \in Seq(Tokens) /\ Len(chunk) = n
        /\ \A j \in 1..n : chunk[j] = stream[j]
    <3>1. /\ chunk \in Seq(Tokens)
          /\ Len(chunk) = IF 1 <= n THEN n - 1 + 1 ELSE 0
          /\ \A i \in 1..n-1+1 : chunk[i] = stream[1+i-1]
      BY <2>1, SubSeqProperties
    <3>2. n - 1 + 1 = n /\ \A i \in 1..n : 1 + i - 1 = i
      OBVIOUS
    <3> QED
      BY <3>1, <3>2
  <2> HIDE DEF chunk
  <2>3. CASE text = <<>> /\ n = 0
    BY <2>3
  <2>4. CASE text = chunk
    BY <2>2, <2>4
  <2>5. CASE text = Append(chunk, HtmlId)
    <3>1. HtmlId \in Tokens /\ HtmlId.n = 0
      BY DEF HtmlId, Token, Tokens
    <3>2. /\ Len(text) = n + 1 /\ text[n + 1] = HtmlId
          /\ \A j \in 1..n : text[j] = chunk[j]
      BY <2>2, <2>5, <3>1, AppendProperties
    <3> QED
      BY <2>2, <3>1, <3>2
  <2> QED
    BY <2>3, <2>4, <2>5 DEF chunk
<1> DEFINE half == shown \o text
<1>4. /\ half \in Seq(Tokens) /\ Len(half) = Len(shown) + Len(text)
      /\ \A i \in 1..Len(shown) + Len(text) :
            half[i] = IF i <= Len(shown) THEN shown[i] ELSE text[i - Len(shown)]
  BY <1>1, ConcatProperties
<1>5. shown' = half \o more
  OBVIOUS
<1> HIDE DEF half
<1>6. /\ shown' \in Seq(Tokens) /\ Len(shown') = Len(half) + Len(more)
      /\ \A i \in 1..Len(half) + Len(more) :
            shown'[i] = IF i <= Len(half) THEN half[i] ELSE more[i - Len(half)]
  <2>1. /\ half \o more \in Seq(Tokens)
        /\ Len(half \o more) = Len(half) + Len(more)
        /\ \A i \in 1..Len(half) + Len(more) : (half \o more)[i] =
              IF i <= Len(half) THEN half[i] ELSE more[i - Len(half)]
    <3>1. half \in Seq(Tokens) /\ more \in Seq(Tokens)
      BY <1>4
    <3> QED
      BY <3>1, ConcatProperties
  <2> QED
    BY <1>5, <2>1
<1>7. Len(shown') = Len(shown) + Len(text) + Len(more)
  BY <1>4, <1>6
<1>8. ASSUME NEW j \in 1..Len(shown) PROVE shown'[j] = shown[j]
  <2>1. j \in 1..Len(half) + Len(more) /\ j <= Len(half) /\ j \in 1..Len(shown) + Len(text)
    BY <1>1, <1>2, <1>4
  <2> QED
    BY <2>1, <1>4, <1>6
<1>9. ASSUME NEW j \in 1..Len(text) PROVE shown'[Len(shown) + j] = text[j]
  <2>1. /\ Len(shown) + j \in 1..Len(half) + Len(more) /\ Len(shown) + j <= Len(half)
        /\ Len(shown) + j \in 1..Len(shown) + Len(text)
        /\ ~(Len(shown) + j <= Len(shown)) /\ Len(shown) + j - Len(shown) = j
    BY <1>1, <1>2, <1>4, SMTT(30)
  <2> QED
    BY <2>1, <1>4, <1>6
<1>10. ASSUME NEW j \in 1..Len(more)
       PROVE  shown'[Len(shown) + Len(text) + j] = more[j]
  <2>1. /\ Len(half) + j \in 1..Len(half) + Len(more)
        /\ ~(Len(half) + j <= Len(half)) /\ Len(half) + j - Len(half) = j
    BY <1>1, <1>2, <1>4
  <2>2. shown'[Len(half) + j] = more[j]
    BY <2>1, <1>6, SMTT(30)
  <2> QED
    BY <2>2, <1>4
<1>11. \A j \in 1..n : shown'[Len(shown) + j] = stream[j]
  BY <1>2, <1>3, <1>9
<1>12. ASSUME NEW j \in Len(shown) + n + 1..Len(shown') PROVE shown'[j].n = 0
  <2>1. CASE j <= Len(shown) + Len(text)
    <3>1. PICK m \in n+1..Len(text) : j = Len(shown) + m
      <4>1. j - Len(shown) \in n+1..Len(text) /\ j = Len(shown) + (j - Len(shown))
        BY <2>1, <1>1, <1>2, <1>7
      <4> QED
        BY <4>1
    <3>2. m \in 1..Len(text)
      BY <1>2
    <3> QED
      BY <3>1, <3>2, <1>3, <1>9
  <2>2. CASE j > Len(shown) + Len(text)
    <3>1. PICK m \in 1..Len(more) : j = Len(shown) + Len(text) + m
      <4>1. /\ j - (Len(shown) + Len(text)) \in 1..Len(more)
            /\ j = Len(shown) + Len(text) + (j - (Len(shown) + Len(text)))
        BY <2>2, <1>1, <1>2, <1>7
      <4> QED
        BY <4>1
    <3> QED
      BY <3>1, <1>2, <1>10
  <2>3. j \in Int /\ Len(shown) + Len(text) \in Int
    BY <1>1, <1>2
  <2> QED
    BY <2>1, <2>2, <2>3
<1>13. Len(shown') >= Len(shown) + n
  BY <1>1, <1>2, <1>3, <1>7
<1> QED
  BY <1>6, <1>7, <1>8, <1>11, <1>12, <1>13 DEF Shows

-----------------------------------------------------------------------------
(***************************************************************************)
(* The invariant, part by part.                                            *)
(***************************************************************************)

\* Before the first handler nothing has been sent or shown.
LEMMA InitInv == Init => Inv
<1> SUFFICES ASSUME Init PROVE Inv
  OBVIOUS
<1>1. /\ shown = <<>> /\ stream = <<>> /\ inbox = <<>> /\ emitted = 0 /\ at = 0 /\ dropped = {}
      /\ pending = "resolve" /\ remote = "none" /\ reset = FALSE /\ msgs = 0
      /\ connect_proxy \in BOOLEAN
  BY DEF Init
<1>2. <<>> \in Seq(Tokens) /\ <<>> \in Seq(1..0) /\ Len(<<>>) = 0
  BY EmptySeq
<1>3. TypeOK
  <2>1. /\ shown \in Seq(Tokens) /\ stream \in Seq(Tokens) /\ inbox \in Seq(1..at)
        /\ dropped \in SUBSET (1..at)
    BY <1>1, <1>2
  <2>2. connect_proxy \in BOOLEAN /\ reset \in BOOLEAN
    BY <1>1
  <2>3. at \in Nat /\ emitted \in Nat /\ msgs \in 0..MaxMsgs
    BY <1>1
  <2> QED
    BY <1>1, <2>1, <2>2, <2>3 DEF TypeOK, Tokens
<1>4. Phases /\ InStream /\ InInbox /\ Ordered /\ Answers
  BY <1>1 DEF Phases, InStream, InInbox, Ordered, Answers
<1>5. From(0)
  BY <1>1, <1>2 DEF From, Consumed
<1> QED
  BY <1>3, <1>4, <1>5 DEF Inv, Interval

\* What a session knows when it reads: TypeOK in smaller parts.
LEMMA TypeForm ==
    TypeOK <=>
        /\ connect_proxy \in BOOLEAN /\ reset \in BOOLEAN
        /\ pending \in {"resolve", "connect", "send_request", "receive_reply",
                        "read", "write", "none"}
        /\ "connect" = pending => endpoints \in 1..MaxEndpoints
        /\ at \in Nat /\ emitted \in Nat /\ msgs \in 0..MaxMsgs
        /\ remote \in {"none", "asked", "granted", "up", "closed"}
        /\ shown \in Seq(Tokens) /\ stream \in Seq(Tokens) /\ inbox \in Seq(1..at)
        /\ dropped \in SUBSET (1..at)
BY DEF TypeOK, Tokens

\* A chunk that is read: either it is lost, which happens only when nothing was
\* shown before and the stream begins with the rest of a reply, or the page goes
\* on with it. The line that is sent is then the last thing shown.
ReadStep(n) ==
    /\ Takes(n) /\ UNCHANGED <<connect_proxy, remote, emitted>>
    /\ pending = "read" /\ pending' \in {"read", "write"}
    /\ \/ stream[1].n = 0 /\ UNCHANGED <<shown, inbox, at, reset, pending>>
       \/ /\ \A j \in 1..n : stream[j].n > 0
          /\ Shows(n)
          /\ \/ UNCHANGED <<inbox, at, reset>>
             \/ /\ at' = at + 1 /\ Deliver(at + 1)
                /\ \E i \in DOMAIN shown' : shown'[i] = Line(at + 1)

\* What handle_read does.
LEMMA ReadForm ==
    ASSUME Inv, handle_read
    PROVE  \E n \in 1..Len(stream) : ReadStep(n)
<1>1. PICK n \in 1..Len(stream) :
         LET text == AsString(SubSeq(stream, 1, n))
         IN  /\ stream' = SubSeq(stream, n + 1, Len(stream))
             /\ \/ /\ IncludeMod(text)
                   /\ at' = at + 1 /\ shown' = shown \o text \o <<Line(at + 1)>>
                   /\ pending' = "write" /\ Deliver(at + 1)
                \/ /\ ~IncludeMod(text)
                   /\ shown' = shown \o text
                   /\ UNCHANGED <<at, pending, reset, inbox>>
  BY DEF handle_read
<1>2. /\ TypeOK /\ pending = "read" /\ UNCHANGED <<connect_proxy, remote, emitted>>
      /\ InStream /\ at \in Nat
  BY DEF handle_read, Inv, TypeOK
<1>3. /\ stream \in Seq(Tokens) /\ Len(stream) \in Nat
      /\ DOMAIN stream = 1..Len(stream)
      /\ \A j \in 1..Len(stream) : stream[j] \in Tokens
      /\ shown \in Seq(Tokens) /\ Len(shown) \in Nat
  BY <1>2, SeqTypes
<1>4. Takes(n)
  BY <1>1, <1>2, SubSeqTakes
<1> DEFINE chunk == SubSeq(stream, 1, n)
           text == AsString(chunk)
<1>5. /\ chunk \in Seq(Tokens) /\ Len(chunk) = n /\ DOMAIN chunk = 1..n
      /\ \A j \in 1..n : chunk[j] = stream[j]
  <2>1. \A j \in 1..n : stream[j] \in Tokens
    BY <1>3
  <2>2. /\ chunk \in Seq(Tokens)
        /\ Len(chunk) = IF 1 <= n THEN n - 1 + 1 ELSE 0
        /\ \A i \in 1..n-1+1 : chunk[i] = stream[1+i-1]
    BY <2>1, SubSeqProperties
  <2>3. n - 1 + 1 = n /\ 1 <= n /\ \A i \in 1..n : 1 + i - 1 = i
    BY <1>3
  <2> HIDE DEF chunk
  <2>4. Len(chunk) = n /\ \A j \in 1..n : chunk[j] = stream[j]
    BY <2>2, <2>3
  <2> QED
    BY <2>2, <2>4, LenProperties
<1>6. \A j \in 1..n : stream[j].n \in Nat /\ (stream[j].n = 0 => j = 1)
  <2>1. \A j \in 1..n : stream[j].n \in Nat
    BY <1>3 DEF Tokens
  <2>2. \A j \in 1..n : j \in DOMAIN stream
    BY <1>3
  <2> QED
    BY <1>2, <2>1, <2>2 DEF InStream
<1> HIDE DEF chunk
<1>7. /\ (\E j \in 1..n : stream[j].n = 0) => text = <<>>
      /\ (\A j \in 1..n : stream[j].n # 0) => text \in {chunk, Append(chunk, HtmlId)}
  BY <1>5, <1>6, StringForm
<1>8. /\ stream' = SubSeq(stream, n + 1, Len(stream))
      /\ \/ /\ IncludeMod(text)
            /\ at' = at + 1 /\ shown' = shown \o text \o <<Line(at + 1)>>
            /\ pending' = "write" /\ Deliver(at + 1)
         \/ /\ ~IncludeMod(text)
            /\ shown' = shown \o text
            /\ UNCHANGED <<at, pending, reset, inbox>>
  BY <1>1 DEF chunk
<1>9. HtmlId \in Tokens /\ Line(at + 1) \in Tokens /\ Line(at + 1).n = 0
  BY <1>2 DEF HtmlId, Line, Token, Tokens
<1> HIDE DEF text
<1>10. CASE \E j \in 1..n : stream[j].n = 0
  <2>1. stream[1].n = 0 /\ text = <<>>
    BY <1>6, <1>7, <1>10
  <2>2. ~IncludeMod(text)
    BY <2>1 DEF IncludeMod
  <2>3. shown' = shown
    BY <1>3, <1>8, <2>1, <2>2, ConcatEmptySeq
  <2> QED
    BY <1>2, <1>4, <1>8, <2>1, <2>2, <2>3 DEF ReadStep
<1>11. CASE \A j \in 1..n : stream[j].n # 0
  <2>1. \A j \in 1..n : stream[j].n > 0
    BY <1>6, <1>11
  <2>2. text = SubSeq(stream, 1, n) \/ text = Append(SubSeq(stream, 1, n), HtmlId)
    BY <1>7, <1>11 DEF chunk
  <2>3. text \in Seq(Tokens)
    <3>1. Append(chunk, HtmlId) \in Seq(Tokens)
      BY <1>5, <1>9, AppendProperties
    <3> QED
      BY <1>5, <1>7, <1>11, <3>1
  <2>4. n \in 0..Len(stream)
    BY <1>3
  <2>5. CASE IncludeMod(text)
    <3> DEFINE more == <<Line(at + 1)>>
    <3>1. more \in Seq(Tokens) /\ Len(more) = 1 /\ DOMAIN more = 1..1
          /\ more[1] = Line(at + 1)
      BY <1>9
    <3>2. \A j \in DOMAIN more : more[j].n = 0
      BY <3>1, <1>9
    <3>3. shown' = shown \o text \o more
      BY <1>8, <2>5
    <3> HIDE DEF more
    <3>4. Shows(n) /\ Len(shown') = Len(shown) + Len(text) + Len(more)
      BY <1>2, <2>2, <2>3, <2>4, <3>1, <3>2, <3>3, PageGrows
    <3>5. \E i \in DOMAIN shown' : shown'[i] = Line(at + 1)
      <4>1. shown \o text \in Seq(Tokens)
        BY <1>3, <2>3, ConcatProperties
      <4>2. PICK half \in Seq(Tokens) : half = shown \o text
        BY <4>1
      <4>3. shown' = half \o more
        BY <3>3, <4>2
      <4>4. Len(half) \in Nat
        BY LenProperties
      <4>5. /\ Len(half \o more) = Len(half) + Len(more)
            /\ \A i \in 1..Len(half) + Len(more) : (half \o more)[i] =
                  IF i <= Len(half) THEN half[i] ELSE more[i - Len(half)]
            /\ half \o more \in Seq(Tokens)
        BY <3>1, ConcatProperties, ZenonT(30)
      <4>6. (half \o more)[Len(half) + 1] = Line(at + 1)
        BY <3>1, <4>4, <4>5
      <4>7. Len(half) + 1 \in DOMAIN (half \o more)
        BY <3>1, <4>4, <4>5, LenProperties
      <4> QED
        BY <4>3, <4>6, <4>7
    <3> QED
      BY <1>2, <1>4, <1>8, <2>1, <2>5, <3>4, <3>5 DEF ReadStep
  <2>6. CASE ~IncludeMod(text)
    <3>1. <<>> \in Seq(Tokens) /\ DOMAIN <<>> = {}
      BY EmptySeq
    <3>2. shown \o text \in Seq(Tokens) /\ shown' = shown \o text
      BY <1>3, <1>8, <2>3, <2>6, ConcatProperties
    <3>3. shown' = shown \o text \o <<>>
      BY <3>2, ConcatEmptySeq
    <3>4. Shows(n)
      BY <1>2, <2>2, <2>3, <2>4, <3>1, <3>3, PageGrows
    <3> QED
      BY <1>2, <1>4, <1>8, <2>1, <2>6, <3>4 DEF ReadStep
  <2> QED
    BY <2>5, <2>6
<1> QED
  BY <1>10, <1>11

\* What a step does to the stream and to the page.
GoesOn ==
    pending' \in {"read", "write"} => pending \in {"read", "write"} \/ stream = <<>>
Idle == UNCHANGED <<stream, emitted, shown>> /\ GoesOn
SendStep(n, k) ==
    Sends(n, k) /\ UNCHANGED shown /\ (k > 0 => OnPage(k)) /\ GoesOn
ReplyStep ==
    /\ connect_proxy /\ shown = <<>> /\ stream = <<>>
    /\ stream' \in {Reply(90), Reply(91), <<>>}
    /\ pending \in {"send_request", "receive_reply"}
    /\ UNCHANGED <<emitted, shown, pending>>
HeadStep(n) ==
    /\ Takes(n) /\ pending = "receive_reply" /\ UNCHANGED <<emitted, shown>>
    /\ pending' = "none" \/ (pending' = "read" /\ n > 1)
DataStep ==
    /\ UNCHANGED connect_proxy
    /\ \/ Idle
       \/ \E n, k \in Nat : SendStep(n, k)
       \/ ReplyStep
       \/ \E n \in 1..Len(stream) : HeadStep(n)
       \/ \E n \in 1..Len(stream) : ReadStep(n)

\* Every step does one of these things.
LEMMA DataSteps ==
    ASSUME Inv, [Next]_vars PROVE DataStep
<1> USE DEF Inv
<1>a. emitted \in Nat /\ inbox \in Seq(1..at) /\ at \in Nat
  BY DEF TypeOK
<1>0. ASSUME UNCHANGED <<connect_proxy, stream, emitted, shown>>, GoesOn
      PROVE  DataStep
  BY <1>0 DEF DataStep, Idle
<1>s. ASSUME NEW mods \in Seq(BOOLEAN), NEW k \in Nat, Emit(mods, k),
             k > 0 => OnPage(k), UNCHANGED <<connect_proxy, shown>>, GoesOn
      PROVE  DataStep
  <2>1. Len(mods) \in Nat /\ Sends(Len(mods), k)
    BY <1>s, EmitSends
  <2>2. SendStep(Len(mods), k)
    BY <1>s, <2>1 DEF SendStep
  <2> QED
    BY <1>s, <2>1, <2>2 DEF DataStep
<1>b. /\ <<FALSE, TRUE>> \in Seq(BOOLEAN) /\ <<TRUE>> \in Seq(BOOLEAN)
      /\ \A m \in BOOLEAN : <<m, TRUE>> \in Seq(BOOLEAN) /\ <<m>> \in Seq(BOOLEAN)
  OBVIOUS
<1>g. ASSUME Greeting, UNCHANGED <<connect_proxy, shown>>, GoesOn PROVE DataStep
  <2>1. PICK mods \in Seq(BOOLEAN) : mods = <<FALSE, TRUE>>
    BY <1>b
  <2>2. Emit(mods, 0)
    BY <1>g, <2>1 DEF Greeting
  <2>3. 0 \in Nat /\ ~(0 > 0)
    OBVIOUS
  <2> QED
    BY <1>g, <1>s, <2>2, <2>3
<1>1. CASE UNCHANGED vars
  BY <1>0, <1>1 DEF vars, console, net, GoesOn
<1>2. CASE start \/ handle_send_socks4a \/ read_error \/ handle_write
  BY <1>0, <1>2 DEF start, handle_send_socks4a, read_error, handle_write, net,
         GoesOn
<1>3. CASE handle_connect
  <2>1. stream = <<>>
    BY <1>3 DEF handle_connect, Phases
  <2> QED
    BY <1>0, <1>3, <1>g, <2>1 DEF handle_connect, net, GoesOn
<1>4. CASE handle_receive_socks4
  <2>1. UNCHANGED <<connect_proxy, emitted, shown>> /\ pending = "receive_reply"
    BY <1>4 DEF handle_receive_socks4
  <2>2. ASSUME NEW n \in 1..Len(stream),
               pending' = IF n > 1 /\ stream[2] = ReplyByte(90) THEN "read" ELSE "none",
               stream' = SubSeq(stream, n + 1, Len(stream))
        PROVE  DataStep
    <3>1. Takes(n)
      BY <2>2, SubSeqTakes
    <3>2. HeadStep(n)
      BY <2>1, <2>2, <3>1 DEF HeadStep
    <3> QED
      BY <2>1, <3>2 DEF DataStep
  <2> QED
    BY <1>0, <1>4, <2>1, <2>2 DEF handle_receive_socks4, GoesOn
<1>5. CASE handle_read
  <2>1. PICK n \in 1..Len(stream) : ReadStep(n)
    BY <1>5, ReadForm
  <2>2. UNCHANGED connect_proxy
    BY <2>1 DEF ReadStep
  <2> QED
    BY <2>1, <2>2 DEF DataStep
<1>6. CASE ProxyReply
  <2>1. ReplyStep
    BY <1>6 DEF ProxyReply, ReplyStep, Phases, console
  <2>2. UNCHANGED connect_proxy
    BY <1>6 DEF ProxyReply, console
  <2> QED
    BY <2>1, <2>2 DEF DataStep
<1>7. CASE Begin
  BY <1>7, <1>g DEF Begin, console, GoesOn
<1>8. CASE Execute
  <2>1. PICK n \in 1..Len(inbox) :
            \/ UNCHANGED <<stream, emitted>>
            \/ \E mods \in Responses(inbox[1], n) : Emit(mods, inbox[1])
    BY <1>8 DEF Execute
  <2>2. UNCHANGED <<connect_proxy, shown>> /\ GoesOn
    BY <1>8 DEF Execute, console, GoesOn
  <2>3. 1 \in DOMAIN inbox /\ inbox[1] \in 1..at
    BY <1>a, <2>1
  <2>4. PICK k \in Nat : k = inbox[1] /\ OnPage(k)
    BY <1>a, <2>3 DEF InInbox
  <2>5. \A mods \in Responses(k, n) : mods \in Seq(BOOLEAN)
    BY <1>b DEF Responses
  <2> QED
    BY <2>1, <2>2, <2>4, <2>5, <1>0, <1>s
<1>9. CASE Message
  <2>1. PICK mod \in BOOLEAN : Emit(<<mod>>, 0)
    BY <1>9 DEF Message
  <2>2. UNCHANGED <<connect_proxy, shown>> /\ GoesOn
    BY <1>9 DEF Message, console, GoesOn
  <2> QED
    <3>1. PICK mods \in Seq(BOOLEAN) : mods = <<mod>>
      BY <1>b
    <3>2. Emit(mods, 0) /\ 0 \in Nat /\ ~(0 > 0)
      BY <2>1, <3>1
    <3> QED
      BY <2>2, <3>2, <1>s
<1> QED
  BY <1>1, <1>2, <1>3, <1>4, <1>5, <1>6, <1>7, <1>8, <1>9
     DEF Next, Handlers, Remote

\* The types, from what the step does to the sequences.
LEMMA TypeNext ==
    ASSUME Inv, [Next]_vars PROVE TypeOK'
<1> USE DEF Inv
<1>a. /\ connect_proxy \in BOOLEAN /\ reset \in BOOLEAN
      /\ pending \in {"resolve", "connect", "send_request", "receive_reply",
                      "read", "write", "none"}
      /\ "connect" = pending => endpoints \in 1..MaxEndpoints
      /\ remote \in {"none", "asked", "granted", "up", "closed"}
  BY TypeForm
<1>b. /\ at \in Nat /\ emitted \in Nat /\ msgs \in 0..MaxMsgs
      /\ shown \in Seq(Tokens) /\ stream \in Seq(Tokens) /\ inbox \in Seq(1..at)
      /\ dropped \in SUBSET (1..at)
  BY TypeForm
<1>1. shown' \in Seq(Tokens) /\ stream' \in Seq(Tokens) /\ emitted' \in Nat
  <2>1. DataStep
    BY DataSteps
  <2>2. Reply(90) \in Seq(Tokens) /\ Reply(91) \in Seq(Tokens) /\ <<>> \in Seq(Tokens)
    <3>1. \A c \in Nat : ReplyByte(c) \in Tokens
      BY DEF ReplyByte, Token, Tokens
    <3> QED
      BY <3>1 DEF Reply
  <2>3. CASE Idle
    BY <1>b, <2>3 DEF Idle
  <2>4. ASSUME NEW n \in Nat, NEW k \in Nat, SendStep(n, k)
        PROVE  shown' \in Seq(Tokens) /\ stream' \in Seq(Tokens) /\ emitted' \in Nat
    BY <1>b, <2>4 DEF SendStep, Sends
  <2>5. CASE ReplyStep
    BY <1>b, <2>2, <2>5 DEF ReplyStep
  <2>6. ASSUME NEW n \in 1..Len(stream), HeadStep(n)
        PROVE  shown' \in Seq(Tokens) /\ stream' \in Seq(Tokens) /\ emitted' \in Nat
    BY <1>b, <2>6 DEF HeadStep, Takes
  <2>7. ASSUME NEW n \in 1..Len(stream), ReadStep(n)
        PROVE  shown' \in Seq(Tokens) /\ stream' \in Seq(Tokens) /\ emitted' \in Nat
    BY <1>b, <2>7 DEF ReadStep, Takes, Shows
  <2> QED
    BY <2>1, <2>3, <2>4, <2>5, <2>6, <2>7 DEF DataStep
<1>0. ASSUME UNCHANGED <<connect_proxy, at, msgs, inbox, dropped, reset>>,
             pending' \in {"resolve", "connect", "send_request", "receive_reply",
                           "read", "write", "none"},
             "connect" = pending' => endpoints' \in 1..MaxEndpoints,
             remote' \in {"none", "asked", "granted", "up", "closed"}
      PROVE  TypeOK'
  BY <1>0, <1>1, <1>a, <1>b, TypeForm DEF TypeOK, Tokens
<1>2. CASE UNCHANGED vars
  BY <1>0, <1>2, <1>a DEF vars, console, net
<1>3. CASE start \/ handle_send_socks4a \/ read_error \/ handle_write \/ handle_receive_socks4
  BY <1>0, <1>3, <1>a DEF start, handle_send_socks4a, read_error, handle_write,
         handle_receive_socks4, net
<1>4. CASE handle_connect
  <2>1. UNCHANGED <<connect_proxy, at, msgs, inbox, dropped, reset>>
    BY <1>4 DEF handle_connect, net
  <2>2. remote' \in {"none", "asked", "granted", "up", "closed"}
    BY <1>4, <1>a DEF handle_connect, net
  <2>3. pending' \in {"connect", "none", "send_request", "read"}
    BY <1>4 DEF handle_connect
  <2>4. ASSUME "connect" = pending' PROVE endpoints' \in 1..MaxEndpoints
    <3>1. /\ pending = "connect" /\ endpoints' = endpoints - 1
          /\ pending' = IF endpoints' = 0 THEN "none" ELSE "connect"
      BY <1>4, <2>4 DEF handle_connect
    <3> QED
      BY <3>1, <2>4, <1>a
  <2> QED
    BY <1>0, <2>1, <2>2, <2>3, <2>4
<1>5. CASE ProxyReply \/ Begin
  BY <1>0, <1>5, <1>a DEF ProxyReply, Begin, console
<1>6. ASSUME UNCHANGED <<connect_proxy, msgs, remote, dropped>>,
             pending' \in {"read", "write"},
             reset' \in BOOLEAN, at' \in {at, at + 1}, inbox' \in Seq(1..at')
      PROVE  TypeOK'
  <2>1. at' \in Nat /\ dropped' \in SUBSET (1..at')
    BY <1>6, <1>b
  <2> QED
    BY <2>1, <1>6, <1>1, <1>a, <1>b DEF TypeOK, Tokens
<1>7. CASE handle_read
  <2>1. UNCHANGED <<connect_proxy, msgs, remote, dropped>>
    BY <1>7 DEF handle_read
  <2>2. PICK n \in 1..Len(stream) : ReadStep(n)
    BY <1>7, ReadForm
  <2>3. pending' \in {"read", "write"}
    BY <2>2 DEF ReadStep
  <2>4. CASE UNCHANGED <<inbox, at, reset>>
    BY <1>6, <2>1, <2>3, <2>4, <1>a, <1>b
  <2>5. CASE at' = at + 1 /\ Deliver(at + 1)
    <3>1. at' \in Nat /\ at + 1 \in 1..at' /\ 1..at \subseteq 1..at'
      BY <1>b, <2>5
    <3>2. inbox \in Seq(1..at')
      BY <1>b, <3>1, SeqMonotonic
    <3>3. Append(inbox, at + 1) \in Seq(1..at')
      BY <3>1, <3>2, AppendProperties
    <3>4. reset' \in BOOLEAN /\ inbox' \in Seq(1..at')
      BY <2>5, <3>2, <3>3, <1>a DEF Deliver
    <3> QED
      BY <1>6, <2>1, <2>3, <2>5, <3>4
  <2> QED
    BY <2>2, <2>4, <2>5 DEF ReadStep
<1>8. ASSUME UNCHANGED <<connect_proxy, pending, endpoints, at>>,
             remote' \in {"none", "asked", "granted", "up", "closed"},
             reset' \in BOOLEAN, msgs' \in 0..MaxMsgs, inbox' \in Seq(1..at),
             dropped' \in SUBSET (1..at)
      PROVE  TypeOK'
  BY <1>8, <1>1, <1>a, <1>b DEF TypeOK, Tokens
<1>9. CASE Execute
  <2>1. PICK n \in 1..Len(inbox) :
            /\ inbox' = SubSeq(inbox, n + 1, Len(inbox))
            /\ dropped' = dropped \cup {inbox[j] : j \in 2..n}
    BY <1>9 DEF Execute
  <2>2. /\ UNCHANGED <<connect_proxy, pending, endpoints, at, msgs>>
        /\ remote' \in {remote, "closed"}
    BY <1>9, <1>a DEF Execute, console
  <2>3. Len(inbox) \in Nat /\ \A j \in 1..Len(inbox) : inbox[j] \in 1..at
    BY <1>b
  <2>4. dropped' \in SUBSET (1..at)
    <3> SUFFICES ASSUME NEW x \in dropped' PROVE x \in 1..at
      OBVIOUS
    <3>1. CASE x \in dropped
      BY <1>b, <3>1
    <3>2. CASE x \notin dropped
      <4>1. PICK j \in 2..n : x = inbox[j]
        BY <2>1, <3>2
      <4>2. j \in 1..Len(inbox)
        BY <2>1, <2>3
      <4> QED
        BY <2>3, <4>1, <4>2
    <3> QED
      BY <3>1, <3>2
  <2>5. inbox' \in Seq(1..at)
    <3>1. n + 1 \in Int /\ Len(inbox) \in Int
      BY <2>3
    <3>2. \A j \in n + 1..Len(inbox) : inbox[j] \in 1..at
      BY <2>3
    <3>3. SubSeq(inbox, n + 1, Len(inbox)) \in Seq(1..at)
      BY <3>1, <3>2, SubSeqProperties
    <3> QED
      BY <2>1, <3>3
  <2>6. reset' \in BOOLEAN
    <3>1. UNCHANGED reset \/ \E m \in 1..Len(inbox) : reset' = (m < Len(inbox))
      BY <1>9 DEF Execute
    <3>2. ASSUME NEW m, reset' = (m < Len(inbox)) PROVE reset' \in BOOLEAN
      <4>1. CASE m < Len(inbox)
        BY <3>2, <4>1
      <4>2. CASE ~(m < Len(inbox))
        BY <3>2, <4>2
      <4> QED
        BY <4>1, <4>2
    <3> QED
      BY <1>a, <3>1, <3>2
  <2> QED
    BY <1>8, <2>2, <2>4, <2>5, <2>6, <1>a, <1>b
<1>10. CASE Message
  <2>1. /\ UNCHANGED <<connect_proxy, pending, endpoints, at, inbox, dropped, remote, reset>>
        /\ msgs < MaxMsgs /\ msgs' = msgs + 1
    BY <1>10 DEF Message, console
  <2>2. msgs' \in 0..MaxMsgs
    BY <2>1, <1>b
  <2> QED
    BY <1>8, <2>1, <2>2, <1>a, <1>b
<1> QED
  BY <1>2, <1>3, <1>4, <1>5, <1>7, <1>9, <1>10 DEF Next, Handlers, Remote

\* The phases of a session.
LEMMA PhasesNext ==
    ASSUME Inv, [Next]_vars PROVE Phases'
<1> USE DEF Inv
<1>a. /\ connect_proxy \in BOOLEAN /\ reset \in BOOLEAN
      /\ remote \in {"none", "asked", "granted", "up", "closed"}
  BY TypeForm
<1>1. CASE UNCHANGED vars
  BY <1>1 DEF vars, console, net, Phases
<1>2. CASE start \/ handle_send_socks4a \/ handle_write
  BY <1>2 DEF start, handle_send_socks4a, handle_write, net, Phases
<1>3. CASE read_error \/ handle_receive_socks4
  BY <1>3 DEF read_error, handle_receive_socks4, EndSeen, net, Phases
<1>4. CASE handle_connect
  BY <1>4 DEF handle_connect, net, Phases
<1>5. CASE handle_read
  <2>1. PICK n \in 1..Len(stream) : ReadStep(n)
    BY <1>5, ReadForm
  <2>2. /\ pending = "read" /\ pending' \in {"read", "write"}
        /\ UNCHANGED <<connect_proxy, remote>>
        /\ reset' => reset \/ remote = "closed"
    BY <2>1 DEF ReadStep, Deliver
  <2> QED
    BY <2>2 DEF Phases
<1>6. CASE ProxyReply \/ Begin
  BY <1>6 DEF ProxyReply, Begin, console, Phases
<1>7. CASE Execute
  <2>1. /\ UNCHANGED <<connect_proxy, pending, shown>> /\ remote = "up"
        /\ remote' \in {"up", "closed"} /\ (reset' => reset \/ remote' = "closed")
    BY <1>7 DEF Execute, console
  <2> QED
    BY <2>1 DEF Phases
<1>8. CASE Message
  BY <1>8 DEF Message, console, Phases
<1> QED
  BY <1>1, <1>2, <1>3, <1>4, <1>5, <1>6, <1>7, <1>8 DEF Next, Handlers, Remote

\* A page that goes on keeps its lines.
LEMMA PageKeeps ==
    ASSUME TypeOK, NEW n \in Nat, Shows(n)
    PROVE  \A k : OnPage(k) => \E i \in DOMAIN shown' : shown'[i] = Line(k)
<1>1. DOMAIN shown = 1..Len(shown) /\ Len(shown) \in Nat
  BY SeqTypes
<1>2. DOMAIN shown' = 1..Len(shown') /\ Len(shown') \in Nat
  BY LenProperties DEF Shows
<1>3. Len(shown') >= Len(shown) /\ \A j \in 1..Len(shown) : shown'[j] = shown[j]
  BY <1>1, <1>2 DEF Shows
<1>4. \A i \in DOMAIN shown : i \in DOMAIN shown'
  BY <1>1, <1>2, <1>3
<1> QED
  BY <1>1, <1>3, <1>4 DEF OnPage

\* The numbers in the stream.
LEMMA StreamNext ==
    ASSUME Inv, [Next]_vars PROVE InStream'
<1> USE DEF Inv
<1>a. /\ stream \in Seq(Tokens) /\ Len(stream) \in Nat
      /\ DOMAIN stream = 1..Len(stream)
      /\ \A j \in 1..Len(stream) : stream[j] \in Tokens
      /\ emitted \in Nat
  BY SeqTypes
<1>b. TypeOK'
  BY TypeNext
<1>c. DataStep
  BY DataSteps
<1>d. DOMAIN stream' = 1..Len(stream') /\ Len(stream') \in Nat
  BY <1>b, LenProperties DEF TypeOK
<1>1. CASE Idle
  <2>1. Consumed' = Consumed /\ DOMAIN stream' = DOMAIN stream
    BY <1>1 DEF Idle, Consumed
  <2> QED
    BY <1>1, <1>a, <1>c, <2>1 DEF DataStep, Idle, GoesOn, InStream, OnPage
<1>2. ASSUME NEW n \in Nat, NEW k \in Nat, SendStep(n, k) PROVE InStream'
  <2>1. /\ Consumed' = Consumed /\ Len(stream') = Len(stream) + n
        /\ emitted = Consumed + Len(stream)
    BY <1>2, <1>a DEF SendStep, Sends, Consumed
  <2>2. UNCHANGED <<shown, connect_proxy>>
    BY <1>2, <1>c DEF DataStep, SendStep
  <2> SUFFICES ASSUME NEW j \in 1..Len(stream')
               PROVE  /\ stream'[j].n > 0 =>
                            /\ stream'[j].n = Consumed + j
                            /\ stream'[j].line > 0 => OnPage(stream'[j].line)
                      /\ stream'[j].n = 0 =>
                            /\ connect_proxy /\ shown = <<>> /\ j <= 3
                            /\ pending' \in {"read", "write"} => j = 1
    BY <1>d, <2>1, <2>2 DEF InStream, OnPage
  <2>3. CASE j \in 1..Len(stream)
    <3>1. stream'[j] = stream[j] /\ stream # <<>>
      BY <1>2, <2>3, <1>a DEF SendStep, Sends
    <3> QED
      BY <1>2, <2>3, <3>1, <1>a DEF SendStep, GoesOn, InStream
  <2>4. CASE j \notin 1..Len(stream)
    <3>1. PICK m \in 1..n : j = Len(stream) + m
      <4>1. j - Len(stream) \in 1..n /\ j = Len(stream) + (j - Len(stream))
        BY <2>1, <2>4, <1>a
      <4> QED
        BY <4>1
    <3>2. stream'[j].n = emitted + m /\ stream'[j].line = k
      BY <1>2, <3>1 DEF SendStep, Sends
    <3>3. stream'[j].n = Consumed + j /\ stream'[j].n > 0
      BY <3>1, <3>2, <1>a DEF Consumed
    <3> QED
      BY <1>2, <3>2, <3>3 DEF SendStep
  <2> QED
    BY <2>3, <2>4
<1>3. CASE ReplyStep
  <2>1. /\ UNCHANGED <<shown, connect_proxy, pending>> /\ connect_proxy /\ shown = <<>>
        /\ pending \notin {"read", "write"}
    BY <1>3, <1>c DEF DataStep, ReplyStep
  <2>2. \A j \in DOMAIN stream' : stream'[j].n = 0 /\ j <= 3
    BY <1>3 DEF ReplyStep, Reply, ReplyByte, Token
  <2> QED
    BY <2>1, <2>2 DEF InStream
<1>t. ASSUME NEW n \in 1..Len(stream), Takes(n), UNCHANGED emitted,
             NEW j \in DOMAIN stream'
      PROVE  /\ n + j \in DOMAIN stream /\ stream'[j] = stream[n + j]
             /\ Consumed' = Consumed + n /\ Consumed' + j = Consumed + (n + j)
             /\ j \in Nat /\ j >= 1
  <2>1. j \in 1..Len(stream) - n
    BY <1>t, <1>d DEF Takes
  <2> QED
    <3>1. n + j \in 1..Len(stream) /\ j \in Nat /\ j >= 1
      BY <2>1, <1>a
    <3>2. stream'[j] = stream[n + j] /\ Len(stream') = Len(stream) - n
      BY <1>t, <2>1 DEF Takes
    <3>3. Consumed' = Consumed + n /\ Consumed \in Int
      BY <1>t, <3>2, <1>a DEF Consumed
    <3>4. Consumed' + j = Consumed + (n + j)
      BY <3>1, <3>3, <1>a
    <3> QED
      BY <3>1, <3>2, <3>3, <3>4, <1>a
<1>4. ASSUME NEW n \in 1..Len(stream), HeadStep(n) PROVE InStream'
  <2>1. /\ UNCHANGED <<shown, connect_proxy, emitted>> /\ Takes(n)
        /\ connect_proxy /\ shown = <<>>
        /\ pending' \in {"read", "write"} => n > 1
    BY <1>4, <1>c DEF DataStep, HeadStep, Phases
  <2> SUFFICES ASSUME NEW j \in DOMAIN stream'
               PROVE  /\ stream'[j].n > 0 =>
                            /\ stream'[j].n = Consumed' + j
                            /\ stream'[j].line > 0 => OnPage(stream'[j].line)
                      /\ stream'[j].n = 0 =>
                            j <= 3 /\ (pending' \in {"read", "write"} => j = 1)
    BY <2>1 DEF InStream, OnPage
  <2>2. /\ n + j \in DOMAIN stream /\ stream'[j] = stream[n + j]
        /\ Consumed' + j = Consumed + (n + j) /\ j \in Nat /\ j >= 1
    BY <1>t, <2>1
  <2>3. stream'[j].n > 0 => /\ stream'[j].n = Consumed' + j
                            /\ stream'[j].line > 0 => OnPage(stream'[j].line)
    BY <2>2 DEF InStream
  <2>4. stream'[j].n = 0 => n + j <= 3
    BY <2>2 DEF InStream
  <2>5. n + j <= 3 => j <= 3 /\ (n > 1 => j = 1)
    BY <2>2, <1>a
  <2> QED
    BY <2>1, <2>3, <2>4, <2>5
<1>5. ASSUME NEW n \in 1..Len(stream), ReadStep(n) PROVE InStream'
  <2>1. UNCHANGED <<connect_proxy, emitted>> /\ Takes(n) /\ pending = "read"
    BY <1>5 DEF ReadStep
  <2>2. \A k : OnPage(k) => \E i \in DOMAIN shown' : shown'[i] = Line(k)
    BY <1>5, <1>a, PageKeeps DEF ReadStep, OnPage
  <2> SUFFICES ASSUME NEW j \in DOMAIN stream'
               PROVE  /\ stream'[j].n # 0
                      /\ stream'[j].n > 0 => stream'[j].n = Consumed' + j
                      /\ stream'[j].n > 0 /\ stream'[j].line > 0 =>
                            \E i \in DOMAIN shown' : shown'[i] = Line(stream'[j].line)
    BY DEF InStream, OnPage, Line, Token
  <2>3. /\ n + j \in DOMAIN stream /\ stream'[j] = stream[n + j]
        /\ Consumed' + j = Consumed + (n + j) /\ j \in Nat /\ j >= 1
    BY <1>t, <2>1
  <2>4. n + j # 1
    BY <2>3, <1>a
  <2> QED
    BY <2>1, <2>2, <2>3, <2>4 DEF InStream
<1> QED
  BY <1>c, <1>1, <1>2, <1>3, <1>4, <1>5 DEF DataStep

\* The lines that were sent.
LEMMA InboxNext ==
    ASSUME Inv, [Next]_vars PROVE InInbox'
<1> USE DEF Inv
<1>a. inbox \in Seq(1..at) /\ at \in Nat
  BY DEF TypeOK
<1>0. ASSUME UNCHANGED <<shown, inbox>> PROVE InInbox'
  BY <1>0 DEF InInbox, OnPage
<1>1. CASE UNCHANGED vars
  BY <1>0, <1>1 DEF vars, console, net
<1>2. CASE \/ start \/ handle_send_socks4a \/ read_error \/ handle_write
           \/ handle_connect \/ handle_receive_socks4
  BY <1>0, <1>2 DEF start, handle_send_socks4a, read_error, handle_write,
         handle_connect, handle_receive_socks4, net
<1>3. CASE ProxyReply \/ Begin \/ Message
  BY <1>0, <1>3 DEF ProxyReply, Begin, Message, console
<1>4. CASE Execute
  <2>1. UNCHANGED shown
    BY <1>4 DEF Execute, console
  <2>2. PICK n \in 1..Len(inbox) : inbox' = SubSeq(inbox, n + 1, Len(inbox))
    BY <1>4 DEF Execute
  <2>3. Len(inbox) \in Nat /\ DOMAIN inbox = 1..Len(inbox)
    BY <1>a
  <2>4. \A j \in DOMAIN inbox' : n + j \in DOMAIN inbox /\ inbox'[j] = inbox[n + j]
    <3>1. n + 1 \in Int /\ Len(inbox) \in Int /\ \A j \in n+1..Len(inbox) : inbox[j] \in 1..at
      BY <2>3, <1>a
    <3>2. /\ inbox' \in Seq(1..at)
          /\ Len(inbox') = IF n + 1 <= Len(inbox) THEN Len(inbox) - (n + 1) + 1 ELSE 0
          /\ \A i \in 1..Len(inbox) - (n + 1) + 1 : inbox'[i] = inbox[n + 1 + i - 1]
      BY <2>2, <3>1, SubSeqProperties
    <3>3. DOMAIN inbox' = 1..Len(inbox') /\ Len(inbox') = Len(inbox) - n
      <4>1. DOMAIN inbox' = 1..Len(inbox')
        BY <3>2, LenProperties
      <4>2. PICK l \in Nat : l = Len(inbox)
        BY <2>3
      <4>3. n \in 1..l /\ Len(inbox') = IF n + 1 <= l THEN l - (n + 1) + 1 ELSE 0
        BY <3>2, <4>2
      <4>4. Len(inbox') = l - n
        BY <4>3
      <4> QED
        BY <4>1, <4>2, <4>4
    <3> TAKE j \in DOMAIN inbox'
    <3>4. j \in 1..Len(inbox) - (n + 1) + 1 /\ n + 1 + j - 1 = n + j /\ n + j \in 1..Len(inbox)
      BY <2>3, <3>3
    <3> QED
      BY <2>3, <3>2, <3>4
  <2> QED
    BY <2>1, <2>4 DEF InInbox, OnPage
<1>5. CASE handle_read
  <2>1. PICK n \in 1..Len(stream) : ReadStep(n)
    BY <1>5, ReadForm
  <2>2. Len(stream) \in Nat
    BY SeqTypes
  <2>3. \A k : OnPage(k) => \E i \in DOMAIN shown' : shown'[i] = Line(k)
    BY <2>1, <2>2, PageKeeps DEF ReadStep, OnPage
  <2>4. CASE UNCHANGED inbox
    BY <2>3, <2>4 DEF InInbox, OnPage, Line, Token
  <2>5. CASE inbox' = Append(inbox, at + 1) /\ \E i \in DOMAIN shown' : shown'[i] = Line(at + 1)
    <3>1. \A j \in DOMAIN inbox' :
             (j \in DOMAIN inbox /\ inbox'[j] = inbox[j]) \/ inbox'[j] = at + 1
      BY <2>5, <1>a
    <3>2. \A j \in DOMAIN inbox' : \E i \in DOMAIN shown' : shown'[i] = Line(inbox'[j])
      BY <2>3, <2>5, <3>1 DEF InInbox
    <3> QED
      BY <3>2 DEF InInbox, OnPage, Line, Token
  <2> QED
    BY <2>1, <2>4, <2>5 DEF ReadStep, Deliver
<1> QED
  BY <1>1, <1>2, <1>3, <1>4, <1>5 DEF Next, Handlers, Remote

\* The places of a page that goes on: the old ones, those of the n tokens that
\* were read, and those of what is no token.
LEMMA Places ==
    ASSUME TypeOK, NEW n \in Nat, Shows(n), NEW j \in DOMAIN shown', shown'[j].n > 0
    PROVE  \/ j \in DOMAIN shown /\ shown'[j] = shown[j]
           \/ \E m \in 1..n : j = Len(shown) + m /\ shown'[j] = stream[m]
<1>1. DOMAIN shown = 1..Len(shown) /\ Len(shown) \in Nat
  BY SeqTypes
<1>2. DOMAIN shown' = 1..Len(shown') /\ Len(shown') \in Nat
  BY LenProperties DEF Shows
<1>3. CASE j <= Len(shown)
  BY <1>1, <1>2, <1>3 DEF Shows
<1>4. CASE j > Len(shown) /\ j <= Len(shown) + n
  <2>1. j - Len(shown) \in 1..n /\ j = Len(shown) + (j - Len(shown))
    BY <1>1, <1>2, <1>4
  <2>2. PICK m \in 1..n : j = Len(shown) + m
    BY <2>1
  <2> QED
    BY <2>2 DEF Shows
<1>5. CASE j > Len(shown) + n
  <2>1. j \in Len(shown) + n + 1..Len(shown')
    BY <1>1, <1>2, <1>5
  <2>2. shown'[j].n = 0
    BY <2>1 DEF Shows
  <2> QED
    BY <2>2
<1> QED
  BY <1>1, <1>2, <1>3, <1>4, <1>5

\* What a read adds, with its number.
LEMMA Added ==
    ASSUME Inv, NEW n \in 1..Len(stream), ReadStep(n), stream[1].n # 0
    PROVE  /\ Shows(n) /\ n \in Nat /\ Consumed' = Consumed + n /\ Consumed \in Int
           /\ \A m \in 1..n :
                 /\ stream[m].n > 0 /\ stream[m].n = Consumed + m
                 /\ stream[m].line > 0 => OnPage(stream[m].line)
<1>1. Len(stream) \in Nat /\ DOMAIN stream = 1..Len(stream) /\ emitted \in Nat
  BY SeqTypes DEF Inv
<1>2. Shows(n) /\ Takes(n) /\ UNCHANGED emitted /\ \A m \in 1..n : stream[m].n > 0
  BY DEF ReadStep
<1>3. n \in Nat /\ Consumed \in Int /\ Consumed' = Consumed + n
  BY <1>1, <1>2 DEF Takes, Consumed
<1>4. \A m \in 1..n : m \in DOMAIN stream
  BY <1>1
<1> QED
  BY <1>2, <1>3, <1>4 DEF Inv, InStream

\* A step that shows nothing.
LEMMA PageSame ==
    ASSUME Inv, UNCHANGED shown PROVE Ordered' /\ Answers'
BY DEF Inv, Ordered, Answers, IsToken, Line, Token

\* The other steps show nothing.
LEMMA ReadsOnly ==
    ASSUME DataStep
    PROVE  UNCHANGED shown \/ \E n \in 1..Len(stream) : ReadStep(n) /\ stream[1].n # 0
<1>1. ASSUME NEW n \in 1..Len(stream), ReadStep(n)
      PROVE  UNCHANGED shown \/ stream[1].n # 0
  <2>1. CASE stream[1].n = 0 /\ UNCHANGED <<shown, inbox, at, reset, pending>>
    BY <2>1
  <2>2. CASE \A j \in 1..n : stream[j].n > 0
    <3>1. 1 \in 1..n
      OBVIOUS
    <3> QED
      BY <2>2, <3>1
  <2> QED
    BY <1>1, <2>1, <2>2 DEF ReadStep
<1> QED
  BY <1>1 DEF DataStep, Idle, SendStep, ReplyStep, HeadStep

\* The numbers on the page, and the lines before their answers.
LEMMA PageNext ==
    ASSUME Inv, [Next]_vars PROVE Ordered' /\ Answers'
<1>1. DataStep
  BY DataSteps
<1>2. CASE UNCHANGED shown
  BY <1>2, PageSame
<1>3. ASSUME NEW n \in 1..Len(stream), ReadStep(n), stream[1].n # 0
      PROVE  Ordered' /\ Answers'
  <2>1. /\ Shows(n) /\ n \in Nat /\ Consumed' = Consumed + n /\ Consumed \in Int
        /\ \A m \in 1..n : /\ stream[m].n > 0 /\ stream[m].n = Consumed + m
                           /\ stream[m].line > 0 => OnPage(stream[m].line)
    BY <1>3, Added
  <2>2. /\ TypeOK /\ DOMAIN shown = 1..Len(shown) /\ Len(shown) \in Nat
        /\ \A j \in 1..Len(shown) : shown[j] \in Tokens
    BY SeqTypes DEF Inv
  <2>3. \A j \in DOMAIN shown' : shown'[j].n > 0 =>
           \/ j \in DOMAIN shown /\ shown'[j] = shown[j]
           \/ \E m \in 1..n : j = Len(shown) + m /\ shown'[j] = stream[m]
    BY <2>1, <2>2, Places
  <2>4. PICK b \in Int : From(b)
    BY DEF Inv, Interval
  <2>5. \A j \in DOMAIN shown : shown[j].n > 0 => shown[j].n <= Consumed
    BY <2>4 DEF From, IsToken
  <2>6. \A j \in 1..Len(shown) : shown'[j] = shown[j]
    BY <2>1 DEF Shows
  <2>7. \A j \in DOMAIN shown' : j \in Nat \ {0} /\ shown'[j].n \in Nat
    <3>1. shown' \in Seq(Tokens)
      BY <2>1 DEF Shows
    <3>2. DOMAIN shown' = 1..Len(shown') /\ Len(shown') \in Nat
          /\ \A j \in 1..Len(shown') : shown'[j] \in Tokens
      BY <3>1, LenProperties, ElementOfSeq
    <3> QED
      BY <3>2 DEF Tokens
  <2>8. ASSUME NEW i \in DOMAIN shown', NEW j \in DOMAIN shown',
               i < j, shown'[i].n > 0, shown'[j].n > 0
        PROVE  shown'[i].n < shown'[j].n
    <3>1. CASE j \in DOMAIN shown
      <4>1. i \in DOMAIN shown
        BY <2>2, <2>7, <2>8, <3>1
      <4>2. shown'[i] = shown[i] /\ shown'[j] = shown[j]
        BY <2>2, <2>6, <3>1, <4>1
      <4> QED
        BY <2>8, <3>1, <4>1, <4>2 DEF Inv, Ordered, IsToken
    <3>2. CASE j \notin DOMAIN shown
      <4>1. PICK m \in 1..n : j = Len(shown) + m /\ shown'[j] = stream[m]
        BY <2>3, <2>8, <3>2
      <4>2. shown'[j].n = Consumed + m
        BY <2>1, <4>1
      <4>3. CASE i \in DOMAIN shown
        <5>1. shown'[i] = shown[i]
          BY <2>2, <2>6, <4>3
        <5>2. shown[i].n <= Consumed
          BY <2>5, <2>8, <4>3, <5>1
        <5> QED
          BY <2>1, <2>7, <4>2, <5>1, <5>2
      <4>4. CASE i \notin DOMAIN shown
        <5>1. PICK l \in 1..n : i = Len(shown) + l /\ shown'[i] = stream[l]
          BY <2>3, <2>8, <4>4
        <5>2. shown'[i].n = Consumed + l
          BY <2>1, <5>1
        <5>3. l < m
          BY <2>1, <2>2, <2>8, <4>1, <5>1
        <5> QED
          BY <2>1, <4>2, <5>2, <5>3
      <4> QED
        BY <4>3, <4>4
    <3> QED
      BY <3>1, <3>2
  <2>9. ASSUME NEW j \in DOMAIN shown', shown'[j].n > 0, shown'[j].line > 0
        PROVE  \E i \in 1..j-1 : shown'[i] = Line(shown'[j].line)
    <3>1. CASE j \in DOMAIN shown
      <4>1. shown'[j] = shown[j]
        BY <2>2, <2>6, <3>1
      <4>2. PICK i \in 1..j-1 : shown[i] = Line(shown[j].line)
        BY <2>9, <3>1, <4>1 DEF Inv, Answers, IsToken
      <4>3. i \in 1..Len(shown)
        BY <2>2, <3>1
      <4> QED
        BY <2>6, <4>1, <4>2, <4>3
    <3>2. CASE j \notin DOMAIN shown
      <4>1. PICK m \in 1..n : j = Len(shown) + m /\ shown'[j] = stream[m]
        BY <2>3, <2>9, <3>2
      <4>2. PICK i \in DOMAIN shown : shown[i] = Line(stream[m].line)
        BY <2>1, <2>9, <4>1 DEF OnPage
      <4>3. i \in 1..j-1 /\ shown'[i] = shown[i]
        BY <2>1, <2>2, <2>6, <4>1
      <4> QED
        BY <4>1, <4>2, <4>3
    <3> QED
      BY <3>1, <3>2
  <2>10. Ordered'
    BY <2>8 DEF Ordered, IsToken
  <2>11. Answers'
    BY <2>9 DEF Answers, IsToken, Line, Token
  <2> QED
    BY <2>10, <2>11
<1> QED
  BY <1>1, <1>2, <1>3, ReadsOnly

\* Nothing on the page: any interval that is empty.
LEMMA EmptyInterval ==
    ASSUME TypeOK', shown' = <<>>, connect_proxy' PROVE Interval'
<1>1. Len(stream') \in Nat /\ emitted' \in Nat
  BY LenProperties DEF TypeOK
<1>2. PICK b \in Int : b = Consumed'
  BY <1>1 DEF Consumed
<1>3. \A m \in b+1..Consumed' : FALSE
  <2>1. \A m \in b+1..b : FALSE
    OBVIOUS
  <2> QED
    BY <1>2, <2>1
<1>4. DOMAIN shown' = {}
  OBVIOUS
<1>5. b <= Consumed'
  BY <1>2
<1>6. From(b)'
  BY <1>3, <1>4, <1>5 DEF From
<1> QED
  BY <1>6 DEF Interval

\* The interval of what is shown.
LEMMA IntervalNext ==
    ASSUME Inv, [Next]_vars PROVE Interval'
<1>1. DataStep /\ TypeOK'
  BY DataSteps, TypeNext
<1>2. PICK b \in Int : From(b) /\ (~connect_proxy => b = 0)
  BY DEF Inv, Interval
<1>3. UNCHANGED connect_proxy
  BY <1>1 DEF DataStep
<1>a. Len(stream) \in Nat /\ emitted \in Nat /\ TypeOK /\ DOMAIN stream = 1..Len(stream)
  BY SeqTypes DEF Inv
<1>4. ASSUME UNCHANGED shown, Consumed' = Consumed PROVE Interval'
  BY <1>2, <1>3, <1>4 DEF Interval, From, IsToken
<1>5. CASE Idle
  BY <1>4, <1>5 DEF Idle, Consumed
<1>6. ASSUME NEW n \in Nat, NEW k \in Nat, SendStep(n, k) PROVE Interval'
  <2>1. Consumed' = Consumed
    BY <1>6, <1>a DEF SendStep, Sends, Consumed
  <2> QED
    BY <1>4, <1>6, <2>1 DEF SendStep
<1>7. CASE ReplyStep
  BY <1>1, <1>3, <1>7, EmptyInterval DEF ReplyStep
<1>8. ASSUME NEW n \in 1..Len(stream), HeadStep(n) PROVE Interval'
  BY <1>1, <1>3, <1>8, EmptyInterval DEF HeadStep, Inv, Phases
<1>9. ASSUME NEW n \in 1..Len(stream), ReadStep(n), stream[1].n = 0 PROVE Interval'
  <2>1. 1 \in 1..n /\ 1 \in DOMAIN stream
    BY <1>a
  <2>2. connect_proxy /\ shown = <<>>
    BY <1>9, <2>1 DEF Inv, InStream
  <2>3. UNCHANGED shown
    BY <1>9, <2>1 DEF ReadStep
  <2> QED
    BY <1>1, <1>3, <2>2, <2>3, EmptyInterval
<1>10. ASSUME NEW n \in 1..Len(stream), ReadStep(n), stream[1].n # 0 PROVE Interval'
  <2>1. /\ Shows(n) /\ n \in Nat /\ Consumed' = Consumed + n /\ Consumed \in Int
        /\ \A m \in 1..n : stream[m].n = Consumed + m
    BY <1>10, Added
  <2>2. /\ DOMAIN shown = 1..Len(shown) /\ Len(shown) \in Nat
    BY SeqTypes, <1>a
  <2>3. /\ DOMAIN shown' = 1..Len(shown') /\ Len(shown') \in Nat
    BY <2>1, LenProperties DEF Shows
  <2>4. /\ b <= Consumed
        /\ \A j \in DOMAIN shown : shown[j].n > 0 => b < shown[j].n /\ shown[j].n <= Consumed
        /\ \A m \in b+1..Consumed : \E j \in DOMAIN shown : shown[j].n = m
    BY <1>2 DEF From, IsToken
  <2>5. ASSUME NEW j \in DOMAIN shown', shown'[j].n > 0
        PROVE  b < shown'[j].n /\ shown'[j].n <= Consumed'
    <3>1. CASE j \in DOMAIN shown /\ shown'[j] = shown[j]
      <4>1. shown[j].n \in Nat
        BY <3>1, <2>2, <1>a, SeqTypes DEF Tokens
      <4> QED
        BY <2>1, <2>4, <2>5, <3>1, <4>1
    <3>2. ASSUME NEW m \in 1..n, shown'[j] = stream[m]
          PROVE  b < shown'[j].n /\ shown'[j].n <= Consumed'
      BY <2>1, <2>4, <3>2
    <3> QED
      BY <1>a, <2>1, <2>5, <3>1, <3>2, Places
  <2>6. ASSUME NEW m \in b+1..Consumed'
        PROVE  \E j \in DOMAIN shown' : shown'[j].n = m
    <3>1. CASE m <= Consumed
      <4>1. PICK j \in DOMAIN shown : shown[j].n = m
        <5>1. m \in b+1..Consumed
          BY <2>1, <3>1
        <5> QED
          BY <2>4, <5>1
      <4>2. j \in DOMAIN shown' /\ shown'[j] = shown[j]
        BY <2>1, <2>2, <2>3 DEF Shows
      <4> QED
        BY <4>1, <4>2
    <3>2. CASE m > Consumed
      <4>1. PICK l \in 1..n : m = Consumed + l
        <5>1. m - Consumed \in 1..n /\ m = Consumed + (m - Consumed)
          BY <2>1, <3>2
        <5> QED
          BY <5>1
      <4>2. Len(shown) + l \in DOMAIN shown' /\ shown'[Len(shown) + l] = stream[l]
        BY <2>1, <2>2, <2>3, SMTT(30) DEF Shows
      <4>3. stream[l].n = m
        BY <2>1, <4>1
      <4> QED
        BY <4>2, <4>3
    <3> QED
      BY <2>1, <3>1, <3>2
  <2>7. b <= Consumed'
    BY <2>1, <2>4
  <2>8. From(b)'
    BY <2>5, <2>6, <2>7 DEF From, IsToken
  <2> QED
    BY <1>2, <1>3, <2>8 DEF Interval
<1> QED
  BY <1>1, <1>5, <1>6, <1>7, <1>8, <1>9, <1>10 DEF DataStep

-----------------------------------------------------------------------------
(***************************************************************************)
(* The theorems.                                                           *)
(***************************************************************************)

\* The inductive invariant holds in every behaviour.
THEOREM SessionInvariant == Spec => []Inv
<1>1. Init => Inv
  BY InitInv
<1>2. Inv /\ [Next]_vars => Inv'
  BY TypeNext, PhasesNext, StreamNext, InboxNext, PageNext, IntervalNext DEF Inv
<1> QED
  BY <1>1, <1>2, PTL DEF Spec

\* Every variable of the session keeps its type.
THEOREM TypeCorrect == Spec => []TypeOK
<1>1. Inv => TypeOK
  BY DEF Inv
<1> QED
  BY <1>1, SessionInvariant, PTL

\* The page shows what the shell sent without a gap or a repetition, and every
\* line before its answers, however the stream is cut into chunks.
THEOREM PageInOrder == Spec => []ShownInOrder
<1>1. Inv => ShownInOrder
  <2> SUFFICES ASSUME Inv PROVE ShownInOrder
    OBVIOUS
  <2>1. /\ TypeOK /\ DOMAIN shown = 1..Len(shown) /\ Len(shown) \in Nat
        /\ \A j \in 1..Len(shown) : shown[j].n \in Nat
    BY SeqTypes DEF Inv, Tokens
  <2>2. emitted \in Nat /\ Len(stream) \in Nat
    BY SeqTypes DEF Inv
  <2>3. Consumed \in Int
    BY <2>2 DEF Consumed
  <2>4. PICK b \in Int : From(b) /\ (~connect_proxy => b = 0)
    BY DEF Inv, Interval
  <2>5. ASSUME NEW i \in DOMAIN shown, NEW j \in DOMAIN shown, NextToken(i, j)
        PROVE  shown[j].n = shown[i].n + 1
    <3>1. /\ i < j /\ IsToken(i) /\ IsToken(j)
          /\ \A k \in i+1..j-1 : ~IsToken(k)
      BY <2>5 DEF NextToken
    <3>2. shown[i].n < shown[j].n
      BY <3>1 DEF Inv, Ordered
    <3>3. SUFFICES ASSUME shown[i].n + 1 < shown[j].n PROVE FALSE
      BY <2>1, <3>2
    <3>4. shown[i].n + 1 \in b+1..Consumed
      <4>1. b < shown[i].n /\ shown[j].n <= Consumed
        BY <2>4, <3>1 DEF From
      <4> QED
        BY <2>1, <2>3, <3>3, <4>1, SMTT(30)
    <3>5. PICK k \in DOMAIN shown : shown[k].n = shown[i].n + 1
      BY <2>4, <3>4 DEF From
    <3>6. IsToken(k) /\ k # i /\ k # j /\ shown[i].n < shown[k].n /\ shown[k].n < shown[j].n
      BY <2>1, <3>3, <3>5 DEF IsToken
    <3>7. ~(k < i) /\ ~(j < k)
      BY <2>1, <3>1, <3>6 DEF Inv, Ordered
    <3>8. k \in i+1..j-1
      BY <2>1, <3>6, <3>7
    <3> QED
      BY <3>1, <3>6, <3>8
  <2>6. ASSUME NEW j \in DOMAIN shown, ~connect_proxy, IsToken(j),
               \A k \in 1..j-1 : ~IsToken(k)
        PROVE  shown[j].n = 1
    <3>1. SUFFICES ASSUME shown[j].n > 1 PROVE FALSE
      BY <2>1, <2>6 DEF IsToken
    <3>2. 1 \in b+1..Consumed
      BY <2>1, <2>3, <2>4, <2>6, <3>1 DEF From
    <3>3. PICK k \in DOMAIN shown : shown[k].n = 1
      BY <2>4, <3>2 DEF From
    <3>4. IsToken(k) /\ k # j /\ ~(j < k)
      BY <2>1, <2>6, <3>1, <3>3 DEF IsToken, Inv, Ordered
    <3>5. k \in 1..j-1
      BY <2>1, <3>4
    <3> QED
      BY <2>6, <3>4, <3>5
  <2> QED
    BY <2>5, <2>6 DEF ShownInOrder, Inv, Answers
<1> QED
  BY <1>1, SessionInvariant, PTL

\* A direct session that ends with the shell has all that the shell sent on its
\* page.
THEOREM PageComplete == Spec => []AllShown
<1>1. Inv => AllShown
  <2> SUFFICES ASSUME Inv, ~connect_proxy, pending = "none", remote = "closed", ~reset,
                      NEW n \in 1..emitted
               PROVE  \E j \in DOMAIN shown : shown[j].n = n
    BY DEF AllShown
  <2>1. stream = <<>> /\ emitted \in Nat
    BY DEF Inv, Phases, TypeOK
  <2>2. Consumed = emitted
    BY <2>1 DEF Consumed
  <2>3. From(0)
    BY DEF Inv, Interval
  <2>4. n \in 0+1..Consumed
    BY <2>1, <2>2
  <2> QED
    BY <2>3, <2>4 DEF From
<1> QED
  BY <1>1, SessionInvariant, PTL
=============================================================================
