-------------------------- MODULE Firewall_proofs --------------------------
(***************************************************************************)
(* The character loop of check_dest_ip finds what the rules mean, for any  *)
(* set and number of octets and any rule file.                             *)
(***************************************************************************)
EXTENDS Firewall, SequenceTheorems, WellFoundedInduction, TLAPS

Chars == Digits \cup {".", "*"}

\* An octet of a pattern, or of an address.
Octs == {o \in Seq(Digits) : o # <<>>} \cup {<<"*">>}

\* A set of numbers has a smallest one.
LEMMA Smallest ==
    ASSUME NEW T \in SUBSET Nat, T # {}
    PROVE  \E x \in T : \A y \in T : x <= y
<1>1. PICK x \in T : \A y \in T : ~(<<y, x>> \in OpToRel(<, Nat))
    BY NatLessThanWellFounded, WFMin
<1>2. \A y \in T : ~(y < x)
    BY <1>1 DEF OpToRel
<1> QED
    BY <1>2

\* Induction, with a set for the numbers of which the claim holds.
LEMMA AllNumbers ==
    ASSUME NEW T, 0 \in T, \A n \in Nat : n \in T => n + 1 \in T
    PROVE  \A n \in Nat : n \in T
<1> SUFFICES ASSUME Nat \ T # {} PROVE FALSE
    OBVIOUS
<1>1. PICK x \in Nat \ T : \A y \in Nat \ T : x <= y
    BY Smallest
<1>2. x - 1 \in Nat /\ x - 1 \in T
    BY <1>1
<1> QED
    BY <1>1, <1>2

-----------------------------------------------------------------------------
(* The text of an address or of a pattern. *)

\* t is what the loop of get_dest_ip builds of the first m octets.
Builds(t, octets, m) ==
    t = [n \in 1..m |-> IF n = 1 THEN octets[1]
                        ELSE t[n-1] \o <<".">> \o octets[n]]

\* There is such a function for any number of octets.
LEMMA BuildsExists ==
    ASSUME NEW octets
    PROVE  \A m \in Nat : \E t : Builds(t, octets, m)
<1> DEFINE T == {m \in Nat : \E t : Builds(t, octets, m)}
<1>1. 0 \in T
    <2>1. Builds(<<>>, octets, 0)
        BY DEF Builds
    <2> QED
        BY <2>1
<1>2. ASSUME NEW m \in Nat, m \in T PROVE m + 1 \in T
    <2>1. PICK t : Builds(t, octets, m)
        BY <1>2
    <2> DEFINE last == IF m = 0 THEN octets[1] ELSE t[m] \o <<".">> \o octets[m+1]
               u == [n \in 1..m+1 |-> IF n = m + 1 THEN last ELSE t[n]]
    <2>2. \A n \in 1..m : u[n] = t[n]
        OBVIOUS
    <2>3. u[m+1] = last
        OBVIOUS
    <2>4. \A n \in 1..m : t[n] = IF n = 1 THEN octets[1]
                                 ELSE t[n-1] \o <<".">> \o octets[n]
        BY <2>1 DEF Builds
    <2>5. ASSUME NEW n \in 1..m+1
          PROVE  u[n] = IF n = 1 THEN octets[1] ELSE u[n-1] \o <<".">> \o octets[n]
        <3>1. CASE n \in 1..m
            <4>1. n = 1 \/ n - 1 \in 1..m
                BY <3>1
            <4> HIDE DEF u
            <4> QED
                BY <3>1, <4>1, <2>2, <2>4
        <3>2. CASE n = m + 1
            <4>1. m = 0 \/ m \in 1..m
                OBVIOUS
            <4>2. CASE m = 0
                BY <4>2, <3>2, <2>3
            <4>3. CASE m # 0
                <5>1. u[m] = t[m] /\ n - 1 = m /\ n # 1
                    BY <4>3, <4>1, <3>2, <2>2
                <5>2. last = t[m] \o <<".">> \o octets[m+1]
                    BY <4>3
                <5> HIDE DEF u, last
                <5> QED
                    BY <5>1, <5>2, <3>2, <2>3
            <4> QED
                BY <4>2, <4>3
        <3> QED
            BY <3>1, <3>2
    <2>6. Builds(u, octets, m + 1)
        <3>1. u = [n \in 1..m+1 |-> u[n]]
            OBVIOUS
        <3> HIDE DEF u
        <3> QED
            BY <2>5, <3>1 DEF Builds
    <2> QED
        BY <2>6
<1> HIDE DEF T
<1>3. \A n \in Nat : n \in T
    BY <1>1, <1>2, AllNumbers
<1> QED
    BY <1>3 DEF T

\* Text is that function's last value.
LEMMA TextBuilt ==
    ASSUME NEW N \in Nat \ {0}, NEW octets \in [1..N -> Octs]
    PROVE  \E t : Builds(t, octets, N) /\ Text(octets) = t[N]
<1>1. octets \in Seq(Octs) /\ Len(octets) = N /\ octets # <<>>
    <2>1. octets \in Seq(Octs)
        BY SeqDef
    <2>2. Len(octets) \in Nat /\ DOMAIN octets = 1..Len(octets)
        BY <2>1, LenProperties
    <2>3. DOMAIN octets = 1..N
        OBVIOUS
    <2> QED
        BY <2>1, <2>2, <2>3
<1> DEFINE text == CHOOSE t : t = [n \in 1..N |->
            IF n = 1 THEN octets[1] ELSE t[n-1] \o <<".">> \o octets[n]]
<1>2. Builds(text, octets, N)
    BY BuildsExists, Zenon DEF Builds
<1>3. Text(octets) = text[N]
    BY <1>1, Zenon DEF Text
<1> QED
    BY <1>2, <1>3

\* Where octet k begins in a text s of n octets: at place st[k]. A dot stands
\* before each but the first.
Layout(s, octets, n, st) ==
    /\ \A k \in 1..n : octets[k] \in Octs
    /\ s \in Seq(Chars) /\ st \in [1..n+1 -> Nat]
    /\ st[1] = 1 /\ Len(s) = st[n+1] - 2
    /\ \A k \in 1..n : st[k+1] = st[k] + Len(octets[k]) + 1
    /\ \A k \in 1..n+1 : 1 <= st[k] /\ st[k] <= st[n+1]
    /\ \A k \in 1..n : \A c \in 1..Len(octets[k]) : s[st[k] + c - 1] = octets[k][c]
    /\ \A k \in 1..n-1 : s[st[k+1] - 1] = "."

\* An octet is a sequence of characters that is not empty.
LEMMA OctType ==
    ASSUME NEW o \in Octs
    PROVE  /\ o \in Seq(Chars) /\ Len(o) \in Nat /\ Len(o) >= 1
           /\ DOMAIN o = 1..Len(o)
           /\ o # <<"*">> => \A c \in 1..Len(o) : o[c] \in Digits
<1>1. CASE o = <<"*">>
    BY <1>1 DEF Chars
<1>2. CASE o \in Seq(Digits) /\ o # <<>>
    <2>1. Len(o) \in Nat /\ DOMAIN o = 1..Len(o) /\ Len(o) # 0
        BY <1>2, LenProperties, EmptySeq
    <2>2. \A c \in 1..Len(o) : o[c] \in Digits
        BY <1>2, ElementOfSeq
    <2>3. o \in [1..Len(o) -> Digits]
        BY <1>2, LenProperties
    <2>4. o \in [1..Len(o) -> Chars]
        BY <2>3 DEF Chars
    <2> QED
        BY <2>1, <2>2, <2>4, SeqDef
<1> QED
    BY <1>1, <1>2 DEF Octs

\* u is the text s, a dot and the text o.
Dotted(u, s, o) ==
    /\ u \in Seq(Chars) /\ Len(u) = Len(s) + 1 + Len(o)
    /\ \A i \in 1..Len(s) : u[i] = s[i]
    /\ u[Len(s) + 1] = "."
    /\ \A c \in 1..Len(o) : u[Len(s) + 1 + c] = o[c]

\* That is what the two concatenations make.
LEMMA Joined ==
    ASSUME NEW s \in Seq(Chars), NEW o \in Seq(Chars)
    PROVE  Dotted(s \o <<".">> \o o, s, o)
<1> DEFINE dot == <<".">>
           v == s \o dot
           u == v \o o
<1>1. dot \in Seq(Chars) /\ Len(dot) = 1 /\ dot[1] = "."
    BY DEF Chars
<1>2. Len(s) \in Nat /\ Len(o) \in Nat
    BY LenProperties
<1> HIDE DEF dot
<1>3. /\ v \in Seq(Chars) /\ Len(v) = Len(s) + Len(dot)
      /\ \A i \in 1..Len(s) + Len(dot) :
            v[i] = IF i <= Len(s) THEN s[i] ELSE dot[i - Len(s)]
    BY <1>1, ConcatProperties
<1>4. /\ v \in Seq(Chars) /\ Len(v) = Len(s) + 1
      /\ \A i \in 1..Len(s) : v[i] = s[i]
      /\ v[Len(s) + 1] = "."
    <2> HIDE DEF v
    <2> QED
        BY <1>1, <1>2, <1>3
<1> HIDE DEF v
<1>5. /\ u \in Seq(Chars) /\ Len(u) = Len(v) + Len(o)
      /\ \A i \in 1..Len(v) + Len(o) :
            u[i] = IF i <= Len(v) THEN v[i] ELSE o[i - Len(v)]
    BY <1>4, ConcatProperties
<1>6. /\ u \in Seq(Chars) /\ Len(u) = Len(s) + 1 + Len(o)
      /\ \A i \in 1..Len(s) : u[i] = s[i]
      /\ u[Len(s) + 1] = "."
      /\ \A c \in 1..Len(o) : u[Len(s) + 1 + c] = o[c]
    <2> HIDE DEF u
    <2>1. Len(u) = Len(s) + 1 + Len(o) /\ Len(v) \in Nat
        BY <1>2, <1>4, <1>5
    <2>2. ASSUME NEW i \in 1..Len(s) + 1 PROVE u[i] = v[i]
        <3>1. i \in 1..Len(v) + Len(o) /\ i <= Len(v)
            BY <1>2, <1>4
        <3> QED
            BY <3>1, <1>5
    <2>3. ASSUME NEW c \in 1..Len(o) PROVE u[Len(s) + 1 + c] = o[c]
        <3>1. /\ Len(s) + 1 + c \in 1..Len(v) + Len(o) /\ ~(Len(s) + 1 + c <= Len(v))
              /\ Len(s) + 1 + c - Len(v) = c
            BY <1>2, <1>4
        <3> QED
            BY <3>1, <1>5
    <2>4. (\A i \in 1..Len(s) : i \in 1..Len(s) + 1) /\ Len(s) + 1 \in 1..Len(s) + 1
        BY <1>2
    <2> QED
        BY <1>4, <1>5, <2>1, <2>2, <2>3, <2>4
<1>7. Dotted(u, s, o)
    BY <1>6 DEF Dotted
<1> QED
    BY <1>7 DEF u, v, dot

\* An octet of l characters that begins at a, and the dot behind it at b, lie
\* within a text of which octets follow up to e.
LEMMA Inside ==
    ASSUME NEW a \in Nat, NEW l \in Nat, NEW b \in Nat, NEW e \in Nat,
           1 <= a, b = a + l + 1, b <= e
    PROVE  /\ \A c \in 1..l : a + c - 1 \in 1..e-2
           /\ \A m \in Nat : 1 <= m /\ 1 <= l /\ b + m + 1 <= e => b - 1 \in 1..e-2
OBVIOUS

\* Another octet is put behind a text.
LEMMA LayoutStep ==
    ASSUME NEW n \in Nat \ {0}, NEW octets, NEW s, NEW st,
           Layout(s, octets, n, st), octets[n+1] \in Octs, NEW u,
           Dotted(u, s, octets[n+1])
    PROVE  \E r : Layout(u, octets, n + 1, r)
<1>o. PICK o : o = octets[n+1]
    OBVIOUS
<1>1. o \in Seq(Chars) /\ Len(o) \in Nat /\ Len(o) >= 1
    BY <1>o, OctType
<1>2. /\ s \in Seq(Chars) /\ Len(s) \in Nat /\ st \in [1..n+1 -> Nat]
      /\ st[1] = 1 /\ Len(s) = st[n+1] - 2
    BY LenProperties DEF Layout
<1>3. /\ \A k \in 1..n : st[k+1] = st[k] + Len(octets[k]) + 1
      /\ \A k \in 1..n+1 : 1 <= st[k] /\ st[k] <= st[n+1]
      /\ \A k \in 1..n : \A c \in 1..Len(octets[k]) : s[st[k] + c - 1] = octets[k][c]
      /\ \A k \in 1..n-1 : s[st[k+1] - 1] = "."
    BY DEF Layout
<1>l. \A k \in 1..n+1 : octets[k] \in Octs /\ Len(octets[k]) \in Nat /\ Len(octets[k]) >= 1
    <2>1. \A k \in 1..n+1 : octets[k] \in Octs
        BY DEF Layout
    <2> QED
        BY <2>1, OctType
<1>m. \A k \in 1..n+1 : st[k] \in Nat
    BY <1>2
<1>4. PICK r : r = [k \in 1..n+2 |-> IF k = n + 2 THEN st[n+1] + Len(o) + 1 ELSE st[k]]
    OBVIOUS
<1>5. (\A k \in 1..n+1 : r[k] = st[k]) /\ r[n+2] = st[n+1] + Len(o) + 1
    BY <1>4
<1>6. r \in [1..n+2 -> Nat]
    BY <1>1, <1>4, <1>m
<1>9. /\ u \in Seq(Chars) /\ Len(u) = Len(s) + 1 + Len(o)
      /\ \A i \in 1..Len(s) : u[i] = s[i]
      /\ u[Len(s) + 1] = "."
      /\ \A c \in 1..Len(o) : u[Len(s) + 1 + c] = o[c]
    BY <1>o DEF Dotted
<1>10. \A k \in 1..n+1 : r[k+1] = r[k] + Len(octets[k]) + 1
    <2>1. r[n+2] = r[n+1] + Len(octets[n+1]) + 1
        BY <1>5, <1>o
    <2>2. \A k \in 1..n : r[k+1] = r[k] + Len(octets[k]) + 1
        BY <1>5, <1>3
    <2>3. \A k \in 1..n+1 : k \in 1..n \/ k = n + 1
        OBVIOUS
    <2> QED
        BY <2>1, <2>2, <2>3
<1>11. /\ r[1] = 1 /\ Len(u) = r[n+2] - 2
       /\ \A k \in 1..n+2 : 1 <= r[k] /\ r[k] <= r[n+2]
    <2>1. r[1] = 1 /\ Len(u) = r[n+2] - 2
        <3>1. 1 \in 1..n+1 /\ n + 1 \in 1..n+1
            OBVIOUS
        <3>2. r[1] = st[1] /\ st[n+1] \in Nat
            BY <3>1, <1>5, <1>m
        <3> QED
            BY <3>2, <1>1, <1>2, <1>5, <1>9, SMTT(30)
    <2>2. \A k \in 1..n+1 : 1 <= r[k] /\ r[k] <= r[n+2]
        <3> TAKE k \in 1..n+1
        <3>1. n + 1 \in 1..n+1
            OBVIOUS
        <3>2. /\ r[k] = st[k] /\ st[k] \in Nat /\ st[n+1] \in Nat
              /\ 1 <= st[k] /\ st[k] <= st[n+1]
            BY <3>1, <1>5, <1>m, <1>3
        <3> QED
            BY <3>2, <1>1, <1>5
    <2>3. 1 <= r[n+2] /\ r[n+2] <= r[n+2]
        BY <1>1, <1>m, <1>5
    <2>4. \A k \in 1..n+2 : k \in 1..n+1 \/ k = n + 2
        OBVIOUS
    <2> QED
        BY <2>1, <2>2, <2>3, <2>4
<1>12. ASSUME NEW k \in 1..n+1, NEW c \in 1..Len(octets[k])
       PROVE  u[r[k] + c - 1] = octets[k][c]
    <2>1. CASE k = n + 1
        <3>1. c \in 1..Len(o) /\ r[k] = st[n+1]
            BY <2>1, <1>o, <1>5
        <3>2. st[n+1] + c - 1 = Len(s) + 1 + c
            <4>1. n + 1 \in 1..n+1
                OBVIOUS
            <4>2. PICK e \in Nat : e = st[n+1]
                BY <4>1, <1>m
            <4>3. c \in Int /\ Len(s) = e - 2
                BY <1>1, <1>2, <3>1, <4>2
            <4>4. e + c - 1 = Len(s) + 1 + c
                BY <4>3
            <4> QED
                BY <4>2, <4>4
        <3> QED
            BY <3>1, <3>2, <2>1, <1>9, <1>o
    <2>2. CASE k \in 1..n
        <3>1. r[k] = st[k] /\ k + 1 \in 1..n+1
            BY <2>2, <1>5
        <3>2. /\ 1 <= st[k] /\ st[k+1] <= st[n+1]
              /\ st[k+1] = st[k] + Len(octets[k]) + 1
            BY <2>2, <3>1, <1>3
        <3>3. st[k] \in Nat /\ st[k+1] \in Nat /\ st[n+1] \in Nat /\ Len(octets[k]) \in Nat
            BY <2>2, <3>1, <1>m, <1>l
        <3>4. st[k] + c - 1 \in 1..Len(s)
            BY <3>2, <3>3, <1>2, Inside
        <3> QED
            BY <2>2, <3>1, <3>4, <1>3, <1>9
    <2>3. k \in 1..n \/ k = n + 1
        OBVIOUS
    <2> QED
        BY <2>1, <2>2, <2>3
<1>13. ASSUME NEW k \in 1..n PROVE u[r[k+1] - 1] = "."
    <2>1. CASE k = n
        <3>1. r[n+1] - 1 = Len(s) + 1
            BY <1>2, <1>5, <1>m, SMTT(30)
        <3> QED
            BY <2>1, <3>1, <1>9
    <2>2. CASE k \in 1..n-1
        <3>1. /\ k + 1 \in 1..n /\ k + 2 \in 1..n+1 /\ (k + 1) + 1 = k + 2
              /\ r[k+1] = st[k+1]
            BY <2>2, <1>5
        <3>2. /\ st[k+2] <= st[n+1] /\ st[k+2] = st[k+1] + Len(octets[k+1]) + 1
              /\ st[k+1] = st[k] + Len(octets[k]) + 1
            BY <2>2, <3>1, <1>3
        <3>3. /\ st[k] \in Nat /\ st[k+1] \in Nat /\ st[k+2] \in Nat
              /\ st[n+1] \in Nat /\ Len(octets[k]) \in Nat
              /\ Len(octets[k+1]) \in Nat
              /\ 1 <= st[k] /\ 1 <= Len(octets[k]) /\ 1 <= Len(octets[k+1])
            BY <2>2, <3>1, <1>m, <1>l, <1>3, SMTT(30)
        <3>4. st[k+1] - 1 \in 1..Len(s)
            <4>1. PICK e \in Nat, b \in Nat, m \in Nat :
                     e = st[n+1] /\ b = st[k+1] /\ m = Len(octets[k+1])
                BY <3>3
            <4>2. st[k+2] = b + m + 1
                BY <4>1, <3>2
            <4>3. b + m + 1 <= e /\ 1 <= m
                BY <4>1, <4>2, <3>2, <3>3
            <4>4. b <= e
                BY <4>3
            <4>5. b - 1 \in 1..e-2
                BY <4>1, <4>3, <4>4, <3>2, <3>3, Inside
            <4> QED
                BY <4>1, <4>5, <1>2
        <3> QED
            BY <2>2, <3>1, <3>4, <1>3, <1>9
    <2>3. k \in 1..n-1 \/ k = n
        OBVIOUS
    <2> QED
        BY <2>1, <2>2, <2>3
<1>14. (n + 1) + 1 = n + 2 /\ (n + 1) - 1 = n
    OBVIOUS
<1>15. Layout(u, octets, n + 1, r)
    BY <1>6, <1>9, <1>10, <1>11, <1>12, <1>13, <1>14, <1>l DEF Layout
<1> QED
    BY <1>15

\* The text of octets has a layout.
LEMMA TextLayout ==
    ASSUME NEW N \in Nat \ {0}, NEW octets \in [1..N -> Octs]
    PROVE  \E st : Layout(Text(octets), octets, N, st)
<1>1. PICK t : Builds(t, octets, N) /\ Text(octets) = t[N]
    BY TextBuilt
<1>2. \A n \in 1..N : t[n] = IF n = 1 THEN octets[1]
                             ELSE t[n-1] \o <<".">> \o octets[n]
    BY <1>1 DEF Builds
<1> DEFINE T == {n \in Nat : n + 1 <= N => \E st : Layout(t[n+1], octets, n + 1, st)}
<1>3. 0 \in T
    <2>1. PICK o \in Octs : o = octets[1]
        OBVIOUS
    <2>2. t[1] = o
        BY <1>2, <2>1
    <2>3. o \in Seq(Chars) /\ Len(o) \in Nat /\ Len(o) >= 1
        BY OctType
    <2>4. PICK st : st = [k \in 1..2 |-> IF k = 1 THEN 1 ELSE Len(o) + 2]
        OBVIOUS
    <2>5. st \in [1..2 -> Nat] /\ st[1] = 1 /\ st[2] = Len(o) + 2
        BY <2>3, <2>4
    <2>6. Layout(o, octets, 1, st)
        <3>1. \A k \in 1..1 : k = 1
            OBVIOUS
        <3>2. \A k \in 1..1+1 : k = 1 \/ k = 2
            OBVIOUS
        <3>3. \A k \in 1..1+1 : 1 <= st[k] /\ st[k] <= st[1+1]
            BY <2>3, <2>5, <3>2
        <3>4. \A c \in 1..Len(o) : 1 + c - 1 = c
            BY <2>3
        <3>5. 1..0 = {} /\ 1 + 1 = 2 /\ 1 - 1 = 0
            OBVIOUS
        <3>6. Len(o) = st[1+1] - 2 /\ st[1+1] = st[1] + Len(o) + 1
            BY <2>3, <2>5
        <3> QED
            BY <2>1, <2>3, <2>5, <3>1, <3>3, <3>4, <3>5, <3>6 DEF Layout
    <2> QED
        BY <2>2, <2>6
<1>4. ASSUME NEW n \in Nat, n \in T PROVE n + 1 \in T
    <2> SUFFICES ASSUME n + 2 <= N
                 PROVE  \E st : Layout(t[n+2], octets, n + 2, st)
        <3>1. (n + 1) + 1 = n + 2 /\ n + 1 \in Nat
            OBVIOUS
        <3> QED
            BY <3>1
    <2>1. n + 1 \in Nat \ {0} /\ n + 2 \in 1..N /\ n + 2 # 1 /\ (n + 2) - 1 = n + 1
          /\ (n + 1) + 1 = n + 2 /\ n + 1 <= N
        OBVIOUS
    <2>2. PICK st : Layout(t[n+1], octets, n + 1, st)
        BY <1>4, <2>1
    <2>3. t[n+2] = t[n+1] \o <<".">> \o octets[n+2]
        BY <1>2, <2>1
    <2>4. octets[n+2] \in Octs
        BY <2>1
    <2>5. Dotted(t[n+2], t[n+1], octets[n+2])
        <3>1. t[n+1] \in Seq(Chars) /\ octets[n+2] \in Seq(Chars)
            BY <2>2, <2>4, OctType DEF Layout
        <3>2. Dotted(t[n+1] \o <<".">> \o octets[n+2], t[n+1], octets[n+2])
            BY <3>1, Joined
        <3> QED
            BY <3>2, <2>3, Zenon
    <2> HIDE DEF T
    <2> QED
        BY <2>1, <2>2, <2>4, <2>5, LayoutStep
<1> HIDE DEF T
<1>5. \A n \in Nat : n \in T
    BY <1>3, <1>4, AllNumbers
<1>6. N - 1 \in Nat /\ (N - 1) + 1 = N
    OBVIOUS
<1>7. \E st : Layout(t[N], octets, N, st)
    BY <1>5, <1>6 DEF T
<1> QED
    BY <1>1, <1>7

-----------------------------------------------------------------------------
(* The loops. *)

\* From every place of a text the inner loop comes to a dot or to the end.
LEMMA SkipStops ==
    ASSUME NEW ip \in Seq(Chars), NEW i \in 1..Len(ip) + 1
    PROVE  /\ SkipOctet(ip, i) \in i..Len(ip) + 1
           /\ At(ip, SkipOctet(ip, i)) \in {".", "end"}
           /\ \A k \in i..SkipOctet(ip, i) - 1 : ip[k] # "."
<1>1. Len(ip) \in Nat
    BY LenProperties
<1> DEFINE T == {j \in Nat : j \in i..Len(ip) + 1 /\ At(ip, j) \in {".", "end"}}
<1>2. Len(ip) + 1 \in T
    BY <1>1 DEF At
<1>3. PICK j \in T : \A k \in T : j <= k
    <2> HIDE DEF T
    <2>1. T \in SUBSET Nat
        BY DEF T
    <2> QED
        BY <1>2, <2>1, Smallest
<1>4. ASSUME NEW k \in i..j-1 PROVE ip[k] # "."
    <2>1. k \in Nat /\ k \in i..Len(ip) + 1 /\ ~(j <= k) /\ ~(k > Len(ip))
        BY <1>1
    <2>2. At(ip, k) # "."
        BY <2>1, <1>3
    <2> QED
        BY <2>1, <2>2 DEF At
<1>5. \E x \in i..Len(ip) + 1 : /\ At(ip, x) \in {".", "end"}
                                /\ \A k \in i..x-1 : ip[k] # "."
    BY <1>4
<1> QED
    BY <1>5 DEF SkipOctet

\* f is what the outer loop finds from every pair of places.
Loop(ip, pattern, f) ==
    f = [at \in (1..Len(ip) + 1) \X (1..Len(pattern) + 1) |->
            Turn(ip, at[1], pattern, at[2], f)]

\* Matches is what it finds from the first places.
LEMMA MatchesLoop ==
    ASSUME NEW ip, NEW pattern, \E f : Loop(ip, pattern, f)
    PROVE  \E f : Loop(ip, pattern, f) /\ Matches(ip, pattern) = f[<<1, 1>>]
BY Zenon DEF Loop, Matches

\* f and g say the same of the places after j of the pattern.
Agree(ip, pattern, j, f, g) ==
    j + 1 \in 1..Len(pattern) + 1 =>
        \A x \in 1..Len(ip) + 1 : f[<<x, j+1>>] = g[<<x, j+1>>]

\* A turn depends only on what is found from the next place of the pattern.
LEMMA TurnLocal ==
    ASSUME NEW ip \in Seq(Chars), NEW pattern \in Seq(Chars), NEW f, NEW g,
           NEW i \in 1..Len(ip) + 1, NEW j \in 1..Len(pattern) + 1,
           Agree(ip, pattern, j, f, g)
    PROVE  Turn(ip, i, pattern, j, f) = Turn(ip, i, pattern, j, g)
<1>1. Len(ip) \in Nat /\ Len(pattern) \in Nat
    BY LenProperties
<1>2. CASE i > Len(ip) \/ j > Len(pattern)
    BY <1>2 DEF Turn
<1>3. CASE ~(i > Len(ip) \/ j > Len(pattern))
    <2>1. /\ j + 1 \in 1..Len(pattern) + 1 /\ i + 1 \in 1..Len(ip) + 1
          /\ SkipOctet(ip, i) \in 1..Len(ip) + 1
        <3>1. SkipOctet(ip, i) \in i..Len(ip) + 1
            BY SkipStops
        <3> QED
            BY <1>1, <1>3, <3>1
    <2>2. /\ f[<<i+1, j+1>>] = g[<<i+1, j+1>>]
          /\ f[<<SkipOctet(ip, i), j+1>>] = g[<<SkipOctet(ip, i), j+1>>]
        BY <2>1 DEF Agree
    <2> QED
        BY <1>3, <2>2 DEF Turn
<1> QED
    BY <1>2, <1>3

\* The loop finds something from every pair of places, since each turn goes one
\* place on in the pattern.
LEMMA LoopExists ==
    ASSUME NEW ip \in Seq(Chars), NEW pattern \in Seq(Chars)
    PROVE  \E f : Loop(ip, pattern, f)
<1> DEFINE A == 1..Len(ip) + 1
           B == 1..Len(pattern) + 1
           Found(f, i, j) == f[<<i, j>>] = Turn(ip, i, pattern, j, f)
           T == {m \in Nat : \E f : \A i \in A, j \in B :
                                j + m > Len(pattern) + 1 => Found(f, i, j)}
<1>1. Len(ip) \in Nat /\ Len(pattern) \in Nat
    BY LenProperties
<1>2. 0 \in T
    <2>1. \A j \in B : ~(j + 0 > Len(pattern) + 1)
        BY <1>1
    <2> QED
        BY <2>1
<1>3. ASSUME NEW m \in Nat, m \in T PROVE m + 1 \in T
    <2>1. PICK f : \A i \in A, j \in B : j + m > Len(pattern) + 1 => Found(f, i, j)
        BY <1>3
    <2>2. PICK g : g = [at \in A \X B |-> IF at[2] + m > Len(pattern) + 1 THEN f[at]
                                          ELSE Turn(ip, at[1], pattern, at[2], f)]
        OBVIOUS
    <2>3. ASSUME NEW i \in A, NEW j \in B
          PROVE  g[<<i, j>>] = IF j + m > Len(pattern) + 1 THEN f[<<i, j>>]
                               ELSE Turn(ip, i, pattern, j, f)
        <3>1. <<i, j>> \in A \X B /\ <<i, j>>[1] = i /\ <<i, j>>[2] = j
            OBVIOUS
        <3> HIDE DEF A, B
        <3> QED
            BY <2>2, <3>1
    <2>4. ASSUME NEW i \in A, NEW j \in B, j + (m + 1) > Len(pattern) + 1
          PROVE  Found(g, i, j)
        <3>1. ASSUME j + 1 \in B, NEW x \in A PROVE f[<<x, j+1>>] = g[<<x, j+1>>]
            <4>1. (j + 1) + m > Len(pattern) + 1
                BY <2>4, <1>1
            <4> HIDE DEF A, B
            <4> QED
                BY <3>1, <4>1, <2>3
        <3>2. Turn(ip, i, pattern, j, f) = Turn(ip, i, pattern, j, g)
            <4>1. Agree(ip, pattern, j, f, g)
                BY <3>1 DEF Agree
            <4> QED
                BY <4>1, TurnLocal
        <3>3. g[<<i, j>>] = Turn(ip, i, pattern, j, f)
            <4> HIDE DEF A, B
            <4> QED
                BY <2>1, <2>3
        <3> QED
            BY <3>2, <3>3
    <2>5. \A i \in A, j \in B : j + (m + 1) > Len(pattern) + 1 => Found(g, i, j)
        BY <2>4, Zenon
    <2>6. m + 1 \in Nat
        OBVIOUS
    <2> QED
        BY <2>5, <2>6, Zenon
<1> HIDE DEF T
<1>4. \A m \in Nat : m \in T
    BY <1>2, <1>3, AllNumbers
<1>5. PICK f : \A i \in A, j \in B : Found(f, i, j)
    <2>1. Len(pattern) + 1 \in T /\ \A j \in B : j + (Len(pattern) + 1) > Len(pattern) + 1
        BY <1>1, <1>4
    <2> QED
        BY <2>1 DEF T
<1>6. PICK h : h = [at \in A \X B |-> f[at]]
    OBVIOUS
<1>7. ASSUME NEW at \in A \X B
      PROVE  h[at] = Turn(ip, at[1], pattern, at[2], h)
    <2>1. PICK i \in A, j \in B : at = <<i, j>>
        OBVIOUS
    <2>2. at[1] = i /\ at[2] = j
        BY <2>1
    <2>3. ASSUME j + 1 \in B, NEW x \in A PROVE f[<<x, j+1>>] = h[<<x, j+1>>]
        BY <1>6, <2>3
    <2>4. Turn(ip, i, pattern, j, f) = Turn(ip, i, pattern, j, h)
        <3>1. Agree(ip, pattern, j, f, h)
            BY <2>3 DEF Agree
        <3> QED
            BY <3>1, TurnLocal
    <2>5. h[at] = f[at]
        BY <1>6
    <2> QED
        BY <2>1, <2>2, <2>4, <2>5, <1>5
<1>8. h = [at \in A \X B |-> h[at]]
    BY <1>6
<1>9. Loop(ip, pattern, h)
    BY <1>7, <1>8 DEF Loop
<1> QED
    BY <1>9

\* What is found from a pair of places is what a turn there says.
LEMMA LoopTurn ==
    ASSUME NEW ip, NEW pattern, NEW f, Loop(ip, pattern, f),
           NEW i \in 1..Len(ip) + 1, NEW j \in 1..Len(pattern) + 1
    PROVE  f[<<i, j>>] = Turn(ip, i, pattern, j, f)
<1>1. PICK D : D = (1..Len(ip) + 1) \X (1..Len(pattern) + 1)
    OBVIOUS
<1>2. <<i, j>> \in D /\ <<i, j>>[1] = i /\ <<i, j>>[2] = j
    BY <1>1
<1>3. f = [at \in D |-> Turn(ip, at[1], pattern, at[2], f)]
    BY <1>1, Zenon DEF Loop
<1> QED
    BY <1>2, <1>3

-----------------------------------------------------------------------------
(* The loop goes over the octets of both texts one after the other. *)

\* Octet n in a text: its characters, and the dot or the end behind it.
Region(s, octets, st, N, n) ==
    /\ octets[n] \in Octs /\ s \in Seq(Chars) /\ Len(s) \in Nat
    /\ st[n] \in Nat /\ 1 <= st[n] /\ st[n+1] \in Nat
    /\ st[n+1] = st[n] + Len(octets[n]) + 1
    /\ \A c \in 1..Len(octets[n]) :
          /\ st[n] + c - 1 \in 1..Len(s)
          /\ s[st[n] + c - 1] = octets[n][c]
    /\ st[n+1] - 1 \in 1..Len(s) + 1
    /\ n < N => st[n+1] - 1 \in 1..Len(s) /\ s[st[n+1] - 1] = "."
    /\ n = N => st[n+1] - 1 = Len(s) + 1

\* The layout gives every octet its place.
LEMMA Regions ==
    ASSUME NEW N \in Nat \ {0}, NEW s, NEW octets, NEW st, Layout(s, octets, N, st),
           NEW n \in 1..N
    PROVE  Region(s, octets, st, N, n)
<1>1. /\ n + 1 \in 1..N+1 /\ n \in 1..N+1 /\ N + 1 \in 1..N+1
    OBVIOUS
<1>2. /\ octets[n] \in Octs /\ s \in Seq(Chars) /\ Len(s) = st[N+1] - 2
      /\ st[n] \in Nat /\ 1 <= st[n] /\ st[n+1] \in Nat /\ st[N+1] \in Nat
      /\ st[n+1] = st[n] + Len(octets[n]) + 1 /\ st[n+1] <= st[N+1]
      /\ \A c \in 1..Len(octets[n]) : s[st[n] + c - 1] = octets[n][c]
    BY <1>1 DEF Layout
<1>3. Len(s) \in Nat /\ Len(octets[n]) \in Nat /\ Len(octets[n]) >= 1
    BY <1>2, LenProperties, OctType
<1>4. PICK a \in Nat, l \in Nat, b \in Nat, e \in Nat :
         a = st[n] /\ l = Len(octets[n]) /\ b = st[n+1] /\ e = st[N+1]
    BY <1>2, <1>3
<1>5. 1 <= a /\ b = a + l + 1 /\ b <= e /\ 1 <= l /\ Len(s) = e - 2
    BY <1>2, <1>3, <1>4
<1>6. \A c \in 1..l : a + c - 1 \in 1..Len(s)
    BY <1>5, Inside
<1>7. b - 1 \in 1..Len(s) + 1
    BY <1>5, <1>3
<1>8. ASSUME n < N
      PROVE  b - 1 \in 1..Len(s) /\ s[st[n+1] - 1] = "."
    <2>1. n + 1 \in 1..N /\ n \in 1..N-1 /\ (n + 1) + 1 = n + 2 /\ n + 2 \in 1..N+1
        BY <1>8
    <2>2. octets[n+1] \in Octs /\ st[n+2] = b + Len(octets[n+1]) + 1 /\ st[n+2] <= e
        BY <2>1, <1>4 DEF Layout
    <2>3. PICK m \in Nat : m = Len(octets[n+1]) /\ m >= 1
        BY <2>2, OctType
    <2>4. b + m + 1 <= e
        BY <2>2, <2>3
    <2>5. b - 1 \in 1..Len(s)
        BY <2>3, <2>4, <1>5, Inside
    <2>6. s[st[n+1] - 1] = "."
        BY <2>1 DEF Layout
    <2> QED
        BY <2>5, <2>6
<1>9. ASSUME n = N PROVE b - 1 = Len(s) + 1
    <2>1. b = e
        BY <1>4, <1>9
    <2>2. Len(s) = b - 2
        BY <2>1, <1>5
    <2> QED
        BY <2>2
<1> QED
    BY <1>2, <1>3, <1>4, <1>6, <1>7, <1>8, <1>9 DEF Region

\* An address d and a pattern p of N octets, and what the loop finds in them.
Compared(N, d, p, ip, pattern, a, b, f) ==
    /\ N \in Nat \ {0} /\ Layout(ip, d, N, a) /\ Layout(pattern, p, N, b)
    /\ \A k \in 1..N : d[k] # <<"*">>
    /\ Loop(ip, pattern, f)

\* Behind an octet of both the loop goes on with the next one, or succeeds at
\* the end of both.
LEMMA Separator ==
    ASSUME NEW N, NEW d, NEW p, NEW ip, NEW pattern, NEW a, NEW b, NEW f,
           Compared(N, d, p, ip, pattern, a, b, f), NEW n \in 1..N
    PROVE  f[<<a[n+1] - 1, b[n+1] - 1>>] <=> (n < N => f[<<a[n+1], b[n+1]>>])
<1>1. /\ N \in Nat \ {0} /\ Layout(ip, d, N, a) /\ Layout(pattern, p, N, b)
      /\ Loop(ip, pattern, f)
    BY DEF Compared
<1>r. Region(ip, d, a, N, n) /\ Region(pattern, p, b, N, n)
    BY <1>1, Regions
<1>2. PICK i \in Nat, j \in Nat : i = a[n+1] /\ j = b[n+1]
    BY <1>r DEF Region
<1>3. /\ Len(ip) \in Nat /\ i - 1 \in 1..Len(ip) + 1
      /\ n < N => i - 1 \in 1..Len(ip) /\ ip[i - 1] = "."
      /\ n = N => i - 1 = Len(ip) + 1
    <2>1. /\ Len(ip) \in Nat /\ a[n+1] - 1 \in 1..Len(ip) + 1
          /\ n < N => a[n+1] - 1 \in 1..Len(ip) /\ ip[a[n+1] - 1] = "."
          /\ n = N => a[n+1] - 1 = Len(ip) + 1
        BY <1>r DEF Region
    <2> QED
        BY <2>1, <1>2
<1>4. /\ Len(pattern) \in Nat /\ j - 1 \in 1..Len(pattern) + 1
      /\ n < N => j - 1 \in 1..Len(pattern) /\ pattern[j - 1] = "."
      /\ n = N => j - 1 = Len(pattern) + 1
    <2>1. /\ Len(pattern) \in Nat /\ b[n+1] - 1 \in 1..Len(pattern) + 1
          /\ n < N => b[n+1] - 1 \in 1..Len(pattern) /\ pattern[b[n+1] - 1] = "."
          /\ n = N => b[n+1] - 1 = Len(pattern) + 1
        BY <1>r DEF Region
    <2> QED
        BY <2>1, <1>2
<1>5. f[<<i - 1, j - 1>>] = Turn(ip, i - 1, pattern, j - 1, f)
    BY <1>1, <1>3, <1>4, LoopTurn
<1>6. CASE n < N
    <2>1. ~(i - 1 > Len(ip)) /\ ~(j - 1 > Len(pattern))
        BY <1>3, <1>4, <1>6
    <2>2. (i - 1) + 1 = i /\ (j - 1) + 1 = j
        OBVIOUS
    <2>3. Turn(ip, i - 1, pattern, j - 1, f) <=> f[<<i, j>>]
        BY <2>1, <2>2, <1>3, <1>4, <1>6 DEF Turn
    <2> QED
        BY <2>3, <1>2, <1>5, <1>6
<1>7. CASE n = N
    <2>1. i - 1 > Len(ip) /\ j - 1 > Len(pattern)
        BY <1>3, <1>4, <1>7
    <2>2. Turn(ip, i - 1, pattern, j - 1, f)
        BY <2>1 DEF Turn, BothEnd, At
    <2>3. ~(n < N)
        BY <1>1, <1>7
    <2> QED
        BY <2>2, <2>3, <1>2, <1>5
<1> QED
    BY <1>1, <1>6, <1>7

\* A "*" lets any octet pass.
LEMMA StarPasses ==
    ASSUME NEW N, NEW d, NEW p, NEW ip, NEW pattern, NEW a, NEW b, NEW f,
           Compared(N, d, p, ip, pattern, a, b, f), NEW n \in 1..N,
           NEW star, star = <<"*">>, p[n] = star
    PROVE  f[<<a[n], b[n]>>] <=> f[<<a[n+1] - 1, b[n+1] - 1>>]
<1>1. /\ N \in Nat \ {0} /\ Layout(ip, d, N, a) /\ Layout(pattern, p, N, b)
      /\ Loop(ip, pattern, f) /\ d[n] # <<"*">>
    BY DEF Compared
<1>r. Region(ip, d, a, N, n) /\ Region(pattern, p, b, N, n)
    BY <1>1, Regions
<1>2. PICK i \in Nat, j \in Nat, e \in Nat, l \in Nat :
         i = a[n] /\ j = b[n] /\ e = a[n+1] - 1 /\ l = Len(d[n])
    <2>1. /\ a[n] \in Nat /\ b[n] \in Nat /\ d[n] \in Octs
          /\ a[n+1] \in Nat /\ a[n+1] - 1 \in 1..Len(ip) + 1 /\ Len(ip) \in Nat
        BY <1>r DEF Region
    <2>2. a[n+1] - 1 \in Nat /\ Len(d[n]) \in Nat
        BY <2>1, OctType
    <2> QED
        BY <2>1, <2>2
<1>3. /\ Len(ip) \in Nat /\ ip \in Seq(Chars) /\ e = i + l /\ l >= 1 /\ 1 <= i
      /\ \A c \in 1..l : ip[i + c - 1] = d[n][c]
      /\ \A c \in 1..l : i + c - 1 \in 1..Len(ip)
      /\ \A c \in 1..l : d[n][c] \in Digits
      /\ e \in 1..Len(ip) + 1
      /\ e <= Len(ip) => ip[e] = "."
    <2>1. /\ Len(ip) \in Nat /\ ip \in Seq(Chars) /\ d[n] \in Octs /\ 1 <= a[n]
          /\ a[n+1] \in Nat /\ a[n+1] = a[n] + Len(d[n]) + 1
          /\ \A c \in 1..Len(d[n]) : /\ a[n] + c - 1 \in 1..Len(ip)
                                     /\ ip[a[n] + c - 1] = d[n][c]
          /\ a[n+1] - 1 \in 1..Len(ip) + 1
          /\ n < N => ip[a[n+1] - 1] = "."
          /\ n = N => a[n+1] - 1 = Len(ip) + 1
        BY <1>r DEF Region
    <2>2. l >= 1 /\ \A c \in 1..Len(d[n]) : d[n][c] \in Digits
        BY <2>1, <1>1, <1>2, OctType
    <2>3. e = i + l
        BY <2>1, <1>2
    <2>4. n < N \/ n = N
        BY <1>1
    <2>5. e <= Len(ip) => ip[e] = "."
        BY <2>1, <2>4, <1>2
    <2> QED
        BY <2>1, <2>2, <2>3, <2>5, <1>2
<1>4. /\ Len(pattern) \in Nat /\ j \in 1..Len(pattern) /\ pattern[j] = "*"
      /\ b[n+1] - 1 = j + 1
    <2>1. Len(p[n]) = 1 /\ p[n][1] = "*" /\ 1 \in 1..1
        OBVIOUS
    <2>2. /\ Len(pattern) \in Nat /\ b[n+1] = b[n] + Len(p[n]) + 1
          /\ \A c \in 1..Len(p[n]) : /\ b[n] + c - 1 \in 1..Len(pattern)
                                     /\ pattern[b[n] + c - 1] = p[n][c]
        BY <1>r DEF Region
    <2>3. j + 1 - 1 \in 1..Len(pattern) /\ pattern[j + 1 - 1] = "*"
        BY <2>1, <2>2, <1>2
    <2>4. b[n+1] = j + 1 + 1
        BY <2>1, <2>2, <1>2
    <2> QED
        BY <2>2, <2>3, <2>4
<1>5. i \in 1..Len(ip) /\ ip[i] \in Digits /\ ip[i] # "*"
    <2>1. 1 \in 1..l /\ i + 1 - 1 = i
        BY <1>3
    <2> QED
        BY <2>1, <1>3 DEF Digits
<1>6. SkipOctet(ip, i) = e
    <2>1. PICK x \in Nat : x = SkipOctet(ip, i) /\ x \in i..Len(ip) + 1
        BY <1>3, <1>5, SkipStops
    <2>2. At(ip, x) \in {".", "end"} /\ \A k \in i..x-1 : ip[k] # "."
        BY <1>3, <1>5, <2>1, SkipStops
    <2>3. ~(x < e)
        <3> SUFFICES ASSUME x < e PROVE FALSE
            OBVIOUS
        <3>1. PICK c \in 1..l : x = i + c - 1
            <4>1. x - i + 1 \in 1..l /\ x = i + (x - i + 1) - 1
                BY <2>1, <1>3
            <4> QED
                BY <4>1
        <3>2. ip[x] \in Digits /\ x \in 1..Len(ip)
            BY <3>1, <1>3
        <3>3. ~(x > Len(ip))
            BY <3>2, <1>3
        <3> QED
            BY <2>2, <3>2, <3>3 DEF At, Digits
    <2>4. ~(x > e)
        <3> SUFFICES ASSUME x > e PROVE FALSE
            OBVIOUS
        <3>1. e <= Len(ip) /\ e \in i..x-1
            BY <2>1, <1>3
        <3> QED
            BY <3>1, <2>2, <1>3
    <2> QED
        BY <2>1, <2>3, <2>4
<1>7. f[<<i, j>>] = Turn(ip, i, pattern, j, f)
    <2>1. i \in 1..Len(ip) + 1 /\ j \in 1..Len(pattern) + 1
        BY <1>3, <1>4, <1>5
    <2> QED
        BY <1>1, <2>1, LoopTurn
<1>8. Turn(ip, i, pattern, j, f) <=> f[<<e, j + 1>>]
    <2>1. ~(i > Len(ip)) /\ ~(j > Len(pattern)) /\ ip[i] # pattern[j]
        BY <1>3, <1>4, <1>5, SMTT(30)
    <2> QED
        BY <2>1, <1>4, <1>6 DEF Turn
<1> QED
    BY <1>2, <1>4, <1>7, <1>8

\* The loop passes over characters that are the same in both octets.
LEMMA SamePrefix ==
    ASSUME NEW N, NEW d, NEW p, NEW ip, NEW pattern, NEW a, NEW b, NEW f,
           Compared(N, d, p, ip, pattern, a, b, f), NEW n \in 1..N,
           NEW m \in Nat, m <= Len(d[n]), m <= Len(p[n]),
           \A x \in 1..m : d[n][x] = p[n][x]
    PROVE  f[<<a[n], b[n]>>] <=> f[<<a[n] + m, b[n] + m>>]
<1>1. /\ N \in Nat \ {0} /\ Layout(ip, d, N, a) /\ Layout(pattern, p, N, b)
      /\ Loop(ip, pattern, f)
    BY DEF Compared
<1>r. Region(ip, d, a, N, n) /\ Region(pattern, p, b, N, n)
    BY <1>1, Regions
<1>2. PICK i \in Nat, j \in Nat : i = a[n] /\ j = b[n]
    BY <1>r DEF Region
<1>3. /\ Len(ip) \in Nat /\ Len(pattern) \in Nat
      /\ Len(d[n]) \in Nat /\ Len(p[n]) \in Nat
    BY <1>r, OctType DEF Region
<1>4. /\ \A c \in 1..Len(d[n]) : i + c - 1 \in 1..Len(ip) /\ ip[i + c - 1] = d[n][c]
      /\ \A c \in 1..Len(p[n]) :
            j + c - 1 \in 1..Len(pattern) /\ pattern[j + c - 1] = p[n][c]
    BY <1>r, <1>2 DEF Region
<1> DEFINE T == {c \in Nat : c <= m => (f[<<i, j>>] <=> f[<<i + c, j + c>>])}
<1>5. 0 \in T
    OBVIOUS
<1>6. ASSUME NEW c \in Nat, c \in T PROVE c + 1 \in T
    <2> SUFFICES ASSUME c + 1 <= m
                 PROVE  f[<<i, j>>] <=> f[<<i + (c + 1), j + (c + 1)>>]
        OBVIOUS
    <2>1. f[<<i, j>>] <=> f[<<i + c, j + c>>]
        BY <1>6
    <2>2. /\ c + 1 \in 1..m /\ c + 1 \in 1..Len(d[n]) /\ c + 1 \in 1..Len(p[n])
          /\ i + (c + 1) - 1 = i + c /\ j + (c + 1) - 1 = j + c
        BY <1>3
    <2>3. /\ i + c \in 1..Len(ip) /\ j + c \in 1..Len(pattern)
          /\ ip[i + c] = pattern[j + c]
        BY <2>2, <1>4
    <2>4. /\ i + c \in 1..Len(ip) + 1 /\ j + c \in 1..Len(pattern) + 1
          /\ ~(i + c > Len(ip)) /\ ~(j + c > Len(pattern))
          /\ (i + c) + 1 = i + (c + 1) /\ (j + c) + 1 = j + (c + 1)
        BY <2>3, <1>3
    <2>5. f[<<i + c, j + c>>] = Turn(ip, i + c, pattern, j + c, f)
        BY <2>4, <1>1, LoopTurn
    <2>6. Turn(ip, i + c, pattern, j + c, f) <=> f[<<i + (c + 1), j + (c + 1)>>]
        BY <2>3, <2>4 DEF Turn
    <2> QED
        BY <2>1, <2>5, <2>6
<1> HIDE DEF T
<1>7. m \in T
    BY <1>5, <1>6, AllNumbers
<1> QED
    BY <1>2, <1>7 DEF T

\* The m-th place behind the beginning of an octet without "*".
LEMMA CharAt ==
    ASSUME NEW N \in Nat \ {0}, NEW s, NEW octets, NEW st, NEW n \in 1..N,
           Region(s, octets, st, N, n), octets[n] # <<"*">>,
           NEW m \in Nat, m <= Len(octets[n])
    PROVE  /\ st[n] + m \in 1..Len(s) + 1
           /\ m < Len(octets[n]) => /\ At(s, st[n] + m) = octets[n][m+1]
                                    /\ octets[n][m+1] \in Digits
           /\ m = Len(octets[n]) => At(s, st[n] + m) \in {".", "end"}
<1>1. PICK i \in Nat, l \in Nat : i = st[n] /\ l = Len(octets[n])
    <2>1. octets[n] \in Octs /\ st[n] \in Nat
        BY DEF Region
    <2> QED
        BY <2>1, OctType
<1>2. octets[n] \in Octs /\ Len(s) \in Nat
    BY DEF Region
<1>3. CASE m < l
    <2>1. m + 1 \in 1..l /\ i + (m + 1) - 1 = i + m
        BY <1>3
    <2>2. i + (m + 1) - 1 \in 1..Len(s) /\ s[i + (m + 1) - 1] = octets[n][m+1]
        BY <2>1, <1>1 DEF Region
    <2>3. octets[n][m+1] \in Digits
        BY <2>1, <1>1, <1>2, OctType
    <2>4. i + m \in 1..Len(s) /\ s[i + m] = octets[n][m+1]
        BY <2>1, <2>2
    <2>5. i + m \in 1..Len(s) + 1 /\ ~(i + m > Len(s))
        BY <2>4, <1>2
    <2> QED
        BY <2>3, <2>4, <2>5, <1>1, <1>3, SMTT(30) DEF At
<1>4. CASE m = l
    <2>1. st[n+1] = i + l + 1
        BY <1>1 DEF Region
    <2>2. st[n+1] - 1 = i + m
        BY <2>1, <1>4
    <2>3. i + m \in 1..Len(s) + 1
        BY <2>2 DEF Region
    <2>4. n < N => i + m \in 1..Len(s) /\ s[i + m] = "."
        BY <2>2 DEF Region
    <2>5. n = N => i + m = Len(s) + 1
        BY <2>2 DEF Region
    <2>6. n < N \/ n = N
        OBVIOUS
    <2>7. At(s, i + m) \in {".", "end"}
        BY <2>4, <2>5, <2>6, <1>2 DEF At
    <2> QED
        BY <2>3, <2>7, <1>1, <1>4
<1> QED
    BY <1>1, <1>3, <1>4

\* The loop stops at different characters, unless the one of the pattern is "*".
LEMMA Differ ==
    ASSUME NEW ip, NEW pattern, NEW f, NEW i, NEW j,
           At(ip, i) # At(pattern, j), At(pattern, j) # "*"
    PROVE  ~Turn(ip, i, pattern, j, f)
<1>1. CASE i > Len(ip) \/ j > Len(pattern)
    BY <1>1 DEF Turn, BothEnd
<1>2. CASE ~(i > Len(ip) \/ j > Len(pattern))
    BY <1>2 DEF Turn, At
<1> QED
    BY <1>1, <1>2

\* An octet without "*" lets the same octet pass and no other: not one that it
\* begins with, and not one that begins with it.
LEMMA LiteralPasses ==
    ASSUME NEW N, NEW d, NEW p, NEW ip, NEW pattern, NEW a, NEW b, NEW f,
           Compared(N, d, p, ip, pattern, a, b, f), NEW n \in 1..N, p[n] # <<"*">>
    PROVE  f[<<a[n], b[n]>>] <=> p[n] = d[n] /\ f[<<a[n+1] - 1, b[n+1] - 1>>]
<1>1. /\ N \in Nat \ {0} /\ Layout(ip, d, N, a) /\ Layout(pattern, p, N, b)
      /\ Loop(ip, pattern, f) /\ d[n] # <<"*">>
    BY DEF Compared
<1>r. Region(ip, d, a, N, n) /\ Region(pattern, p, b, N, n)
    BY <1>1, Regions
<1>2. PICK i \in Nat, j \in Nat, l \in Nat, k \in Nat :
         i = a[n] /\ j = b[n] /\ l = Len(d[n]) /\ k = Len(p[n])
    <2>1. a[n] \in Nat /\ b[n] \in Nat /\ d[n] \in Octs /\ p[n] \in Octs
        BY <1>r DEF Region
    <2>2. Len(d[n]) \in Nat /\ Len(p[n]) \in Nat
        BY <2>1, OctType
    <2> QED
        BY <2>1, <2>2
<1>3. /\ DOMAIN d[n] = 1..l /\ DOMAIN p[n] = 1..k
      /\ d[n] \in Seq(Chars) /\ p[n] \in Seq(Chars)
      /\ \A c \in 1..l : d[n][c] \in Digits
      /\ \A c \in 1..k : p[n][c] \in Digits
    <2>1. d[n] \in Octs /\ p[n] \in Octs
        BY <1>r DEF Region
    <2> QED
        BY <2>1, <1>1, <1>2, OctType
<1>4. a[n+1] - 1 = i + l /\ b[n+1] - 1 = j + k
    <2>1. a[n+1] = i + l + 1 /\ b[n+1] = j + k + 1
        BY <1>r, <1>2 DEF Region
    <2> QED
        BY <2>1
<1>5. CASE p[n] = d[n]
    <2>1. l = k /\ \A x \in 1..l : d[n][x] = p[n][x]
        BY <1>2, <1>5
    <2>2. f[<<a[n], b[n]>>] <=> f[<<a[n] + l, b[n] + l>>]
        <3>1. l <= Len(d[n]) /\ l <= Len(p[n])
            BY <1>2, <2>1
        <3> QED
            BY <2>1, <3>1, SamePrefix, SMTT(30)
    <2> QED
        BY <2>1, <2>2, <1>2, <1>4, <1>5
<1>6. CASE p[n] # d[n]
    <2> DEFINE T == {c \in Nat : /\ c >= 1
                                 /\ ~(c <= l /\ c <= k /\ d[n][c] = p[n][c])}
    <2>1. l + 1 \in T
        OBVIOUS
    <2>2. PICK c \in T : \A x \in T : c <= x
        <3>1. T \in SUBSET Nat /\ T # {}
            BY <2>1
        <3> HIDE DEF T
        <3> QED
            BY <3>1, Smallest
    <2>3. \A x \in 1..c-1 : x <= l /\ x <= k /\ d[n][x] = p[n][x]
        <3> TAKE x \in 1..c-1
        <3>1. x \in Nat /\ x >= 1 /\ ~(c <= x)
            BY <2>2
        <3> QED
            BY <3>1, <2>2
    <2>4. PICK m \in Nat : m = c - 1 /\ c = m + 1
        BY <2>2
    <2>5. m <= l /\ m <= k
        <3>1. m = 0 \/ m \in 1..c-1
            BY <2>4
        <3> QED
            BY <3>1, <2>3
    <2>6. f[<<a[n], b[n]>>] <=> f[<<a[n] + m, b[n] + m>>]
        <3>1. \A x \in 1..m : d[n][x] = p[n][x]
            BY <2>3, <2>4
        <3> QED
            BY <3>1, <2>5, <1>2, SamePrefix, ZenonT(30)
    <2>7. ~(m = l /\ m = k)
        <3> SUFFICES ASSUME m = l, m = k PROVE FALSE
            OBVIOUS
        <3>1. \A x \in 1..l : d[n][x] = p[n][x]
            BY <2>3, <2>4
        <3>2. l = Len(d[n]) /\ l = Len(p[n])
            BY <1>2
        <3>3. d[n] = p[n]
            BY <3>1, <3>2, <1>3, SeqEqual
        <3> QED
            BY <3>3, <1>6
    <2>8. /\ i + m \in 1..Len(ip) + 1
          /\ m < l => At(ip, i + m) = d[n][m+1] /\ d[n][m+1] \in Digits
          /\ m = l => At(ip, i + m) \in {".", "end"}
        BY <1>1, <1>r, <1>2, <2>5, CharAt
    <2>9. /\ j + m \in 1..Len(pattern) + 1
          /\ m < k => At(pattern, j + m) = p[n][m+1] /\ p[n][m+1] \in Digits
          /\ m = k => At(pattern, j + m) \in {".", "end"}
        BY <1>1, <1>r, <1>2, <2>5, CharAt, SMTT(30)
    <2>10. At(ip, i + m) # At(pattern, j + m) /\ At(pattern, j + m) # "*"
        <3>1. CASE m < l /\ m < k
            <4>1. c <= l /\ c <= k /\ d[n][m+1] # p[n][m+1]
                BY <3>1, <2>2, <2>4
            <4> QED
                BY <4>1, <3>1, <2>8, <2>9 DEF Digits
        <3>2. CASE m < l /\ m = k
            BY <3>2, <2>8, <2>9 DEF Digits
        <3>3. CASE m = l /\ m < k
            BY <3>3, <2>8, <2>9 DEF Digits
        <3> QED
            BY <2>5, <2>7, <3>1, <3>2, <3>3
    <2>11. ~f[<<i + m, j + m>>]
        <3>1. f[<<i + m, j + m>>] = Turn(ip, i + m, pattern, j + m, f)
            BY <2>8, <2>9, <1>1, LoopTurn
        <3> QED
            BY <3>1, <2>10, Differ
    <2> QED
        BY <2>6, <2>11, <1>2, <1>6
<1> QED
    BY <1>5, <1>6

\* From the beginning of octet n the loop finds whether the octets from n on
\* are let pass.
LEMMA OctetByOctet ==
    ASSUME NEW N, NEW d, NEW p, NEW ip, NEW pattern, NEW a, NEW b, NEW f,
           Compared(N, d, p, ip, pattern, a, b, f)
    PROVE  f[<<1, 1>>] <=> \A n \in 1..N : p[n] \in {d[n], <<"*">>}
<1>1. N \in Nat \ {0} /\ a[1] = 1 /\ b[1] = 1
    BY DEF Compared, Layout
<1> DEFINE Passes(n) == p[n] \in {d[n], <<"*">>}
           Rest(n) == \A x \in n..N : Passes(x)
           T == {m \in Nat : m < N => (f[<<a[N - m], b[N - m]>>] <=> Rest(N - m))}
<1>2. ASSUME NEW n \in 1..N
      PROVE  f[<<a[n], b[n]>>] <=> Passes(n) /\ (n < N => f[<<a[n+1], b[n+1]>>])
    <2>1. f[<<a[n+1] - 1, b[n+1] - 1>>] <=> (n < N => f[<<a[n+1], b[n+1]>>])
        BY Separator
    <2>2. CASE p[n] = <<"*">>
        <3>1. f[<<a[n], b[n]>>] <=> f[<<a[n+1] - 1, b[n+1] - 1>>]
            BY <2>2, StarPasses
        <3> QED
            BY <2>1, <2>2, <3>1
    <2>3. CASE p[n] # <<"*">>
        <3>1. f[<<a[n], b[n]>>] <=> p[n] = d[n] /\ f[<<a[n+1] - 1, b[n+1] - 1>>]
            BY <2>3, LiteralPasses
        <3> QED
            BY <2>1, <2>3, <3>1
    <2> QED
        BY <2>2, <2>3
<1> HIDE DEF Passes
<1>3. 0 \in T
    <2>1. N - 0 = N /\ N \in 1..N /\ ~(N < N) /\ \A x \in N..N : x = N
        BY <1>1
    <2>2. N \in N..N
        BY <1>1
    <2>3. f[<<a[N], b[N]>>] <=> Passes(N)
        BY <1>2, <2>1
    <2>4. Rest(N) <=> Passes(N)
        BY <2>1, <2>2
    <2> QED
        BY <2>1, <2>3, <2>4
<1>4. ASSUME NEW m \in Nat, m \in T PROVE m + 1 \in T
    <2> SUFFICES ASSUME m + 1 < N
                 PROVE  f[<<a[N - (m + 1)], b[N - (m + 1)]>>] <=> Rest(N - (m + 1))
        OBVIOUS
    <2>1. PICK n \in 1..N : n = N - (m + 1) /\ n + 1 = N - m /\ n < N /\ m < N
        BY <1>1
    <2>2. f[<<a[n+1], b[n+1]>>] <=> Rest(n + 1)
        BY <1>4, <2>1
    <2>3. f[<<a[n], b[n]>>] <=> Passes(n) /\ f[<<a[n+1], b[n+1]>>]
        BY <1>2, <2>1
    <2>4. Rest(n) <=> Passes(n) /\ Rest(n + 1)
        <3>1. \A x : x \in n..N <=> x = n \/ x \in n+1..N
            BY <1>1, <2>1
        <3> QED
            BY <3>1, Zenon
    <2> QED
        BY <2>1, <2>2, <2>3, <2>4
<1> HIDE DEF T
<1>5. N - 1 \in T
    <2>1. N - 1 \in Nat
        BY <1>1
    <2> QED
        BY <2>1, <1>3, <1>4, AllNumbers
<1>6. N - 1 < N /\ N - (N - 1) = 1
    BY <1>1
<1>7. f[<<1, 1>>] <=> Rest(1)
    BY <1>1, <1>5, <1>6 DEF T
<1> QED
    BY <1>7 DEF Passes

\* Comparing the texts is comparing the octets.
LEMMA MatchesMeans ==
    ASSUME NEW N \in Nat \ {0}, NEW d \in [1..N -> Octs], NEW p \in [1..N -> Octs],
           \A n \in 1..N : d[n] # <<"*">>
    PROVE  Matches(Text(d), Text(p)) <=> \A n \in 1..N : p[n] \in {d[n], <<"*">>}
<1>1. PICK a : Layout(Text(d), d, N, a)
    BY TextLayout
<1>2. PICK b : Layout(Text(p), p, N, b)
    BY TextLayout
<1>3. Text(d) \in Seq(Chars) /\ Text(p) \in Seq(Chars)
    BY <1>1, <1>2 DEF Layout
<1>4. PICK f : Loop(Text(d), Text(p), f) /\ Matches(Text(d), Text(p)) = f[<<1, 1>>]
    BY <1>3, LoopExists, MatchesLoop
<1>5. Compared(N, d, p, Text(d), Text(p), a, b, f)
    BY <1>1, <1>2, <1>4 DEF Compared
<1>6. f[<<1, 1>>] <=> \A n \in 1..N : p[n] \in {d[n], <<"*">>}
    BY <1>5, OctetByOctet
<1> QED
    BY <1>4, <1>6

\* The text of a destination without an IPv4 address is empty, and no pattern
\* matches it.
LEMMA NoAddress ==
    ASSUME NEW N \in Nat \ {0}, NEW p \in [1..N -> Octs]
    PROVE  ~Matches(Text(<<>>), Text(p))
<1>1. PICK b : Layout(Text(p), p, N, b)
    BY TextLayout
<1>2. PICK empty, text : empty = Text(<<>>) /\ text = Text(p)
    OBVIOUS
<1>3. empty = <<>>
    BY <1>2 DEF Text
<1>4. empty \in Seq(Chars) /\ Len(empty) = 0
    BY <1>3
<1>5. Region(text, p, b, N, 1) /\ b[1] = 1 /\ text \in Seq(Chars)
    <2>1. 1 \in 1..N
        OBVIOUS
    <2> QED
        BY <2>1, <1>1, <1>2, Regions DEF Layout
<1>6. 1 \in 1..Len(text) /\ Len(text) \in Nat /\ text[1] \in Chars
    <2>1. p[1] \in Octs
        OBVIOUS
    <2>2. 1 \in 1..Len(p[1])
        BY <2>1, OctType
    <2>3. b[1] + 1 - 1 \in 1..Len(text) /\ Len(text) \in Nat
        BY <2>2, <1>5 DEF Region
    <2>4. 1 \in 1..Len(text)
        BY <2>3, <1>5
    <2> QED
        BY <2>3, <2>4, <1>5, ElementOfSeq
<1>7. At(empty, 1) # At(text, 1)
    <2>1. At(empty, 1) = "end"
        BY <1>4 DEF At
    <2>2. At(text, 1) = text[1]
        BY <1>6 DEF At
    <2> QED
        BY <2>1, <2>2, <1>6 DEF Chars, Digits
<1>8. PICK f : Loop(empty, text, f) /\ Matches(empty, text) = f[<<1, 1>>]
    BY <1>4, <1>5, LoopExists, MatchesLoop
<1>9. f[<<1, 1>>] = Turn(empty, 1, text, 1, f)
    <2>1. 1 \in 1..Len(empty) + 1 /\ 1 \in 1..Len(text) + 1
        BY <1>4, <1>6
    <2> QED
        BY <2>1, <1>8, LoopTurn
<1>10. ~Turn(empty, 1, text, 1, f)
    <2>1. 1 > Len(empty)
        BY <1>4
    <2> QED
        BY <2>1, <1>7 DEF Turn, BothEnd
<1> QED
    BY <1>2, <1>8, <1>9, <1>10

\* check_dest_ip lets a request pass exactly when a rule of the file permits its
\* destination octet by octet: the two indices of the character loop stay in step
\* whatever the lengths of the octets are, and a destination without an address
\* is refused.
THEOREM FirewallExact ==
    \A op : \A dest \in Addresses \cup {<<>>}, file \in Files :
        check_dest_ip(op, Text(dest), file) <=> Lawful(op, dest, file)
<1> SUFFICES ASSUME NEW op, NEW dest \in Addresses \cup {<<>>}, NEW file \in Files,
                    NEW n \in DOMAIN file
             PROVE  (file[n].op = op /\ Matches(Text(dest), Text(file[n].octets)))
                        <=> Permits(file[n], op, dest)
    BY Zenon DEF check_dest_ip, Lawful
<1> USE FirewallAssumption
<1>1. NumOctets \in Nat \ {0} /\ Octets \subseteq Octs
    BY DEF Octs
<1>2. file[n] \in Rules
    BY DEF Files
<1>3. PICK p : p = file[n].octets
    OBVIOUS
<1>4. p \in [1..NumOctets -> Octs]
    <2>1. p \in [1..NumOctets -> Octets \cup {<<"*">>}]
        BY <1>2, <1>3 DEF Rules
    <2> QED
        BY <2>1, <1>1 DEF Octs
<1>5. CASE dest = <<>>
    BY <1>1, <1>3, <1>4, <1>5, NoAddress DEF Permits
<1>6. CASE dest \in Addresses
    <2>1. dest \in [1..NumOctets -> Octs]
        BY <1>1, <1>6 DEF Addresses
    <2>2. ASSUME NEW k \in 1..NumOctets PROVE dest[k] # <<"*">>
        <3>1. dest[k] \in Seq(Digits)
            BY <1>6 DEF Addresses
        <3>2. ASSUME dest[k] = <<"*">> PROVE FALSE
            <4>1. <<"*">>[1] \in Digits
                BY <3>1, <3>2, ElementOfSeq
            <4> QED
                BY <4>1 DEF Digits
        <3> QED
            BY <3>2
    <2>3. dest # <<>>
        <3>1. 1 \in DOMAIN dest
            BY <2>1, <1>1
        <3>2. DOMAIN <<>> = {}
            OBVIOUS
        <3> QED
            BY <3>1, <3>2
    <2>4. Matches(Text(dest), Text(p))
             <=> \A k \in 1..NumOctets : p[k] \in {dest[k], <<"*">>}
        BY <1>1, <1>4, <2>1, <2>2, MatchesMeans
    <2> QED
        BY <1>3, <2>3, <2>4 DEF Permits
<1> QED
    BY <1>5, <1>6
=============================================================================
