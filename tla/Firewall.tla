------------------------------ MODULE Firewall ------------------------------
(***************************************************************************)
(* The firewall of socks_server.cpp: check_dest_ip compares the text of    *)
(* the destination's address with the pattern of every rule, one character *)
(* at a time, with an index into each. "*" in a pattern skips the rest of  *)
(* an octet of the address.                                                *)
(*                                                                         *)
(* An octet is the sequence of its digits, a rule is of one operation and  *)
(* has octets of which some may be <<"*">>, and a rule file is a sequence  *)
(* of rules. The word before the operation and the length of the lines are *)
(* not checked by the code and left out.                                   *)
(*                                                                         *)
(* An operator X_Y that is used nowhere is X with the mistake Y; it is kept *)
(* to show which property notices the mistake.                             *)
(***************************************************************************)
EXTENDS Naturals, Sequences

CONSTANTS
    Octets,     \* the octets addresses are made of, as sequences of digits
    NumOctets,  \* the number of octets of an address
    MaxRules    \* bound on the rules of the file

Digits == {"0", "1", "2", "3", "4", "5", "6", "7", "8", "9"}

ASSUME FirewallAssumption ==
    /\ \A o \in Octets : o \in Seq(Digits) /\ o # <<>>
    /\ NumOctets \in Nat \ {0} /\ MaxRules \in Nat

Addresses == [1..NumOctets -> Octets]
Rules == [op : {"connect", "bind"}, octets : [1..NumOctets -> Octets \cup {<<"*">>}]]
Files == UNION {[1..n -> Rules] : n \in 0..MaxRules}

\* get_dest_ip: the octets in decimal, with a dot between two of them.
Text(octets) ==
    LET text[n \in 1..Len(octets)] ==
            IF n = 1 THEN octets[1] ELSE text[n-1] \o <<".">> \o octets[n]
    IN  IF octets = <<>> THEN <<>> ELSE text[Len(octets)]

-----------------------------------------------------------------------------
(* check_dest_ip. A string is followed by a '\0', here "end". *)

At(s, i) == IF i > Len(s) THEN "end" ELSE s[i]

\* The inner loop: from a place in the address to the end of its octet.
SkipOctet(ip, i) ==
    CHOOSE j \in i..Len(ip) + 1 :
        /\ At(ip, j) \in {".", "end"}
        /\ \A k \in i..j-1 : ip[k] # "."

\* The test after the loop: both strings have come to their end.
BothEnd_NotTested(ip, i, pattern, j) == TRUE
BothEnd(ip, i, pattern, j) == At(ip, i) = At(pattern, j)

\* A turn of the outer loop at place i of the address and j of the pattern; next
\* is what the loop finds from later places.
Turn(ip, i, pattern, j, next) ==
    IF i > Len(ip) \/ j > Len(pattern) THEN BothEnd(ip, i, pattern, j)
    ELSE \/ ip[i] = pattern[j] /\ next[<<i+1, j+1>>]
         \/ ip[i] # pattern[j] /\ pattern[j] = "*" /\ next[<<SkipOctet(ip, i), j+1>>]

\* The outer loop, from the beginning of both.
Matches(ip, pattern) ==
    LET same[at \in (1..Len(ip) + 1) \X (1..Len(pattern) + 1)] ==
            Turn(ip, at[1], pattern, at[2], same)
    IN  same[<<1, 1>>]

\* The first rule of the operation that matches lets the request pass; no rule
\* does when the destination has no IPv4 address, whose text is empty.
check_dest_ip(op, dest_ip, file) ==
    \E n \in DOMAIN file : file[n].op = op /\ Matches(dest_ip, Text(file[n].octets))

-----------------------------------------------------------------------------
(* What the rules mean: octet by octet, and nothing is allowed by default. *)

Permits(rule, op, dest) ==
    /\ rule.op = op /\ dest # <<>>
    /\ \A n \in 1..NumOctets : rule.octets[n] \in {dest[n], <<"*">>}

Lawful(op, dest, file) == \E n \in DOMAIN file : Permits(file[n], op, dest)
=============================================================================
