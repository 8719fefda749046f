-------------------------- MODULE SingleProc_proofs --------------------------
(***************************************************************************)
(* Proofs about SingleProc, for any number of places, names, variables,    *)
(* values and lines with user pipes.                                       *)
(*                                                                         *)
(* The environment needs more than it promises: every user that is logged  *)
(* in has PATH in the list (PathKept), so that a login never adds a node   *)
(* for PATH behind the back of the user served last. The user pipes need   *)
(* that both ends of a pipe are logged in (EndsPresent).                   *)
(***************************************************************************)
EXTENDS SingleProc, SequenceTheorems, FiniteSetTheorems, WellFoundedInduction,
        TLAPS

NodeType == [env_name : AllVars, user_num : Int, freed : BOOLEAN,
             env_value : [Ids -> Values \cup {"null", "bin:."}]]

\* The users that have set the variable of a node.
SetBy(n) == {i \in Ids : n.env_value[i] # "null"}

\* What ListSound says of one node when the users of P are logged in.
NodeSound(n, P) ==
    ~n.freed => /\ SetBy(n) \subseteq P
                /\ n.user_num >= 0 => n.user_num = Cardinality(SetBy(n)) /\ SetBy(n) # {}

\* A variable is in the list once.
Once(list) ==
    \A k, m \in DOMAIN list :
        k # m /\ ~list[k].freed /\ ~list[m].freed => list[k].env_name # list[m].env_name

\* Users P are logged in and each has set PATH.
HasPath(list, P) ==
    \A i \in P : \E k \in DOMAIN list :
        ~list[k].freed /\ list[k].env_name = "PATH" /\ list[k].env_value[i] # "null"

PathKept == HasPath(env_list, Present)

EndsPresent == \A k, j \in Ids : user_pipe[k][j] => k \in Present /\ j \in Present

\* The types, of the table and of the environment.
TableType ==
    /\ server \in {"up", "dead", "stuck", "undefined"}
    /\ fd_id_list \in [Fds -> Ids \cup {0}] /\ sockfd \in [Ids -> Fds \cup {0}]
    /\ name \in [Ids -> Names \cup {"", "(no name)"}]
    /\ user_pipe \in [Ids -> [Ids -> BOOLEAN]]
    /\ min_id \in Ids /\ client_num \in 0..max_client_num
EnvType ==
    /\ env_id \in Ids \cup {0} /\ fresh \subseteq Ids
    /\ environ \in [AllVars -> Values \cup {"", "unset", "system", "bin:."}]
    /\ env_list \in Seq(NodeType)

TableInv == TableType /\ TableSound
ListInv == ListSound /\ PathKept

Inv == TableInv /\ EnvType /\ ListInv /\ EnvFollows /\ EndsPresent

\* Ids and descriptors are numbers, and 0 is neither.
LEMMA IdsNat == /\ Ids \subseteq Nat /\ 0 \notin Ids
                /\ Fds \subseteq Nat /\ 0 \notin Fds
BY PlacesAssumption DEF Ids, Fds

\* There are finitely many ids, and any set of them can be counted.
LEMMA IdsFinite ==
    /\ IsFiniteSet(Ids)
    /\ \A S \in SUBSET Ids : IsFiniteSet(S) /\ Cardinality(S) \in Nat
<1>1. IsFiniteSet(Ids)
    <2>1. max_client_num \in Int /\ 1 \in Int
        BY PlacesAssumption
    <2> QED
        BY <2>1, FS_Interval DEF Ids
<1> QED
    BY <1>1, FS_Subset, FS_CardinalityType

\* Where Place finds a variable there is a node of it that is not freed, and 0
\* says that there is none.
LEMMA PlaceFacts ==
    ASSUME NEW list \in Seq(NodeType), NEW v
    PROVE  \/ /\ Place(list, v) = 0
              /\ \A k \in DOMAIN list : ~list[k].freed => list[k].env_name # v
           \/ /\ Place(list, v) \in DOMAIN list
              /\ ~list[Place(list, v)].freed
              /\ list[Place(list, v)].env_name = v
<1> DEFINE places == {k \in DOMAIN list : ~list[k].freed /\ list[k].env_name = v}
<1>1. CASE places = {}
    BY <1>1 DEF Place
<1>2. CASE places # {}
    <2>1. (CHOOSE k \in places : TRUE) \in places
        BY <1>2
    <2>2. Place(list, v) = CHOOSE k \in places : TRUE
        BY <1>2 DEF Place
    <2> QED
        BY <2>1, <2>2
<1> QED
    BY <1>1, <1>2

\* The place of a variable that is in the list once is the one its node has.
LEMMA PlaceOnce ==
    ASSUME NEW list \in Seq(NodeType), Once(list), NEW k \in DOMAIN list, ~list[k].freed
    PROVE  Place(list, list[k].env_name) = k
<1>1. Len(list) \in Nat /\ DOMAIN list = 1..Len(list)
    BY LenProperties
<1>2. 0 \notin DOMAIN list
    BY <1>1
<1> QED
    BY <1>2, PlaceFacts DEF Once

\* Of a node, set_env changes the value of one user and counts a new one.
LEMMA CountedSound ==
    ASSUME NEW n \in NodeType, NEW P \in SUBSET Ids, NodeSound(n, P),
           NEW id \in Ids, NEW value \in Values \cup {"bin:."},
           NEW m \in NodeType, m.freed = n.freed, m.env_name = n.env_name,
           m.user_num = Counted(n, id), m.env_value = [n.env_value EXCEPT ![id] = value]
    PROVE  NodeSound(m, P \cup {id}) /\ SetBy(m) = SetBy(n) \cup {id}
<1>1. value # "null"
    BY ValuesAssumption
<1>2. /\ n.env_value \in [Ids -> Values \cup {"null", "bin:."}]
      /\ n.user_num \in Int /\ m.user_num \in Int
    BY DEF NodeType
<1>3. SetBy(m) = SetBy(n) \cup {id}
    BY <1>1, <1>2 DEF SetBy
<1>4. IsFiniteSet(SetBy(n)) /\ SetBy(n) \in SUBSET Ids /\ Cardinality(SetBy(n)) \in Nat
    BY IdsFinite DEF SetBy
<1>5. Cardinality(SetBy(m)) = IF id \in SetBy(n) THEN Cardinality(SetBy(n))
                              ELSE Cardinality(SetBy(n)) + 1
    BY <1>3, <1>4, FS_AddElement
<1>6. id \in SetBy(n) <=> n.env_value[id] # "null"
    BY DEF SetBy
<1>7. n.user_num < 0 => m.user_num < 0
    BY <1>2 DEF Counted
<1>8. ASSUME n.user_num >= 0, ~n.freed PROVE m.user_num = Cardinality(SetBy(m))
    BY <1>2, <1>4, <1>5, <1>6, <1>8 DEF Counted, NodeSound
<1>9. ASSUME ~m.freed PROVE SetBy(m) \subseteq P \cup {id}
    BY <1>3, <1>9 DEF NodeSound
<1>10. ASSUME ~m.freed, m.user_num >= 0
       PROVE  m.user_num = Cardinality(SetBy(m)) /\ SetBy(m) # {}
    <2>1. n.user_num >= 0 /\ ~n.freed
        BY <1>2, <1>7, <1>10
    <2> QED
        BY <1>3, <1>8, <2>1
<1> QED
    BY <1>3, <1>9, <1>10 DEF NodeSound

\* A set of numbers has a smallest one.
LEMMA LeastNat ==
    ASSUME NEW T \in SUBSET Nat, T # {}
    PROVE  \E x \in T : \A y \in T : x <= y
<1>1. PICK x \in T : \A y \in T : ~(<<y, x>> \in OpToRel(<, Nat))
    BY NatLessThanWellFounded, WFMin
<1>2. \A y \in T : ~(y < x)
    BY <1>1 DEF OpToRel
<1> QED
    BY <1>2

\* A sequence without its i-th element.
LEMMA Removed ==
    ASSUME NEW S, NEW s \in Seq(S), NEW i \in 1..Len(s)
    PROVE  /\ RemoveAt(s, i) \in Seq(S)
           /\ DOMAIN RemoveAt(s, i) = 1..(Len(s) - 1)
           /\ \A k \in 1..(Len(s) - 1) :
                 RemoveAt(s, i)[k] = IF k < i THEN s[k] ELSE s[k + 1]
<1> DEFINE a == SubSeq(s, 1, i - 1)
           b == SubSeq(s, i + 1, Len(s))
<1>1. Len(s) \in Nat /\ i \in Nat /\ i >= 1 /\ i <= Len(s)
    BY LenProperties
<1>2. a \in Seq(S) /\ Len(a) = i - 1 /\ \A k \in 1..(i - 1) : a[k] = s[k]
    BY <1>1, SubSeqProperties
<1>3. b \in Seq(S) /\ Len(b) = Len(s) - i /\ \A k \in 1..(Len(s) - i) : b[k] = s[i + k]
    BY <1>1, SubSeqProperties
<1>4. RemoveAt(s, i) = a \o b
    BY DEF RemoveAt
<1> HIDE DEF a, b
<1>5. /\ a \o b \in Seq(S) /\ Len(a \o b) = Len(s) - 1
      /\ \A k \in 1..(Len(s) - 1) : (a \o b)[k] = IF k <= i - 1 THEN a[k] ELSE b[k - (i - 1)]
    <2>1. Len(a) + Len(b) = Len(s) - 1
        BY <1>1, <1>2, <1>3
    <2>2. /\ a \o b \in Seq(S) /\ Len(a \o b) = Len(a) + Len(b)
          /\ \A k \in 1..(Len(a) + Len(b)) :
                (a \o b)[k] = IF k <= Len(a) THEN a[k] ELSE b[k - Len(a)]
        BY <1>2, <1>3, ConcatProperties
    <2> QED
        BY <1>2, <2>1, <2>2
<1>6. DOMAIN (a \o b) = 1..(Len(s) - 1)
    BY <1>5, LenProperties
<1>7. ASSUME NEW k \in 1..(Len(s) - 1)
      PROVE  (a \o b)[k] = IF k < i THEN s[k] ELSE s[k + 1]
    <2>1. CASE k < i
        BY <1>1, <1>2, <1>5, <2>1
    <2>2. CASE ~(k < i)
        <3>1. k - (i - 1) \in 1..(Len(s) - i) /\ i + (k - (i - 1)) = k + 1
            BY <1>1, <2>2
        <3> QED
            BY <1>1, <1>3, <1>5, <2>2, <3>1
    <2> QED
        BY <2>1, <2>2
<1> QED
    BY <1>4, <1>5, <1>6, <1>7

\* What set_env changes: the nodes stay where they are, and of another user and
\* of another variable nothing changes; a node is added when there was none.
SetFrame(new, list, v, value, id) ==
    /\ \A k \in DOMAIN list :
          /\ k \in DOMAIN new
          /\ new[k].freed = list[k].freed
          /\ new[k].env_name = list[k].env_name
          /\ \A i \in Ids \ {id} : new[k].env_value[i] = list[k].env_value[i]
          /\ list[k].env_name # v => new[k] = list[k]
    /\ \A k \in DOMAIN new :
          k \notin DOMAIN list => /\ Place(list, v) = 0 /\ new[k].env_name = v
                                  /\ \A i \in Ids \ {id} : new[k].env_value[i] = "null"
    /\ \A k \in DOMAIN new :
          ~new[k].freed /\ new[k].env_name = v => new[k].env_value[id] = value
    /\ \E k \in DOMAIN new : ~new[k].freed /\ new[k].env_name = v

\* set_env keeps the list sound, for the user that sets a variable as well.
LEMMA SetEnv ==
    ASSUME NEW list \in Seq(NodeType), NEW P \in SUBSET Ids,
           \A k \in DOMAIN list : NodeSound(list[k], P), Once(list),
           NEW v \in AllVars, NEW value \in Values \cup {"bin:."}, NEW id \in Ids
    PROVE  LET new == set_env(list, v, value, id)
           IN  /\ new \in Seq(NodeType)
               /\ \A k \in DOMAIN new : NodeSound(new[k], P \cup {id})
               /\ Once(new)
               /\ SetFrame(new, list, v, value, id)
<1> DEFINE new == set_env(list, v, value, id)
           k0 == Place(list, v)
<1>1. Len(list) \in Nat /\ DOMAIN list = 1..Len(list)
    BY LenProperties
<1>2. \A k \in DOMAIN list : list[k] \in NodeType
    BY ElementOfSeq, <1>1
<1>3. \A k \in DOMAIN list : NodeSound(list[k], P \cup {id})
    BY DEF NodeSound
<1>4. CASE k0 = 0
    <2> DEFINE n == Node(v, 1, [NoValue EXCEPT ![id] = value])
    <2>1. n \in NodeType
        BY DEF Node, NodeType, NoValue
    <2>2. new = Append(list, n)
        BY <1>4 DEF set_env
    <2>3. /\ new \in Seq(NodeType) /\ Len(new) = Len(list) + 1
          /\ \A i \in 1..Len(list) : new[i] = list[i]
          /\ new[Len(list) + 1] = n
        BY <2>1, <2>2, AppendProperties
    <2>4. DOMAIN new = 1..(Len(list) + 1)
        BY <2>3, LenProperties
    <2>5. \A k \in DOMAIN new :
             \/ k \in DOMAIN list /\ new[k] = list[k]
             \/ k = Len(list) + 1 /\ new[k] = n
        <3>1. \A k \in 1..(Len(list) + 1) : k \in 1..Len(list) \/ k = Len(list) + 1
            BY <1>1
        <3>2. \A k \in DOMAIN list : new[k] = list[k]
            BY <1>1, <2>3
        <3>3. \A k \in DOMAIN new : k \in DOMAIN list \/ k = Len(list) + 1
            BY <1>1, <2>4, <3>1
        <3>4. new[Len(list) + 1] = n
            BY <2>3
        <3> HIDE DEF new, n
        <3> QED
            BY <3>2, <3>3, <3>4
    <2>6. ~n.freed /\ n.env_name = v /\ n.user_num = 1 /\ SetBy(n) = {id}
        BY ValuesAssumption DEF Node, NoValue, SetBy
    <2>7. Cardinality({id}) = 1
        BY FS_Singleton
    <2>8. NodeSound(n, P \cup {id})
        BY <2>6, <2>7 DEF NodeSound
    <2>9. \A k \in DOMAIN list : ~list[k].freed => list[k].env_name # v
        BY <1>1, <1>4, PlaceFacts
    <2>10. Once(new)
        BY <2>5, <2>6, <2>9 DEF Once
    <2>11. Len(list) + 1 \in DOMAIN new /\ Len(list) + 1 \notin DOMAIN list
        BY <1>1, <2>4
    <2>12. /\ n.env_value[id] = value
           /\ \A i \in Ids \ {id} : n.env_value[i] = "null"
        BY DEF Node, NoValue
    <2>13. \A k \in DOMAIN list : k \in DOMAIN new /\ new[k] = list[k]
        BY <1>1, <2>3, <2>4
    <2>14. \A k \in DOMAIN new : NodeSound(new[k], P \cup {id})
        <3> HIDE DEF new, n
        <3> QED
            BY <1>3, <2>5, <2>8
    <2>15. SetFrame(new, list, v, value, id)
        <3> HIDE DEF new, n
        <3>1. \A k \in DOMAIN list : ~list[k].freed => list[k].env_name # v
            BY <2>9
        <3>2. \A k \in DOMAIN new : k \notin DOMAIN list => new[k] = n
            BY <2>5
        <3>3. \A k \in DOMAIN new :
                 ~new[k].freed /\ new[k].env_name = v => new[k].env_value[id] = value
            BY <2>5, <2>12, <3>1
        <3>4. \E k \in DOMAIN new : ~new[k].freed /\ new[k].env_name = v
            BY <2>3, <2>6, <2>11
        <3> QED
            BY <1>4, <2>6, <2>12, <2>13, <3>2, <3>3, <3>4 DEF SetFrame
    <2> HIDE DEF n
    <2> QED
        BY <2>3, <2>10, <2>14, <2>15
<1>5. CASE k0 # 0
    <2>1. k0 \in DOMAIN list /\ ~list[k0].freed /\ list[k0].env_name = v
        BY <1>5, PlaceFacts
    <2> DEFINE m == [list[k0] EXCEPT !.user_num = Counted(list[k0], id),
                                     !.env_value[id] = value]
    <2>2. new = [list EXCEPT ![k0] = m]
        BY <1>5, <2>1 DEF set_env
    <2>3. list[k0] \in NodeType
        BY <1>2, <2>1
    <2>4. Counted(list[k0], id) \in Int
        BY <2>3 DEF NodeType, Counted
    <2>5. m \in NodeType /\ m.freed = list[k0].freed /\ m.env_name = list[k0].env_name
          /\ m.user_num = Counted(list[k0], id)
          /\ m.env_value = [list[k0].env_value EXCEPT ![id] = value]
        BY <2>3, <2>4 DEF NodeType
    <2>6. NodeSound(m, P \cup {id})
        <3>1. NodeSound(list[k0], P)
            BY <2>1
        <3> HIDE DEF m, k0
        <3> QED
            BY <2>3, <2>5, <3>1, CountedSound
    <2>7. new \in Seq(NodeType)
        BY <1>1, <2>1, <2>2, <2>5, ExceptSeq
    <2>8. /\ DOMAIN new = DOMAIN list /\ new[k0] = m
          /\ \A k \in DOMAIN list \ {k0} : new[k] = list[k]
        BY <2>1, <2>2
    <2>9. Once(new)
        <3> HIDE DEF m, k0, new
        <3> QED
            BY <2>1, <2>5, <2>8 DEF Once
    <2>10. /\ m.env_value[id] = value
           /\ \A i \in Ids \ {id} : m.env_value[i] = list[k0].env_value[i]
        BY <2>3, <2>5 DEF NodeType
    <2>11. \A k \in DOMAIN new : NodeSound(new[k], P \cup {id})
        <3> HIDE DEF new, m, k0
        <3> QED
            BY <1>3, <2>6, <2>8
    <2>12. SetFrame(new, list, v, value, id)
        <3> HIDE DEF new, m, k0
        <3>1. \A k \in DOMAIN list :
                 /\ k \in DOMAIN new
                 /\ new[k].freed = list[k].freed
                 /\ new[k].env_name = list[k].env_name
                 /\ \A i \in Ids \ {id} : new[k].env_value[i] = list[k].env_value[i]
                 /\ list[k].env_name # v => new[k] = list[k]
            BY <2>1, <2>5, <2>8, <2>10
        <3>2. \A k \in DOMAIN new :
                 ~new[k].freed /\ new[k].env_name = v => new[k].env_value[id] = value
            BY <2>1, <2>8, <2>10 DEF Once
        <3>3. ~new[k0].freed /\ new[k0].env_name = v /\ k0 \in DOMAIN new
            BY <2>1, <2>5, <2>8
        <3> QED
            BY <2>8, <3>1, <3>2, <3>3 DEF SetFrame
    <2> HIDE DEF m
    <2> QED
        BY <2>7, <2>9, <2>11, <2>12
<1> QED
    BY <1>4, <1>5

\* Of a node, delete_env_var takes the value of one user, which is counted off.
LEMMA UnsetSound ==
    ASSUME NEW n \in NodeType, NEW P \in SUBSET Ids, NodeSound(n, P), ~n.freed,
           NEW id \in Ids, NEW m, m = Unset(n, id)
    PROVE  /\ m \in NodeType /\ ~m.freed /\ m.env_name = n.env_name
           /\ m.user_num # 0 => NodeSound(m, P \ {id})
           /\ m.user_num = 0 => SetBy(m) = {}
<1>1. /\ n.env_value \in [Ids -> Values \cup {"null", "bin:."}]
      /\ n.user_num \in Int /\ n.env_name \in AllVars /\ n.freed \in BOOLEAN
    BY DEF NodeType
<1>2. /\ IsFiniteSet(SetBy(n)) /\ SetBy(n) \in SUBSET Ids
      /\ Cardinality(SetBy(n)) \in Nat
    BY IdsFinite DEF SetBy
<1>3. CASE n.env_value[id] = "null"
    <2>1. m = n /\ id \notin SetBy(n)
        BY <1>3 DEF Unset, SetBy
    <2>2. n.user_num = 0 => SetBy(n) = {}
        <3>1. n.user_num = 0 => Cardinality(SetBy(n)) = 0
            BY DEF NodeSound
        <3> QED
            BY <1>2, <3>1, FS_EmptySet
    <2> QED
        BY <1>1, <1>2, <2>1, <2>2 DEF NodeSound
<1>4. CASE n.env_value[id] # "null"
    <2>1. m = [n EXCEPT !.env_value[id] = "null",
                        !.user_num = IF @ >= 0 THEN @ - 1 ELSE @]
        BY <1>4 DEF Unset
    <2>2. /\ m.env_value = [n.env_value EXCEPT ![id] = "null"]
          /\ m.user_num = IF n.user_num >= 0 THEN n.user_num - 1 ELSE n.user_num
          /\ m.freed = n.freed /\ m.env_name = n.env_name /\ m \in NodeType
        <3>1. /\ m.env_value = [n.env_value EXCEPT ![id] = "null"]
              /\ m.user_num = IF n.user_num >= 0 THEN n.user_num - 1 ELSE n.user_num
              /\ m.freed = n.freed /\ m.env_name = n.env_name
            BY <2>1 DEF NodeType
        <3>2. [n.env_value EXCEPT ![id] = "null"] \in [Ids -> Values \cup {"null", "bin:."}]
            BY <1>1
        <3>3. (IF n.user_num >= 0 THEN n.user_num - 1 ELSE n.user_num) \in Int
            BY <1>1
        <3>4. m \in NodeType
            BY <2>1, <3>2, <3>3 DEF NodeType
        <3> QED
            BY <3>1, <3>4
    <2>3. SetBy(m) = SetBy(n) \ {id} /\ id \in SetBy(n)
        BY <1>1, <1>4, <2>2 DEF SetBy
    <2>4. /\ IsFiniteSet(SetBy(m)) /\ Cardinality(SetBy(m)) = Cardinality(SetBy(n)) - 1
          /\ Cardinality(SetBy(m)) \in Nat
        BY <1>2, <2>3, FS_RemoveElement, FS_CardinalityType
    <2>5. n.user_num >= 0 => m.user_num = Cardinality(SetBy(m))
        BY <1>1, <2>2, <2>4 DEF NodeSound
    <2>6. n.user_num < 0 => m.user_num < 0
        BY <1>1, <2>2
    <2>7. SetBy(m) = {} <=> Cardinality(SetBy(m)) = 0
        BY <2>4, FS_EmptySet
    <2>8. SetBy(m) \subseteq P \ {id}
        BY <2>3 DEF NodeSound
    <2>9. m.user_num = 0 => SetBy(m) = {}
        BY <1>1, <2>4, <2>5, <2>6, <2>7
    <2>10. m.user_num \in Int
        BY <1>1, <2>2
    <2>11. ASSUME m.user_num >= 0, m.user_num # 0
           PROVE  m.user_num = Cardinality(SetBy(m)) /\ SetBy(m) # {}
        BY <1>1, <2>4, <2>5, <2>6, <2>7, <2>10, <2>11
    <2>12. m.user_num # 0 => NodeSound(m, P \ {id})
        BY <2>8, <2>11 DEF NodeSound
    <2> QED
        BY <2>2, <2>9, <2>12
<1> QED
    BY <1>3, <1>4

\* The values of the other users are left alone.
LEMMA UnsetOthers ==
    ASSUME NEW n \in NodeType, NEW id \in Ids, NEW i \in Ids, i # id
    PROVE  Unset(n, id).env_value[i] = n.env_value[i]
BY DEF Unset, NodeType

\* delete_env_var keeps the list sound without the user that leaves. Nodes that
\* nobody has set any more are freed, and PATH is kept for whoever stays.
LEMMA DeleteEnv ==
    ASSUME NEW list \in Seq(NodeType), NEW P \in SUBSET Ids,
           \A k \in DOMAIN list : NodeSound(list[k], P), Once(list),
           \A k \in DOMAIN list : ~list[k].freed,
           HasPath(list, P), NEW id \in Ids
    PROVE  LET new == delete_env_var(list, id)
           IN  /\ new \in Seq(NodeType)
               /\ \A k \in DOMAIN new : NodeSound(new[k], P \ {id})
               /\ Once(new)
               /\ HasPath(new, P \ {id})
<1> DEFINE unset == [k \in DOMAIN list |-> Unset(list[k], id)]
           gone == {k \in DOMAIN list : unset[k].user_num = 0}
           first == CHOOSE k \in gone : \A j \in gone : k <= j
           freed == [k \in DOMAIN list |-> [unset[k] EXCEPT !.freed = k \in gone]]
           new == delete_env_var(list, id)
<1>1. Len(list) \in Nat /\ DOMAIN list = 1..Len(list)
    BY LenProperties
<1>2. \A k \in DOMAIN list : list[k] \in NodeType
    BY ElementOfSeq, <1>1
<1>3. ASSUME NEW k \in DOMAIN list
      PROVE  /\ unset[k] \in NodeType /\ ~unset[k].freed
             /\ unset[k].env_name = list[k].env_name
             /\ \A i \in Ids : i # id => unset[k].env_value[i] = list[k].env_value[i]
             /\ unset[k].user_num # 0 => NodeSound(unset[k], P \ {id})
             /\ unset[k].user_num = 0 => SetBy(unset[k]) = {}
    <2>1. list[k] \in NodeType /\ NodeSound(list[k], P) /\ ~list[k].freed
        BY <1>2
    <2>2. unset[k] = Unset(list[k], id)
        OBVIOUS
    <2>3. \A i \in Ids : i # id => unset[k].env_value[i] = list[k].env_value[i]
        BY <2>1, <2>2, UnsetOthers
    <2> HIDE DEF unset
    <2>4. /\ unset[k] \in NodeType /\ ~unset[k].freed
          /\ unset[k].env_name = list[k].env_name
          /\ unset[k].user_num # 0 => NodeSound(unset[k], P \ {id})
          /\ unset[k].user_num = 0 => SetBy(unset[k]) = {}
        <3>1. PICK n : n = list[k]
            OBVIOUS
        <3>2. PICK m : m = unset[k]
            OBVIOUS
        <3>3. /\ n \in NodeType /\ NodeSound(n, P) /\ ~n.freed
              /\ m = Unset(n, id)
            BY <2>1, <2>2, <3>1, <3>2
        <3>4. m \in NodeType /\ ~m.freed /\ m.env_name = n.env_name
            BY <3>3, UnsetSound
        <3>5. m.user_num # 0 => NodeSound(m, P \ {id})
            BY <3>3, UnsetSound
        <3>6. m.user_num = 0 => SetBy(m) = {}
            BY <3>3, UnsetSound
        <3> QED
            BY <3>1, <3>2, <3>4, <3>5, <3>6
    <2> QED
        BY <2>3, <2>4
<1> HIDE DEF unset
<1>4. ASSUME NEW i \in P \ {id}
      PROVE  \E k \in DOMAIN list : /\ unset[k].env_name = "PATH"
                                    /\ unset[k].env_value[i] # "null"
                                    /\ unset[k].user_num # 0
    <2>1. PICK k \in DOMAIN list : list[k].env_name = "PATH" /\ list[k].env_value[i] # "null"
        BY DEF HasPath
    <2>2. unset[k].env_value[i] # "null"
        BY <1>3, <2>1
    <2>3. unset[k].user_num # 0
        BY <1>3, <2>2 DEF SetBy
    <2> QED
        BY <1>3, <2>1, <2>2, <2>3
<1>5. CASE gone = {}
    <2>1. new = unset
        BY <1>5 DEF delete_env_var, unset
    <2>2. DOMAIN unset = DOMAIN list
        BY DEF unset
    <2>3. unset \in Seq(NodeType)
        <3>1. unset \in [1..Len(list) -> NodeType]
            BY <1>1, <1>3 DEF unset
        <3> QED
            BY <1>1, <3>1, SeqDef
    <2>4. \A k \in DOMAIN list : unset[k].user_num # 0
        BY <1>5
    <2>5. Once(unset)
        BY <1>3, <2>2 DEF Once
    <2>6. HasPath(unset, P \ {id})
        BY <1>3, <1>4, <2>2 DEF HasPath
    <2> QED
        BY <1>3, <2>1, <2>2, <2>3, <2>4, <2>5, <2>6
<1>6. CASE gone # {}
    <2>1. new = RemoveAt(freed, first)
        BY <1>6 DEF delete_env_var, unset
    <2>2. first \in gone
        <3>1. gone \in SUBSET Nat
            BY <1>1
        <3>2. \E k \in gone : \A j \in gone : k <= j
            <4> HIDE DEF gone
            <4> QED
                BY <1>6, <3>1, LeastNat
        <3> HIDE DEF gone
        <3> QED
            BY <3>2
    <2>3. first \in DOMAIN list
        BY <2>2
    <2>4. ASSUME NEW k \in DOMAIN list
          PROVE  /\ freed[k] \in NodeType /\ freed[k].freed = (k \in gone)
                 /\ freed[k].env_name = list[k].env_name
                 /\ freed[k].env_value = unset[k].env_value
                 /\ freed[k].user_num = unset[k].user_num
        <3>1. unset[k] \in NodeType
            BY <1>3
        <3>2. freed[k] = [unset[k] EXCEPT !.freed = k \in gone]
            OBVIOUS
        <3>3. (k \in gone) \in BOOLEAN
            OBVIOUS
        <3> HIDE DEF gone, freed
        <3> QED
            BY <1>3, <3>1, <3>2, <3>3 DEF NodeType
    <2>5. \A k \in DOMAIN list : NodeSound(freed[k], P \ {id})
        <3> SUFFICES ASSUME NEW k \in DOMAIN list, ~freed[k].freed
                     PROVE  NodeSound(freed[k], P \ {id})
            BY DEF NodeSound
        <3>1. k \notin gone
            BY <2>4
        <3>2. unset[k].user_num # 0
            BY <3>1
        <3>3. NodeSound(unset[k], P \ {id}) /\ ~unset[k].freed
            BY <1>3, <3>2
        <3> HIDE DEF freed, gone
        <3> QED
            BY <2>4, <3>3 DEF NodeSound, SetBy
    <2>6. freed \in Seq(NodeType) /\ Len(freed) = Len(list)
        <3>1. freed \in [1..Len(list) -> NodeType]
            <4>1. freed = [k \in 1..Len(list) |-> freed[k]]
                BY <1>1
            <4> HIDE DEF freed, gone
            <4> QED
                BY <1>1, <2>4, <4>1
        <3>2. freed \in Seq(NodeType)
            BY <1>1, <3>1, SeqDef
        <3> HIDE DEF freed, gone
        <3> QED
            BY <1>1, <3>1, <3>2, LenProperties
    <2> HIDE DEF freed, gone, first
    <2>7. /\ new \in Seq(NodeType) /\ DOMAIN new = 1..(Len(list) - 1)
          /\ \A k \in 1..(Len(list) - 1) :
                new[k] = IF k < first THEN freed[k] ELSE freed[k + 1]
        BY <1>1, <2>1, <2>3, <2>6, Removed
    <2> DEFINE back(k) == IF k < first THEN k ELSE k + 1
    <2>8. \A k \in DOMAIN new : back(k) \in DOMAIN list /\ new[k] = freed[back(k)]
        BY <1>1, <2>3, <2>7
    <2>9. \A k, m \in DOMAIN new : k # m => back(k) # back(m)
        BY <1>1, <2>3, <2>7
    <2>10. \A k \in DOMAIN list \ {first} : \E m \in DOMAIN new : back(m) = k
        <3> SUFFICES ASSUME NEW k \in DOMAIN list, k # first
                     PROVE  \E m \in DOMAIN new : back(m) = k
            OBVIOUS
        <3>1. CASE k < first
            BY <1>1, <2>3, <2>7, <3>1
        <3>2. CASE ~(k < first)
            <4>1. k - 1 \in DOMAIN new /\ ~(k - 1 < first) /\ k - 1 + 1 = k
                BY <1>1, <2>3, <2>7, <3>2
            <4> QED
                BY <4>1
        <3> QED
            BY <3>1, <3>2
    <2> HIDE DEF back
    <2>11. \A k \in DOMAIN new : NodeSound(new[k], P \ {id})
        BY <2>5, <2>8
    <2>12. Once(new)
        <3> SUFFICES ASSUME NEW k \in DOMAIN new, NEW m \in DOMAIN new, k # m
                     PROVE  new[k].env_name # new[m].env_name
            BY DEF Once
        <3>1. back(k) \in DOMAIN list /\ back(m) \in DOMAIN list /\ back(k) # back(m)
            BY <2>8, <2>9
        <3>2. list[back(k)].env_name # list[back(m)].env_name
            BY <3>1 DEF Once
        <3> QED
            BY <2>4, <2>8, <3>1, <3>2
    <2>13. HasPath(new, P \ {id})
        <3> SUFFICES ASSUME NEW i \in P \ {id}
                     PROVE  \E k \in DOMAIN new : /\ ~new[k].freed
                                                  /\ new[k].env_name = "PATH"
                                                  /\ new[k].env_value[i] # "null"
            BY DEF HasPath
        <3>1. PICK k \in DOMAIN list : /\ unset[k].env_name = "PATH"
                                       /\ unset[k].env_value[i] # "null"
                                       /\ unset[k].user_num # 0
            BY <1>4
        <3>2. k \notin gone /\ k # first
            BY <2>2, <3>1 DEF gone
        <3>3. PICK m \in DOMAIN new : back(m) = k
            BY <2>10, <3>2
        <3>4. new[m] = freed[k]
            BY <2>8, <3>3
        <3>5. /\ freed[k].freed = FALSE /\ freed[k].env_name = "PATH"
              /\ freed[k].env_value[i] # "null"
            <4>1. list[k].env_name = "PATH"
                BY <1>3, <3>1
            <4>2. freed[k].freed = (k \in gone) /\ (k \in gone) = FALSE
                BY <2>4, <3>2
            <4> QED
                BY <2>4, <3>1, <4>1, <4>2
        <3> QED
            BY <3>3, <3>4, <3>5
    <2> QED
        BY <2>7, <2>11, <2>12, <2>13
<1> QED
    BY <1>5, <1>6

-----------------------------------------------------------------------------
(* The steps of the server. *)

\* One line of a user that is logged in.
UserStep(c, i) ==
    \/ Talk(c, i) \/ Leave(c, i)
    \/ \E n \in Names : cmd_name(c, i, n)
    \/ \E v \in Vars, value \in Values : env_setting(c, i, v, value)
    \/ \E p \in PipeLines : PipeLine(c, i, p[1], p[2])

\* A step is a login, the end of the server or one line of a user.
LEMMA Kinds ==
    ASSUME [Next]_vars
    PROVE  \/ UNCHANGED vars
           \/ Accept
           \/ \E how \in {"dead", "stuck", "undefined"} : Stops(how)
           \/ \E c \in Fds, i \in Ids : Serves(c, i) /\ UserStep(c, i)
<1>1. CASE UNCHANGED vars
    BY <1>1
<1>2. CASE Accept
    BY <1>2
<1>3. CASE AcceptsFreed
    BY <1>3 DEF AcceptsFreed
<1>4. ASSUME NEW c \in Fds, Serve(c)
      PROVE  \/ \E how \in {"dead", "stuck", "undefined"} : Stops(how)
             \/ \E i \in Ids : Serves(c, i) /\ UserStep(c, i)
    <2>1. CASE ReadFails(c) \/ HangsUp(c) \/ UsesFreed(c)
        BY <2>1 DEF ReadFails, HangsUp, UsesFreed
    <2>2. ASSUME NEW i \in Ids, Talk(c, i)
          PROVE  Serves(c, i) /\ UserStep(c, i)
        BY <2>2 DEF Talk, UserStep
    <2>3. ASSUME NEW i \in Ids, Leave(c, i)
          PROVE  Serves(c, i) /\ UserStep(c, i)
        BY <2>3 DEF Leave, UserStep
    <2>4. ASSUME NEW i \in Ids, LeavesFreed(c, i) PROVE Stops("undefined")
        BY <2>4 DEF LeavesFreed
    <2>5. ASSUME NEW i \in Ids, NEW n \in Names, cmd_name(c, i, n)
          PROVE  Serves(c, i) /\ UserStep(c, i)
        BY <2>5 DEF cmd_name, UserStep
    <2>6. ASSUME NEW i \in Ids, NEW v \in Vars, SetsFreed(c, i, v) PROVE Stops("undefined")
        BY <2>6 DEF SetsFreed
    <2>7. ASSUME NEW i \in Ids, NEW v \in Vars, NEW value \in Values,
                 env_setting(c, i, v, value)
          PROVE  Serves(c, i) /\ UserStep(c, i)
        BY <2>7 DEF env_setting, UserStep
    <2>8. ASSUME NEW i \in Ids, NEW p \in PipeLines,
                 single_cmd(c, i, p[1], p[2]) \/ ordinary_pipe(c, i, p[1], p[2])
          PROVE  Serves(c, i) /\ UserStep(c, i)
        <3>1. PipeLine(c, i, p[1], p[2])
            BY <2>8 DEF single_cmd, ordinary_pipe
        <3>2. Serves(c, i)
            BY <3>1 DEF PipeLine
        <3> QED
            BY <3>1, <3>2 DEF UserStep
    <2>9. ASSUME NEW i \in Ids, NEW p \in PipeLines, NeverSet(c, i, p[1], p[2])
          PROVE  Stops("undefined")
        BY <2>9 DEF NeverSet
    <2> QED
        BY <1>4, <2>1, <2>2, <2>3, <2>4, <2>5, <2>6, <2>7, <2>8, <2>9, Zenon DEF Serve
<1> QED
    BY <1>1, <1>2, <1>3, <1>4 DEF Next

\* ListSound, node by node.
LEMMA ListForm ==
    ListSound <=> Once(env_list) /\ \A k \in DOMAIN env_list : NodeSound(env_list[k], Present)
BY DEF ListSound, Once, NodeSound, SetBy

-----------------------------------------------------------------------------
(* The table. *)

\* There are as many descriptors as places.
LEMMA FdsFinite ==
    /\ IsFiniteSet(Fds) /\ Cardinality(Fds) = max_client_num
    /\ \A S \in SUBSET Fds : /\ IsFiniteSet(S) /\ Cardinality(S) \in Nat
                             /\ Cardinality(S) <= max_client_num
                             /\ Cardinality(S) = max_client_num => S = Fds
<1>1. max_client_num \in Int /\ 1 \in Int /\ ~(1 > max_client_num)
    BY PlacesAssumption
<1>2. IsFiniteSet(1..max_client_num) /\ Cardinality(1..max_client_num) = max_client_num
    BY <1>1, FS_Interval
<1> QED
    BY <1>2, FS_Subset, FS_CardinalityType DEF Fds

Used == {c \in Fds : fd_id_list[c] # 0}

\* A login finds a descriptor, and takes the place min_id.
LEMMA AcceptPlace ==
    ASSUME TableInv, Accept
    PROVE  \E c0 \in Fds : fd_id_list[c0] = 0 /\ update_client_infor(c0)
<1> DEFINE free == {c \in Fds : fd_id_list[c] = 0}
           c0 == CHOOSE c \in free : \A d \in free : c <= d
<1>1. c0 \in Fds /\ fd_id_list[c0] = 0
    <2>1. free # {}
        <3>1. Used # Fds
            <4>1. Cardinality(Used) # max_client_num
                <5>1. client_num = Cardinality(Used) /\ client_num < max_client_num
                    BY DEF TableInv, TableSound, Accept, Used
                <5>2. client_num \in 0..max_client_num /\ max_client_num \in Nat
                    BY PlacesAssumption DEF TableInv, TableType
                <5> QED
                    BY <5>1, <5>2
            <4> QED
                BY <4>1, FdsFinite
        <3> QED
            BY <3>1 DEF Used
    <2>2. free \in SUBSET Nat
        BY PlacesAssumption DEF Fds
    <2>3. \E c \in free : \A d \in free : c <= d
        <3> HIDE DEF free
        <3> QED
            BY <2>1, <2>2, LeastNat
    <2>4. c0 \in free
        <3> HIDE DEF free
        <3> QED
            BY <2>3
    <2> QED
        BY <2>4
<1>2. update_client_infor(c0)
    BY DEF Accept
<1> HIDE DEF c0
<1> QED
    BY <1>1, <1>2

\* A login leaves the table sound.
LEMMA AcceptTable ==
    ASSUME TableInv, Accept PROVE TableInv'
<1>1. PICK c0 \in Fds : fd_id_list[c0] = 0 /\ update_client_infor(c0)
    BY AcceptPlace
<1>2. update_client_infor(c0)
    BY <1>1
<1>3. /\ sockfd' = [sockfd EXCEPT ![min_id] = c0]
      /\ name' = [name EXCEPT ![min_id] = "(no name)"]
      /\ user_pipe' = [user_pipe EXCEPT ![min_id] = [j \in Ids |-> FALSE]]
      /\ fd_id_list' = [fd_id_list EXCEPT ![c0] = min_id]
      /\ min_id' = FirstFree(sockfd')
    BY <1>2 DEF update_client_infor
<1>4. server' = server /\ client_num' = client_num + 1 /\ client_num < max_client_num
    BY DEF Accept
<1>5. min_id' \in Ids /\ \A i \in Ids : i < min_id' => sockfd'[i] # 0
    <2> DEFINE unused == {i \in Ids : sockfd'[i] = 0}
    <2>1. CASE unused = {}
        BY <1>3, <2>1 DEF FirstFree, TableInv, TableType
    <2>2. CASE unused # {}
        <3>1. min_id' = CHOOSE i \in unused : \A j \in unused : i <= j
            BY <1>3, <2>2 DEF FirstFree
        <3>2. unused \in SUBSET Nat
            BY PlacesAssumption DEF Ids
        <3>3. \E i \in unused : \A j \in unused : i <= j
            <4> HIDE DEF unused
            <4> QED
                BY <2>2, <3>2, LeastNat
        <3>4. min_id' \in unused /\ \A j \in unused : min_id' <= j
            <4> HIDE DEF unused
            <4> QED
                BY <3>1, <3>3
        <3> QED
            BY <3>2, <3>4, PlacesAssumption DEF Ids
    <2> QED
        BY <2>1, <2>2
<1>6. c0 # 0 /\ min_id # 0
    <2>1. 0 \notin Ids /\ 0 \notin Fds
        BY PlacesAssumption DEF Ids, Fds
    <2> QED
        BY <1>1, <2>1 DEF TableInv, TableType
<1>7. TableType'
    <2>1. client_num' \in 0..max_client_num
        <3>1. client_num \in 0..max_client_num /\ max_client_num \in Nat
            BY PlacesAssumption DEF TableInv, TableType
        <3> QED
            BY <1>4, <3>1
    <2>2. /\ fd_id_list' \in [Fds -> Ids \cup {0}] /\ sockfd' \in [Ids -> Fds \cup {0}]
          /\ name' \in [Ids -> Names \cup {"", "(no name)"}]
          /\ user_pipe' \in [Ids -> [Ids -> BOOLEAN]]
        BY <1>1, <1>3 DEF TableInv, TableType
    <2> QED
        BY <1>4, <1>5, <2>1, <2>2 DEF TableInv, TableType
<1>8. client_num' = Cardinality(Used')
    <2>1. Used' = Used \cup {c0} /\ c0 \notin Used
        BY <1>1, <1>3, <1>6 DEF Used, TableInv, TableType
    <2>2. IsFiniteSet(Used) /\ client_num = Cardinality(Used)
        BY FdsFinite DEF Used, TableInv, TableSound
    <2> QED
        BY <1>4, <2>1, <2>2, FS_AddElement
<1>9. \A i, j \in Ids : /\ sockfd'[i] # 0 /\ sockfd'[j] # 0 /\ i # j /\ name'[i] = name'[j]
                        => name'[i] = "(no name)"
    BY <1>3 DEF TableInv, TableType, TableSound, Present
<1>10. \A i \in Present' : i \in Ids /\ sockfd'[i] # 0
    BY DEF Present
<1> QED
    BY <1>5, <1>7, <1>8, <1>9, <1>10 DEF TableInv, TableSound, Used, Present

\* The users that are logged in after a login.
LEMMA AcceptPresent ==
    ASSUME TableInv, Accept
    PROVE  min_id \in Ids /\ Present' = Present \cup {min_id}
<1>1. PICK c0 \in Fds : sockfd' = [sockfd EXCEPT ![min_id] = c0]
    BY AcceptPlace DEF update_client_infor
<1>2. c0 # 0 /\ min_id \in Ids
    BY IdsNat DEF TableInv, TableType
<1> QED
    BY <1>1, <1>2 DEF Present, TableInv, TableType

\* A logout frees a descriptor and an id, and the smallest unused id is known.
LEMMA LeaveTable ==
    ASSUME TableInv, NEW c \in Fds, NEW i \in Ids, Serves(c, i), Leave(c, i)
    PROVE  TableInv'
<1>1. /\ sockfd' = [sockfd EXCEPT ![i] = 0] /\ name' = [name EXCEPT ![i] = ""]
      /\ user_pipe' = PipesAfter(i) /\ min_id' = MinAfter(i)
      /\ fd_id_list' = [fd_id_list EXCEPT ![c] = 0]
      /\ client_num' = client_num - 1 /\ server' = server
    BY DEF Leave
<1>2. fd_id_list[c] # 0
    BY DEF Serves, Switches
<1>3. client_num = Cardinality(Used) /\ client_num \in 0..max_client_num
    BY DEF TableInv, TableSound, TableType, Used
<1>4. IsFiniteSet(Used) /\ c \in Used
    BY <1>2, FdsFinite DEF Used
<1>5. Used' = Used \ {c}
    BY <1>1 DEF Used, TableInv, TableType
<1>6. Cardinality(Used') = Cardinality(Used) - 1 /\ Cardinality(Used') \in Nat
    BY <1>4, <1>5, FS_RemoveElement, FS_CardinalityType
<1>7. client_num' = Cardinality(Used') /\ client_num' \in 0..max_client_num
    <2>1. max_client_num \in Nat /\ client_num' = client_num - 1
        BY <1>1, PlacesAssumption
    <2> QED
        BY <1>3, <1>6, <2>1
<1>8. min_id' \in Ids /\ \A j \in Ids : j < min_id' => j < min_id /\ j # i
    <2>1. Ids \subseteq Nat /\ min_id \in Ids
        BY IdsNat DEF TableInv, TableType
    <2>2. min_id' = IF i < min_id THEN i ELSE min_id
        BY <1>1 DEF MinAfter
    <2> QED
        BY <2>1, <2>2
<1>9. Present' = Present \ {i}
    BY <1>1 DEF Present, TableInv, TableType
<1>10. \A j \in Ids : j < min_id' => j \in Present'
    BY <1>8, <1>9 DEF TableInv, TableSound
<1>11. \A j \in Present' : name'[j] = name[j] /\ j \in Present
    BY <1>1, <1>9 DEF Present, TableInv, TableType
<1>12. \A j, k \in Present' : j # k /\ name'[j] = name'[k] => name'[j] = "(no name)"
    BY <1>11 DEF TableInv, TableSound
<1>13. TableType'
    <2>1. user_pipe' \in [Ids -> [Ids -> BOOLEAN]]
        BY <1>1 DEF PipesAfter
    <2>2. /\ fd_id_list' \in [Fds -> Ids \cup {0}] /\ sockfd' \in [Ids -> Fds \cup {0}]
          /\ name' \in [Ids -> Names \cup {"", "(no name)"}]
        BY <1>1 DEF TableInv, TableType
    <2> QED
        BY <1>1, <1>7, <1>8, <2>1, <2>2 DEF TableInv, TableType
<1> QED
    BY <1>7, <1>10, <1>12, <1>13 DEF TableInv, TableSound, Used

\* Pipes are lost and made in the table of booleans only.
LEMMA PipesType ==
    ASSUME TableType, NEW i \in Ids, NEW in, NEW out
    PROVE  AfterWrite(AfterRead(i, in), i, out) \in [Ids -> [Ids -> BOOLEAN]]
<1>1. user_pipe \in [Ids -> [Ids -> BOOLEAN]]
    BY DEF TableType
<1>2. AfterRead(i, in) \in [Ids -> [Ids -> BOOLEAN]]
    BY <1>1 DEF AfterRead, CanRead, Present
<1> QED
    BY <1>2 DEF AfterWrite, CanWrite, Present

\* Every step leaves the table sound.
LEMMA TableNext == TableInv /\ [Next]_vars => TableInv'
<1> SUFFICES ASSUME TableInv, [Next]_vars PROVE TableInv'
    OBVIOUS
<1>1. ASSUME UNCHANGED table, server' \in {"up", "dead", "stuck", "undefined"}
      PROVE  TableInv'
    BY <1>1 DEF table, TableInv, TableType, TableSound, Present
<1>2. CASE UNCHANGED vars
    BY <1>1, <1>2 DEF vars, TableInv, TableType
<1>3. CASE Accept
    BY <1>3, AcceptTable
<1>4. ASSUME NEW how \in {"dead", "stuck", "undefined"}, Stops(how) PROVE TableInv'
    BY <1>1, <1>4 DEF Stops
<1>5. ASSUME NEW c \in Fds, NEW i \in Ids, Serves(c, i), UserStep(c, i) PROVE TableInv'
    <2>1. CASE Talk(c, i)
        BY <1>1, <2>1 DEF Talk, TableInv, TableType
    <2>2. CASE Leave(c, i)
        BY <1>5, <2>2, LeaveTable
    <2>3. ASSUME NEW n \in Names, cmd_name(c, i, n) PROVE TableInv'
        <3>1. /\ UNCHANGED <<server, fd_id_list, sockfd, user_pipe, min_id, client_num>>
              /\ name' = IF NameTaken(i, n) THEN name ELSE [name EXCEPT ![i] = n]
            BY <2>3 DEF cmd_name
        <3>2. name' \in [Ids -> Names \cup {"", "(no name)"}]
            BY <3>1 DEF TableInv, TableType
        <3>3. Present' = Present
            BY <3>1 DEF Present
        <3>4. \A j, k \in Present' : j # k /\ name'[j] = name'[k] => name'[j] = "(no name)"
            BY <3>1, <3>3 DEF NameTaken, Present, TableInv, TableType, TableSound
        <3> QED
            BY <3>1, <3>2, <3>3, <3>4 DEF TableInv, TableType, TableSound
    <2>4. ASSUME NEW v \in Vars, NEW value \in Values, env_setting(c, i, v, value)
          PROVE  TableInv'
        BY <1>1, <2>4 DEF env_setting, TableInv, TableType
    <2>5. ASSUME NEW p \in PipeLines, PipeLine(c, i, p[1], p[2]) PROVE TableInv'
        <3>1. /\ UNCHANGED <<server, fd_id_list, sockfd, name, min_id, client_num>>
              /\ user_pipe' = AfterWrite(AfterRead(i, p[1]), i, p[2])
            BY <2>5 DEF PipeLine
        <3>2. user_pipe' \in [Ids -> [Ids -> BOOLEAN]]
            BY <3>1, PipesType DEF TableInv
        <3> QED
            BY <3>1, <3>2 DEF TableInv, TableType, TableSound, Present
    <2> QED
        BY <1>5, <2>1, <2>2, <2>3, <2>4, <2>5 DEF UserStep
<1> QED
    BY <1>2, <1>3, <1>4, <1>5, Kinds

-----------------------------------------------------------------------------
(* The list of variables. *)

\* Every step leaves the list sound, and PATH in it for every user.
LEMMA ListNext ==
    TableInv /\ EnvType /\ ListInv /\ [Next]_vars => env_list' \in Seq(NodeType) /\ ListInv'
<1> SUFFICES ASSUME TableInv, EnvType, ListInv, [Next]_vars
             PROVE  env_list' \in Seq(NodeType) /\ ListInv'
    OBVIOUS
<1>1. /\ env_list \in Seq(NodeType) /\ Once(env_list) /\ HasPath(env_list, Present)
      /\ \A k \in DOMAIN env_list : NodeSound(env_list[k], Present)
    BY ListForm DEF EnvType, ListInv, PathKept
<1>2. Present \in SUBSET Ids
    BY DEF Present
<1>3. ASSUME env_list' \in Seq(NodeType), Once(env_list'), HasPath(env_list', Present'),
             \A k \in DOMAIN env_list' : NodeSound(env_list'[k], Present')
      PROVE  env_list' \in Seq(NodeType) /\ ListInv'
    <2>1. ListSound'
        BY <1>3 DEF ListSound, Once, NodeSound, SetBy
    <2> QED
        BY <1>3, <2>1 DEF ListInv, PathKept
<1>4. ASSUME env_list' = env_list, Present' = Present
      PROVE  env_list' \in Seq(NodeType) /\ ListInv'
    BY <1>1, <1>3, <1>4
<1>5. CASE UNCHANGED vars
    BY <1>4, <1>5 DEF vars, table, env, Present
<1>6. CASE Accept
    <2>1. min_id \in Ids
        BY DEF TableInv, TableType
    <2>2. env_list' = set_env(env_list, "PATH", "bin:.", min_id)
        BY <1>6 DEF Accept
    <2>3. Present' = Present \cup {min_id}
        BY <1>6, AcceptPresent
    <2>4. "PATH" \in AllVars /\ "bin:." \in Values \cup {"bin:."}
        BY DEF AllVars
    <2> DEFINE new == env_list'
    <2>5. /\ new \in Seq(NodeType)
          /\ \A k \in DOMAIN new : NodeSound(new[k], Present \cup {min_id})
          /\ Once(new) /\ SetFrame(new, env_list, "PATH", "bin:.", min_id)
        BY <1>1, <1>2, <2>1, <2>2, <2>4, SetEnv
    <2>6. HasPath(new, Present \cup {min_id})
        <3> HIDE DEF new
        <3> QED
            BY <1>1, <1>2, <2>5, SMTT(30) DEF HasPath, SetFrame
    <2> QED
        BY <1>3, <2>3, <2>5, <2>6
<1>7. ASSUME NEW how \in {"dead", "stuck", "undefined"}, Stops(how)
      PROVE  env_list' \in Seq(NodeType) /\ ListInv'
    BY <1>4, <1>7 DEF Stops, env, table, Present
<1>8. ASSUME NEW c \in Fds, NEW i \in Ids, Serves(c, i), UserStep(c, i)
      PROVE  env_list' \in Seq(NodeType) /\ ListInv'
    <2>1. CASE Talk(c, i)
        BY <1>4, <2>1 DEF Talk, table, Present
    <2>2. CASE Leave(c, i)
        <3>1. Present' = Present \ {i}
            BY <2>2 DEF Leave, Present, TableInv, TableType
        <3>2. env_list' = delete_env_var(env_list, i)
            BY <2>2 DEF Leave
        <3>3. \A k \in DOMAIN env_list : ~env_list[k].freed
            BY <2>2 DEF Leave, Touches
        <3>4. /\ env_list' \in Seq(NodeType) /\ Once(env_list')
              /\ \A k \in DOMAIN env_list' : NodeSound(env_list'[k], Present \ {i})
              /\ HasPath(env_list', Present \ {i})
            BY <1>1, <1>2, <3>2, <3>3, DeleteEnv
        <3> QED
            BY <1>3, <3>1, <3>4
    <2>3. ASSUME NEW n \in Names, cmd_name(c, i, n)
          PROVE  env_list' \in Seq(NodeType) /\ ListInv'
        BY <1>4, <2>3 DEF cmd_name, Present
    <2>4. ASSUME NEW v \in Vars, NEW value \in Values, env_setting(c, i, v, value)
          PROVE  env_list' \in Seq(NodeType) /\ ListInv'
        <3>1. Present' = Present /\ i \in Present
            BY <1>8, <2>4 DEF env_setting, table, Present, Serves
        <3>2. env_list' = set_env(env_list, v, value, i)
            BY <2>4 DEF env_setting
        <3>3. Present \cup {i} = Present /\ v \in AllVars
            BY <3>1 DEF AllVars
        <3> DEFINE new == env_list'
        <3>4. /\ new \in Seq(NodeType)
              /\ \A k \in DOMAIN new : NodeSound(new[k], Present \cup {i})
              /\ Once(new) /\ SetFrame(new, env_list, v, value, i)
            BY <1>1, <1>2, <3>2, <3>3, SetEnv
        <3>5. value # "null"
            BY ValuesAssumption
        <3>6. HasPath(new, Present)
            <4> HIDE DEF new
            <4>1. ASSUME NEW j \in Present, j # i
                  PROVE  \E k \in DOMAIN new : /\ ~new[k].freed /\ new[k].env_name = "PATH"
                                               /\ new[k].env_value[j] # "null"
                BY <1>1, <1>2, <3>4, <4>1 DEF HasPath, SetFrame
            <4>2. \E k \in DOMAIN new : /\ ~new[k].freed /\ new[k].env_name = "PATH"
                                        /\ new[k].env_value[i] # "null"
                <5>1. CASE v = "PATH"
                    BY <3>4, <3>5, <5>1 DEF SetFrame
                <5>2. CASE v # "PATH"
                    BY <1>1, <3>1, <3>4, <5>2 DEF HasPath, SetFrame
                <5> QED
                    BY <5>1, <5>2
            <4> QED
                BY <4>1, <4>2 DEF HasPath
        <3> QED
            BY <1>3, <3>1, <3>3, <3>4, <3>6
    <2>5. ASSUME NEW p \in PipeLines, PipeLine(c, i, p[1], p[2])
          PROVE  env_list' \in Seq(NodeType) /\ ListInv'
        BY <1>4, <2>5 DEF PipeLine, Present
    <2> QED
        BY <1>8, <2>1, <2>2, <2>3, <2>4, <2>5 DEF UserStep
<1> QED
    BY <1>5, <1>6, <1>7, <1>8, Kinds

-----------------------------------------------------------------------------
(* The environment of the process. *)

EnvValues == Values \cup {"", "unset", "system", "bin:."}

\* The environment has the values a list gives to user i.
Follows(e, list, i) ==
    \A k \in DOMAIN list :
        ~list[k].freed => e[list[k].env_name] =
            IF list[k].env_value[i] = "null" THEN "" ELSE list[k].env_value[i]

\* renew_env_var puts the variables of a user in the environment.
LEMMA RenewFollows ==
    ASSUME NEW list \in Seq(NodeType), Once(list), NEW i \in Ids,
           environ \in [AllVars -> EnvValues]
    PROVE  /\ renew_env_var(list, i) \in [AllVars -> EnvValues]
           /\ Follows(renew_env_var(list, i), list, i)
<1>1. Len(list) \in Nat /\ DOMAIN list = 1..Len(list) /\ 0 \notin DOMAIN list
    BY LenProperties
<1>2. \A k \in DOMAIN list :
         /\ list[k].env_name \in AllVars
         /\ list[k].env_value[i] \in Values \cup {"null", "bin:."}
    <2>1. \A k \in DOMAIN list : list[k] \in NodeType
        BY <1>1, ElementOfSeq
    <2> QED
        BY <2>1 DEF NodeType
<1>3. ASSUME NEW v \in AllVars PROVE renew_env_var(list, i)[v] \in EnvValues
    <2>1. Place(list, v) = 0 \/ Place(list, v) \in DOMAIN list
        BY PlaceFacts
    <2> QED
        BY <1>2, <2>1 DEF renew_env_var, EnvValues
<1>4. renew_env_var(list, i) = [v \in AllVars |-> renew_env_var(list, i)[v]]
    BY DEF renew_env_var
<1>5. ASSUME NEW k \in DOMAIN list, ~list[k].freed
      PROVE  renew_env_var(list, i)[list[k].env_name] =
                IF list[k].env_value[i] = "null" THEN "" ELSE list[k].env_value[i]
    <2>1. Place(list, list[k].env_name) = k /\ k # 0
        BY <1>1, <1>5, PlaceOnce
    <2> QED
        BY <1>2, <2>1 DEF renew_env_var
<1>6. renew_env_var(list, i) \in [AllVars -> EnvValues]
    BY <1>3, <1>4
<1> QED
    BY <1>5, <1>6 DEF Follows

\* Before a line of user i is read the environment follows user i, if it was
\* put there at all.
LEMMA SwitchFollows ==
    ASSUME EnvType, ListInv, EnvFollows, NEW i \in Ids, i \in Present, SwitchTo(i)
    PROVE  /\ env_id' = i /\ fresh' \subseteq Ids /\ environ' \in [AllVars -> EnvValues]
           /\ i \in fresh' => Follows(environ', env_list, i)
<1>1. /\ env_list \in Seq(NodeType) /\ Once(env_list) /\ environ \in [AllVars -> EnvValues]
      /\ fresh \subseteq Ids
    BY ListForm DEF EnvType, ListInv, EnvValues
<1>2. CASE i = env_id
    <2>1. UNCHANGED <<env_id, environ, fresh>>
        BY <1>2 DEF SwitchTo
    <2>2. i \in fresh => Follows(environ, env_list, i)
        BY <1>2 DEF EnvFollows, Follows
    <2> QED
        BY <1>1, <1>2, <2>1, <2>2
<1>3. CASE i # env_id
    <2>1. env_id' = i /\ environ' = renew_env_var(env_list, i) /\ fresh' = fresh \cup {i}
        BY <1>3 DEF SwitchTo
    <2> QED
        BY <1>1, <2>1, RenewFollows
<1> QED
    BY <1>2, <1>3

\* EnvFollows is what Follows says of the user served last.
LEMMA FollowsForm == EnvFollows <=>
    (env_id \in Present \cap fresh => Follows(environ, env_list, env_id))
BY DEF EnvFollows, Follows

EnvTypes == /\ env_id \in Ids \cup {0} /\ fresh \subseteq Ids
            /\ environ \in [AllVars -> EnvValues]

\* A login does not change the environment of the user served last: everybody who
\* is logged in has PATH in the list already.
LEMMA AcceptEnv ==
    ASSUME TableInv, EnvType, ListInv, EnvFollows, Accept
    PROVE  EnvTypes' /\ EnvFollows'
<1>1. min_id \in Ids /\ Present' = Present \cup {min_id}
    BY AcceptPresent
<1>2. /\ env_id' = env_id /\ fresh' = fresh \ {min_id}
      /\ env_list' = set_env(env_list, "PATH", "bin:.", min_id)
      /\ environ' = IF environ["PATH"] # "unset" THEN environ
                    ELSE [environ EXCEPT !["PATH"] = "bin:."]
    BY DEF Accept, setenv
<1>3. /\ env_list \in Seq(NodeType) /\ Once(env_list) /\ HasPath(env_list, Present)
      /\ \A k \in DOMAIN env_list : NodeSound(env_list[k], Present)
    BY ListForm DEF EnvType, ListInv, PathKept
<1>4. Present \in SUBSET Ids /\ "PATH" \in AllVars /\ "bin:." \in Values \cup {"bin:."}
    BY DEF Present, AllVars
<1>5. EnvTypes'
    BY <1>2, <1>4 DEF EnvTypes, EnvType, EnvValues
<1>6. SetFrame(env_list', env_list, "PATH", "bin:.", min_id)
    BY <1>1, <1>2, <1>3, <1>4, SetEnv
<1>7. ASSUME env_id \in Present, env_id \in fresh, env_id # min_id
      PROVE  Follows(environ', env_list', env_id)
    <2>1. Follows(environ, env_list, env_id)
        BY <1>7 DEF EnvFollows, Follows
    <2>2. PICK k \in DOMAIN env_list :
             /\ ~env_list[k].freed /\ env_list[k].env_name = "PATH"
             /\ env_list[k].env_value[env_id] # "null"
        BY <1>3, <1>7 DEF HasPath
    <2>3. environ["PATH"] = env_list[k].env_value[env_id]
        BY <2>1, <2>2 DEF Follows
    <2>4. env_list[k].env_value[env_id] # "unset"
        <3>1. Len(env_list) \in Nat /\ DOMAIN env_list = 1..Len(env_list)
            BY <1>3, LenProperties
        <3>2. env_list[k] \in NodeType
            BY <1>3, <3>1, ElementOfSeq
        <3>3. env_list[k].env_value[env_id] \in Values \cup {"null", "bin:."}
            BY <1>4, <1>7, <3>2 DEF NodeType
        <3> QED
            BY <3>3, ValuesAssumption
    <2>5. environ' = environ
        BY <1>2, <2>3, <2>4
    <2>6. Place(env_list, "PATH") # 0
        <3>1. Place(env_list, env_list[k].env_name) = k
            BY <1>3, <2>2, PlaceOnce
        <3>2. 0 \notin DOMAIN env_list
            BY <1>3, LenProperties
        <3> QED
            BY <2>2, <3>1, <3>2
    <2>7. \A m \in DOMAIN env_list' : m \in DOMAIN env_list
        BY <1>6, <2>6 DEF SetFrame
    <2>8. \A m \in DOMAIN env_list :
             /\ env_list'[m].freed = env_list[m].freed
             /\ env_list'[m].env_name = env_list[m].env_name
             /\ env_list'[m].env_value[env_id] = env_list[m].env_value[env_id]
        BY <1>4, <1>6, <1>7 DEF SetFrame
    <2> QED
        BY <2>1, <2>5, <2>7, <2>8 DEF Follows
<1>8. EnvFollows'
    <2>1. ASSUME env_id' \in Present', env_id' \in fresh' PROVE Follows(environ', env_list', env_id')
        BY <1>1, <1>2, <1>7, <2>1
    <2> QED
        BY <2>1 DEF EnvFollows, Follows
<1> QED
    BY <1>5, <1>8

\* setenv: the environment and the list are changed together.
LEMMA SettingEnv ==
    ASSUME TableInv, EnvType, ListInv, EnvFollows, NEW c \in Fds, NEW i \in Ids,
           Serves(c, i), NEW v \in Vars, NEW value \in Values, env_setting(c, i, v, value)
    PROVE  EnvTypes' /\ EnvFollows'
<1>1. /\ env_list \in Seq(NodeType) /\ Once(env_list) /\ environ \in [AllVars -> EnvValues]
      /\ fresh \subseteq Ids /\ i \in Present /\ v \in AllVars
      /\ \A k \in DOMAIN env_list : NodeSound(env_list[k], Present)
    BY ListForm DEF EnvType, ListInv, EnvValues, Serves, Present, AllVars
<1>2. PICK e \in [AllVars -> EnvValues] :
         /\ environ' = [e EXCEPT ![v] = value] /\ env_id' = i /\ fresh' \subseteq Ids
         /\ i \in fresh' => Follows(e, env_list, i)
    <2>1. CASE i = env_id
        <3>1. environ' = [environ EXCEPT ![v] = value] /\ env_id' = i /\ fresh' = fresh
            BY <2>1 DEF env_setting, setenv
        <3>2. i \in fresh => Follows(environ, env_list, i)
            BY <1>1, <2>1 DEF EnvFollows, Follows
        <3> QED
            BY <1>1, <3>1, <3>2
    <2>2. CASE i # env_id
        <3>1. /\ environ' = [renew_env_var(env_list, i) EXCEPT ![v] = value]
              /\ env_id' = i /\ fresh' = fresh \cup {i}
            BY <2>2 DEF env_setting
        <3>2. /\ renew_env_var(env_list, i) \in [AllVars -> EnvValues]
              /\ Follows(renew_env_var(env_list, i), env_list, i)
            BY <1>1, RenewFollows
        <3> QED
            BY <1>1, <3>1, <3>2
    <2> QED
        BY <2>1, <2>2
<1>3. EnvTypes'
    BY <1>1, <1>2 DEF EnvTypes, EnvValues
<1>4. SetFrame(env_list', env_list, v, value, i)
    <2>1. env_list' = set_env(env_list, v, value, i) /\ Present \in SUBSET Ids
        BY DEF env_setting, Present
    <2> QED
        BY <1>1, <2>1, SetEnv
<1>5. ASSUME i \in fresh' PROVE Follows(environ', env_list', i)
    <2>1. value # "null" /\ \A u \in AllVars \ {v} : environ'[u] = e[u]
        BY <1>2, ValuesAssumption
    <2>2. environ'[v] = value
        BY <1>1, <1>2
    <2>3. ASSUME NEW k \in DOMAIN env_list', ~env_list'[k].freed, env_list'[k].env_name = v
          PROVE  env_list'[k].env_value[i] = value
        BY <1>4, <2>3 DEF SetFrame
    <2>4. ASSUME NEW k \in DOMAIN env_list', ~env_list'[k].freed, env_list'[k].env_name # v
          PROVE  /\ k \in DOMAIN env_list /\ env_list'[k] = env_list[k]
                 /\ env_list[k].env_name \in AllVars \ {v}
        <3>1. k \in DOMAIN env_list /\ env_list'[k] = env_list[k] /\ env_list[k].env_name # v
            BY <1>4, <2>4 DEF SetFrame
        <3>2. Len(env_list) \in Nat /\ DOMAIN env_list = 1..Len(env_list)
            BY <1>1, LenProperties
        <3>3. env_list[k] \in NodeType
            BY <1>1, <3>1, <3>2, ElementOfSeq
        <3> QED
            BY <3>1, <3>3 DEF NodeType
    <2>5. ASSUME NEW k \in DOMAIN env_list', ~env_list'[k].freed
          PROVE  environ'[env_list'[k].env_name] =
                     IF env_list'[k].env_value[i] = "null" THEN "" ELSE env_list'[k].env_value[i]
        <3>1. CASE env_list'[k].env_name = v
            <4>1. env_list'[k].env_value[i] = value
                BY <2>3, <2>5, <3>1
            <4> QED
                BY <2>1, <2>2, <3>1, <4>1
        <3>2. CASE env_list'[k].env_name # v
            <4>1. /\ k \in DOMAIN env_list /\ env_list'[k] = env_list[k]
                  /\ env_list[k].env_name \in AllVars \ {v}
                BY <2>4, <2>5, <3>2
            <4>2. environ'[env_list[k].env_name] = e[env_list[k].env_name]
                BY <2>1, <4>1
            <4>3. e[env_list[k].env_name] =
                      IF env_list[k].env_value[i] = "null" THEN "" ELSE env_list[k].env_value[i]
                BY <1>2, <1>5, <2>5, <4>1 DEF Follows
            <4> QED
                BY <4>1, <4>2, <4>3
        <3> QED
            BY <3>1, <3>2
    <2> QED
        BY <2>5 DEF Follows
<1> QED
    BY <1>2, <1>3, <1>5 DEF EnvFollows, Follows

\* Every step leaves in the environment what the list says of the user served last.
LEMMA EnvNext ==
    TableInv /\ EnvType /\ ListInv /\ EnvFollows /\ [Next]_vars => EnvTypes' /\ EnvFollows'
<1> SUFFICES ASSUME TableInv, EnvType, ListInv, EnvFollows, [Next]_vars
             PROVE  EnvTypes' /\ EnvFollows'
    OBVIOUS
<1>1. ASSUME UNCHANGED <<env_id, environ, fresh, env_list, sockfd>>
      PROVE  EnvTypes' /\ EnvFollows'
    BY <1>1 DEF EnvTypes, EnvType, EnvValues, EnvFollows, Present
<1>2. CASE UNCHANGED vars
    BY <1>1, <1>2 DEF vars, env, table
<1>3. CASE Accept
    BY <1>3, AcceptEnv
<1>4. ASSUME NEW how \in {"dead", "stuck", "undefined"}, Stops(how)
      PROVE  EnvTypes' /\ EnvFollows'
    BY <1>1, <1>4 DEF Stops, env, table
<1>5. ASSUME NEW c \in Fds, NEW i \in Ids, Serves(c, i), UserStep(c, i)
      PROVE  EnvTypes' /\ EnvFollows'
    <2>1. i \in Present
        BY <1>5 DEF Serves, Present
    <2>2. ASSUME SwitchTo(i), UNCHANGED env_list
          PROVE  EnvTypes' /\ EnvFollows'
        BY <2>1, <2>2, SwitchFollows DEF EnvTypes, EnvFollows, Follows
    <2>3. CASE Talk(c, i)
        BY <2>2, <2>3 DEF Talk
    <2>4. CASE Leave(c, i)
        <3>1. SwitchTo(i) /\ sockfd' = [sockfd EXCEPT ![i] = 0]
            BY <2>4 DEF Leave
        <3>2. EnvTypes' /\ env_id' = i
            BY <2>1, <3>1, SwitchFollows DEF EnvTypes
        <3>3. i \notin Present'
            BY <3>1 DEF Present, TableInv, TableType
        <3> QED
            BY <3>2, <3>3 DEF EnvFollows
    <2>5. ASSUME NEW n \in Names, cmd_name(c, i, n) PROVE EnvTypes' /\ EnvFollows'
        BY <2>2, <2>5 DEF cmd_name
    <2>6. ASSUME NEW v \in Vars, NEW value \in Values, env_setting(c, i, v, value)
          PROVE  EnvTypes' /\ EnvFollows'
        BY <1>5, <2>6, SettingEnv
    <2>7. ASSUME NEW p \in PipeLines, PipeLine(c, i, p[1], p[2])
          PROVE  EnvTypes' /\ EnvFollows'
        BY <2>2, <2>7 DEF PipeLine
    <2> QED
        BY <1>5, <2>3, <2>4, <2>5, <2>6, <2>7 DEF UserStep
<1> QED
    BY <1>2, <1>3, <1>4, <1>5, Kinds

-----------------------------------------------------------------------------
(* The user pipes. *)

\* A login clears the row of the new user.
LEMMA AcceptPipes ==
    ASSUME TableInv, Accept
    PROVE  \A k, j \in Ids : user_pipe'[k][j] <=> k # min_id /\ user_pipe[k][j]
<1>1. user_pipe' = [user_pipe EXCEPT ![min_id] = [j \in Ids |-> FALSE]]
    BY AcceptPlace DEF update_client_infor
<1> QED
    BY <1>1 DEF TableInv, TableType

\* A line takes the pipe it reads and then makes the one it writes.
LEMMA LinePipes ==
    ASSUME TableType, NEW i \in Ids, NEW in, NEW out, i \in Present,
           user_pipe' = AfterWrite(AfterRead(i, in), i, out)
    PROVE  \A k, j \in Ids :
              user_pipe'[k][j] <=>
                 \/ user_pipe[k][j] /\ ~(k = i /\ j = in /\ in \in Present)
                 \/ k = out /\ j = i /\ out \in Present
<1>1. user_pipe \in [Ids -> [Ids -> BOOLEAN]] /\ Present \subseteq Ids
    BY DEF TableType, Present
<1> DEFINE mid == AfterRead(i, in)
<1>2. /\ mid \in [Ids -> [Ids -> BOOLEAN]]
      /\ \A k, j \in Ids :
            mid[k][j] <=> user_pipe[k][j] /\ ~(k = i /\ j = in /\ in \in Present)
    <2>1. CASE CanRead(i, in)
        BY <1>1, <2>1 DEF AfterRead, CanRead
    <2>2. CASE ~CanRead(i, in)
        BY <1>1, <2>2 DEF AfterRead, CanRead
    <2> QED
        BY <2>1, <2>2
<1>3. user_pipe' = AfterWrite(mid, i, out)
    OBVIOUS
<1> HIDE DEF mid
<1>4. CASE CanWrite(mid, i, out)
    <2>1. user_pipe' = [mid EXCEPT ![out][i] = TRUE] /\ out \in Present
        BY <1>3, <1>4 DEF AfterWrite, CanWrite
    <2>2. \A k, j \in Ids : user_pipe'[k][j] <=> mid[k][j] \/ (k = out /\ j = i)
        BY <1>1, <1>2, <2>1
    <2> QED
        BY <1>2, <2>1, <2>2
<1>5. CASE ~CanWrite(mid, i, out)
    <2>1. user_pipe' = mid /\ (out \in Present => mid[out][i])
        BY <1>3, <1>5 DEF AfterWrite, CanWrite
    <2>2. \A k, j \in Ids : k = out /\ j = i /\ out \in Present => mid[k][j]
        BY <2>1
    <2>3. \A k, j \in Ids :
             user_pipe'[k][j] <=> mid[k][j] \/ (k = out /\ j = i /\ out \in Present)
        BY <1>2, <2>1, <2>2
    <2> QED
        BY <1>2, <2>3
<1> QED
    BY <1>4, <1>5

\* Both ends of a pipe stay logged in.
LEMMA EndsNext == TableInv /\ EndsPresent /\ [Next]_vars => EndsPresent'
<1> SUFFICES ASSUME TableInv, EndsPresent, [Next]_vars PROVE EndsPresent'
    OBVIOUS
<1>1. ASSUME UNCHANGED <<sockfd, user_pipe>> PROVE EndsPresent'
    BY <1>1 DEF EndsPresent, Present
<1>2. CASE UNCHANGED vars
    BY <1>1, <1>2 DEF vars, table
<1>3. CASE Accept
    BY <1>3, AcceptPresent, AcceptPipes DEF EndsPresent
<1>4. ASSUME NEW how \in {"dead", "stuck", "undefined"}, Stops(how) PROVE EndsPresent'
    BY <1>1, <1>4 DEF Stops, table
<1>5. ASSUME NEW c \in Fds, NEW i \in Ids, Serves(c, i), UserStep(c, i) PROVE EndsPresent'
    <2>1. i \in Present
        BY <1>5 DEF Serves, Present
    <2>2. CASE Talk(c, i)
        BY <1>1, <2>2 DEF Talk, table
    <2>3. CASE Leave(c, i)
        <3>1. Present' = Present \ {i}
            BY <2>3 DEF Leave, Present, TableInv, TableType
        <3>2. \A k, j \in Ids : user_pipe'[k][j] => i \notin {j, k} /\ user_pipe[k][j]
            BY <2>3 DEF Leave, PipesAfter
        <3> QED
            BY <3>1, <3>2 DEF EndsPresent
    <2>4. ASSUME NEW n \in Names, cmd_name(c, i, n) PROVE EndsPresent'
        BY <1>1, <2>4 DEF cmd_name
    <2>5. ASSUME NEW v \in Vars, NEW value \in Values, env_setting(c, i, v, value)
          PROVE  EndsPresent'
        BY <1>1, <2>5 DEF env_setting, table
    <2>6. ASSUME NEW p \in PipeLines, PipeLine(c, i, p[1], p[2]) PROVE EndsPresent'
        <3>1. user_pipe' = AfterWrite(AfterRead(i, p[1]), i, p[2]) /\ Present' = Present
            BY <2>6 DEF PipeLine, Present
        <3>2. \A k, j \in Ids : user_pipe'[k][j] =>
                 user_pipe[k][j] \/ (k = p[2] /\ j = i /\ p[2] \in Present)
            BY <2>1, <3>1, LinePipes DEF TableInv
        <3> QED
            BY <2>1, <3>1, <3>2 DEF EndsPresent
    <2> QED
        BY <1>5, <2>2, <2>3, <2>4, <2>5, <2>6 DEF UserStep
<1> QED
    BY <1>2, <1>3, <1>4, <1>5, Kinds

-----------------------------------------------------------------------------
(* The invariants. *)

\* Initially nobody is logged in, and the list is empty or has a node for PATH
\* that is never counted.
LEMMA InvInit == Init => Inv
<1> SUFFICES ASSUME Init PROVE Inv
    OBVIOUS
<1>1. Present = {}
    BY DEF Init, Present
<1>2. TableInv
    <2>1. Used = {}
        BY DEF Init, Used
    <2>2. Cardinality({}) = 0
        BY FS_EmptySet
    <2>3. client_num = Cardinality(Used)
        BY <2>1, <2>2 DEF Init
    <2>4. TableType
        <3>1. 1 \in Ids /\ 0 \in 0..max_client_num
            BY PlacesAssumption DEF Ids
        <3> QED
            BY <3>1 DEF Init, TableType
    <2>5. \A i \in Ids : i < min_id => i \in Present
        <3>1. min_id = 1
            BY DEF Init
        <3> QED
            BY <3>1, IdsNat
    <2> QED
        BY <1>1, <2>3, <2>4, <2>5 DEF TableInv, TableSound, Used
<1>3. /\ env_list \in Seq(NodeType) /\ Once(env_list)
      /\ \A k \in DOMAIN env_list : NodeSound(env_list[k], Present)
    <2> DEFINE n == Node("PATH", -1, NoValue)
    <2>1. n \in NodeType
        BY DEF Node, NoValue, NodeType, AllVars
    <2>2. n.user_num = -1 /\ SetBy(n) = {}
        BY DEF Node, NoValue, SetBy
    <2>3. NodeSound(n, Present)
        BY <2>2 DEF NodeSound
    <2> HIDE DEF n
    <2>4. CASE env_list = <<n>>
        <3>1. <<n>> \in Seq(NodeType) /\ DOMAIN <<n>> = {1} /\ <<n>>[1] = n
            BY <2>1
        <3> QED
            BY <2>3, <2>4, <3>1 DEF Once
    <2>5. CASE env_list = <<>>
        <3>1. <<>> \in Seq(NodeType) /\ DOMAIN <<>> = {}
            OBVIOUS
        <3> QED
            BY <2>5, <3>1 DEF Once
    <2> QED
        BY <2>4, <2>5 DEF Init, initial_env_var, n
<1>4. ListInv
    BY <1>1, <1>3, ListForm DEF ListInv, PathKept, HasPath
<1>5. EnvType
    BY <1>3 DEF Init, EnvType
<1>6. EnvFollows /\ EndsPresent
    BY <1>1 DEF EnvFollows, EndsPresent, Init
<1> QED
    BY <1>2, <1>4, <1>5, <1>6 DEF Inv

\* The inductive invariant of the server.
THEOREM ServerInvariant == Spec => []Inv
<1>1. Init => Inv
    BY InvInit
<1>2. Inv /\ [Next]_vars => Inv'
    BY TableNext, ListNext, EnvNext, EndsNext DEF Inv, EnvType, EnvTypes, EnvValues
<1> QED
    BY <1>1, <1>2, PTL DEF Spec

\* The type invariant of the server holds at every step.
THEOREM TypeCorrect == Spec => []TypeOK
<1>1. Inv => TypeOK
    <2> SUFFICES ASSUME Inv PROVE TypeOK
        OBVIOUS
    <2>1. \A k \in DOMAIN env_list : env_list[k] \in NodeType
        <3>1. env_list \in Seq(NodeType)
            BY DEF Inv, EnvType
        <3>2. DOMAIN env_list = 1..Len(env_list)
            BY <3>1, LenProperties
        <3> QED
            BY <3>1, <3>2, ElementOfSeq
    <2> QED
        BY <2>1 DEF Inv, TableInv, TableType, EnvType, NodeType, TypeOK
<1> QED
    BY <1>1, ServerInvariant, PTL

\* Whatever the order of logins and logouts, and although two users may share an
\* id in a full table, connections are counted exactly, no unused id lies below
\* min_id, and names are unique. (main, update_client_infor, cmd_name)
THEOREM TableStaysSound == Spec => []TableSound
<1>1. Inv => TableSound
    BY DEF Inv, TableInv
<1> QED
    BY <1>1, ServerInvariant, PTL

\* A variable is in the list once, counted by the users that have set it, and all
\* of these are logged in. (set_env, delete_env_var)
THEOREM ListStaysSound == Spec => []ListSound
<1>1. Inv => ListSound
    BY DEF Inv, ListInv
<1> QED
    BY <1>1, ServerInvariant, PTL

\* The environment of the process has the values of the user it was last put in
\* for, and of the variables in the list nobody else's. (renew_env_var, set_env)
THEOREM EnvironmentFollows == Spec => []EnvFollows
<1>1. Inv => EnvFollows
    BY DEF Inv
<1> QED
    BY <1>1, ServerInvariant, PTL

-----------------------------------------------------------------------------
(* The rows of user_pipe implement user pipes. *)

\* The pipes of UserPipes.
Pipes == {p \in Ids \X Ids : user_pipe[p[2]][p[1]]}

\* What the table has, as a set of pairs.
LEMMA PipesForm ==
    ASSUME NEW S,
           \A k, j \in Ids : user_pipe'[k][j] <=> <<j, k>> \in S
    PROVE  Pipes' = S \cap (Ids \X Ids)
<1>1. \A p \in Ids \X Ids : p = <<p[1], p[2]>> /\ p[1] \in Ids /\ p[2] \in Ids
    OBVIOUS
<1>2. \A p \in Ids \X Ids : p \in Pipes' <=> p \in S
    BY <1>1 DEF Pipes
<1> QED
    BY <1>2 DEF Pipes

\* A line of the server is a line of UserPipes; an id that is no user's is as
\* good as none.
LEMMA LineStep ==
    ASSUME TableInv, EndsPresent, NEW i \in Ids, i \in Present, NEW in, NEW out,
           print_user_pipe_msg_handler(i, in, out), UNCHANGED sockfd,
           user_pipe' = AfterWrite(AfterRead(i, in), i, out)
    PROVE  \E a, b \in Ids \cup {0} : UP!Line(i, a, b)
<1>1. Present \subseteq Ids /\ 0 \notin Ids /\ Present' = Present
    BY IdsNat DEF Present
<1>2. PICK a \in Ids \cup {0}, b \in Ids \cup {0} :
         /\ a = IF in \in Present THEN in ELSE 0
         /\ b = IF out \in Present THEN out ELSE 0
    BY <1>1
<1> DEFINE read == {<<a, i>>} \cap Pipes
           made == {<<i, b>> : n \in {b} \cap Present} \ (Pipes \ read)
<1>3. \A j, k \in Ids : <<j, k>> \in Pipes <=> user_pipe[k][j]
    BY DEF Pipes
<1>4. \A k, j \in Ids :
         user_pipe'[k][j] <=>
             \/ user_pipe[k][j] /\ ~(k = i /\ j = in /\ in \in Present)
             \/ k = out /\ j = i /\ out \in Present
    BY LinePipes DEF TableInv
<1>5. Pipes' = (Pipes \ read) \cup made
    <2> DEFINE S == (Pipes \ read) \cup made
    <2>1. ASSUME NEW k \in Ids, NEW j \in Ids PROVE user_pipe'[k][j] <=> <<j, k>> \in S
        <3>1. <<j, k>> \in read <=> user_pipe[k][j] /\ k = i /\ j = in /\ in \in Present
            BY <1>1, <1>2, <1>3
        <3>2. <<j, k>> \in made <=>
                 /\ k = out /\ j = i /\ out \in Present
                 /\ ~(user_pipe[k][j] /\ <<j, k>> \notin read)
            BY <1>1, <1>2, <1>3
        <3> HIDE DEF read, made
        <3> QED
            BY <1>3, <1>4, <3>1, <3>2
    <2>2. S \subseteq Ids \X Ids
        BY <1>1 DEF Pipes
    <2> HIDE DEF S
    <2>3. Pipes' = S \cap (Ids \X Ids)
        BY <2>1, PipesForm
    <2> QED
        BY <2>2, <2>3 DEF S
<1>6. said' = [received |-> read, piped |-> made \ read]
    <2>1. said' = [received |-> {<<in, i>> : n \in {x \in {in} : CanRead(i, x)}},
                   piped |-> {<<i, out>> : n \in {x \in {out} : CanWrite(user_pipe, i, x)}}]
        BY DEF print_user_pipe_msg_handler
    <2>2. {<<in, i>> : n \in {x \in {in} : CanRead(i, x)}} = read
        <3>1. CASE in \in Present
            BY <1>1, <1>2, <1>3, <3>1 DEF CanRead
        <3>2. CASE in \notin Present
            <4>1. <<0, i>> \notin Pipes
                BY <1>1 DEF Pipes
            <4> QED
                BY <1>2, <3>2, <4>1 DEF CanRead
        <3> QED
            BY <3>1, <3>2
    <2>3. {<<i, out>> : n \in {x \in {out} : CanWrite(user_pipe, i, x)}} = made \ read
        BY <1>1, <1>2, <1>3 DEF CanWrite
    <2> QED
        BY <2>1, <2>2, <2>3
<1>7. UP!Line(i, a, b)
    BY <1>1, <1>5, <1>6 DEF UP!Line, Pipes
<1> QED
    BY <1>7

\* Every step of the server is a step of UserPipes, or changes nothing of it.
LEMMA PipesNext == Inv /\ [Next]_vars => [UP!Next]_(UP!vars)
<1> SUFFICES ASSUME Inv, [Next]_vars PROVE [UP!Next]_(UP!vars)
    OBVIOUS
<1>1. TableInv /\ EndsPresent
    BY DEF Inv
<1>2. ASSUME UNCHANGED <<sockfd, user_pipe>>, said' = Nothing PROVE UP!Next
    BY <1>2 DEF UP!Next, UP!Idle, UP!Nothing, Nothing, Present
<1>3. CASE UNCHANGED vars
    BY <1>3 DEF vars, table, UP!vars, Present
<1>4. CASE Accept
    <2>1. min_id \in Ids /\ Present' = Present \cup {min_id} /\ said' = Nothing
        BY <1>1, <1>4, AcceptPresent DEF Accept
    <2>2. Pipes' = {p \in Pipes : p[2] # min_id}
        <3>1. \A k, j \in Ids : user_pipe'[k][j] <=> k # min_id /\ user_pipe[k][j]
            BY <1>1, <1>4, AcceptPipes
        <3> QED
            BY <3>1 DEF Pipes
    <2>3. PICK i \in Ids : i = min_id
        BY <2>1
    <2>4. UP!Login(i)
        BY <2>1, <2>2, <2>3 DEF UP!Login, UP!Nothing, Nothing, Pipes
    <2> QED
        BY <2>4 DEF UP!Next
<1>5. ASSUME NEW how \in {"dead", "stuck", "undefined"}, Stops(how) PROVE UP!Next
    BY <1>2, <1>5 DEF Stops, table
<1>6. ASSUME NEW c \in Fds, NEW i \in Ids, Serves(c, i), UserStep(c, i) PROVE UP!Next
    <2>1. i \in Present
        BY <1>6 DEF Serves, Present
    <2>2. CASE Talk(c, i)
        BY <1>2, <2>2 DEF Talk, table
    <2>3. CASE Leave(c, i)
        <3>1. Present' = Present \ {i} /\ said' = Nothing
            BY <1>1, <2>3 DEF Leave, Present, TableInv, TableType
        <3>2. Pipes' = {p \in Pipes : i \notin {p[1], p[2]}}
            <4>1. \A k, j \in Ids : user_pipe'[k][j] <=> i \notin {j, k} /\ user_pipe[k][j]
                BY <1>1, <2>3 DEF Leave, PipesAfter, TableInv, TableType
            <4> QED
                BY <4>1 DEF Pipes
        <3>3. UP!Leave(i)
            BY <3>1, <3>2 DEF UP!Leave, UP!Nothing, Nothing, Pipes
        <3> QED
            BY <3>3 DEF UP!Next
    <2>4. ASSUME NEW n \in Names, cmd_name(c, i, n) PROVE UP!Next
        BY <1>2, <2>4 DEF cmd_name
    <2>5. ASSUME NEW v \in Vars, NEW value \in Values, env_setting(c, i, v, value)
          PROVE  UP!Next
        BY <1>2, <2>5 DEF env_setting, table
    <2>6. ASSUME NEW p \in PipeLines, PipeLine(c, i, p[1], p[2]) PROVE UP!Next
        <3>1. \E a, b \in Ids \cup {0} : UP!Line(i, a, b)
            BY <1>1, <2>1, <2>6, LineStep DEF PipeLine
        <3> QED
            BY <2>1, <3>1 DEF UP!Next
    <2> QED
        BY <1>6, <2>2, <2>3, <2>4, <2>5, <2>6 DEF UserStep
<1> QED
    BY <1>3, <1>4, <1>5, <1>6, Kinds

\* The server implements UserPipes: no pipe is replaced, none is read twice or by
\* another user, none outlives either of its users, and exactly what happens is
\* announced. (single_cmd, ordinary_pipe, update_client_infor, delete_client_infor)
THEOREM PipesRefined == Spec => PipesKept
<1>1. Init => UP!Init
    <2> SUFFICES ASSUME Init PROVE UP!Init
        OBVIOUS
    <2>1. \A i \in Ids : sockfd[i] = 0 /\ \A j \in Ids : ~user_pipe[i][j]
        BY DEF Init
    <2>2. Present = {}
        BY <2>1 DEF Present
    <2>3. {p \in Ids \X Ids : user_pipe[p[2]][p[1]]} = {}
        BY <2>1
    <2>4. said = Nothing
        BY DEF Init
    <2> QED
        BY <2>2, <2>3, <2>4 DEF UP!Init, UP!Nothing, Nothing
<1>2. Inv /\ [Next]_vars => [UP!Next]_(UP!vars)
    BY PipesNext
<1> QED
    BY <1>1, <1>2, ServerInvariant, PTL DEF Spec, PipesKept, UP!Spec
=============================================================================
