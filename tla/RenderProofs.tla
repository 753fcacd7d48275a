---------------------------- MODULE RenderProofs ----------------------------
(***************************************************************************)
(* Proofs about the files of a topology: the strict parser accepts what is *)
(* rendered from a topology that validate accepts, and reads back the keys *)
(* and the networks that went into it.                                     *)
(***************************************************************************)
EXTENDS Render, FiniteSetTheorems, SequenceTheorems, WellFoundedInduction, TLAPS

(***************************************************************************)
(* Induction over the numbers in a set, from the well-founded order.       *)
(***************************************************************************)
\* A set of numbers that is not empty has a least one.
LEMMA Least ==
  ASSUME NEW T \in SUBSET Nat, T # {}
  PROVE  \E x \in T : \A y \in T : x <= y
<1>1. OpToRel(<, Nat) = {ss \in Nat \X Nat : ss[1] < ss[2]}
  BY Zenon DEF OpToRel
<1>2. IsWellFoundedOn({ss \in Nat \X Nat : ss[1] < ss[2]}, Nat)
  BY <1>1, NatLessThanWellFounded
<1>3. \E x \in T : \A y \in T : ~(<<y, x>> \in {ss \in Nat \X Nat : ss[1] < ss[2]})
  BY <1>2, WFMin
<1>4. PICK x \in T : \A y \in T : ~(<<y, x>> \in {ss \in Nat \X Nat : ss[1] < ss[2]})
  BY <1>3
<1>5. \A y \in T : ~(y < x)
  BY <1>4
<1> QED BY <1>5

\* A set of numbers that has zero and every successor has them all.
LEMMA Induction ==
  ASSUME NEW T \in SUBSET Nat, 0 \in T, \A n \in T : n + 1 \in T
  PROVE  T = Nat
<1> SUFFICES ASSUME Nat \ T # {} PROVE FALSE
  OBVIOUS
<1>1. PICK x \in Nat \ T : \A y \in Nat \ T : x <= y
  BY Least
<1>2. x # 0 /\ x - 1 \in Nat /\ x - 1 \notin Nat \ T
  BY <1>1
<1> QED BY <1>1, <1>2

Recurs(f, n, V, first, step) ==
  /\ f \in [0 .. n -> V]
  /\ f = [i \in 0 .. n |-> IF i = 0 THEN first ELSE step[<<f[i - 1], i>>]]

\* A function that is defined by recursion over 0 .. n exists: its values up to
\* m + 1 are those up to m and the step from the last of them.
LEMMA Recursion ==
  ASSUME NEW n \in Nat, NEW V, NEW first \in V, NEW step \in [V \X (1 .. n) -> V]
  PROVE  \E f : Recurs(f, n, V, first, step)
<1> DEFINE Runs(f, m) == /\ f \in [0 .. m -> V] /\ f[0] = first
                         /\ \A i \in 1 .. m : f[i] = step[<<f[i - 1], i>>]
           T == {m \in Nat : m <= n => \E f : Runs(f, m)}
<1>1. 0 \in T
  <2>1. Runs([i \in 0 .. 0 |-> first], 0)
    OBVIOUS
  <2> QED BY <2>1
<1>2. ASSUME NEW m \in T PROVE m + 1 \in T
  <2> SUFFICES ASSUME m + 1 <= n PROVE \E f : Runs(f, m + 1)
    OBVIOUS
  <2>1. m \in Nat /\ m + 1 \in 1 .. n
    OBVIOUS
  <2>2. PICK f : Runs(f, m)
    BY <2>1
  <2> DEFINE g == [i \in 0 .. m + 1 |-> IF i <= m THEN f[i] ELSE step[<<f[m], m + 1>>]]
  <2>3. f[m] \in V /\ step[<<f[m], m + 1>>] \in V
    BY <2>1, <2>2
  <2>4. g \in [0 .. m + 1 -> V] /\ g[0] = first
    BY <2>1, <2>2, <2>3
  <2>5. ASSUME NEW i \in 1 .. m + 1 PROVE g[i] = step[<<g[i - 1], i>>]
    <3>1. CASE i <= m
      <4>1. i \in 1 .. m /\ i \in 0 .. m + 1 /\ i - 1 \in 0 .. m + 1 /\ i - 1 <= m
        BY <2>1, <3>1
      <4>2. g[i] = f[i] /\ g[i - 1] = f[i - 1]
        BY <3>1, <4>1
      <4> QED BY <2>2, <4>1, <4>2
    <3>2. CASE i = m + 1
      <4>1. g[m + 1] = step[<<f[m], m + 1>>] /\ g[m] = f[m] /\ i - 1 = m
        BY <2>1, <3>2
      <4> QED BY <3>2, <4>1
    <3> QED BY <2>1, <3>1, <3>2
  <2> HIDE DEF g
  <2>6. Runs(g, m + 1)
    BY <2>4, <2>5
  <2> QED BY <2>6
<1>3. n \in T
  <2>1. T \in SUBSET Nat
    OBVIOUS
  <2> HIDE DEF T
  <2> QED BY <1>1, <1>2, <2>1, Induction
<1>4. PICK f : Runs(f, n)
  BY <1>3
<1>5. f = [i \in 0 .. n |-> IF i = 0 THEN first ELSE step[<<f[i - 1], i>>]]
  <2> DEFINE g == [i \in 0 .. n |-> IF i = 0 THEN first ELSE step[<<f[i - 1], i>>]]
  <2>1. DOMAIN f = 0 .. n /\ DOMAIN g = 0 .. n
    BY <1>4
  <2>2. \A i \in 0 .. n : i = 0 \/ i \in 1 .. n
    OBVIOUS
  <2>3. \A i \in 0 .. n : g[i] = f[i]
    BY <1>4, <2>2
  <2>4. f = [i \in 0 .. n |-> f[i]] /\ g = [i \in 0 .. n |-> g[i]]
    BY <1>4
  <2> HIDE DEF g
  <2>5. f = g
    BY <2>3, <2>4, Zenon
  <2> QED BY <2>5 DEF g
<1> QED BY <1>4, <1>5 DEF Recurs

\* A function that obeys such a recursion has its values in V.
LEMMA RecursionType ==
  ASSUME NEW n \in Nat, NEW V, NEW g, DOMAIN g = 0 .. n, g = [i \in DOMAIN g |-> g[i]], g[0] \in V,
         \A i \in 1 .. n : g[i - 1] \in V => g[i] \in V
  PROVE  g \in [0 .. n -> V]
<1> DEFINE T == {m \in Nat : m <= n => g[m] \in V}
<1>1. 0 \in T
  OBVIOUS
<1>2. ASSUME NEW m \in T PROVE m + 1 \in T
  <2> SUFFICES ASSUME m + 1 <= n PROVE g[m + 1] \in V
    OBVIOUS
  <2>1. g[m] \in V /\ m + 1 \in 1 .. n /\ (m + 1) - 1 = m
    OBVIOUS
  <2> QED BY <2>1
<1>3. T = Nat
  <2>1. T \in SUBSET Nat
    OBVIOUS
  <2> HIDE DEF T
  <2> QED BY <1>1, <1>2, <2>1, Induction
<1>4. \A i \in 0 .. n : g[i] \in V
  BY <1>3
<1> QED BY <1>4

(***************************************************************************)
(* Sorting.                                                                *)
(***************************************************************************)
Sorts(p, n, R) ==
  /\ p \in [1 .. n -> 1 .. n]
  /\ \A i, j \in 1 .. n : i # j => p[i] # p[j]
  /\ \A i, j \in 1 .. n : i < j => <<p[j], p[i]>> \notin R

StrictOrder(n, R) ==
  /\ \A i \in 1 .. n : <<i, i>> \notin R
  /\ \A i, j, k \in 1 .. n : <<i, j>> \in R /\ <<j, k>> \in R => <<i, k>> \in R

\* One more index goes before the first that it precedes.
LEMMA Insertion ==
  ASSUME NEW n \in Nat, NEW R, StrictOrder(n + 1, R), NEW p, Sorts(p, n, R)
  PROVE  \E q : Sorts(q, n + 1, R)
<1> DEFINE T == {i \in 1 .. n + 1 : i = n + 1 \/ <<n + 1, p[i]>> \in R}
<1>0. T \in SUBSET Nat /\ n + 1 \in T
  OBVIOUS
<1>1. PICK k \in T : \A y \in T : k <= y
  BY <1>0, Least
<1>2. /\ k \in 1 .. n + 1 /\ (k # n + 1 => <<n + 1, p[k]>> \in R)
      /\ \A i \in 1 .. n : i < k => <<n + 1, p[i]>> \notin R
  BY <1>1
<1> HIDE DEF T
<1> DEFINE q == [i \in 1 .. n + 1 |-> IF i < k THEN p[i]
                                      ELSE IF i = k THEN n + 1 ELSE p[i - 1]]
<1>3. /\ \A i \in 1 .. n + 1 : i < k => q[i] = p[i] /\ i \in 1 .. n
      /\ q[k] = n + 1
      /\ \A i \in 1 .. n + 1 : i > k => q[i] = p[i - 1] /\ i - 1 \in 1 .. n
  BY <1>2
<1>4. /\ \A i \in 1 .. n : p[i] \in 1 .. n
      /\ \A i, j \in 1 .. n : i # j => p[i] # p[j]
      /\ \A i, j \in 1 .. n : i < j => <<p[j], p[i]>> \notin R
  BY DEF Sorts
<1>5. q \in [1 .. n + 1 -> 1 .. n + 1]
  BY <1>2, <1>3, <1>4
<1> HIDE DEF q
<1>6. ASSUME NEW i \in 1 .. n + 1, NEW j \in 1 .. n + 1, i < j
      PROVE  q[i] # q[j] /\ <<q[j], q[i]>> \notin R
  <2>1. CASE j < k
    <3>1. i < k /\ i \in 1 .. n /\ j \in 1 .. n /\ q[i] = p[i] /\ q[j] = p[j]
      BY <1>2, <1>3, <1>6, <2>1
    <3> QED BY <1>4, <1>6, <3>1
  <2>2. CASE j = k
    BY <1>2, <1>3, <1>4, <1>6, <2>2
  <2>3. CASE i < k /\ k < j
    BY <1>2, <1>3, <1>4, <1>6, <2>3
  <2>4. CASE i = k
    <3>1. /\ q[i] = n + 1 /\ q[j] = p[j - 1] /\ j - 1 \in 1 .. n /\ k \in 1 .. n
          /\ <<n + 1, p[k]>> \in R /\ k <= j - 1
      BY <1>2, <1>3, <1>6, <2>4
    <3>2. q[j] # q[i]
      BY <3>1, <1>4
    <3>3. ASSUME <<p[j - 1], n + 1>> \in R PROVE FALSE
      <4>1. p[j - 1] \in 1 .. n + 1 /\ p[k] \in 1 .. n + 1 /\ n + 1 \in 1 .. n + 1
        BY <1>4, <3>1
      <4>2. <<p[j - 1], p[k]>> \in R
        BY <3>1, <3>3, <4>1 DEF StrictOrder
      <4>3. CASE k = j - 1
        BY <4>1, <4>2, <4>3 DEF StrictOrder
      <4>4. CASE k < j - 1
        BY <1>4, <3>1, <4>2, <4>4
      <4> QED BY <3>1, <4>3, <4>4
    <3> QED BY <3>1, <3>2, <3>3
  <2>5. CASE i > k
    <3>1. /\ j > k /\ i - 1 \in 1 .. n /\ j - 1 \in 1 .. n /\ i - 1 < j - 1
          /\ q[i] = p[i - 1] /\ q[j] = p[j - 1]
      BY <1>2, <1>3, <1>6, <2>5
    <3> QED BY <1>4, <3>1
  <2> QED BY <1>2, <1>6, <2>1, <2>2, <2>3, <2>4, <2>5
<1>7. \A i, j \in 1 .. n + 1 : i # j => i < j \/ j < i
  OBVIOUS
<1>8. Sorts(q, n + 1, R)
  BY <1>5, <1>6, <1>7 DEF Sorts
<1> QED BY <1>8

\* Every strict order of a sequence's indices has a sorted enumeration.
LEMMA Sortable ==
  ASSUME NEW n \in Nat, NEW R, StrictOrder(n, R)
  PROVE  \E p : Sorts(p, n, R)
<1> DEFINE T == {m \in Nat : m <= n => \E p : Sorts(p, m, R)}
<1>1. 0 \in T
  <2>1. Sorts([i \in 1 .. 0 |-> i], 0, R)
    BY DEF Sorts
  <2> QED BY <2>1
<1>2. ASSUME NEW m \in T PROVE m + 1 \in T
  <2> SUFFICES ASSUME m + 1 <= n PROVE \E p : Sorts(p, m + 1, R)
    BY <1>2
  <2>1. StrictOrder(m + 1, R)
    BY DEF StrictOrder
  <2>2. PICK p : Sorts(p, m, R)
    BY <1>2
  <2> QED BY <2>1, <2>2, Insertion
<1>3. T = Nat
  BY <1>1, <1>2, Induction
<1> QED BY <1>3

IsAscending(s, S) ==
  /\ s \in [1 .. Cardinality(S) -> S]
  /\ \A i, j \in 1 .. Cardinality(S) : i < j => s[i] < s[j]

\* A finite set of numbers can be written in order.
LEMMA AscendingExists ==
  ASSUME NEW S \in SUBSET Nat, IsFiniteSet(S)
  PROVE  IsAscending(Ascending(S), S)
<1> DEFINE n == Cardinality(S)
<1>1. n \in Nat /\ ExistsBijection(1 .. n, S)
  BY FS_CardinalityType
<1>2. PICK f \in [1 .. n -> S] : \A i, j \in 1 .. n : i # j => f[i] # f[j]
  <2>1. PICK f : f \in Bijection(1 .. n, S)
    BY <1>1 DEF ExistsBijection
  <2>2. f \in [1 .. n -> S] /\ \A i, j \in 1 .. n : f[i] = f[j] => i = j
    BY <2>1 DEF Bijection, Injection, IsInjective
  <2> QED BY <2>2
<1> DEFINE R == {ss \in (1 .. n) \X (1 .. n) : f[ss[1]] < f[ss[2]]}
<1> HIDE DEF n
<1>3. \A i, j \in 1 .. n : <<i, j>> \in R <=> f[i] < f[j]
  OBVIOUS
<1>4. \A i \in 1 .. n : f[i] \in Nat
  BY <1>2
<1> HIDE DEF R
<1>5. StrictOrder(n, R)
  BY <1>3, <1>4 DEF StrictOrder
<1>6. PICK p : Sorts(p, n, R)
  BY <1>1, <1>5, Sortable
<1> DEFINE s == [i \in 1 .. n |-> f[p[i]]]
<1>7. s \in [1 .. n -> S] /\ DOMAIN s = 1 .. n
  BY <1>2, <1>6 DEF Sorts
<1>8. ASSUME NEW i \in 1 .. n, NEW j \in 1 .. n, i < j PROVE s[i] < s[j]
  <2>1. /\ p[i] \in 1 .. n /\ p[j] \in 1 .. n /\ p[i] # p[j]
        /\ <<p[j], p[i]>> \notin R
    BY <1>6, <1>8 DEF Sorts
  <2>2. /\ s[i] = f[p[i]] /\ s[j] = f[p[j]]
    OBVIOUS
  <2> HIDE DEF s
  <2> QED BY <1>2, <1>3, <1>4, <2>1, <2>2
<1> HIDE DEF s
<1>9. \E t \in [1 .. n -> S] : \A i, j \in DOMAIN t : i < j => t[i] < t[j]
  BY <1>7, <1>8
<1>10. /\ Ascending(S) \in [1 .. n -> S]
       /\ \A i, j \in DOMAIN Ascending(S) : i < j => Ascending(S)[i] < Ascending(S)[j]
  BY <1>9 DEF Ascending, n
<1> QED BY <1>10 DEF IsAscending, n

\* The order is of all the members, each once.
LEMMA AscendingMembers ==
  ASSUME NEW S \in SUBSET Nat, IsFiniteSet(S)
  PROVE  /\ Cardinality(S) \in Nat
         /\ Ascending(S) \in [1 .. Cardinality(S) -> S]
         /\ \A i, j \in 1 .. Cardinality(S) : i # j => Ascending(S)[i] # Ascending(S)[j]
         /\ \A x \in S : \E i \in 1 .. Cardinality(S) : Ascending(S)[i] = x
<1> DEFINE n == Cardinality(S)
           s == Ascending(S)
<1>1. n \in Nat
  BY FS_CardinalityType
<1>2. s \in [1 .. n -> S] /\ \A i, j \in 1 .. n : i < j => s[i] < s[j]
  BY AscendingExists DEF IsAscending
<1> HIDE DEF n, s
<1>3. \A i, j \in 1 .. n : i # j => s[i] # s[j]
  <2>1. \A i \in 1 .. n : s[i] \in Nat
    BY <1>2
  <2>2. \A i, j \in 1 .. n : i # j => i < j \/ j < i
    BY <1>1
  <2> QED BY <1>2, <2>1, <2>2
<1>4. s \in Injection(1 .. n, S)
  BY <1>2, <1>3 DEF Injection, IsInjective
<1>5. IsFiniteSet(1 .. n) /\ Cardinality(1 .. n) = n
  BY <1>1, FS_Interval
<1>6. s \in Surjection(1 .. n, S)
  BY <1>4, <1>5, FS_Injection DEF n
<1>7. \A x \in S : \E i \in 1 .. n : s[i] = x
  BY <1>6 DEF Surjection
<1> QED BY <1>1, <1>2, <1>3, <1>7 DEF n, s

\* q lists the members of a set, each once.
Enumerates(q, n, S) ==
  /\ n \in Nat /\ q \in [1 .. n -> S]
  /\ \A i, j \in 1 .. n : i # j => q[i] # q[j]
  /\ \A x \in S : \E i \in 1 .. n : q[i] = x

Selects(at, m, file, name) ==
  /\ Enumerates(at, m, {i \in DOMAIN file : file[i].name = name})
  /\ Sections(file, name) = [k \in 1 .. m |-> file[at[k]]]

\* A file's sections of one name are those sections, each once.
LEMMA SectionsOf ==
  ASSUME NEW file, NEW n \in Nat, DOMAIN file = 1 .. n, NEW name
  PROVE  \E at, m : Selects(at, m, file, name)
<1> DEFINE S == {i \in DOMAIN file : file[i].name = name}
<1>1. S \in SUBSET Nat /\ S \subseteq 1 .. n
  OBVIOUS
<1>2. IsFiniteSet(S)
  BY <1>1, FS_Interval, FS_Subset
<1>3. Sections(file, name) = [k \in DOMAIN Ascending(S) |-> file[Ascending(S)[k]]]
  BY DEF Sections
<1> HIDE DEF S
<1>4. /\ Cardinality(S) \in Nat
      /\ Ascending(S) \in [1 .. Cardinality(S) -> S]
      /\ \A i, j \in 1 .. Cardinality(S) : i # j => Ascending(S)[i] # Ascending(S)[j]
      /\ \A x \in S : \E i \in 1 .. Cardinality(S) : Ascending(S)[i] = x
  BY <1>1, <1>2, AscendingMembers
<1>5. Sections(file, name) = [k \in 1 .. Cardinality(S) |-> file[Ascending(S)[k]]]
  BY <1>3, <1>4
<1>6. Selects(Ascending(S), Cardinality(S), file, name)
  BY <1>4, <1>5 DEF Selects, Enumerates, S
<1> QED BY <1>6

-----------------------------------------------------------------------------
(***************************************************************************)
(* Networks.                                                               *)
(***************************************************************************)
\* A power of two, as the number of subsets of a finite set.
LEMMA PowerOfTwo == ASSUME NEW k \in Nat PROVE 2^k \in Nat \ {0}
<1>1. IsFiniteSet(1 .. k) /\ Cardinality(1 .. k) = k
  BY FS_Interval
<1>2. IsFiniteSet(SUBSET (1 .. k)) /\ Cardinality(SUBSET (1 .. k)) = 2^k
  BY <1>1, FS_SUBSET
<1>3. {} \in SUBSET (1 .. k)
  OBVIOUS
<1>4. Cardinality(SUBSET (1 .. k)) \in Nat /\ Cardinality(SUBSET (1 .. k)) # 0
  BY <1>2, <1>3, FS_CardinalityType, FS_EmptySet
<1> QED BY <1>2, <1>4

\* The ends of a network are numbers around its address.
LEMMA RangeType ==
  ASSUME NEW n \in Ipv4Net
  PROVE  /\ Network(n) \in Nat /\ Broadcast(n) \in Nat
         /\ Network(n) <= n.addr /\ n.addr <= Broadcast(n)
<1>1. /\ n.addr \in Nat /\ Width - n.len \in Nat
  <2>1. 2^Width \in Nat
    BY PowerOfTwo, WidthAssumption
  <2> QED BY <2>1, WidthAssumption DEF Ipv4Net, Addresses
<1>2. 2^(Width - n.len) \in Nat \ {0}
  BY <1>1, PowerOfTwo
<1>3. \A a \in Nat, p \in Nat \ {0} :
        /\ a - (a % p) \in Nat
        /\ a - (a % p) + p - 1 \in Nat
        /\ a - (a % p) <= a
        /\ a <= a - (a % p) + p - 1
  OBVIOUS
<1> QED BY <1>1, <1>2, <1>3 DEF Network, Broadcast

\* nets_overlap misses no pair of networks with an address in common.
LEMMA OverlapComplete ==
  ASSUME NEW a \in Ipv4Net, NEW b \in Ipv4Net, NEW x \in Nat,
         Within(x, net_range(a)), Within(x, net_range(b))
  PROVE  nets_overlap(a, b)
BY RangeType DEF nets_overlap, ranges_overlap, net_range, Within

\* The network of one address is that address.
LEMMA HostRange ==
  ASSUME NEW x \in Addresses
  PROVE  /\ HostNet(x) \in Ipv4Net /\ Canonical(HostNet(x)) /\ HostNet(x).len # 0
         /\ net_range(HostNet(x)) = <<x, x>> /\ x \in Nat
<1>1. 2^0 = 1
  <2>1. SUBSET {} = {{}}
    OBVIOUS
  <2>2. Cardinality(SUBSET {}) = 2^0
    BY FS_EmptySet, FS_SUBSET
  <2> QED BY <2>1, <2>2, FS_Singleton
<1>2. x \in Nat
  <2>1. 2^Width \in Nat
    BY PowerOfTwo, WidthAssumption
  <2> QED BY <2>1 DEF Addresses
<1>3. Width - Width = 0 /\ Width \in 0 .. Width /\ Width # 0
  BY WidthAssumption
<1>4. Network(HostNet(x)) = x
  <2>1. Network(HostNet(x)) = x - (x % 2^(Width - Width))
    BY DEF Network, HostNet
  <2>2. x % 1 = 0 /\ x - 0 = x
    BY <1>2
  <2> QED BY <1>1, <1>3, <2>1, <2>2
<1>5. Broadcast(HostNet(x)) = x
  <2>1. Broadcast(HostNet(x)) = x + 2^(Width - Width) - 1
    BY <1>4 DEF Broadcast, HostNet
  <2>2. 2^(Width - Width) = 1
    BY <1>1, <1>3
  <2>3. x + 1 - 1 = x
    BY <1>2
  <2> QED BY <2>1, <2>2, <2>3
<1> QED BY <1>2, <1>3, <1>4, <1>5 DEF net_range, Canonical, HostNet, Ipv4Net

\* The routes of a node are its address and its networks, in any order.
LEMMA AllowedOf ==
  ASSUME NEW node, node.extra_allowed_ips \in Seq(Ipv4Net),
         node.tunnel_address \in Ipv4Net
  PROVE  LET ips == sorted_allowed_ips(node)
         IN  /\ ips \in Seq(Ipv4Net) /\ ips # <<>>
             /\ ToSet(ips) = {HostNet(node.tunnel_address.addr)}
                               \cup ToSet(node.extra_allowed_ips)
<1> DEFINE routes == node.extra_allowed_ips
           n      == Len(routes)
           R      == {ss \in (1 .. n) \X (1 .. n) : Before(routes[ss[1]], routes[ss[2]])}
           Good(p) == /\ IsInjective(p)
                      /\ \A i, j \in DOMAIN p : i < j => ~Before(routes[p[j]], routes[p[i]])
           order  == CHOOSE p \in [DOMAIN routes -> DOMAIN routes] : Good(p)
<1>1. n \in Nat /\ DOMAIN routes = 1 .. n /\ \A i \in 1 .. n : routes[i] \in Ipv4Net
  OBVIOUS
<1>2. \A i \in 1 .. n : /\ Network(routes[i]) \in Nat /\ routes[i].len \in Int
  BY <1>1, RangeType, WidthAssumption, SMTT(30) DEF Ipv4Net
<1>3. \A i, j \in 1 .. n : <<i, j>> \in R <=> Before(routes[i], routes[j])
  OBVIOUS
<1> HIDE DEF R
<1>4. StrictOrder(n, R)
  <2>1. \A i \in 1 .. n : ~Before(routes[i], routes[i])
    BY <1>2 DEF Before
  <2>2. \A i, j, k \in 1 .. n : Before(routes[i], routes[j]) /\ Before(routes[j], routes[k])
                                  => Before(routes[i], routes[k])
    BY <1>2, SMTT(30) DEF Before
  <2> HIDE DEF n, routes
  <2> QED BY <1>3, <2>1, <2>2 DEF StrictOrder
<1>5. PICK p : Sorts(p, n, R)
  BY <1>1, <1>4, Sortable
<1>6. p \in [DOMAIN routes -> DOMAIN routes] /\ Good(p)
  BY <1>1, <1>3, <1>5 DEF Sorts, IsInjective
<1>7. order \in [DOMAIN routes -> DOMAIN routes] /\ Good(order)
  BY <1>6
<1>8. \A i, j \in 1 .. n : i # j => order[i] # order[j]
  BY <1>1, <1>7 DEF IsInjective
<1> HIDE DEF order, Good
<1>9. \A k \in 1 .. n : \E i \in 1 .. n : order[i] = k
  <2>1. order \in Injection(1 .. n, 1 .. n)
    BY <1>1, <1>7, <1>8 DEF Injection, IsInjective
  <2>2. IsFiniteSet(1 .. n)
    BY <1>1, FS_Interval
  <2>3. order \in Surjection(1 .. n, 1 .. n)
    BY <2>1, <2>2, FS_Injection
  <2> QED BY <2>3 DEF Surjection
<1> DEFINE sorted == [i \in DOMAIN routes |-> routes[order[i]]]
           host   == HostNet(node.tunnel_address.addr)
<1>10. sorted_allowed_ips(node) = <<host>> \o sorted
  BY DEF sorted_allowed_ips, order, Good
<1>11. sorted \in Seq(Ipv4Net) /\ Len(sorted) = n
  BY <1>1, <1>7
<1>12. host \in Ipv4Net
  BY HostRange DEF Ipv4Net
<1>13. ToSet(sorted) = ToSet(routes)
  BY <1>1, <1>7, <1>9 DEF ToSet
<1> HIDE DEF sorted, host, routes, n
<1>14. /\ <<host>> \o sorted \in Seq(Ipv4Net) /\ <<host>> \o sorted # <<>>
       /\ DOMAIN (<<host>> \o sorted) = 1 .. n + 1
       /\ (<<host>> \o sorted)[1] = host
       /\ \A i \in 1 .. n : (<<host>> \o sorted)[i + 1] = sorted[i]
       /\ DOMAIN sorted = 1 .. n
  BY <1>1, <1>11, <1>12
<1>15. ToSet(<<host>> \o sorted) = {host} \cup ToSet(sorted)
  <2>1. \A i \in 1 .. n + 1 : i = 1 \/ \E j \in 1 .. n : i = j + 1
    BY <1>1
  <2>2. \A j \in 1 .. n : j + 1 \in 1 .. n + 1
    BY <1>1
  <2>3. 1 \in 1 .. n + 1
    BY <1>1
  <2> DEFINE both == <<host>> \o sorted
  <2>4. /\ DOMAIN both = 1 .. n + 1 /\ both[1] = host /\ DOMAIN sorted = 1 .. n
        /\ \A i \in 1 .. n : both[i + 1] = sorted[i]
    BY <1>14
  <2> HIDE DEF both
  <2>5. ASSUME NEW x \in ToSet(both) PROVE x \in {host} \cup ToSet(sorted)
    <3>1. PICK i \in 1 .. n + 1 : x = both[i]
      BY <2>4 DEF ToSet
    <3> QED BY <2>1, <2>4, <3>1 DEF ToSet
  <2>6. ASSUME NEW x \in {host} \cup ToSet(sorted) PROVE x \in ToSet(both)
    <3>1. CASE x = host
      BY <2>3, <2>4, <3>1 DEF ToSet
    <3>2. CASE x \in ToSet(sorted)
      <4>1. PICK j \in 1 .. n : x = sorted[j]
        BY <2>4, <3>2 DEF ToSet
      <4> QED BY <2>2, <2>4, <4>1 DEF ToSet
    <3> QED BY <3>1, <3>2
  <2>7. ToSet(both) = {host} \cup ToSet(sorted)
    BY <2>5, <2>6
  <2> QED BY <2>7 DEF both
<1> QED BY <1>10, <1>13, <1>14, <1>15 DEF host, routes

-----------------------------------------------------------------------------
(***************************************************************************)
(* Directives and sections.                                                *)
(***************************************************************************)
\* An optional value is written as one directive or none.
LEMMA DirectiveOf ==
  ASSUME NEW name, NEW o, Option(o)
  PROVE  \/ o = {} /\ Directive(name, o) = <<>>
         \/ \E v : o = {v} /\ Directive(name, o) = << <<name, v>> >>
<1>1. CASE o = {}
  <2>1. Cardinality(o) = 0
    BY <1>1, FS_EmptySet
  <2>2. Directive(name, o) = [i \in 1 .. 0 |-> <<name, CHOOSE v \in o : TRUE>>]
    BY <2>1 DEF Directive
  <2>3. Directive(name, o) = <<>>
    BY <2>2
  <2> QED BY <1>1, <2>3
<1>2. CASE o # {}
  <2>1. PICK v : o = {v}
    BY <1>2 DEF Option
  <2>2. Cardinality(o) = 1 /\ (CHOOSE w \in o : TRUE) = v
    BY <2>1, FS_Singleton
  <2>3. Directive(name, o) = [i \in 1 .. 1 |-> <<name, v>>]
    BY <2>2 DEF Directive
  <2>4. Directive(name, o) = << <<name, v>> >>
    BY <2>3
  <2> QED BY <2>1, <2>4
<1> QED BY <1>1, <1>2

\* One more element at the end.
LEMMA ConcatOne ==
  ASSUME NEW S, NEW s \in Seq(S), NEW e \in S, NEW t \in Seq(S),
         Len(t) = Len(s) + 1, \A i \in 1 .. Len(s) : t[i] = s[i], t[Len(s) + 1] = e
  PROVE  s \o <<e>> = t
<1>1. <<e>> \in Seq(S) /\ Len(<<e>>) = 1 /\ <<e>>[1] = e
  OBVIOUS
<1>2. /\ s \o <<e>> \in Seq(S) /\ Len(s \o <<e>>) = Len(s) + 1
      /\ \A i \in 1 .. Len(s) + 1 :
           (s \o <<e>>)[i] = IF i <= Len(s) THEN s[i] ELSE <<e>>[i - Len(s)]
  BY <1>1, ConcatProperties
<1>3. \A i \in 1 .. Len(s) + 1 : (s \o <<e>>)[i] = t[i]
  <2> TAKE i \in 1 .. Len(s) + 1
  <2>1. CASE i = Len(s) + 1
    <3>1. i - Len(s) = 1 /\ ~(i <= Len(s))
      BY <2>1
    <3> QED BY <1>1, <1>2, <2>1, <3>1
  <2>2. CASE i \in 1 .. Len(s)
    BY <1>2, <2>2
  <2> QED BY <2>1, <2>2
<1> QED BY <1>2, <1>3, SeqEqual

\* A fourth directive.
LEMMA ConcatFourth ==
  ASSUME NEW a, NEW b, NEW c, NEW d PROVE <<a, b, c>> \o <<d>> = <<a, b, c, d>>
<1> DEFINE S == {a, b, c, d}
           s == <<a, b, c>>
           t == <<a, b, c, d>>
<1>1. s \in Seq(S) /\ t \in Seq(S) /\ d \in S
  OBVIOUS
<1>2. Len(s) = 3 /\ Len(t) = 4 /\ (\A i \in 1 .. 3 : t[i] = s[i]) /\ t[4] = d
  OBVIOUS
<1> HIDE DEF s, t, S
<1>3. Len(t) = Len(s) + 1 /\ (\A i \in 1 .. Len(s) : t[i] = s[i]) /\ t[Len(s) + 1] = d
  BY <1>2
<1>4. s \o <<d>> = t
  BY <1>1, <1>3, ConcatOne
<1> QED BY <1>4 DEF s, t

\* And a fifth.
LEMMA ConcatFifth ==
  ASSUME NEW a, NEW b, NEW c, NEW d, NEW e
  PROVE  <<a, b, c, d>> \o <<e>> = <<a, b, c, d, e>>
<1> DEFINE S == {a, b, c, d, e}
           s == <<a, b, c, d>>
           t == <<a, b, c, d, e>>
<1>1. s \in Seq(S) /\ t \in Seq(S) /\ e \in S
  OBVIOUS
<1>2. Len(s) = 4 /\ Len(t) = 5 /\ (\A i \in 1 .. 4 : t[i] = s[i]) /\ t[5] = e
  OBVIOUS
<1> HIDE DEF s, t, S
<1>3. Len(t) = Len(s) + 1 /\ (\A i \in 1 .. Len(s) : t[i] = s[i]) /\ t[Len(s) + 1] = e
  BY <1>2
<1>4. s \o <<e>> = t
  BY <1>1, <1>3, ConcatOne
<1> QED BY <1>4 DEF s, t

\* What is read of four directives.
LEMMA FourRead ==
  ASSUME NEW n1, NEW n2, NEW n3, NEW n4, NEW v1, NEW v2, NEW v3, NEW v4,
         n1 # n2, n1 # n3, n1 # n4, n2 # n3, n2 # n4, n3 # n4
  PROVE  LET four == << <<n1, v1>>, <<n2, v2>>, <<n3, v3>>, <<n4, v4>> >>
         IN  /\ Values(four, n1) = {v1} /\ Values(four, n2) = {v2}
             /\ Values(four, n3) = {v3} /\ Values(four, n4) = {v4}
             /\ \A n : n \notin {n1, n2, n3, n4} => Values(four, n) = {}
             /\ \A S : {n1, n2, n3, n4} \subseteq S => DirectivesOK(four, S)
<1> DEFINE four  == << <<n1, v1>>, <<n2, v2>>, <<n3, v3>>, <<n4, v4>> >>
           names == [i \in DOMAIN four |-> four[i][1]]
<1>1. /\ DOMAIN four = 1 .. 4
      /\ four[1] = <<n1, v1>> /\ four[2] = <<n2, v2>>
      /\ four[3] = <<n3, v3>> /\ four[4] = <<n4, v4>>
  OBVIOUS
<1>2. \A i \in 1 .. 4 : i = 1 \/ i = 2 \/ i = 3 \/ i = 4
  OBVIOUS
<1> HIDE DEF four
<1>3. Values(four, n1) = {v1} /\ Values(four, n2) = {v2}
  BY <1>1, <1>2 DEF Values
<1>4. Values(four, n3) = {v3} /\ Values(four, n4) = {v4}
  BY <1>1, <1>2 DEF Values
<1>5. \A n : n \notin {n1, n2, n3, n4} => Values(four, n) = {}
  BY <1>1, <1>2 DEF Values
<1>6. /\ DOMAIN names = 1 .. 4 /\ names[1] = n1 /\ names[2] = n2
      /\ names[3] = n3 /\ names[4] = n4
  BY <1>1
<1> HIDE DEF names
<1>7. ToSet(names) \subseteq {n1, n2, n3, n4}
  BY <1>2, <1>6 DEF ToSet
<1>8. IsInjective(names)
  BY <1>2, <1>6 DEF IsInjective
<1>9. \A S : {n1, n2, n3, n4} \subseteq S => DirectivesOK(four, S)
  BY <1>7, <1>8 DEF DirectivesOK, names
<1> QED BY <1>3, <1>4, <1>5, <1>9 DEF four

Distinct(n1, n2, n3, n4, n5) ==
  /\ n1 # n2 /\ n1 # n3 /\ n1 # n4 /\ n1 # n5 /\ n2 # n3 /\ n2 # n4 /\ n2 # n5
  /\ n3 # n4 /\ n3 # n5 /\ n4 # n5

\* Three directives and two optional ones.
Written(n1, v1, n2, v2, n3, v3, n4, o4, n5, o5) ==
  << <<n1, v1>>, <<n2, v2>>, <<n3, v3>> >> \o Directive(n4, o4) \o Directive(n5, o5)

ReadBack(n1, v1, n2, v2, n3, v3, n4, o4, n5, o5) ==
  LET fields == Written(n1, v1, n2, v2, n3, v3, n4, o4, n5, o5)
  IN  /\ Values(fields, n1) = {v1} /\ Values(fields, n2) = {v2} /\ Values(fields, n3) = {v3}
      /\ Values(fields, n4) = o4 /\ Values(fields, n5) = o5
      /\ DirectivesOK(fields, {n1, n2, n3, n4, n5})

\* They are read back as they were written.
LEMMA FieldsRead ==
  ASSUME NEW n1, NEW n2, NEW n3, NEW n4, NEW n5, NEW v1, NEW v2, NEW v3, NEW o4, NEW o5,
         Distinct(n1, n2, n3, n4, n5), Option(o4), Option(o5)
  PROVE  ReadBack(n1, v1, n2, v2, n3, v3, n4, o4, n5, o5)
<1> USE DEF Distinct, ReadBack
<1> DEFINE Read(fs) ==
             /\ Values(fs, n1) = {v1} /\ Values(fs, n2) = {v2}
             /\ Values(fs, n3) = {v3}
             /\ Values(fs, n4) = o4 /\ Values(fs, n5) = o5
             /\ DirectivesOK(fs, {n1, n2, n3, n4, n5})
           three == << <<n1, v1>>, <<n2, v2>>, <<n3, v3>> >>
<1>0. /\ three \o <<>> = three
      /\ \A x : three \o <<x>> = << <<n1, v1>>, <<n2, v2>>, <<n3, v3>>, x >>
  <2>1. three \o <<>> = three
    OBVIOUS
  <2>2. \A x : three \o <<x>> = << <<n1, v1>>, <<n2, v2>>, <<n3, v3>>, x >>
    BY ConcatFourth
  <2> QED BY <2>1, <2>2
<1>1. CASE o4 = {} /\ o5 = {}
  <2>1. Directive(n4, o4) = <<>> /\ Directive(n5, o5) = <<>>
    BY <1>1, DirectiveOf
  <2>2. three \o <<>> \o <<>> = three
    OBVIOUS
  <2>3. Read(three)
    BY <1>1 DEF Values, DirectivesOK, ToSet, IsInjective
  <2> QED BY <2>1, <2>2, <2>3 DEF Written
<1>2. CASE o4 = {} /\ o5 # {}
  <2>1. PICK v : o5 = {v} /\ Directive(n5, o5) = << <<n5, v>> >> /\ Directive(n4, o4) = <<>>
    BY <1>2, DirectiveOf
  <2>2. three \o <<>> \o << <<n5, v>> >> = << <<n1, v1>>, <<n2, v2>>, <<n3, v3>>, <<n5, v>> >>
    BY <1>0
  <2>3. Read(<< <<n1, v1>>, <<n2, v2>>, <<n3, v3>>, <<n5, v>> >>)
    <3> DEFINE four == << <<n1, v1>>, <<n2, v2>>, <<n3, v3>>, <<n5, v>> >>
    <3>1. /\ Values(four, n1) = {v1} /\ Values(four, n2) = {v2}
          /\ Values(four, n3) = {v3} /\ Values(four, n5) = {v}
          /\ \A n : n \notin {n1, n2, n3, n5} => Values(four, n) = {}
          /\ \A S : {n1, n2, n3, n5} \subseteq S => DirectivesOK(four, S)
      BY FourRead
    <3> HIDE DEF four
    <3>2. Read(four)
      BY <1>2, <2>1, <3>1
    <3> QED BY <3>2 DEF four
  <2> QED BY <2>1, <2>2, <2>3 DEF Written
<1>3. CASE o4 # {} /\ o5 = {}
  <2>1. PICK v : o4 = {v} /\ Directive(n4, o4) = << <<n4, v>> >> /\ Directive(n5, o5) = <<>>
    BY <1>3, DirectiveOf
  <2>2. three \o << <<n4, v>> >> \o <<>> = << <<n1, v1>>, <<n2, v2>>, <<n3, v3>>, <<n4, v>> >>
    <3>1. \A a, b, c, d : <<a, b, c, d>> \o <<>> = <<a, b, c, d>>
      OBVIOUS
    <3> QED BY <1>0, <3>1
  <2>3. Read(<< <<n1, v1>>, <<n2, v2>>, <<n3, v3>>, <<n4, v>> >>)
    <3> DEFINE four == << <<n1, v1>>, <<n2, v2>>, <<n3, v3>>, <<n4, v>> >>
    <3>1. /\ Values(four, n1) = {v1} /\ Values(four, n2) = {v2}
          /\ Values(four, n3) = {v3} /\ Values(four, n4) = {v}
          /\ \A n : n \notin {n1, n2, n3, n4} => Values(four, n) = {}
          /\ \A S : {n1, n2, n3, n4} \subseteq S => DirectivesOK(four, S)
      BY FourRead
    <3> HIDE DEF four
    <3>2. Read(four)
      BY <1>3, <2>1, <3>1
    <3> QED BY <3>2 DEF four
  <2> QED BY <2>1, <2>2, <2>3 DEF Written
<1>4. CASE o4 # {} /\ o5 # {}
  <2>1. PICK v : o4 = {v} /\ Directive(n4, o4) = << <<n4, v>> >>
    BY <1>4, DirectiveOf
  <2>2. PICK w : o5 = {w} /\ Directive(n5, o5) = << <<n5, w>> >>
    BY <1>4, DirectiveOf
  <2> DEFINE five == << <<n1, v1>>, <<n2, v2>>, <<n3, v3>>, <<n4, v>>, <<n5, w>> >>
  <2>3. three \o << <<n4, v>> >> \o << <<n5, w>> >> = five
    BY <1>0, ConcatFifth, ZenonT(40)
  <2>4. Read(five)
    <3>1. /\ DOMAIN five = 1 .. 5
          /\ five[1] = <<n1, v1>> /\ five[2] = <<n2, v2>> /\ five[3] = <<n3, v3>>
          /\ five[4] = <<n4, v>> /\ five[5] = <<n5, w>>
      OBVIOUS
    <3>2. \A i \in 1 .. 5 : i = 1 \/ i = 2 \/ i = 3 \/ i = 4 \/ i = 5
      OBVIOUS
    <3> HIDE DEF five
    <3>3. Values(five, n1) = {v1} /\ Values(five, n2) = {v2} /\ Values(five, n3) = {v3}
      BY <3>1, <3>2 DEF Values
    <3>4. Values(five, n4) = o4 /\ Values(five, n5) = o5
      BY <2>1, <2>2, <3>1, <3>2 DEF Values
    <3>5. DirectivesOK(five, {n1, n2, n3, n4, n5})
      <4> DEFINE names == [i \in DOMAIN five |-> five[i][1]]
      <4>1. /\ DOMAIN names = 1 .. 5 /\ names[1] = n1 /\ names[2] = n2
            /\ names[3] = n3 /\ names[4] = n4 /\ names[5] = n5
        BY <3>1
      <4> HIDE DEF names
      <4>2. ToSet(names) \subseteq {n1, n2, n3, n4, n5}
        BY <3>2, <4>1 DEF ToSet
      <4>3. IsInjective(names)
        BY <3>2, <4>1 DEF IsInjective
      <4> QED BY <4>2, <4>3 DEF DirectivesOK, names
    <3> QED BY <3>3, <3>4, <3>5
  <2> QED BY <2>1, <2>2, <2>3, <2>4 DEF Written
<1> QED BY <1>1, <1>2, <1>3, <1>4

-----------------------------------------------------------------------------
(***************************************************************************)
(* The file of a node and what it is parsed to.                            *)
(***************************************************************************)
ParsedInterface(config, keys, h) ==
  LET node == NodeOf(config, h)
  IN  [private_key |-> keys.node_keys[h], address |-> node.tunnel_address.addr,
       listen_port |-> node.listen_port, dns |-> node.dns, mtu |-> node.mtu]

ParsedPeer(config, keys, h, p) ==
  LET peer == NodeOf(config, p)
  IN  [public_key           |-> Public(keys.node_keys[p]),
       preshared_key        |-> keys.edge_psks[canonical_pair(h, p)],
       allowed_ips          |-> sorted_allowed_ips(peer),
       endpoint             |-> peer.endpoint,
       persistent_keepalive |-> resolve_local_keepalive(NodeOf(config, h))]

\* A hostname's node is one of the nodes.
LEMMA NodeOfHost ==
  ASSUME NEW config, NEW h \in Hostnames(config)
  PROVE  \E i \in DOMAIN config.nodes :
           NodeOf(config, h) = config.nodes[i] /\ config.nodes[i].hostname = h
BY DEF Hostnames, NodeOf

\* It is well typed.
LEMMA NodeTyped ==
  ASSUME NEW config, TopologyConfig(config), NEW h \in Hostnames(config)
  PROVE  NodeConfig(NodeOf(config, h)) /\ h \in Nat
<1>1. PICK i \in DOMAIN config.nodes :
        NodeOf(config, h) = config.nodes[i] /\ config.nodes[i].hostname = h
  BY NodeOfHost
<1>2. NodeConfig(config.nodes[i])
  BY <1>1 DEF TopologyConfig
<1>3. NodeConfig(NodeOf(config, h)) /\ NodeOf(config, h).hostname = h
  BY <1>1, <1>2
<1> QED BY <1>3 DEF NodeConfig

\* There are finitely many.
LEMMA HostsFinite ==
  ASSUME NEW config, TopologyConfig(config)
  PROVE  IsFiniteSet(Hostnames(config)) /\ Hostnames(config) \in SUBSET Nat
<1> DEFINE D == 1 .. Len(config.nodes)
           f == [i \in D |-> config.nodes[i].hostname]
<1>1. Len(config.nodes) \in Nat /\ DOMAIN config.nodes = D
  BY DEF TopologyConfig
<1>2. f \in [D -> Hostnames(config)] /\ \A x \in Hostnames(config) : \E i \in D : f[i] = x
  BY <1>1 DEF Hostnames
<1>3. f \in Surjection(D, Hostnames(config))
  BY <1>2 DEF Surjection
<1>4. IsFiniteSet(D)
  BY <1>1, FS_Interval
<1>5. IsFiniteSet(Hostnames(config))
  BY <1>3, <1>4, FS_Surjection
<1>6. Hostnames(config) \in SUBSET Nat
  BY NodeTyped
<1> QED BY <1>5, <1>6

\* The [Interface] section is read back, if at all, as it was written.
LEMMA InterfaceRead ==
  ASSUME NEW config, TopologyConfig(config), NEW keys, NEW h \in Hostnames(config)
  PROVE  LET parsed == parse_interface_fields(InterfaceSection(config, keys, h).fields)
             whole  == ParsedInterface(config, keys, h)
         IN  /\ parsed \subseteq {whole}
             /\ NodeOK(NodeOf(config, h)) /\ ValidKey(keys.node_keys[h]) => parsed = {whole}
<1> DEFINE node   == NodeOf(config, h)
           host   == HostNet(node.tunnel_address.addr)
           fields == << <<"PrivateKey", keys.node_keys[h]>>, <<"Address", host>>,
                        <<"ListenPort", node.listen_port>> >>
                     \o Directive("DNS", node.dns) \o Directive("MTU", node.mtu)
<1>1. /\ Option(node.dns) /\ Option(node.mtu) /\ node.listen_port \in 0 .. MaxPort
  BY NodeTyped DEF NodeConfig
<1>2. InterfaceSection(config, keys, h).fields = fields
  BY DEF InterfaceSection
<1>3. /\ Values(fields, "PrivateKey") = {keys.node_keys[h]}
      /\ Values(fields, "Address") = {host}
      /\ Values(fields, "ListenPort") = {node.listen_port}
      /\ Values(fields, "DNS") = node.dns /\ Values(fields, "MTU") = node.mtu
      /\ DirectivesOK(fields, {"PrivateKey", "Address", "ListenPort", "DNS", "MTU"})
  <2>1. fields = Written("PrivateKey", keys.node_keys[h], "Address", host,
                         "ListenPort", node.listen_port, "DNS", node.dns, "MTU", node.mtu)
    BY DEF Written
  <2> HIDE DEF fields, host, node
  <2>2. Distinct("PrivateKey", "Address", "ListenPort", "DNS", "MTU")
    BY DEF Distinct
  <2>3. ReadBack("PrivateKey", keys.node_keys[h], "Address", host,
                 "ListenPort", node.listen_port, "DNS", node.dns, "MTU", node.mtu)
    BY <1>1, <2>2, FieldsRead
  <2> QED BY <2>1, <2>3 DEF ReadBack
<1>4. host.addr = node.tunnel_address.addr /\ host.len = Width
  BY DEF HostNet
<1> HIDE DEF fields, host, node
<1>5. parse_interface_fields(fields) \subseteq {ParsedInterface(config, keys, h)}
  BY <1>3, <1>4 DEF parse_interface_fields, ParsedInterface, node
<1>6. ASSUME NodeOK(node), ValidKey(keys.node_keys[h])
      PROVE  ParsedInterface(config, keys, h) \in parse_interface_fields(fields)
  <2>1. /\ node.listen_port \in Ports
        /\ \A d \in node.dns : d.family \in {"v4", "v6"}
        /\ \A m \in node.mtu : m >= MinMtu
    BY <1>1, <1>6 DEF NodeOK, Ports
  <2> QED BY <1>3, <1>4, <1>6, <2>1 DEF parse_interface_fields, ParsedInterface, node
<1> QED BY <1>2, <1>5, <1>6 DEF node

\* A [Peer] section is read back, if at all, as it was written.
LEMMA PeerRead ==
  ASSUME NEW config, TopologyConfig(config), NEW keys, NEW h \in Hostnames(config),
         NEW p \in Hostnames(config)
  PROVE  LET parsed == parse_peer_fields(PeerSection(config, keys, h, p).fields)
             whole  == ParsedPeer(config, keys, h, p)
         IN  /\ parsed \subseteq {whole}
             /\ NodeOK(NodeOf(config, p))
                  /\ ValidKey(keys.edge_psks[canonical_pair(h, p)]) => parsed = {whole}
<1> DEFINE peer   == NodeOf(config, p)
           alive  == resolve_local_keepalive(NodeOf(config, h))
           public == Public(keys.node_keys[p])
           psk    == keys.edge_psks[canonical_pair(h, p)]
           ips    == sorted_allowed_ips(peer)
           fields == << <<"PublicKey", public>>, <<"PresharedKey", psk>>,
                        <<"AllowedIPs", ips>> >>
                     \o Directive("Endpoint", peer.endpoint)
                     \o Directive("PersistentKeepalive", alive)
<1>1. /\ Option(peer.endpoint) /\ peer.tunnel_address \in Ipv4Net
      /\ peer.extra_allowed_ips \in Seq(Ipv4Net)
      /\ Option(NodeOf(config, h).persistent_keepalive)
  BY NodeTyped DEF NodeConfig
<1>2. Option(alive)
  BY <1>1 DEF resolve_local_keepalive, Option
<1>3. PeerSection(config, keys, h, p).fields = fields
  BY DEF PeerSection
<1>4. /\ Values(fields, "PublicKey") = {public}
      /\ Values(fields, "PresharedKey") = {psk}
      /\ Values(fields, "AllowedIPs") = {ips}
      /\ Values(fields, "Endpoint") = peer.endpoint
      /\ Values(fields, "PersistentKeepalive") = alive
      /\ DirectivesOK(fields, {"PublicKey", "PresharedKey", "AllowedIPs", "Endpoint",
                               "PersistentKeepalive"})
  <2>1. fields = Written("PublicKey", public, "PresharedKey", psk, "AllowedIPs", ips,
                         "Endpoint", peer.endpoint, "PersistentKeepalive", alive)
    BY DEF Written
  <2> HIDE DEF fields, peer, alive, public, psk, ips
  <2>2. Distinct("PublicKey", "PresharedKey", "AllowedIPs", "Endpoint", "PersistentKeepalive")
    BY DEF Distinct
  <2>3. ReadBack("PublicKey", public, "PresharedKey", psk, "AllowedIPs", ips,
                 "Endpoint", peer.endpoint, "PersistentKeepalive", alive)
    BY <1>1, <1>2, <2>2, FieldsRead
  <2> QED BY <2>1, <2>3 DEF ReadBack
<1>5. ips # <<>> /\ ToSet(ips) = {HostNet(peer.tunnel_address.addr)}
                                   \cup ToSet(peer.extra_allowed_ips)
  BY <1>1, AllowedOf
<1>6. ValidKey(public)
  BY DEF ValidKey, ZeroKey, Public
<1> HIDE DEF fields, peer, alive, public, psk, ips
<1>7. parse_peer_fields(fields) \subseteq {ParsedPeer(config, keys, h, p)}
  BY <1>4 DEF parse_peer_fields, ParsedPeer, peer, alive, public, psk, ips
<1>8. ASSUME NodeOK(peer), ValidKey(psk)
      PROVE  ParsedPeer(config, keys, h, p) \in parse_peer_fields(fields)
  <2>1. \A ep \in peer.endpoint : validate_endpoint_syntax(ep)
    BY <1>8 DEF NodeOK
  <2>2. \A n \in ToSet(ips) : Canonical(n) /\ n.len # 0
    <3>1. HostNet(peer.tunnel_address.addr).len # 0
          /\ Canonical(HostNet(peer.tunnel_address.addr))
      BY <1>1, HostRange DEF Ipv4Net
    <3> QED BY <1>5, <1>8, <3>1 DEF NodeOK
  <2> QED BY <1>4, <1>5, <1>6, <1>8, <2>1, <2>2
       DEF parse_peer_fields, ParsedPeer, peer, alive, public, psk, ips
<1> QED BY <1>3, <1>7, <1>8 DEF peer, psk

\* A file of the node's own section and one for each of the hosts in q.
Shaped(config, keys, h, q, n) ==
  LET file == RenderedFile(config, keys, h)
  IN  /\ Enumerates(q, n, PeerHosts(config, h))
      /\ DOMAIN file = 1 .. n + 1 /\ Len(file) = n + 1
      /\ file[1] = InterfaceSection(config, keys, h)
      /\ \A i \in 1 .. n : file[i + 1] = PeerSection(config, keys, h, q[i])

\* A rendered file is one.
LEMMA FileShape ==
  ASSUME NEW config, TopologyConfig(config), NEW keys, NEW h
  PROVE  \E q, n : Shaped(config, keys, h, q, n)
<1> DEFINE file  == RenderedFile(config, keys, h)
           hosts == PeerHosts(config, h)
           n     == Cardinality(hosts)
           q     == Ascending(hosts)
           own   == InterfaceSection(config, keys, h)
           S     == {own} \cup {PeerSection(config, keys, h, p) : p \in hosts}
           rest  == [i \in 1 .. n |-> PeerSection(config, keys, h, q[i])]
<1>1. hosts \in SUBSET Nat /\ IsFiniteSet(hosts)
  <2>1. hosts \subseteq Hostnames(config)
    BY DEF PeerHosts
  <2> QED BY <2>1, HostsFinite, FS_Subset
<1> HIDE DEF hosts
<1>2. /\ n \in Nat /\ q \in [1 .. n -> hosts]
      /\ \A i, j \in 1 .. n : i # j => q[i] # q[j]
      /\ \A x \in hosts : \E i \in 1 .. n : q[i] = x
  BY <1>1, AscendingMembers
<1>3. file = <<own>> \o [i \in DOMAIN q |-> PeerSection(config, keys, h, q[i])]
  BY DEF RenderedFile, hosts
<1> HIDE DEF q, n, own, file
<1>4. DOMAIN q = 1 .. n
  BY <1>2
<1>5. file = <<own>> \o rest
  BY <1>3, <1>4
<1>6. rest \in [1 .. n -> S] /\ own \in S
  BY <1>2
<1>7. rest \in Seq(S) /\ Len(rest) = n
  <2> HIDE DEF rest, S
  <2> QED BY <1>2, <1>6
<1> HIDE DEF S
<1>8. \A i \in 1 .. n : rest[i] = PeerSection(config, keys, h, q[i])
  OBVIOUS
<1> HIDE DEF rest
<1>9. <<own>> \in Seq(S) /\ Len(<<own>>) = 1 /\ <<own>>[1] = own
  BY <1>6
<1>10. /\ file \in Seq(S) /\ Len(file) = n + 1
       /\ \A i \in 1 .. 1 + n : file[i] = IF i <= 1 THEN <<own>>[i] ELSE rest[i - 1]
  <2>1. /\ <<own>> \o rest \in Seq(S) /\ Len(<<own>> \o rest) = Len(<<own>>) + Len(rest)
        /\ \A i \in 1 .. Len(<<own>>) + Len(rest) :
             (<<own>> \o rest)[i] = IF i <= Len(<<own>>) THEN <<own>>[i]
                                    ELSE rest[i - Len(<<own>>)]
    BY <1>7, <1>9, ConcatProperties
  <2> QED BY <1>2, <1>5, <1>7, <1>9, <2>1
<1>11. /\ DOMAIN file = 1 .. n + 1 /\ file[1] = own
  BY <1>2, <1>9, <1>10
<1>12. \A i \in 1 .. n : file[i + 1] = PeerSection(config, keys, h, q[i])
  <2> TAKE i \in 1 .. n
  <2>1. i + 1 \in 1 .. 1 + n /\ ~(i + 1 <= 1) /\ (i + 1) - 1 = i
    BY <1>2
  <2>2. file[i + 1] = rest[(i + 1) - 1]
    BY <1>10, <2>1
  <2> QED BY <1>8, <2>1, <2>2
<1>13. Shaped(config, keys, h, q, n)
  BY <1>2, <1>10, <1>11, <1>12 DEF Shaped, Enumerates, file, hosts, own
<1> QED BY <1>13

\* It has no section but an interface and peers.
LEMMA SectionNames ==
  ASSUME NEW config, TopologyConfig(config), NEW keys, NEW h
  PROVE  LET file == RenderedFile(config, keys, h)
         IN  \A i \in DOMAIN file : file[i].name \in {"Interface", "Peer"}
<1> DEFINE file == RenderedFile(config, keys, h)
<1>1. PICK q, n : Shaped(config, keys, h, q, n)
  BY FileShape
<1>2. /\ n \in Nat /\ DOMAIN file = 1 .. n + 1
      /\ file[1] = InterfaceSection(config, keys, h)
      /\ \A i \in 1 .. n : file[i + 1] = PeerSection(config, keys, h, q[i])
  BY <1>1 DEF Shaped, Enumerates
<1>3. InterfaceSection(config, keys, h).name = "Interface"
  BY DEF InterfaceSection
<1>4. \A p : PeerSection(config, keys, h, p).name = "Peer"
  BY DEF PeerSection
<1> HIDE DEF file
<1>5. \A i \in 1 .. n + 1 : i = 1 \/ \E j \in 1 .. n : i = j + 1
  <2> TAKE i \in 1 .. n + 1
  <2>1. i # 1 => i - 1 \in 1 .. n /\ i = (i - 1) + 1
    BY <1>2
  <2> QED BY <2>1
<1>6. ASSUME NEW i \in DOMAIN file PROVE file[i].name \in {"Interface", "Peer"}
  <2>1. CASE i = 1
    BY <1>2, <1>3, <2>1
  <2>2. ASSUME NEW j \in 1 .. n, i = j + 1 PROVE file[i].name = "Peer"
    BY <1>2, <1>4, <2>2
  <2> QED BY <1>2, <1>5, <2>1, <2>2
<1> QED BY <1>6 DEF file

\* Three directives and two optional ones are at most five.
LEMMA WrittenLength ==
  ASSUME NEW n1, NEW n2, NEW n3, NEW n4, NEW n5, NEW v1, NEW v2, NEW v3, NEW o4, NEW o5,
         Option(o4), Option(o5)
  PROVE  /\ Len(Written(n1, v1, n2, v2, n3, v3, n4, o4, n5, o5)) \in Nat
         /\ Len(Written(n1, v1, n2, v2, n3, v3, n4, o4, n5, o5)) <= 5
<1> DEFINE three == << <<n1, v1>>, <<n2, v2>>, <<n3, v3>> >>
           S     == {<<n1, v1>>, <<n2, v2>>, <<n3, v3>>} \cup {<<n4, v>> : v \in o4}
                                                         \cup {<<n5, v>> : v \in o5}
           s     == Directive(n4, o4)
           t     == Directive(n5, o5)
<1>1. three \in Seq(S) /\ Len(three) = 3
  OBVIOUS
<1>2. s \in Seq(S) /\ Len(s) \in 0 .. 1
  <2>1. CASE o4 = {} /\ s = <<>>
    <3> HIDE DEF s, S
    <3>1. <<>> \in Seq(S) /\ Len(<<>>) = 0
      OBVIOUS
    <3> QED BY <2>1, <3>1
  <2>2. ASSUME NEW v, o4 = {v}, s = << <<n4, v>> >> PROVE s \in Seq(S) /\ Len(s) \in 0 .. 1
    <3>1. <<n4, v>> \in S
      BY <2>2
    <3> HIDE DEF S
    <3>2. << <<n4, v>> >> \in Seq(S) /\ Len(<< <<n4, v>> >>) = 1
      BY <3>1
    <3> QED BY <2>2, <3>2
  <2> HIDE DEF s, S
  <2> QED BY <2>1, <2>2, DirectiveOf DEF s
<1>3. t \in Seq(S) /\ Len(t) \in 0 .. 1
  <2>1. CASE o5 = {} /\ t = <<>>
    <3> HIDE DEF t, S
    <3>1. <<>> \in Seq(S) /\ Len(<<>>) = 0
      OBVIOUS
    <3> QED BY <2>1, <3>1
  <2>2. ASSUME NEW v, o5 = {v}, t = << <<n5, v>> >> PROVE t \in Seq(S) /\ Len(t) \in 0 .. 1
    <3>1. <<n5, v>> \in S
      BY <2>2
    <3> HIDE DEF S
    <3>2. << <<n5, v>> >> \in Seq(S) /\ Len(<< <<n5, v>> >>) = 1
      BY <3>1
    <3> QED BY <2>2, <3>2
  <2> HIDE DEF t, S
  <2> QED BY <2>1, <2>2, DirectiveOf DEF t
<1>4. Written(n1, v1, n2, v2, n3, v3, n4, o4, n5, o5) = three \o s \o t
  BY DEF Written
<1> HIDE DEF three, S, s, t
<1>5. three \o s \in Seq(S) /\ Len(three \o s) = Len(three) + Len(s)
  BY <1>1, <1>2, ConcatProperties
<1>6. Len(three \o s \o t) = Len(three \o s) + Len(t)
  BY <1>3, <1>5, ConcatProperties
<1>7. Len(three \o s \o t) \in Nat /\ Len(three \o s \o t) <= 5
  <2> DEFINE a == Len(three \o s)
             b == Len(three \o s \o t)
  <2>1. a = 3 + Len(s) /\ b = a + Len(t)
    BY <1>1, <1>5, <1>6
  <2> HIDE DEF a, b
  <2> DEFINE c == Len(s)
             d == Len(t)
  <2>2. c \in 0 .. 1 /\ d \in 0 .. 1 /\ a = 3 + c /\ b = a + d
    BY <1>2, <1>3, <2>1
  <2> HIDE DEF c, d
  <2>3. b \in Nat /\ b <= 5
    BY <2>2
  <2> QED BY <2>3 DEF b
<1> QED BY <1>4, <1>7

\* A file of n sections of at most five directives has at most 6 n lines.
LEMMA LinesBound ==
  ASSUME NEW file, NEW n \in Nat, Len(file) = n,
         \A i \in 1 .. n : Len(file[i].fields) \in Nat /\ Len(file[i].fields) <= 5
  PROVE  Lines(file) \in Nat /\ Lines(file) <= 6 * n
<1> DEFINE len(i) == Len(file[i].fields)
           step   == [p \in Nat \X (1 .. n) |-> p[1] + 1 + len(p[2])]
           Rec(f) == f = [i \in 0 .. n |-> IF i = 0 THEN 0 ELSE f[i - 1] + 1 + len(i)]
           P      == CHOOSE f : Rec(f)
           T      == {m \in Nat : m <= n => P[m] <= 6 * m}
<1>0. \A i \in 1 .. n : len(i) \in Nat /\ len(i) <= 5
  OBVIOUS
<1>1. Lines(file) = P[n]
  BY Zenon DEF Lines
<1> HIDE DEF len
<1>2. /\ step \in [Nat \X (1 .. n) -> Nat]
      /\ \A v \in Nat, i \in 1 .. n : step[<<v, i>>] = v + 1 + len(i)
  BY <1>0
<1> HIDE DEF step
<1>3. PICK f : Recurs(f, n, Nat, 0, step)
  <2>1. 0 \in Nat
    OBVIOUS
  <2> QED BY <1>2, <2>1, Recursion, Zenon
<1>4. Rec(f)
  <2>1. \A i \in 0 .. n : i # 0 => i \in 1 .. n /\ f[i - 1] \in Nat
    BY <1>3 DEF Recurs
  <2> QED BY <1>2, <1>3, <2>1 DEF Recurs
<1>5. Rec(P)
  BY <1>4, Zenon
<1> HIDE DEF P
<1>6. /\ DOMAIN P = 0 .. n /\ P = [i \in DOMAIN P |-> P[i]] /\ P[0] = 0
      /\ \A i \in 1 .. n : P[i] = P[i - 1] + 1 + len(i)
  <2>1. 0 \in 0 .. n /\ \A i \in 1 .. n : i \in 0 .. n /\ i # 0
    OBVIOUS
  <2> QED BY <1>5, <2>1
<1>7. P \in [0 .. n -> Nat]
  <2>1. P[0] \in Nat
    BY <1>6
  <2>2. ASSUME NEW i \in 1 .. n, P[i - 1] \in Nat PROVE P[i] \in Nat
    BY <1>0, <1>6, <2>2
  <2> QED BY <1>6, <2>1, <2>2, RecursionType, Zenon
<1>8. 0 \in T
  BY <1>6
<1>9. ASSUME NEW m \in T PROVE m + 1 \in T
  <2> SUFFICES ASSUME m + 1 <= n PROVE P[m + 1] <= 6 * (m + 1)
    OBVIOUS
  <2>1. m \in Nat /\ P[m] <= 6 * m /\ m \in 0 .. n /\ m + 1 \in 1 .. n /\ (m + 1) - 1 = m
    OBVIOUS
  <2>2. P[m + 1] = P[m] + 1 + len(m + 1) /\ P[m] \in Nat /\ len(m + 1) \in Nat /\ len(m + 1) <= 5
    BY <1>0, <1>6, <1>7, <2>1
  <2> QED BY <2>1, <2>2
<1>10. n \in T
  <2>1. T \in SUBSET Nat
    OBVIOUS
  <2> HIDE DEF T
  <2> QED BY <1>8, <1>9, <2>1, Induction
<1> QED BY <1>1, <1>7, <1>10

\* A node and its peers are not more than the nodes of the topology.
LEMMA PeersBound ==
  ASSUME NEW config, TopologyConfig(config), validate(config), NEW h \in Hostnames(config),
         NEW q, NEW n, Enumerates(q, n, PeerHosts(config, h))
  PROVE  n + 1 <= MaxNodes
<1> DEFINE D     == 1 .. Len(config.nodes)
           at(x) == CHOOSE i \in D : config.nodes[i].hostname = x
           f     == [i \in 1 .. n + 1 |-> at(IF i <= n THEN q[i] ELSE h)]
<1>1. n \in Nat /\ DOMAIN config.nodes = D /\ Len(config.nodes) \in Nat
  BY DEF Enumerates, TopologyConfig
<1>2. \A x \in Hostnames(config) : at(x) \in D /\ config.nodes[at(x)].hostname = x
  BY <1>1 DEF Hostnames
<1> HIDE DEF at
<1>3. \A i \in 1 .. n : q[i] \in Hostnames(config) /\ q[i] # h
  BY DEF Enumerates, PeerHosts
<1>4. \A i, j \in 1 .. n : i # j => q[i] # q[j]
  BY DEF Enumerates
<1>5. f \in [1 .. n + 1 -> D]
  <2> HIDE DEF D
  <2> QED BY <1>1, <1>2, <1>3
<1>6. ASSUME NEW i \in 1 .. n + 1, NEW j \in 1 .. n + 1, f[i] = f[j] PROVE i = j
  <2> DEFINE x == IF i <= n THEN q[i] ELSE h
             y == IF j <= n THEN q[j] ELSE h
  <2>1. x \in Hostnames(config) /\ y \in Hostnames(config) /\ at(x) = at(y)
    <3>1. at(x) = f[i] /\ at(y) = f[j]
      OBVIOUS
    <3>2. x \in Hostnames(config) /\ y \in Hostnames(config)
      BY <1>1, <1>3
    <3> QED BY <1>6, <3>1, <3>2
  <2> HIDE DEF x, y
  <2>2. x = y
    BY <1>2, <2>1
  <2>3. (i <= n => i \in 1 .. n) /\ (j <= n => j \in 1 .. n)
        /\ (~(i <= n) => i = n + 1) /\ (~(j <= n) => j = n + 1)
    BY <1>1
  <2> QED BY <1>3, <1>4, <2>2, <2>3 DEF x, y
<1> HIDE DEF f, D
<1>7. f \in Injection(1 .. n + 1, D)
  BY <1>5, <1>6 DEF Injection, IsInjective
<1>8. IsFiniteSet(D) /\ Cardinality(D) = Len(config.nodes) /\ Cardinality(1 .. n + 1) = n + 1
  <2>1. ASSUME NEW k \in Nat PROVE IsFiniteSet(1 .. k) /\ Cardinality(1 .. k) = k
    <3>1. 1 \in Int /\ k \in Int
      OBVIOUS
    <3>2. IsFiniteSet(1 .. k) /\ Cardinality(1 .. k) = IF 1 > k THEN 0 ELSE k - 1 + 1
      BY <3>1, FS_Interval
    <3> QED BY <3>2
  <2>2. n + 1 \in Nat
    BY <1>1
  <2> QED BY <1>1, <2>1, <2>2 DEF D
<1>9. n + 1 <= Len(config.nodes)
  BY <1>7, <1>8, FS_Injection
<1>10. Len(config.nodes) <= MaxNodes
  BY DEF validate, NamesOK
<1> QED BY <1>1, <1>9, <1>10, TopologyAssumption

\* The file of a node of a valid topology has at most six lines for each node.
LEMMA FileLength ==
  ASSUME NEW config, TopologyConfig(config), validate(config), NEW keys,
         NEW h \in Hostnames(config)
  PROVE  /\ Lines(RenderedFile(config, keys, h)) \in Nat
         /\ Lines(RenderedFile(config, keys, h)) <= 6 * MaxNodes
<1> DEFINE file == RenderedFile(config, keys, h)
<1>1. PICK q, n : Shaped(config, keys, h, q, n)
  BY FileShape
<1>2. /\ n \in Nat /\ Len(file) = n + 1 /\ file[1] = InterfaceSection(config, keys, h)
      /\ \A i \in 1 .. n : file[i + 1] = PeerSection(config, keys, h, q[i])
      /\ q \in [1 .. n -> PeerHosts(config, h)] /\ Enumerates(q, n, PeerHosts(config, h))
  BY <1>1 DEF Shaped, Enumerates
<1> DEFINE Short(section) == Len(section.fields) \in Nat /\ Len(section.fields) <= 5
<1>3. Short(InterfaceSection(config, keys, h))
  <2> DEFINE node == NodeOf(config, h)
  <2>1. Option(node.dns) /\ Option(node.mtu)
    BY NodeTyped DEF NodeConfig
  <2>2. InterfaceSection(config, keys, h).fields
          = Written("PrivateKey", keys.node_keys[h], "Address", HostNet(node.tunnel_address.addr),
                    "ListenPort", node.listen_port, "DNS", node.dns, "MTU", node.mtu)
    BY DEF InterfaceSection, Written
  <2> HIDE DEF node
  <2> QED BY <2>1, <2>2, WrittenLength
<1>4. ASSUME NEW p \in PeerHosts(config, h) PROVE Short(PeerSection(config, keys, h, p))
  <2> DEFINE peer  == NodeOf(config, p)
             alive == resolve_local_keepalive(NodeOf(config, h))
  <2>1. Option(peer.endpoint) /\ Option(NodeOf(config, h).persistent_keepalive)
    BY NodeTyped DEF NodeConfig, PeerHosts
  <2>2. Option(alive)
    BY <2>1 DEF resolve_local_keepalive, Option
  <2>3. PeerSection(config, keys, h, p).fields
          = Written("PublicKey", Public(keys.node_keys[p]),
                    "PresharedKey", keys.edge_psks[canonical_pair(h, p)],
                    "AllowedIPs", sorted_allowed_ips(peer), "Endpoint", peer.endpoint,
                    "PersistentKeepalive", alive)
    BY DEF PeerSection, Written
  <2> HIDE DEF peer, alive
  <2> QED BY <2>1, <2>2, <2>3, WrittenLength
<1> HIDE DEF file, Short
<1>5. ASSUME NEW i \in 1 .. n + 1 PROVE Short(file[i])
  <2>1. CASE i = 1
    BY <1>2, <1>3, <2>1
  <2>2. CASE i # 1
    <3>1. i - 1 \in 1 .. n /\ (i - 1) + 1 = i
      BY <1>2, <2>2
    <3>2. file[i] = PeerSection(config, keys, h, q[i - 1]) /\ q[i - 1] \in PeerHosts(config, h)
      BY <1>2, <3>1
    <3> QED BY <1>4, <3>2
  <2> QED BY <2>1, <2>2
<1>6. Lines(file) \in Nat /\ Lines(file) <= 6 * (n + 1)
  <2>1. \A i \in 1 .. n + 1 : Len(file[i].fields) \in Nat /\ Len(file[i].fields) <= 5
    BY <1>5 DEF Short
  <2>2. n + 1 \in Nat
    BY <1>2
  <2> QED BY <1>2, <2>1, <2>2, LinesBound
<1>7. n + 1 <= MaxNodes
  BY <1>2, PeersBound
<1> QED BY <1>2, <1>6, <1>7, TopologyAssumption DEF file

PeerSectionsAre(config, keys, h, q, m) ==
  /\ Enumerates(q, m, PeerHosts(config, h))
  /\ Sections(RenderedFile(config, keys, h), "Peer")
       = [k \in 1 .. m |-> PeerSection(config, keys, h, q[k])]

\* Its own section is the only [Interface].
LEMMA InterfaceOfFile ==
  ASSUME NEW config, TopologyConfig(config), NEW keys, NEW h
  PROVE  Sections(RenderedFile(config, keys, h), "Interface")
           = <<InterfaceSection(config, keys, h)>>
<1> DEFINE file == RenderedFile(config, keys, h)
           own  == InterfaceSection(config, keys, h)
           S    == {i \in DOMAIN file : file[i].name = "Interface"}
<1>1. PICK q, n : Shaped(config, keys, h, q, n)
  BY FileShape
<1>2. /\ n \in Nat /\ DOMAIN file = 1 .. n + 1 /\ file[1] = own
      /\ \A i \in 1 .. n : file[i + 1] = PeerSection(config, keys, h, q[i])
  BY <1>1 DEF Shaped, Enumerates
<1>3. own.name = "Interface" /\ \A p : PeerSection(config, keys, h, p).name = "Peer"
  BY DEF InterfaceSection, PeerSection
<1> HIDE DEF file, own
<1>4. \A i \in 1 .. n + 1 : i = 1 \/ (i - 1 \in 1 .. n /\ (i - 1) + 1 = i)
  BY <1>2
<1>5. \A i \in 1 .. n + 1 : i # 1 => file[i].name = "Peer"
  BY <1>2, <1>3, <1>4
<1>6. S = {1}
  <2>1. 1 \in DOMAIN file /\ file[1].name = "Interface"
    BY <1>2, <1>3
  <2>2. \A i \in DOMAIN file : i # 1 => file[i].name # "Interface"
    BY <1>2, <1>5
  <2> QED BY <2>1, <2>2
<1>7. PICK at, m : Selects(at, m, file, "Interface")
  BY <1>2, SectionsOf
<1>8. /\ Enumerates(at, m, S) /\ Sections(file, "Interface") = [k \in 1 .. m |-> file[at[k]]]
  BY <1>7 DEF Selects
<1> HIDE DEF S
<1>9. /\ m \in Nat /\ m >= 1 /\ at \in [1 .. m -> {1}]
      /\ \A i, j \in 1 .. m : i # j => at[i] # at[j]
  BY <1>6, <1>8 DEF Enumerates
<1>10. m = 1
  <2> SUFFICES ASSUME m # 1 PROVE FALSE
    OBVIOUS
  <2>1. 1 \in 1 .. m /\ 2 \in 1 .. m
    BY <1>9
  <2> QED BY <1>9, <2>1
<1>11. [k \in 1 .. m |-> file[at[k]]] = [k \in 1 .. 1 |-> own]
  BY <1>2, <1>9, <1>10
<1>12. [k \in 1 .. 1 |-> own] = <<own>>
  OBVIOUS
<1> QED BY <1>8, <1>11, <1>12 DEF file, own

\* The others are its peers'.
LEMMA PeersOfFile ==
  ASSUME NEW config, TopologyConfig(config), NEW keys, NEW h
  PROVE  \E r, m : PeerSectionsAre(config, keys, h, r, m)
<1> DEFINE file  == RenderedFile(config, keys, h)
           hosts == PeerHosts(config, h)
           own   == InterfaceSection(config, keys, h)
           S     == {i \in DOMAIN file : file[i].name = "Peer"}
<1>1. PICK q, n : Shaped(config, keys, h, q, n)
  BY FileShape
<1>2. /\ n \in Nat /\ DOMAIN file = 1 .. n + 1 /\ file[1] = own
      /\ \A i \in 1 .. n : file[i + 1] = PeerSection(config, keys, h, q[i])
      /\ q \in [1 .. n -> hosts]
      /\ \A i, j \in 1 .. n : i # j => q[i] # q[j]
      /\ \A x \in hosts : \E i \in 1 .. n : q[i] = x
  BY <1>1 DEF Shaped, Enumerates
<1>3. own.name = "Interface" /\ \A p : PeerSection(config, keys, h, p).name = "Peer"
  BY DEF InterfaceSection, PeerSection
<1> HIDE DEF file, own, hosts
<1>4. \A i \in 1 .. n + 1 : i = 1 \/ (i - 1 \in 1 .. n /\ (i - 1) + 1 = i)
  BY <1>2
<1>5. /\ file[1].name # "Peer"
      /\ \A i \in 1 .. n + 1 : i # 1 =>
           file[i].name = "Peer" /\ file[i] = PeerSection(config, keys, h, q[i - 1])
  BY <1>2, <1>3, <1>4
<1>6. PICK at, m : Selects(at, m, file, "Peer")
  <2>1. n + 1 \in Nat /\ DOMAIN file = 1 .. n + 1
    BY <1>2
  <2> QED BY <2>1, SectionsOf
<1>7. /\ Enumerates(at, m, S) /\ Sections(file, "Peer") = [k \in 1 .. m |-> file[at[k]]]
  BY <1>6 DEF Selects
<1>8. \A i : i \in S <=> i \in 1 .. n + 1 /\ i # 1
  BY <1>2, <1>5
<1> HIDE DEF S
<1>9. /\ m \in Nat /\ \A i \in 1 .. m : at[i] \in S
      /\ \A i, j \in 1 .. m : i # j => at[i] # at[j]
      /\ \A x \in S : \E i \in 1 .. m : at[i] = x
  BY <1>7 DEF Enumerates
<1>10. \A i \in 1 .. m : /\ at[i] \in 1 .. n + 1 /\ at[i] # 1 /\ at[i] - 1 \in 1 .. n
                         /\ file[at[i]] = PeerSection(config, keys, h, q[at[i] - 1])
  BY <1>4, <1>5, <1>8, <1>9
<1> DEFINE r == [i \in 1 .. m |-> q[at[i] - 1]]
<1>11. r \in [1 .. m -> hosts]
  BY <1>2, <1>10
<1>12. \A i, j \in 1 .. m : i # j => r[i] # r[j]
  <2> TAKE i, j \in 1 .. m
  <2> HAVE i # j
  <2>1. at[i] - 1 # at[j] - 1
    BY <1>9, <1>10
  <2> QED BY <1>2, <1>10, <2>1
<1>13. \A x \in hosts : \E i \in 1 .. m : r[i] = x
  <2> TAKE x \in hosts
  <2>1. PICK k \in 1 .. n : q[k] = x
    BY <1>2
  <2>2. k + 1 \in S /\ (k + 1) - 1 = k
    BY <1>2, <1>8
  <2>3. PICK i \in 1 .. m : at[i] = k + 1
    BY <1>9, <2>2
  <2>4. r[i] = q[(k + 1) - 1]
    BY <2>3
  <2> QED BY <2>1, <2>2, <2>4
<1>14. Sections(file, "Peer") = [k \in 1 .. m |-> PeerSection(config, keys, h, r[k])]
  BY <1>7, <1>10
<1> HIDE DEF r
<1>15. PeerSectionsAre(config, keys, h, r, m)
  BY <1>9, <1>11, <1>12, <1>13, <1>14 DEF PeerSectionsAre, Enumerates, file, hosts
<1> QED BY <1>15

\* What a file with the peers in q is parsed to.
ParsedConfig(config, keys, h, q, m) ==
  [interface |-> ParsedInterface(config, keys, h),
   peers     |-> [k \in 1 .. m |-> ParsedPeer(config, keys, h, q[k])]]

\* A rendered file is parsed, if at all, to what it was rendered from.
LEMMA FileRead ==
  ASSUME NEW config, TopologyConfig(config), NEW keys, NEW h \in Hostnames(config)
  PROVE  \E q, m : /\ PeerSectionsAre(config, keys, h, q, m)
                   /\ parse_wg_quick(RenderedFile(config, keys, h))
                        \subseteq {ParsedConfig(config, keys, h, q, m)}
<1> DEFINE file  == RenderedFile(config, keys, h)
           own   == InterfaceSection(config, keys, h)
           secs  == Sections(file, "Peer")
           peers == [i \in DOMAIN secs |-> parse_peer_fields(secs[i].fields)]
<1>1. Sections(file, "Interface") = <<own>>
  BY InterfaceOfFile
<1>2. PICK q, m : PeerSectionsAre(config, keys, h, q, m)
  BY PeersOfFile
<1>3. /\ m \in Nat /\ q \in [1 .. m -> PeerHosts(config, h)]
      /\ secs = [k \in 1 .. m |-> PeerSection(config, keys, h, q[k])]
  BY <1>2 DEF PeerSectionsAre, Enumerates
<1>4. \A k \in 1 .. m : q[k] \in Hostnames(config)
  BY <1>3 DEF PeerHosts
<1> HIDE DEF secs
<1>5. /\ DOMAIN peers = 1 .. m
      /\ \A k \in 1 .. m : peers[k] \subseteq {ParsedPeer(config, keys, h, q[k])}
  <2>1. DOMAIN secs = 1 .. m
    BY <1>3
  <2>2. \A k \in 1 .. m : peers[k] = parse_peer_fields(PeerSection(config, keys, h, q[k]).fields)
    BY <1>3, <2>1
  <2> QED BY <1>4, <2>1, <2>2, PeerRead
<1>6. UNION {parse_interface_fields(s.fields) : s \in ToSet(<<own>>)}
        \subseteq {ParsedInterface(config, keys, h)}
  <2>1. \A s \in ToSet(<<own>>) : s = own
    BY DEF ToSet
  <2>2. parse_interface_fields(own.fields) \subseteq {ParsedInterface(config, keys, h)}
    BY InterfaceRead
  <2> HIDE DEF own
  <2> QED BY <2>1, <2>2
<1> HIDE DEF own, peers
<1>7. ASSUME NEW cfg \in parse_wg_quick(file)
      PROVE  cfg = ParsedConfig(config, keys, h, q, m)
  <2>1. /\ cfg \in [interface : UNION {parse_interface_fields(s.fields) : s \in ToSet(<<own>>)},
                    peers : {ps \in [DOMAIN peers -> UNION ToSet(peers)] :
                               \A i \in DOMAIN peers : ps[i] \in peers[i]}]
    BY <1>1 DEF parse_wg_quick, peers, secs
  <2>2. /\ cfg = [interface |-> cfg.interface, peers |-> cfg.peers]
        /\ cfg.interface = ParsedInterface(config, keys, h)
        /\ DOMAIN cfg.peers = 1 .. m /\ cfg.peers = [k \in 1 .. m |-> cfg.peers[k]]
        /\ \A k \in 1 .. m : cfg.peers[k] \in peers[k]
    BY <1>5, <1>6, <2>1
  <2>3. cfg.peers = [k \in 1 .. m |-> ParsedPeer(config, keys, h, q[k])]
    BY <1>5, <2>2
  <2> QED BY <2>2, <2>3 DEF ParsedConfig
<1> QED BY <1>2, <1>7

-----------------------------------------------------------------------------
(***************************************************************************)
(* Every file of a topology that validate accepts is parsed.               *)
(***************************************************************************)
\* The networks that two nodes are reached at have no address in common.
LEMMA AllowedApart ==
  ASSUME NEW config, TopologyConfig(config), AddressesUnique(config),
         RoutesSpareNodes(config), RoutesDisjoint(config),
         NEW i \in DOMAIN config.nodes, NEW j \in DOMAIN config.nodes, i # j,
         NEW a \in ToSet(sorted_allowed_ips(config.nodes[i]))
  PROVE  /\ ~Within(config.nodes[j].tunnel_address.addr, net_range(a))
         /\ \A b \in ToSet(sorted_allowed_ips(config.nodes[j])) :
              ~ranges_overlap(net_range(a), net_range(b))
<1> DEFINE m == config.nodes[i]
           n == config.nodes[j]
           x == m.tunnel_address.addr
           y == n.tunnel_address.addr
<1>1. /\ m.extra_allowed_ips \in Seq(Ipv4Net) /\ m.tunnel_address \in Ipv4Net
      /\ n.extra_allowed_ips \in Seq(Ipv4Net) /\ n.tunnel_address \in Ipv4Net
      /\ i \in Nat /\ j \in Nat
  BY DEF TopologyConfig, NodeConfig
<1>2. /\ x \in Addresses /\ y \in Addresses
      /\ x \in Nat /\ net_range(HostNet(x)) = <<x, x>>
      /\ y \in Nat /\ net_range(HostNet(y)) = <<y, y>>
  BY <1>1, HostRange DEF Ipv4Net
<1>3. x # y
  BY DEF AddressesUnique
<1>4. /\ \A r \in ToSet(m.extra_allowed_ips) : r \in Ipv4Net /\ ~Within(y, net_range(r))
      /\ \A r \in ToSet(n.extra_allowed_ips) : r \in Ipv4Net /\ ~Within(x, net_range(r))
  BY <1>1 DEF RoutesSpareNodes, ToSet
<1>5. /\ ToSet(sorted_allowed_ips(m)) = {HostNet(x)} \cup ToSet(m.extra_allowed_ips)
      /\ ToSet(sorted_allowed_ips(n)) = {HostNet(y)} \cup ToSet(n.extra_allowed_ips)
  BY <1>1, AllowedOf
<1>6. ~Within(y, net_range(a))
  <2>1. CASE a = HostNet(x)
    BY <1>2, <1>3, <2>1 DEF Within
  <2> QED BY <1>4, <1>5, <2>1
<1>7. ASSUME NEW b \in ToSet(sorted_allowed_ips(n))
      PROVE  ~ranges_overlap(net_range(a), net_range(b))
  <2>1. CASE b = HostNet(y)
    BY <1>2, <1>6, <2>1 DEF Within, ranges_overlap
  <2>2. CASE a = HostNet(x) /\ b \in ToSet(n.extra_allowed_ips)
    BY <1>2, <1>4, <2>2 DEF Within, ranges_overlap
  <2>3. CASE a \in ToSet(m.extra_allowed_ips) /\ b \in ToSet(n.extra_allowed_ips)
    <3>1. PICK s \in DOMAIN m.extra_allowed_ips : m.extra_allowed_ips[s] = a
      BY <2>3 DEF ToSet
    <3>2. PICK t \in DOMAIN n.extra_allowed_ips : n.extra_allowed_ips[t] = b
      BY <2>3 DEF ToSet
    <3>3. CASE i < j
      BY <3>1, <3>2, <3>3 DEF RoutesDisjoint
    <3>4. CASE j < i
      <4>1. ~ranges_overlap(net_range(b), net_range(a))
        BY <3>1, <3>2, <3>4 DEF RoutesDisjoint
      <4> QED BY <4>1 DEF ranges_overlap
    <3> QED BY <1>1, <3>3, <3>4
  <2> QED BY <1>5, <2>1, <2>2, <2>3
<1> QED BY <1>6, <1>7

\* The same of two hostnames of a topology that validate accepts.
LEMMA HostsApart ==
  ASSUME NEW config, TopologyConfig(config), validate(config),
         NEW a \in Hostnames(config), NEW b \in Hostnames(config), a # b,
         NEW r \in ToSet(sorted_allowed_ips(NodeOf(config, a)))
  PROVE  /\ ~Within(NodeOf(config, b).tunnel_address.addr, net_range(r))
         /\ \A s \in ToSet(sorted_allowed_ips(NodeOf(config, b))) :
              ~ranges_overlap(net_range(r), net_range(s))
<1>1. PICK i \in DOMAIN config.nodes :
        NodeOf(config, a) = config.nodes[i] /\ config.nodes[i].hostname = a
  BY NodeOfHost
<1>2. PICK j \in DOMAIN config.nodes :
        NodeOf(config, b) = config.nodes[j] /\ config.nodes[j].hostname = b
  BY NodeOfHost
<1>3. i # j
  BY <1>1, <1>2
<1>4. AddressesUnique(config) /\ RoutesSpareNodes(config) /\ RoutesDisjoint(config)
  BY DEF validate
<1> QED BY <1>1, <1>2, <1>3, <1>4, AllowedApart

\* Keys that are all usable and, of nodes, all different.
KeysOK(config, keys) ==
  /\ \A a \in Hostnames(config) : ValidKey(keys.node_keys[a])
  /\ \A a, b \in Hostnames(config) : keys.node_keys[a] = keys.node_keys[b] => a = b
  /\ \A e \in Edges(config) : ValidKey(keys.edge_psks[e])

\* The sections of a file contradict each other nowhere.
LEMMA SectionsAgree ==
  ASSUME NEW config, TopologyConfig(config), validate(config), NEW keys,
         KeysOK(config, keys), NEW h \in Hostnames(config),
         NEW q, NEW m, PeerSectionsAre(config, keys, h, q, m)
  PROVE  ConfigOK(ParsedConfig(config, keys, h, q, m))
<1> DEFINE cfg     == ParsedConfig(config, keys, h, q, m)
           peer(k) == ParsedPeer(config, keys, h, q[k])
<1>1. /\ m \in Nat /\ q \in [1 .. m -> PeerHosts(config, h)]
      /\ \A i, j \in 1 .. m : i # j => q[i] # q[j]
  BY DEF PeerSectionsAre, Enumerates
<1>2. \A k \in 1 .. m : q[k] \in Hostnames(config) /\ q[k] # h
  BY <1>1 DEF PeerHosts
<1>3. /\ cfg.interface.private_key = keys.node_keys[h]
      /\ cfg.interface.address = NodeOf(config, h).tunnel_address.addr
      /\ DOMAIN cfg.peers = 1 .. m
      /\ \A k \in 1 .. m : cfg.peers[k] = peer(k)
  BY DEF ParsedConfig, ParsedInterface
<1>4. \A k \in 1 .. m : /\ peer(k).public_key = Public(keys.node_keys[q[k]])
                        /\ peer(k).allowed_ips = sorted_allowed_ips(NodeOf(config, q[k]))
  BY DEF ParsedPeer
<1> HIDE DEF cfg, peer
<1>5. \A a, b \in Hostnames(config) : a # b =>
        /\ Public(keys.node_keys[a]) # Public(keys.node_keys[b])
        /\ \A r \in ToSet(sorted_allowed_ips(NodeOf(config, a))) :
             /\ ~Within(NodeOf(config, b).tunnel_address.addr, net_range(r))
             /\ \A s \in ToSet(sorted_allowed_ips(NodeOf(config, b))) :
                  ~ranges_overlap(net_range(r), net_range(s))
  <2> TAKE a, b \in Hostnames(config)
  <2> HAVE a # b
  <2>1. Public(keys.node_keys[a]) # Public(keys.node_keys[b])
    BY DEF KeysOK, Public
  <2> QED BY <2>1, HostsApart
<1>6. \A i \in 1 .. m :
        /\ cfg.peers[i].public_key # Public(cfg.interface.private_key)
        /\ \A n \in ToSet(cfg.peers[i].allowed_ips) :
             ~Within(cfg.interface.address, net_range(n))
  BY <1>2, <1>3, <1>4, <1>5
<1>7. \A i, j \in 1 .. m : i # j =>
        /\ cfg.peers[i].public_key # cfg.peers[j].public_key
        /\ \A a \in ToSet(cfg.peers[i].allowed_ips), b \in ToSet(cfg.peers[j].allowed_ips) :
             ~ranges_overlap(net_range(a), net_range(b))
  BY <1>1, <1>2, <1>3, <1>4, <1>5
<1>8. \A i, j \in 1 .. m : i < j => i # j
  BY <1>1
<1> QED BY <1>3, <1>6, <1>7, <1>8 DEF ConfigOK, cfg

\* The file that render_node_config makes for a node of a topology that
\* validate accepted is one that parse_wg_quick accepts, unless it is too long:
\* neither the server refuses its own output nor a client what it downloads.
THEOREM RenderedParses ==
  ASSUME NEW config, TopologyConfig(config), validate(config), NEW keys,
         KeysOK(config, keys), NEW h \in Hostnames(config),
         Lines(RenderedFile(config, keys, h)) <= MaxRenderedLines
  PROVE  parse_wg_quick(RenderedFile(config, keys, h)) # {}
<1> DEFINE file  == RenderedFile(config, keys, h)
           own   == InterfaceSection(config, keys, h)
           secs  == Sections(file, "Peer")
           peers == [i \in DOMAIN secs |-> parse_peer_fields(secs[i].fields)]
<1>0. \A i \in DOMAIN file : file[i].name \in {"Interface", "Peer"}
  BY SectionNames
<1>1. Sections(file, "Interface") = <<own>>
  BY InterfaceOfFile
<1>2. PICK q, m : PeerSectionsAre(config, keys, h, q, m)
  BY PeersOfFile
<1>3. /\ m \in Nat /\ q \in [1 .. m -> PeerHosts(config, h)]
      /\ secs = [k \in 1 .. m |-> PeerSection(config, keys, h, q[k])]
  BY <1>2 DEF PeerSectionsAre, Enumerates
<1>4. \A k \in 1 .. m : /\ q[k] \in Hostnames(config)
                        /\ canonical_pair(h, q[k]) \in Edges(config)
  BY <1>3 DEF PeerHosts
<1>5. \A a \in Hostnames(config) : NodeOK(NodeOf(config, a))
  BY NodeOfHost DEF validate
<1> DEFINE cfg == ParsedConfig(config, keys, h, q, m)
<1> HIDE DEF secs
<1>6. /\ DOMAIN peers = 1 .. m
      /\ \A k \in 1 .. m : peers[k] = {ParsedPeer(config, keys, h, q[k])}
  <2>1. DOMAIN secs = 1 .. m
    BY <1>3
  <2>2. \A k \in 1 .. m : peers[k] = parse_peer_fields(PeerSection(config, keys, h, q[k]).fields)
    BY <1>3, <2>1
  <2>3. \A k \in 1 .. m : ValidKey(keys.edge_psks[canonical_pair(h, q[k])])
    BY <1>4 DEF KeysOK
  <2> QED BY <1>4, <1>5, <2>1, <2>2, <2>3, PeerRead
<1>7. ParsedInterface(config, keys, h)
        \in UNION {parse_interface_fields(s.fields) : s \in ToSet(<<own>>)}
  <2>1. own \in ToSet(<<own>>)
    BY DEF ToSet
  <2>2. ParsedInterface(config, keys, h) \in parse_interface_fields(own.fields)
    BY <1>5, InterfaceRead DEF KeysOK
  <2> HIDE DEF own
  <2> QED BY <2>1, <2>2
<1>8. Len(<<own>>) = 1
  OBVIOUS
<1> HIDE DEF own, peers
<1>9. cfg.peers \in {ps \in [DOMAIN peers -> UNION ToSet(peers)] :
                       \A i \in DOMAIN peers : ps[i] \in peers[i]}
  <2>1. cfg.peers = [k \in 1 .. m |-> ParsedPeer(config, keys, h, q[k])]
    BY DEF ParsedConfig
  <2>2. \A k \in 1 .. m : ParsedPeer(config, keys, h, q[k]) \in UNION ToSet(peers)
    BY <1>6 DEF ToSet
  <2> QED BY <1>6, <2>1, <2>2
<1>10. cfg = [interface |-> ParsedInterface(config, keys, h), peers |-> cfg.peers]
  BY DEF ParsedConfig
<1>11. ConfigOK(cfg)
  BY <1>2, SectionsAgree
<1> HIDE DEF cfg
<1>12. cfg \in [interface : UNION {parse_interface_fields(s.fields) : s \in ToSet(<<own>>)},
                peers : {ps \in [DOMAIN peers -> UNION ToSet(peers)] :
                           \A i \in DOMAIN peers : ps[i] \in peers[i]}]
  BY <1>7, <1>9, <1>10
<1>13. cfg \in parse_wg_quick(file)
  BY <1>0, <1>1, <1>8, <1>11, <1>12 DEF parse_wg_quick, peers, secs
<1> QED BY <1>13

-----------------------------------------------------------------------------
(***************************************************************************)
(* Where the parsed file sends an address.                                 *)
(***************************************************************************)
\* The peers that have a network with address x.
OwnersOf(cfg, x) ==
  {p.public_key : p \in {q \in ToSet(cfg.peers) :
     \E n \in ToSet(q.allowed_ips) : Within(x, net_range(n))}}

LeadsHome(config, keys, h, cfg) ==
  /\ OwnersOf(cfg, NodeOf(config, h).tunnel_address.addr) = {}
  /\ \A p \in PeerHosts(config, h) :
       \A n \in {NodeOf(config, p).tunnel_address}
                  \cup ToSet(NodeOf(config, p).extra_allowed_ips) :
         \A x \in Network(n) .. Broadcast(n) :
           OwnersOf(cfg, x) = {Public(keys.node_keys[p])}

\* As parsed, the file of a node sends every address of another node, and of
\* the networks behind it, to that peer and no other, and its own address to
\* none: for every topology that validate accepts, of any size, and whatever
\* the keys are.
THEOREM AddressesLeadHome ==
  ASSUME NEW config, TopologyConfig(config), validate(config), NEW keys,
         NEW h \in Hostnames(config),
         NEW cfg \in parse_wg_quick(RenderedFile(config, keys, h))
  PROVE  LeadsHome(config, keys, h, cfg)
<1> DEFINE peers   == cfg.peers
           peer(p) == ParsedPeer(config, keys, h, p)
           nets(p) == ToSet(sorted_allowed_ips(NodeOf(config, p)))
           public(p) == Public(keys.node_keys[p])
<1>1. PICK q, m : /\ PeerSectionsAre(config, keys, h, q, m)
                  /\ cfg = ParsedConfig(config, keys, h, q, m)
  BY FileRead
<1>2. /\ m \in Nat /\ q \in [1 .. m -> PeerHosts(config, h)]
      /\ \A x \in PeerHosts(config, h) : \E i \in 1 .. m : q[i] = x
  BY <1>1 DEF PeerSectionsAre, Enumerates
<1>3. peers = [k \in 1 .. m |-> peer(q[k])]
  <2>1. ParsedConfig(config, keys, h, q, m).peers = [k \in 1 .. m |-> peer(q[k])]
    BY Zenon DEF ParsedConfig
  <2> HIDE DEF peer
  <2> QED BY <1>1, <2>1
<1>4. \A p : peer(p).public_key = public(p) /\ ToSet(peer(p).allowed_ips) = nets(p)
  BY DEF ParsedPeer
<1>5. \A p \in PeerHosts(config, h) : p \in Hostnames(config) /\ p # h
  BY DEF PeerHosts
<1> HIDE DEF peers, peer
<1>6. ToSet(peers) = {peer(p) : p \in PeerHosts(config, h)}
  <2>1. DOMAIN peers = 1 .. m /\ \A k \in 1 .. m : peers[k] = peer(q[k])
    BY <1>3
  <2>2. ToSet(peers) = {peer(q[k]) : k \in 1 .. m}
    BY <2>1 DEF ToSet
  <2> QED BY <1>2, <2>2
<1> HIDE DEF nets, public
<1>7. ASSUME NEW x
      PROVE  OwnersOf(cfg, x)
               = {public(p) : p \in {y \in PeerHosts(config, h) :
                                       \E n \in nets(y) : Within(x, net_range(n))}}
  <2>1. OwnersOf(cfg, x) = {p.public_key : p \in {y \in ToSet(peers) :
                              \E n \in ToSet(y.allowed_ips) : Within(x, net_range(n))}}
    BY DEF OwnersOf, peers
  <2> QED BY <1>4, <1>6, <2>1
<1>8. OwnersOf(cfg, NodeOf(config, h).tunnel_address.addr) = {}
  <2>1. \A p \in PeerHosts(config, h) : \A n \in nets(p) :
          ~Within(NodeOf(config, h).tunnel_address.addr, net_range(n))
    BY <1>5, HostsApart DEF nets
  <2> QED BY <1>7, <2>1
<1>9. \A p \in PeerHosts(config, h) :
        /\ nets(p) \subseteq Ipv4Net
        /\ {NodeOf(config, p).tunnel_address} \cup ToSet(NodeOf(config, p).extra_allowed_ips)
             \subseteq nets(p)
  <2> TAKE p \in PeerHosts(config, h)
  <2> DEFINE node == NodeOf(config, p)
  <2>1. node.tunnel_address \in Ipv4Net /\ node.extra_allowed_ips \in Seq(Ipv4Net)
    BY <1>5, NodeTyped DEF NodeConfig
  <2>2. node.tunnel_address.len = Width
    BY <1>5, NodeOfHost DEF validate, NodeOK
  <2>3. /\ sorted_allowed_ips(node) \in Seq(Ipv4Net)
        /\ nets(p) = {HostNet(node.tunnel_address.addr)} \cup ToSet(node.extra_allowed_ips)
    BY <2>1, AllowedOf DEF nets
  <2>4. nets(p) \subseteq Ipv4Net
    BY <2>3 DEF nets, ToSet
  <2> HIDE DEF node
  <2>5. node.tunnel_address = HostNet(node.tunnel_address.addr)
    BY <2>1, <2>2 DEF Ipv4Net, HostNet
  <2> QED BY <2>3, <2>4, <2>5 DEF node
<1>10. ASSUME NEW p \in PeerHosts(config, h), NEW n \in nets(p),
              NEW x \in Network(n) .. Broadcast(n)
       PROVE  OwnersOf(cfg, x) = {public(p)}
  <2>1. n \in Ipv4Net /\ Network(n) \in Nat /\ Broadcast(n) \in Nat
    BY <1>9, <1>10, RangeType
  <2>2. x \in Nat /\ Within(x, net_range(n))
    BY <1>10, <2>1 DEF Within, net_range
  <2>3. ASSUME NEW y \in PeerHosts(config, h), NEW o \in nets(y), Within(x, net_range(o))
        PROVE  y = p
    <3> SUFFICES ASSUME y # p PROVE FALSE
      OBVIOUS
    <3>1. ~ranges_overlap(net_range(n), net_range(o))
      BY <1>5, <1>10, <2>3, HostsApart DEF nets
    <3>2. nets_overlap(n, o)
      BY <1>9, <2>1, <2>2, <2>3, OverlapComplete
    <3> QED BY <3>1, <3>2 DEF nets_overlap
  <2> QED BY <1>7, <1>10, <2>2, <2>3
<1> QED BY <1>8, <1>9, <1>10 DEF LeadsHome, public
=============================================================================
