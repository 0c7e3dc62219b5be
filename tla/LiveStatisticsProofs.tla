-------------------------- MODULE LiveStatisticsProofs --------------------------
(* The statistics of the live monitor: types, the sums of the tables, the    *)
(* exported files and the listings, for any frames and bounds.               *)
EXTENDS LiveStatistics, SequenceTheorems, FiniteSetTheorems, TLAPS

(* Induction over the naturals, from the order being well-founded.           *)
LEMMA Induction ==
    ASSUME NEW S \in SUBSET Nat, 0 \in S, \A n \in S : n + 1 \in S
    PROVE  S = Nat
<1> SUFFICES ASSUME Nat \ S # {} PROVE FALSE
  OBVIOUS
<1>1. PICK m \in Nat \ S : \A n \in Nat \ S : ~ (<<n, m>> \in OpToRel(<, Nat))
  BY NatLessThanWellFounded, WFMin
<1>2. m # 0 /\ m - 1 \in Nat
  OBVIOUS
<1>3. <<m - 1, m>> \in OpToRel(<, Nat)
  BY <1>2 DEF OpToRel
<1>4. m - 1 \in S
  BY <1>1, <1>2, <1>3
<1> QED
  BY <1>4

-----------------------------------------------------------------------------
(* The sum of a function goes through its domain one element at a time.      *)
One(s) == CHOOSE x \in s : TRUE
Rest(s) == s \ {One(s)}
Iterated(f) == CHOOSE iter : iter =
    [s \in SUBSET DOMAIN f |-> IF s = {} THEN 0 ELSE f[One(s)] + iter[Rest(s)]]

(* A sum is what the iteration gives for all places.                        *)
LEMMA SumIs ==
    ASSUME NEW f
    PROVE  Sum(f) = Iterated(f)[DOMAIN f]
  BY DEF Sum, FoldFunction, FoldFunctionOnSet, MapThenFoldSet, Iterated, One, Rest

(* One element less.                                                         *)
LEMMA RestSmaller ==
    ASSUME NEW D, IsFiniteSet(D), NEW s \in SUBSET D
    PROVE  /\ Cardinality(s) \in Nat /\ (Cardinality(s) = 0 <=> s = {})
           /\ s # {} => /\ One(s) \in s /\ One(s) \in D
                        /\ Rest(s) \in SUBSET D /\ One(s) \notin Rest(s)
                        /\ Rest(s) \cup {One(s)} = s
                        /\ Cardinality(Rest(s)) = Cardinality(s) - 1
<1>1. IsFiniteSet(s)
  BY FS_Subset
<1>2. Cardinality(s) \in Nat /\ (Cardinality(s) = 0 <=> s = {})
  BY <1>1, FS_CardinalityType, FS_EmptySet
<1>3. ASSUME s # {}
      PROVE  /\ One(s) \in s /\ One(s) \in D
             /\ Rest(s) \in SUBSET D /\ One(s) \notin Rest(s)
             /\ Rest(s) \cup {One(s)} = s
             /\ Cardinality(Rest(s)) = Cardinality(s) - 1
  <2>1. One(s) \in s
    BY <1>3 DEF One
  <2>2. PICK x \in s : x = One(s) /\ Rest(s) = s \ {x}
    BY <2>1 DEF Rest
  <2>3. Cardinality(s \ {x}) = Cardinality(s) - 1
    BY <1>1, FS_RemoveElement
  <2> QED
    BY <2>2, <2>3
<1> QED
  BY <1>2, <1>3

(* The function the sum is defined by exists for a finite domain.            *)
LEMMA IteratedDefined ==
    ASSUME NEW f, IsFiniteSet(DOMAIN f)
    PROVE  Iterated(f) = [s \in SUBSET DOMAIN f |->
                             IF s = {} THEN 0 ELSE f[One(s)] + Iterated(f)[Rest(s)]]
<1>1. PICK D : D = DOMAIN f
  OBVIOUS
<1>2. \A s \in SUBSET D :
          /\ Cardinality(s) \in Nat /\ (Cardinality(s) = 0 <=> s = {})
          /\ s # {} => Rest(s) \in SUBSET D /\ Cardinality(Rest(s)) = Cardinality(s) - 1
  BY <1>1, RestSmaller
<1> DEFINE Step(g, s) == IF s = {} THEN 0 ELSE f[One(s)] + g[Rest(s)]
           Upto(n, g) == \A s \in SUBSET D : Cardinality(s) <= n => g[s] = Step(g, s)
           S == {n \in Nat : \E g : Upto(n, g)}
<1>3. 0 \in S
  <2>1. PICK g : g = [s \in SUBSET D |-> 0]
    OBVIOUS
  <2>2. Upto(0, g)
    BY <1>2, <2>1
  <2> QED
    BY <2>2
<1>4. ASSUME NEW n \in S PROVE n + 1 \in S
  <2>1. PICK g : Upto(n, g)
    OBVIOUS
  <2>2. PICK h : h = [s \in SUBSET D |-> IF Cardinality(s) <= n THEN g[s] ELSE Step(g, s)]
    OBVIOUS
  <2>3. \A s \in SUBSET D : h[s] = Step(g, s)
    <3> HIDE DEF Step
    <3> QED
      BY <2>1, <2>2
  <2>4. ASSUME NEW s \in SUBSET D, Cardinality(s) <= n + 1 PROVE h[s] = Step(h, s)
    <3>1. CASE s = {}
      BY <2>3, <3>1
    <3>2. CASE s # {}
      <4>1. Rest(s) \in SUBSET D /\ Cardinality(Rest(s)) <= n
        BY <1>2, <2>4, <3>2
      <4>2. h[Rest(s)] = g[Rest(s)]
        <5> HIDE DEF Step
        <5> QED
          BY <2>2, <4>1
      <4> QED
        BY <2>3, <3>2, <4>2
    <3> QED
      BY <3>1, <3>2
  <2> QED
    BY <2>4
<1>5. S = Nat
  <2> HIDE DEF S
  <2> QED
    BY <1>3, <1>4, Induction, Zenon DEF S
<1>6. Cardinality(D) \in S /\ \A s \in SUBSET D : Cardinality(s) <= Cardinality(D)
  BY <1>1, <1>2, <1>5, FS_Subset
<1>7. PICK g : Upto(Cardinality(D), g)
  BY <1>6
<1>8. PICK h : h = [s \in SUBSET D |-> g[s]]
  OBVIOUS
<1>9. PICK e : e = [s \in SUBSET D |-> Step(h, s)]
  OBVIOUS
<1>10. ASSUME NEW s \in SUBSET D PROVE h[s] = e[s]
  <2>1. h[s] = Step(g, s)
    <3> HIDE DEF Step
    <3> QED
      BY <1>6, <1>7, <1>8
  <2>2. s # {} => g[Rest(s)] = h[Rest(s)]
    BY <1>2, <1>8
  <2>3. Step(g, s) = Step(h, s)
    BY <2>2
  <2>4. e[s] = Step(h, s)
    <3> HIDE DEF Step
    <3> QED
      BY <1>9
  <2> QED
    BY <2>1, <2>3, <2>4
<1>11. h = e
  <2> HIDE DEF Step
  <2> QED
    BY <1>8, <1>9, <1>10
<1>12. h = [s \in SUBSET D |-> Step(h, s)]
  <2> HIDE DEF Step
  <2> QED
    BY <1>9, <1>11
<1>13. \E iter : iter = [s \in SUBSET DOMAIN f |-> IF s = {} THEN 0 ELSE f[One(s)] + iter[Rest(s)]]
  BY <1>1, <1>12
<1> QED
  BY <1>13 DEF Iterated

(* Functions that differ at one place, and their sums.                       *)
LEMMA SumChanged ==
    ASSUME NEW D, IsFiniteSet(D), NEW f \in [D -> Nat], NEW g \in [D -> Nat], NEW k \in D,
           \A x \in D : x # k => f[x] = g[x]
    PROVE  Sum(f) \in Nat /\ Sum(g) \in Nat /\ Sum(g) + f[k] = Sum(f) + g[k]
<1>1. \A s \in SUBSET D :
          /\ Cardinality(s) \in Nat /\ (Cardinality(s) = 0 <=> s = {})
          /\ s # {} => /\ One(s) \in s /\ One(s) \in D /\ Rest(s) \in SUBSET D
                       /\ Rest(s) \cup {One(s)} = s /\ One(s) \notin Rest(s)
                       /\ Cardinality(Rest(s)) = Cardinality(s) - 1
  BY RestSmaller
<1>2. PICK F, G : F = Iterated(f) /\ G = Iterated(g)
  OBVIOUS
<1>3. \A s \in SUBSET D : /\ F[s] = IF s = {} THEN 0 ELSE f[One(s)] + F[Rest(s)]
                          /\ G[s] = IF s = {} THEN 0 ELSE g[One(s)] + G[Rest(s)]
  <2>1. DOMAIN f = D /\ DOMAIN g = D
    OBVIOUS
  <2>2. PICK e : e = [s \in SUBSET D |-> IF s = {} THEN 0 ELSE f[One(s)] + F[Rest(s)]]
    OBVIOUS
  <2>3. PICK h : h = [s \in SUBSET D |-> IF s = {} THEN 0 ELSE g[One(s)] + G[Rest(s)]]
    OBVIOUS
  <2>4. F = e /\ G = h
    BY <1>2, <2>1, <2>2, <2>3, IteratedDefined
  <2> QED
    BY <2>2, <2>3, <2>4
<1> DEFINE Differ(s) == /\ F[s] \in Nat /\ G[s] \in Nat
                        /\ IF k \in s THEN G[s] + f[k] = F[s] + g[k] ELSE G[s] = F[s]
           S == {n \in Nat : \A s \in SUBSET D : Cardinality(s) = n => Differ(s)}
<1>4. 0 \in S
  BY <1>1, <1>3
<1>5. ASSUME NEW n \in S PROVE n + 1 \in S
  <2>1. ASSUME NEW s \in SUBSET D, Cardinality(s) = n + 1 PROVE Differ(s)
    <3>1. PICK x \in D, r \in SUBSET D :
             x = One(s) /\ r = Rest(s) /\ r \cup {x} = s /\ x \notin r /\ Cardinality(r) = n /\ s # {}
      BY <1>1, <2>1
    <3>2. Differ(r)
      BY <3>1
    <3>3. F[s] = f[x] + F[r] /\ G[s] = g[x] + G[r]
      BY <1>3, <3>1
    <3>4. f[x] \in Nat /\ g[x] \in Nat /\ f[k] \in Nat /\ g[k] \in Nat
      OBVIOUS
    <3>5. CASE x = k
      BY <3>1, <3>2, <3>3, <3>4, <3>5
    <3>6. CASE x # k
      <4>1. f[x] = g[x] /\ (k \in s <=> k \in r)
        BY <3>1, <3>6
      <4> QED
        BY <3>2, <3>3, <3>4, <4>1
    <3> QED
      BY <3>5, <3>6
  <2> QED
    BY <2>1
<1>6. S = Nat
  <2> HIDE DEF S
  <2> QED
    BY <1>4, <1>5, Induction, Zenon DEF S
<1>7. Differ(D)
  BY <1>1, <1>6
<1> QED
  BY <1>2, <1>7, SumIs

(* Nothing adds up to nothing.                                               *)
LEMMA SumOfZeros ==
    ASSUME NEW D, IsFiniteSet(D), NEW f \in [D -> Nat], \A x \in D : f[x] = 0
    PROVE  Sum(f) = 0
<1>1. \A s \in SUBSET D :
          /\ Cardinality(s) \in Nat /\ (Cardinality(s) = 0 <=> s = {})
          /\ s # {} => /\ One(s) \in D /\ Rest(s) \in SUBSET D
                       /\ Cardinality(Rest(s)) = Cardinality(s) - 1
  BY RestSmaller
<1>2. PICK F : F = Iterated(f)
  OBVIOUS
<1>3. \A s \in SUBSET D : F[s] = IF s = {} THEN 0 ELSE f[One(s)] + F[Rest(s)]
  <2>1. DOMAIN f = D
    OBVIOUS
  <2>2. PICK e : e = [s \in SUBSET D |-> IF s = {} THEN 0 ELSE f[One(s)] + F[Rest(s)]]
    OBVIOUS
  <2>3. F = e
    BY <1>2, <2>1, <2>2, IteratedDefined
  <2> QED
    BY <2>2, <2>3
<1> DEFINE S == {n \in Nat : \A s \in SUBSET D : Cardinality(s) = n => F[s] = 0}
<1>4. 0 \in S
  BY <1>1, <1>3
<1>5. ASSUME NEW n \in S PROVE n + 1 \in S
  BY <1>1, <1>3
<1>6. S = Nat
  <2> HIDE DEF S
  <2> QED
    BY <1>4, <1>5, Induction, Zenon DEF S
<1>7. F[D] = 0
  BY <1>1, <1>6
<1> QED
  BY <1>2, <1>7, SumIs

(* A sum is a number.                                                        *)
LEMMA SumType ==
    ASSUME NEW D, IsFiniteSet(D), NEW f \in [D -> Nat]
    PROVE  Sum(f) \in Nat
<1>1. CASE D = {}
  <2>1. \A x \in D : f[x] = 0
    BY <1>1
  <2> QED
    BY <2>1, SumOfZeros
<1>2. CASE D # {}
  <2>1. PICK k \in D : TRUE
    BY <1>2
  <2> QED
    BY <2>1, SumChanged
<1> QED
  BY <1>1, <1>2

-----------------------------------------------------------------------------
(* The keys of the tables come from finitely many frames.                    *)
LEMMA Keys ==
    /\ IsFiniteSet(Flow) /\ IsFiniteSet(Address) /\ IsFiniteSet(App)
    /\ End \notin Flow
    /\ \A f \in Frame : FlowOf(f) \in Flow /\ f.src \in Address /\ f.dst \in Address
    /\ \A f \in Frame : f.domain # "" => AppOf[f.domain] \in App
<1>1. IsFiniteSet(Frame)
  BY StatisticsAssumption DEF StatisticsAssumption
<1>2. IsFiniteSet(Flow)
  <2>1. PICK m : m = [f \in Frame |-> FlowOf(f)]
    OBVIOUS
  <2>2. m \in Surjection(Frame, Flow)
    BY <2>1 DEF Flow, Surjection
  <2> QED
    BY <1>1, <2>2, FS_Surjection
<1>3. IsFiniteSet({f.src : f \in Frame})
  <2>1. PICK m : m = [f \in Frame |-> f.src]
    OBVIOUS
  <2>2. m \in Surjection(Frame, {f.src : f \in Frame})
    BY <2>1 DEF Surjection
  <2> QED
    BY <1>1, <2>2, FS_Surjection
<1>4. IsFiniteSet({f.dst : f \in Frame})
  <2>1. PICK m : m = [f \in Frame |-> f.dst]
    OBVIOUS
  <2>2. m \in Surjection(Frame, {f.dst : f \in Frame})
    BY <2>1 DEF Surjection
  <2> QED
    BY <1>1, <2>2, FS_Surjection
<1>5. IsFiniteSet(Address)
  BY <1>3, <1>4, FS_Union DEF Address
<1>6. IsFiniteSet(App)
  <2>1. PICK m : m = [f \in Frame |-> f.domain]
    OBVIOUS
  <2>2. m \in Surjection(Frame, {f.domain : f \in Frame})
    BY <2>1 DEF Surjection
  <2>3. IsFiniteSet({f.domain : f \in Frame})
    BY <1>1, <2>2, FS_Surjection
  <2>4. IsFiniteSet(Domain)
    BY <2>3, FS_Subset DEF Domain
  <2>5. PICK p : p = [d \in Domain |-> AppOf[d]]
    OBVIOUS
  <2>6. p \in Surjection(Domain, App)
    BY <2>5 DEF Surjection, App
  <2> QED
    BY <2>4, <2>6, FS_Surjection
<1>7. End \notin Flow
  BY DEF End, Flow, FlowOf
<1>8. \A f \in Frame : FlowOf(f) \in Flow /\ f.src \in Address /\ f.dst \in Address
  BY DEF Flow, Address
<1>9. \A f \in Frame : f.domain # "" => AppOf[f.domain] \in App
  BY DEF App, Domain
<1> QED
  BY <1>2, <1>5, <1>6, <1>7, <1>8, <1>9

-----------------------------------------------------------------------------
(* Where the capture loop is with its frame.                                 *)
FrameInv ==
    /\ at \in {"app", "named"} => frame.domain # "" /\ counter > 0
    /\ at = "end" => counter > 0
    /\ at \in {"talkers", "flow"} => counter < MaxFrames
    /\ \A p \in {"tcp", "udp", "icmp"} : protocols[p] <= counter + 1
    /\ at \notin {"talkers", "flow"} =>
          \A p \in {"tcp", "udp", "icmp"} : protocols[p] <= counter

(* Every flow is in the list once.                                           *)
Distinct(list) == \A i, j \in DOMAIN list : list[i] = list[j] => i = j

ListInv ==
    /\ nodes \in Seq(Flow) /\ Distinct(nodes)
    /\ \A k \in Flow \ Nodes : flows[k] = Zero

(* The listing and what it has so far.                                       *)
WalkInv ==
    /\ reader \in {"idle", "read", "advance"} /\ node \in Nodes \cup {End}
    /\ reader = "advance" => node # End
    /\ listed \in Seq([flow : Flow, packets : Nat])
    /\ \A i \in DOMAIN listed : listed[i].flow \in Nodes
    /\ listings \in 0..MaxListings
    /\ DOMAIN began \subseteq Nodes /\ began \in [DOMAIN began -> Nat]
    /\ rehashed \in BOOLEAN

CountsInv ==
    /\ at \in {"idle", "talkers", "flow", "app", "named", "end", "csv", "json"}
    /\ frame \in Frame
    /\ protocols \in [{"tcp", "udp", "icmp"} -> 0..MaxFrames]
    /\ talkers \in [Address -> Nat]
    /\ flows \in [Flow -> Counts] /\ apps \in [App -> Counts]
    /\ counter \in 0..MaxFrames /\ taken \in 0..counter
    /\ csv \in [Flow -> Nat] /\ json \in [Flow -> Nat]
    /\ stale \subseteq {"csv", "json"} /\ opened \in [{"csv", "json"} -> 0..counter]

TypeInv == CountsInv /\ FrameInv /\ ListInv /\ WalkInv

(* A list without repetitions is as long as the set of its elements.         *)
LEMMA DistinctLength ==
    ASSUME NEW list \in Seq(Flow), Distinct(list)
    PROVE  /\ IsFiniteSet({list[i] : i \in DOMAIN list})
           /\ Cardinality({list[i] : i \in DOMAIN list}) = Len(list)
<1>1. PICK n \in Nat : n = Len(list) /\ DOMAIN list = 1..n
  OBVIOUS
<1>5. PICK T : T = {list[i] : i \in DOMAIN list}
  OBVIOUS
<1>2. list \in Bijection(1..n, T)
  BY <1>1, <1>5 DEF Bijection, Injection, Surjection, IsInjective, Distinct
<1>3. IsFiniteSet(1..n) /\ Cardinality(1..n) = n
  BY FS_Interval
<1>4. IsFiniteSet(T) /\ Cardinality(T) = n
  BY <1>2, <1>3, FS_Bijection DEF ExistsBijection
<1> QED
  BY <1>1, <1>4, <1>5

(* Every variable has its type, and no more flows are listed than there are. *)
LEMMA TypeInvType == TypeInv => TypeOK
<1> SUFFICES ASSUME TypeInv PROVE TypeOK
  OBVIOUS
<1>1. Len(nodes) = Cardinality(Nodes)
  BY DistinctLength DEF TypeInv, ListInv, Nodes
<1> QED
  BY <1>1 DEF TypeInv, CountsInv, ListInv, WalkInv, TypeOK

(* Where a new flow goes unless the buckets grow: before some node.          *)
Inserted(s, list, k, p) ==
    /\ s \in Seq(Flow) /\ Len(s) = Len(list) + 1 /\ p \in 1..Len(s)
    /\ \A i \in 1..Len(list) : s[IF i < p THEN i ELSE i + 1] = list[i]
    /\ s[p] = k

(* The places of two lists joined.                                          *)
LEMMA Joined ==
    ASSUME NEW x \in Seq(Flow), NEW y \in Seq(Flow)
    PROVE  /\ x \o y \in Seq(Flow) /\ Len(x) \in Nat /\ Len(y) \in Nat
           /\ Len(x \o y) = Len(x) + Len(y)
           /\ \A i \in 1..Len(x) : (x \o y)[i] = x[i]
           /\ \A i \in 1..Len(y) : (x \o y)[Len(x) + i] = y[i]
  OBVIOUS

(* Unless the buckets grow, a new flow goes to one place of the list.       *)
LEMMA InsertionPlace ==
    ASSUME NEW k \in Flow, NEW s \in Insertions(k), nodes \in Seq(Flow),
           Len(nodes) + 1 \notin RehashAt
    PROVE  \E p \in Nat : Inserted(s, nodes, k, p)
<1>1. PICK i \in 0..(IF nodes = <<>> THEN 0 ELSE Len(nodes) - 1) :
         s = SubSeq(nodes, 1, i) \o <<k>> \o SubSeq(nodes, i + 1, Len(nodes))
  BY DEF Insertions
<1>2. PICK n \in Nat : n = Len(nodes) /\ i \in 0..n
  OBVIOUS
<1>3. PICK a, b : a = SubSeq(nodes, 1, i) /\ b = SubSeq(nodes, i + 1, n)
  OBVIOUS
<1>4. /\ a \in Seq(Flow) /\ Len(a) = i /\ \A j \in 1..i : a[j] = nodes[j]
      /\ b \in Seq(Flow) /\ Len(b) = n - i /\ \A j \in 1..(n - i) : b[j] = nodes[i + j]
  BY <1>2, <1>3
<1>5. s = a \o <<k>> \o b
  BY <1>1, <1>2, <1>3
<1>6. PICK c : c = a \o <<k>>
  OBVIOUS
<1>7. /\ c \in Seq(Flow) /\ Len(c) = i + 1 /\ \A j \in 1..i : c[j] = nodes[j]
      /\ c[i + 1] = k
  <2>1. PICK one \in Seq(Flow) : one = <<k>> /\ Len(one) = 1 /\ one[1] = k
    <3>1. <<k>> \in Seq(Flow) /\ Len(<<k>>) = 1 /\ <<k>>[1] = k
      OBVIOUS
    <3> QED
      BY <3>1, Zenon
  <2>2. /\ c \in Seq(Flow) /\ Len(c) = Len(a) + Len(one) /\ \A j \in 1..Len(a) : c[j] = a[j]
        /\ \A j \in 1..Len(one) : c[Len(a) + j] = one[j]
    BY <1>4, <1>6, <2>1, Joined
  <2>3. 1 \in 1..Len(one) /\ i \in Nat
    BY <1>2, <2>1
  <2>4. Len(c) = i + 1 /\ c[i + 1] = k
    BY <1>4, <2>1, <2>2, <2>3, Zenon
  <2> QED
    BY <1>4, <2>2, <2>4, Zenon
<1>8. /\ s \in Seq(Flow) /\ Len(s) = n + 1
      /\ \A j \in 1..(i + 1) : s[j] = c[j]
      /\ \A j \in 1..(n - i) : s[i + 1 + j] = b[j]
  <2>1. s = c \o b /\ b \in Seq(Flow) /\ c \in Seq(Flow)
    BY <1>4, <1>5, <1>6, <1>7
  <2>2. /\ s \in Seq(Flow) /\ Len(s) = Len(c) + Len(b)
        /\ \A j \in 1..Len(c) : s[j] = c[j]
        /\ \A j \in 1..Len(b) : s[Len(c) + j] = b[j]
    BY <2>1, Joined
  <2>3. Len(c) = i + 1 /\ Len(b) = n - i
    BY <1>4, <1>7, Zenon
  <2>4. (i + 1) + (n - i) = n + 1
    BY ONLY <1>2
  <2> QED
    BY <2>2, <2>3, <2>4, Zenon
<1>9. ASSUME NEW j \in 1..n PROVE s[IF j < i + 1 THEN j ELSE j + 1] = nodes[j]
  <2>1. CASE j <= i
    BY <1>2, <1>7, <1>8, <2>1
  <2>2. CASE j > i
    <3>1. PICK m \in 1..(n - i) : j = i + m
      <4>1. j - i \in 1..(n - i) /\ j = i + (j - i)
        BY <1>2, <2>2
      <4> QED
        BY <4>1
    <3>2. s[i + 1 + m] = nodes[i + m]
      BY <1>4, <1>8
    <3>3. i + 1 + m = j + 1 /\ ~(j < i + 1)
      BY <1>2, <3>1
    <3> QED
      BY <3>1, <3>2, <3>3
  <2> QED
    BY <1>2, <2>1, <2>2
<1>10. s[i + 1] = k /\ i + 1 \in 1..Len(s) /\ i + 1 \in Nat
  BY <1>2, <1>7, <1>8
<1>11. Inserted(s, nodes, k, i + 1)
  BY <1>2, <1>8, <1>9, <1>10 DEF Inserted
<1> QED
  BY <1>10, <1>11

(* With a new flow the list is still without repetitions.                    *)
LEMMA InsertionKeeps ==
    ASSUME NEW k \in Flow, NEW s \in Insertions(k), nodes \in Seq(Flow), Distinct(nodes),
           k \notin Nodes
    PROVE  /\ s \in Seq(Flow) /\ Distinct(s) /\ Len(s) = Len(nodes) + 1
           /\ {s[i] : i \in DOMAIN s} = Nodes \cup {k}
<1>0. PICK n \in Nat : n = Len(nodes) /\ DOMAIN nodes = 1..n
  OBVIOUS
<1>1. CASE n + 1 \in RehashAt
  <2>1. s \in [1..n + 1 -> Nodes \cup {k}] /\ Distinct(s)
    BY <1>0, <1>1 DEF Insertions, Distinct
  <2>2. Nodes \subseteq Flow /\ IsFiniteSet(Nodes) /\ Cardinality(Nodes) = n
    <3>1. Nodes \subseteq Flow
      BY DEF Nodes
    <3>2. IsFiniteSet(Nodes) /\ Cardinality(Nodes) = n
      BY <1>0, DistinctLength, Zenon DEF Nodes
    <3> QED
      BY <3>1, <3>2
  <2>3. s \in Seq(Flow) /\ Len(s) = n + 1
    BY <2>1, <2>2
  <2>4. IsFiniteSet(Nodes \cup {k}) /\ Cardinality(Nodes \cup {k}) = n + 1
    BY <2>2, FS_AddElement
  <2>5. Cardinality(1..n + 1) = n + 1
    BY FS_Interval
  <2>6. s \in Injection(1..n + 1, Nodes \cup {k})
    BY <2>1 DEF Injection, IsInjective, Distinct
  <2>7. s \in Surjection(1..n + 1, Nodes \cup {k})
    BY <2>4, <2>5, <2>6, FS_Injection
  <2>8. {s[i] : i \in DOMAIN s} = Nodes \cup {k}
    BY <2>1, <2>7 DEF Surjection
  <2> QED
    BY <1>0, <2>1, <2>3, <2>8
<1>2. CASE n + 1 \notin RehashAt
  <2>1. PICK p \in Nat : Inserted(s, nodes, k, p)
    BY <1>0, <1>2, InsertionPlace
  <2>2. /\ s \in Seq(Flow) /\ Len(s) = n + 1 /\ p \in 1..(n + 1) /\ s[p] = k
        /\ \A i \in 1..n : s[IF i < p THEN i ELSE i + 1] = nodes[i]
        /\ DOMAIN s = 1..(n + 1)
    BY <1>0, <2>1 DEF Inserted
  <2>3. \A i \in 1..(n + 1) : i < p => i \in 1..n /\ s[i] = nodes[i]
    BY <2>2
  <2>4. ASSUME NEW i \in 1..(n + 1), i > p PROVE i - 1 \in 1..n /\ s[i] = nodes[i - 1]
    <3>1. i - 1 \in 1..n /\ ~(i - 1 < p) /\ (i - 1) + 1 = i
      BY <2>2, <2>4
    <3>2. s[(i - 1) + 1] = nodes[i - 1]
      BY <2>2, <3>1
    <3> QED
      BY <3>1, <3>2
  <2>5. \A i \in 1..n : nodes[i] # k
    BY <1>0 DEF Nodes
  <2>6. Distinct(s)
    <3> SUFFICES ASSUME NEW i \in 1..(n + 1), NEW j \in 1..(n + 1), s[i] = s[j], i < j PROVE FALSE
      BY <2>2 DEF Distinct
    <3>1. CASE j < p
      BY <1>0, <2>3, <3>1 DEF Distinct
    <3>2. CASE j = p
      BY <2>2, <2>3, <2>5, <3>2
    <3>3. CASE j > p /\ i < p
      <4>1. nodes[i] = nodes[j - 1] /\ i \in 1..n /\ j - 1 \in 1..n /\ i # j - 1
        BY <2>2, <2>3, <2>4, <3>3
      <4> QED
        BY <1>0, <4>1 DEF Distinct
    <3>4. CASE i = p
      BY <2>2, <2>4, <2>5, <3>4
    <3>5. CASE i > p
      <4>1. nodes[i - 1] = nodes[j - 1] /\ i - 1 \in 1..n /\ j - 1 \in 1..n /\ i - 1 # j - 1
        BY <2>2, <2>4, <3>5
      <4> QED
        BY <1>0, <4>1 DEF Distinct
    <3> QED
      BY <2>2, <3>1, <3>2, <3>3, <3>4, <3>5
  <2>7. ASSUME NEW i \in 1..(n + 1) PROVE s[i] \in Nodes \cup {k}
    <3>1. CASE i < p
      BY <1>0, <2>3, <3>1 DEF Nodes
    <3>2. CASE i = p
      BY <2>2, <3>2
    <3>3. CASE i > p
      BY <1>0, <2>4, <3>3 DEF Nodes
    <3> QED
      BY <2>2, <3>1, <3>2, <3>3
  <2>8. ASSUME NEW x \in Nodes \cup {k} PROVE \E i \in 1..(n + 1) : s[i] = x
    <3>1. CASE x = k
      BY <2>2, <3>1
    <3>2. CASE x \in Nodes
      <4>1. PICK i \in 1..n : x = nodes[i]
        BY <1>0, <3>2 DEF Nodes
      <4>2. (IF i < p THEN i ELSE i + 1) \in 1..(n + 1)
        OBVIOUS
      <4> QED
        BY <2>2, <4>1, <4>2
    <3> QED
      BY <3>1, <3>2
  <2>9. {s[i] : i \in DOMAIN s} = Nodes \cup {k}
    <3>1. \A x \in {s[i] : i \in DOMAIN s} : x \in Nodes \cup {k}
      BY <2>2, <2>7, Zenon
    <3>2. \A x \in Nodes \cup {k} : x \in {s[i] : i \in DOMAIN s}
      BY <2>2, <2>8, Zenon
    <3> QED
      BY <3>1, <3>2, Zenon
  <2> QED
    BY <1>0, <2>2, <2>6, <2>9
<1> QED
  BY <1>1, <1>2

-----------------------------------------------------------------------------
(* Empty tables have their types.                                           *)
LEMMA TypeInit == Init => TypeInv
<1> SUFFICES ASSUME Init PROVE TypeInv
  OBVIOUS
<1>1. frame \in Frame
  BY StatisticsAssumption DEF Init, StatisticsAssumption
<1>2. MaxFrames \in Nat /\ MaxListings \in Nat
  BY StatisticsAssumption DEF StatisticsAssumption
<1>3. CountsInv
  BY <1>1, <1>2 DEF Init, CountsInv, Counts, Zero
<1>4. FrameInv
  BY DEF Init, FrameInv
<1>5. nodes = <<>> /\ DOMAIN nodes = {} /\ Nodes = {}
  BY DEF Init, Nodes
<1>6. ListInv
  BY <1>5 DEF Init, ListInv, Distinct
<1>7. WalkInv
  <2>1. listed = <<>> /\ began = <<>> /\ listings = 0 /\ reader = "idle" /\ node = End /\ rehashed = FALSE
    BY DEF Init
  <2>2. listed \in Seq([flow : Flow, packets : Nat]) /\ DOMAIN listed = {}
    BY <2>1
  <2>3. DOMAIN began = {} /\ began \in [DOMAIN began -> Nat]
    BY <2>1
  <2>4. listings \in 0..MaxListings
    BY <1>2, <2>1
  <2> QED
    BY <1>5, <2>1, <2>2, <2>3, <2>4 DEF WalkInv
<1> QED
  BY <1>3, <1>4, <1>6, <1>7 DEF TypeInv

(* The counts of a frame.                                                    *)
LEMMA AddType ==
    ASSUME NEW c \in Counts, frame \in Frame
    PROVE  Add(c) \in Counts /\ Add(c).packets = c.packets + 1 /\ Add(c).bytes = c.bytes + frame.bytes
           /\ frame.bytes \in Nat
<1>1. frame.bytes \in Nat
  BY StatisticsAssumption DEF StatisticsAssumption
<1> QED
  BY <1>1 DEF Add, Counts

(* Counts stay numbers, whatever frame is counted.                          *)
LEMMA CountsStep == TypeInv /\ [Next]_vars => CountsInv' /\ FrameInv'
<1> SUFFICES ASSUME CountsInv, FrameInv, [Next]_vars PROVE CountsInv' /\ FrameInv'
  BY DEF TypeInv
<1>a. MaxFrames \in Nat
  BY StatisticsAssumption DEF StatisticsAssumption
<1>b. counter \in Nat /\ counter <= MaxFrames /\ taken \in Nat /\ taken <= counter /\ frame \in Frame
  <2>1. counter \in 0..MaxFrames /\ taken \in 0..counter /\ frame \in Frame
    BY DEF CountsInv
  <2> QED
    BY <1>a, <2>1
<1>c. /\ DOMAIN protocols = {"tcp", "udp", "icmp"}
      /\ \A p \in {"tcp", "udp", "icmp"} : protocols[p] \in Nat /\ protocols[p] <= MaxFrames
  <2>1. protocols \in [{"tcp", "udp", "icmp"} -> 0..MaxFrames]
    BY DEF CountsInv
  <2> QED
    BY <1>a, <2>1
<1>d. /\ at \notin {"talkers", "flow"} => \A p \in {"tcp", "udp", "icmp"} : protocols[p] <= counter
      /\ \A p \in {"tcp", "udp", "icmp"} : protocols[p] <= counter + 1
  BY DEF FrameInv
<1>e. \A n \in Nat : opened \in [{"csv", "json"} -> 0..counter] /\ counter <= n
                     => opened \in [{"csv", "json"} -> 0..n]
  BY <1>b
<1>f. opened \in [{"csv", "json"} -> 0..counter] /\ counter + 1 \in Nat
      /\ \A name \in {"csv", "json"} :
            [opened EXCEPT ![name] = counter] \in [{"csv", "json"} -> 0..counter]
  BY <1>b DEF CountsInv
<1>1. ASSUME NEW f \in Frame, CountProtocol(f) PROVE CountsInv' /\ FrameInv'
  <2>1. /\ protocols' = [p \in {"tcp", "udp", "icmp"} |-> protocols[p] + IF f.proto = p THEN 1 ELSE 0]
        /\ at = "idle" /\ counter < MaxFrames
    BY <1>1, <1>c DEF CountProtocol, ProtocolCounts
  <2>2. \A p \in {"tcp", "udp", "icmp"} :
            protocols'[p] = protocols[p] + IF f.proto = p THEN 1 ELSE 0
    BY <2>1
  <2>3. \A p \in {"tcp", "udp", "icmp"} : protocols'[p] <= counter + 1 /\ protocols'[p] \in 0..MaxFrames
    BY <1>a, <1>b, <1>c, <1>d, <2>1, <2>2
  <2>4. protocols' \in [{"tcp", "udp", "icmp"} -> 0..MaxFrames] /\ DOMAIN protocols' = {"tcp", "udp", "icmp"}
    BY <2>1, <2>3
  <2>5. CASE f.proto = "not ip"
    <3>1. at' = "end" /\ counter' = counter + 1
      BY <1>1, <2>5 DEF CountProtocol
    <3>2. /\ counter' \in 0..MaxFrames /\ counter' > 0 /\ taken \in 0..counter'
          /\ opened \in [{"csv", "json"} -> 0..counter']
      BY <1>a, <1>b, <1>e, <1>f, <2>1, <3>1
    <3>3. CountsInv'
      BY <1>1, <2>4, <3>1, <3>2 DEF CountsInv, CountProtocol, files
    <3>4. FrameInv'
      <4>1. \A p \in {"tcp", "udp", "icmp"} : protocols'[p] <= counter' /\ protocols'[p] <= counter' + 1
        BY <1>a, <1>b, <2>3, <3>1
      <4> QED
        BY <3>1, <3>2, <4>1 DEF FrameInv
    <3> QED
      BY <3>3, <3>4
  <2>6. CASE f.proto # "not ip"
    <3>1. at' = "talkers" /\ counter' = counter
      BY <1>1, <2>6 DEF CountProtocol
    <3>2. CountsInv'
      BY <1>1, <2>4, <3>1 DEF CountsInv, CountProtocol, files
    <3>3. FrameInv'
      <4>1. \A p \in {"tcp", "udp", "icmp"} : protocols'[p] <= counter' + 1
        BY <2>3, <3>1
      <4> QED
        BY <2>1, <3>1, <4>1 DEF FrameInv
    <3> QED
      BY <3>2, <3>3
  <2> QED
    BY <2>5, <2>6
<1>2. ASSUME CountTalkers PROVE CountsInv' /\ FrameInv'
  <2>1. frame.bytes \in Nat /\ frame.src \in Address /\ frame.dst \in Address
    BY <1>b, Keys, StatisticsAssumption DEF StatisticsAssumption
  <2>2. talkers' \in [Address -> Nat]
    BY <1>2, <2>1 DEF CountTalkers, AddTraffic, CountsInv
  <2>3. CountsInv'
    BY <1>2, <2>2 DEF CountTalkers, files, CountsInv
  <2>4. FrameInv'
    BY <1>2 DEF CountTalkers, FrameInv
  <2> QED
    BY <2>3, <2>4
<1>3. ASSUME InsertFlow PROVE CountsInv' /\ FrameInv'
  BY <1>3 DEF InsertFlow, files, CountsInv, FrameInv
<1>4. ASSUME CountFlow PROVE CountsInv' /\ FrameInv'
  <2>1. flows' \in [Flow -> Counts]
    BY <1>4, <1>b, Keys, AddType DEF CountFlow, CountsInv
  <2>2. CASE at = "flow"
    <3>1. counter' = counter + 1 /\ taken' = taken + 1 /\ counter < MaxFrames /\ protocols' = protocols
      BY <1>4, <2>2 DEF CountFlow, Counted, FrameInv
    <3>2. at' = IF frame.domain # "" THEN "app" ELSE "end"
      BY <1>4, <2>2 DEF CountFlow
    <3>3. /\ counter' \in 0..MaxFrames /\ taken' \in 0..counter' /\ counter' > 0
          /\ opened \in [{"csv", "json"} -> 0..counter']
      BY <1>a, <1>b, <1>e, <1>f, <3>1
    <3>4. CountsInv'
      BY <1>4, <2>1, <3>2, <3>3 DEF CountFlow, files, CountsInv
    <3>5. frame' = frame /\ (at' = "app" => frame.domain # "")
      BY <1>4, <3>2 DEF CountFlow
    <3>6. \A p \in {"tcp", "udp", "icmp"} : protocols'[p] <= counter' /\ protocols'[p] <= counter' + 1
      BY <1>b, <1>c, <1>d, <3>1
    <3>7. FrameInv'
      BY <1>b, <1>c, <3>1, <3>2, <3>3, <3>5, <3>6 DEF FrameInv
    <3> QED
      BY <3>4, <3>7
  <2>3. CASE at = "named"
    <3>1. counter' = counter /\ taken' = taken /\ at' = "end" /\ protocols' = protocols /\ counter > 0
      <4>1. at # "flow" /\ Counted /\ at' = "end" /\ protocols' = protocols /\ counter > 0
        BY <1>4, <2>3 DEF CountFlow, FrameInv
      <4>2. counter' = counter + 0 /\ taken' = taken + 0
        BY <4>1 DEF Counted
      <4> QED
        BY <1>b, <4>1, <4>2
    <3>2. CountsInv'
      BY <1>4, <2>1, <3>1 DEF CountFlow, files, CountsInv
    <3>3. \A p \in {"tcp", "udp", "icmp"} : protocols'[p] <= counter' /\ protocols'[p] <= counter' + 1
      BY <1>b, <1>c, <1>d, <2>3, <3>1
    <3>4. FrameInv'
      BY <1>b, <1>c, <3>1, <3>3 DEF FrameInv
    <3> QED
      BY <3>2, <3>4
  <2> QED
    BY <1>4, <2>2, <2>3 DEF CountFlow
<1>5. ASSUME CountApp PROVE CountsInv' /\ FrameInv'
  <2>1. frame.domain # ""
    BY <1>5 DEF CountApp, FrameInv
  <2>2. apps' \in [App -> Counts]
    BY <1>b, <1>5, <2>1, Keys, AddType DEF CountApp, CountsInv
  <2>3. CountsInv'
    BY <1>5, <2>2 DEF CountApp, files, CountsInv
  <2>4. FrameInv'
    BY <1>5 DEF CountApp, FrameInv
  <2> QED
    BY <2>3, <2>4
<1>6. ASSUME EndFrame PROVE CountsInv' /\ FrameInv'
  BY <1>6 DEF EndFrame, tables, files, CountsInv, FrameInv
<1>7. ASSUME ExportCSV PROVE CountsInv' /\ FrameInv'
  <2>1. PacketsOf \in [Flow -> Nat]
    BY DEF PacketsOf, Counts, CountsInv
  <2>2. CountsInv'
    <3>1. opened' \in [{"csv", "json"} -> 0..counter] /\ stale' \subseteq {"csv", "json"}
      BY <1>7, <1>f DEF ExportCSV, Succeeds, Fails, CountsInv
    <3> QED
      BY <1>7, <2>1, <3>1 DEF ExportCSV, tables, CountsInv
  <2>3. FrameInv'
    BY <1>7 DEF ExportCSV, tables, FrameInv
  <2> QED
    BY <2>2, <2>3
<1>8. ASSUME ExportJSON PROVE CountsInv' /\ FrameInv'
  <2>1. PacketsOf \in [Flow -> Nat]
    BY DEF PacketsOf, Counts, CountsInv
  <2>2. CountsInv'
    <3>1. opened' \in [{"csv", "json"} -> 0..counter] /\ stale' \subseteq {"csv", "json"}
      BY <1>8, <1>f DEF ExportJSON, Succeeds, Fails, CountsInv
    <3> QED
      BY <1>8, <2>1, <3>1 DEF ExportJSON, tables, CountsInv
  <2>3. FrameInv'
    BY <1>8 DEF ExportJSON, tables, FrameInv
  <2> QED
    BY <2>2, <2>3
<1>9. ASSUME Listing PROVE CountsInv' /\ FrameInv'
  <2>1. UNCHANGED <<at, frame, tables, files>>
    BY <1>9 DEF Listing, BeginListing, ListFlow, Advance, AnswerListing
  <2> QED
    BY <2>1 DEF tables, files, CountsInv, FrameInv
<1>10. ASSUME UNCHANGED vars PROVE CountsInv' /\ FrameInv'
  BY <1>10 DEF vars, tables, files, CountsInv, FrameInv
<1> QED
  BY <1>1, <1>2, <1>3, <1>4, <1>5, <1>6, <1>7, <1>8, <1>9, <1>10 DEF Next, Capture

(* A flow is only counted once it is in the list.                            *)
LEMMA ListStep == TypeInv /\ [Next]_vars => ListInv'
<1> SUFFICES ASSUME TypeInv, [Next]_vars PROVE ListInv'
  OBVIOUS
<1> USE DEF TypeInv, ListInv
<1>1. ASSUME UNCHANGED <<nodes, flows>> PROVE ListInv'
  BY <1>1 DEF Nodes
<1>2. ASSUME InsertFlow PROVE ListInv'
  <2>1. FlowOf(frame) \in Flow /\ FlowOf(frame) \notin Nodes /\ nodes' \in Insertions(FlowOf(frame))
        /\ flows' = flows
    BY <1>2, Keys DEF InsertFlow, CountsInv
  <2>2. nodes' \in Seq(Flow) /\ Distinct(nodes') /\ Nodes' = Nodes \cup {FlowOf(frame)}
    BY <2>1, InsertionKeeps DEF Nodes
  <2> QED
    BY <2>1, <2>2
<1>3. ASSUME CountFlow PROVE ListInv'
  <2>1. nodes' = nodes /\ FlowOf(frame) \in Nodes /\ flows' = [flows EXCEPT ![FlowOf(frame)] = Add(@)]
    BY <1>3 DEF CountFlow
  <2>2. Nodes' = Nodes
    BY <2>1 DEF Nodes
  <2>3. \A k \in Flow \ Nodes : flows'[k] = flows[k]
    BY <2>1 DEF CountsInv
  <2> QED
    BY <2>1, <2>2, <2>3
<1>4. ASSUME NEW f \in Frame, CountProtocol(f) PROVE UNCHANGED <<nodes, flows>>
  BY <1>4 DEF CountProtocol
<1>5. ASSUME CountTalkers \/ CountApp PROVE UNCHANGED <<nodes, flows>>
  BY <1>5 DEF CountTalkers, CountApp
<1>6. ASSUME EndFrame \/ ExportCSV \/ ExportJSON PROVE UNCHANGED <<nodes, flows>>
  BY <1>6 DEF EndFrame, ExportCSV, ExportJSON, tables
<1>7. ASSUME Listing PROVE UNCHANGED <<nodes, flows>>
  BY <1>7 DEF Listing, BeginListing, ListFlow, Advance, AnswerListing, tables
<1>8. ASSUME UNCHANGED vars PROVE UNCHANGED <<nodes, flows>>
  BY <1>8 DEF vars, tables
<1> QED
  BY <1>1, <1>2, <1>3, <1>4, <1>5, <1>6, <1>7, <1>8 DEF Next, Capture

(* The node after a node, if there is one.                                   *)
LEMMA FollowingIs ==
    ASSUME nodes \in Seq(Flow), Distinct(nodes), NEW k \in Nodes
    PROVE  \E i \in 1..Len(nodes) :
              nodes[i] = k /\ Following(k) = IF i = Len(nodes) THEN End ELSE nodes[i + 1]
<1>1. PICK i \in DOMAIN nodes : nodes[i] = k
  BY DEF Nodes
<1>2. (CHOOSE j \in DOMAIN nodes : nodes[j] = k) = i
  BY <1>1 DEF Distinct
<1>3. i \in 1..Len(nodes)
  BY <1>1
<1> QED
  BY <1>1, <1>2, <1>3 DEF Following

(* The iterator stays on a node of the list, or at its end.                 *)
LEMMA WalkStep == TypeInv /\ [Next]_vars => WalkInv'
<1> SUFFICES ASSUME TypeInv, [Next]_vars PROVE WalkInv'
  OBVIOUS
<1> USE DEF TypeInv, WalkInv
<1>1. ASSUME UNCHANGED <<listing, rehashed, nodes>> PROVE WalkInv'
  BY <1>1 DEF listing, Nodes
<1>2. ASSUME InsertFlow PROVE WalkInv'
  <2>1. FlowOf(frame) \in Flow /\ FlowOf(frame) \notin Nodes /\ nodes' \in Insertions(FlowOf(frame))
    BY <1>2, Keys DEF InsertFlow, CountsInv
  <2>2. Nodes' = Nodes \cup {FlowOf(frame)}
    BY <2>1, InsertionKeeps DEF Nodes, ListInv
  <2>3. rehashed' \in BOOLEAN /\ UNCHANGED listing
    BY <1>2 DEF InsertFlow
  <2> QED
    BY <2>2, <2>3 DEF listing
<1>3. ASSUME BeginListing PROVE WalkInv'
  <2>1. Nodes' = Nodes /\ nodes' = nodes
    BY <1>3 DEF BeginListing, tables, Nodes
  <2>2. node' \in Nodes \cup {End}
    BY <1>3 DEF BeginListing, ListInv, Nodes
  <2>3. began' \in [Nodes -> Nat] /\ DOMAIN began' = Nodes
    BY <1>3 DEF BeginListing, ListInv, CountsInv, Counts, Nodes
  <2>4. listings' \in 0..MaxListings
    <3>1. listings \in 0..MaxListings /\ listings < MaxListings /\ listings' = listings + 1
      BY <1>3 DEF BeginListing
    <3>2. MaxListings \in Nat
      BY StatisticsAssumption DEF StatisticsAssumption
    <3> QED
      BY <3>1, <3>2
  <2>5. listed' = <<>> /\ reader' = "read" /\ rehashed' = FALSE
    BY <1>3 DEF BeginListing
  <2>6. listed' \in Seq([flow : Flow, packets : Nat]) /\ DOMAIN listed' = {}
    BY <2>5
  <2> QED
    BY <2>1, <2>2, <2>3, <2>4, <2>5, <2>6
<1>4. ASSUME ListFlow PROVE WalkInv'
  <2>1. Nodes' = Nodes
    BY <1>4 DEF ListFlow, tables, Nodes
  <2>2. node \in Nodes /\ node \in Flow /\ flows[node].packets \in Nat
    BY <1>4 DEF ListFlow, CountsInv, Counts, ListInv, Nodes
  <2>3. PICK r : r = [flow |-> node, packets |-> flows[node].packets]
    OBVIOUS
  <2>6. r \in [flow : Flow, packets : Nat] /\ r.flow = node
    BY <2>2, <2>3
  <2>4. listed' = Append(listed, r)
    BY <1>4, <2>3 DEF ListFlow
  <2>5. /\ listed' \in Seq([flow : Flow, packets : Nat])
        /\ \A i \in DOMAIN listed' : listed'[i].flow \in Nodes
    BY <2>2, <2>4, <2>6
  <2> QED
    BY <1>4, <2>1, <2>5 DEF ListFlow
<1>5. ASSUME Advance PROVE WalkInv'
  <2>1. nodes' = nodes /\ Nodes' = Nodes
    BY <1>5 DEF Advance, tables, Nodes
  <2>2. node \in Nodes
    BY <1>5 DEF Advance
  <2>3. Following(node) \in Nodes \cup {End}
    BY <2>2, FollowingIs DEF ListInv, Nodes
  <2> QED
    BY <1>5, <2>1, <2>3 DEF Advance
<1>6. ASSUME AnswerListing PROVE WalkInv'
  <2>1. Nodes' = Nodes
    BY <1>6 DEF AnswerListing, tables, Nodes
  <2>2. listed' = <<>> /\ began' = <<>> /\ rehashed' = FALSE /\ reader' = "idle"
    BY <1>6 DEF AnswerListing
  <2>3. DOMAIN began' = {} /\ began' \in [{} -> Nat]
    BY <2>2
  <2>4. listed' \in Seq([flow : Flow, packets : Nat]) /\ DOMAIN listed' = {}
    BY <2>2
  <2>5. UNCHANGED <<node, listings>>
    BY <1>6 DEF AnswerListing
  <2> QED
    BY <2>1, <2>2, <2>3, <2>4, <2>5
<1>7. ASSUME NEW f \in Frame, CountProtocol(f) PROVE UNCHANGED <<listing, rehashed, nodes>>
  BY <1>7 DEF CountProtocol
<1>8. ASSUME CountTalkers \/ CountFlow \/ CountApp PROVE UNCHANGED <<listing, rehashed, nodes>>
  BY <1>8 DEF CountTalkers, CountFlow, CountApp
<1>9. ASSUME EndFrame \/ ExportCSV \/ ExportJSON PROVE UNCHANGED <<listing, rehashed, nodes>>
  BY <1>9 DEF EndFrame, ExportCSV, ExportJSON, tables
<1>10. ASSUME UNCHANGED vars PROVE UNCHANGED <<listing, rehashed, nodes>>
  BY <1>10 DEF vars, tables
<1> QED
  BY <1>1, <1>2, <1>3, <1>4, <1>5, <1>6, <1>7, <1>8, <1>9, <1>10 DEF Next, Capture, Listing

(* The strengthened types hold in every behaviour.                          *)
LEMMA TypeInvCorrect == Spec => []TypeInv
<1>1. TypeInv /\ [Next]_vars => TypeInv'
  BY CountsStep, ListStep, WalkStep DEF TypeInv
<1> QED
  BY <1>1, TypeInit, PTL DEF Spec

(* The tables, the files and the listing keep their types, the flows' list   *)
(* has no flow twice, and its flows are the ones with counts.                *)
THEOREM TypeCorrect == Spec => []TypeOK
  BY TypeInvCorrect, TypeInvType, PTL

-----------------------------------------------------------------------------
(* The sums of a table of counts, and of a table with one count more.        *)
LEMMA TableType ==
    ASSUME NEW K, IsFiniteSet(K), NEW table \in [K -> Counts]
    PROVE  Packets(table) \in Nat /\ Bytes(table) \in Nat
<1>1. PICK p, b : /\ p = [k \in DOMAIN table |-> table[k].packets]
                  /\ b = [k \in DOMAIN table |-> table[k].bytes]
  OBVIOUS
<1>2. p \in [K -> Nat] /\ b \in [K -> Nat]
  BY <1>1 DEF Counts
<1>3. Packets(table) = Sum(p) /\ Bytes(table) = Sum(b)
  BY <1>1, Zenon DEF Packets, Bytes
<1> QED
  BY <1>2, <1>3, SumType

(* One packet more in one count: the sums grow by it and by its bytes.      *)
LEMMA TableAdded ==
    ASSUME NEW K, IsFiniteSet(K), NEW table \in [K -> Counts], NEW k \in K, frame \in Frame,
           NEW more, more = [table EXCEPT ![k] = Add(@)]
    PROVE  /\ Packets(more) = Packets(table) + 1
           /\ Bytes(more) = Bytes(table) + frame.bytes
<1>1. more \in [K -> Counts] /\ table[k] \in Counts /\ more[k] = Add(table[k])
      /\ \A x \in K : x # k => more[x] = table[x]
  BY AddType
<1>2. /\ more[k].packets = table[k].packets + 1 /\ more[k].bytes = table[k].bytes + frame.bytes
      /\ table[k].packets \in Nat /\ table[k].bytes \in Nat /\ frame.bytes \in Nat
  BY <1>1, AddType DEF Counts
<1>3. PICK p : p = [x \in DOMAIN table |-> table[x].packets]
  OBVIOUS
<1>4. PICK q : q = [x \in DOMAIN more |-> more[x].packets]
  OBVIOUS
<1>5. PICK b : b = [x \in DOMAIN table |-> table[x].bytes]
  OBVIOUS
<1>6. PICK c : c = [x \in DOMAIN more |-> more[x].bytes]
  OBVIOUS
<1>7. /\ Packets(table) = Sum(p) /\ Packets(more) = Sum(q)
      /\ Bytes(table) = Sum(b) /\ Bytes(more) = Sum(c)
  BY <1>3, <1>4, <1>5, <1>6, Zenon DEF Packets, Bytes
<1>8. /\ p \in [K -> Nat] /\ q \in [K -> Nat] /\ b \in [K -> Nat] /\ c \in [K -> Nat]
      /\ p[k] = table[k].packets /\ q[k] = more[k].packets
      /\ b[k] = table[k].bytes /\ c[k] = more[k].bytes
      /\ \A x \in K : x # k => p[x] = q[x] /\ b[x] = c[x]
  BY <1>1, <1>3, <1>4, <1>5, <1>6 DEF Counts
<1>9. \A f, g \in [K -> Nat] :
          (\A x \in K : x # k => f[x] = g[x]) => Sum(g) + f[k] = Sum(f) + g[k]
  <2>1. ASSUME NEW f \in [K -> Nat], NEW g \in [K -> Nat], \A x \in K : x # k => f[x] = g[x]
        PROVE  Sum(g) + f[k] = Sum(f) + g[k]
    BY ONLY <2>1, f \in [K -> Nat], g \in [K -> Nat], k \in K, IsFiniteSet(K), SumChanged
  <2> QED
    BY <2>1
<1>10. /\ Sum(q) + p[k] = Sum(p) + q[k] /\ Sum(c) + b[k] = Sum(b) + c[k]
       /\ Sum(p) \in Nat /\ Sum(q) \in Nat /\ Sum(b) \in Nat /\ Sum(c) \in Nat
  <2>1. Sum(q) + p[k] = Sum(p) + q[k]
    BY <1>8, <1>9, Zenon
  <2>2. Sum(c) + b[k] = Sum(b) + c[k]
    BY <1>8, <1>9, Zenon
  <2> QED
    BY <1>8, <2>1, <2>2, SumType
<1> QED
  BY <1>2, <1>7, <1>8, <1>10

(* Bytes added for one address: the sum grows by them.                      *)
LEMMA TrafficAdded ==
    ASSUME NEW table \in [Address -> Nat], NEW ip \in Address, frame \in Frame
    PROVE  /\ AddTraffic(table, ip) \in [Address -> Nat]
           /\ Sum(table) \in Nat
           /\ Sum(AddTraffic(table, ip)) = Sum(table) + frame.bytes
<1>1. frame.bytes \in Nat
  BY StatisticsAssumption DEF StatisticsAssumption
<1>2. PICK more : more = AddTraffic(table, ip)
  OBVIOUS
<1>3. /\ more \in [Address -> Nat] /\ more[ip] = table[ip] + frame.bytes /\ table[ip] \in Nat
      /\ \A x \in Address : x # ip => table[x] = more[x]
  BY <1>1, <1>2 DEF AddTraffic
<1>4. Sum(table) \in Nat /\ Sum(more) \in Nat /\ Sum(more) + table[ip] = Sum(table) + more[ip]
  <2>1. IsFiniteSet(Address)
    BY Keys
  <2> QED
    BY ONLY <1>3, <2>1, table \in [Address -> Nat], ip \in Address, SumChanged
<1> QED
  BY <1>1, <1>2, <1>3, <1>4

(* There are three protocols.                                                *)
LEMMA ProtocolsFinite == IsFiniteSet({"tcp", "udp", "icmp"})
<1>1. IsFiniteSet({"tcp"}) /\ IsFiniteSet({"udp"}) /\ IsFiniteSet({"icmp"})
  BY FS_Singleton
<1>2. IsFiniteSet({"tcp"} \cup {"udp"})
  BY <1>1, FS_Union
<1>3. IsFiniteSet(({"tcp"} \cup {"udp"}) \cup {"icmp"})
  BY <1>1, <1>2, FS_Union
<1>4. {"tcp", "udp", "icmp"} = ({"tcp"} \cup {"udp"}) \cup {"icmp"}
  OBVIOUS
<1> QED
  BY <1>3, <1>4

(* A packet more for a protocol: the sum grows if it is one of the three.   *)
LEMMA ProtocolAdded ==
    ASSUME protocols \in [{"tcp", "udp", "icmp"} -> Nat], NEW f \in Frame
    PROVE  Sum(ProtocolCounts(f))
              = Sum(protocols) + IF f.proto \in {"tcp", "udp", "icmp"} THEN 1 ELSE 0
<1>1. PICK more : more = ProtocolCounts(f)
  OBVIOUS
<1>2. /\ more \in [{"tcp", "udp", "icmp"} -> Nat]
      /\ \A p \in {"tcp", "udp", "icmp"} : more[p] = protocols[p] + IF f.proto = p THEN 1 ELSE 0
  BY <1>1 DEF ProtocolCounts
<1>3. CASE f.proto \in {"tcp", "udp", "icmp"}
  <2>1. PICK k \in {"tcp", "udp", "icmp"} : k = f.proto
    BY <1>3
  <2>2. /\ more[k] = protocols[k] + 1 /\ protocols[k] \in Nat
        /\ \A x \in {"tcp", "udp", "icmp"} : x # k => protocols[x] = more[x]
    BY <1>2, <2>1
  <2>3. Sum(protocols) \in Nat /\ Sum(more) \in Nat
        /\ Sum(more) + protocols[k] = Sum(protocols) + more[k]
    BY ONLY <1>2, <2>1, <2>2, ProtocolsFinite, protocols \in [{"tcp", "udp", "icmp"} -> Nat], SumChanged
  <2> QED
    BY <1>1, <1>3, <2>2, <2>3
<1>4. CASE f.proto \notin {"tcp", "udp", "icmp"}
  <2>1. \A p \in {"tcp", "udp", "icmp"} : more[p] = protocols[p]
    BY <1>2, <1>4
  <2>2. more = protocols
    BY <1>2, <2>1
  <2>3. Sum(protocols) \in Nat
    BY ProtocolsFinite, SumType
  <2> QED
    BY <1>1, <1>4, <2>2, <2>3
<1> QED
  BY <1>3, <1>4

(* No frame is of a protocol that is not counted.                            *)
AllCounted == \A f \in Frame : f.proto # "other"

(* A frame is counted for its protocol before it is in its flow.             *)
InHand == IF at \in {"talkers", "flow"} THEN 1 ELSE 0

(* The tables while a frame is between two of them.                          *)
TablesInv ==
    /\ Sum(protocols) <= taken + InHand
    /\ AllCounted => Sum(protocols) = taken + InHand
    /\ Packets(flows) + (IF at = "named" THEN 1 ELSE 0) = taken + Packets(apps)
    /\ Sum(talkers) + 2 * Bytes(apps)
          = 2 * Bytes(flows) + IF at \in {"flow", "named"} THEN 2 * frame.bytes ELSE 0

(* The counts of the protocols are numbers.                                  *)
LEMMA ProtocolsType ==
    ASSUME TypeInv
    PROVE  protocols \in [{"tcp", "udp", "icmp"} -> Nat]
<1>1. protocols \in [{"tcp", "udp", "icmp"} -> 0..MaxFrames] /\ MaxFrames \in Nat
  BY StatisticsAssumption DEF TypeInv, CountsInv, StatisticsAssumption
<1> QED
  BY <1>1

(* The sums of the tables are numbers.                                      *)
LEMMA SumsType ==
    ASSUME TypeInv
    PROVE  /\ Packets(flows) \in Nat /\ Bytes(flows) \in Nat
           /\ Packets(apps) \in Nat /\ Bytes(apps) \in Nat /\ Sum(talkers) \in Nat
           /\ counter \in Nat /\ taken \in Nat /\ frame \in Frame /\ frame.bytes \in Nat
           /\ Sum(csv) \in Nat /\ Sum(json) \in Nat /\ Sum(protocols) \in Nat
<1>1. /\ talkers \in [Address -> Nat] /\ flows \in [Flow -> Counts] /\ apps \in [App -> Counts]
      /\ counter \in 0..MaxFrames /\ taken \in 0..counter /\ frame \in Frame
      /\ csv \in [Flow -> Nat] /\ json \in [Flow -> Nat]
  BY DEF TypeInv, CountsInv
<1>2. MaxFrames \in Nat /\ frame.bytes \in Nat
  BY <1>1, StatisticsAssumption DEF StatisticsAssumption
<1>3. IsFiniteSet(Flow) /\ IsFiniteSet(Address) /\ IsFiniteSet(App)
  BY Keys
<1>4. Packets(flows) \in Nat /\ Bytes(flows) \in Nat /\ Packets(apps) \in Nat /\ Bytes(apps) \in Nat
  BY <1>1, <1>3, TableType, Zenon
<1>5. Sum(talkers) \in Nat /\ Sum(csv) \in Nat /\ Sum(json) \in Nat
  BY <1>1, <1>3, SumType, Zenon
<1>7. Sum(protocols) \in Nat
  <2>1. protocols \in [{"tcp", "udp", "icmp"} -> Nat]
    BY ProtocolsType
  <2> QED
    BY <2>1, ProtocolsFinite, SumType
<1>6. counter \in Nat /\ taken \in Nat
  BY <1>1, <1>2
<1> QED
  BY <1>1, <1>2, <1>4, <1>5, <1>6, <1>7

(* Empty tables agree.                                                      *)
LEMMA TablesInit == Init => TablesInv
<1> SUFFICES ASSUME Init PROVE TablesInv
  OBVIOUS
<1>0. at = "idle" /\ taken = 0
  BY DEF Init
<1>1. PICK p : p = [k \in DOMAIN flows |-> flows[k].packets]
  OBVIOUS
<1>2. PICK b : b = [k \in DOMAIN flows |-> flows[k].bytes]
  OBVIOUS
<1>3. PICK q : q = [k \in DOMAIN apps |-> apps[k].packets]
  OBVIOUS
<1>4. PICK c : c = [k \in DOMAIN apps |-> apps[k].bytes]
  OBVIOUS
<1>5. /\ p \in [Flow -> Nat] /\ b \in [Flow -> Nat] /\ \A k \in Flow : p[k] = 0 /\ b[k] = 0
      /\ q \in [App -> Nat] /\ c \in [App -> Nat] /\ \A k \in App : q[k] = 0 /\ c[k] = 0
      /\ talkers \in [Address -> Nat] /\ \A k \in Address : talkers[k] = 0
      /\ protocols \in [{"tcp", "udp", "icmp"} -> Nat]
      /\ \A x \in {"tcp", "udp", "icmp"} : protocols[x] = 0
  BY <1>1, <1>2, <1>3, <1>4 DEF Init, Zero
<1>6. Packets(flows) = Sum(p) /\ Bytes(flows) = Sum(b) /\ Packets(apps) = Sum(q) /\ Bytes(apps) = Sum(c)
  BY <1>1, <1>2, <1>3, <1>4, Zenon DEF Packets, Bytes
<1>7. Sum(p) = 0 /\ Sum(b) = 0 /\ Sum(q) = 0 /\ Sum(c) = 0 /\ Sum(talkers) = 0
  BY <1>5, Keys, SumOfZeros
<1>8. Sum(protocols) = 0
  BY <1>5, ProtocolsFinite, SumOfZeros
<1> QED
  BY <1>0, <1>6, <1>7, <1>8 DEF TablesInv, InHand

(* Each table gets its share of a frame before the next one begins.         *)
LEMMA TablesStep == TypeInv /\ TablesInv /\ [Next]_vars => TablesInv'
<1> SUFFICES ASSUME TypeInv, TablesInv, [Next]_vars PROVE TablesInv'
  OBVIOUS
<1>a. /\ Packets(flows) \in Nat /\ Bytes(flows) \in Nat
      /\ Packets(apps) \in Nat /\ Bytes(apps) \in Nat /\ Sum(talkers) \in Nat
      /\ counter \in Nat /\ taken \in Nat /\ frame \in Frame /\ frame.bytes \in Nat
      /\ Sum(protocols) \in Nat
  BY SumsType
<1>b. /\ Sum(protocols) <= taken + InHand
      /\ AllCounted => Sum(protocols) = taken + InHand
      /\ Packets(flows) + (IF at = "named" THEN 1 ELSE 0) = taken + Packets(apps)
      /\ Sum(talkers) + 2 * Bytes(apps)
            = 2 * Bytes(flows) + IF at \in {"flow", "named"} THEN 2 * frame.bytes ELSE 0
  BY DEF TablesInv
<1>1. ASSUME NEW f \in Frame, CountProtocol(f) PROVE TablesInv'
  <2>1. /\ at = "idle" /\ at' = (IF f.proto = "not ip" THEN "end" ELSE "talkers")
        /\ UNCHANGED <<flows, apps, talkers, taken>> /\ protocols' = ProtocolCounts(f)
    BY <1>1 DEF CountProtocol
  <2>2. Sum(protocols') = Sum(protocols) + IF f.proto \in {"tcp", "udp", "icmp"} THEN 1 ELSE 0
    BY <2>1, ProtocolsType, ProtocolAdded
  <2>3. f.proto \in {"tcp", "udp", "icmp", "other", "not ip"}
    BY StatisticsAssumption DEF StatisticsAssumption
  <2>4. Sum(protocols) <= taken + 0 /\ (AllCounted => Sum(protocols) = taken + 0)
    BY <1>b, <2>1 DEF InHand
  <2>5. taken' = taken /\ InHand' = IF f.proto = "not ip" THEN 0 ELSE 1
    BY <2>1 DEF InHand
  <2>6. CASE f.proto \in {"tcp", "udp", "icmp"}
    <3>1. Sum(protocols') = Sum(protocols) + 1 /\ InHand' = 1
      BY <2>2, <2>5, <2>6
    <3>2. Sum(protocols') <= taken + 1 /\ (AllCounted => Sum(protocols') = taken + 1)
      BY <1>a, <2>4, <3>1
    <3> QED
      BY <1>b, <2>1, <3>1, <3>2 DEF TablesInv
  <2>7. CASE f.proto = "other"
    <3>1. Sum(protocols') = Sum(protocols) + 0 /\ InHand' = 1
      BY <2>2, <2>5, <2>7
    <3>2. Sum(protocols') <= taken + 1
      BY <1>a, <2>4, <3>1
    <3>3. ~AllCounted
      BY <2>7 DEF AllCounted
    <3> QED
      BY <1>b, <2>1, <3>1, <3>2, <3>3 DEF TablesInv
  <2>8. CASE f.proto = "not ip"
    <3>1. Sum(protocols') = Sum(protocols) + 0 /\ InHand' = 0
      BY <2>2, <2>5, <2>8
    <3>2. Sum(protocols') <= taken + 0 /\ (AllCounted => Sum(protocols') = taken + 0)
      BY <1>a, <2>4, <3>1
    <3> QED
      BY <1>b, <2>1, <3>1, <3>2 DEF TablesInv
  <2> QED
    BY <2>3, <2>6, <2>7, <2>8
<1>2. ASSUME CountTalkers PROVE TablesInv'
  <2>1. at = "talkers" /\ at' = "flow" /\ UNCHANGED <<flows, apps, taken, frame, protocols>>
        /\ talkers' = AddTraffic(AddTraffic(talkers, frame.src), frame.dst)
    BY <1>2 DEF CountTalkers
  <2>2. talkers \in [Address -> Nat] /\ frame.src \in Address /\ frame.dst \in Address
    BY <1>a, Keys DEF TypeInv, CountsInv
  <2>3. PICK t : t = AddTraffic(talkers, frame.src)
    OBVIOUS
  <2>4. t \in [Address -> Nat] /\ Sum(t) = Sum(talkers) + frame.bytes
    BY <1>a, <2>2, <2>3, TrafficAdded
  <2>5. Sum(talkers') = Sum(t) + frame.bytes
    BY <1>a, <2>1, <2>2, <2>3, <2>4, TrafficAdded
  <2>6. Sum(talkers') = Sum(talkers) + 2 * frame.bytes
    BY <1>a, <2>4, <2>5
  <2> QED
    BY <1>a, <1>b, <2>1, <2>6 DEF TablesInv, InHand
<1>3. ASSUME CountFlow PROVE TablesInv'
  <2>1. flows \in [Flow -> Counts] /\ FlowOf(frame) \in Flow
    BY <1>a, Keys DEF TypeInv, CountsInv
  <2>2. flows' = [flows EXCEPT ![FlowOf(frame)] = Add(@)]
    BY <1>3 DEF CountFlow
  <2>3. Packets(flows') = Packets(flows) + 1 /\ Bytes(flows') = Bytes(flows) + frame.bytes
    BY <1>a, <2>1, <2>2, Keys, TableAdded
  <2>4. /\ at \in {"flow", "named"} /\ at' \in {"app", "end"}
        /\ UNCHANGED <<apps, talkers, frame, protocols>>
        /\ taken' = taken + IF at = "flow" THEN 1 ELSE 0
    BY <1>3 DEF CountFlow, Counted
  <2>5. CASE at = "flow"
    BY <1>a, <1>b, <2>3, <2>4, <2>5 DEF TablesInv, InHand
  <2>6. CASE at = "named"
    BY <1>a, <1>b, <2>3, <2>4, <2>6 DEF TablesInv, InHand
  <2> QED
    BY <2>4, <2>5, <2>6
<1>4. ASSUME CountApp PROVE TablesInv'
  <2>1. at = "app" /\ at' = "named" /\ UNCHANGED <<flows, talkers, taken, frame, protocols>>
        /\ apps' = [apps EXCEPT ![AppOf[frame.domain]] = Add(@)]
    BY <1>4 DEF CountApp
  <2>2. apps \in [App -> Counts] /\ AppOf[frame.domain] \in App
    BY <1>a, <2>1, Keys DEF TypeInv, CountsInv, FrameInv
  <2>3. Packets(apps') = Packets(apps) + 1 /\ Bytes(apps') = Bytes(apps) + frame.bytes
    BY <1>a, <2>1, <2>2, Keys, TableAdded
  <2> QED
    BY <1>a, <1>b, <2>1, <2>3 DEF TablesInv, InHand
<1>5. ASSUME UNCHANGED <<flows, apps, talkers, taken, frame, protocols>>,
             \/ at' = at \/ {at, at'} \subseteq {"end", "csv", "json", "idle"}
      PROVE  TablesInv'
  BY <1>b, <1>5 DEF TablesInv, InHand
<1>6. ASSUME InsertFlow PROVE TablesInv'
  BY <1>5, <1>6 DEF InsertFlow
<1>7. ASSUME EndFrame \/ ExportCSV \/ ExportJSON PROVE TablesInv'
  BY <1>5, <1>7 DEF EndFrame, ExportCSV, ExportJSON, tables
<1>8. ASSUME Listing PROVE TablesInv'
  <2>1. UNCHANGED <<at, frame, tables>>
    BY <1>8 DEF Listing, BeginListing, ListFlow, Advance, AnswerListing
  <2> QED
    BY <1>5, <2>1 DEF tables
<1>9. ASSUME UNCHANGED vars PROVE TablesInv'
  BY <1>5, <1>9 DEF vars, tables
<1> QED
  BY <1>1, <1>2, <1>3, <1>4, <1>6, <1>7, <1>8, <1>9 DEF Next, Capture

(* Between frames packets and bytes of flows, applications, talkers and      *)
(* protocols agree (live_capture.cpp:179-345), for any frames and any number *)
(* of flows.                                                                 *)
THEOREM TablesAgreeCorrect == Spec => []TablesAgree
<1>1. TypeInv /\ TablesInv => TablesAgree
  <2> SUFFICES ASSUME TypeInv, TablesInv, at = "idle"
               PROVE  /\ Packets(flows) = taken + Packets(apps)
                      /\ Sum(talkers) + 2 * Bytes(apps) = 2 * Bytes(flows)
                      /\ Sum(protocols) <= taken
                      /\ (\A f \in Frame : f.proto # "other") => Sum(protocols) = taken
    BY DEF TablesAgree
  <2> QED
    BY SumsType DEF TablesInv, InHand, AllCounted
<1> QED
  BY <1>1, TypeInvCorrect, TablesInit, TablesStep, PTL DEF Spec

-----------------------------------------------------------------------------
(* Counting on, modulo.                                                      *)
LEMMA CountOn ==
    ASSUME NEW n \in Nat, NEW m \in Nat, n > 0
    PROVE  /\ m % n \in Nat
           /\ (m + 1) % n # 0 => (m + 1) % n = (m % n) + 1
<1>1. PICK q \in Nat, r \in Nat : m = q * n + r /\ r < n /\ r = m % n
  <2>1. m = (m \div n) * n + (m % n) /\ m % n \in 0..(n - 1) /\ m \div n \in Nat
    OBVIOUS
  <2> QED
    BY <2>1
<1>2. CASE r + 1 < n
  <2>1. (m + 1) % n = r + 1
    BY <1>1, <1>2
  <2> QED
    BY <1>1, <2>1
<1>3. CASE r + 1 = n
  <2>1. m + 1 = (q + 1) * n
    BY <1>1, <1>3
  <2>2. (m + 1) % n = 0
    <3>1. PICK d \in Nat, e \in 0..(n - 1) : m + 1 = d * n + e /\ e = (m + 1) % n
      <4>1. /\ m + 1 = ((m + 1) \div n) * n + ((m + 1) % n)
            /\ (m + 1) % n \in 0..(n - 1) /\ (m + 1) \div n \in Nat
        OBVIOUS
      <4> QED
        BY <4>1
    <3>2. PICK t \in Int : t = q + 1 - d
      OBVIOUS
    <3>3. e = t * n
      BY <2>1, <3>1, <3>2
    <3>4. ~(t >= 1) /\ ~(t <= -1)
      <4>1. ASSUME t >= 1 PROVE FALSE
        <5>1. t * n >= n
          BY <4>1
        <5> QED
          BY <3>1, <3>3, <5>1
      <4>2. ASSUME t <= -1 PROVE FALSE
        <5>1. t * n <= -n
          BY <4>2
        <5> QED
          BY <3>1, <3>3, <5>1
      <4> QED
        BY <4>1, <4>2
    <3>5. t = 0
      BY <3>4
    <3> QED
      BY <3>1, <3>3, <3>5
  <2> QED
    BY <1>1, <2>2
<1> QED
  BY <1>1, <1>2, <1>3

(* Whether an export of this file, if there is one for the frame, is to come. *)
Pending(name) == at \in {"app", "named", "end", "csv"} \/ (at = "json" /\ name = "json")

(* Frames since a file was last due to be opened.                            *)
Since(name) == IF Pending(name) THEN ((counter - 1) % ExportEvery) + 1 ELSE counter % ExportEvery

(* What a file has at each step of a frame; a frame with a name puts its     *)
(* second packet into the flows later than its first.                        *)
FileInv(counts, name) ==
    /\ opened[name] <= counter /\ (Pending(name) => opened[name] < counter)
    /\ name \notin stale => counter - opened[name] = Since(name)
    /\ Packets(flows) + (IF at \in {"app", "named"} THEN 1 ELSE 0)
          <= Sum(counts) + 2 * (counter - opened[name])
    /\ \A k \in Flow : counts[k] <= flows[k].packets

ExportsInv ==
    /\ at \in {"csv", "json"} => counter % ExportEvery = 0
    /\ at = "json" /\ opened["csv"] = counter => csv = PacketsOf
    /\ opened["csv"] = opened["json"] => csv = json
    /\ FileInv(csv, "csv") /\ FileInv(json, "json")

(* A file just written has what the table has.                               *)
LEMMA JustWritten ==
    ASSUME flows \in [Flow -> Counts]
    PROVE  Sum(PacketsOf) = Packets(flows) /\ \A k \in Flow : PacketsOf[k] = flows[k].packets
<1>1. PacketsOf = [k \in DOMAIN flows |-> flows[k].packets]
  BY DEF PacketsOf
<1> QED
  BY <1>1, Zenon DEF Packets, PacketsOf

(* Empty files are those of an empty table.                                 *)
LEMMA ExportsInit == Init => ExportsInv
<1> SUFFICES ASSUME Init PROVE ExportsInv
  OBVIOUS
<1>0. /\ at = "idle" /\ counter = 0 /\ csv = json /\ opened["csv"] = 0 /\ opened["json"] = 0
  BY DEF Init
<1>1. flows \in [Flow -> Counts] /\ csv = PacketsOf
  BY DEF Init, Zero, Counts, PacketsOf
<1>2. /\ Packets(flows) = Sum(csv) /\ Sum(csv) \in Nat
      /\ \A k \in Flow : csv[k] = flows[k].packets /\ flows[k].packets = 0
  <2>1. Sum(PacketsOf) = Packets(flows) /\ \A k \in Flow : PacketsOf[k] = flows[k].packets
    BY <1>1, JustWritten
  <2>2. Packets(flows) \in Nat
    BY <1>1, Keys, TableType
  <2>3. \A k \in Flow : flows[k].packets = 0
    BY DEF Init, Zero
  <2> QED
    BY <1>1, <2>1, <2>2, <2>3
<1>3. 0 % ExportEvery = 0
  <2>1. ExportEvery \in Nat \ {0}
    BY StatisticsAssumption DEF StatisticsAssumption
  <2> QED
    BY ONLY <2>1
<1> QED
  BY <1>0, <1>2, <1>3 DEF ExportsInv, FileInv, Pending, Since

(* Each frame since a file was opened put at most two packets into the flows. *)
LEMMA ExportsStep == TypeInv /\ ExportsInv /\ [Next]_vars => ExportsInv'
<1> SUFFICES ASSUME TypeInv, ExportsInv, [Next]_vars PROVE ExportsInv'
  OBVIOUS
<1> DEFINE Files == {"csv", "json"}
<1>a. /\ Packets(flows) \in Nat /\ Sum(csv) \in Nat /\ Sum(json) \in Nat
      /\ counter \in Nat /\ frame \in Frame
      /\ flows \in [Flow -> Counts] /\ csv \in [Flow -> Nat] /\ json \in [Flow -> Nat]
      /\ opened \in [Files -> 0..counter] /\ \A name \in Files : opened[name] \in Nat
      /\ stale \subseteq Files
  <2>1. counter \in Nat /\ opened \in [Files -> 0..counter]
    BY SumsType DEF TypeInv, CountsInv
  <2>2. \A name \in Files : opened[name] \in Nat
    BY <2>1
  <2> QED
    BY <2>1, <2>2, SumsType DEF TypeInv, CountsInv
<1>b. ExportEvery \in Nat /\ ExportEvery > 0
  <2>1. ExportEvery \in Nat \ {0}
    BY StatisticsAssumption DEF StatisticsAssumption
  <2> QED
    BY ONLY <2>1
<1>c. \A m \in Nat : /\ m % ExportEvery \in Nat
                     /\ (m + 1) % ExportEvery # 0 => (m + 1) % ExportEvery = (m % ExportEvery) + 1
  BY <1>b, CountOn
<1>d. /\ at \in {"csv", "json"} => counter % ExportEvery = 0
      /\ at = "json" /\ opened["csv"] = counter => csv = PacketsOf
      /\ opened["csv"] = opened["json"] => csv = json
      /\ FileInv(csv, "csv") /\ FileInv(json, "json")
  BY DEF ExportsInv
<1>1. ASSUME NEW f \in Frame, CountProtocol(f) PROVE ExportsInv'
  <2>1. at = "idle" /\ UNCHANGED <<flows, csv, json, stale, opened>>
    BY <1>1 DEF CountProtocol, files
  <2>2. CASE at' = "end" /\ counter' = counter + 1
    <3>1. counter' - 1 = counter
      BY <1>a, <2>2
    <3>2. ASSUME NEW counts, NEW name \in Files, FileInv(counts, name), Sum(counts) \in Nat
          PROVE  FileInv(counts, name)'
      BY <1>a, <1>c, <2>1, <2>2, <3>1, <3>2 DEF FileInv, Pending, Since
    <3> QED
      BY <1>a, <1>d, <2>1, <2>2, <3>2 DEF ExportsInv, FileInv
  <2>3. CASE at' = "talkers" /\ counter' = counter
    BY <1>d, <2>1, <2>3 DEF ExportsInv, FileInv, Pending, Since
  <2> QED
    BY <1>1, <2>2, <2>3 DEF CountProtocol
<1>2. ASSUME CountTalkers PROVE ExportsInv'
  <2>1. at = "talkers" /\ at' = "flow" /\ UNCHANGED <<flows, csv, json, stale, opened, counter>>
    BY <1>2 DEF CountTalkers, files
  <2> QED
    BY <1>d, <2>1 DEF ExportsInv, FileInv, Pending, Since
<1>3. ASSUME CountFlow PROVE ExportsInv'
  <2>1. FlowOf(frame) \in Flow /\ flows' = [flows EXCEPT ![FlowOf(frame)] = Add(@)]
        /\ UNCHANGED <<csv, json, stale, opened>>
    BY <1>a, <1>3, Keys DEF CountFlow, files
  <2>2. Packets(flows') = Packets(flows) + 1
    BY <1>a, <2>1, Keys, TableAdded
  <2>3. ASSUME NEW k \in Flow
        PROVE  flows[k].packets \in Nat /\ flows'[k].packets \in Nat /\ flows[k].packets <= flows'[k].packets
    <3>1. flows[k] \in Counts /\ flows[k].packets \in Nat
      BY <1>a DEF Counts
    <3>2. CASE k = FlowOf(frame)
      <4>1. flows'[k] = Add(flows[k])
        BY <1>a, <2>1, <3>2
      <4> QED
        BY <1>a, <3>1, <4>1, AddType
    <3>3. CASE k # FlowOf(frame)
      BY <1>a, <2>1, <3>1, <3>3
    <3> QED
      BY <3>2, <3>3
  <2>4. ASSUME NEW counts \in [Flow -> Nat], \A k \in Flow : counts[k] <= flows[k].packets
        PROVE  \A k \in Flow : counts[k] <= flows'[k].packets
    BY <2>3, <2>4
  <2>5. CASE at = "flow"
    <3>0. at' \in {"app", "end"} /\ counter' = counter + 1
      BY <1>3, <2>5 DEF CountFlow, Counted
    <3>1. at' \in {"app", "end"} /\ counter' = counter + 1 /\ counter' - 1 = counter
      BY <1>a, <3>0
    <3>2. ASSUME NEW counts \in [Flow -> Nat], NEW name \in Files, FileInv(counts, name),
                 Sum(counts) \in Nat
          PROVE  FileInv(counts, name)'
      <4>1. \A k \in Flow : counts[k] <= flows'[k].packets
        BY <2>4, <3>2 DEF FileInv
      <4>2. opened[name] \in Nat /\ opened[name] <= counter /\ opened'[name] = opened[name]
        BY <1>a, <2>1, <3>2 DEF FileInv
      <4>3. name \notin stale => counter' - opened[name] = (counter % ExportEvery) + 1
        <5>1. name \notin stale => counter - opened[name] = counter % ExportEvery
          BY <2>5, <3>2 DEF FileInv, Since, Pending
        <5> QED
          BY <1>a, <1>c, <3>1, <4>2, <5>1
      <4>4. Packets(flows') + 1 <= Sum(counts) + 2 * (counter' - opened[name])
        <5>1. Packets(flows) + 0 <= Sum(counts) + 2 * (counter - opened[name])
          BY <2>5, <3>2 DEF FileInv
        <5> QED
          BY <1>a, <2>2, <3>1, <3>2, <4>2, <5>1
      <4>5. Packets(flows') + 0 <= Sum(counts) + 2 * (counter' - opened[name])
        BY <1>a, <2>2, <3>1, <3>2, <4>2, <4>4
      <4>6. opened[name] < counter' /\ opened[name] <= counter'
        BY <1>a, <3>1, <4>2
      <4>7. Pending(name)' /\ Since(name)' = (counter % ExportEvery) + 1
        BY <3>1 DEF Pending, Since
      <4> QED
        BY <2>1, <3>1, <4>1, <4>2, <4>3, <4>4, <4>5, <4>6, <4>7 DEF FileInv
    <3> QED
      BY <1>a, <1>d, <2>1, <3>1, <3>2 DEF ExportsInv, FileInv
  <2>6. CASE at = "named"
    <3>1. at' = "end" /\ counter' = counter
      <4>1. at' = "end" /\ counter' = counter + 0
        BY <1>3, <2>6 DEF CountFlow, Counted
      <4> QED
        BY <1>a, <4>1
    <3>2. ASSUME NEW counts \in [Flow -> Nat], NEW name \in Files, FileInv(counts, name),
                 Sum(counts) \in Nat
          PROVE  FileInv(counts, name)'
      <4>1. \A k \in Flow : counts[k] <= flows'[k].packets
        BY <2>4, <3>2 DEF FileInv
      <4>2. Packets(flows') + 0 <= Sum(counts) + 2 * (counter - opened[name])
        <5>1. Packets(flows) + 1 <= Sum(counts) + 2 * (counter - opened[name])
          BY <2>6, <3>2 DEF FileInv
        <5> QED
          BY <1>a, <2>2, <5>1
      <4>3. /\ opened[name] <= counter /\ opened[name] < counter
            /\ name \notin stale => counter - opened[name] = ((counter - 1) % ExportEvery) + 1
        BY <2>6, <3>2 DEF FileInv, Since, Pending
      <4>4. Pending(name)' /\ Since(name)' = ((counter - 1) % ExportEvery) + 1
        BY <3>1 DEF Pending, Since
      <4> QED
        BY <2>1, <3>1, <4>1, <4>2, <4>3, <4>4 DEF FileInv
    <3> QED
      BY <1>a, <1>d, <2>1, <3>1, <3>2 DEF ExportsInv, FileInv
  <2> QED
    BY <1>3, <2>5, <2>6 DEF CountFlow
<1>4. ASSUME CountApp PROVE ExportsInv'
  <2>1. at = "app" /\ at' = "named" /\ UNCHANGED <<flows, csv, json, stale, opened, counter>>
    BY <1>4 DEF CountApp, files
  <2> QED
    BY <1>d, <2>1 DEF ExportsInv, FileInv, Pending, Since
<1>5. ASSUME EndFrame PROVE ExportsInv'
  <2>1. at = "end" /\ UNCHANGED <<flows, csv, json, stale, opened, counter>>
        /\ at' = IF counter % ExportEvery = 0 THEN "csv" ELSE "idle"
    BY <1>5 DEF EndFrame, tables, files
  <2>2. CASE counter % ExportEvery = 0
    BY <1>d, <2>1, <2>2 DEF ExportsInv, FileInv, Pending, Since
  <2>3. CASE counter % ExportEvery # 0
    <3>1. counter % ExportEvery = ((counter - 1) % ExportEvery) + 1
      <4>1. counter - 1 \in Nat /\ (counter - 1) + 1 = counter
        BY <1>a, <2>1 DEF TypeInv, FrameInv
      <4> QED
        BY <1>c, <2>3, <4>1
    <3> QED
      BY <1>d, <2>1, <2>3, <3>1 DEF ExportsInv, FileInv, Pending, Since
  <2> QED
    BY <2>2, <2>3
<1>e. /\ Sum(PacketsOf) = Packets(flows)
      /\ \A k \in Flow : PacketsOf[k] = flows[k].packets /\ flows[k].packets \in Nat
  BY <1>a, JustWritten DEF Counts
<1>6. ASSUME ExportCSV PROVE ExportsInv'
  <2>1. /\ at = "csv" /\ at' = "json" /\ UNCHANGED <<flows, json, counter>>
        /\ PacketsOf' = PacketsOf /\ counter % ExportEvery = 0
    BY <1>6, <1>d DEF ExportCSV, tables, PacketsOf
  <2>2. CASE csv' = PacketsOf /\ Succeeds("csv")
    <3>1. /\ stale' = stale \ {"csv"}
          /\ opened'["csv"] = counter /\ opened'["json"] = opened["json"]
      BY <1>a, <2>2 DEF Succeeds
    <3>2. opened["json"] < counter
      BY <1>d, <2>1 DEF FileInv, Pending
    <3>3. FileInv(csv, "csv")'
      BY <1>a, <1>e, <2>1, <2>2, <3>1 DEF FileInv, Pending, Since
    <3>4. FileInv(json, "json")'
      BY <1>d, <2>1, <3>1 DEF FileInv, Pending, Since
    <3> QED
      BY <1>a, <2>1, <2>2, <3>1, <3>2, <3>3, <3>4 DEF ExportsInv
  <2>3. CASE csv' = csv /\ Fails("csv")
    <3>1. stale' = stale \cup {"csv"} /\ opened' = opened
      BY <2>3 DEF Fails
    <3>2. opened["csv"] < counter
      BY <1>d, <2>1 DEF FileInv, Pending
    <3> QED
      BY <1>a, <1>d, <2>1, <2>3, <3>1, <3>2 DEF ExportsInv, FileInv, Pending, Since
  <2> QED
    BY <1>6, <2>2, <2>3 DEF ExportCSV
<1>7. ASSUME ExportJSON PROVE ExportsInv'
  <2>1. at = "json" /\ at' = "idle" /\ UNCHANGED <<flows, csv, counter>> /\ counter % ExportEvery = 0
    BY <1>7, <1>d DEF ExportJSON, tables
  <2>2. CASE json' = PacketsOf /\ Succeeds("json")
    <3>1. /\ stale' = stale \ {"json"}
          /\ opened'["json"] = counter /\ opened'["csv"] = opened["csv"]
      BY <1>a, <2>2 DEF Succeeds
    <3>2. FileInv(csv, "csv")'
      BY <1>d, <2>1, <3>1 DEF FileInv, Pending, Since
    <3>3. FileInv(json, "json")'
      BY <1>a, <1>e, <2>1, <2>2, <3>1 DEF FileInv, Pending, Since
    <3> QED
      BY <1>d, <2>1, <2>2, <3>1, <3>2, <3>3 DEF ExportsInv
  <2>3. CASE json' = json /\ Fails("json")
    <3>1. stale' = stale \cup {"json"} /\ opened' = opened
      BY <2>3 DEF Fails
    <3> QED
      BY <1>d, <2>1, <2>3, <3>1 DEF ExportsInv, FileInv, Pending, Since
  <2> QED
    BY <1>7, <2>2, <2>3 DEF ExportJSON
<1>8. ASSUME UNCHANGED <<at, flows, csv, json, stale, opened, counter>> PROVE ExportsInv'
  BY <1>d, <1>8 DEF ExportsInv, FileInv, Pending, Since, PacketsOf
<1>9. ASSUME InsertFlow PROVE ExportsInv'
  BY <1>8, <1>9 DEF InsertFlow, files
<1>10. ASSUME Listing PROVE ExportsInv'
  <2>1. UNCHANGED <<at, tables, files>>
    BY <1>10 DEF Listing, BeginListing, ListFlow, Advance, AnswerListing
  <2> QED
    BY <1>8, <2>1 DEF tables, files
<1>11. ASSUME UNCHANGED vars PROVE ExportsInv'
  BY <1>8, <1>11 DEF vars, tables, files
<1> QED
  BY <1>1, <1>2, <1>3, <1>4, <1>5, <1>6, <1>7, <1>9, <1>10, <1>11 DEF Next, Capture

(* Between frames each exported file, whichever exports failed, has of no    *)
(* flow more than the table, lacks at most two packets for each frame since  *)
(* it was opened, and is equal to the other if both were last opened         *)
(* together (live_capture.cpp:391-415).                                      *)
THEOREM ExportsCurrentCorrect == Spec => []ExportsCurrent
<1>1. TypeInv /\ ExportsInv => ExportsCurrent
  <2> SUFFICES ASSUME TypeInv, ExportsInv, at = "idle"
               PROVE  /\ FileCurrent(csv, "csv") /\ FileCurrent(json, "json")
                      /\ opened["csv"] = opened["json"] => csv = json
    BY DEF ExportsCurrent
  <2>1. /\ Packets(flows) \in Nat /\ Sum(csv) \in Nat /\ Sum(json) \in Nat /\ counter \in Nat
        /\ opened["csv"] \in Int /\ opened["json"] \in Int
    BY SumsType DEF TypeInv, CountsInv
  <2>2. FileCurrent(csv, "csv")
    BY <2>1 DEF ExportsInv, FileInv, Pending, Since, FileCurrent
  <2>3. FileCurrent(json, "json")
    BY <2>1 DEF ExportsInv, FileInv, Pending, Since, FileCurrent
  <2> QED
    BY <2>2, <2>3 DEF ExportsInv
<1> QED
  BY <1>1, TypeInvCorrect, ExportsInit, ExportsStep, PTL DEF Spec

-----------------------------------------------------------------------------
(* a is somewhere before b.                                                  *)
Before(list, a, b) == \E i, j \in DOMAIN list : i < j /\ list[i] = a /\ list[j] = b

(* What the iterator at node n has still to come to.                         *)
Ahead(list, r, n, k) == n # End /\ ((r = "read" /\ k = n) \/ Before(list, n, k))

(* Flows of the table the listing began with are in the reply or ahead, the  *)
(* reply has no flow twice and none that is ahead.                           *)
ListingInv ==
    reader # "idle" /\ ~rehashed =>
        /\ \A k \in DOMAIN began :
              \/ \E i \in DOMAIN listed : listed[i].flow = k /\ listed[i].packets >= began[k]
              \/ Ahead(nodes, reader, node, k)
        /\ \A i \in DOMAIN listed : ~Ahead(nodes, reader, node, listed[i].flow)
        /\ \A i, j \in DOMAIN listed : listed[i].flow = listed[j].flow => i = j
        /\ \A k \in DOMAIN began : began[k] <= flows[k].packets

(* A new flow leaves the others in their order.                              *)
LEMMA OrderKept ==
    ASSUME NEW list \in Seq(Flow), NEW k, NEW s, NEW p \in Nat, Inserted(s, list, k, p),
           NEW a, NEW b, a # k, b # k
    PROVE  Before(s, a, b) <=> Before(list, a, b)
<1>1. PICK n \in Nat : n = Len(list) /\ DOMAIN list = 1..n
  OBVIOUS
<1>2. /\ s \in Seq(Flow) /\ Len(s) = n + 1 /\ p \in 1..(n + 1) /\ s[p] = k /\ DOMAIN s = 1..(n + 1)
      /\ \A i \in 1..n : s[IF i < p THEN i ELSE i + 1] = list[i]
  BY <1>1 DEF Inserted
<1>3. ASSUME NEW i \in 1..n, NEW j \in 1..n, i < j, list[i] = a, list[j] = b PROVE Before(s, a, b)
  <2>1. PICK x, y : x = (IF i < p THEN i ELSE i + 1) /\ y = IF j < p THEN j ELSE j + 1
    OBVIOUS
  <2>2. x \in 1..(n + 1) /\ y \in 1..(n + 1) /\ x < y
    BY <1>2, <1>3, <2>1
  <2>3. s[x] = a /\ s[y] = b
    BY <1>2, <1>3, <2>1
  <2> QED
    BY <1>2, <2>2, <2>3 DEF Before
<1>4. ASSUME NEW x \in 1..(n + 1), NEW y \in 1..(n + 1), x < y, s[x] = a, s[y] = b
      PROVE  Before(list, a, b)
  <2>1. x # p /\ y # p
    BY <1>2, <1>4
  <2>2. PICK i, j : i = (IF x < p THEN x ELSE x - 1) /\ j = IF y < p THEN y ELSE y - 1
    OBVIOUS
  <2>3. i \in 1..n /\ j \in 1..n /\ i < j
    BY <1>2, <1>4, <2>1, <2>2
  <2>4. (IF i < p THEN i ELSE i + 1) = x /\ (IF j < p THEN j ELSE j + 1) = y
    BY <1>2, <1>4, <2>1, <2>2
  <2>5. list[i] = a /\ list[j] = b
    BY <1>2, <1>4, <2>3, <2>4
  <2> QED
    BY <1>1, <2>3, <2>5 DEF Before
<1> QED
  BY <1>1, <1>2, <1>3, <1>4 DEF Before

(* The iterator goes from a node to the next, and passes only that node.     *)
LEMMA AheadAdvance ==
    ASSUME nodes \in Seq(Flow), Distinct(nodes), NEW k \in Nodes, NEW x
    PROVE  Ahead(nodes, "read", Following(k), x) <=> Ahead(nodes, "advance", k, x)
<1>0. k # End
  <2>1. k \in Flow
    BY DEF Nodes
  <2> QED
    BY <2>1, Keys
<1>1. PICK i \in 1..Len(nodes) :
         nodes[i] = k /\ Following(k) = IF i = Len(nodes) THEN End ELSE nodes[i + 1]
  BY FollowingIs
<1>2. PICK n \in Nat : n = Len(nodes) /\ DOMAIN nodes = 1..n /\ i \in 1..n
  OBVIOUS
<1>3. \A a, b \in 1..n : nodes[a] = nodes[b] => a = b
  BY <1>2 DEF Distinct
<1>4. Ahead(nodes, "advance", k, x) <=> \E b \in 1..n : i < b /\ nodes[b] = x
  <2>1. ASSUME NEW a \in 1..n, NEW b \in 1..n, a < b, nodes[a] = k, nodes[b] = x
        PROVE  i < b
    BY <1>1, <1>2, <1>3, <2>1
  <2> QED
    BY <1>0, <1>1, <1>2, <2>1 DEF Ahead, Before
<1>5. CASE i = n
  <2>1. Following(k) = End
    BY <1>1, <1>2, <1>5
  <2>2. ~ \E b \in 1..n : i < b
    BY <1>5
  <2> QED
    BY <1>4, <2>1, <2>2 DEF Ahead
<1>6. CASE i # n
  <2>1. i + 1 \in 1..n /\ Following(k) = nodes[i + 1] /\ nodes[i + 1] # End
    <3>1. i + 1 \in 1..n /\ Following(k) = nodes[i + 1]
      BY <1>1, <1>2, <1>6
    <3>2. nodes[i + 1] \in Flow
      BY <1>2, <3>1
    <3> QED
      BY <3>1, <3>2, Keys
  <2>2. Ahead(nodes, "read", Following(k), x)
            <=> x = nodes[i + 1] \/ \E b \in 1..n : i + 1 < b /\ nodes[b] = x
    <3>1. ASSUME NEW a \in 1..n, NEW b \in 1..n, a < b, nodes[a] = nodes[i + 1], nodes[b] = x
          PROVE  i + 1 < b
      BY <1>3, <2>1, <3>1
    <3> QED
      BY <1>2, <2>1, <3>1 DEF Ahead, Before
  <2>3. \A b \in 1..n : i < b <=> b = i + 1 \/ i + 1 < b
    BY <1>2
  <2> QED
    BY <1>4, <2>1, <2>2, <2>3
<1> QED
  BY <1>2, <1>5, <1>6

(* Reading a node, the iterator passes it.                                   *)
LEMMA AheadRead ==
    ASSUME nodes \in Seq(Flow), Distinct(nodes), NEW k \in Nodes, NEW x
    PROVE  /\ Ahead(nodes, "read", k, x) <=> x = k \/ Ahead(nodes, "advance", k, x)
           /\ ~Ahead(nodes, "advance", k, k)
<1>1. k # End
  <2>1. k \in Flow
    BY DEF Nodes
  <2> QED
    BY <2>1, Keys
<1>2. ~Before(nodes, k, k)
  <2> SUFFICES ASSUME NEW i \in DOMAIN nodes, NEW j \in DOMAIN nodes, i < j,
                      nodes[i] = k, nodes[j] = k
               PROVE  FALSE
    BY DEF Before
  <2>1. i = j /\ i \in Nat
    BY DEF Distinct
  <2> QED
    BY <2>1
<1> QED
  BY <1>1, <1>2 DEF Ahead

(* At the first node, every node is ahead.                                   *)
LEMMA AheadFirst ==
    ASSUME nodes \in Seq(Flow), NEW k \in Nodes
    PROVE  nodes # <<>> /\ Ahead(nodes, "read", Head(nodes), k)
<1>1. PICK i \in DOMAIN nodes : nodes[i] = k
  BY DEF Nodes
<1>2. nodes # <<>> /\ Head(nodes) = nodes[1] /\ 1 \in DOMAIN nodes /\ i \in Nat /\ i >= 1
  BY <1>1
<1>3. nodes[1] \in Flow
  BY <1>2
<1>4. nodes[1] # End
  BY <1>3, Keys
<1>5. i = 1 \/ 1 < i
  BY <1>2
<1> QED
  BY <1>1, <1>2, <1>4, <1>5 DEF Ahead, Before

(* What the listing has and what is ahead of it stay all of the table it began with. *)
LEMMA ListingStep == TypeInv /\ ListingInv /\ [Next]_vars => ListingInv'
<1> SUFFICES ASSUME TypeInv, ListingInv, [Next]_vars PROVE ListingInv'
  OBVIOUS
<1>a. /\ nodes \in Seq(Flow) /\ Distinct(nodes) /\ Nodes \subseteq Flow /\ flows \in [Flow -> Counts]
      /\ node \in Nodes \cup {End} /\ DOMAIN began \subseteq Nodes /\ began \in [DOMAIN began -> Nat]
      /\ listed \in Seq([flow : Flow, packets : Nat])
      /\ \A i \in DOMAIN listed : listed[i].flow \in Nodes
      /\ reader = "advance" => node # End
  BY DEF TypeInv, CountsInv, ListInv, WalkInv, Nodes
<1>1. ASSUME UNCHANGED <<reader, node, listed, began, rehashed, nodes, flows>> PROVE ListingInv'
  BY <1>1 DEF ListingInv
<1>2. ASSUME InsertFlow PROVE ListingInv'
  <2>1. PICK k \in Flow : k \notin Nodes /\ nodes' \in Insertions(k)
    BY <1>2, Keys DEF InsertFlow, TypeInv, CountsInv
  <2>2. /\ UNCHANGED <<reader, node, listed, began, flows>>
        /\ rehashed' = (rehashed \/ Len(nodes') \in RehashAt)
    BY <1>2 DEF InsertFlow, listing
  <2> SUFFICES ASSUME reader # "idle", ~rehashed' PROVE ListingInv'
    BY <2>2 DEF ListingInv
  <2>3. Len(nodes) + 1 \notin RehashAt
    BY <1>a, <2>1, <2>2, InsertionKeeps
  <2>4. PICK p \in Nat : Inserted(nodes', nodes, k, p)
    BY <1>a, <2>1, <2>3, InsertionPlace
  <2>5. \A a, b \in Nodes : Before(nodes', a, b) <=> Before(nodes, a, b)
    BY <1>a, <2>1, <2>4, OrderKept
  <2>6. \A x \in Nodes : Ahead(nodes', reader, node, x) <=> Ahead(nodes, reader, node, x)
    BY <1>a, <2>5 DEF Ahead
  <2> QED
    BY <1>a, <2>2, <2>6 DEF ListingInv
<1>3. ASSUME CountFlow PROVE ListingInv'
  <2>1. /\ UNCHANGED <<reader, node, listed, began, rehashed, nodes>>
        /\ FlowOf(frame) \in Nodes /\ flows' = [flows EXCEPT ![FlowOf(frame)] = Add(@)]
    BY <1>3 DEF CountFlow, listing
  <2>2. \A k \in Flow : flows[k].packets \in Nat /\ flows'[k].packets >= flows[k].packets
    <3>1. frame \in Frame /\ FlowOf(frame) \in Flow
      BY <1>a, <2>1 DEF TypeInv, CountsInv
    <3>2. ASSUME NEW k \in Flow PROVE flows[k].packets \in Nat /\ flows'[k].packets >= flows[k].packets
      <4>1. flows[k] \in Counts /\ flows[k].packets \in Nat
        BY <1>a DEF Counts
      <4>2. CASE k = FlowOf(frame)
        <5>1. flows'[k] = Add(flows[k])
          BY <1>a, <2>1, <4>2
        <5> QED
          BY <3>1, <4>1, <5>1, AddType
      <4>3. CASE k # FlowOf(frame)
        BY <1>a, <2>1, <4>1, <4>3
      <4> QED
        BY <4>2, <4>3
    <3> QED
      BY <3>2
  <2>3. ASSUME NEW k \in DOMAIN began, began[k] <= flows[k].packets
        PROVE  began[k] <= flows'[k].packets
    <3>1. k \in Flow /\ began[k] \in Nat
      BY <1>a
    <3>2. flows'[k].packets \in Nat
      BY <3>1, AddType, <1>a, <2>1 DEF TypeInv, CountsInv, Add, Counts
    <3> QED
      BY <2>2, <2>3, <3>1, <3>2
  <2> QED
    BY <2>1, <2>3 DEF ListingInv
<1>4. ASSUME BeginListing PROVE ListingInv'
  <2>1. /\ reader' = "read" /\ listed' = <<>> /\ UNCHANGED <<nodes, flows>>
        /\ node' = IF nodes = <<>> THEN End ELSE Head(nodes)
        /\ began' = [k \in Nodes |-> flows[k].packets]
    BY <1>4 DEF BeginListing, tables
  <2>2. DOMAIN listed' = {} /\ DOMAIN began' = Nodes
    BY <2>1
  <2>3. \A k \in Nodes : Ahead(nodes', reader', node', k)
    BY <1>a, <2>1, AheadFirst
  <2>4. \A k \in Nodes : began'[k] <= flows'[k].packets
    <3>1. \A k \in Nodes : flows[k].packets \in Nat
      BY <1>a DEF Counts
    <3> QED
      BY <2>1, <3>1
  <2> QED
    BY <2>2, <2>3, <2>4 DEF ListingInv
<1>5. ASSUME ListFlow PROVE ListingInv'
  <2>1. /\ reader = "read" /\ reader' = "advance" /\ node # End /\ node \in Nodes
        /\ UNCHANGED <<node, began, rehashed, nodes, flows>>
    BY <1>5, <1>a DEF ListFlow, tables
  <2> SUFFICES ASSUME ~rehashed PROVE ListingInv'
    BY <2>1 DEF ListingInv
  <2>2. PICK r : r = [flow |-> node, packets |-> flows[node].packets]
    OBVIOUS
  <2>3. PICK n \in Nat : n = Len(listed) /\ DOMAIN listed = 1..n
    BY <1>a
  <2>4. /\ DOMAIN listed' = 1..(n + 1) /\ listed'[n + 1] = r /\ r.flow = node
        /\ \A i \in 1..n : listed'[i] = listed[i]
        /\ r.packets = flows[node].packets
    <3>1. listed' = Append(listed, r)
      BY <1>5, <2>2 DEF ListFlow
    <3> QED
      BY <1>a, <2>2, <2>3, <3>1
  <2>5. \A x : /\ Ahead(nodes, "read", node, x) <=> x = node \/ Ahead(nodes, "advance", node, x)
               /\ ~Ahead(nodes, "advance", node, node)
    BY <1>a, <2>1, AheadRead
  <2>6. /\ \A k \in DOMAIN began :
              \/ \E i \in 1..n : listed[i].flow = k /\ listed[i].packets >= began[k]
              \/ Ahead(nodes, "read", node, k)
        /\ \A i \in 1..n : ~Ahead(nodes, "read", node, listed[i].flow)
        /\ \A i, j \in 1..n : listed[i].flow = listed[j].flow => i = j
        /\ \A k \in DOMAIN began : began[k] <= flows[k].packets
    BY <2>1, <2>3 DEF ListingInv
  <2>7. \A i \in 1..n : i \in 1..(n + 1)
    OBVIOUS
  <2>8. n + 1 \in 1..(n + 1) /\ \A i \in 1..(n + 1) : i \in 1..n \/ i = n + 1
    OBVIOUS
  <2>9. ASSUME NEW k \in DOMAIN began
        PROVE  \/ \E i \in 1..(n + 1) : listed'[i].flow = k /\ listed'[i].packets >= began[k]
               \/ Ahead(nodes, "advance", node, k)
    <3>1. CASE \E i \in 1..n : listed[i].flow = k /\ listed[i].packets >= began[k]
      BY <2>4, <2>7, <3>1
    <3>2. CASE k = node
      <4>1. flows[k].packets \in Nat /\ began[k] \in Nat /\ began[k] <= flows[k].packets
        BY <1>a, <2>6 DEF Counts
      <4>2. listed'[n + 1].flow = k /\ listed'[n + 1].packets >= began[k]
        BY <2>4, <3>2, <4>1
      <4> QED
        BY <2>8, <4>2
    <3> QED
      BY <2>5, <2>6, <3>1, <3>2
  <2>10. ASSUME NEW i \in 1..(n + 1) PROVE ~Ahead(nodes, "advance", node, listed'[i].flow)
    BY <2>4, <2>5, <2>6, <2>8
  <2>11. ASSUME NEW i \in 1..(n + 1), NEW j \in 1..(n + 1), listed'[i].flow = listed'[j].flow
         PROVE  i = j
    <3>1. \A m \in 1..n : listed[m].flow # node
      BY <2>5, <2>6
    <3> QED
      BY <2>4, <2>6, <2>8, <2>11, <3>1
  <2> QED
    BY <2>1, <2>4, <2>6, <2>9, <2>10, <2>11 DEF ListingInv
<1>6. ASSUME Advance PROVE ListingInv'
  <2>1. /\ reader = "advance" /\ reader' = "read" /\ node' = Following(node) /\ node \in Nodes
        /\ UNCHANGED <<listed, began, rehashed, nodes, flows>>
    BY <1>6, <1>a DEF Advance, tables
  <2>2. \A x : Ahead(nodes, "read", node', x) <=> Ahead(nodes, "advance", node, x)
    BY <1>a, <2>1, AheadAdvance
  <2> QED
    BY <2>1, <2>2 DEF ListingInv
<1>7. ASSUME AnswerListing PROVE ListingInv'
  BY <1>7 DEF AnswerListing, ListingInv
<1>8. ASSUME NEW f \in Frame, CountProtocol(f) PROVE ListingInv'
  BY <1>1, <1>8 DEF CountProtocol, listing
<1>9. ASSUME CountTalkers \/ CountApp PROVE ListingInv'
  BY <1>1, <1>9 DEF CountTalkers, CountApp, listing
<1>10. ASSUME EndFrame \/ ExportCSV \/ ExportJSON PROVE ListingInv'
  BY <1>1, <1>10 DEF EndFrame, ExportCSV, ExportJSON, listing, tables
<1>11. ASSUME UNCHANGED vars PROVE ListingInv'
  BY <1>1, <1>11 DEF vars, listing, tables
<1> QED
  BY <1>2, <1>3, <1>4, <1>5, <1>6, <1>7, <1>8, <1>9, <1>10, <1>11 DEF Next, Capture, Listing

(* A listing during which the buckets do not grow has every flow that was in *)
(* the table when it began, once, with no fewer packets, whatever is         *)
(* inserted and counted meanwhile (api_server.cpp:171-215).                  *)
THEOREM ListingCompleteCorrect == Spec => ListingComplete
<1>1. Init => ListingInv
  BY DEF Init, ListingInv
<1>2. TypeInv /\ ListingInv /\ [Next]_vars => Complete
  <2> SUFFICES ASSUME TypeInv, ListingInv, [Next]_vars, reader = "read", reader' = "idle", ~rehashed
               PROVE  /\ \A k \in DOMAIN began : \E i \in DOMAIN listed :
                            listed[i].flow = k /\ listed[i].packets >= began[k]
                      /\ \A i, j \in DOMAIN listed : listed[i].flow = listed[j].flow => i = j
    BY DEF Complete
  <2>1. node = End
    <3>1. CASE Listing
      BY <3>1 DEF Listing, BeginListing, ListFlow, Advance, AnswerListing
    <3>2. CASE Capture
      BY <3>2 DEF Capture, CountProtocol, CountTalkers, InsertFlow, CountFlow, CountApp,
                  EndFrame, ExportCSV, ExportJSON, listing
    <3>3. CASE UNCHANGED vars
      BY <3>3 DEF vars, listing
    <3> QED
      BY <3>1, <3>2, <3>3 DEF Next
  <2> QED
    BY <2>1 DEF ListingInv, Ahead
<1>3. TypeInv /\ ListingInv /\ [Next]_vars => [Complete]_vars
  BY <1>2
<1> QED
  BY <1>1, <1>3, TypeInvCorrect, ListingStep, PTL DEF Spec, ListingComplete
=============================================================================
