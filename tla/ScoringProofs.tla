---------------------------- MODULE ScoringProofs ----------------------------
(***************************************************************************)
(* The operators of ScoringRules for every league: what the sums, the      *)
(* greatest confidences and the ranks of rows are, whatever their number.  *)
(* Facts about all finite sets are shown by a least counterexample.        *)
(***************************************************************************)
EXTENDS ScoringRules, FiniteSetTheorems, WellFoundedInduction, TLAPS

(***************************************************************************)
(* Least counterexamples.                                                  *)
(***************************************************************************)

\* A set of subsets of a finite set has a member none of whose proper subsets
\* is one.
LEMMA LeastSubset ==
  ASSUME NEW S, IsFiniteSet(S), NEW Bad \in SUBSET SUBSET S, Bad # {}
  PROVE  \E U \in Bad : \A V \in Bad : V \subseteq U => V = U
<1>1. Bad \subseteq FiniteSubsetsOf(S)
  BY FS_Subset DEF FiniteSubsetsOf
<1>2. PICK U \in Bad : \A V \in Bad : <<V, U>> \notin StrictSubsetOrdering(S)
  BY <1>1, FS_StrictSubsetOrderingWellFounded, WFMin
<1> QED BY <1>2 DEF StrictSubsetOrdering

\* A set of numbers has a least one.
LEMMA LeastNumber ==
  ASSUME NEW S \in SUBSET Nat, S # {}
  PROVE  \E n \in S : \A k \in S : n <= k
<1>1. PICK n \in S : TRUE
  OBVIOUS
<1> DEFINE below(k) == {j \in S : j <= k}
           Bad == {below(k) : k \in below(n)}
<1>2. IsFiniteSet(below(n))
  <2>1. below(n) \in SUBSET Nat /\ \A j \in below(n) : j <= n
    OBVIOUS
  <2> HIDE DEF below
  <2> QED BY <1>1, <2>1, FS_BoundedSetOfNaturals
<1>3. ASSUME NEW k \in S, NEW j \in below(k)
      PROVE  below(j) \subseteq below(k)
  <2> SUFFICES ASSUME NEW i \in S, i <= j PROVE i <= k
    OBVIOUS
  <2>1. j <= k /\ i \in Nat /\ j \in Nat /\ k \in Nat
    BY <1>3
  <2> QED BY <2>1
<1>4. n \in below(n)
  BY <1>1
<1>5. PICK U \in Bad : \A V \in Bad : V \subseteq U => V = U
  <2>1. below(n) \in Bad
    BY <1>4
  <2>2. \A V \in Bad : V \subseteq below(n)
    BY <1>1, <1>3
  <2> HIDE DEF Bad, below
  <2>3. Bad \in SUBSET SUBSET below(n) /\ Bad # {}
    BY <2>1, <2>2
  <2> QED BY <1>2, <2>3, LeastSubset
<1>6. PICK k \in below(n) : U = below(k)
  BY <1>5
<1>7. ASSUME NEW j \in S, ~(k <= j) PROVE FALSE
  <2>1. k \in S /\ j \in below(k) /\ k \notin below(j) /\ k \in below(k)
    BY <1>6, <1>7
  <2>2. j \in below(n)
    BY <1>3, <1>6, <2>1
  <2>3. below(j) \in Bad /\ below(j) \subseteq below(k)
    BY <1>3, <2>1, <2>2
  <2>4. below(j) = below(k)
    BY <1>5, <1>6, <2>3
  <2> HIDE DEF below
  <2> QED BY <2>1, <2>4
<1> QED BY <1>6, <1>7

(***************************************************************************)
(* Sums.  A sum over a finite set is read off a table of the sums of its   *)
(* subsets, which takes one element at a time from them.                   *)
(***************************************************************************)

One(s) == CHOOSE x \in s : TRUE

\* h is a table of the sums of f over subsets of S of at most n members.
Table(h, f, S, n) ==
  /\ h \in [SUBSET S -> Nat]
  /\ \A s \in SUBSET S :
       Cardinality(s) <= n => h[s] = IF s = {} THEN 0 ELSE f[One(s)] + h[s \ {One(s)}]

SumTable(h, f, S) ==
  h = [s \in SUBSET S |-> IF s = {} THEN 0 ELSE f[One(s)] + h[s \ {One(s)}]]

Counts(f, S) == \A x \in S : f[x] \in Nat

LEMMA LargerTable ==
  ASSUME NEW S, IsFiniteSet(S), NEW f, Counts(f, S), NEW n \in Nat, NEW h, Table(h, f, S, n)
  PROVE  \E g : Table(g, f, S, n + 1)
<1> DEFINE g == [s \in SUBSET S |->
                   IF Cardinality(s) <= n THEN h[s] ELSE f[One(s)] + h[s \ {One(s)}]]
<1>1. \A s \in SUBSET S : s # {} => One(s) \in s /\ f[One(s)] \in Nat
  BY DEF One, Counts
<1>2. h \in [SUBSET S -> Nat] /\ \A s \in SUBSET S : s \ {One(s)} \in SUBSET S
  BY DEF Table
<1>3. ASSUME NEW s \in SUBSET S
      PROVE  /\ IsFiniteSet(s) /\ Cardinality(s) \in Nat
             /\ Cardinality(s) = 0 <=> s = {}
             /\ s # {} => Cardinality(s \ {One(s)}) = Cardinality(s) - 1
  BY <1>1, FS_Subset, FS_CardinalityType, FS_EmptySet, FS_RemoveElement
<1>4. g \in [SUBSET S -> Nat]
  <2> SUFFICES ASSUME NEW s \in SUBSET S
               PROVE  (IF Cardinality(s) <= n THEN h[s] ELSE f[One(s)] + h[s \ {One(s)}]) \in Nat
    OBVIOUS
  <2>1. s = {} => Cardinality(s) <= n
    <3>1. s = {} => Cardinality(s) = 0
      BY <1>3
    <3> QED BY <3>1
  <2> QED BY <1>1, <1>2, <2>1
<1>5. ASSUME NEW s \in SUBSET S, Cardinality(s) <= n + 1
      PROVE  g[s] = IF s = {} THEN 0 ELSE f[One(s)] + g[s \ {One(s)}]
  <2>1. s # {} => g[s \ {One(s)}] = h[s \ {One(s)}]
    <3> SUFFICES ASSUME s # {} PROVE Cardinality(s \ {One(s)}) <= n
      BY <1>2
    <3> QED BY <1>3, <1>5
  <2>2. CASE Cardinality(s) <= n
    <3>1. g[s] = h[s] /\ h[s] = IF s = {} THEN 0 ELSE f[One(s)] + h[s \ {One(s)}]
      BY <2>2 DEF Table
    <3> QED BY <2>1, <3>1
  <2>3. CASE ~(Cardinality(s) <= n)
    <3>1. g[s] = f[One(s)] + h[s \ {One(s)}]
      BY <2>3
    <3>2. s = {} => Cardinality(s) = 0
      BY <1>3
    <3>3. s # {}
      BY <2>3, <3>2
    <3> QED BY <2>1, <3>1, <3>3
  <2> QED BY <2>2, <2>3
<1> HIDE DEF g
<1> QED BY <1>4, <1>5 DEF Table

LEMMA SumTableExists ==
  ASSUME NEW S, IsFiniteSet(S), NEW f, Counts(f, S)
  PROVE  \E h : h \in [SUBSET S -> Nat] /\ SumTable(h, f, S)
<1> DEFINE Bad == {n \in Nat : ~ \E h : Table(h, f, S, n)}
<1>1. Bad = {}
  <2> SUFFICES ASSUME Bad # {} PROVE FALSE
    OBVIOUS
  <2>1. PICK n \in Bad : \A k \in Bad : n <= k
    BY LeastNumber
  <2>2. CASE n = 0
    <3> DEFINE h == [s \in SUBSET S |-> 0]
    <3>1. \A s \in SUBSET S : Cardinality(s) <= 0 => s = {}
      BY FS_Subset, FS_CardinalityType, FS_EmptySet
    <3>2. Table(h, f, S, 0)
      BY <3>1 DEF Table
    <3> QED BY <2>1, <2>2, <3>2
  <2>3. CASE n # 0
    <3>1. n - 1 \in Nat /\ n - 1 \notin Bad
      BY <2>1, <2>3
    <3>2. PICK h : Table(h, f, S, n - 1)
      BY <3>1
    <3>3. \E g : Table(g, f, S, (n - 1) + 1)
      BY <3>1, <3>2, LargerTable
    <3> QED BY <2>1, <3>1, <3>3
  <2> QED BY <2>2, <2>3
<1>2. Cardinality(S) \in Nat
  BY FS_CardinalityType
<1>3. PICK h : Table(h, f, S, Cardinality(S))
  BY <1>1, <1>2
<1>4. \A s \in SUBSET S : Cardinality(s) <= Cardinality(S)
  BY FS_Subset
<1>5. \A s \in SUBSET S : h[s] = IF s = {} THEN 0 ELSE f[One(s)] + h[s \ {One(s)}]
  BY <1>3, <1>4 DEF Table
<1>6. h \in [SUBSET S -> Nat]
  BY <1>3 DEF Table
<1>7. h = [s \in SUBSET S |-> IF s = {} THEN 0 ELSE f[One(s)] + h[s \ {One(s)}]]
  BY <1>5, <1>6
<1> QED BY <1>6, <1>7 DEF SumTable

LEMMA SumTablesAgree ==
  ASSUME NEW S, IsFiniteSet(S), NEW T \in SUBSET S, NEW f,
         NEW h, SumTable(h, f, S), NEW k, SumTable(k, f, T)
  PROVE  h[T] = k[T]
<1> DEFINE Bad == {s \in SUBSET T : h[s] # k[s]}
<1>1. /\ \A s \in SUBSET S : h[s] = IF s = {} THEN 0 ELSE f[One(s)] + h[s \ {One(s)}]
      /\ \A s \in SUBSET T : k[s] = IF s = {} THEN 0 ELSE f[One(s)] + k[s \ {One(s)}]
  BY DEF SumTable
<1>2. IsFiniteSet(T)
  BY FS_Subset
<1>3. Bad = {}
  <2> SUFFICES ASSUME Bad # {} PROVE FALSE
    OBVIOUS
  <2>1. PICK U \in Bad : \A V \in Bad : V \subseteq U => V = U
    <3>1. Bad \in SUBSET SUBSET T
      OBVIOUS
    <3> HIDE DEF Bad
    <3> QED BY <1>2, <3>1, LeastSubset
  <2>2. U \in SUBSET T /\ U \in SUBSET S /\ h[U] # k[U] /\ U # {}
    BY <1>1, <2>1
  <2> DEFINE V == U \ {One(U)}
  <2>3. One(U) \in U
    BY <2>2 DEF One
  <2>4. V \in SUBSET T /\ V \subseteq U /\ V # U
    BY <2>2, <2>3
  <2>5. h[V] = k[V]
    BY <2>1, <2>4
  <2> QED BY <1>1, <2>2, <2>5
<1> QED BY <1>3

LEMMA SumIsATable ==
  ASSUME NEW f, NEW S
  PROVE  SumFunctionOnSet(f, S) = (CHOOSE h : SumTable(h, f, S))[S]
BY DEF SumFunctionOnSet, FoldFunctionOnSet, MapThenFoldSet, SumTable, One

LEMMA SumIsRead ==
  ASSUME NEW S, IsFiniteSet(S), NEW f, Counts(f, S), NEW T \in SUBSET S,
         NEW h, SumTable(h, f, S)
  PROVE  SumFunctionOnSet(f, T) = h[T]
<1>1. IsFiniteSet(T) /\ Counts(f, T)
  BY FS_Subset DEF Counts
<1>2. PICK k : SumTable(k, f, T)
  BY <1>1, SumTableExists
<1>3. SumTable(CHOOSE j : SumTable(j, f, T), f, T)
  BY <1>2
<1> QED BY <1>3, SumIsATable, SumTablesAgree

\* What a sum is, without its table: it grows by the members added.
LEMMA SumIsANumber ==
  ASSUME NEW S, IsFiniteSet(S), NEW f, Counts(f, S)
  PROVE  SumFunctionOnSet(f, S) \in Nat /\ SumFunctionOnSet(f, {}) = 0
<1>1. PICK h : h \in [SUBSET S -> Nat] /\ SumTable(h, f, S)
  BY SumTableExists
<1>2. h[{}] = 0 /\ h[S] \in Nat
  BY <1>1 DEF SumTable
<1> QED BY <1>1, <1>2, SumIsRead

LEMMA SumRemove ==
  ASSUME NEW S, IsFiniteSet(S), NEW f, Counts(f, S), NEW x \in S
  PROVE  SumFunctionOnSet(f, S) = f[x] + SumFunctionOnSet(f, S \ {x})
<1>1. PICK h : h \in [SUBSET S -> Nat] /\ SumTable(h, f, S)
  BY SumTableExists
<1>2. \A s \in SUBSET S : s # {} => /\ One(s) \in s
                                    /\ h[s] = f[One(s)] + h[s \ {One(s)}]
  BY <1>1 DEF SumTable, One
<1>3. \A s \in SUBSET S : h[s] \in Nat
  BY <1>1
<1>4. \A y \in S : f[y] \in Nat
  BY DEF Counts
<1> DEFINE Bad == {s \in SUBSET S : \E y \in s : h[s] # f[y] + h[s \ {y}]}
<1>5. Bad = {}
  <2> SUFFICES ASSUME Bad # {} PROVE FALSE
    OBVIOUS
  <2>1. PICK U \in Bad : \A V \in Bad : V \subseteq U => V = U
    <3>1. Bad \in SUBSET SUBSET S
      OBVIOUS
    <3> HIDE DEF Bad
    <3> QED BY <3>1, LeastSubset
  <2>2. PICK y \in U : h[U] # f[y] + h[U \ {y}]
    BY <2>1
  <2> DEFINE z == One(U)
  <2>3. U \in SUBSET S /\ z \in U /\ h[U] = f[z] + h[U \ {z}] /\ y # z
    BY <1>2, <2>1, <2>2
  <2> HIDE DEF z
  <2>4. /\ U \ {y} \in SUBSET S /\ z \in U \ {y} /\ U \ {y} # U
        /\ U \ {z} \in SUBSET S /\ y \in U \ {z} /\ U \ {z} # U
    BY <2>2, <2>3
  <2>5. h[U \ {y}] = f[z] + h[(U \ {y}) \ {z}] /\ h[U \ {z}] = f[y] + h[(U \ {z}) \ {y}]
    BY <2>1, <2>4
  <2> DEFINE W == (U \ {y}) \ {z}
  <2>6. (U \ {z}) \ {y} = W /\ W \in SUBSET S
    BY <2>3
  <2>7. f[y] \in Nat /\ f[z] \in Nat /\ h[W] \in Nat
    BY <1>3, <1>4, <2>2, <2>3, <2>6
  <2>8. h[U] = f[z] + (f[y] + h[W]) /\ h[U \ {y}] = f[z] + h[W]
    BY <2>3, <2>5, <2>6
  <2> HIDE DEF W
  <2> QED BY <2>2, <2>7, <2>8
<1>6. h[S] = f[x] + h[S \ {x}]
  BY <1>5
<1> QED BY <1>1, <1>6, SumIsRead

\* A sum is that of a part and of the rest.
LEMMA SumSplit ==
  ASSUME NEW S, IsFiniteSet(S), NEW f, Counts(f, S), NEW T \in SUBSET S
  PROVE  SumFunctionOnSet(f, S) = SumFunctionOnSet(f, T) + SumFunctionOnSet(f, S \ T)
<1> DEFINE Sum(s) == SumFunctionOnSet(f, s)
           Bad == {s \in SUBSET S : Sum(S) # Sum(s) + Sum(S \ s)}
<1>1. \A s \in SUBSET S : IsFiniteSet(s) /\ Counts(f, s) /\ Sum(s) \in Nat /\ Sum({}) = 0
  <2> SUFFICES ASSUME NEW s \in SUBSET S
               PROVE  IsFiniteSet(s) /\ Counts(f, s) /\ Sum(s) \in Nat /\ Sum({}) = 0
    OBVIOUS
  <2>1. IsFiniteSet(s) /\ Counts(f, s)
    BY FS_Subset DEF Counts
  <2> QED BY <2>1, SumIsANumber
<1>2. \A s \in SUBSET S : \A x \in s : Sum(s) = f[x] + Sum(s \ {x})
  BY <1>1, SumRemove
<1> HIDE DEF Sum
<1>3. Bad = {}
  <2> SUFFICES ASSUME Bad # {} PROVE FALSE
    OBVIOUS
  <2>1. PICK U \in Bad : \A V \in Bad : V \subseteq U => V = U
    <3>1. Bad \in SUBSET SUBSET S
      OBVIOUS
    <3> HIDE DEF Bad
    <3> QED BY <3>1, LeastSubset
  <2>2. U \in SUBSET S /\ Sum(S) # Sum(U) + Sum(S \ U)
    BY <2>1
  <2>3. U # {}
    <3> SUFFICES ASSUME U = {} PROVE FALSE
      OBVIOUS
    <3>1. Sum(U) = 0 /\ S \ U = S /\ Sum(S) \in Nat
      BY <1>1
    <3> QED BY <2>2, <3>1
  <2>4. PICK x \in U : TRUE
    BY <2>3
  <2> DEFINE V == U \ {x}
  <2>5. V \in SUBSET S /\ V \notin Bad
    BY <2>1, <2>2, <2>4
  <2>6. Sum(S) = Sum(V) + Sum(S \ V)
    BY <2>5
  <2>7. Sum(U) = f[x] + Sum(V)
    BY <1>2, <2>2, <2>4
  <2>8. Sum(S \ V) = f[x] + Sum(S \ U)
    <3>1. S \ V \in SUBSET S /\ x \in S \ V /\ (S \ V) \ {x} = S \ U
      BY <2>2, <2>4
    <3> QED BY <1>2, <3>1
  <2>9. f[x] \in Nat /\ Sum(V) \in Nat /\ Sum(S \ U) \in Nat
    BY <1>1, <2>2, <2>4, <2>5 DEF Counts
  <2> QED BY <2>2, <2>6, <2>7, <2>8, <2>9
<1> QED BY <1>3 DEF Sum

\* Sums of the same members are the same.
LEMMA SumSame ==
  ASSUME NEW S, IsFiniteSet(S), NEW f, Counts(f, S), NEW g, \A x \in S : g[x] = f[x]
  PROVE  SumFunctionOnSet(g, S) = SumFunctionOnSet(f, S)
<1>1. PICK h : h \in [SUBSET S -> Nat] /\ SumTable(h, f, S)
  BY SumTableExists
<1>2. \A s \in SUBSET S : s # {} => g[One(s)] = f[One(s)]
  BY DEF One
<1>3. SumTable(h, g, S)
  BY <1>1, <1>2 DEF SumTable
<1>4. Counts(g, S)
  BY DEF Counts
<1> QED BY <1>1, <1>3, <1>4, SumIsRead

LEMMA SumOfZeros ==
  ASSUME NEW S, IsFiniteSet(S), NEW f, \A x \in S : f[x] = 0
  PROVE  SumFunctionOnSet(f, S) = 0
<1> DEFINE h == [s \in SUBSET S |-> 0]
<1>1. \A s \in SUBSET S : s # {} => One(s) \in S /\ s \ {One(s)} \in SUBSET S
  BY DEF One
<1>2. SumTable(h, f, S)
  <2> SUFFICES ASSUME NEW s \in SUBSET S
               PROVE  0 = IF s = {} THEN 0 ELSE f[One(s)] + h[s \ {One(s)}]
    BY DEF SumTable
  <2> QED BY <1>1
<1>3. Counts(f, S) /\ h[S] = 0
  BY DEF Counts
<1> QED BY <1>2, <1>3, SumIsRead

\* Several picks count their confidences.
LEMMA SumOfConfidences ==
  ASSUME NEW S \in SUBSET Picks, IsFiniteSet(S), NEW f, \A p \in S : f[p] = Conf(p)
  PROVE  MapThenSumSet(Conf, S) = SumFunctionOnSet(f, S)
<1> DEFINE Confs(h) ==
             h = [s \in SUBSET S |-> IF s = {} THEN 0 ELSE Conf(One(s)) + h[s \ {One(s)}]]
<1>1. Counts(f, S)
  BY ScoreAssumption DEF Counts
<1>2. \A s \in SUBSET S : s # {} => f[One(s)] = Conf(One(s))
  BY DEF One
<1>3. \A h : Confs(h) <=> SumTable(h, f, S)
  BY <1>2 DEF SumTable
<1>4. MapThenSumSet(Conf, S) = (CHOOSE h : Confs(h))[S]
  BY DEF MapThenSumSet, MapThenFoldSet, One
<1> HIDE DEF Confs
<1>5. \E h : Confs(h)
  BY <1>1, <1>3, SumTableExists
<1>6. SumTable(CHOOSE h : Confs(h), f, S)
  BY <1>3, <1>5
<1> QED BY <1>1, <1>4, <1>6, SumIsRead

(***************************************************************************)
(* The greatest confidence.                                                *)
(***************************************************************************)

\* A finite set of numbers without a greatest one would have a least subset like it.
LEMMA GreatestNumber ==
  ASSUME NEW S, IsFiniteSet(S), S # {}, \A x \in S : x \in Nat
  PROVE  Max(S) \in S /\ \A y \in S : y <= Max(S)
<1> DEFINE Topped(T) == \E x \in T : \A y \in T : y <= x
           Bad == {T \in SUBSET S : T # {} /\ ~Topped(T)}
<1>1. Bad = {}
  <2> SUFFICES ASSUME Bad # {} PROVE FALSE
    OBVIOUS
  <2>1. PICK U \in Bad : \A V \in Bad : V \subseteq U => V = U
    <3>1. Bad \in SUBSET SUBSET S
      OBVIOUS
    <3> HIDE DEF Bad, Topped
    <3> QED BY <3>1, LeastSubset
  <2>2. PICK u \in U : U \in SUBSET S /\ ~Topped(U)
    BY <2>1
  <2> DEFINE V == U \ {u}
  <2>6. V \in SUBSET S /\ V \subseteq U /\ V # U
    BY <2>2
  <2>3. V = {} \/ Topped(V)
    BY <2>1, <2>6
  <2>4. ASSUME V = {} PROVE FALSE
    BY <2>2, <2>4
  <2>5. ASSUME Topped(V) PROVE FALSE
    <3>1. PICK m \in V : \A y \in V : y <= m
      BY <2>5
    <3>2. m \in Nat /\ u \in Nat /\ m \in U /\ \A y \in U : y \in Nat
      BY <2>2, <3>1
    <3>3. CASE u <= m
      BY <2>2, <3>1, <3>2, <3>3
    <3>4. CASE m <= u
      <4>1. \A y \in U : y <= u
        BY <3>1, <3>2, <3>4
      <4> QED BY <2>2, <4>1
    <3> QED BY <3>2, <3>3, <3>4
  <2> QED BY <2>3, <2>4, <2>5
<1>2. PICK x \in S : \A y \in S : y <= x
  BY <1>1
<1>3. \E z \in S : \A y \in S : z >= y
  <2>1. \A y \in S : x >= y
    BY <1>2
  <2> QED BY <2>1
<1>4. Max(S) \in S /\ \A y \in S : Max(S) >= y
  BY <1>3 DEF Max
<1>5. \A y \in S : y \in Nat /\ Max(S) \in Nat
  BY <1>4
<1> QED BY <1>4, <1>5

LEMMA TopIsGreatest ==
  ASSUME NEW S \in SUBSET Nat, IsFiniteSet(S)
  PROVE  Top(S) \in {0} \cup S /\ Top(S) \in Nat /\ \A y \in S : y <= Top(S)
<1> DEFINE all == {0} \cup S
<1>1. all # {} /\ \A x \in all : x \in Nat
  OBVIOUS
<1>2. IsFiniteSet(S \cup {0}) /\ S \cup {0} = all
  BY FS_AddElement
<1>3. Top(S) = Max(all)
  BY DEF Top
<1> HIDE DEF all
<1>4. Max(all) \in all /\ \A y \in all : y <= Max(all)
  BY <1>1, <1>2, GreatestNumber
<1> QED BY <1>1, <1>3, <1>4 DEF all

\* The greatest of all is that of the greatest of some and the others.
LEMMA TopOfParts ==
  ASSUME NEW S \in SUBSET Nat, IsFiniteSet(S), NEW T \in SUBSET Nat, IsFiniteSet(T)
  PROVE  Top(S \cup T) = Top({Top(S)} \cup T)
<1>1. IsFiniteSet(S \cup T) /\ S \cup T \in SUBSET Nat
  BY FS_Union
<1>2. Top(S) \in {0} \cup S /\ Top(S) \in Nat /\ \A y \in S : y <= Top(S)
  BY TopIsGreatest
<1>3. IsFiniteSet({Top(S)} \cup T) /\ {Top(S)} \cup T \in SUBSET Nat
  BY <1>2, FS_Singleton, FS_Union
<1> DEFINE a == Top(S \cup T)
           b == Top({Top(S)} \cup T)
<1>4. a \in {0} \cup S \cup T /\ a \in Nat /\ \A y \in S \cup T : y <= a
  BY <1>1, TopIsGreatest
<1>5. b \in {0} \cup {Top(S)} \cup T /\ b \in Nat /\ \A y \in {Top(S)} \cup T : y <= b
  BY <1>3, TopIsGreatest
<1> HIDE DEF a, b
<1>6. a <= b
  <2>1. CASE a \in S
    <3>1. a <= Top(S) /\ Top(S) <= b
      BY <1>2, <1>5, <2>1
    <3> QED BY <1>2, <1>4, <1>5, <3>1
  <2>2. CASE a \in {0} \cup T
    BY <1>4, <1>5, <2>2
  <2> QED BY <1>4, <2>1, <2>2
<1>7. b <= a
  <2>1. CASE b = Top(S)
    BY <1>2, <1>4, <2>1
  <2>2. CASE b \in {0} \cup T
    BY <1>4, <1>5, <2>2
  <2> QED BY <1>5, <2>1, <2>2
<1>8. a = b
  BY <1>4, <1>5, <1>6, <1>7
<1> QED BY <1>8 DEF a, b

(***************************************************************************)
(* Ranks and rows.                                                         *)
(***************************************************************************)

\* The rank of a member is one more than the number of those ahead.
LEMMA RankCountsThoseAhead ==
  ASSUME NEW S, IsFiniteSet(S), NEW row, NEW m \in S
  PROVE  /\ RankIn(row, S)[m] = 1 + Cardinality({n \in S : Ahead(row[n], row[m])})
         /\ RankIn(row, S)[m] \in Nat
<1> DEFINE table == {<<n, row[n]>> : n \in S}
           ahead == {t \in table : Ahead(t[2], row[m])}
           those == {n \in S : Ahead(row[n], row[m])}
           entry == [n \in those |-> <<n, row[n]>>]
<1>1. entry \in Bijection(those, ahead)
  <2>1. entry \in [those -> ahead]
    OBVIOUS
  <2>2. \A t \in ahead : \E n \in those : entry[n] = t
    OBVIOUS
  <2>3. \A n, k \in those : entry[n] = entry[k] => n = k
    OBVIOUS
  <2> HIDE DEF entry, ahead, those
  <2> QED BY <2>1, <2>2, <2>3 DEF Bijection, Injection, IsInjective, Surjection
<1>2. IsFiniteSet(those)
  BY FS_Subset
<1>3. Cardinality(ahead) = Cardinality(those) /\ Cardinality(those) \in Nat
  <2> HIDE DEF entry, ahead, those
  <2>1. ExistsBijection(those, ahead)
    BY <1>1 DEF ExistsBijection
  <2> QED BY <1>2, <2>1, FS_Bijection, FS_CardinalityType
<1>4. RankIn(row, S)[m] = 1 + Cardinality(ahead)
  BY DEF RankIn
<1> HIDE DEF ahead
<1> QED BY <1>3, <1>4

\* Rows that agree on what decides the order have the same ranks.
LEMMA SameOrderSameRanks ==
  ASSUME NEW S, IsFiniteSet(S), NEW row, NEW other,
         \A n \in S : /\ row[n].total = other[n].total /\ row[n].correct = other[n].correct
                      /\ row[n].topLoss = other[n].topLoss
  PROVE  RankIn(row, S) = RankIn(other, S)
<1>1. ASSUME NEW m \in S PROVE RankIn(row, S)[m] = RankIn(other, S)[m]
  <2>1. {n \in S : Ahead(row[n], row[m])} = {n \in S : Ahead(other[n], other[m])}
    BY DEF Ahead
  <2>2. RankIn(row, S)[m] = 1 + Cardinality({n \in S : Ahead(row[n], row[m])})
    BY RankCountsThoseAhead
  <2>3. RankIn(other, S)[m] = 1 + Cardinality({n \in S : Ahead(other[n], other[m])})
    BY RankCountsThoseAhead
  <2> QED BY <2>1, <2>2, <2>3
<1>2. RankIn(row, S) = [m \in S |-> RankIn(row, S)[m]]
  BY DEF RankIn
<1>3. RankIn(other, S) = [m \in S |-> RankIn(other, S)[m]]
  BY DEF RankIn
<1> QED BY <1>1, <1>2, <1>3

LEMMA PicksAreFinite == IsFiniteSet(Picks)
<1>1. IsFiniteSet(Members \X Games)
  BY ScoreAssumption, FS_Product
<1> QED BY <1>1, FS_Subset DEF Picks

\* Picks that have points, those of one member, and those that were right.
ScoredOf(m, pts) == {p \in DOMAIN pts : p[1] = m /\ pts[p] # NoPoints}
WonOf(m, pts) == {p \in ScoredOf(m, pts) : pts[p] > 0}

LEMMA RowsAreSums ==
  ASSUME NEW pts, NEW m \in Members
  PROVE  LET mine == ScoredOf(m, pts)
             won == WonOf(m, pts)
         IN  /\ DOMAIN RowsFrom(pts) = Members
             /\ RowsFrom(pts)[m].total = SumFunctionOnSet(pts, mine)
             /\ RowsFrom(pts)[m].correct = Cardinality(won)
             /\ RowsFrom(pts)[m].topWin = Top({Conf(p) : p \in won})
             /\ RowsFrom(pts)[m].topLoss = Top({Conf(p) : p \in mine \ won})
BY DEF RowsFrom, ScoredOf, WonOf

Points == Nat \cup {NoPoints}

\* The sets that a row is made of.
LEMMA PartsOfARow ==
  ASSUME NEW D \in SUBSET Picks, NEW pts \in [D -> Points], NEW m \in Members
  PROVE  LET mine == ScoredOf(m, pts)
             won == WonOf(m, pts)
         IN  /\ mine \in SUBSET Picks /\ IsFiniteSet(mine) /\ Counts(pts, mine)
             /\ won \in SUBSET mine /\ IsFiniteSet(won)
             /\ {Conf(p) : p \in won} \in SUBSET Nat /\ IsFiniteSet({Conf(p) : p \in won})
             /\ {Conf(p) : p \in mine \ won} \in SUBSET Nat
             /\ IsFiniteSet({Conf(p) : p \in mine \ won})
<1> DEFINE mine == ScoredOf(m, pts)
           won == WonOf(m, pts)
<1>1. mine \in SUBSET Picks /\ won \in SUBSET mine /\ Counts(pts, mine)
  BY DEF ScoredOf, WonOf, Counts, Points, NoPoints
<1> HIDE DEF mine, won
<1>2. ASSUME NEW s \in SUBSET mine
      PROVE  IsFiniteSet(s) /\ {Conf(p) : p \in s} \in SUBSET Nat /\ IsFiniteSet({Conf(p) : p \in s})
  <2>1. IsFiniteSet(s)
    BY <1>1, PicksAreFinite, FS_Subset
  <2>2. \A p \in s : Conf(p) \in Nat
    BY <1>1, ScoreAssumption
  <2> DEFINE confs == {Conf(p) : p \in s}
             read == [p \in s |-> Conf(p)]
  <2>3. read \in Surjection(s, confs)
    BY DEF Surjection
  <2> HIDE DEF read
  <2>4. IsFiniteSet(confs)
    BY <2>1, <2>3, FS_Surjection
  <2> QED BY <2>1, <2>2, <2>4
<1> QED BY <1>1, <1>2 DEF mine, won

LEMMA RowsAreTyped ==
  ASSUME NEW D \in SUBSET Picks, NEW pts \in [D -> Points]
  PROVE  RowsFrom(pts) \in [Members -> WeeklyRow]
<1>1. ASSUME NEW m \in Members
      PROVE  /\ RowsFrom(pts)[m].total \in Nat /\ RowsFrom(pts)[m].correct \in Nat
             /\ RowsFrom(pts)[m].topWin \in Nat /\ RowsFrom(pts)[m].topLoss \in Nat
  <2> DEFINE mine == ScoredOf(m, pts)
             won == WonOf(m, pts)
             wins == {Conf(p) : p \in won}
             losses == {Conf(p) : p \in mine \ won}
  <2>1. /\ IsFiniteSet(mine) /\ Counts(pts, mine) /\ IsFiniteSet(won)
        /\ wins \in SUBSET Nat /\ IsFiniteSet(wins) /\ losses \in SUBSET Nat /\ IsFiniteSet(losses)
    BY PartsOfARow
  <2>2. /\ RowsFrom(pts)[m].total = SumFunctionOnSet(pts, mine)
        /\ RowsFrom(pts)[m].correct = Cardinality(won)
        /\ RowsFrom(pts)[m].topWin = Top(wins)
        /\ RowsFrom(pts)[m].topLoss = Top(losses)
    BY RowsAreSums
  <2> HIDE DEF mine, won, wins, losses
  <2>3. SumFunctionOnSet(pts, mine) \in Nat /\ Cardinality(won) \in Nat
    BY <2>1, SumIsANumber, FS_CardinalityType
  <2>4. Top(wins) \in Nat /\ Top(losses) \in Nat
    BY <2>1, TopIsGreatest
  <2> QED BY <2>2, <2>3, <2>4
<1>2. ASSUME NEW m \in Members PROVE RowsFrom(pts)[m].rank \in Nat
  <2>1. \E row : RowsFrom(pts)[m].rank = RankIn(row, Members)[m]
    BY DEF RowsFrom
  <2> QED BY <2>1, RankCountsThoseAhead, ScoreAssumption
<1>3. /\ RowsFrom(pts) = [m \in Members |-> RowsFrom(pts)[m]]
      /\ \A m \in Members :
           RowsFrom(pts)[m] = [total |-> RowsFrom(pts)[m].total, correct |-> RowsFrom(pts)[m].correct,
                               topWin |-> RowsFrom(pts)[m].topWin,
                               topLoss |-> RowsFrom(pts)[m].topLoss, rank |-> RowsFrom(pts)[m].rank]
  BY DEF RowsFrom
<1> HIDE DEF RowsFrom
<1> QED BY <1>1, <1>2, <1>3 DEF WeeklyRow
===============================================================================
