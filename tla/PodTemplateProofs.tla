------------------------- MODULE PodTemplateProofs -------------------------
(***************************************************************************)
(* PodTemplates for every set of volumes and of specifications: what the   *)
(* Pods of a volume run with.  The operators on environments come first:   *)
(* that every set of numbers can be ordered needs the pigeonhole principle *)
(* and is what uniqueEnv and AnnotationsToEnv rest on.  The invariant then *)
(* says what each object of a volume was made from.                        *)
(***************************************************************************)
EXTENDS PodTemplates, FiniteSetTheorems, TLAPS

-----------------------------------------------------------------------------
(* Ordered. *)

UpTo(S, x) == {y \in S : y <= x}

\* Every number from 1 to the size of a set is the rank of one of its elements.
LEMMA Ranks ==
  ASSUME NEW S \in SUBSET Nat, IsFiniteSet(S)
  PROVE  /\ Cardinality(S) \in Nat
         /\ \A x \in S : Cardinality(UpTo(S, x)) \in 1..Cardinality(S)
         /\ \A x, y \in S : x < y => Cardinality(UpTo(S, x)) < Cardinality(UpTo(S, y))
         /\ \A k \in 1..Cardinality(S) : \E x \in S : Cardinality(UpTo(S, x)) = k
<1> DEFINE n == Cardinality(S)
           rank == [x \in S |-> Cardinality(UpTo(S, x))]
<1>1. n \in Nat
  BY FS_CardinalityType
<1>2. ASSUME NEW x \in S
      PROVE  IsFiniteSet(UpTo(S, x)) /\ Cardinality(UpTo(S, x)) \in 1..n
  <2>1. UpTo(S, x) \in SUBSET S /\ x \in UpTo(S, x)
    BY DEF UpTo
  <2>2. IsFiniteSet(UpTo(S, x)) /\ Cardinality(UpTo(S, x)) <= n
    BY <2>1, FS_Subset
  <2>3. Cardinality(UpTo(S, x)) \in Nat /\ Cardinality(UpTo(S, x)) # 0
    BY <2>1, <2>2, FS_CardinalityType, FS_EmptySet
  <2> QED
    BY <1>1, <2>2, <2>3
<1>3. ASSUME NEW x \in S, NEW y \in S, x < y
      PROVE  Cardinality(UpTo(S, x)) < Cardinality(UpTo(S, y))
  <2>1. UpTo(S, x) \in SUBSET UpTo(S, y) /\ y \in UpTo(S, y) /\ y \notin UpTo(S, x)
    <3>1. y <= y /\ ~(y <= x) /\ \A z \in S : z <= x => z <= y
      BY <1>3
    <3> QED
      BY <3>1, Zenon DEF UpTo
  <2>2. Cardinality(UpTo(S, x)) <= Cardinality(UpTo(S, y))
        /\ Cardinality(UpTo(S, x)) # Cardinality(UpTo(S, y))
    BY <1>2, <2>1, FS_Subset
  <2> QED
    BY <1>1, <1>2, <2>2
<1>4. rank \in Injection(S, 1..n)
  <2>1. rank \in [S -> 1..n]
    BY <1>2
  <2>2. \A x, y \in S : x # y => rank[x] # rank[y]
    <3> SUFFICES ASSUME NEW x \in S, NEW y \in S, x # y PROVE rank[x] # rank[y]
      OBVIOUS
    <3>1. x < y \/ y < x
      OBVIOUS
    <3>2. rank[x] \in 1..n /\ rank[y] \in 1..n
      BY <2>1
    <3>3. rank[x] < rank[y] \/ rank[y] < rank[x]
      BY <1>3, <3>1
    <3> QED
      BY <1>1, <3>2, <3>3
  <2> QED
    BY <2>1, <2>2 DEF Injection, IsInjective
<1>5. IsFiniteSet(1..n) /\ Cardinality(1..n) = n
  BY <1>1, FS_Interval
<1>6. rank \in Surjection(S, 1..n)
  BY <1>4, <1>5, FS_Injection
<1>7. \A k \in 1..n : \E x \in S : Cardinality(UpTo(S, x)) = k
  BY <1>6, Zenon DEF Surjection
<1> QED
  BY <1>1, <1>2, <1>3, <1>7

\* Ordered lists every element once, in ascending order.
LEMMA OrderedLists ==
  ASSUME NEW S \in SUBSET Nat, IsFiniteSet(S)
  PROVE  /\ Ordered(S) \in [1..Cardinality(S) -> S]
         /\ Cardinality(S) \in Nat
         /\ \A j, k \in 1..Cardinality(S) : j < k => Ordered(S)[j] < Ordered(S)[k]
         /\ \A x \in S : \E k \in 1..Cardinality(S) : Ordered(S)[k] = x
<1> DEFINE n == Cardinality(S)
           o == Ordered(S)
<1>1. n \in Nat
  BY Ranks
<1>2. o = [k \in 1..n |-> CHOOSE x \in S : Cardinality(UpTo(S, x)) = k]
  BY DEF Ordered, UpTo
<1>3. ASSUME NEW k \in 1..n PROVE o[k] \in S /\ Cardinality(UpTo(S, o[k])) = k
  <2>1. \E x \in S : Cardinality(UpTo(S, x)) = k
    BY Ranks
  <2> QED
    BY <1>2, <2>1
<1>4. ASSUME NEW j \in 1..n, NEW k \in 1..n, j < k PROVE o[j] < o[k]
  <2>1. o[j] \in Nat /\ o[k] \in Nat
    BY <1>3, Zenon
  <2>2. o[j] # o[k]
    BY <1>1, <1>3, <1>4
  <2>3. o[k] < o[j] => k < j
    BY <1>3, Ranks, Zenon
  <2> QED
    BY <1>1, <1>4, <2>1, <2>2, <2>3
<1>5. ASSUME NEW x \in S PROVE \E k \in 1..n : o[k] = x
  <2> DEFINE k == Cardinality(UpTo(S, x))
  <2>1. k \in 1..n
    BY Ranks
  <2>2. o[k] \in S /\ Cardinality(UpTo(S, o[k])) = k
    BY <1>3, <2>1
  <2>3. o[k] < x => Cardinality(UpTo(S, o[k])) < k
    BY <2>2, Ranks, Zenon
  <2>4. x < o[k] => k < Cardinality(UpTo(S, o[k]))
    BY <2>2, Ranks, Zenon
  <2>5. ~(k < k)
    BY <1>1, <2>1
  <2>6. o[k] = x
    <3> HIDE DEF k, o
    <3>1. x \in Nat /\ o[k] \in Nat
      BY <2>2, Zenon
    <3> QED
      BY <2>2, <2>3, <2>4, <2>5, <3>1
  <2> QED
    BY <2>1, <2>6
<1> QED
  BY <1>1, <1>2, <1>3, <1>4, <1>5

LEMMA Positions ==
  ASSUME NEW n \in Nat, NEW S \in SUBSET (1..n)
  PROVE  IsFiniteSet(S) /\ S \in SUBSET Nat
<1>1. IsFiniteSet(1..n)
  BY FS_Interval
<1>2. IsFiniteSet(S)
  BY <1>1, FS_Subset, Zenon
<1>3. S \in SUBSET Nat
  OBVIOUS
<1> QED
  BY <1>2, <1>3

\* A set of positions has a last one.
LEMMA LastExists ==
  ASSUME NEW n \in Nat, NEW S \in SUBSET (1..n), S # {}
  PROVE  IsFiniteSet(S) /\ \E x \in S : \A y \in S : y <= x
<1>1. IsFiniteSet(S) /\ S \in SUBSET Nat
  BY Positions
<1>2. Cardinality(S) \in Nat /\ Cardinality(S) # 0
  BY <1>1, FS_CardinalityType, FS_EmptySet
<1>3. PICK x \in S : Cardinality(UpTo(S, x)) = Cardinality(S)
  BY <1>1, <1>2, Ranks
<1>4. UpTo(S, x) = S
  <2>1. UpTo(S, x) \in SUBSET S
    BY DEF UpTo
  <2> QED
    BY <1>1, <1>3, <2>1, FS_Subset
<1> QED
  BY <1>1, <1>4 DEF UpTo

-----------------------------------------------------------------------------
(* Environments. *)

Env(values) == Seq(Nat \X values)

\* i is the last entry of n.
LastAt(env, n, i) ==
  /\ i \in DOMAIN env /\ env[i][1] = n
  /\ \A j \in DOMAIN env : env[j][1] = n => j <= i

LEMMA LastEntry ==
  ASSUME NEW V, NEW env \in Env(V), NEW n \in NamesIn(env)
  PROVE  \E i \in DOMAIN env : LastAt(env, n, i)
<1> DEFINE at == {i \in DOMAIN env : env[i][1] = n}
<1>1. Len(env) \in Nat /\ at \in SUBSET (1..Len(env))
  BY DEF Env
<1>2. at # {}
  BY DEF NamesIn
<1> HIDE DEF at
<1>3. PICK i \in at : \A j \in at : j <= i
  BY <1>1, <1>2, LastExists, Zenon
<1> QED
  BY <1>3 DEF at, LastAt

LEMMA LookupLast ==
  ASSUME NEW V, NEW env \in Env(V), NEW n, NEW i \in DOMAIN env, LastAt(env, n, i)
  PROVE  Lookup(env, n) = env[i][2]
<1> DEFINE at == {j \in DOMAIN env : env[j][1] = n}
           last == CHOOSE k \in at : \A j \in at : j <= k
<1>1. i \in at /\ \A j \in at : j <= i
  BY DEF LastAt
<1>2. last \in at /\ \A j \in at : j <= last
  BY <1>1
<1>3. \A j \in at : j \in Nat
  BY DEF Env
<1>4. Lookup(env, n) = env[last][2]
  BY <1>1 DEF Lookup
<1> HIDE DEF at, last
<1>5. last = i
  BY <1>1, <1>2, <1>3
<1> QED
  BY <1>4, <1>5

LEMMA LookupNone ==
  ASSUME NEW V, NEW env \in Env(V), NEW n, n \notin NamesIn(env)
  PROVE  Lookup(env, n) = << >>
<1>1. {i \in DOMAIN env : env[i][1] = n} = {}
  BY DEF NamesIn
<1> QED
  BY <1>1 DEF Lookup

LEMMA NamesFinite ==
  ASSUME NEW V, NEW env \in Env(V)
  PROVE  NamesIn(env) \in SUBSET Nat /\ IsFiniteSet(NamesIn(env))
<1>1. NamesIn(env) \in SUBSET Nat
  BY DEF NamesIn, Env
<1> DEFINE name == [i \in 1..Len(env) |-> env[i][1]]
<1>2. name \in Surjection(1..Len(env), NamesIn(env))
  <2>1. DOMAIN env = 1..Len(env)
    BY DEF Env
  <2>2. name \in [1..Len(env) -> NamesIn(env)]
    BY <2>1 DEF NamesIn
  <2>3. \A n \in NamesIn(env) : \E i \in 1..Len(env) : name[i] = n
    BY <2>1 DEF NamesIn
  <2> QED
    BY <2>2, <2>3 DEF Surjection
<1>3. Len(env) \in Nat /\ IsFiniteSet(1..Len(env))
  BY FS_Interval DEF Env
<1> HIDE DEF name
<1> QED
  BY <1>1, <1>2, <1>3, FS_Surjection

\* uniqueEnv has every name once, and what a process sees of it is what it
\* would have seen of the list that has duplicates.
LEMMA UniqueEnv ==
  ASSUME NEW V, NEW env \in Env(V)
  PROVE  /\ uniqueEnv(env) \in Env(V)
         /\ Len(uniqueEnv(env)) = Cardinality(NamesIn(env))
         /\ NamesIn(uniqueEnv(env)) = NamesIn(env)
         /\ \A n : Lookup(uniqueEnv(env), n) = Lookup(env, n)
<1> DEFINE names == Ordered(NamesIn(env))
           size == Cardinality(NamesIn(env))
           m == [n \in NamesIn(env) |-> Max({i \in DOMAIN env : env[i][1] = n})]
           u == uniqueEnv(env)
<1>1. /\ size \in Nat /\ names \in [1..size -> NamesIn(env)]
      /\ \A j, k \in 1..size : j < k => names[j] < names[k]
      /\ \A n \in NamesIn(env) : \E k \in 1..size : names[k] = n
  BY NamesFinite, OrderedLists
<1>2. ASSUME NEW n \in NamesIn(env) PROVE LastAt(env, n, m[n])
  <2> DEFINE at == {i \in DOMAIN env : env[i][1] = n}
  <2>1. PICK i \in DOMAIN env : LastAt(env, n, i)
    BY LastEntry
  <2>2. DOMAIN env \subseteq Nat
    BY DEF Env
  <2>3. i \in at /\ \A j \in at : i >= j
    BY <2>1, <2>2 DEF LastAt
  <2>4. m[n] \in at /\ \A j \in at : m[n] >= j
    BY <2>3 DEF Max
  <2> QED
    BY <2>2, <2>4 DEF LastAt
<1>3. u = [k \in 1..size |-> env[m[names[k]]]]
  BY <1>1 DEF uniqueEnv
<1> HIDE DEF names, size, m, u
<1>4. ASSUME NEW k \in 1..size
      PROVE  /\ names[k] \in NamesIn(env) /\ u[k] = env[m[names[k]]]
             /\ m[names[k]] \in DOMAIN env /\ u[k] \in Nat \X V /\ u[k][1] = names[k]
  BY <1>1, <1>2, <1>3 DEF LastAt, Env
<1>5. u \in Env(V) /\ DOMAIN u = 1..size /\ Len(u) = size
  <2>1. DOMAIN u = 1..size /\ u \in [1..size -> Nat \X V]
    <3>1. DOMAIN u = 1..size /\ u = [k \in 1..size |-> u[k]]
      BY <1>3
    <3> QED
      BY <1>4, <3>1
  <2> QED
    BY <1>1, <2>1 DEF Env
<1>6. NamesIn(u) = NamesIn(env)
  <2>1. \A k \in 1..size : u[k][1] \in NamesIn(env)
    BY <1>4
  <2>2. \A n \in NamesIn(env) : \E k \in 1..size : u[k][1] = n
    BY <1>1, <1>4
  <2>3. NamesIn(u) = {u[k][1] : k \in 1..size}
    BY <1>5 DEF NamesIn
  <2> QED
    BY <2>1, <2>2, <2>3
<1>7. ASSUME NEW n \in NamesIn(env) PROVE Lookup(u, n) = Lookup(env, n)
  <2>1. PICK k \in 1..size : names[k] = n
    BY <1>1
  <2>2. \A j \in 1..size : names[j] = n => j = k
    <3> SUFFICES ASSUME NEW j \in 1..size, names[j] = n, j # k PROVE FALSE
      OBVIOUS
    <3>1. j < k \/ k < j
      BY <1>1
    <3>2. names[j] < names[k] \/ names[k] < names[j]
      BY <1>1, <3>1
    <3>3. n \in Nat
      BY NamesFinite
    <3> QED
      BY <2>1, <3>2, <3>3
  <2>3. LastAt(u, n, k)
    BY <1>1, <1>4, <1>5, <2>1, <2>2 DEF LastAt
  <2>4. Lookup(u, n) = u[k][2]
    BY <1>5, <2>3, LookupLast
  <2>5. Lookup(env, n) = env[m[n]][2]
    BY <1>2, <1>4, <2>1, LookupLast
  <2> QED
    BY <1>4, <2>1, <2>4, <2>5
<1>8. ASSUME NEW n, n \notin NamesIn(env) PROVE Lookup(u, n) = Lookup(env, n)
  BY <1>5, <1>6, <1>8, LookupNone
<1> QED
  BY <1>5, <1>6, <1>7, <1>8 DEF u, size

\* The later of two lists takes precedence.
LEMMA LookupConcat ==
  ASSUME NEW V, NEW a \in Env(V), NEW b \in Env(V)
  PROVE  /\ a \o b \in Env(V)
         /\ NamesIn(a \o b) = NamesIn(a) \cup NamesIn(b)
         /\ \A n : Lookup(a \o b, n) = IF n \in NamesIn(b) THEN Lookup(b, n) ELSE Lookup(a, n)
<1> DEFINE c == a \o b
<1>1. c \in Env(V)
  BY DEF Env
<1>2. /\ Len(a) \in Nat /\ DOMAIN a = 1..Len(a) /\ Len(b) \in Nat /\ DOMAIN b = 1..Len(b)
      /\ DOMAIN c = 1..(Len(a) + Len(b))
      /\ \A i \in DOMAIN a : i \in DOMAIN c /\ c[i] = a[i]
      /\ \A i \in DOMAIN b : Len(a) + i \in DOMAIN c /\ c[Len(a) + i] = b[i]
      /\ \A i \in DOMAIN c : i \in DOMAIN a \/ (i - Len(a) \in DOMAIN b /\ c[i] = b[i - Len(a)])
  <2>1. /\ Len(a) \in Nat /\ DOMAIN a = 1..Len(a) /\ Len(b) \in Nat /\ DOMAIN b = 1..Len(b)
        /\ DOMAIN c = 1..(Len(a) + Len(b))
    BY DEF Env
  <2>2. \A i \in 1..(Len(a) + Len(b)) : c[i] = IF i <= Len(a) THEN a[i] ELSE b[i - Len(a)]
    BY DEF Env
  <2> HIDE DEF c
  <2>3. \A i \in DOMAIN a : i \in DOMAIN c /\ c[i] = a[i]
    BY <2>1, <2>2
  <2>4. \A i \in DOMAIN b : Len(a) + i \in DOMAIN c /\ c[Len(a) + i] = b[i]
    <3> SUFFICES ASSUME NEW i \in DOMAIN b
                 PROVE  Len(a) + i \in DOMAIN c /\ c[Len(a) + i] = b[i]
      OBVIOUS
    <3>1. /\ Len(a) + i \in 1..(Len(a) + Len(b)) /\ ~(Len(a) + i <= Len(a))
          /\ (Len(a) + i) - Len(a) = i
      BY <2>1
    <3> QED
      BY <2>1, <2>2, <3>1
  <2>5. \A i \in DOMAIN c : i \in DOMAIN a \/ (i - Len(a) \in DOMAIN b /\ c[i] = b[i - Len(a)])
    <3> SUFFICES ASSUME NEW i \in DOMAIN c, i \notin DOMAIN a
                 PROVE  i - Len(a) \in DOMAIN b /\ c[i] = b[i - Len(a)]
      OBVIOUS
    <3>1. i \in 1..(Len(a) + Len(b)) /\ ~(i <= Len(a)) /\ i - Len(a) \in 1..Len(b)
      BY <2>1
    <3> QED
      BY <2>1, <2>2, <3>1
  <2> QED
    BY <2>1, <2>3, <2>4, <2>5
<1> HIDE DEF c
<1>3. NamesIn(c) = NamesIn(a) \cup NamesIn(b)
  BY <1>2 DEF NamesIn
<1>4. ASSUME NEW n \in NamesIn(b) PROVE Lookup(c, n) = Lookup(b, n)
  <2>1. PICK i \in DOMAIN b : LastAt(b, n, i)
    BY LastEntry
  <2>2. LastAt(c, n, Len(a) + i)
    BY <1>2, <2>1 DEF LastAt
  <2> QED
    BY <1>1, <1>2, <2>1, <2>2, LookupLast
<1>5. ASSUME NEW n \in NamesIn(a) \ NamesIn(b) PROVE Lookup(c, n) = Lookup(a, n)
  <2>1. PICK i \in DOMAIN a : LastAt(a, n, i)
    BY LastEntry
  <2>2. \A j \in DOMAIN b : b[j][1] # n
    BY DEF NamesIn
  <2>3. LastAt(c, n, i)
    BY <1>2, <2>1, <2>2 DEF LastAt
  <2> QED
    BY <1>1, <1>2, <2>1, <2>3, LookupLast
<1>6. ASSUME NEW n, n \notin NamesIn(c) PROVE Lookup(c, n) = Lookup(a, n)
  BY <1>1, <1>3, <1>6, LookupNone
<1> QED
  BY <1>1, <1>3, <1>4, <1>5, <1>6 DEF c

\* Three lists, as NewProvisionerPod merges them.
LEMMA MergedEnv ==
  ASSUME NEW V, NEW a \in Env(V), NEW b \in Env(V), NEW c \in Env(V),
         NEW u, u = uniqueEnv(a \o b \o c)
  PROVE  /\ u \in Env(V)
         /\ NamesIn(u) = NamesIn(a) \cup NamesIn(b) \cup NamesIn(c)
         /\ Len(u) = Cardinality(NamesIn(u))
         /\ \A n : Lookup(u, n) = IF n \in NamesIn(c) THEN Lookup(c, n)
                                  ELSE IF n \in NamesIn(b) THEN Lookup(b, n)
                                  ELSE Lookup(a, n)
<1> DEFINE ab == a \o b
           abc == ab \o c
<1>1. /\ ab \in Env(V) /\ NamesIn(ab) = NamesIn(a) \cup NamesIn(b)
      /\ \A n : Lookup(ab, n) = IF n \in NamesIn(b) THEN Lookup(b, n) ELSE Lookup(a, n)
  BY LookupConcat
<1> HIDE DEF ab
<1>2. /\ abc \in Env(V) /\ NamesIn(abc) = NamesIn(ab) \cup NamesIn(c)
      /\ \A n : Lookup(abc, n) = IF n \in NamesIn(c) THEN Lookup(c, n) ELSE Lookup(ab, n)
  BY <1>1, LookupConcat
<1> HIDE DEF abc
<1>3. /\ u \in Env(V) /\ Len(u) = Cardinality(NamesIn(abc)) /\ NamesIn(u) = NamesIn(abc)
      /\ \A n : Lookup(u, n) = Lookup(abc, n)
  <2>1. u = uniqueEnv(abc)
    BY Zenon DEF abc, ab
  <2> QED
    BY <1>2, <2>1, UniqueEnv, Zenon
<1> QED
  BY <1>1, <1>2, <1>3

-----------------------------------------------------------------------------
(* Annotations. *)

EnvVar == [name : Nat, annotation : Annotation, required : BOOLEAN]

Mapping == Seq(EnvVar)

LEMMA MappingType ==
  ASSUME NEW mapping \in Mapping
  PROVE  /\ Len(mapping) \in Nat /\ DOMAIN mapping = 1..Len(mapping)
         /\ \A i \in DOMAIN mapping :
              mapping[i].name \in Nat /\ mapping[i].annotation \in Annotation
<1>1. Len(mapping) \in Nat /\ DOMAIN mapping = 1..Len(mapping)
  BY DEF Mapping
<1>2. \A i \in DOMAIN mapping : mapping[i] \in EnvVar
  BY DEF Mapping
<1>3. \A m \in EnvVar : m.name \in Nat /\ m.annotation \in Annotation
  BY DEF EnvVar
<1> QED
  BY <1>1, <1>2, <1>3

\* What annotations become is literal.
LEMMA AnnotationsToEnvType ==
  ASSUME NEW V, NEW T, \A t \in T : Str(t) \in V,
         NEW anns \in [Annotation -> T], NEW mapping \in Mapping
  PROVE  AnnotationsToEnv(anns, mapping) \in Env(V)
<1> DEFINE S == {i \in DOMAIN mapping : anns[mapping[i].annotation] # ""}
           given == Ordered(S)
           size == Cardinality(S)
           env == AnnotationsToEnv(anns, mapping)
<1>1. Len(mapping) \in Nat /\ S \in SUBSET (1..Len(mapping))
  BY MappingType, Zenon
<1>2. S \in SUBSET Nat /\ IsFiniteSet(S)
  <2> HIDE DEF S
  <2> QED
    BY <1>1, Positions, Zenon
<1>3. size \in Nat /\ given \in [1..size -> S]
  BY <1>2, OrderedLists, Zenon
<1>4. \A i \in S : mapping[i].name \in Nat /\ mapping[i].annotation \in Annotation
  BY MappingType, Zenon
<1>5. env = [k \in 1..size |-> <<mapping[given[k]].name, Str(anns[mapping[given[k]].annotation])>>]
  BY <1>3, Zenon DEF AnnotationsToEnv
<1> HIDE DEF S, given, size, env
<1>6. env \in [1..size -> Nat \X V]
  <2> SUFFICES ASSUME NEW k \in 1..size
               PROVE  /\ mapping[given[k]].name \in Nat
                      /\ Str(anns[mapping[given[k]].annotation]) \in V
    BY <1>5
  <2> QED
    BY <1>3, <1>4
<1>7. env \in Env(V)
  BY <1>3, <1>6 DEF Env
<1> QED
  BY <1>7 DEF env

\* The copy of the annotations that a specification asks for says what the
\* annotations themselves said.
LEMMA CopyFollows ==
  ASSUME NEW src, NEW dest, NEW mapping \in Mapping,
         NEW copy, copy = CopyAnnotations(src, dest, mapping)
  PROVE  /\ AnnotationsToEnv(copy, mapping) = AnnotationsToEnv(src, mapping)
         /\ AnnotationMissing(copy, mapping) = AnnotationMissing(src, mapping)
<1>1. \A i \in DOMAIN mapping : copy[mapping[i].annotation] = src[mapping[i].annotation]
  BY MappingType DEF CopyAnnotations
<1> DEFINE of(anns) == {i \in DOMAIN mapping : anns[mapping[i].annotation] # ""}
<1>2. of(copy) = of(src)
  BY <1>1, Zenon
<1>3. of(src) \in SUBSET Nat /\ IsFiniteSet(of(src)) /\ of(src) \in SUBSET (DOMAIN mapping)
  <2>1. of(src) \in SUBSET (DOMAIN mapping)
    BY Zenon
  <2> HIDE DEF of
  <2> QED
    BY <2>1, MappingType, Positions
<1> DEFINE given == Ordered(of(src))
           size == Cardinality(of(src))
<1>4. given \in [1..size -> of(src)]
  BY <1>3, OrderedLists, Zenon
<1>5. \A k \in DOMAIN given : given[k] \in DOMAIN mapping
  BY <1>3, <1>4, Zenon
<1>6. AnnotationsToEnv(copy, mapping) = AnnotationsToEnv(src, mapping)
  <2>1. AnnotationsToEnv(copy, mapping)
          = [k \in DOMAIN given |-> <<mapping[given[k]].name, Str(copy[mapping[given[k]].annotation])>>]
    BY <1>2, Zenon DEF AnnotationsToEnv
  <2>2. AnnotationsToEnv(src, mapping)
          = [k \in DOMAIN given |-> <<mapping[given[k]].name, Str(src[mapping[given[k]].annotation])>>]
    BY Zenon DEF AnnotationsToEnv
  <2> HIDE DEF given
  <2> QED
    BY <1>1, <1>5, <2>1, <2>2
<1>7. AnnotationMissing(copy, mapping) = AnnotationMissing(src, mapping)
  BY <1>1, Zenon DEF AnnotationMissing
<1> QED
  BY <1>6, <1>7

-----------------------------------------------------------------------------
(* Specifications.  Each lemma says what an operator changes. *)

\* What is found in the objects of a volume: literals, and its own path.
OwnValues(v, path) ==
  (STRING \X {"literal"}) \cup {Str(t) : t \in Text \cup {""}} \cup {PathOf(v, path)}

LEMMA ToJSONFields ==
  ASSUME NEW V, NEW s \in SpecOf(V)
  PROVE  /\ ToJSON(s) \in SpecOf(V)
         /\ ToJSON(s).mapping = s.mapping /\ ToJSON(s).sound = s.sound
         /\ ToJSON(s).env = s.env /\ ToJSON(s).penv = s.penv /\ ToJSON(s).denv = s.denv
         /\ ToJSON(s).dir = s.dir
         /\ s.cmd \notin {"nil", "empty"} => ToJSON(s).cmd = s.cmd
         /\ ToJSON(s).dcmd # "empty" /\ ToJSON(s).dcmd \in Cmd /\ ToJSON(s).pcmd \in Cmd
         /\ s.dcmd # "empty" => ToJSON(s).dcmd = s.dcmd
<1> DEFINE NonEmpty(cmd) == IF cmd = "empty" THEN "nil" ELSE cmd
           c == NonEmpty(s.cmd)
           p == NonEmpty(s.pcmd)
           d == NonEmpty(s.dcmd)
           t == [s EXCEPT !.cmd = c, !.pcmd = p, !.dcmd = d]
<1>1. s.cmd \in Cmd /\ s.pcmd \in Cmd /\ s.dcmd \in Cmd
  BY DEF SpecOf
<1>2. /\ c \in Cmd /\ p \in Cmd /\ d \in Cmd /\ d # "empty"
      /\ s.cmd \notin {"nil", "empty"} => c = s.cmd
      /\ s.dcmd # "empty" => d = s.dcmd
  BY <1>1 DEF Cmd
<1>3. ToJSON(s) = t
  BY DEF ToJSON
<1> HIDE DEF c, p, d
<1>4. t \in SpecOf(V) /\ t.cmd = c /\ t.pcmd = p /\ t.dcmd = d
  BY <1>2, Zenon DEF SpecOf
<1>5. /\ t.mapping = s.mapping /\ t.sound = s.sound /\ t.dir = s.dir
      /\ t.env = s.env /\ t.penv = s.penv /\ t.denv = s.denv
  BY DEF SpecOf
<1> HIDE DEF t
<1> QED
  BY <1>2, <1>3, <1>4, <1>5

LEMMA MergeFields ==
  ASSUME NEW V, NEW s \in SpecOf(V), NEW env \in Env(V), NEW cmd \in Cmd, NEW values \in Env(V),
         NEW m, m = Merge(s, env, cmd, values)
  PROVE  /\ m \in SpecOf(V)
         /\ m.env = uniqueEnv(s.env \o env \o values)
         /\ m.cmd = IF cmd # "nil" THEN cmd ELSE s.cmd
         /\ m.mapping = s.mapping /\ m.sound = s.sound /\ m.dir = s.dir
         /\ m.denv = s.denv /\ m.dcmd = s.dcmd
<1> DEFINE u == uniqueEnv(s.env \o env \o values)
<1>1. s.env \in Env(V)
  BY DEF SpecOf, Env
<1>2. u \in Env(V)
  BY <1>1, MergedEnv
<1>3. m = [s EXCEPT !.env = u, !.cmd = IF cmd # "nil" THEN cmd ELSE @]
  BY DEF Merge
<1> HIDE DEF u
<1>4. /\ m \in SpecOf(V) /\ m.env = u
      /\ m.cmd = IF cmd # "nil" THEN cmd ELSE s.cmd
      /\ m.mapping = s.mapping /\ m.sound = s.sound /\ m.dir = s.dir
      /\ m.denv = s.denv /\ m.dcmd = s.dcmd
  BY <1>2, <1>3, Zenon DEF SpecOf, Env
<1> QED
  BY <1>4 DEF u

\* What the placeholders of a specification that can be substituted become.
LEMMA SubstituteFields ==
  ASSUME NEW s \in Specs, ~SubstituteFails(s), NEW v
  PROVE  LET own == Substitute(s, v, s.path)
         IN  /\ own \in SpecOf(OwnValues(v, s.path))
             /\ own.mapping = s.mapping /\ own.sound = s.sound
             /\ own.dir = IF s.dir[2] = "literal" THEN s.dir ELSE PathOf(v, s.path)
             /\ own.dcmd # "empty"
<1> DEFINE V == OwnValues(v, s.path)
           W == (STRING \X {"literal"}) \cup {Path, Unknown}
           str(x) == IF x = Path THEN PathOf(v, s.path) ELSE x
           all(env) == [i \in DOMAIN env |-> <<env[i][1], str(env[i][2])>>]
<1>1. s \in SpecOf(W)
  BY TemplateAssumption
<1>2. ASSUME NEW x \in W, x # Unknown
      PROVE  str(x) \in V /\ str(x) = IF x[2] = "literal" THEN x ELSE PathOf(v, s.path)
  <2>1. CASE x \in STRING \X {"literal"}
    <3>1. x[2] = "literal" /\ Path[2] # "literal"
      BY <2>1 DEF Path
    <3>2. x # Path
      BY <3>1
    <3> QED
      BY <2>1, <3>1, <3>2, Zenon DEF OwnValues
  <2>2. CASE x = Path
    <3>1. Path[2] # "literal"
      BY DEF Path
    <3> QED
      BY <2>2, <3>1 DEF OwnValues
  <2> QED
    BY <1>2, <2>1, <2>2
<1> HIDE DEF V, str
<1>3. ASSUME NEW env \in Env(W), \A i \in DOMAIN env : env[i][2] # Unknown
      PROVE  all(env) \in Seq(Nat \X V)
  <2>1. Len(env) \in Nat /\ DOMAIN env = 1..Len(env)
    BY DEF Env
  <2>2. \A i \in DOMAIN env : env[i][1] \in Nat /\ env[i][2] \in W
    BY DEF Env
  <2>3. all(env) \in [1..Len(env) -> Nat \X V]
    BY <1>2, <1>3, <2>1, <2>2
  <2> HIDE DEF all
  <2> QED
    BY <2>1, <2>3
<1>4. s.env \in Env(W) /\ s.penv \in Env(W) /\ s.denv \in Env(W) /\ s.dir \in W
  BY <1>1 DEF SpecOf, Env
<1>5. s.dir # Unknown /\ \A env \in {s.env, s.penv, s.denv} : \A i \in DOMAIN env : env[i][2] # Unknown
  BY DEF SubstituteFails, StringsIn, Range
<1>6. all(s.env) \in Seq(Nat \X V) /\ all(s.penv) \in Seq(Nat \X V) /\ all(s.denv) \in Seq(Nat \X V)
  BY <1>3, <1>4, <1>5, Zenon
<1>7. str(s.dir) \in V /\ str(s.dir) = IF s.dir[2] = "literal" THEN s.dir ELSE PathOf(v, s.path)
  BY <1>2, <1>4, <1>5
<1> DEFINE all1 == all(s.env)
           all2 == all(s.penv)
           all3 == all(s.denv)
           dir == str(s.dir)
           raw == [s EXCEPT !.env = all1, !.penv = all2, !.denv = all3, !.dir = dir]
<1>8. Substitute(s, v, s.path) = ToJSON(raw)
  BY DEF Substitute, str
<1> HIDE DEF all1, all2, all3, dir
<1>9. raw \in SpecOf(V) /\ raw.mapping = s.mapping /\ raw.sound = s.sound /\ raw.dir = dir
  <2>1. all1 \in Seq(Nat \X V) /\ all2 \in Seq(Nat \X V) /\ all3 \in Seq(Nat \X V) /\ dir \in V
    BY <1>6, <1>7 DEF all1, all2, all3, dir
  <2> HIDE DEF W
  <2> QED
    BY <1>1, <2>1, Zenon DEF SpecOf
<1> HIDE DEF raw
<1>10. /\ ToJSON(raw) \in SpecOf(V) /\ ToJSON(raw).mapping = s.mapping
       /\ ToJSON(raw).sound = s.sound /\ ToJSON(raw).dir = dir /\ ToJSON(raw).dcmd # "empty"
  BY <1>9, ToJSONFields
<1> QED
  BY <1>7, <1>8, <1>10 DEF V, dir

-----------------------------------------------------------------------------
(* The invariant. *)

\* Pod p of volume v, and what is recorded with it, was made from p.from.
Made(v, p) ==
  LET own    == Substitute(p.from, v, p.from.path)
      values == AnnotationsToEnv(p.anns, p.from.mapping)
      merged == Merge(own, own.penv, own.pcmd, values)
  IN  /\ p.from \in Specs /\ p.anns \in [Annotation -> Text \cup {""}]
      /\ ~AnnotationMissing(p.anns, p.from.mapping)
      /\ ~SubstituteFails(p.from) /\ ~MergeFails(merged)
      /\ p.env = merged.env /\ p.spec = ToJSON(merged)

\* The volume is what the Pod that succeeded recorded, and so is its
\* deprovisioner Pod.
VolumeInv(v) ==
  /\ pods[v].st \in {"none", "running"}
  /\ pods[v].st = "running" => pvs[v].st = "none" /\ Made(v, pods[v])
  /\ pvs[v].st \in {"none", "live", "gone"}
  /\ pvs[v].st = "live" =>
       /\ Made(v, ran[v])
       /\ pvs[v] = [st |-> "live", dir |-> ran[v].spec.dir, spec |-> ran[v].spec,
                    anns |-> CopyAnnotations(ran[v].anns, NoAnnotations, ran[v].spec.mapping)]
  /\ dpods[v].st \in {"none", "running"}
  /\ dpods[v].st = "running" => pvs[v].st = "live" /\ dpods[v] = PodOf(Deprovisioner(pvs[v]))

TemplateInv ==
  /\ TypeOK
  /\ Volume = DOMAIN pods /\ Volume = DOMAIN pvs /\ Volume = DOMAIN dpods /\ Volume = DOMAIN ran
  /\ \A v \in Volume : VolumeInv(v)

LEMMA SpecsMapping == \A s \in Specs : s.mapping \in Mapping
  BY TemplateAssumption, Zenon DEF SpecOf, Mapping, EnvVar

\* What a Pod was made with, and what it recorded.
LEMMA MadeFields ==
  ASSUME NEW v, NEW p, Made(v, p)
  PROVE  LET V      == OwnValues(v, p.from.path)
             own    == Substitute(p.from, v, p.from.path)
             values == AnnotationsToEnv(p.anns, p.from.mapping)
         IN  /\ own.env \in Env(V) /\ own.penv \in Env(V) /\ own.denv \in Env(V)
             /\ values \in Env(V)
             /\ p.env = uniqueEnv(own.env \o own.penv \o values) /\ p.env \in Env(V)
             /\ p.spec \in SpecOf(V) /\ p.spec.env = p.env /\ p.spec.denv = own.denv
             /\ p.spec.mapping = p.from.mapping /\ p.from.mapping \in Mapping
             /\ p.spec.sound /\ p.spec.cmd \notin {"nil", "empty"} /\ p.spec.dcmd # "empty"
             /\ p.spec.dir = IF p.from.dir[2] = "literal" THEN p.from.dir
                                                          ELSE PathOf(v, p.from.path)
<1> DEFINE V == OwnValues(v, p.from.path)
           own == Substitute(p.from, v, p.from.path)
           values == AnnotationsToEnv(p.anns, p.from.mapping)
           merged == Merge(own, own.penv, own.pcmd, values)
<1>1. /\ p.from \in Specs /\ p.anns \in [Annotation -> Text \cup {""}]
      /\ ~SubstituteFails(p.from) /\ ~MergeFails(merged)
      /\ p.env = merged.env /\ p.spec = ToJSON(merged)
  BY Zenon DEF Made
<1>2. /\ own \in SpecOf(V) /\ own.mapping = p.from.mapping /\ own.sound = p.from.sound
      /\ own.dir = IF p.from.dir[2] = "literal" THEN p.from.dir ELSE PathOf(v, p.from.path)
      /\ own.dcmd # "empty"
  BY <1>1, SubstituteFields, Zenon
<1>3. p.from.mapping \in Mapping
  BY <1>1, SpecsMapping, Zenon
<1>4. values \in Env(V)
  <2>1. \A t \in Text \cup {""} : Str(t) \in V
    BY Zenon DEF OwnValues
  <2> QED
    BY <1>1, <1>3, <2>1, AnnotationsToEnvType, Zenon
<1> HIDE DEF V, own, values
<1>5. own.env \in Env(V) /\ own.penv \in Env(V) /\ own.denv \in Env(V) /\ own.pcmd \in Cmd
  BY <1>2 DEF SpecOf, Env
<1>6. /\ merged \in SpecOf(V) /\ merged.env = uniqueEnv(own.env \o own.penv \o values)
      /\ merged.mapping = own.mapping /\ merged.sound = own.sound /\ merged.dir = own.dir
      /\ merged.denv = own.denv /\ merged.dcmd = own.dcmd
  <2>1. own \in SpecOf(V)
    BY <1>2
  <2>2. merged \in SpecOf(V) /\ merged.env = uniqueEnv(own.env \o own.penv \o values)
    BY <1>4, <1>5, <2>1, MergeFields
  <2>3. /\ merged.mapping = own.mapping /\ merged.sound = own.sound /\ merged.dir = own.dir
        /\ merged.denv = own.denv /\ merged.dcmd = own.dcmd
    BY <1>4, <1>5, <2>1, MergeFields
  <2> QED
    BY <2>2, <2>3
<1> HIDE DEF merged
<1>7. merged.sound /\ merged.cmd \notin {"nil", "empty"}
  BY <1>1, Zenon DEF MergeFails
<1>8. /\ p.spec \in SpecOf(V) /\ p.spec.env = merged.env /\ p.spec.denv = merged.denv
      /\ p.spec.mapping = merged.mapping /\ p.spec.sound = merged.sound
      /\ p.spec.cmd = merged.cmd /\ p.spec.dcmd = merged.dcmd /\ p.spec.dir = merged.dir
  <2>1. merged \in SpecOf(V) /\ merged.cmd \notin {"nil", "empty"} /\ merged.dcmd # "empty"
    BY <1>2, <1>6, <1>7
  <2> DEFINE json == ToJSON(merged)
  <2>2. json \in SpecOf(V) /\ json.env = merged.env /\ json.denv = merged.denv
    BY <2>1, ToJSONFields
  <2>3. json.mapping = merged.mapping /\ json.sound = merged.sound /\ json.dir = merged.dir
    BY <2>1, ToJSONFields
  <2>4. json.cmd = merged.cmd /\ json.dcmd = merged.dcmd
    BY <2>1, ToJSONFields
  <2> QED
    BY <1>1, <2>2, <2>3, <2>4, Zenon
<1>9. p.env \in Env(V)
  BY <1>1, <1>6, Zenon DEF SpecOf, Env
<1>10. /\ own.env \in Env(V) /\ own.penv \in Env(V) /\ own.denv \in Env(V)
       /\ values \in Env(V)
       /\ p.env = uniqueEnv(own.env \o own.penv \o values) /\ p.env \in Env(V)
       /\ p.spec \in SpecOf(V) /\ p.spec.env = p.env /\ p.spec.denv = own.denv
       /\ p.spec.mapping = p.from.mapping /\ p.from.mapping \in Mapping
       /\ p.spec.sound /\ p.spec.cmd \notin {"nil", "empty"} /\ p.spec.dcmd # "empty"
       /\ p.spec.dir = IF p.from.dir[2] = "literal" THEN p.from.dir ELSE PathOf(v, p.from.path)
  BY <1>1, <1>2, <1>3, <1>4, <1>5, <1>6, <1>7, <1>8, <1>9, Zenon
<1> QED
  BY <1>10, Zenon DEF V, own, values

\* What is in an environment of own values.
LEMMA OwnPaths ==
  ASSUME NEW v, NEW path, NEW env \in Env(OwnValues(v, path))
  PROVE  {e[2] : e \in {x \in Range(env) : x[2][2] # "literal"}} \subseteq {PathOf(v, path)}
<1>1. ASSUME NEW x \in Range(env), x[2][2] # "literal" PROVE x[2] = PathOf(v, path)
  <2>1. x \in Nat \X OwnValues(v, path)
    BY DEF Env, Range
  <2>2. x[2] \in OwnValues(v, path)
    BY <2>1
  <2>3. \A t \in Text \cup {""} : Str(t)[2] = "literal"
    BY Zenon DEF Str
  <2>4. \A y \in STRING \X {"literal"} : y[2] = "literal"
    OBVIOUS
  <2> QED
    BY <1>1, <2>2, <2>3, <2>4, Zenon DEF OwnValues
<1> QED
  BY <1>1

-----------------------------------------------------------------------------
(* What follows from the invariant. *)

\* What the process in a Pod sees.
LEMMA MadeLookup ==
  ASSUME NEW v, NEW p, Made(v, p)
  PROVE  LET own    == Substitute(p.from, v, p.from.path)
             values == AnnotationsToEnv(p.anns, p.from.mapping)
         IN  /\ Len(p.env) = Cardinality(NamesIn(p.env))
             /\ NamesIn(p.env) = NamesIn(own.env) \cup NamesIn(own.penv) \cup NamesIn(values)
             /\ \A n : Lookup(p.env, n) = IF n \in NamesIn(values) THEN Lookup(values, n)
                                          ELSE IF n \in NamesIn(own.penv) THEN Lookup(own.penv, n)
                                          ELSE Lookup(own.env, n)
<1> DEFINE V == OwnValues(v, p.from.path)
           own == Substitute(p.from, v, p.from.path)
           values == AnnotationsToEnv(p.anns, p.from.mapping)
<1>1. /\ own.env \in Env(V) /\ own.penv \in Env(V) /\ values \in Env(V)
      /\ p.env = uniqueEnv(own.env \o own.penv \o values)
  BY MadeFields, Zenon
<1> HIDE DEF V, own, values
<1>2. /\ NamesIn(p.env) = NamesIn(own.env) \cup NamesIn(own.penv) \cup NamesIn(values)
      /\ Len(p.env) = Cardinality(NamesIn(p.env))
      /\ \A n : Lookup(p.env, n) = IF n \in NamesIn(values) THEN Lookup(values, n)
                                   ELSE IF n \in NamesIn(own.penv) THEN Lookup(own.penv, n)
                                   ELSE Lookup(own.env, n)
  BY <1>1, MergedEnv
<1> QED
  BY <1>2, Zenon DEF own, values

LEMMA Precedence == TemplateInv => EnvPrecedence
<1> SUFFICES ASSUME TemplateInv, NEW v \in Volume, pods[v].st = "running"
             PROVE  LET pod    == pods[v]
                        values == AnnotationsToEnv(pod.anns, pod.from.mapping)
                        own    == Substitute(pod.from, v, pod.from.path)
                    IN  /\ Len(pod.env) = Cardinality(NamesIn(pod.env))
                        /\ NamesIn(pod.env) = UNION {NamesIn(values), NamesIn(own.penv), NamesIn(own.env)}
                        /\ \A n \in NamesIn(pod.env) : Lookup(pod.env, n) =
                             CASE n \in NamesIn(values) -> Lookup(values, n)
                               [] n \notin NamesIn(values) /\ n \in NamesIn(own.penv) -> Lookup(own.penv, n)
                               [] OTHER -> Lookup(own.env, n)
  BY DEF EnvPrecedence
<1> DEFINE pod == pods[v]
           values == AnnotationsToEnv(pod.anns, pod.from.mapping)
           own == Substitute(pod.from, v, pod.from.path)
<1>1. Made(v, pod)
  BY Zenon DEF TemplateInv, VolumeInv
<1>2. /\ Len(pod.env) = Cardinality(NamesIn(pod.env))
      /\ NamesIn(pod.env) = NamesIn(own.env) \cup NamesIn(own.penv) \cup NamesIn(values)
      /\ \A n : Lookup(pod.env, n) = IF n \in NamesIn(values) THEN Lookup(values, n)
                                     ELSE IF n \in NamesIn(own.penv) THEN Lookup(own.penv, n)
                                     ELSE Lookup(own.env, n)
  BY <1>1, MadeLookup, Zenon
<1> HIDE DEF pod, values, own
<1>3. NamesIn(pod.env) = UNION {NamesIn(values), NamesIn(own.penv), NamesIn(own.env)}
  BY <1>2
<1>4. \A n : Lookup(pod.env, n) =
        CASE n \in NamesIn(values) -> Lookup(values, n)
          [] n \notin NamesIn(values) /\ n \in NamesIn(own.penv) -> Lookup(own.penv, n)
          [] OTHER -> Lookup(own.env, n)
  BY <1>2
<1> QED
  BY <1>2, <1>3, <1>4, Zenon DEF pod, values, own

\* The deprovisioner Pod of a volume, from what its provisioner Pod was.
LEMMA DeprovisionerFields ==
  ASSUME NEW v \in Volume, VolumeInv(v), pvs[v].st = "live"
  PROVE  LET p      == ran[v]
             own    == Substitute(p.from, v, p.from.path)
             values == AnnotationsToEnv(p.anns, p.from.mapping)
             pv     == pvs[v]
         IN  /\ Made(v, p)
             /\ pv.dir = p.spec.dir
             /\ AnnotationMissing(pv.anns, pv.spec.mapping) = AnnotationMissing(p.anns, p.from.mapping)
             /\ Deprovisioner(pv).env = uniqueEnv(p.env \o own.denv \o values)
             /\ Deprovisioner(pv).sound /\ Deprovisioner(pv).cmd \notin {"nil", "empty"}
<1> DEFINE p == ran[v]
           V == OwnValues(v, p.from.path)
           own == Substitute(p.from, v, p.from.path)
           values == AnnotationsToEnv(p.anns, p.from.mapping)
           pv == pvs[v]
           d == Merge(p.spec, p.spec.denv, p.spec.dcmd, values)
<1>1. /\ Made(v, p) /\ pv.dir = p.spec.dir /\ pv.spec = p.spec
      /\ pv.anns = CopyAnnotations(p.anns, NoAnnotations, p.spec.mapping)
  BY DEF VolumeInv
<1> HIDE DEF p, pv
<1>2. /\ own.denv \in Env(V) /\ values \in Env(V) /\ p.spec \in SpecOf(V)
      /\ p.spec.env = p.env /\ p.spec.denv = own.denv
      /\ p.spec.mapping = p.from.mapping /\ p.from.mapping \in Mapping
      /\ p.spec.sound /\ p.spec.cmd \notin {"nil", "empty"} /\ p.spec.dcmd # "empty"
  BY <1>1, MadeFields
<1>3. /\ AnnotationsToEnv(pv.anns, p.spec.mapping) = values
      /\ AnnotationMissing(pv.anns, p.spec.mapping) = AnnotationMissing(p.anns, p.from.mapping)
  BY <1>1, <1>2, CopyFollows
<1>4. Deprovisioner(pv) = d
  BY <1>1, <1>3, Zenon DEF Deprovisioner
<1> HIDE DEF V, own, values
<1>5. p.spec.dcmd \in Cmd
  BY <1>2 DEF SpecOf
<1>6. /\ d.env = uniqueEnv(p.spec.env \o p.spec.denv \o values)
      /\ d.cmd = IF p.spec.dcmd # "nil" THEN p.spec.dcmd ELSE p.spec.cmd
      /\ d.sound = p.spec.sound
  <2>1. p.spec \in SpecOf(V) /\ p.spec.denv \in Env(V) /\ values \in Env(V)
    BY <1>2
  <2> QED
    BY <1>5, <2>1, MergeFields
<1> HIDE DEF d
<1>7. d.env = uniqueEnv(p.env \o own.denv \o values) /\ d.sound /\ d.cmd \notin {"nil", "empty"}
  BY <1>2, <1>6
<1> QED
  BY <1>1, <1>3, <1>4, <1>7, Zenon DEF p, own, values, pv

LEMMA Follows == TemplateInv => DeprovisionerFollows
<1> SUFFICES ASSUME TemplateInv, NEW v \in Volume, dpods[v].st = "running"
             PROVE  LET values == AnnotationsToEnv(ran[v].anns, ran[v].from.mapping)
                        own    == Substitute(ran[v].from, v, ran[v].from.path).denv
                    IN  \A n \in NamesIn(ran[v].env) \cup NamesIn(own) :
                          Lookup(dpods[v].env, n) = IF n \in NamesIn(own) \ NamesIn(values)
                                                    THEN Lookup(own, n) ELSE Lookup(ran[v].env, n)
  BY DEF DeprovisionerFollows
<1> DEFINE p == ran[v]
           V == OwnValues(v, p.from.path)
           values == AnnotationsToEnv(p.anns, p.from.mapping)
           own == Substitute(p.from, v, p.from.path).denv
           env == dpods[v].env
<1>1. VolumeInv(v) /\ pvs[v].st = "live" /\ dpods[v] = PodOf(Deprovisioner(pvs[v]))
  BY DEF TemplateInv, VolumeInv
<1>2. Made(v, p) /\ env = uniqueEnv(p.env \o own \o values)
  BY <1>1, DeprovisionerFields DEF PodOf
<1>3. p.env \in Env(V) /\ own \in Env(V) /\ values \in Env(V)
  BY <1>2, MadeFields, Zenon
<1>4. \A n \in NamesIn(values) : Lookup(p.env, n) = Lookup(values, n)
  BY <1>2, MadeLookup
<1> HIDE DEF p, V, values, own, env
<1>5. \A n : Lookup(env, n) = IF n \in NamesIn(values) THEN Lookup(values, n)
                              ELSE IF n \in NamesIn(own) THEN Lookup(own, n)
                              ELSE Lookup(p.env, n)
  BY <1>2, <1>3, MergedEnv
<1>6. \A n : Lookup(env, n) = IF n \in NamesIn(own) \ NamesIn(values)
                              THEN Lookup(own, n) ELSE Lookup(p.env, n)
  BY <1>4, <1>5
<1> QED
  BY <1>6, Zenon DEF p, values, own, env

LEMMA Buildable == TemplateInv => DeprovisionerBuildable
<1> SUFFICES ASSUME TemplateInv, NEW v \in Volume, pvs[v].st = "live"
             PROVE  ~DeprovisionerFails(pvs[v])
  BY DEF DeprovisionerBuildable
<1>1. VolumeInv(v)
  BY DEF TemplateInv
<1>2. /\ Made(v, ran[v])
      /\ AnnotationMissing(pvs[v].anns, pvs[v].spec.mapping)
           = AnnotationMissing(ran[v].anns, ran[v].from.mapping)
      /\ Deprovisioner(pvs[v]).sound /\ Deprovisioner(pvs[v]).cmd \notin {"nil", "empty"}
  BY <1>1, DeprovisionerFields, Zenon
<1>3. ~AnnotationMissing(ran[v].anns, ran[v].from.mapping)
  BY <1>2, Zenon DEF Made
<1> QED
  BY <1>2, <1>3, Zenon DEF DeprovisionerFails, MergeFails

LEMMA Directory == TemplateInv => OwnDirectory
<1> DEFINE PathsIn(env) == {e[2] : e \in {x \in Range(env) : x[2][2] # "literal"}}
<1> SUFFICES ASSUME TemplateInv, NEW v \in Volume
             PROVE  /\ pods[v].st = "running" =>
                         PathsIn(pods[v].env) \subseteq {PathOf(v, pods[v].from.path)}
                    /\ pvs[v].st = "live" =>
                         pvs[v].dir = IF ran[v].from.dir[2] = "literal" THEN ran[v].from.dir
                                      ELSE PathOf(v, ran[v].from.path)
                    /\ dpods[v].st = "running" =>
                         PathsIn(dpods[v].env) \subseteq {PathOf(v, ran[v].from.path)}
  BY Zenon DEF OwnDirectory
<1> HIDE DEF PathsIn
<1>1. VolumeInv(v)
  BY DEF TemplateInv
<1>2. ASSUME pods[v].st = "running"
      PROVE  PathsIn(pods[v].env) \subseteq {PathOf(v, pods[v].from.path)}
  <2>1. Made(v, pods[v])
    BY <1>1, <1>2 DEF VolumeInv
  <2>2. pods[v].env \in Env(OwnValues(v, pods[v].from.path))
    BY <2>1, MadeFields, Zenon
  <2> QED
    BY <2>2, OwnPaths, Zenon DEF PathsIn
<1>3. ASSUME pvs[v].st = "live"
      PROVE  pvs[v].dir = IF ran[v].from.dir[2] = "literal" THEN ran[v].from.dir
                          ELSE PathOf(v, ran[v].from.path)
  <2>1. Made(v, ran[v]) /\ pvs[v].dir = ran[v].spec.dir
    BY <1>1, <1>3, DeprovisionerFields, Zenon
  <2> QED
    BY <2>1, MadeFields
<1>4. ASSUME dpods[v].st = "running"
      PROVE  PathsIn(dpods[v].env) \subseteq {PathOf(v, ran[v].from.path)}
  <2> DEFINE p == ran[v]
             V == OwnValues(v, p.from.path)
             values == AnnotationsToEnv(p.anns, p.from.mapping)
             own == Substitute(p.from, v, p.from.path).denv
  <2>1. pvs[v].st = "live" /\ dpods[v] = PodOf(Deprovisioner(pvs[v]))
    BY <1>1, <1>4 DEF VolumeInv
  <2>2. Made(v, p) /\ dpods[v].env = uniqueEnv(p.env \o own \o values)
    BY <1>1, <2>1, DeprovisionerFields DEF PodOf
  <2>3. p.env \in Env(V) /\ own \in Env(V) /\ values \in Env(V)
    BY <2>2, MadeFields, Zenon
  <2>4. dpods[v].env \in Env(V)
    <3> HIDE DEF p, V, values, own
    <3> QED
      BY <2>2, <2>3, MergedEnv
  <2> QED
    BY <2>4, OwnPaths, Zenon DEF PathsIn
<1> QED
  BY <1>2, <1>3, <1>4

-----------------------------------------------------------------------------
(* The invariant holds. *)

LEMMA TextsOfClaims == TypeOK => \A v \in Volume : claims[v] \in [Annotation -> Text \cup {""}]
  BY Zenon DEF TypeOK

LEMMA CopyType ==
  ASSUME NEW src \in [Annotation -> Text \cup {""}], NEW mapping
  PROVE  CopyAnnotations(src, NoAnnotations, mapping) \in [Annotation -> Text \cup {""}]
<1>1. NoAnnotations \in [Annotation -> Text \cup {""}]
  BY Zenon DEF NoAnnotations
<1> QED
  BY <1>1, Zenon DEF CopyAnnotations

\* A specification that passes validateProvisioner has an image and a command:
\* neither the conversion to JSON nor the merge makes one of none.
LEMMA ValidatedIsRunnable ==
  ASSUME NEW s \in Specs, validateProvisioner(s)
  PROVE  Runnable(s)
<1> DEFINE W == (STRING \X {"literal"}) \cup {Path, Unknown}
           none == {"nil", "empty"}
           json == Substitute(s, "test", "/test-node-path")
           tried == IF SubstituteFails(s) THEN s ELSE json
           merged == Merge(tried, tried.penv, tried.pcmd, << >>)
<1>1. s \in SpecOf(W)
  BY TemplateAssumption
<1>2. {"sound", "cmd", "pcmd"} \subseteq DOMAIN s /\ s.sound \in BOOLEAN
  BY <1>1 DEF SpecOf
<1>3. /\ {"sound", "cmd", "pcmd"} \subseteq DOMAIN json /\ json.sound = s.sound
      /\ json.cmd = IF s.cmd = "empty" THEN "nil" ELSE s.cmd
      /\ json.pcmd = IF s.pcmd = "empty" THEN "nil" ELSE s.pcmd
  BY <1>2 DEF Substitute, ToJSON
<1>4. merged.sound /\ merged.cmd \notin none
  BY DEF validateProvisioner, MergeFails
<1>5. /\ {"sound", "cmd", "pcmd"} \subseteq DOMAIN tried /\ tried.sound = s.sound
      /\ tried.cmd \in {s.cmd, "nil"} /\ tried.pcmd \in {s.pcmd, "nil"}
  BY <1>2, <1>3
<1> HIDE DEF tried
<1>6. merged.sound = tried.sound /\ merged.cmd \in {tried.cmd, tried.pcmd}
  BY <1>5 DEF Merge
<1> HIDE DEF merged
<1>7. merged.cmd \in {s.cmd, s.pcmd}
  BY <1>4, <1>5, <1>6
<1> QED
  BY <1>4, <1>5, <1>6, <1>7 DEF Runnable

\* The objects of a volume that no step changes.
LEMMA VolumeSame ==
  ASSUME NEW v, VolumeInv(v), pods'[v] = pods[v], pvs'[v] = pvs[v], dpods'[v] = dpods[v], ran'[v] = ran[v]
  PROVE  VolumeInv(v)'
  BY Zenon DEF VolumeInv

LEMMA EditsInv ==
  ASSUME TemplateInv,
         \/ \E s \in Specs : EditProvisioner(s)
         \/ \E v \in Volume, a \in Annotation, text \in Text : AnnotateClaim(v, a, text)
  PROVE  TemplateInv'
<1>1. UNCHANGED <<pods, pvs, dpods, ran>> /\ edits \in 0..MaxEdits /\ edits < MaxEdits /\ edits' = edits + 1
  BY Zenon DEF EditProvisioner, AnnotateClaim, TemplateInv, TypeOK
<1>2. \A v \in Volume : VolumeInv(v)'
  BY <1>1, VolumeSame DEF TemplateInv
<1>3. edits' \in 0..MaxEdits
  BY <1>1, TemplateAssumption
<1>4. registry' \subseteq {s \in Specs : Runnable(s)}
  <2>1. ASSUME NEW s \in Specs, EditProvisioner(s) PROVE registry' \subseteq {t \in Specs : Runnable(t)}
    BY <2>1, ValidatedIsRunnable, Zenon DEF EditProvisioner, Put, TemplateInv, TypeOK
  <2>2. ASSUME NEW v \in Volume, NEW a \in Annotation, NEW text \in Text, AnnotateClaim(v, a, text)
        PROVE  registry' \subseteq {t \in Specs : Runnable(t)}
    BY <2>2, Zenon DEF AnnotateClaim, TemplateInv, TypeOK
  <2> QED
    BY <2>1, <2>2
<1>5. claims' \in [Volume -> [Annotation -> Text \cup {""}]]
  <2>1. ASSUME NEW s \in Specs, EditProvisioner(s) PROVE claims' \in [Volume -> [Annotation -> Text \cup {""}]]
    BY <2>1, Zenon DEF EditProvisioner, TemplateInv, TypeOK
  <2>2. ASSUME NEW v \in Volume, NEW a \in Annotation, NEW text \in Text, AnnotateClaim(v, a, text)
        PROVE  claims' \in [Volume -> [Annotation -> Text \cup {""}]]
    BY <2>2, Zenon DEF AnnotateClaim, TemplateInv, TypeOK
  <2> QED
    BY <2>1, <2>2, Zenon
<1> QED
  BY <1>1, <1>2, <1>3, <1>4, <1>5, Zenon DEF TemplateInv, TypeOK

\* A step that changes the objects of one volume only.
LEMMA VolumeStep ==
  ASSUME TemplateInv, NEW v \in Volume, VolumeInv(v)',
         UNCHANGED <<claims, edits>>, registry' \subseteq {s \in Specs : Runnable(s)},
         DOMAIN pods' = Volume, DOMAIN pvs' = Volume, DOMAIN dpods' = Volume, DOMAIN ran' = Volume,
         \A w \in Volume \ {v} :
           pods'[w] = pods[w] /\ pvs'[w] = pvs[w] /\ dpods'[w] = dpods[w] /\ ran'[w] = ran[w]
  PROVE  TemplateInv'
<1>1. \A w \in Volume : VolumeInv(w)'
  BY VolumeSame DEF TemplateInv
<1>2. TypeOK'
  BY <1>1, Zenon DEF TemplateInv, TypeOK, VolumeInv
<1> QED
  BY <1>1, <1>2 DEF TemplateInv

LEMMA CreatePodInv ==
  ASSUME TemplateInv, NEW v \in Volume, CreatePod(v)
  PROVE  TemplateInv'
<1> DEFINE T == [Annotation -> Text \cup {""}]
<1>1. PICK s \in registry :
        LET values == AnnotationsToEnv(claims[v], s.mapping)
            own    == Substitute(s, v, s.path)
            merged == Merge(own, own.penv, own.pcmd, values)
        IN  /\ pods[v].st = "none" /\ pvs[v].st = "none"
            /\ ~AnnotationMissing(claims[v], s.mapping)
            /\ ~SubstituteFails(s) /\ ~MergeFails(merged)
            /\ pods' = [pods EXCEPT ![v] =
                 [st |-> "running", env |-> merged.env, cmd |-> merged.cmd,
                  from |-> s, spec |-> ToJSON(merged),
                  anns |-> CopyAnnotations(claims[v], NoAnnotations, s.mapping)]]
            /\ registry' = {s}
            /\ UNCHANGED <<claims, pvs, dpods, ran, edits>>
  BY Zenon DEF CreatePod, Recorded, Get
<1> DEFINE anns == CopyAnnotations(claims[v], NoAnnotations, s.mapping)
           values == AnnotationsToEnv(claims[v], s.mapping)
           own == Substitute(s, v, s.path)
           merged == Merge(own, own.penv, own.pcmd, values)
           pod == [st |-> "running", env |-> merged.env, cmd |-> merged.cmd,
                   from |-> s, spec |-> ToJSON(merged), anns |-> anns]
<1>2. s \in Specs /\ Runnable(s) /\ s.sound /\ s.mapping \in Mapping /\ claims[v] \in T
  BY SpecsMapping, TextsOfClaims, Zenon DEF TemplateInv, TypeOK, Runnable
<1>3. anns \in T
  BY <1>2, CopyType, Zenon
<1>4. AnnotationsToEnv(anns, s.mapping) = values
      /\ AnnotationMissing(anns, s.mapping) = AnnotationMissing(claims[v], s.mapping)
  BY <1>2, CopyFollows, Zenon
<1>5. pods' = [pods EXCEPT ![v] = pod]
  BY <1>1, Zenon
<1>6. ~AnnotationMissing(anns, s.mapping) /\ ~SubstituteFails(s) /\ ~MergeFails(merged)
  BY <1>1, <1>4, Zenon
<1> HIDE DEF anns, values, own, merged
<1>7. /\ pod.from = s /\ pod.anns = anns /\ pod.env = merged.env /\ pod.spec = ToJSON(merged)
      /\ pod.st = "running"
  OBVIOUS
<1> HIDE DEF pod
<1>8. Made(v, pod)
  <2>1. /\ Substitute(pod.from, v, pod.from.path) = own
        /\ AnnotationsToEnv(pod.anns, pod.from.mapping) = values
    BY <1>4, <1>7, Zenon DEF own
  <2>2. merged = Merge(own, own.penv, own.pcmd, values)
    BY Zenon DEF merged
  <2> QED
    BY <1>2, <1>3, <1>6, <1>7, <2>1, <2>2, Zenon DEF Made
<1>9. pods'[v] = pod /\ DOMAIN pods' = Volume /\ \A w \in Volume \ {v} : pods'[w] = pods[w]
  BY <1>5, Zenon DEF TemplateInv
<1>10. VolumeInv(v)'
  <2>1. VolumeInv(v) /\ pvs[v].st = "none"
    BY <1>1 DEF TemplateInv
  <2>2. UNCHANGED <<pvs, dpods, ran>>
    BY <1>1, Zenon
  <2>3. pods'[v].st = "running" /\ Made(v, pods'[v])
    BY <1>7, <1>8, <1>9
  <2> QED
    BY <2>1, <2>2, <2>3 DEF VolumeInv
<1>11. UNCHANGED <<claims, pvs, dpods, ran, edits>> /\ registry' = {s}
  BY <1>1, Zenon
<1> QED
  BY <1>2, <1>9, <1>10, <1>11, VolumeStep, Zenon DEF TemplateInv

LEMMA PodsInv ==
  ASSUME TemplateInv, NEW v \in Volume,
         \/ PodEnds(v) \/ CreatePV(v) \/ CreateDeprovisioner(v)
         \/ \E succeeded \in BOOLEAN : DeprovisionerEnds(v, succeeded)
  PROVE  TemplateInv'
<1>1. /\ VolumeInv(v) /\ registry \subseteq {s \in Specs : Runnable(s)}
      /\ DOMAIN pods = Volume /\ DOMAIN pvs = Volume /\ DOMAIN dpods = Volume /\ DOMAIN ran = Volume
  BY Zenon DEF TemplateInv, TypeOK
<1>2. CASE PodEnds(v)
  <2>1. VolumeInv(v)'
    BY <1>1, <1>2 DEF PodEnds, VolumeInv, NoPod
  <2> QED
    BY <1>1, <1>2, <2>1, VolumeStep DEF PodEnds
<1>3. CASE CreatePV(v)
  <2>1. VolumeInv(v)'
    BY <1>1, <1>3, Zenon DEF CreatePV, PVAnnotations, VolumeInv, NoPod
  <2> QED
    BY <1>1, <1>3, <2>1, VolumeStep DEF CreatePV
<1>4. CASE CreateDeprovisioner(v)
  <2>1. VolumeInv(v)'
    <3>1. /\ pvs[v].st = "live" /\ UNCHANGED <<pods, pvs, ran>>
          /\ dpods'[v] = PodOf(Deprovisioner(pvs[v]))
      BY <1>1, <1>4 DEF CreateDeprovisioner
    <3>2. dpods'[v].st = "running"
      BY <3>1 DEF PodOf
    <3> QED
      BY <1>1, <3>1, <3>2, Zenon DEF VolumeInv
  <2> QED
    BY <1>1, <1>4, <2>1, VolumeStep, Zenon DEF CreateDeprovisioner
<1>5. ASSUME NEW succeeded \in BOOLEAN, DeprovisionerEnds(v, succeeded) PROVE TemplateInv'
  <2>1. VolumeInv(v)'
    BY <1>1, <1>5 DEF DeprovisionerEnds, VolumeInv, NoPod
  <2> QED
    BY <1>1, <1>5, <2>1, VolumeStep DEF DeprovisionerEnds
<1> QED
  BY <1>2, <1>3, <1>4, <1>5

LEMMA InvHolds == Spec => []TemplateInv
<1>1. Init => TemplateInv
  <2> SUFFICES ASSUME Init PROVE TemplateInv
    OBVIOUS
  <2>1. TypeOK
    <3>1. edits \in 0..MaxEdits
      BY TemplateAssumption DEF Init
    <3>2. claims \in [Volume -> [Annotation -> Text \cup {""}]]
      BY Zenon DEF Init, NoAnnotations
    <3> QED
      BY <3>1, <3>2, Zenon DEF Init, TypeOK, NoPod, NoPV
  <2>2. \A v \in Volume : VolumeInv(v)
    BY DEF Init, VolumeInv, NoPod, NoPV
  <2> QED
    BY <2>1, <2>2 DEF Init, TemplateInv
<1>2. TemplateInv /\ [Next]_vars => TemplateInv'
  <2> SUFFICES ASSUME TemplateInv, [Next]_vars PROVE TemplateInv'
    OBVIOUS
  <2>1. CASE UNCHANGED vars
    BY <2>1, VolumeSame, Zenon DEF vars, TemplateInv, TypeOK
  <2> QED
    BY <2>1, EditsInv, CreatePodInv, PodsInv DEF Next
<1> QED
  BY <1>1, <1>2, PTL DEF Spec

-----------------------------------------------------------------------------

\* The state is well-formed, and a specification that is registered has an image
\* and a command for its provisioner Pod, although validateProvisioner tries a
\* copy that was converted to JSON and merged.
THEOREM TemplatesTypeCorrect == Spec => []TypeOK
<1>1. TemplateInv => TypeOK
  BY DEF TemplateInv
<1> QED
  BY <1>1, InvHolds, PTL

\* Whatever the template, the container and the annotations say, and however
\* often they say it: a provisioner Pod has every variable once, with the
\* value of the list that comes last (NewProvisionerPod, uniqueEnv).
THEOREM EnvHasPrecedence == Spec => []EnvPrecedence
  BY InvHolds, Precedence, PTL

\* Whatever users edit in between, a deprovisioner Pod sees what the
\* provisioner Pod of its volume saw, but for what its own container overrides
\* (OnCompleted, deprovisionVolume).
THEOREM DeprovisionerSeesTheSame == Spec => []DeprovisionerFollows
  BY InvHolds, Follows, PTL

\* Whatever the deprovisioner's container says, and although nothing checks it
\* before: its Pod can be built for every volume that was provisioned
\* (NewProvisionerPod, AnnotationsToEnv).
THEOREM DeprovisionerCanBeBuilt == Spec => []DeprovisionerBuildable
  BY InvHolds, Buildable, PTL

\* No placeholder, no path of another volume and none that was configured
\* later reaches the Pods of a volume or the volume
\* (SubstituteProvisionerPlaceholders, on the copy that Get returns).
THEOREM DirectoriesAreOwn == Spec => []OwnDirectory
  BY InvHolds, Directory, PTL

=============================================================================
