----------------------------- MODULE TreeWalks -----------------------------
(* What Subtree and Resolve of TreeNamespace compute, for any finite set of    *)
(* directories and any path: a subtree is the least set that has its root and  *)
(* is closed under entries, and where no node is in two places a path leads to *)
(* one node and a node is found by one path.                                   *)
EXTENDS TreeNamespace, FiniteSetTheorems, WellFoundedInduction, TLAPS

(* Both as functions of the entries, so that they can be compared across steps. *)
Entries == [Dir -> [Name -> Node \cup {None}]]
Kids(e, S) == {e[d][n] : d \in S \cap Dir, n \in Name} \ {None}
Below(e, x) ==
  LET upTo[i \in 0..Cardinality(Dir)] ==
        IF i = 0 THEN {x} ELSE upTo[i - 1] \cup Kids(e, upTo[i - 1])
  IN upTo[Cardinality(Dir)]
Walk(e, path) ==
  LET at[i \in 0..Len(path)] ==
        IF i = 0 THEN Root
        ELSE IF at[i - 1] \in Dir THEN e[at[i - 1]][path[i]] ELSE None
  IN at[Len(path)]
Closed(e, S) == \A d \in S \cap Dir, n \in Name : e[d][n] \in S \cup {None}

LEMMA SubtreeIsBelow == \A x : Subtree(x) = Below(ent, x)
BY DEF Subtree, Below, Children, Kids

LEMMA ResolveIsWalk == \A path : Resolve(path) = Walk(ent, path)
BY DEF Resolve, Walk

-----------------------------------------------------------------------------
(* Recursion and induction, from the least element of a set of numbers.        *)

LEMMA LeastNumber ==
  ASSUME NEW S \in SUBSET Nat, S # {}
  PROVE  \E k \in S : \A m \in S : k <= m
<1>1. IsWellFoundedOn(OpToRel(<, Nat), Nat)
  BY NatLessThanWellFounded
<1>2. PICK k \in S : \A m \in S : ~(<<m, k>> \in OpToRel(<, Nat))
  BY <1>1, WFMin
<1>3. ASSUME NEW m \in S PROVE k <= m
  <2>1. ~(<<m, k>> \in OpToRel(<, Nat))
    BY <1>2
  <2> QED BY <2>1 DEF OpToRel
<1> QED BY <1>3

(* The steps of a subtree and of a walk.                                       *)
Levels(f, e, x, N) ==
  f = [i \in 0..N |-> IF i = 0 THEN {x} ELSE f[i - 1] \cup Kids(e, f[i - 1])]
Stops(f, e, path, N) ==
  f = [i \in 0..N |-> IF i = 0 THEN Root
                      ELSE IF f[i - 1] \in Dir THEN e[f[i - 1]][path[i]] ELSE None]

LEMMA LevelsExist ==
  ASSUME NEW e, NEW x, NEW N \in Nat
  PROVE  \E f : Levels(f, e, x, N)
<1> SUFFICES ASSUME ~ \E f : Levels(f, e, x, N) PROVE FALSE
  OBVIOUS
<1> DEFINE S == {n \in Nat : ~ \E f : Levels(f, e, x, n)}
<1>1. PICK k \in S : \A m \in S : k <= m
  <2>1. S \in SUBSET Nat /\ N \in S
    OBVIOUS
  <2> HIDE DEF S
  <2> QED BY <2>1, LeastNumber
<1>2. CASE k = 0
  <2>1. Levels([i \in 0..0 |-> {x}], e, x, 0)
    BY DEF Levels
  <2> QED BY <2>1, <1>1, <1>2
<1>3. CASE k # 0
  <2>1. k \in Nat /\ k - 1 \in Nat /\ k - 1 \notin S
    BY <1>1, <1>3
  <2>2. PICK f : Levels(f, e, x, k - 1)
    BY <2>1
  <2> DEFINE last == f[k - 1] \cup Kids(e, f[k - 1])
             g == [i \in 0..k |-> IF i = k THEN last ELSE f[i]]
  <2>3. \A i \in 0..(k - 1) : f[i] = IF i = 0 THEN {x} ELSE f[i - 1] \cup Kids(e, f[i - 1])
    BY <2>2, <2>1 DEF Levels
  <2>4. \A i \in 0..(k - 1) : g[i] = f[i]
    BY <2>1
  <2>5. g[k] = f[k - 1] \cup Kids(e, f[k - 1])
    BY <2>1
  <2>6. g = [i \in 0..k |-> g[i]]
    OBVIOUS
  <2> HIDE DEF g
  <2>7. \A i \in 0..k : g[i] = IF i = 0 THEN {x} ELSE g[i - 1] \cup Kids(e, g[i - 1])
    <3> SUFFICES ASSUME NEW i \in 0..k
                 PROVE  g[i] = IF i = 0 THEN {x} ELSE g[i - 1] \cup Kids(e, g[i - 1])
      OBVIOUS
    <3>1. CASE i = k
      <4>1. g[k - 1] = f[k - 1]
        BY <2>4, <2>1
      <4> QED BY <3>1, <4>1, <2>5, <1>3
    <3>2. CASE i # k
      <4>1. i \in 0..(k - 1) /\ (i # 0 => i - 1 \in 0..(k - 1))
        BY <3>2, <2>1
      <4>2. g[i] = f[i] /\ (i # 0 => g[i - 1] = f[i - 1])
        BY <4>1, <2>4
      <4> QED BY <4>1, <4>2, <2>3
    <3> QED BY <3>1, <3>2
  <2>8. Levels(g, e, x, k)
    BY <2>6, <2>7 DEF Levels
  <2> QED BY <2>8, <1>1
<1> QED BY <1>2, <1>3

LEMMA StopsExist ==
  ASSUME NEW e, NEW path, NEW N \in Nat
  PROVE  \E f : Stops(f, e, path, N)
<1> SUFFICES ASSUME ~ \E f : Stops(f, e, path, N) PROVE FALSE
  OBVIOUS
<1> DEFINE S == {n \in Nat : ~ \E f : Stops(f, e, path, n)}
<1>1. PICK k \in S : \A m \in S : k <= m
  <2>1. S \in SUBSET Nat /\ N \in S
    OBVIOUS
  <2> HIDE DEF S
  <2> QED BY <2>1, LeastNumber
<1>2. CASE k = 0
  <2>1. Stops([i \in 0..0 |-> Root], e, path, 0)
    BY DEF Stops
  <2> QED BY <2>1, <1>1, <1>2
<1>3. CASE k # 0
  <2>1. k \in Nat /\ k - 1 \in Nat /\ k - 1 \notin S
    BY <1>1, <1>3
  <2>2. PICK f : Stops(f, e, path, k - 1)
    BY <2>1
  <2> DEFINE Next2(y, i) == IF y \in Dir THEN e[y][path[i]] ELSE None
             g == [i \in 0..k |-> IF i = k THEN Next2(f[k - 1], k) ELSE f[i]]
  <2>3. \A i \in 0..(k - 1) : f[i] = IF i = 0 THEN Root ELSE Next2(f[i - 1], i)
    BY <2>2, <2>1 DEF Stops
  <2>4. \A i \in 0..(k - 1) : g[i] = f[i]
    BY <2>1
  <2>5. g[k] = Next2(f[k - 1], k)
    BY <2>1
  <2>6. g = [i \in 0..k |-> g[i]]
    OBVIOUS
  <2> HIDE DEF g, Next2
  <2>7. \A i \in 0..k : g[i] = IF i = 0 THEN Root ELSE Next2(g[i - 1], i)
    <3> SUFFICES ASSUME NEW i \in 0..k
                 PROVE  g[i] = IF i = 0 THEN Root ELSE Next2(g[i - 1], i)
      OBVIOUS
    <3>1. CASE i = k
      <4>1. g[k - 1] = f[k - 1]
        BY <2>4, <2>1
      <4> QED BY <3>1, <4>1, <2>5, <1>3
    <3>2. CASE i # k
      <4>1. i \in 0..(k - 1) /\ (i # 0 => i - 1 \in 0..(k - 1))
        BY <3>2, <2>1
      <4>2. g[i] = f[i] /\ (i # 0 => g[i - 1] = f[i - 1])
        BY <4>1, <2>4
      <4> QED BY <4>1, <4>2, <2>3
    <3> QED BY <3>1, <3>2
  <2>8. Stops(g, e, path, k)
    BY <2>6, <2>7 DEF Stops, Next2
  <2> QED BY <2>8, <1>1
<1> QED BY <1>2, <1>3

(* A walk along a longer path begins like that along a shorter one.            *)
LEMMA StopsAgree ==
  ASSUME NEW e, NEW a, NEW b, NEW M \in Nat, NEW N \in Nat, M <= N, NEW f, NEW g,
         Stops(f, e, a, M), Stops(g, e, b, N), \A i \in 1..M : a[i] = b[i]
  PROVE  \A i \in 0..M : f[i] = g[i]
<1> SUFFICES ASSUME NEW j \in 0..M, f[j] # g[j] PROVE FALSE
  OBVIOUS
<1> DEFINE S == {i \in 0..M : f[i] # g[i]}
<1>1. PICK k \in S : \A m \in S : k <= m
  <2>1. S \in SUBSET Nat /\ j \in S
    OBVIOUS
  <2> HIDE DEF S
  <2> QED BY <2>1, LeastNumber
<1>2. k \in 0..M /\ k \in 0..N
  BY <1>1
<1>3. f[k] = IF k = 0 THEN Root ELSE IF f[k - 1] \in Dir THEN e[f[k - 1]][a[k]] ELSE None
  BY <1>2 DEF Stops
<1>4. g[k] = IF k = 0 THEN Root ELSE IF g[k - 1] \in Dir THEN e[g[k - 1]][b[k]] ELSE None
  BY <1>2 DEF Stops
<1>5. k # 0 => f[k - 1] = g[k - 1] /\ a[k] = b[k]
  BY <1>1, <1>2
<1> QED BY <1>1, <1>3, <1>4, <1>5

LEMMA BelowLevels ==
  ASSUME NEW e, NEW x, IsFiniteSet(Dir)
  PROVE  \E f : Levels(f, e, x, Cardinality(Dir)) /\ Below(e, x) = f[Cardinality(Dir)]
<1> DEFINE f == CHOOSE f : Levels(f, e, x, Cardinality(Dir))
<1>1. Levels(f, e, x, Cardinality(Dir))
  BY LevelsExist, FS_CardinalityType
<1>2. Below(e, x) = f[Cardinality(Dir)]
  BY DEF Below, Levels
<1> QED BY <1>1, <1>2

LEMMA WalkStops ==
  ASSUME NEW e, NEW path \in Seq(Name)
  PROVE  \E f : Stops(f, e, path, Len(path)) /\ Walk(e, path) = f[Len(path)]
<1> DEFINE f == CHOOSE f : Stops(f, e, path, Len(path))
<1>1. Stops(f, e, path, Len(path))
  BY StopsExist
<1>2. Walk(e, path) = f[Len(path)]
  BY DEF Walk, Stops
<1> QED BY <1>1, <1>2

-----------------------------------------------------------------------------
(* Subtrees.                                                                   *)

LEMMA BelowHas == ASSUME NEW e, NEW x, IsFiniteSet(Dir) PROVE x \in Below(e, x)
<1> DEFINE N == Cardinality(Dir)
<1>1. PICK f : Levels(f, e, x, N) /\ Below(e, x) = f[N]
  BY BelowLevels
<1>2. N \in Nat
  BY FS_CardinalityType
<1>3. \A i \in 0..N : f[i] = IF i = 0 THEN {x} ELSE f[i - 1] \cup Kids(e, f[i - 1])
  BY <1>1, <1>2 DEF Levels
<1> HIDE DEF N
<1> SUFFICES ASSUME x \notin f[N] PROVE FALSE
  BY <1>1
<1> DEFINE S == {i \in 0..N : x \notin f[i]}
<1>4. PICK k \in S : \A m \in S : k <= m
  <2>1. S \in SUBSET Nat /\ N \in S
    BY <1>2
  <2> HIDE DEF S
  <2> QED BY <2>1, LeastNumber
<1>5. k # 0 => x \in f[k - 1]
  BY <1>2, <1>4
<1> QED BY <1>3, <1>4, <1>5

(* Nothing else is below x: any closed set with x has all of it.               *)
LEMMA BelowLeast ==
  ASSUME NEW e, NEW x, NEW T, x \in T, Closed(e, T), IsFiniteSet(Dir)
  PROVE  Below(e, x) \subseteq T
<1> DEFINE N == Cardinality(Dir)
<1>1. PICK f : Levels(f, e, x, N) /\ Below(e, x) = f[N]
  BY BelowLevels
<1>2. N \in Nat
  BY FS_CardinalityType
<1>3. \A i \in 0..N : f[i] = IF i = 0 THEN {x} ELSE f[i - 1] \cup Kids(e, f[i - 1])
  BY <1>1, <1>2 DEF Levels
<1> HIDE DEF N
<1> SUFFICES ASSUME ~(f[N] \subseteq T) PROVE FALSE
  BY <1>1
<1> DEFINE S == {i \in 0..N : ~(f[i] \subseteq T)}
<1>4. PICK k \in S : \A m \in S : k <= m
  <2>1. S \in SUBSET Nat /\ N \in S
    BY <1>2
  <2> HIDE DEF S
  <2> QED BY <2>1, LeastNumber
<1>5. CASE k = 0
  BY <1>3, <1>4, <1>5
<1>6. CASE k # 0
  <2>1. f[k - 1] \subseteq T
    BY <1>2, <1>4, <1>6
  <2>2. Kids(e, f[k - 1]) \subseteq T
    BY <2>1 DEF Kids, Closed
  <2> QED BY <1>3, <1>4, <1>6, <2>1, <2>2
<1> QED BY <1>5, <1>6

(* |Dir| levels are enough: one that is not closed leads to a directory that   *)
(* was not there before, or to files only.                                     *)
LEMMA BelowClosed ==
  ASSUME NEW e, NEW x, IsFiniteSet(Dir)
  PROVE  Closed(e, Below(e, x))
<1> DEFINE N == Cardinality(Dir)
<1>1. PICK f : Levels(f, e, x, N) /\ Below(e, x) = f[N]
  BY BelowLevels
<1>2. N \in Nat
  BY FS_CardinalityType
<1>3. \A i \in 0..N : f[i] = IF i = 0 THEN {x} ELSE f[i - 1] \cup Kids(e, f[i - 1])
  BY <1>1, <1>2 DEF Levels
<1>9. f[0] = {x} /\ \A i \in 1..N : f[i] = f[i - 1] \cup Kids(e, f[i - 1])
  <2> HIDE DEF N
  <2>1. \A i \in 1..N : i \in 0..N /\ i # 0
    BY <1>2
  <2>2. 0 \in 0..N
    BY <1>2
  <2> QED BY <1>3, <2>1, <2>2
<1> DEFINE Complete(S) == Kids(e, S) \subseteq S
<1>4. ASSUME NEW S, Complete(S) PROVE Closed(e, S)
  BY <1>4 DEF Kids, Closed
<1> SUFFICES ASSUME ~ Complete(f[N]) PROVE FALSE
  BY <1>1, <1>4
<1>5. \A i \in 0..N : ~ Complete(f[i])
  <2> SUFFICES ASSUME NEW i \in 0..N, Complete(f[i]) PROVE FALSE
    OBVIOUS
  <2> DEFINE S == {j \in i..N : f[j] # f[i]}
  <2>1. S # {}
    BY <1>2
  <2>2. PICK k \in S : \A m \in S : k <= m
    <3>1. S \in SUBSET Nat
      BY <1>2
    <3> HIDE DEF S
    <3> QED BY <2>1, <3>1, LeastNumber
  <2>3. k # i /\ k \in 1..N /\ k - 1 \in i..N
    BY <2>2, <1>2
  <2>4. f[k - 1] = f[i]
    BY <2>2, <2>3
  <2>5. f[k] = f[k - 1] \cup Kids(e, f[k - 1])
    BY <1>9, <2>3
  <2> QED BY <2>2, <2>4, <2>5
<1> HIDE DEF N
<1> DEFINE D(i) == f[i] \cap Dir
<1>6. \A i \in 0..N : IsFiniteSet(D(i)) /\ Cardinality(D(i)) \in Nat
  BY FS_Subset, FS_CardinalityType
<1>7. \A i \in 0..N : Cardinality(D(i)) >= i + 1
  <2> SUFFICES ASSUME NEW j \in 0..N, ~(Cardinality(D(j)) >= j + 1) PROVE FALSE
    OBVIOUS
  <2> DEFINE S == {i \in 0..N : ~(Cardinality(D(i)) >= i + 1)}
  <2>1. PICK k \in S : \A m \in S : k <= m
    <3>1. S \in SUBSET Nat /\ j \in S
      BY <1>2
    <3> HIDE DEF S
    <3> QED BY <3>1, LeastNumber
  <2>2. CASE k = 0
    <3>1. f[k] = {x} /\ ~ Complete({x})
      <4> HIDE DEF Complete
      <4> QED BY <1>9, <1>5, <2>2, <2>1
    <3>2. x \in Dir
      BY <3>1 DEF Kids
    <3>3. D(k) = {x}
      BY <3>1, <3>2
    <3>4. Cardinality(D(k)) = 1
      BY <3>3, FS_Singleton
    <3> HIDE DEF D
    <3> QED BY <3>4, <2>1, <2>2
  <2>3. CASE k # 0
    <3>1. k \in 1..N /\ k - 1 \in 0..N /\ Cardinality(D(k - 1)) >= k
      BY <2>1, <2>3, <1>2
    <3>2. f[k] = f[k - 1] \cup Kids(e, f[k - 1]) /\ ~ Complete(f[k])
      <4> HIDE DEF Complete
      <4> QED BY <1>9, <1>5, <3>1, <2>1
    <3>3. D(k - 1) \subseteq D(k) /\ D(k - 1) # D(k)
      <4>1. D(k - 1) = D(k) => Kids(e, f[k]) = Kids(e, f[k - 1])
        BY DEF Kids
      <4> QED BY <3>2, <4>1
    <3>4. Cardinality(D(k - 1)) < Cardinality(D(k))
      <4> HIDE DEF D
      <4>1. Cardinality(D(k - 1)) <= Cardinality(D(k))
        BY <3>3, <1>6, FS_Subset, <2>1
      <4>2. Cardinality(D(k - 1)) # Cardinality(D(k))
        BY <3>3, <1>6, FS_Subset, <2>1
      <4> QED BY <4>1, <4>2, <1>6, <3>1
    <3> HIDE DEF D
    <3> QED BY <3>1, <3>4, <1>6, <2>1
  <2> QED BY <2>2, <2>3
<1>8. Cardinality(D(N)) <= N
  BY FS_Subset DEF N
<1> HIDE DEF D
<1> QED BY <1>2, <1>6, <1>7, <1>8

LEMMA BelowNodes ==
  ASSUME NEW e \in Entries, NEW x \in Node, IsFiniteSet(Dir)
  PROVE  Below(e, x) \subseteq Node
<1>1. Closed(e, Node)
  BY DEF Closed, Entries, Node
<1> QED BY <1>1, BelowLeast

(* Whatever is below x, but x itself, is an entry of a directory below x.      *)
LEMMA BelowHasParent ==
  ASSUME NEW e, NEW x, NEW z \in Below(e, x), z # x, IsFiniteSet(Dir)
  PROVE  \E d \in Below(e, x) \cap Dir, n \in Name : e[d][n] = z
<1> SUFFICES ASSUME \A d \in Below(e, x) \cap Dir, n \in Name : e[d][n] # z PROVE FALSE
  OBVIOUS
<1> DEFINE T == Below(e, x) \ {z}
<1>1. x \in T
  BY BelowHas
<1>2. Closed(e, T)
  BY BelowClosed DEF Closed
<1> QED BY <1>1, <1>2, BelowLeast

(* A subtree changes only when one of its directories does, ...                *)
LEMMA BelowSame ==
  ASSUME NEW e, NEW f, NEW x, IsFiniteSet(Dir),
         \A d \in Below(e, x) \cap Dir, n \in Name : f[d][n] = e[d][n]
  PROVE  Below(f, x) = Below(e, x)
<1>1. Closed(f, Below(e, x))
  BY BelowClosed DEF Closed
<1>2. Below(f, x) \subseteq Below(e, x)
  BY <1>1, BelowHas, BelowLeast
<1> DEFINE T == Below(e, x) \cap Below(f, x)
<1>3. x \in T
  BY BelowHas
<1>4. Closed(e, T)
  <2> SUFFICES ASSUME NEW d \in T \cap Dir, NEW n \in Name PROVE e[d][n] \in T \cup {None}
    BY DEF Closed
  <2>1. e[d][n] \in Below(e, x) \cup {None}
    BY BelowClosed DEF Closed
  <2>2. f[d][n] \in Below(f, x) \cup {None}
    BY BelowClosed DEF Closed
  <2> QED BY <2>1, <2>2
<1>5. Below(e, x) \subseteq T
  BY <1>3, <1>4, BelowLeast
<1> QED BY <1>2, <1>5

(* ... and gets smaller when entries go, larger when they come.                *)
LEMMA BelowShrinks ==
  ASSUME NEW e, NEW f, NEW x, IsFiniteSet(Dir),
         \A d \in Below(e, x) \cap Dir, n \in Name : f[d][n] \in {e[d][n], None}
  PROVE  Below(f, x) \subseteq Below(e, x)
<1>1. Closed(f, Below(e, x))
  BY BelowClosed DEF Closed
<1> QED BY <1>1, BelowHas, BelowLeast

LEMMA BelowGrows ==
  ASSUME NEW e, NEW f, NEW x, IsFiniteSet(Dir),
         \A d \in Dir, n \in Name : e[d][n] \in {f[d][n], None}
  PROVE  Below(e, x) \subseteq Below(f, x)
<1>1. Closed(e, Below(f, x))
  BY BelowClosed DEF Closed
<1> QED BY <1>1, BelowHas, BelowLeast

(* From a node below another one there is nothing that is not below that too.  *)
LEMMA BelowNests ==
  ASSUME NEW e, NEW x, NEW y \in Below(e, x), IsFiniteSet(Dir)
  PROVE  Below(e, y) \subseteq Below(e, x)
BY BelowClosed, BelowLeast

-----------------------------------------------------------------------------
(* Paths.                                                                      *)

(* No node is in two places, and the root is in none.                          *)
OncePlaced(e) ==
  \A d \in Dir, n \in Name :
    e[d][n] # None => /\ e[d][n] # Root
                      /\ \A c \in Dir, m \in Name : e[c][m] = e[d][n] => c = d /\ m = n

LEMMA PathParts ==
  ASSUME NEW path \in Path
  PROVE  /\ Parent(path) \in Seq(Name) /\ Base(path) \in Name
         /\ Len(Parent(path)) = Len(path) - 1 /\ Len(path) \in Nat \ {0}
         /\ \A i \in 1..(Len(path) - 1) : Parent(path)[i] = path[i]
<1>1. path \in Seq(Name) /\ path # <<>>
  BY DEF Path
<1>2. Len(path) \in Nat /\ Len(path) # 0
  BY <1>1
<1>3. Base(path) \in Name
  BY <1>1, <1>2 DEF Base
<1>4. /\ Parent(path) \in Seq(Name) /\ Len(Parent(path)) = Len(path) - 1
      /\ \A i \in 1..(Len(path) - 1) : Parent(path)[i] = path[i]
  <2> DEFINE m == Len(path) - 1
  <2>1. m \in Nat /\ m <= Len(path) /\ \A i \in 1..m : path[i] \in Name
    BY <1>1, <1>2
  <2> HIDE DEF m
  <2>2. SubSeq(path, 1, m) \in Seq(Name) /\ Len(SubSeq(path, 1, m)) = m
    BY <1>1, <2>1
  <2>3. \A i \in 1..m : SubSeq(path, 1, m)[i] = path[i]
    BY <1>1, <2>1
  <2> QED BY <2>2, <2>3 DEF Parent, m
<1> QED BY <1>2, <1>3, <1>4

LEMMA WalkEmpty == ASSUME NEW e, NEW path \in Seq(Name), Len(path) = 0 PROVE Walk(e, path) = Root
<1>1. PICK f : Stops(f, e, path, Len(path)) /\ Walk(e, path) = f[Len(path)]
  BY WalkStops
<1> QED BY <1>1 DEF Stops

LEMMA WalkOn ==
  ASSUME NEW e, NEW path \in Path
  PROVE  Walk(e, path) = IF Walk(e, Parent(path)) \in Dir
                           THEN e[Walk(e, Parent(path))][Base(path)] ELSE None
<1> DEFINE N == Len(path) M == Len(path) - 1 up == Parent(path)
<1>1. N \in Nat /\ M \in Nat /\ M <= N /\ N # 0 /\ Len(up) = M /\ up \in Seq(Name)
  BY PathParts
<1>2. PICK g : Stops(g, e, path, N) /\ Walk(e, path) = g[N]
  BY WalkStops DEF Path
<1>3. PICK f : Stops(f, e, up, Len(up)) /\ Walk(e, up) = f[Len(up)]
  BY <1>1, WalkStops
<1>4. \A i \in 1..M : up[i] = path[i]
  BY PathParts
<1> HIDE DEF N, M, up
<1>5. \A i \in 0..M : f[i] = g[i]
  BY <1>1, <1>2, <1>3, <1>4, StopsAgree
<1>6. g[N] = IF g[N - 1] \in Dir THEN e[g[N - 1]][path[N]] ELSE None
  BY <1>1, <1>2 DEF Stops
<1>7. N - 1 = M /\ M \in 0..M
  BY <1>1 DEF N, M
<1>8. path[N] = Base(path)
  BY DEF N, Base
<1> QED BY <1>1, <1>2, <1>3, <1>5, <1>6, <1>7, <1>8 DEF up

(* Whatever holds of the root and passes from directories to entries holds     *)
(* wherever a walk arrives.                                                    *)
LEMMA WalkStaysIn ==
  ASSUME NEW e, NEW path \in Seq(Name), NEW T, Root \in T, Closed(e, T)
  PROVE  Walk(e, path) \in T \cup {None}
<1>1. PICK f : Stops(f, e, path, Len(path)) /\ Walk(e, path) = f[Len(path)]
  BY WalkStops
<1> DEFINE N == Len(path)
<1>2. N \in Nat /\ \A i \in 1..N : path[i] \in Name
  OBVIOUS
<1> HIDE DEF N
<1>3. f[0] = Root /\ \A i \in 1..N : f[i] = IF f[i - 1] \in Dir THEN e[f[i - 1]][path[i]] ELSE None
  <2>1. 0 \in 0..N /\ \A i \in 1..N : i \in 0..N /\ i # 0
    BY <1>2
  <2> QED BY <1>1, <2>1 DEF Stops, N
<1> SUFFICES ASSUME f[N] \notin T \cup {None} PROVE FALSE
  BY <1>1 DEF N
<1> DEFINE S == {i \in 0..N : f[i] \notin T \cup {None}}
<1>4. PICK k \in S : \A m \in S : k <= m
  <2>1. S \in SUBSET Nat /\ N \in S
    BY <1>2
  <2> HIDE DEF S
  <2> QED BY <2>1, LeastNumber
<1>5. k \in 1..N
  BY <1>2, <1>3, <1>4
<1>6. f[k - 1] \in T \cup {None}
  BY <1>2, <1>4, <1>5
<1>7. f[k] = IF f[k - 1] \in Dir THEN e[f[k - 1]][path[k]] ELSE None
  BY <1>3, <1>5
<1>8. f[k - 1] \in Dir /\ path[k] \in Name
  BY <1>2, <1>4, <1>5, <1>7
<1>9. f[k - 1] \in T
  BY <1>6, <1>8, NamespaceAssumption DEF Node
<1> QED BY <1>4, <1>7, <1>8, <1>9 DEF Closed

LEMMA WalkNode ==
  ASSUME NEW e \in Entries, NEW path \in Seq(Name)
  PROVE  /\ Walk(e, path) \in Node \cup {None}
         /\ Walk(e, path) # None => Walk(e, path) \in Below(e, Root)
<1>1. Closed(e, Node) /\ Root \in Node
  BY NamespaceAssumption DEF Closed, Entries, Node
<1>2. Walk(e, path) \in Below(e, Root) \cup {None}
  BY NamespaceAssumption, BelowHas, BelowClosed, WalkStaysIn
<1> QED BY <1>1, <1>2, WalkStaysIn, NamespaceAssumption

(* A node has one path.                                                        *)
LEMMA OnePath ==
  ASSUME NEW e \in Entries, OncePlaced(e), NEW a \in Seq(Name), NEW b \in Seq(Name),
         Walk(e, a) = Walk(e, b), Walk(e, a) # None
  PROVE  a = b
<1> SUFFICES ASSUME a # b PROVE FALSE
  OBVIOUS
<1> DEFINE Twice(s, t) == s # t /\ Walk(e, s) = Walk(e, t) /\ Walk(e, s) # None
           S == {i \in Nat : \E s, t \in Seq(Name) : Len(s) = i /\ Twice(s, t)}
<1>1. PICK k \in S : \A m \in S : k <= m
  <2>1. S \in SUBSET Nat /\ Len(a) \in S
    OBVIOUS
  <2> HIDE DEF S
  <2> QED BY <2>1, LeastNumber
<1>2. PICK s \in Seq(Name), t \in Seq(Name) : Len(s) = k /\ Twice(s, t)
  BY <1>1
<1>3. ASSUME NEW r \in Path, NEW o \in Seq(Name), Len(o) = 0
      PROVE  ~(Walk(e, r) = Walk(e, o) /\ Walk(e, r) # None)
  <2>1. Walk(e, o) = Root
    BY <1>3, WalkEmpty
  <2>2. Base(r) \in Name
    BY PathParts
  <2>3. SUFFICES ASSUME Walk(e, r) = Root PROVE FALSE
    BY <2>1
  <2>4. Root # None
    BY NamespaceAssumption DEF Node
  <2>5. Walk(e, Parent(r)) \in Dir /\ e[Walk(e, Parent(r))][Base(r)] = Root
    BY <2>3, <2>4, WalkOn
  <2> QED BY <2>2, <2>4, <2>5 DEF OncePlaced
<1>4. CASE s = <<>> \/ t = <<>>
  <2>1. s = <<>> => Len(s) = 0 /\ t \in Path
    BY <1>2 DEF Path
  <2>2. t = <<>> => Len(t) = 0 /\ s \in Path
    BY <1>2 DEF Path
  <2> QED BY <1>2, <1>3, <1>4, <2>1, <2>2
<1>5. CASE s # <<>> /\ t # <<>>
  <2>1. s \in Path /\ t \in Path
    BY <1>5 DEF Path
  <2> DEFINE c == Walk(e, Parent(s)) d == Walk(e, Parent(t))
  <2>2. c \in Dir /\ d \in Dir /\ e[c][Base(s)] = e[d][Base(t)] /\ e[c][Base(s)] # None
    BY <1>2, <2>1, WalkOn
  <2>3. c = d /\ Base(s) = Base(t)
    BY <2>1, <2>2, PathParts DEF OncePlaced
  <2>4. c # None
    BY <2>2, NamespaceAssumption DEF Node
  <2>5. Parent(s) # Parent(t)
    <3> SUFFICES ASSUME Parent(s) = Parent(t) PROVE s = t
      BY <1>2
    <3>1. Len(s) = Len(t)
      BY <2>1, PathParts
    <3>2. \A i \in 1..Len(s) : s[i] = t[i]
      <4> TAKE i \in 1..Len(s)
      <4>1. CASE i = Len(s)
        BY <4>1, <3>1, <2>3 DEF Base
      <4>2. CASE i # Len(s)
        <5>1. i \in 1..(Len(s) - 1)
          BY <4>2
        <5> QED BY <5>1, <3>1, <2>1, PathParts
      <4> QED BY <4>1, <4>2
    <3>3. s = [i \in 1..Len(s) |-> s[i]] /\ t = [i \in 1..Len(t) |-> t[i]]
      OBVIOUS
    <3> QED BY <3>1, <3>2, <3>3
  <2>6. Len(Parent(s)) \in S /\ Len(Parent(s)) = k - 1
    <3>1. Parent(s) \in Seq(Name) /\ Parent(t) \in Seq(Name) /\ Len(Parent(s)) = k - 1
          /\ Len(Parent(s)) \in Nat
      BY <1>2, <2>1, PathParts
    <3>2. Twice(Parent(s), Parent(t))
      BY <2>3, <2>4, <2>5
    <3> QED BY <3>1, <3>2
  <2> QED BY <1>1, <2>6
<1> QED BY <1>4, <1>5

(* A path leads below a node only through its own path.                        *)
LEMMA PathPasses ==
  ASSUME NEW e \in Entries, OncePlaced(e), NEW a \in Path, NEW b \in Seq(Name),
         Walk(e, a) # None, Walk(e, b) \in Below(e, Walk(e, a))
  PROVE  IsPrefix(a, b)
<1> DEFINE x == Walk(e, a) N == Len(b)
<1>0. N \in Nat /\ \A i \in 1..N : b[i] \in Name
  OBVIOUS
<1>1. PICK f : Stops(f, e, b, N) /\ Walk(e, b) = f[N]
  BY WalkStops
<1>2. x # Root
  <2>1. Base(a) \in Name
    BY PathParts
  <2> QED BY <2>1, WalkOn DEF OncePlaced
<1> HIDE DEF N
<1>3. f[0] = Root /\ \A i \in 1..N : f[i] = IF f[i - 1] \in Dir THEN e[f[i - 1]][b[i]] ELSE None
  <2>1. 0 \in 0..N /\ \A i \in 1..N : i \in 0..N /\ i # 0
    BY <1>0
  <2> QED BY <1>1, <2>1 DEF Stops
<1> DEFINE S == {i \in 0..N : f[i] \in Below(e, x)}
<1>4. PICK k \in S : \A m \in S : k <= m
  <2>1. S \in SUBSET Nat /\ N \in S
    BY <1>0, <1>1
  <2> HIDE DEF S
  <2> QED BY <2>1, LeastNumber
<1>5. f[k] = x
  <2> SUFFICES ASSUME f[k] # x PROVE FALSE
    OBVIOUS
  <2>1. PICK d \in Below(e, x) \cap Dir, n \in Name : e[d][n] = f[k]
    BY <1>4, BelowHasParent, NamespaceAssumption
  <2>2. f[k] # None
    <3>1. Below(e, x) \subseteq Node
      <4>1. x \in Node
        BY WalkNode DEF Path
      <4> QED BY <4>1, BelowNodes, NamespaceAssumption
    <3> QED BY <3>1, <1>4, NamespaceAssumption
  <2>3. k \in 1..N
    BY <1>0, <1>3, <1>4, <2>1, <2>2 DEF OncePlaced
  <2>4. f[k - 1] \in Dir /\ f[k] = e[f[k - 1]][b[k]] /\ b[k] \in Name
    BY <1>0, <1>3, <2>2, <2>3
  <2>5. f[k - 1] = d
    BY <2>1, <2>2, <2>4 DEF OncePlaced
  <2>6. k - 1 \in S
    BY <2>1, <2>3, <2>5, <1>0
  <2> QED BY <1>4, <2>6, <2>3
<1> DEFINE c == SubSeq(b, 1, k)
<1>6. k \in Nat /\ k <= Len(b) /\ c \in Seq(Name) /\ Len(c) = k /\ \A i \in 1..k : c[i] = b[i]
  BY <1>0, <1>4 DEF N
<1>7. Walk(e, c) = x
  <2>1. PICK g : Stops(g, e, c, Len(c)) /\ Walk(e, c) = g[Len(c)]
    BY <1>6, WalkStops
  <2> HIDE DEF c
  <2>2. \A i \in 0..k : g[i] = f[i]
    <3>1. k <= N /\ Stops(g, e, c, k)
      BY <1>6, <2>1 DEF N
    <3> QED BY <3>1, <1>0, <1>1, <1>6, StopsAgree
  <2> QED BY <1>5, <1>6, <2>1, <2>2
<1>8. a = c
  <2> HIDE DEF c
  <2> QED BY <1>6, <1>7, OnePath DEF Path
<1> QED BY <1>6, <1>8 DEF IsPrefix
=============================================================================
