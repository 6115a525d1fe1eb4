--------------------------- MODULE ObjSumsProofs ---------------------------
(***************************************************************************)
(* The totals of ObjWorld, for all objects, rooms and characters: weights  *)
(* of containers at any depth, what a character carries, the lights of a   *)
(* room and the liquids in drink containers (SumsAddUp, LiquidsWeighed).   *)
(*                                                                         *)
(* A step that changes a weight changes the weights of everything that     *)
(* the object is in.  Seen from any one container, exactly one of the      *)
(* things directly in it is on that way, or none is: so its weight stays   *)
(* the sum of what is directly in it.                                      *)
(***************************************************************************)
EXTENDS ObjMovesProofs, FiniteSetTheorems, WellFoundedInduction

(* Induction over the natural numbers, for a set in place of a predicate.  *)
LEMMA SetInduction ==
    ASSUME NEW P \in SUBSET Nat, 0 \in P, \A n \in P : n + 1 \in P
    PROVE  P = Nat
<1> DEFINE R == {xy \in Nat \X Nat : xy[1] < xy[2]}
           T == Nat \ P
<1>1. IsWellFoundedOn(R, Nat)
  BY NatLessThanWellFounded DEF OpToRel
<1>2. SUFFICES ASSUME T # {} PROVE FALSE
  OBVIOUS
<1> HIDE DEF R
<1>3. PICK x \in T : \A y \in T : ~ (<<y, x>> \in R)
  BY <1>1, <1>2, WFMin
<1>4. x # 0 /\ x - 1 \in Nat /\ x - 1 < x
  BY <1>3
<1>5. <<x - 1, x>> \in R
  BY <1>4 DEF R
<1>6. x - 1 \in P
  BY <1>3, <1>4, <1>5
<1>7. QED
  BY <1>3, <1>6

LEMMA SizeOf ==
    ASSUME NEW S \in SUBSET Obj
    PROVE  /\ IsFiniteSet(S) /\ Cardinality(S) \in Nat
           /\ Cardinality(S) = 0 <=> S = {}
           /\ \A x \in S : Cardinality(S \ {x}) = Cardinality(S) - 1
<1>1. IsFiniteSet(S)
  BY FiniteAssumption, FS_Subset
<1>2. QED
  BY <1>1, FS_CardinalityType, FS_EmptySet, FS_RemoveElement

-----------------------------------------------------------------------------
(* The sum over a set of objects.  MapThenFoldSet takes the elements in    *)
(* some order; Adds says that h sums f in that order.                      *)
Pick(s) == CHOOSE x \in s : TRUE

Adds(h, f, s) ==
    h[s] = IF s = {} THEN 0 ELSE f[Pick(s)] + h[s \ {Pick(s)}]

Iter(S, f) ==
    CHOOSE g : g = [s \in SUBSET S |->
        IF s = {} THEN 0 ELSE f[Pick(s)] + g[s \ {Pick(s)}]]

LEMMA TotalIs ==
    ASSUME NEW S, NEW f
    PROVE  Total(S, f) = Iter(S, f)[S]
BY Zenon DEF Total, MapThenSumSet, MapThenFoldSet, Iter, Pick

LEMMA PickIn ==
    ASSUME NEW s, s # {}
    PROVE  Pick(s) \in s
BY DEF Pick

LEMMA SumExists ==
    ASSUME NEW f \in [Obj -> Int]
    PROVE  \E h \in [SUBSET Obj -> Int] : \A s \in SUBSET Obj : Adds(h, f, s)
<1> DEFINE Up(n) == \E h \in [SUBSET Obj -> Int] :
                      \A s \in SUBSET Obj : Cardinality(s) <= n => Adds(h, f, s)
           P == {n \in Nat : Up(n)}
<1>1. 0 \in P
  <2> DEFINE h == [s \in SUBSET Obj |-> 0]
  <2>1. h \in [SUBSET Obj -> Int]
    OBVIOUS
  <2>2. ASSUME NEW s \in SUBSET Obj, Cardinality(s) <= 0 PROVE Adds(h, f, s)
    BY <2>2, SizeOf DEF Adds
  <2> HIDE DEF h
  <2>3. QED
    BY <2>1, <2>2
<1>2. ASSUME NEW n \in P PROVE n + 1 \in P
  <2>1. PICK h \in [SUBSET Obj -> Int] :
            \A s \in SUBSET Obj : Cardinality(s) <= n => Adds(h, f, s)
    BY <1>2
  <2> DEFINE g == [s \in SUBSET Obj |->
                      IF Cardinality(s) = n + 1
                      THEN f[Pick(s)] + h[s \ {Pick(s)}] ELSE h[s]]
  <2>2. ASSUME NEW s \in SUBSET Obj, s # {}
        PROVE  f[Pick(s)] \in Int /\ s \ {Pick(s)} \in SUBSET Obj
               /\ Cardinality(s \ {Pick(s)}) = Cardinality(s) - 1
    BY <2>2, PickIn, SizeOf
  <2>3. n \in Nat
    BY <1>2
  <2>4. g \in [SUBSET Obj -> Int]
    <3>1. ASSUME NEW s \in SUBSET Obj, Cardinality(s) = n + 1
          PROVE  f[Pick(s)] + h[s \ {Pick(s)}] \in Int
      <4>1. s # {}
        BY <2>3, <3>1, SizeOf
      <4>2. QED
        BY <2>1, <2>2, <3>1, <4>1
    <3>2. QED
      BY <2>1, <3>1
  <2>5. ASSUME NEW s \in SUBSET Obj, Cardinality(s) <= n + 1
        PROVE  Adds(g, f, s)
    <3>1. Cardinality(s) \in Nat
      BY SizeOf
    <3>2. CASE s = {}
      <4>1. g[s] = h[s] /\ Cardinality(s) <= n
        BY <2>3, <3>2, SizeOf
      <4>2. QED
        BY <2>1, <3>2, <4>1 DEF Adds
    <3>3. CASE s # {} /\ Cardinality(s) = n + 1
      <4> DEFINE t == s \ {Pick(s)}
      <4>1. t \in SUBSET Obj /\ Cardinality(t) = n
        BY <2>2, <2>3, <3>3
      <4>2. g[t] = h[t] /\ g[s] = f[Pick(s)] + h[t]
        BY <2>3, <3>3, <4>1
      <4> HIDE DEF g
      <4>3. QED
        BY <3>3, <4>2 DEF Adds
    <3>4. CASE s # {} /\ Cardinality(s) # n + 1
      <4> DEFINE t == s \ {Pick(s)}
      <4>1. t \in SUBSET Obj /\ Cardinality(t) = Cardinality(s) - 1
        BY <2>2, <3>4
      <4>2. Cardinality(s) <= n /\ Cardinality(t) # n + 1
        BY <2>3, <2>5, <3>1, <3>4, <4>1
      <4>3. g[t] = h[t] /\ g[s] = h[s]
        BY <3>4, <4>1, <4>2
      <4> HIDE DEF g
      <4>4. QED
        BY <2>1, <3>4, <4>2, <4>3 DEF Adds
    <3>5. QED
      BY <3>2, <3>3, <3>4
  <2> HIDE DEF g
  <2>6. QED
    BY <2>3, <2>4, <2>5
<1>3. P = Nat
  <2> HIDE DEF Up
  <2>1. QED
    BY <1>1, <1>2, SetInduction
<1>4. Cardinality(Obj) \in Nat /\ \A s \in SUBSET Obj : Cardinality(s) <= Cardinality(Obj)
  BY FiniteAssumption, FS_CardinalityType, FS_Subset
<1>5. Up(Cardinality(Obj))
  BY <1>3, <1>4
<1>6. QED
  BY <1>4, <1>5

(* Two functions that sum f over the subsets of S are the same.            *)
LEMMA SumUnique ==
    ASSUME NEW S \in SUBSET Obj, NEW f, NEW g, NEW h,
           \A s \in SUBSET S : Adds(g, f, s) /\ Adds(h, f, s)
    PROVE  g[S] = h[S]
<1> DEFINE P == {n \in Nat : \A s \in SUBSET S : Cardinality(s) = n => g[s] = h[s]}
<1>1. 0 \in P
  <2>1. ASSUME NEW s \in SUBSET S, Cardinality(s) = 0 PROVE g[s] = h[s]
    BY <2>1, SizeOf DEF Adds
  <2>2. QED
    BY <2>1
<1>2. ASSUME NEW n \in P PROVE n + 1 \in P
  <2>1. n \in Nat /\ \A s \in SUBSET S : Cardinality(s) = n => g[s] = h[s]
    BY <1>2
  <2>2. ASSUME NEW s \in SUBSET S, Cardinality(s) = n + 1 PROVE g[s] = h[s]
    <3>1. s # {}
      BY <2>1, <2>2, SizeOf
    <3>2. s \ {Pick(s)} \in SUBSET S /\ Cardinality(s \ {Pick(s)}) = n
      BY <2>1, <2>2, <3>1, PickIn, SizeOf
    <3>3. QED
      BY <2>1, <3>1, <3>2 DEF Adds
  <2>3. QED
    BY <2>1, <2>2
<1>3. P = Nat
  BY <1>1, <1>2, SetInduction
<1>4. Cardinality(S) \in Nat
  BY SizeOf
<1>5. QED
  BY <1>3, <1>4

LEMMA TotalAdds ==
    ASSUME NEW f \in [Obj -> Int], NEW h \in [SUBSET Obj -> Int],
           \A s \in SUBSET Obj : Adds(h, f, s), NEW S \in SUBSET Obj
    PROVE  Total(S, f) = h[S]
<1> DEFINE G(g) == [s \in SUBSET S |->
                      IF s = {} THEN 0 ELSE f[Pick(s)] + g[s \ {Pick(s)}]]
           r == [s \in SUBSET S |-> h[s]]
           i == Iter(S, f)
<1>1. r = G(r)
  <2>1. ASSUME NEW s \in SUBSET S
        PROVE  r[s] = IF s = {} THEN 0 ELSE f[Pick(s)] + r[s \ {Pick(s)}]
    <3>1. s \in SUBSET Obj /\ s \ {Pick(s)} \in SUBSET S
      OBVIOUS
    <3>2. QED
      BY <3>1 DEF Adds
  <2>2. QED
    BY <2>1
<1>2. i = G(i)
  BY <1>1 DEF Iter
<1> HIDE DEF i
<1>3. ASSUME NEW s \in SUBSET S PROVE Adds(i, f, s)
  <2>1. i[s] = G(i)[s]
    BY <1>2
  <2>2. QED
    BY <2>1 DEF Adds
<1>4. ASSUME NEW s \in SUBSET S PROVE Adds(h, f, s)
  OBVIOUS
<1>5. i[S] = h[S]
  BY <1>3, <1>4, SumUnique
<1>6. QED
  BY <1>5, TotalIs DEF i

(* In whatever order the elements are taken, the sum is the same.          *)
LEMMA SumOf ==
    ASSUME NEW f \in [Obj -> Int], NEW S \in SUBSET Obj
    PROVE  /\ Total(S, f) \in Int
           /\ S = {} => Total(S, f) = 0
           /\ \A x \in S : Total(S, f) = f[x] + Total(S \ {x}, f)
<1>1. PICK h \in [SUBSET Obj -> Int] : \A s \in SUBSET Obj : Adds(h, f, s)
  BY SumExists
<1> DEFINE Any(s) == \A x \in s : h[s] = f[x] + h[s \ {x}]
           P == {n \in Nat : \A s \in SUBSET Obj : Cardinality(s) = n => Any(s)}
<1>2. 0 \in P
  <2>1. ASSUME NEW s \in SUBSET Obj, Cardinality(s) = 0 PROVE Any(s)
    BY <2>1, SizeOf
  <2>2. QED
    BY <2>1
<1>3. ASSUME NEW n \in P PROVE n + 1 \in P
  <2>1. n \in Nat /\ \A s \in SUBSET Obj : Cardinality(s) = n => Any(s)
    BY <1>3
  <2>2. ASSUME NEW s \in SUBSET Obj, Cardinality(s) = n + 1, NEW x \in s
        PROVE  h[s] = f[x] + h[s \ {x}]
    <3> DEFINE p == Pick(s)
    <3>1. p \in s /\ h[s] = f[p] + h[s \ {p}]
      BY <1>1, <2>2, PickIn DEF Adds
    <3> HIDE DEF p
    <3>2. CASE x = p
      BY <3>1, <3>2
    <3>3. CASE x # p
      <4>1. /\ s \ {p} \in SUBSET Obj /\ Cardinality(s \ {p}) = n /\ x \in s \ {p}
            /\ s \ {x} \in SUBSET Obj /\ Cardinality(s \ {x}) = n /\ p \in s \ {x}
        BY <2>1, <2>2, <3>1, <3>3, SizeOf
      <4>2. (s \ {p}) \ {x} = (s \ {x}) \ {p} /\ (s \ {x}) \ {p} \in SUBSET Obj
        OBVIOUS
      <4> DEFINE H == h[(s \ {x}) \ {p}]
                 a == h[s \ {p}]
                 b == h[s \ {x}]
      <4>3. a = f[x] + H
        <5>1. \A y \in s \ {p} : h[s \ {p}] = f[y] + h[(s \ {p}) \ {y}]
          BY <2>1, <4>1
        <5>2. h[s \ {p}] = f[x] + h[(s \ {p}) \ {x}]
          BY <4>1, <5>1
        <5>3. QED
          BY <4>2, <5>2
      <4>4. b = f[p] + H
        BY <2>1, <4>1
      <4>5. f[x] \in Int /\ f[p] \in Int /\ H \in Int
        BY <1>1, <3>1, <4>1, <4>2
      <4>6. h[s] = f[p] + a
        BY <3>1
      <4> HIDE DEF H, a, b
      <4>7. h[s] = f[x] + b
        BY <4>3, <4>4, <4>5, <4>6
      <4>8. QED
        BY <4>7 DEF b
    <3>4. QED
      BY <3>2, <3>3
  <2>3. QED
    BY <2>1, <2>2
<1>4. P = Nat
  <2> HIDE DEF Any
  <2>1. QED
    BY <1>2, <1>3, SetInduction
<1>5. Cardinality(S) \in Nat
  BY SizeOf
<1>6. Any(S)
  BY <1>4, <1>5
<1>7. \A s \in SUBSET Obj : Total(s, f) = h[s]
  BY <1>1, TotalAdds
<1>8. S \ {} = S /\ \A x \in S : S \ {x} \in SUBSET Obj
  OBVIOUS
<1>9. S = {} => h[S] = 0
  BY <1>1 DEF Adds
<1>10. QED
  BY <1>6, <1>7, <1>8, <1>9

(* What is summed may change elsewhere.                                    *)
LEMMA SumSame ==
    ASSUME NEW S \in SUBSET Obj, NEW f \in [Obj -> Int], NEW g \in [Obj -> Int],
           \A x \in S : g[x] = f[x]
    PROVE  Total(S, g) = Total(S, f)
<1> DEFINE P == {n \in Nat : \A s \in SUBSET S :
                               Cardinality(s) = n => Total(s, g) = Total(s, f)}
<1>1. 0 \in P
  <2>1. ASSUME NEW s \in SUBSET S, Cardinality(s) = 0
        PROVE  Total(s, g) = Total(s, f)
    <3>1. s = {} /\ s \in SUBSET Obj
      BY <2>1, SizeOf
    <3>2. Total(s, g) = 0 /\ Total(s, f) = 0
      BY <3>1, SumOf
    <3>3. QED
      BY <3>2
  <2>2. QED
    BY <2>1
<1>2. ASSUME NEW n \in P PROVE n + 1 \in P
  <2>1. n \in Nat
        /\ \A s \in SUBSET S : Cardinality(s) = n => Total(s, g) = Total(s, f)
    BY <1>2
  <2>2. ASSUME NEW s \in SUBSET S, Cardinality(s) = n + 1
        PROVE  Total(s, g) = Total(s, f)
    <3>1. s # {} /\ s \in SUBSET Obj
      BY <2>1, <2>2, SizeOf
    <3>2. PICK x \in s : TRUE
      BY <3>1
    <3>3. s \ {x} \in SUBSET S /\ Cardinality(s \ {x}) = n
      BY <2>1, <2>2, <3>1, <3>2, SizeOf
    <3>4. Total(s \ {x}, g) = Total(s \ {x}, f)
      BY <2>1, <3>3
    <3>5. Total(s, g) = g[x] + Total(s \ {x}, g)
          /\ Total(s, f) = f[x] + Total(s \ {x}, f)
      BY <3>1, <3>2, SumOf
    <3>6. QED
      BY <3>2, <3>4, <3>5
  <2>3. QED
    BY <2>1, <2>2
<1>3. P = Nat
  BY <1>1, <1>2, SetInduction
<1>4. Cardinality(S) \in Nat
  BY SizeOf
<1>5. QED
  BY <1>3, <1>4

(* One more or one less to be summed.                                      *)
LEMMA SumPlus ==
    ASSUME NEW f \in [Obj -> Int], NEW S \in SUBSET Obj, NEW x \in Obj, x \notin S
    PROVE  Total(S \union {x}, f) = Total(S, f) + f[x]
<1>1. (S \union {x}) \ {x} = S /\ S \union {x} \in SUBSET Obj
      /\ x \in S \union {x}
  OBVIOUS
<1>2. Total(S \union {x}, f) = f[x] + Total((S \union {x}) \ {x}, f)
  BY <1>1, SumOf
<1>3. Total(S \union {x}, f) = f[x] + Total(S, f)
  BY <1>1, <1>2, Zenon
<1>4. Total(S, f) \in Int /\ f[x] \in Int
  BY SumOf
<1>5. QED
  BY <1>3, <1>4

LEMMA SumMinus ==
    ASSUME NEW f \in [Obj -> Int], NEW S \in SUBSET Obj, NEW x \in S
    PROVE  Total(S \ {x}, f) = Total(S, f) - f[x]
<1>1. Total(S, f) = f[x] + Total(S \ {x}, f)
  BY SumOf
<1>2. S \ {x} \in SUBSET Obj
  OBVIOUS
<1>3. Total(S \ {x}, f) \in Int /\ f[x] \in Int
  BY <1>2, SumOf
<1>4. QED
  BY <1>1, <1>3

(* One of what is summed changes by n.                                     *)
LEMMA SumOneMore ==
    ASSUME NEW S \in SUBSET Obj, NEW f \in [Obj -> Int], NEW g \in [Obj -> Int],
           NEW z \in S, NEW n \in Int, g[z] = f[z] + n,
           \A x \in S \ {z} : g[x] = f[x]
    PROVE  Total(S, g) = Total(S, f) + n
<1>1. S \ {z} \in SUBSET Obj
  OBVIOUS
<1>2. Total(S \ {z}, g) = Total(S \ {z}, f)
  BY <1>1, SumSame
<1>3. Total(S, g) = g[z] + Total(S \ {z}, g)
      /\ Total(S, f) = f[z] + Total(S \ {z}, f)
  BY SumOf
<1>4. Total(S \ {z}, f) \in Int /\ f[z] \in Int
  BY <1>1, SumOf
<1>5. QED
  BY <1>2, <1>3, <1>4

(* Nothing that is summed is below zero.                                   *)
LEMMA SumNotNegative ==
    ASSUME NEW S \in SUBSET Obj, NEW f \in [Obj -> Int], \A x \in S : f[x] >= 0
    PROVE  Total(S, f) >= 0
<1> DEFINE P == {n \in Nat : \A s \in SUBSET S :
                               Cardinality(s) = n => Total(s, f) >= 0}
<1>1. 0 \in P
  <2>1. ASSUME NEW s \in SUBSET S, Cardinality(s) = 0 PROVE Total(s, f) >= 0
    <3>1. s = {} /\ s \in SUBSET Obj
      BY <2>1, SizeOf
    <3>2. Total(s, f) = 0
      BY <3>1, SumOf
    <3>3. QED
      BY <3>2
  <2>2. QED
    BY <2>1
<1>2. ASSUME NEW n \in P PROVE n + 1 \in P
  <2>1. n \in Nat /\ \A s \in SUBSET S : Cardinality(s) = n => Total(s, f) >= 0
    BY <1>2
  <2>2. ASSUME NEW s \in SUBSET S, Cardinality(s) = n + 1 PROVE Total(s, f) >= 0
    <3>1. s # {} /\ s \in SUBSET Obj
      BY <2>1, <2>2, SizeOf
    <3>2. PICK x \in s : TRUE
      BY <3>1
    <3>3. s \ {x} \in SUBSET S /\ s \ {x} \in SUBSET Obj
          /\ Cardinality(s \ {x}) = n
      BY <2>1, <2>2, <3>1, <3>2, SizeOf
    <3>4. Total(s \ {x}, f) >= 0
      BY <2>1, <3>3
    <3>5. Total(s, f) = f[x] + Total(s \ {x}, f)
      BY <3>1, <3>2, SumOf
    <3>6. Total(s \ {x}, f) \in Int /\ f[x] \in Int /\ f[x] >= 0
      BY <3>1, <3>2, <3>3, SumOf
    <3>7. QED
      BY <3>4, <3>5, <3>6
  <2>3. QED
    BY <2>1, <2>2
<1>3. P = Nat
  BY <1>1, <1>2, SetInduction
<1>4. Cardinality(S) \in Nat
  BY SizeOf
<1>5. QED
  BY <1>3, <1>4

-----------------------------------------------------------------------------
(* The way up from o: o, what it is in, and so on.                         *)
Up(v, o) == {x \in Obj : o \in Inside(v, x)}

LEMMA UpIsAbove ==
    ASSUME NEW v, NEW o \in Obj
    PROVE  /\ Up(v, o) = Above(v, o) \union {o} /\ o \notin Above(v, o)
           /\ Above(v, o) \subseteq Obj
BY InsideClosed DEF Up, Above

(* It goes on with the container of whatever is on it.                     *)
LEMMA UpGoesOn ==
    ASSUME NEW v, Climbs(v), NEW o \in Obj, NEW z \in Up(v, o),
           v.inObj[z] \in Obj
    PROVE  v.inObj[z] \in Above(v, o)
<1> DEFINE y == v.inObj[z]
<1>1. z \in Obj /\ o \in Inside(v, z) /\ y \in Obj
  BY DEF Up
<1>2. z \in Inside(v, y)
  BY <1>1, InsideParent
<1>3. o \in Inside(v, y)
  BY <1>1, <1>2, InsideTransitive
<1>4. y # o
  <2>1. SUFFICES ASSUME y = o PROVE FALSE
    OBVIOUS
  <2>2. z = o
    BY <1>1, <1>2, <2>1, InsideAsymmetric
  <2>3. {o} \in SUBSET Obj /\ \A x \in {o} : v.inObj[x] \in {o}
    BY <2>1, <2>2
  <2>4. QED
    BY <2>3 DEF Climbs
<1>5. QED
  BY <1>1, <1>3, <1>4 DEF Above

(* Whatever is above o has something directly in it that is on the way.    *)
LEMMA UpComesFrom ==
    ASSUME NEW v, NEW o \in Obj, NEW y \in Above(v, o)
    PROVE  \E z \in Up(v, o) : v.inObj[z] = y
<1> DEFINE S == {x \in Obj : x = y \/ \E z \in Obj :
                     v.inObj[z] = y /\ x \in Inside(v, z)}
<1>1. y \in Obj /\ y # o /\ o \in Inside(v, y)
  BY DEF Above
<1>2. y \in S /\ S \in SUBSET Obj
  BY <1>1
<1>3. ASSUME NEW x \in Obj, v.inObj[x] \in S PROVE x \in S
  <2>1. CASE v.inObj[x] = y
    BY <2>1, InsideClosed
  <2>2. CASE v.inObj[x] # y
    <3>1. PICK z \in Obj : v.inObj[z] = y /\ v.inObj[x] \in Inside(v, z)
      BY <1>3, <2>2
    <3>2. x \in Inside(v, z)
      BY <3>1, InsideClosed
    <3>3. QED
      BY <3>1, <3>2
  <2>3. QED
    BY <2>1, <2>2
<1>4. o \in S
  BY <1>1, <1>2, <1>3, InsideLeast
<1>5. QED
  BY <1>1, <1>4 DEF Up

(* Of two things on the way one is inside the other.                       *)
LEMMA UpIsALine ==
    ASSUME NEW v, Climbs(v), NEW o \in Obj, NEW a \in Up(v, o), NEW b \in Up(v, o)
    PROVE  a \in Inside(v, b) \/ b \in Inside(v, a)
<1> DEFINE C == Inside(v, a) \intersect Inside(v, b)
<1>1. a \in Obj /\ b \in Obj /\ o \in C
  BY DEF Up
<1>2. C \in SUBSET Obj
  BY <1>1, InsideClosed
<1>3. PICK x \in C : v.inObj[x] \notin C
  BY <1>1, <1>2 DEF Climbs
<1>4. x = a \/ v.inObj[x] \in Inside(v, a)
  BY <1>1, <1>3, InsideClosed
<1>5. x = b \/ v.inObj[x] \in Inside(v, b)
  BY <1>1, <1>3, InsideClosed
<1>6. QED
  BY <1>3, <1>4, <1>5

(* So it passes once through what is directly in one container, and ends   *)
(* at one object that is in nothing.                                       *)
LEMMA UpIsOneWay ==
    ASSUME NEW v \in World, Climbs(v), NEW o \in Obj,
           NEW a \in Up(v, o), NEW b \in Up(v, o), v.inObj[a] = v.inObj[b]
    PROVE  a = b
<1>1. a \in Obj /\ b \in Obj
  BY DEF Up
<1>2. ASSUME NEW c \in Obj, NEW d \in Obj, c \in Inside(v, d),
             v.inObj[c] = v.inObj[d]
      PROVE  c = d
  <2>1. SUFFICES ASSUME c # d PROVE FALSE
    OBVIOUS
  <2>2. v.inObj[c] \in Inside(v, d) /\ v.inObj[c] \in Obj
    BY <1>2, <2>1, InsideClosed
  <2>3. d \in Inside(v, v.inObj[d])
    BY <1>2, <2>2, InsideParent
  <2>4. v.inObj[d] = d
    BY <1>2, <2>2, <2>3, InsideAsymmetric
  <2>5. {d} \in SUBSET Obj /\ \A x \in {d} : v.inObj[x] \in {d}
    BY <2>4
  <2>6. QED
    BY <2>5 DEF Climbs
<1>3. QED
  BY <1>1, <1>2, UpIsALine

(* When what is above o gets heavier by n, the total of every container    *)
(* above that of o does, too, and that of the inventory at the end.        *)
Raised(v, o, f, n) == [x \in Obj |-> IF x \in Above(v, o) THEN f[x] + n ELSE f[x]]

LEMMA RaisedContents ==
    ASSUME NEW v, Good(v), Climbs(v), NEW o \in Obj, v.inObj[o] # None,
           NEW n \in Int, NEW f \in [Obj -> Int], NEW y \in Obj
    PROVE  Total(v.contains[y] \ {o}, Raised(v, o, f, n))
             = Total(v.contains[y] \ {o}, f)
               + (IF y \in Above(v, o) /\ y # v.inObj[o] THEN n ELSE 0)
<1> DEFINE g == Raised(v, o, f, n)
           S == v.contains[y] \ {o}
<1>1. v \in World /\ Consistent(v)
  BY DEF Good
<1>2. g \in [Obj -> Int] /\ S \in SUBSET Obj
  BY <1>1 DEF Raised, World
<1>3. \A x \in Obj : g[x] = IF x \in Above(v, o) THEN f[x] + n ELSE f[x]
  BY DEF Raised
<1>4. \A x \in S : x \in Obj /\ x # o /\ v.inObj[x] = y
  BY <1>1 DEF Consistent, NestingAgrees, World
<1>5. o \in Up(v, o) /\ v.inObj[o] \in Obj
  BY <1>1, InsideClosed DEF Up, World
<1>6. Above(v, o) \subseteq Up(v, o) /\ Total(S, f) \in Int
  BY <1>2, UpIsAbove, SumOf
<1>7. \A z \in Up(v, o) : v.inObj[z] = y => z \in v.contains[y]
  BY <1>1 DEF Consistent, NestingAgrees, Up
<1> HIDE DEF g
<1>8. CASE y \in Above(v, o) /\ y # v.inObj[o]
  <2>1. PICK z \in Up(v, o) : v.inObj[z] = y
    BY <1>8, UpComesFrom
  <2>2. z # o
    BY <1>8, <2>1
  <2> HIDE DEF S
  <2>3. z \in S
    BY <1>7, <2>1, <2>2 DEF S
  <2>4. z \in Above(v, o) /\ z \in Obj
    BY <2>1, <2>2, UpIsAbove
  <2>5. g[z] = f[z] + n
    BY <1>3, <2>4
  <2>6. ASSUME NEW x \in S \ {z} PROVE g[x] = f[x]
    <3>1. x \in Obj /\ v.inObj[x] = v.inObj[z]
      BY <1>4, <2>1, <2>6
    <3>2. x \notin Up(v, o)
      BY <1>1, <2>1, <2>6, <3>1, UpIsOneWay
    <3>3. QED
      BY <1>3, <1>6, <3>1, <3>2
  <2>7. Total(S, g) = Total(S, f) + n
    BY <1>2, <2>3, <2>5, <2>6, SumOneMore
  <2>8. QED
    BY <1>8, <2>7 DEF S, g
<1>9. CASE ~ (y \in Above(v, o) /\ y # v.inObj[o])
  <2>1. ASSUME NEW x \in S PROVE g[x] = f[x]
    <3>1. SUFFICES ASSUME x \in Above(v, o) PROVE FALSE
      BY <1>3, <1>4
    <3>2. x \in Up(v, o) /\ v.inObj[x] = y
      BY <1>4, <1>6, <3>1
    <3>3. y \in Above(v, o)
      BY <3>2, UpGoesOn
    <3>4. v.inObj[x] = v.inObj[o]
      BY <1>9, <3>2, <3>3
    <3>5. x = o
      BY <1>1, <1>5, <3>2, <3>4, UpIsOneWay
    <3>6. QED
      BY <1>4, <3>5
  <2> HIDE DEF S
  <2>2. Total(S, g) = Total(S, f)
    BY <1>2, <2>1, SumSame
  <2>3. QED
    BY <1>6, <1>9, <2>2 DEF S, g
<1>10. QED
  BY <1>8, <1>9

LEMMA RaisedCarrying ==
    ASSUME NEW v, Good(v), Climbs(v), NEW o \in Obj, v.inObj[o] # None,
           NEW n \in Int, NEW f \in [Obj -> Int], NEW d \in Char
    PROVE  Total(v.carrying[d], Raised(v, o, f, n))
             = Total(v.carrying[d], f) + (IF d = Bearer(v, o) THEN n ELSE 0)
<1> DEFINE g == Raised(v, o, f, n)
           S == v.carrying[d]
           outer == {x \in Above(v, o) : v.inObj[x] = None}
           top == CHOOSE x \in outer : TRUE
<1>1. v \in World /\ Consistent(v)
  BY DEF Good
<1>2. g \in [Obj -> Int] /\ S \in SUBSET Obj
  BY <1>1 DEF Raised, World
<1>3. \A x \in Obj : g[x] = IF x \in Above(v, o) THEN f[x] + n ELSE f[x]
  BY DEF Raised
<1>4. \A x \in Obj : x \in S <=> v.carriedBy[x] = d
  BY <1>1 DEF Consistent, InventoriesAgree
<1>5. \A x \in S : v.inObj[x] = None
  BY <1>1, <1>2, <1>4, PopulationAssumption DEF Consistent, OnePlaceOnly
<1>6. Above(v, o) \subseteq Up(v, o) /\ Above(v, o) \subseteq Obj
      /\ Total(S, f) \in Int
  BY <1>2, UpIsAbove, SumOf
<1>7. Bearer(v, o) = IF outer = {} THEN None ELSE v.carriedBy[top]
  BY DEF Bearer
<1>8. outer # {} => top \in outer
  OBVIOUS
<1>9. \A x \in outer : x = top
  BY <1>1, <1>6, <1>8, UpIsOneWay
<1>10. d # None
  BY PopulationAssumption
<1> HIDE DEF g, S, top
<1>11. CASE d = Bearer(v, o)
  <2>1. top \in outer /\ v.carriedBy[top] = d
    BY <1>7, <1>8, <1>10, <1>11
  <2>2. top \in S
    BY <1>4, <1>6, <2>1
  <2>3. g[top] = f[top] + n
    BY <1>3, <1>6, <2>1
  <2>4. ASSUME NEW x \in S \ {top} PROVE g[x] = f[x]
    BY <1>2, <1>3, <1>5, <1>9, <2>4
  <2>5. Total(S, g) = Total(S, f) + n
    BY <1>2, <2>2, <2>3, <2>4, SumOneMore
  <2>6. QED
    BY <1>11, <2>5 DEF S, g
<1>12. CASE d # Bearer(v, o)
  <2>1. ASSUME NEW x \in S PROVE g[x] = f[x]
    <3>1. SUFFICES ASSUME x \in Above(v, o) PROVE FALSE
      BY <1>2, <1>3
    <3>2. x \in outer /\ x = top
      BY <1>5, <1>9, <3>1
    <3>3. v.carriedBy[x] = d
      BY <1>2, <1>4
    <3>4. QED
      BY <1>7, <1>12, <3>2, <3>3
  <2>2. Total(S, g) = Total(S, f)
    BY <1>2, <2>1, SumSame
  <2>3. QED
    BY <1>6, <1>12, <2>2 DEF S, g
<1>13. QED
  BY <1>11, <1>12

-----------------------------------------------------------------------------
(* Every object weighs what it is itself, e, and what is in it; and who    *)
(* carries things carries their number and weight.                         *)
Weighed(v, e) ==
    \A o \in v.alive : v.weight[o] = e[o] + Total(v.contains[o], v.weight)

Carried(v) ==
    \A c \in Char :
        /\ v.carryN[c] = Cardinality(v.carrying[c])
        /\ v.carryW[c] = Total(v.carrying[c], v.weight)

Balanced(v, e) == Weighed(v, e) /\ Carried(v)

(* What neither lights nor equips, drinks nor creates.                     *)
Calm(u, v) ==
    /\ u.alive = v.alive /\ u.units = v.units
    /\ u.eq = v.eq /\ u.wornOn = v.wornOn
    /\ u.at = v.at /\ u.light = v.light

(* obj_to_char.                                                            *)
LEMMA ToCharBalanced ==
    ASSUME NEW v, NEW o \in Obj, NEW c \in Char, Held(v, o), NEW e,
           Balanced(v, e)
    PROVE  Balanced(ToChar(v, o, c), e) /\ Calm(ToChar(v, o, c), v)
<1> DEFINE u == ToChar(v, o, c)
<1>1. v \in World /\ Consistent(v) /\ v.carriedBy[o] = None /\ o \in v.alive
  BY DEF Held, Good, Unplaced
<1>2. /\ u.weight = v.weight /\ u.contains = v.contains
      /\ u.carrying = [v.carrying EXCEPT ![c] = @ \union {o}]
      /\ u.carryW = [v.carryW EXCEPT ![c] = @ + v.weight[o]]
      /\ u.carryN = [v.carryN EXCEPT ![c] = @ + 1]
      /\ Calm(u, v)
  BY <1>1 DEF ToChar, World, Calm
<1>3. o \notin v.carrying[c]
  BY <1>1, PopulationAssumption DEF Consistent, InventoriesAgree
<1>4. v.weight \in [Obj -> Int] /\ v.carrying \in [Char -> SUBSET Obj]
      /\ v.carryW \in [Char -> Int] /\ v.carryN \in [Char -> Int]
  BY <1>1 DEF World
<1> HIDE DEF u
<1>5. Weighed(u, e)
  BY <1>2 DEF Balanced, Weighed, Calm
<1>6. ASSUME NEW d \in Char
      PROVE  /\ u.carryN[d] = Cardinality(u.carrying[d])
             /\ u.carryW[d] = Total(u.carrying[d], u.weight)
  <2>1. v.carryN[d] = Cardinality(v.carrying[d])
        /\ v.carryW[d] = Total(v.carrying[d], v.weight)
    BY DEF Balanced, Carried
  <2>2. CASE d # c
    BY <1>2, <1>4, <2>1, <2>2
  <2>3. CASE d = c
    <3>1. u.carrying[c] = v.carrying[c] \union {o}
          /\ u.carryW[c] = v.carryW[c] + v.weight[o]
          /\ u.carryN[c] = v.carryN[c] + 1
      BY <1>2, <1>4
    <3>2. Total(v.carrying[c] \union {o}, v.weight)
            = Total(v.carrying[c], v.weight) + v.weight[o]
      BY <1>3, <1>4, SumPlus
    <3>3. Cardinality(v.carrying[c] \union {o}) = Cardinality(v.carrying[c]) + 1
      BY <1>3, <1>4, SizeOf, FS_AddElement
    <3>4. QED
      BY <1>2, <2>1, <2>3, <3>1, <3>2, <3>3
  <2>4. QED
    BY <2>2, <2>3
<1>7. QED
  BY <1>2, <1>5, <1>6 DEF Balanced, Carried, u

(* obj_from_char.                                                          *)
LEMMA FromCharBalanced ==
    ASSUME NEW v, NEW o \in Obj, Good(v), v.carriedBy[o] # None, NEW e,
           Balanced(v, e)
    PROVE  Balanced(FromChar(v, o), e) /\ Calm(FromChar(v, o), v)
<1> DEFINE u == FromChar(v, o)
           c == v.carriedBy[o]
<1>1. v \in World /\ Consistent(v) /\ c \in Char
  BY DEF Good, World
<1> HIDE DEF c
<1>2. /\ u.weight = v.weight /\ u.contains = v.contains
      /\ u.carrying = [v.carrying EXCEPT ![c] = @ \ {o}]
      /\ u.carryW = [v.carryW EXCEPT ![c] = @ - v.weight[o]]
      /\ u.carryN = [v.carryN EXCEPT ![c] = @ - 1]
      /\ Calm(u, v)
  BY <1>1 DEF FromChar, World, Calm, c
<1>3. o \in v.carrying[c]
  BY <1>1 DEF Consistent, InventoriesAgree, c
<1>4. v.weight \in [Obj -> Int] /\ v.carrying \in [Char -> SUBSET Obj]
      /\ v.carryW \in [Char -> Int] /\ v.carryN \in [Char -> Int]
  BY <1>1 DEF World
<1> HIDE DEF u
<1>5. Weighed(u, e)
  BY <1>2 DEF Balanced, Weighed, Calm
<1>6. ASSUME NEW d \in Char
      PROVE  /\ u.carryN[d] = Cardinality(u.carrying[d])
             /\ u.carryW[d] = Total(u.carrying[d], u.weight)
  <2>1. v.carryN[d] = Cardinality(v.carrying[d])
        /\ v.carryW[d] = Total(v.carrying[d], v.weight)
    BY DEF Balanced, Carried
  <2>2. CASE d # c
    BY <1>2, <1>4, <2>1, <2>2
  <2>3. CASE d = c
    <3>1. u.carrying[c] = v.carrying[c] \ {o}
          /\ u.carryW[c] = v.carryW[c] - v.weight[o]
          /\ u.carryN[c] = v.carryN[c] - 1
      BY <1>1, <1>2, <1>4
    <3>2. Total(v.carrying[c] \ {o}, v.weight)
            = Total(v.carrying[c], v.weight) - v.weight[o]
      BY <1>1, <1>3, <1>4, SumMinus
    <3>3. Cardinality(v.carrying[c] \ {o}) = Cardinality(v.carrying[c]) - 1
      BY <1>1, <1>3, <1>4, SizeOf
    <3>4. QED
      BY <1>2, <2>1, <2>3, <3>1, <3>2, <3>3
  <2>4. QED
    BY <2>2, <2>3
<1>7. QED
  BY <1>2, <1>5, <1>6 DEF Balanced, Carried, u

(* obj_from_room, and whatever moves no weight.                            *)
LEMMA SameBalanced ==
    ASSUME NEW v, NEW u, u.alive = v.alive, u.weight = v.weight,
           u.contains = v.contains, u.carrying = v.carrying,
           u.carryW = v.carryW, u.carryN = v.carryN, NEW e, Balanced(v, e)
    PROVE  Balanced(u, e)
BY DEF Balanced, Weighed, Carried

LEMMA FromRoomBalanced ==
    ASSUME NEW v \in World, NEW o \in Obj, NEW e, Balanced(v, e)
    PROVE  Balanced(FromRoom(v, o), e) /\ Calm(FromRoom(v, o), v)
<1> DEFINE u == FromRoom(v, o)
<1>1. /\ u.alive = v.alive /\ u.weight = v.weight
      /\ u.contains = v.contains /\ u.carrying = v.carrying
      /\ u.carryW = v.carryW /\ u.carryN = v.carryN
      /\ Calm(u, v)
  BY DEF FromRoom, World, Calm
<1> HIDE DEF u
<1>2. QED
  BY <1>1, SameBalanced DEF u

(* The way up depends on what is in what, and on who carries what.         *)
LEMMA SameWayUp ==
    ASSUME NEW v, NEW u, u.inObj = v.inObj, u.carriedBy = v.carriedBy, NEW o
    PROVE  Above(u, o) = Above(v, o) /\ Bearer(u, o) = Bearer(v, o)
<1>1. \A x : Inside(u, x) = Inside(v, x)
  BY DEF Inside
<1>2. Above(u, o) = Above(v, o)
  BY <1>1 DEF Above
<1>3. QED
  BY <1>2 DEF Bearer

(* obj_to_obj.                                                             *)
LEMMA ToObjRaises ==
    ASSUME NEW v \in World, NEW o \in Obj, NEW k \in Obj, o # k
    PROVE  LET u == ToObj(v, o, k) IN
           /\ u.weight = Raised(u, o, v.weight, v.weight[o])
           /\ u.carryW = [d \in Char |-> v.carryW[d]
                            + (IF d = Bearer(u, o) THEN v.weight[o] ELSE 0)]
           /\ u.contains = [v.contains EXCEPT ![k] = @ \union {o}]
           /\ u.carrying = v.carrying /\ u.carryN = v.carryN
           /\ Calm(u, v)
<1> DEFINE v1 == [v EXCEPT !.contains[k] = @ \union {o}, !.inObj[o] = k]
           c  == Bearer(v1, o)
           W  == [x \in Obj |-> IF x \in Above(v1, o)
                                THEN v1.weight[x] + v.weight[o] ELSE v1.weight[x]]
           C  == [d \in Char |-> IF d = c THEN v1.carryW[d] + v.weight[o]
                                 ELSE v1.carryW[d]]
           u  == ToObj(v, o, k)
<1>1. u = [v1 EXCEPT !.weight = W, !.carryW = C]
  BY DEF ToObj
<1>2. /\ v1.weight = v.weight /\ v1.carryW = v.carryW
      /\ v1.contains = [v.contains EXCEPT ![k] = @ \union {o}]
      /\ v1.carrying = v.carrying /\ v1.carryN = v.carryN
      /\ Calm(v1, v)
  BY DEF World, Calm
<1>3. /\ u.weight = W /\ u.carryW = C
      /\ u.contains = v1.contains /\ u.inObj = v1.inObj
      /\ u.carriedBy = v1.carriedBy
      /\ u.carrying = v1.carrying /\ u.carryN = v1.carryN
      /\ Calm(u, v1)
  BY <1>1 DEF World, Calm
<1> HIDE DEF u, v1
<1>4. Above(u, o) = Above(v1, o) /\ Bearer(u, o) = Bearer(v1, o)
  BY <1>3, SameWayUp
<1>5. u.weight = Raised(u, o, v.weight, v.weight[o])
  BY <1>2, <1>3, <1>4 DEF Raised
<1>6. \A d \in Char : v.carryW[d] \in Int
  BY DEF World
<1>7. u.carryW = [d \in Char |-> v.carryW[d]
                     + (IF d = Bearer(u, o) THEN v.weight[o] ELSE 0)]
  BY <1>2, <1>3, <1>4, <1>6
<1>8. QED
  BY <1>2, <1>3, <1>5, <1>7 DEF u, Calm

LEMMA ToObjBalanced ==
    ASSUME NEW v, NEW o \in Obj, NEW k \in v.alive, Held(v, o), Climbs(v),
           k \notin Inside(v, o), NEW e \in [Obj -> Int], Balanced(v, e)
    PROVE  Balanced(ToObj(v, o, k), e) /\ Calm(ToObj(v, o, k), v)
<1> DEFINE u == ToObj(v, o, k)
           n == v.weight[o]
           A == Above(u, o)
<1>1. /\ v \in World /\ Consistent(v) /\ v.inObj[o] = None /\ o \in v.alive
      /\ k \in Obj /\ k # o
  BY InsideClosed DEF Held, Good, Unplaced, World
<1>2. /\ u.weight = Raised(u, o, v.weight, n)
      /\ u.carryW = [d \in Char |-> v.carryW[d]
                       + (IF d = Bearer(u, o) THEN n ELSE 0)]
      /\ u.contains = [v.contains EXCEPT ![k] = @ \union {o}]
      /\ u.carrying = v.carrying /\ u.carryN = v.carryN
      /\ Calm(u, v)
  BY <1>1, ToObjRaises
<1>3. /\ u \in World /\ u.inObj = [v.inObj EXCEPT ![o] = k]
  BY <1>1, ToObjNests
<1>4. Good(u) /\ Climbs(u)
  BY <1>1, ToObjGood, ToObjClimbs
<1> HIDE DEF u
<1>5. n \in Int /\ v.weight \in [Obj -> Int] /\ v.alive \subseteq Obj
      /\ v.contains \in [Obj -> SUBSET Obj] /\ v.carrying \in [Char -> SUBSET Obj]
  BY <1>1 DEF World
<1> HIDE DEF n, A
<1>6. u.inObj[o] = k /\ u.inObj[o] # None
  BY <1>1, <1>3, PopulationAssumption DEF World
<1>7. \A x \in Obj : u.weight[x] = IF x \in A THEN v.weight[x] + n ELSE v.weight[x]
  BY <1>2 DEF Raised, A
<1>8. k \in A /\ o \notin A /\ o \in Up(u, o)
  <2>1. o \in Up(u, o) /\ o \notin A
    BY UpIsAbove DEF A
  <2>2. QED
    BY <1>1, <1>4, <1>6, <2>1, UpGoesOn DEF A
<1>9. u.weight \in [Obj -> Int]
  BY <1>3 DEF World
<1>10. ASSUME NEW y \in v.alive
       PROVE  u.weight[y] = e[y] + Total(u.contains[y], u.weight)
  <2>1. v.weight[y] = e[y] + Total(v.contains[y], v.weight) /\ y \in Obj
    BY <1>5 DEF Balanced, Weighed
  <2>2. o \notin v.contains[y]
    BY <1>1, <2>1, PopulationAssumption DEF Consistent, NestingAgrees
  <2> DEFINE S == v.contains[y]
  <2>3. S \in SUBSET Obj /\ u.contains[y] \ {o} = S
    BY <1>2, <1>5, <2>1, <2>2
  <2>4. Total(u.contains[y] \ {o}, Raised(u, o, v.weight, n))
          = Total(u.contains[y] \ {o}, v.weight)
            + (IF y \in A /\ y # u.inObj[o] THEN n ELSE 0)
    BY <1>4, <1>5, <1>6, <2>1, RaisedContents DEF A
  <2>5. Total(S, u.weight)
          = Total(S, v.weight) + (IF y \in A /\ y # k THEN n ELSE 0)
    BY <1>2, <1>6, <2>3, <2>4
  <2>6. Total(S, v.weight) \in Int /\ v.weight[y] \in Int
    BY <1>5, <2>1, <2>3, SumOf
  <2>7. CASE y = k
    <3>1. u.contains[y] = S \union {o}
      BY <1>2, <1>5, <2>7
    <3>2. Total(S \union {o}, u.weight) = Total(S, u.weight) + u.weight[o]
      BY <1>9, <2>2, <2>3, SumPlus
    <3>3. u.weight[o] = n
      BY <1>7, <1>8 DEF n
    <3>4. Total(u.contains[y], u.weight) = Total(S, v.weight) + n
      BY <1>5, <2>5, <2>6, <2>7, <3>1, <3>2, <3>3
    <3>5. u.weight[y] = v.weight[y] + n
      BY <1>1, <1>7, <1>8, <2>7
    <3> HIDE DEF S
    <3>6. v.weight[y] = e[y] + Total(S, v.weight) /\ e[y] \in Int
      BY <2>1 DEF S
    <3>7. QED
      BY <1>5, <2>6, <3>4, <3>5, <3>6
  <2>8. CASE y # k
    <3>1. u.contains[y] = S
      BY <1>2, <1>5, <2>1, <2>8
    <3>2. u.weight[y] = v.weight[y] + (IF y \in A THEN n ELSE 0)
      BY <1>5, <1>7, <2>1
    <3> HIDE DEF S
    <3>3. v.weight[y] = e[y] + Total(S, v.weight) /\ e[y] \in Int
      BY <2>1 DEF S
    <3>4. QED
      BY <1>5, <2>5, <2>6, <2>8, <3>1, <3>2, <3>3
  <2>9. QED
    BY <2>7, <2>8
<1>11. ASSUME NEW d \in Char
       PROVE  /\ u.carryN[d] = Cardinality(u.carrying[d])
              /\ u.carryW[d] = Total(u.carrying[d], u.weight)
  <2>1. v.carryN[d] = Cardinality(v.carrying[d])
        /\ v.carryW[d] = Total(v.carrying[d], v.weight)
    BY DEF Balanced, Carried
  <2>2. Total(u.carrying[d], Raised(u, o, v.weight, n))
          = Total(u.carrying[d], v.weight) + (IF d = Bearer(u, o) THEN n ELSE 0)
    BY <1>4, <1>5, <1>6, RaisedCarrying
  <2>3. QED
    BY <1>2, <2>1, <2>2
<1>12. QED
  BY <1>2, <1>10, <1>11 DEF Balanced, Weighed, Carried, Calm, u

(* obj_from_obj.                                                           *)
LEMMA FromObjLowers ==
    ASSUME NEW v \in World, NEW o \in Obj, NEW k \in Obj, v.inObj[o] = k
    PROVE  LET u == FromObj(v, o) IN
           /\ u.weight = Raised(v, o, v.weight, -v.weight[o])
           /\ u.carryW = [d \in Char |-> v.carryW[d]
                            + (IF d = Bearer(v, o) THEN -v.weight[o] ELSE 0)]
           /\ u.contains = [v.contains EXCEPT ![k] = @ \ {o}]
           /\ u.carrying = v.carrying /\ u.carryN = v.carryN
           /\ Calm(u, v)
<1> DEFINE W == [x \in Obj |-> IF x \in Above(v, o)
                               THEN v.weight[x] - v.weight[o] ELSE v.weight[x]]
           C == [d \in Char |-> IF d = Bearer(v, o) THEN v.carryW[d] - v.weight[o]
                                ELSE v.carryW[d]]
           u == FromObj(v, o)
<1>1. /\ u.weight = W /\ u.carryW = C
      /\ u.contains = [v.contains EXCEPT ![k] = @ \ {o}]
      /\ u.carrying = v.carrying /\ u.carryN = v.carryN
      /\ Calm(u, v)
  BY DEF FromObj, World, Calm
<1>2. /\ \A x \in Obj : v.weight[x] \in Int
      /\ \A d \in Char : v.carryW[d] \in Int
  BY DEF World
<1>3. W = Raised(v, o, v.weight, -v.weight[o])
  BY <1>2 DEF Raised
<1>4. C = [d \in Char |-> v.carryW[d]
             + (IF d = Bearer(v, o) THEN -v.weight[o] ELSE 0)]
  BY <1>2
<1> HIDE DEF u, W, C
<1>5. QED
  BY <1>1, <1>3, <1>4 DEF u

LEMMA FromObjBalanced ==
    ASSUME NEW v, NEW o \in Obj, Good(v), v.inObj[o] # None, Climbs(v),
           NEW e \in [Obj -> Int], Balanced(v, e)
    PROVE  Balanced(FromObj(v, o), e) /\ Calm(FromObj(v, o), v)
<1> DEFINE u == FromObj(v, o)
           k == v.inObj[o]
           n == -v.weight[o]
           A == Above(v, o)
<1>1. v \in World /\ Consistent(v) /\ k \in Obj
  BY DEF Good, World
<1> HIDE DEF k
<1>2. /\ u.weight = Raised(v, o, v.weight, n)
      /\ u.carryW = [d \in Char |-> v.carryW[d]
                       + (IF d = Bearer(v, o) THEN n ELSE 0)]
      /\ u.contains = [v.contains EXCEPT ![k] = @ \ {o}]
      /\ u.carrying = v.carrying /\ u.carryN = v.carryN
      /\ Calm(u, v)
  BY <1>1, FromObjLowers DEF k
<1> HIDE DEF u
<1>3. n \in Int /\ v.weight \in [Obj -> Int] /\ v.alive \subseteq Obj
      /\ v.contains \in [Obj -> SUBSET Obj] /\ v.carrying \in [Char -> SUBSET Obj]
  BY <1>1 DEF World
<1>4. n + v.weight[o] = 0 /\ v.weight[o] \in Int
  BY <1>3
<1> HIDE DEF n, A
<1>5. \A x \in Obj : u.weight[x] = IF x \in A THEN v.weight[x] + n ELSE v.weight[x]
  BY <1>2 DEF Raised, A
<1>6. k \in A
  <2>1. o \in Up(v, o)
    BY UpIsAbove
  <2>2. QED
    BY <1>1, <2>1, UpGoesOn DEF A, k
<1>7. ASSUME NEW y \in v.alive
       PROVE  u.weight[y] = e[y] + Total(u.contains[y], u.weight)
  <2> DEFINE S == v.contains[y] \ {o}
  <2>1. v.weight[y] = e[y] + Total(v.contains[y], v.weight) /\ y \in Obj
        /\ e[y] \in Int /\ v.contains[y] \in SUBSET Obj
    BY <1>3 DEF Balanced, Weighed
  <2>2. o \in v.contains[y] <=> y = k
    BY <1>1, <2>1 DEF Consistent, NestingAgrees, k
  <2>3. u.contains[y] = S
    BY <1>1, <1>2, <1>3, <2>1, <2>2
  <2>4. Total(S, Raised(v, o, v.weight, n))
          = Total(S, v.weight) + (IF y \in A /\ y # v.inObj[o] THEN n ELSE 0)
    BY <1>3, <2>1, RaisedContents DEF A
  <2>5. Total(S, u.weight)
          = Total(S, v.weight) + (IF y \in A /\ y # k THEN n ELSE 0)
    BY <1>2, <2>4 DEF k
  <2>6. Total(S, v.weight) \in Int /\ v.weight[y] \in Int
        /\ Total(v.contains[y], v.weight) \in Int
    BY <1>3, <2>1, SumOf
  <2>7. Total(v.contains[y], v.weight)
          = Total(S, v.weight) + (IF y = k THEN v.weight[o] ELSE 0)
    <3>1. CASE y = k
      <4>1. Total(v.contains[y] \ {o}, v.weight)
              = Total(v.contains[y], v.weight) - v.weight[o]
        BY <1>3, <2>1, <2>2, <3>1, SumMinus
      <4>2. QED
        BY <1>4, <2>6, <3>1, <4>1
    <3>2. CASE y # k
      <4>1. v.contains[y] \ {o} = v.contains[y]
        BY <2>2, <3>2
      <4>2. Total(v.contains[y] \ {o}, v.weight) = Total(v.contains[y], v.weight)
        BY <4>1, Zenon
      <4>3. QED
        BY <2>6, <3>2, <4>2
    <3>3. QED
      BY <3>1, <3>2
  <2> HIDE DEF S
  <2>8. u.weight[y] = v.weight[y] + (IF y \in A THEN n ELSE 0)
    BY <1>3, <1>5, <2>1, <2>6
  <2>9. QED
    BY <1>3, <1>4, <1>6, <2>1, <2>3, <2>5, <2>6, <2>7, <2>8
<1>8. ASSUME NEW d \in Char
       PROVE  /\ u.carryN[d] = Cardinality(u.carrying[d])
              /\ u.carryW[d] = Total(u.carrying[d], u.weight)
  <2>1. v.carryN[d] = Cardinality(v.carrying[d])
        /\ v.carryW[d] = Total(v.carrying[d], v.weight)
    BY DEF Balanced, Carried
  <2>2. Total(v.carrying[d], Raised(v, o, v.weight, n))
          = Total(v.carrying[d], v.weight) + (IF d = Bearer(v, o) THEN n ELSE 0)
    BY <1>3, RaisedCarrying
  <2>3. QED
    BY <1>2, <2>1, <2>2
<1>9. QED
  BY <1>2, <1>7, <1>8 DEF Balanced, Weighed, Carried, Calm, u

-----------------------------------------------------------------------------
(* Where the light that c holds shines.                                    *)
Shines(v, c) ==
    IF IsLit(v, v.eq[c][LightPos]) THEN v.at[c] ELSE None

Lit(v) == \A r \in Room : v.light[r] = Cardinality({c \in Char : Shines(v, c) = r})

LEMMA Crowd ==
    ASSUME NEW S \in SUBSET Char
    PROVE  /\ IsFiniteSet(S) /\ Cardinality(S) \in Nat
           /\ \A x \in S : Cardinality(S \ {x}) = Cardinality(S) - 1
           /\ \A x : x \notin S => Cardinality(S \union {x}) = Cardinality(S) + 1
<1>1. IsFiniteSet(S)
  BY FiniteAssumption, FS_Subset
<1>2. QED
  BY <1>1, FS_CardinalityType, FS_AddElement, FS_RemoveElement

(* The light of one character goes on, off or elsewhere, and the rooms     *)
(* take note of that.                                                      *)
Glow(v, c, r) == IF Shines(v, c) = r THEN 1 ELSE 0

LEMMA LightMoved ==
    ASSUME NEW v \in World, NEW u, NEW c \in Char, Lit(v),
           \A d \in Char \ {c} : Shines(u, d) = Shines(v, d),
           \A r \in Room : u.light[r] = v.light[r] - Glow(v, c, r) + Glow(u, c, r)
    PROVE  Lit(u)
<1> SUFFICES ASSUME NEW r \in Room
             PROVE  u.light[r] = Cardinality({d \in Char : Shines(u, d) = r})
  BY DEF Lit
<1> DEFINE A == {d \in Char : Shines(v, d) = r}
           B == {d \in Char : Shines(u, d) = r}
<1>1. A \in SUBSET Char /\ B \in SUBSET Char
  OBVIOUS
<1>2. v.light[r] = Cardinality(A) /\ v.light[r] \in Int
  BY DEF Lit, World
<1>3. Glow(v, c, r) = (IF c \in A THEN 1 ELSE 0)
      /\ Glow(u, c, r) = (IF c \in B THEN 1 ELSE 0)
  BY DEF Glow
<1>4. A \ {c} = B \ {c}
  OBVIOUS
<1>5. u.light[r] = v.light[r] - Glow(v, c, r) + Glow(u, c, r)
  OBVIOUS
<1> HIDE DEF A, B
<1>6. CASE c \in A /\ c \in B
  <2>1. A = B
    BY <1>4, <1>6
  <2>2. QED
    BY <1>2, <1>3, <1>5, <1>6, <2>1 DEF B
<1>7. CASE c \in A /\ c \notin B
  <2>1. B = A \ {c}
    BY <1>4, <1>7
  <2>2. Cardinality(B) = Cardinality(A) - 1
    BY <1>1, <1>7, <2>1, Crowd
  <2>3. QED
    BY <1>2, <1>3, <1>5, <1>7, <2>2 DEF B
<1>8. CASE c \notin A /\ c \in B
  <2>1. B = A \union {c}
    BY <1>4, <1>8
  <2>2. Cardinality(B) = Cardinality(A) + 1
    BY <1>1, <1>8, <2>1, Crowd
  <2>3. QED
    BY <1>2, <1>3, <1>5, <1>8, <2>2 DEF B
<1>9. CASE c \notin A /\ c \notin B
  <2>1. A = B
    BY <1>4, <1>9
  <2>2. QED
    BY <1>2, <1>3, <1>5, <1>9, <2>1 DEF B
<1>10. QED
  BY <1>6, <1>7, <1>8, <1>9

LEMMA LightStays ==
    ASSUME NEW v, NEW u, Lit(v), u.light = v.light,
           \A d \in Char : Shines(u, d) = Shines(v, d)
    PROVE  Lit(u)
<1>1. \A r : {d \in Char : Shines(u, d) = r} = {d \in Char : Shines(v, d) = r}
  OBVIOUS
<1>2. QED
  BY <1>1 DEF Lit

(* What Lighting takes from the room, or adds to it.                       *)
LEMMA LightingIs ==
    ASSUME NEW v \in World, NEW c \in Char, NEW p, NEW o, NEW by \in Int, NEW r \in Room
    PROVE  Lighting(v, c, p, o, by)[r]
             = v.light[r] + (IF p = LightPos /\ IsLit(v, o) /\ v.at[c] = r
                             THEN by ELSE 0)
<1>1. v.light \in [Room -> Int] /\ r # None
  BY PopulationAssumption DEF World
<1>2. CASE p = LightPos /\ IsLit(v, o) /\ v.at[c] # None
  BY <1>1, <1>2 DEF Lighting
<1>3. CASE ~(p = LightPos /\ IsLit(v, o) /\ v.at[c] # None)
  <2>1. Lighting(v, c, p, o, by) = v.light /\ v.light[r] \in Int
    BY <1>1, <1>3 DEF Lighting
  <2>2. QED
    BY <1>1, <1>3, <2>1
<1>4. QED
  BY <1>2, <1>3

-----------------------------------------------------------------------------
(* What an object weighs itself.                                           *)
Own(v) == [o \in Obj |-> Empty[o] + Liquid(v, o)]

Drinkable(o) == Kind[o] \in {"drink", "fountain"}

(* Nobody drinks who should not, and no flask is made overfull.            *)
Sober ==
    /\ Quenched = {}
    /\ \A o \in Obj : Drinkable(o) => Units[o] <= Capacity[o]

(* Things are worn where they fit.                                         *)
Dressed(v) == \A o \in Obj : v.wornOn[o] # None => v.wornOn[o] \in Fits[o]

Full(v) ==
    \A o \in v.alive :
        Drinkable(o) => v.units[o] >= 0 /\ (Sober => v.units[o] <= Capacity[o])

Sound(v) ==
    /\ Balanced(v, Own(v)) /\ Dressed(v) /\ Full(v)
    /\ Wand = {} => Lit(v)

LEMMA OwnType ==
    ASSUME NEW v \in World
    PROVE  Own(v) \in [Obj -> Int]
<1>1. \A o \in Obj : Empty[o] \in Int /\ v.units[o] \in Int
  BY ValueAssumption DEF World
<1>2. QED
  BY <1>1 DEF Own, Liquid

LEMMA BalancedOwn ==
    ASSUME NEW u, NEW e, Balanced(u, e), u.alive \subseteq Obj,
           \A x \in u.alive : Own(u)[x] = e[x]
    PROVE  Balanced(u, Own(u))
BY DEF Balanced, Weighed

LEMMA CalmSound ==
    ASSUME NEW u, NEW v, Calm(u, v), Balanced(u, Own(v)), Sound(v)
    PROVE  Sound(u)
<1>1. \A d : Shines(u, d) = Shines(v, d)
  BY DEF Calm, Shines, IsLit
<1>2. Wand = {} => Lit(u)
  BY <1>1, LightStays DEF Sound, Calm
<1>3. Own(u) = Own(v)
  BY DEF Own, Liquid, Calm
<1>4. Dressed(u) /\ Full(u)
  BY DEF Sound, Dressed, Full, Calm
<1>5. QED
  BY <1>2, <1>3, <1>4 DEF Sound

LEMMA ToCharSound ==
    ASSUME NEW v, NEW o \in Obj, NEW c \in Char, Held(v, o), Sound(v)
    PROVE  Sound(ToChar(v, o, c))
BY ToCharBalanced, CalmSound DEF Sound

LEMMA FromCharSound ==
    ASSUME NEW v, NEW o \in Obj, Good(v), v.carriedBy[o] # None, Sound(v)
    PROVE  Sound(FromChar(v, o))
BY FromCharBalanced, CalmSound DEF Sound

LEMMA FromRoomSound ==
    ASSUME NEW v, NEW o \in Obj, Good(v), Sound(v)
    PROVE  Sound(FromRoom(v, o))
BY FromRoomBalanced, CalmSound DEF Sound, Good

LEMMA ToObjSound ==
    ASSUME NEW v, NEW o \in Obj, NEW k \in v.alive, Held(v, o), Climbs(v),
           k \notin Inside(v, o), Sound(v)
    PROVE  Sound(ToObj(v, o, k))
<1>1. Own(v) \in [Obj -> Int]
  BY OwnType DEF Held, Good
<1>2. Balanced(ToObj(v, o, k), Own(v)) /\ Calm(ToObj(v, o, k), v)
  BY <1>1, ToObjBalanced DEF Sound
<1>3. QED
  BY <1>2, CalmSound

LEMMA FromObjSound ==
    ASSUME NEW v, NEW o \in Obj, Good(v), v.inObj[o] # None, Climbs(v), Sound(v)
    PROVE  Sound(FromObj(v, o))
<1>1. Own(v) \in [Obj -> Int]
  BY OwnType DEF Good
<1>2. Balanced(FromObj(v, o), Own(v)) /\ Calm(FromObj(v, o), v)
  BY <1>1, FromObjBalanced DEF Sound
<1>3. QED
  BY <1>2, CalmSound

-----------------------------------------------------------------------------
(* equip_char and unequip_char, and what a character does with a light.    *)
LEMMA UnequipSound ==
    ASSUME NEW v, NEW c \in Char, NEW p \in Pos, Good(v), v.eq[c][p] # None,
           Sound(v)
    PROVE  Sound(Unequip(v, c, p))
<1> DEFINE u == Unequip(v, c, p)
           o == v.eq[c][p]
           L == Lighting(v, c, p, o, -1)
<1>1. v \in World /\ Consistent(v) /\ o \in Obj
  BY DEF Good, World
<1>2. /\ u.alive = v.alive /\ u.weight = v.weight /\ u.units = v.units
      /\ u.contains = v.contains /\ u.carrying = v.carrying
      /\ u.carryW = v.carryW /\ u.carryN = v.carryN /\ u.at = v.at
      /\ u.eq = [v.eq EXCEPT ![c][p] = None]
      /\ u.wornOn = [v.wornOn EXCEPT ![o] = None]
      /\ u.light = L
  BY <1>1 DEF Unequip, World
<1> HIDE DEF u
<1>3. Balanced(u, Own(u))
  <2>1. Own(u) = Own(v)
    BY <1>2 DEF Own, Liquid
  <2>2. QED
    BY <1>2, <2>1, SameBalanced DEF Sound
<1>4. Dressed(u) /\ Full(u)
  BY <1>1, <1>2 DEF Sound, Dressed, Full, World
<1>5. ASSUME Lit(v) PROVE Lit(u)
  <2>1. \A x : IsLit(u, x) <=> IsLit(v, x)
    BY <1>2 DEF IsLit
  <2>2. \A d \in Char : \A q \in Pos :
            u.eq[d][q] = IF d = c /\ q = p THEN None ELSE v.eq[d][q]
    BY <1>1, <1>2 DEF World
  <2>3. LightPos \in Pos
    BY PopulationAssumption
  <2>4. \A d \in Char \ {c} : Shines(u, d) = Shines(v, d)
    BY <1>2, <2>1, <2>2, <2>3 DEF Shines
  <2>5. ASSUME NEW r \in Room
        PROVE  u.light[r] = v.light[r] - Glow(v, c, r) + Glow(u, c, r)
    <3>1. L[r] = v.light[r] + (IF p = LightPos /\ IsLit(v, o) /\ v.at[c] = r
                               THEN -1 ELSE 0)
      BY <1>1, LightingIs
    <3>2. v.light[r] \in Int /\ r # None
      BY <1>1, PopulationAssumption DEF World
    <3> HIDE DEF L
    <3>3. CASE p = LightPos
      <4>1. Shines(u, c) = None
        BY <2>1, <2>2, <2>3, <3>3 DEF Shines, IsLit
      <4>2. Glow(u, c, r) = 0
        BY <3>2, <4>1 DEF Glow
      <4>3. Glow(v, c, r) = IF IsLit(v, o) /\ v.at[c] = r THEN 1 ELSE 0
        BY <3>2, <3>3 DEF Glow, Shines
      <4>4. QED
        BY <1>2, <3>1, <3>2, <3>3, <4>2, <4>3
    <3>4. CASE p # LightPos
      <4>1. Shines(u, c) = Shines(v, c)
        BY <1>2, <2>1, <2>2, <2>3, <3>4 DEF Shines
      <4>2. QED
        BY <1>2, <3>1, <3>2, <3>4, <4>1 DEF Glow
    <3>5. QED
      BY <3>3, <3>4
  <2>6. QED
    BY <1>1, <1>5, <2>4, <2>5, LightMoved
<1>6. QED
  BY <1>3, <1>4, <1>5 DEF Sound, u

LEMMA EquipSound ==
    ASSUME NEW v, NEW o \in Obj, NEW c \in Char, NEW p \in Pos, NEW z,
           Held(v, o), p \in Fits[o], Sound(v)
    PROVE  Sound(Equip(v, o, c, p, z))
<1>1. CASE v.eq[c][p] # None
  BY <1>1 DEF Equip
<1>2. CASE v.eq[c][p] = None /\ z
  BY <1>2, ToCharSound DEF Equip
<1>3. CASE v.eq[c][p] = None /\ ~z
  <2> DEFINE u == [v EXCEPT !.eq[c][p] = o, !.wornBy[o] = c, !.wornOn[o] = p,
                            !.light = Lighting(v, c, p, o, 1)]
             L == Lighting(v, c, p, o, 1)
  <2>1. v \in World /\ Consistent(v)
    BY DEF Held, Good
  <2>2. /\ u.alive = v.alive /\ u.weight = v.weight /\ u.units = v.units
        /\ u.contains = v.contains /\ u.carrying = v.carrying
        /\ u.carryW = v.carryW /\ u.carryN = v.carryN /\ u.at = v.at
        /\ u.eq = [v.eq EXCEPT ![c][p] = o]
        /\ u.wornOn = [v.wornOn EXCEPT ![o] = p]
        /\ u.light = L
    BY <2>1 DEF World
  <2> HIDE DEF u
  <2>3. Balanced(u, Own(u))
    <3>1. Own(u) = Own(v)
      BY <2>2 DEF Own, Liquid
    <3>2. QED
      BY <2>2, <3>1, SameBalanced DEF Sound
  <2>4. Dressed(u) /\ Full(u)
    BY <2>1, <2>2 DEF Sound, Dressed, Full, World
  <2>5. ASSUME Lit(v) PROVE Lit(u)
    <3>1. \A x : IsLit(u, x) <=> IsLit(v, x)
      BY <2>2 DEF IsLit
    <3>2. \A d \in Char : \A q \in Pos :
              u.eq[d][q] = IF d = c /\ q = p THEN o ELSE v.eq[d][q]
      BY <2>1, <2>2 DEF World
    <3>3. LightPos \in Pos /\ ~IsLit(v, None)
      BY PopulationAssumption DEF IsLit
    <3>4. \A d \in Char \ {c} : Shines(u, d) = Shines(v, d)
      BY <2>2, <3>1, <3>2, <3>3 DEF Shines
    <3>5. ASSUME NEW r \in Room
          PROVE  u.light[r] = v.light[r] - Glow(v, c, r) + Glow(u, c, r)
      <4>1. L[r] = v.light[r] + (IF p = LightPos /\ IsLit(v, o) /\ v.at[c] = r
                                 THEN 1 ELSE 0)
        BY <2>1, LightingIs
      <4>2. v.light[r] \in Int /\ r # None
        BY <2>1, PopulationAssumption DEF World
      <4> HIDE DEF L
      <4>3. CASE p = LightPos
        <5>1. Shines(v, c) = None
          BY <1>3, <3>3, <4>3 DEF Shines
        <5>2. Glow(v, c, r) = 0
          BY <4>2, <5>1 DEF Glow
        <5>3. Glow(u, c, r) = IF IsLit(v, o) /\ v.at[c] = r THEN 1 ELSE 0
          BY <2>2, <3>1, <3>2, <3>3, <4>2, <4>3 DEF Glow, Shines
        <5>4. QED
          BY <2>2, <4>1, <4>2, <4>3, <5>2, <5>3
      <4>4. CASE p # LightPos
        <5>1. Shines(u, c) = Shines(v, c)
          BY <2>2, <3>1, <3>2, <3>3, <4>4 DEF Shines
        <5>2. QED
          BY <2>2, <4>1, <4>2, <4>4, <5>1 DEF Glow
      <4>5. QED
        BY <4>3, <4>4
    <3>6. QED
      BY <2>1, <2>5, <3>4, <3>5, LightMoved
  <2>6. Sound(u)
    BY <2>3, <2>4, <2>5 DEF Sound
  <2>7. Equip(v, o, c, p, z) = u
    BY <1>3 DEF Equip, u
  <2>8. QED
    BY <2>6, <2>7
<1>4. QED
  BY <1>1, <1>2, <1>3

-----------------------------------------------------------------------------
(* extract_obj: what is freed weighed on nothing any more.                 *)
LEMMA EraseSound ==
    ASSUME NEW v, NEW o \in Obj, Good(v), Unplaced(v, o), Sound(v)
    PROVE  Sound(Erase(v, o))
<1> DEFINE u    == Erase(v, o)
           dead == Inside(v, o)
<1>1. v \in World /\ Consistent(v) /\ u \in World
  BY EraseFields DEF Good
<1>2. /\ u.alive = v.alive \ dead
      /\ u.contains = [x \in Obj |-> IF x \in dead THEN {} ELSE v.contains[x]]
      /\ u.weight = [x \in Obj |-> IF x \in dead THEN 0 ELSE v.weight[x]]
      /\ u.units = [x \in Obj |-> IF x \in dead THEN 0 ELSE v.units[x]]
      /\ u.carrying = v.carrying /\ u.carryW = v.carryW
      /\ u.carryN = v.carryN /\ u.at = v.at /\ u.light = v.light
      /\ u.eq = v.eq /\ u.wornOn = v.wornOn
  BY <1>1 DEF Erase, World
<1>3. /\ dead \subseteq Obj /\ o \in dead
      /\ \A x \in dead : x = o \/ v.inObj[x] \in dead
  BY InsideClosed
<1> HIDE DEF u, dead
<1>4. None \notin Obj /\ None \notin Char
  BY PopulationAssumption
<1>5. \A x \in dead : v.carriedBy[x] = None /\ v.wornBy[x] = None
  <2>1. TAKE x \in dead
  <2>2. CASE x = o
    BY <2>2 DEF Unplaced
  <2>3. CASE x # o
    <3>1. v.inObj[x] # None /\ x \in Obj
      BY <1>3, <1>4, <2>3
    <3>2. OnePlaceOnly(v, x)
      BY <1>1, <3>1 DEF Consistent
    <3>3. QED
      BY <3>1, <3>2 DEF OnePlaceOnly
  <2>4. QED
    BY <2>2, <2>3
<1>6. /\ v.weight \in [Obj -> Int] /\ u.weight \in [Obj -> Int]
      /\ v.alive \subseteq Obj /\ v.contains \in [Obj -> SUBSET Obj]
      /\ v.carrying \in [Char -> SUBSET Obj]
  BY <1>1 DEF World
<1>7. ASSUME NEW y \in u.alive
      PROVE  u.weight[y] = Own(v)[y] + Total(u.contains[y], u.weight)
  <2>1. y \in Obj /\ y \notin dead /\ y \in v.alive
    BY <1>2, <1>6
  <2>2. u.contains[y] = v.contains[y] /\ u.weight[y] = v.weight[y]
    BY <1>2, <2>1
  <2>3. ASSUME NEW x \in v.contains[y] PROVE u.weight[x] = v.weight[x]
    <3>1. x \in Obj /\ v.inObj[x] = y
      BY <1>1, <1>6, <2>1 DEF Consistent, NestingAgrees
    <3>2. x \notin dead
      <4>1. o \notin dead \/ v.inObj[o] = None
        BY DEF Unplaced
      <4>2. QED
        BY <1>3, <1>4, <2>1, <3>1, <4>1
    <3>3. QED
      BY <1>2, <3>1, <3>2
  <2>4. v.contains[y] \in SUBSET Obj
    BY <1>6, <2>1
  <2>5. Total(v.contains[y], u.weight) = Total(v.contains[y], v.weight)
    BY <1>6, <2>3, <2>4, SumSame
  <2>6. v.weight[y] = Own(v)[y] + Total(v.contains[y], v.weight)
    BY <2>1 DEF Sound, Balanced, Weighed
  <2>7. QED
    BY <2>2, <2>5, <2>6
<1>8. ASSUME NEW d \in Char
      PROVE  /\ u.carryN[d] = Cardinality(u.carrying[d])
             /\ u.carryW[d] = Total(u.carrying[d], u.weight)
  <2>1. v.carryN[d] = Cardinality(v.carrying[d])
        /\ v.carryW[d] = Total(v.carrying[d], v.weight)
    BY DEF Sound, Balanced, Carried
  <2>2. ASSUME NEW x \in v.carrying[d] PROVE u.weight[x] = v.weight[x]
    <3>1. x \in Obj /\ v.carriedBy[x] = d
      BY <1>1, <1>6 DEF Consistent, InventoriesAgree
    <3>2. x \notin dead
      BY <1>4, <1>5, <3>1
    <3>3. QED
      BY <1>2, <3>1, <3>2
  <2>3. v.carrying[d] \in SUBSET Obj
    BY <1>6
  <2>4. Total(v.carrying[d], u.weight) = Total(v.carrying[d], v.weight)
    BY <1>6, <2>2, <2>3, SumSame
  <2>5. QED
    BY <1>2, <2>1, <2>4
<1>9. Balanced(u, Own(v))
  BY <1>7, <1>8 DEF Balanced, Weighed, Carried
<1>10. \A x \in u.alive : x \in Obj /\ x \notin dead /\ u.units[x] = v.units[x]
  BY <1>2, <1>6
<1>11. \A x \in u.alive : Own(u)[x] = Own(v)[x]
  BY <1>10 DEF Own, Liquid
<1>12. Balanced(u, Own(u))
  BY <1>9, <1>10, <1>11, BalancedOwn
<1>13. Dressed(u) /\ Full(u)
  BY <1>2, <1>10 DEF Sound, Dressed, Full
<1>14. ASSUME Lit(v) PROVE Lit(u)
  <2>1. ASSUME NEW d \in Char PROVE Shines(u, d) = Shines(v, d)
    <3> DEFINE x == v.eq[d][LightPos]
    <3>1. LightPos \in Pos
      BY PopulationAssumption
    <3>2. x \in Obj \union {None}
      BY <1>1, <3>1 DEF World
    <3>3. x # None => x \notin dead
      <4>1. SUFFICES ASSUME x \in Obj PROVE x \notin dead
        BY <3>2
      <4>2. v.wornBy[x] = d
        BY <1>1, <3>1, <4>1 DEF Consistent, EquipmentAgrees
      <4>3. QED
        BY <1>4, <1>5, <4>2
    <3> HIDE DEF x
    <3>4. IsLit(u, x) <=> IsLit(v, x)
      BY <1>2, <3>2, <3>3 DEF IsLit
    <3>5. QED
      BY <1>2, <3>4 DEF Shines, x
  <2>2. QED
    BY <1>2, <1>14, <2>1, LightStays
<1>15. QED
  BY <1>12, <1>13, <1>14 DEF Sound, u

LEMMA DetachSound ==
    ASSUME NEW v, NEW o \in Obj, Good(v), Climbs(v), Sound(v)
    PROVE  Sound(Detach(v, o))
<1>1. v \in World /\ Consistent(v)
  BY DEF Good
<1>2. None \notin Obj \union Char \union Pos \union Room
  BY PopulationAssumption
<1>3. CASE v.wornBy[o] # None
  <2> DEFINE c == v.wornBy[o]
             p == v.wornOn[o]
             u == Unequip(v, c, p)
  <2>1. c \in Char /\ p \in Pos /\ v.eq[c][p] = o
    BY <1>1, <1>3 DEF World, Consistent, EquipmentAgrees
  <2>2. Held(u, o)
    BY <1>2, <2>1, UnequipHeld
  <2>3. Detach(v, o) = u
    BY <1>3, <2>2 DEF Detach, Held, Unplaced
  <2>4. Sound(u)
    BY <1>2, <2>1, UnequipSound
  <2>5. QED
    BY <2>3, <2>4
<1>4. CASE v.wornBy[o] = None /\ v.inRoom[o] # None
  BY <1>4, FromRoomSound DEF Detach
<1>5. CASE v.wornBy[o] = None /\ v.inRoom[o] = None /\ v.carriedBy[o] # None
  BY <1>5, FromCharSound DEF Detach
<1>6. CASE /\ v.wornBy[o] = None /\ v.inRoom[o] = None /\ v.carriedBy[o] = None
           /\ v.inObj[o] # None
  BY <1>6, FromObjSound DEF Detach
<1>7. CASE /\ v.wornBy[o] = None /\ v.inRoom[o] = None /\ v.carriedBy[o] = None
           /\ v.inObj[o] = None
  BY <1>7 DEF Detach
<1>8. QED
  BY <1>3, <1>4, <1>5, <1>6, <1>7

LEMMA ExtractSound ==
    ASSUME NEW v, NEW o \in Obj, Good(v), Climbs(v), Sound(v)
    PROVE  Sound(Extract(v, o))
BY DetachGood, DetachSound, EraseSound DEF Extract

(* obj_to_room.                                                            *)
LEMMA ToRoomSound ==
    ASSUME NEW v, NEW o \in Obj, NEW r, Good(v), Climbs(v), Sound(v)
    PROVE  Sound(ToRoom(v, o, r))
<1>1. CASE v.weight[o] > 0 /\ r \in Water /\ o \notin NoSink
  BY <1>1, ExtractSound DEF ToRoom
<1>2. CASE ~(v.weight[o] > 0 /\ r \in Water /\ o \notin NoSink)
  <2> DEFINE u == [v EXCEPT !.contents[r] = @ \union {o}, !.inRoom[o] = r,
                            !.carriedBy[o] = None]
  <2>1. /\ u.alive = v.alive /\ u.weight = v.weight
        /\ u.contains = v.contains /\ u.carrying = v.carrying
        /\ u.carryW = v.carryW /\ u.carryN = v.carryN
        /\ Calm(u, v)
    BY DEF Good, World, Calm
  <2> HIDE DEF u
  <2>2. Sound(u)
    BY <2>1, SameBalanced, CalmSound DEF Sound
  <2>3. QED
    BY <1>2, <2>2 DEF ToRoom, u
<1>3. QED
  BY <1>1, <1>2

-----------------------------------------------------------------------------
(* read_object: a thing that is empty and nowhere.                         *)
LEMMA CreatedSound ==
    ASSUME NEW v, NEW o \in Obj, Good(v), o \notin v.alive, Sound(v)
    PROVE  Sound(Created(v, o))
<1> DEFINE u == Created(v, o)
           U == Units[o]
           W == Empty[o] + IF Drinkable(o) THEN Units[o] ELSE 0
<1>1. v \in World /\ Consistent(v)
  BY DEF Good
<1>2. /\ u.alive = v.alive \union {o}
      /\ u.units = [v.units EXCEPT ![o] = U]
      /\ u.weight = [v.weight EXCEPT ![o] = W]
      /\ u.contains = v.contains /\ u.carrying = v.carrying
      /\ u.carryW = v.carryW /\ u.carryN = v.carryN /\ u.at = v.at
      /\ u.light = v.light /\ u.eq = v.eq /\ u.wornOn = v.wornOn
  BY <1>1 DEF Created, World, Drinkable
<1>3. U \in Nat /\ W \in Int
  BY ValueAssumption
<1>4. Unplaced(v, o) /\ \A x \in Obj : v.inObj[x] # o
  BY <1>1 DEF Consistent, DeadAreGone
<1> HIDE DEF u, U, W
<1>5. /\ v.weight \in [Obj -> Int] /\ u.weight \in [Obj -> Int]
      /\ v.units \in [Obj -> Int] /\ v.alive \subseteq Obj
      /\ v.contains \in [Obj -> SUBSET Obj] /\ v.carrying \in [Char -> SUBSET Obj]
      /\ None \notin Obj \union Char
  BY <1>1, <1>2, <1>3, PopulationAssumption DEF World
<1>6. ASSUME NEW y \in u.alive
      PROVE  u.weight[y] = Own(u)[y] + Total(u.contains[y], u.weight)
  <2>1. y \in Obj /\ (y = o \/ y \in v.alive)
    BY <1>2, <1>5
  <2>2. CASE y = o
    <3>1. u.contains[o] = {}
      BY <1>1, <1>2, <1>4, <1>5 DEF Consistent, NestingAgrees
    <3>2. Total(u.contains[o], u.weight) = 0
      BY <1>5, <3>1, SumOf
    <3>3. u.weight[o] = W /\ u.units[o] = U
      BY <1>2, <1>5
    <3>4. Own(u)[o] = W
      BY <3>3 DEF Own, Liquid, W, U, Drinkable
    <3>5. QED
      BY <1>3, <2>2, <3>2, <3>3, <3>4
  <2>3. CASE y # o
    <3>1. v.weight[y] = Own(v)[y] + Total(v.contains[y], v.weight)
      BY <2>1, <2>3 DEF Sound, Balanced, Weighed
    <3>2. o \notin v.contains[y] /\ v.contains[y] \in SUBSET Obj
      BY <1>1, <1>4, <1>5, <2>1 DEF Consistent, NestingAgrees, Unplaced
    <3>3. \A x \in v.contains[y] : u.weight[x] = v.weight[x]
      BY <1>2, <1>5, <3>2
    <3>4. Total(v.contains[y], u.weight) = Total(v.contains[y], v.weight)
      BY <1>5, <3>2, <3>3, SumSame
    <3>5. u.units[y] = v.units[y] /\ u.weight[y] = v.weight[y]
      BY <1>2, <1>5, <2>1, <2>3
    <3>6. Own(u)[y] = Own(v)[y]
      BY <2>1, <3>5 DEF Own, Liquid
    <3>7. QED
      BY <1>2, <3>1, <3>4, <3>5, <3>6
  <2>4. QED
    BY <2>2, <2>3
<1>7. ASSUME NEW d \in Char
      PROVE  /\ u.carryN[d] = Cardinality(u.carrying[d])
             /\ u.carryW[d] = Total(u.carrying[d], u.weight)
  <2>1. v.carryN[d] = Cardinality(v.carrying[d])
        /\ v.carryW[d] = Total(v.carrying[d], v.weight)
    BY DEF Sound, Balanced, Carried
  <2>2. o \notin v.carrying[d] /\ v.carrying[d] \in SUBSET Obj
    BY <1>1, <1>4, <1>5 DEF Consistent, InventoriesAgree, Unplaced
  <2>3. \A x \in v.carrying[d] : u.weight[x] = v.weight[x]
    BY <1>2, <1>5, <2>2
  <2>4. Total(v.carrying[d], u.weight) = Total(v.carrying[d], v.weight)
    BY <1>5, <2>2, <2>3, SumSame
  <2>5. QED
    BY <1>2, <2>1, <2>4
<1>8. Full(u)
  <2>1. SUFFICES ASSUME NEW x \in u.alive, Drinkable(x)
                 PROVE  u.units[x] >= 0 /\ (Sober => u.units[x] <= Capacity[x])
    BY DEF Full
  <2>2. CASE x = o
    <3>1. u.units[o] = U
      BY <1>2, <1>5
    <3>2. QED
      BY <1>3, <2>1, <2>2, <3>1 DEF Sober, U
  <2>3. CASE x # o
    BY <1>2, <1>5, <2>1, <2>3 DEF Sound, Full
  <2>4. QED
    BY <2>2, <2>3
<1>9. ASSUME Lit(v) PROVE Lit(u)
  <2>1. ASSUME NEW d \in Char PROVE Shines(u, d) = Shines(v, d)
    <3> DEFINE x == v.eq[d][LightPos]
    <3>1. LightPos \in Pos
      BY PopulationAssumption
    <3>2. x # o /\ x \in Obj \union {None}
      BY <1>1, <1>4, <1>5, <3>1 DEF Consistent, EquipmentAgrees, Unplaced, World
    <3> HIDE DEF x
    <3>3. IsLit(u, x) <=> IsLit(v, x)
      BY <1>2, <1>5, <3>2 DEF IsLit
    <3>4. QED
      BY <1>2, <3>3 DEF Shines, x
  <2>2. QED
    BY <1>2, <1>9, <2>1, LightStays
<1>10. QED
  BY <1>2, <1>6, <1>7, <1>8, <1>9
     DEF Sound, Balanced, Weighed, Carried, Dressed, u

(* make_corpse: the corpse weighs what was carried, and the body.          *)
LEMMA InCorpseSound ==
    ASSUME NEW v, NEW c \in Char, NEW k \in Obj, Good(v), k \notin v.alive,
           Kind[k] = "corpse", Sound(v)
    PROVE  Sound(InCorpse(v, c, k))
<1> DEFINE u == InCorpse(v, c, k)
           W == BodyWeight + v.carryW[c]
<1>1. v \in World /\ Consistent(v)
  BY DEF Good
<1>2. /\ u.alive = v.alive \union {k}
      /\ u.units = [v.units EXCEPT ![k] = 0]
      /\ u.weight = [v.weight EXCEPT ![k] = W]
      /\ u.contains = [v.contains EXCEPT ![k] = v.carrying[c]]
      /\ u.carrying = [v.carrying EXCEPT ![c] = {}]
      /\ u.carryW = [v.carryW EXCEPT ![c] = 0]
      /\ u.carryN = [v.carryN EXCEPT ![c] = 0]
      /\ u.at = v.at
      /\ u.light = v.light /\ u.eq = v.eq /\ u.wornOn = v.wornOn
  BY <1>1 DEF InCorpse, World
<1>3. W \in Int /\ BodyWeight \in Int /\ Empty[k] = BodyWeight
  BY <1>1, ValueAssumption, CorpseAssumption DEF World
<1>4. Unplaced(v, k) /\ \A x \in Obj : v.inObj[x] # k
  BY <1>1 DEF Consistent, DeadAreGone
<1> HIDE DEF u, W
<1>5. /\ v.weight \in [Obj -> Int] /\ u.weight \in [Obj -> Int]
      /\ v.units \in [Obj -> Int] /\ v.alive \subseteq Obj
      /\ v.contains \in [Obj -> SUBSET Obj] /\ v.carrying \in [Char -> SUBSET Obj]
      /\ v.carryW \in [Char -> Int] /\ v.carryN \in [Char -> Int]
      /\ None \notin Obj \union Char
  BY <1>1, <1>2, <1>3, PopulationAssumption DEF World
<1>6. ASSUME NEW d \in Char
      PROVE  /\ k \notin v.carrying[d]
             /\ v.carrying[d] \in SUBSET Obj
             /\ v.carryN[d] = Cardinality(v.carrying[d])
             /\ v.carryW[d] = Total(v.carrying[d], v.weight)
             /\ Total(v.carrying[d], u.weight) = Total(v.carrying[d], v.weight)
  <2>1. v.carryN[d] = Cardinality(v.carrying[d])
        /\ v.carryW[d] = Total(v.carrying[d], v.weight)
    BY DEF Sound, Balanced, Carried
  <2>2. k \notin v.carrying[d] /\ v.carrying[d] \in SUBSET Obj
    BY <1>1, <1>4, <1>5 DEF Consistent, InventoriesAgree, Unplaced
  <2>3. \A x \in v.carrying[d] : u.weight[x] = v.weight[x]
    BY <1>2, <1>5, <2>2
  <2>4. Total(v.carrying[d], u.weight) = Total(v.carrying[d], v.weight)
    BY <1>5, <2>2, <2>3, SumSame
  <2>5. QED
    BY <2>1, <2>2, <2>4
<1>7. ASSUME NEW y \in u.alive
      PROVE  u.weight[y] = Own(u)[y] + Total(u.contains[y], u.weight)
  <2>1. y \in Obj /\ (y = k \/ y \in v.alive)
    BY <1>2, <1>5
  <2>2. CASE y = k
    <3>1. u.contains[k] = v.carrying[c]
      BY <1>2, <1>5
    <3>2. Total(u.contains[k], u.weight) = v.carryW[c]
      BY <1>6, <3>1
    <3>3. u.weight[k] = W
      BY <1>2, <1>5
    <3>4. Own(u)[k] = Empty[k] + 0
      BY DEF Own, Liquid
    <3>5. v.carryW[c] \in Int
      BY <1>5
    <3>6. QED
      BY <1>3, <2>2, <3>2, <3>3, <3>4, <3>5 DEF W
  <2>3. CASE y # k
    <3>1. v.weight[y] = Own(v)[y] + Total(v.contains[y], v.weight)
      BY <2>1, <2>3 DEF Sound, Balanced, Weighed
    <3>2. k \notin v.contains[y] /\ v.contains[y] \in SUBSET Obj
      BY <1>1, <1>4, <1>5, <2>1 DEF Consistent, NestingAgrees, Unplaced
    <3>3. \A x \in v.contains[y] : u.weight[x] = v.weight[x]
      BY <1>2, <1>5, <3>2
    <3>4. Total(v.contains[y], u.weight) = Total(v.contains[y], v.weight)
      BY <1>5, <3>2, <3>3, SumSame
    <3>5. u.units[y] = v.units[y] /\ u.weight[y] = v.weight[y]
          /\ u.contains[y] = v.contains[y]
      BY <1>2, <1>5, <2>1, <2>3
    <3>6. Own(u)[y] = Own(v)[y]
      BY <2>1, <3>5 DEF Own, Liquid
    <3>7. QED
      BY <3>1, <3>4, <3>5, <3>6
  <2>4. QED
    BY <2>2, <2>3
<1>8. ASSUME NEW d \in Char
      PROVE  /\ u.carryN[d] = Cardinality(u.carrying[d])
             /\ u.carryW[d] = Total(u.carrying[d], u.weight)
  <2>1. CASE d = c
    <3>1. u.carrying[c] = {} /\ u.carryN[c] = 0 /\ u.carryW[c] = 0
      BY <1>2, <1>5
    <3>2. Total({}, u.weight) = 0
      BY <1>5, SumOf
    <3>3. Cardinality({}) = 0
      BY FS_EmptySet
    <3>4. QED
      BY <2>1, <3>1, <3>2, <3>3
  <2>2. CASE d # c
    <3>1. u.carrying[d] = v.carrying[d] /\ u.carryN[d] = v.carryN[d]
          /\ u.carryW[d] = v.carryW[d]
      BY <1>2, <1>5, <2>2
    <3>2. QED
      BY <1>6, <3>1
  <2>3. QED
    BY <2>1, <2>2
<1>9. Full(u)
  BY <1>2, <1>5 DEF Sound, Full, Drinkable
<1>10. ASSUME Lit(v) PROVE Lit(u)
  <2>1. ASSUME NEW d \in Char PROVE Shines(u, d) = Shines(v, d)
    <3> DEFINE x == v.eq[d][LightPos]
    <3>1. LightPos \in Pos
      BY PopulationAssumption
    <3>2. x # k /\ x \in Obj \union {None}
      BY <1>1, <1>4, <1>5, <3>1 DEF Consistent, EquipmentAgrees, Unplaced, World
    <3> HIDE DEF x
    <3>3. IsLit(u, x) <=> IsLit(v, x)
      BY <1>2, <1>5, <3>2 DEF IsLit
    <3>4. QED
      BY <1>2, <3>3 DEF Shines, x
  <2>2. QED
    BY <1>2, <1>10, <2>1, LightStays
<1>11. QED
  BY <1>2, <1>7, <1>8, <1>9, <1>10
     DEF Sound, Balanced, Weighed, Carried, Dressed, u

-----------------------------------------------------------------------------
(* char_from_room and char_to_room take the light along.                   *)
LEMMA DarkSound ==
    ASSUME NEW v, NEW u, Sound(v), u.alive = v.alive, u.weight = v.weight,
           u.units = v.units, u.contains = v.contains, u.carrying = v.carrying,
           u.carryW = v.carryW, u.carryN = v.carryN, u.wornOn = v.wornOn,
           Wand = {} => Lit(u)
    PROVE  Sound(u)
<1>1. Own(u) = Own(v)
  BY DEF Own, Liquid
<1>2. Balanced(u, Own(u))
  BY <1>1, SameBalanced DEF Sound
<1>3. QED
  BY <1>2 DEF Sound, Dressed, Full

LEMMA LeaveRoomSound ==
    ASSUME NEW v, NEW c \in Char, Good(v), Sound(v)
    PROVE  Sound(LeaveRoom(v, c))
<1> DEFINE u == LeaveRoom(v, c)
           o == v.eq[c][LightPos]
           L == Lighting(v, c, LightPos, o, -1)
<1>1. v \in World
  BY DEF Good
<1>2. /\ u.alive = v.alive /\ u.weight = v.weight /\ u.units = v.units
      /\ u.contains = v.contains /\ u.carrying = v.carrying
      /\ u.carryW = v.carryW /\ u.carryN = v.carryN
      /\ u.eq = v.eq /\ u.wornOn = v.wornOn
      /\ u.at = [v.at EXCEPT ![c] = None]
      /\ u.light = L
  BY <1>1 DEF LeaveRoom, World
<1> HIDE DEF u
<1>3. ASSUME Lit(v) PROVE Lit(u)
  <2>1. \A x : IsLit(u, x) <=> IsLit(v, x)
    BY <1>2 DEF IsLit
  <2>2. v.at \in [Char -> Room \union {None}]
    BY <1>1 DEF World
  <2>3. \A d \in Char \ {c} : Shines(u, d) = Shines(v, d)
    BY <1>2, <2>1, <2>2 DEF Shines
  <2>4. Shines(u, c) = None
    BY <1>2, <2>2 DEF Shines
  <2>5. ASSUME NEW r \in Room
        PROVE  u.light[r] = v.light[r] - Glow(v, c, r) + Glow(u, c, r)
    <3>1. L[r] = v.light[r] + (IF LightPos = LightPos /\ IsLit(v, o) /\ v.at[c] = r
                               THEN -1 ELSE 0)
      BY <1>1, LightingIs
    <3>2. v.light[r] \in Int /\ r # None
      BY <1>1, PopulationAssumption DEF World
    <3>3. Glow(u, c, r) = 0
      BY <2>4, <3>2 DEF Glow
    <3>4. Glow(v, c, r) = IF IsLit(v, o) /\ v.at[c] = r THEN 1 ELSE 0
      BY <3>2 DEF Glow, Shines
    <3> HIDE DEF L
    <3>5. QED
      BY <1>2, <3>1, <3>2, <3>3, <3>4
  <2>6. QED
    BY <1>1, <1>3, <2>3, <2>5, LightMoved
<1>4. Wand = {} => Lit(u)
  BY <1>3 DEF Sound
<1>5. QED
  BY <1>2, <1>4, DarkSound DEF u

LEMMA EnterRoomSound ==
    ASSUME NEW v, NEW c \in Char, NEW q \in Room, Good(v), v.at[c] = None,
           Sound(v)
    PROVE  Sound(EnterRoom(v, c, q))
<1> DEFINE u  == EnterRoom(v, c, q)
           v1 == [v EXCEPT !.at[c] = q]
           o  == v.eq[c][LightPos]
           L  == Lighting(v1, c, LightPos, o, 1)
<1>1. v \in World
  BY DEF Good
<1>2. v1 \in World /\ v1.light = v.light /\ v1.at = [v.at EXCEPT ![c] = q]
      /\ v1.units = v.units
  BY <1>1 DEF World
<1>3. /\ u.alive = v.alive /\ u.weight = v.weight /\ u.units = v.units
      /\ u.contains = v.contains /\ u.carrying = v.carrying
      /\ u.carryW = v.carryW /\ u.carryN = v.carryN
      /\ u.eq = v.eq /\ u.wornOn = v.wornOn
      /\ u.at = [v.at EXCEPT ![c] = q]
      /\ u.light = L
  BY <1>1 DEF EnterRoom, World
<1> HIDE DEF u, v1
<1>4. ASSUME Lit(v) PROVE Lit(u)
  <2>1. \A x : (IsLit(u, x) <=> IsLit(v, x)) /\ (IsLit(v1, x) <=> IsLit(v, x))
    BY <1>2, <1>3 DEF IsLit
  <2>2. v.at \in [Char -> Room \union {None}]
    BY <1>1 DEF World
  <2>3. \A d \in Char \ {c} : Shines(u, d) = Shines(v, d)
    BY <1>3, <2>1, <2>2 DEF Shines
  <2>4. Shines(v, c) = None
    BY DEF Shines
  <2>5. ASSUME NEW r \in Room
        PROVE  u.light[r] = v.light[r] - Glow(v, c, r) + Glow(u, c, r)
    <3>1. L[r] = v1.light[r] + (IF LightPos = LightPos /\ IsLit(v1, o)
                                    /\ v1.at[c] = r
                                THEN 1 ELSE 0)
      <4>1. v1 \in World /\ 1 \in Int
        BY <1>2
      <4>2. QED
        BY <4>1, LightingIs
    <3>2. v.light[r] \in Int /\ r # None
      BY <1>1, PopulationAssumption DEF World
    <3>3. Glow(v, c, r) = 0
      BY <2>4, <3>2 DEF Glow
    <3>4. v1.at[c] = q /\ u.at[c] = q
      BY <1>2, <1>3, <2>2
    <3>5. Glow(u, c, r) = IF IsLit(v, o) /\ q = r THEN 1 ELSE 0
      BY <1>3, <2>1, <3>2, <3>4 DEF Glow, Shines
    <3> HIDE DEF L
    <3>6. QED
      BY <1>2, <1>3, <2>1, <3>1, <3>2, <3>3, <3>4, <3>5
  <2>6. QED
    BY <1>1, <1>4, <2>3, <2>5, LightMoved
<1>5. Wand = {} => Lit(u)
  BY <1>4 DEF Sound
<1>6. QED
  BY <1>3, <1>5, DarkSound DEF u

(* An hour of light is gone.                                               *)
LEMMA BurntSound ==
    ASSUME NEW v, NEW c \in Char, Good(v), v.at[c] # None,
           IsLit(v, v.eq[c][LightPos]), Sound(v)
    PROVE  Sound(Burnt(v, c))
<1> DEFINE u == Burnt(v, c)
           o == v.eq[c][LightPos]
           q == v.at[c]
           U == v.units[o] - 1
           L == IF v.units[o] = 1 THEN v.light[q] - 1 ELSE v.light[q]
<1>1. v \in World /\ Consistent(v) /\ LightPos \in Pos
  BY PopulationAssumption DEF Good
<1>2. o \in Obj /\ Kind[o] = "light" /\ v.units[o] # 0 /\ q \in Room
      /\ q # None
  BY <1>1, PopulationAssumption DEF IsLit, World
<1>3. /\ u.alive = v.alive /\ u.weight = v.weight
      /\ u.units = [v.units EXCEPT ![o] = U]
      /\ u.contains = v.contains /\ u.carrying = v.carrying
      /\ u.carryW = v.carryW /\ u.carryN = v.carryN
      /\ u.eq = v.eq /\ u.wornOn = v.wornOn /\ u.at = v.at
      /\ u.light = [v.light EXCEPT ![q] = L]
  BY <1>1 DEF Burnt, World
<1>4. v.units \in [Obj -> Int] /\ v.light \in [Room -> Int]
      /\ v.eq \in [Char -> [Pos -> Obj \union {None}]]
      /\ v.alive \subseteq Obj /\ None \notin Obj
  BY <1>1, PopulationAssumption DEF World
<1>5. \A d \in Char : v.eq[d][LightPos] = o => d = c
  BY <1>1, <1>2 DEF Consistent, EquipmentAgrees
<1>6. \A x \in Obj \ {o} : u.units[x] = v.units[x]
  BY <1>3, <1>4
<1>7. u.units[o] = U /\ U \in Int /\ (U = 0 <=> v.units[o] = 1)
  BY <1>2, <1>3, <1>4
<1> HIDE DEF u, U
<1>8. Own(u) = Own(v)
  <2>1. \A x \in Obj : Liquid(u, x) = Liquid(v, x)
    BY <1>2, <1>6 DEF Liquid
  <2>2. QED
    BY <2>1 DEF Own
<1>9. Balanced(u, Own(u))
  BY <1>3, <1>8, SameBalanced DEF Sound
<1>10. Full(u) /\ Dressed(u)
  BY <1>2, <1>3, <1>4, <1>6 DEF Sound, Full, Dressed, Drinkable
<1>11. ASSUME Lit(v) PROVE Lit(u)
  <2>1. \A x \in (Obj \union {None}) \ {o} : IsLit(u, x) <=> IsLit(v, x)
    BY <1>6 DEF IsLit
  <2>2. ASSUME NEW d \in Char \ {c} PROVE Shines(u, d) = Shines(v, d)
    <3> DEFINE x == v.eq[d][LightPos]
    <3>1. x \in (Obj \union {None}) \ {o}
      BY <1>1, <1>4, <1>5
    <3> HIDE DEF x
    <3>2. IsLit(u, x) <=> IsLit(v, x)
      BY <2>1, <3>1
    <3>3. QED
      BY <1>3, <3>2 DEF Shines, x
  <2>3. ASSUME NEW r \in Room
        PROVE  u.light[r] = v.light[r] - Glow(v, c, r) + Glow(u, c, r)
    <3>1. v.light[r] \in Int /\ r # None
      BY <1>4, PopulationAssumption
    <3>2. Glow(v, c, r) = IF q = r THEN 1 ELSE 0
      BY DEF Glow, Shines
    <3>3. IsLit(u, o) <=> v.units[o] # 1
      BY <1>2, <1>4, <1>7 DEF IsLit
    <3>4. Glow(u, c, r) = IF v.units[o] # 1 /\ q = r THEN 1 ELSE 0
      BY <1>3, <3>1, <3>3 DEF Glow, Shines
    <3>5. u.light[r] = IF r = q THEN L ELSE v.light[r]
      BY <1>3, <1>4
    <3>6. QED
      BY <3>1, <3>2, <3>4, <3>5
  <2>4. QED
    BY <1>1, <1>11, <2>2, <2>3, LightMoved
<1>12. QED
  BY <1>9, <1>10, <1>11 DEF Sound, u

-----------------------------------------------------------------------------
(* Nothing weighs less than nothing, nor less than the liquid in it: a     *)
(* thing of negative weight would have one in it.                          *)
LEMMA Smallest ==
    ASSUME NEW T \in SUBSET Nat, T # {}
    PROVE  \E x \in T : \A y \in T : x <= y
<1> DEFINE P == {n \in Nat : \A x \in T : n <= x}
<1>1. SUFFICES ASSUME \A x \in T : \E y \in T : ~(x <= y) PROVE FALSE
  OBVIOUS
<1>2. 0 \in P
  OBVIOUS
<1>3. ASSUME NEW n \in P PROVE n + 1 \in P
  BY <1>1, <1>3
<1>4. P = Nat
  BY <1>2, <1>3, SetInduction
<1>5. PICK x \in T : TRUE
  OBVIOUS
<1>6. x \in Nat /\ x + 1 \in Nat
  BY <1>5
<1>7. x + 1 \in P
  <2> HIDE DEF P
  <2>1. QED
    BY <1>4, <1>6
<1>8. x + 1 <= x
  BY <1>5, <1>7
<1>9. QED
  BY <1>6, <1>8

LEMMA OwnNotNegative ==
    ASSUME NEW v \in World, Full(v), NEW o \in v.alive
    PROVE  /\ Own(v)[o] \in Int /\ Own(v)[o] >= 0
           /\ Drinkable(o) => Own(v)[o] >= v.units[o] /\ v.units[o] \in Int
<1>1. o \in Obj
  BY DEF World
<1>2. Empty[o] \in Nat /\ v.units[o] \in Int
  BY <1>1, ValueAssumption DEF World
<1>3. Own(v)[o] = Empty[o] + IF Drinkable(o) THEN v.units[o] ELSE 0
  BY <1>1 DEF Own, Liquid, Drinkable
<1>4. Drinkable(o) => v.units[o] >= 0
  BY DEF Full
<1>5. QED
  BY <1>2, <1>3, <1>4

LEMMA WeightNotNegative ==
    ASSUME NEW v, Good(v), Climbs(v), Sound(v), NEW o \in v.alive
    PROVE  v.weight[o] >= 0
<1> DEFINE N == {x \in v.alive : ~(v.weight[x] >= 0)}
           T == {Cardinality(Inside(v, x)) : x \in N}
<1>1. v \in World /\ Consistent(v) /\ v.alive \subseteq Obj
      /\ v.weight \in [Obj -> Int] /\ v.contains \in [Obj -> SUBSET Obj]
  BY DEF Good, World
<1>2. SUFFICES ASSUME N # {} PROVE FALSE
  OBVIOUS
<1>3. \A x \in Obj : Inside(v, x) \in SUBSET Obj
                     /\ Cardinality(Inside(v, x)) \in Nat
  BY InsideClosed, SizeOf
<1>4. T \in SUBSET Nat /\ T # {}
  BY <1>1, <1>2, <1>3
<1>5. PICK m \in T : \A y \in T : m <= y
  BY <1>4, Smallest
<1>6. PICK x \in N : m = Cardinality(Inside(v, x))
  OBVIOUS
<1>7. x \in Obj /\ x \in v.alive
  BY <1>1
<1>8. ASSUME NEW y \in v.contains[x] PROVE v.weight[y] >= 0
  <2>1. y \in Obj /\ v.inObj[y] = x /\ y \in v.alive
    <3>1. y \in Obj
      BY <1>1, <1>7
    <3>2. v.inObj[y] = x
      BY <3>1, <1>7, <1>8, ListedAlive
    <3>3. x # None
      BY <1>7, PopulationAssumption
    <3>4. QED
      BY <3>1, <3>2, <3>3, ListedAlive
  <2>2. y \in Inside(v, x)
    BY <1>7, <2>1, InsideParent
  <2>3. Inside(v, y) \subseteq Inside(v, x)
    BY <1>7, <2>2, InsideTransitive
  <2>4. x \notin Inside(v, y)
    <3>1. SUFFICES ASSUME x \in Inside(v, y) PROVE FALSE
      OBVIOUS
    <3>2. x = y
      BY <1>7, <2>1, <2>2, <3>1, InsideAsymmetric
    <3>3. {x} \in SUBSET Obj /\ \A z \in {x} : v.inObj[z] \in {x}
      BY <1>7, <2>1, <3>2
    <3>4. QED
      BY <3>3 DEF Climbs
  <2>5. Inside(v, y) \subseteq Inside(v, x) \ {x}
    BY <2>3, <2>4
  <2>6. Inside(v, x) \ {x} \in SUBSET Obj /\ x \in Inside(v, x)
    BY <1>3, <1>7, InsideClosed
  <2>7. Cardinality(Inside(v, x) \ {x}) = Cardinality(Inside(v, x)) - 1
    BY <1>3, <1>7, <2>6, SizeOf
  <2>8. Cardinality(Inside(v, y)) <= Cardinality(Inside(v, x) \ {x})
    BY <2>5, <2>6, SizeOf, FS_Subset
  <2>9. ~(m <= Cardinality(Inside(v, y)))
    BY <1>3, <1>6, <1>7, <2>1, <2>7, <2>8
  <2>10. y \notin N
    BY <1>5, <2>9
  <2>11. QED
    BY <2>1, <2>10
<1>9. v.contains[x] \in SUBSET Obj
  BY <1>1, <1>7
<1>10. Total(v.contains[x], v.weight) >= 0
       /\ Total(v.contains[x], v.weight) \in Int
  BY <1>1, <1>8, <1>9, SumNotNegative, SumOf
<1>11. v.weight[x] = Own(v)[x] + Total(v.contains[x], v.weight)
  BY <1>7 DEF Sound, Balanced, Weighed
<1>12. Own(v)[x] \in Int /\ Own(v)[x] >= 0
  BY <1>1, <1>7, OwnNotNegative DEF Sound
<1>13. ~(v.weight[x] >= 0)
  BY <1>6
<1>14. QED
  BY <1>10, <1>11, <1>12, <1>13

LEMMA WeightOfLiquid ==
    ASSUME NEW v, Good(v), Climbs(v), Sound(v), NEW o \in v.alive
    PROVE  Drinkable(o) => v.units[o] <= v.weight[o]
<1>1. v \in World /\ Consistent(v) /\ o \in Obj
      /\ v.weight \in [Obj -> Int] /\ v.contains \in [Obj -> SUBSET Obj]
  BY DEF Good, World
<1>2. ASSUME NEW y \in v.contains[o] PROVE v.weight[y] >= 0
  <2>1. y \in Obj
    BY <1>1
  <2>2. v.inObj[y] = o
    BY <2>1, <1>1, <1>2, ListedAlive
  <2>3. y \in v.alive
    BY <1>1, <2>1, <2>2, ListedAlive, PopulationAssumption
  <2>4. QED
    BY <2>3, WeightNotNegative
<1>3. v.contains[o] \in SUBSET Obj
  BY <1>1
<1>4. Total(v.contains[o], v.weight) >= 0
      /\ Total(v.contains[o], v.weight) \in Int
  BY <1>1, <1>2, <1>3, SumNotNegative, SumOf
<1>5. v.weight[o] = Own(v)[o] + Total(v.contains[o], v.weight)
  BY DEF Sound, Balanced, Weighed
<1>6. /\ Own(v)[o] \in Int
      /\ Drinkable(o) => Own(v)[o] >= v.units[o] /\ v.units[o] \in Int
  BY <1>1, OwnNotNegative DEF Sound
<1>7. QED
  BY <1>4, <1>5, <1>6

-----------------------------------------------------------------------------
(* weight_change_object, of what is carried or lies in a room.             *)
Heavier(e, o, n) == [e EXCEPT ![o] = @ + n]

LEMMA HeavierBalanced ==
    ASSUME NEW v, Good(v), NEW o \in Obj, v.inObj[o] = None,
           v.carriedBy[o] = None, NEW n \in Int, NEW e \in [Obj -> Int],
           Balanced(v, e)
    PROVE  LET u == [v EXCEPT !.weight[o] = @ + n]
           IN  Balanced(u, Heavier(e, o, n)) /\ Calm(u, v)
<1> DEFINE u == [v EXCEPT !.weight[o] = @ + n]
           e1 == Heavier(e, o, n)
           W  == v.weight[o] + n
<1>1. v \in World /\ Consistent(v)
  BY DEF Good
<1>2. /\ u.weight = [v.weight EXCEPT ![o] = W]
      /\ u.alive = v.alive
      /\ u.contains = v.contains /\ u.carrying = v.carrying
      /\ u.carryW = v.carryW /\ u.carryN = v.carryN
      /\ Calm(u, v)
  BY <1>1 DEF World, Calm
<1>3. /\ v.weight \in [Obj -> Int] /\ v.alive \subseteq Obj
      /\ v.contains \in [Obj -> SUBSET Obj] /\ v.carrying \in [Char -> SUBSET Obj]
      /\ None \notin Obj /\ None \notin Char
  BY <1>1, PopulationAssumption DEF World
<1>4. W \in Int /\ v.weight[o] \in Int
  BY <1>3
<1>5. u.weight \in [Obj -> Int]
  BY <1>2, <1>3, <1>4
<1>6. \A x \in Obj \ {o} : u.weight[x] = v.weight[x] /\ e1[x] = e[x]
  BY <1>2, <1>3 DEF Heavier
<1>7. u.weight[o] = W /\ e1[o] = e[o] + n /\ e[o] \in Int
  BY <1>2, <1>3 DEF Heavier
<1> HIDE DEF u, e1
<1>8. ASSUME NEW y \in u.alive
      PROVE  u.weight[y] = e1[y] + Total(u.contains[y], u.weight)
  <2>1. y \in Obj /\ y \in v.alive
    BY <1>2, <1>3
  <2>2. v.weight[y] = e[y] + Total(v.contains[y], v.weight)
    BY <2>1 DEF Balanced, Weighed
  <2>3. o \notin v.contains[y] /\ v.contains[y] \in SUBSET Obj
    BY <1>1, <1>3, <2>1 DEF Consistent, NestingAgrees
  <2>4. \A x \in v.contains[y] : u.weight[x] = v.weight[x]
    BY <1>6, <2>3
  <2>5. Total(v.contains[y], u.weight) = Total(v.contains[y], v.weight)
    BY <1>3, <1>5, <2>3, <2>4, SumSame
  <2>6. Total(v.contains[y], v.weight) \in Int
    BY <1>3, <2>3, SumOf
  <2>7. CASE y = o
    BY <1>2, <1>4, <1>7, <2>2, <2>5, <2>6, <2>7
  <2>8. CASE y # o
    BY <1>2, <1>6, <2>1, <2>2, <2>5, <2>8
  <2>9. QED
    BY <2>7, <2>8
<1>9. ASSUME NEW d \in Char
      PROVE  /\ u.carryN[d] = Cardinality(u.carrying[d])
             /\ u.carryW[d] = Total(u.carrying[d], u.weight)
  <2>1. v.carryN[d] = Cardinality(v.carrying[d])
        /\ v.carryW[d] = Total(v.carrying[d], v.weight)
    BY DEF Balanced, Carried
  <2>2. o \notin v.carrying[d] /\ v.carrying[d] \in SUBSET Obj
    BY <1>1, <1>3 DEF Consistent, InventoriesAgree
  <2>3. \A x \in v.carrying[d] : u.weight[x] = v.weight[x]
    BY <1>6, <2>2
  <2>4. Total(v.carrying[d], u.weight) = Total(v.carrying[d], v.weight)
    BY <1>3, <1>5, <2>2, <2>3, SumSame
  <2>5. QED
    BY <1>2, <2>1, <2>4
<1>10. Balanced(u, e1) /\ Calm(u, v)
  BY <1>2, <1>8, <1>9 DEF Balanced, Weighed, Carried
<1>11. QED
  BY <1>10 DEF u, e1

LEMMA CalmTwice ==
    ASSUME NEW u, NEW v, NEW t, Calm(u, v), Calm(t, u)
    PROVE  Calm(t, v)
BY DEF Calm

LEMMA WeightChangedBalanced ==
    ASSUME NEW v, Good(v), NEW o \in Obj,
           v.inRoom[o] # None \/ v.carriedBy[o] # None,
           NEW n \in Int, NEW e \in [Obj -> Int], Balanced(v, e)
    PROVE  Balanced(WeightChanged(v, o, n), Heavier(e, o, n))
           /\ Calm(WeightChanged(v, o, n), v)
<1>1. v \in World /\ OnePlaceOnly(v, o)
  BY DEF Good, Consistent
<1>2. CASE v.inRoom[o] # None
  <2>1. v.inObj[o] = None /\ v.carriedBy[o] = None
    BY <1>1, <1>2 DEF OnePlaceOnly
  <2> DEFINE u == [v EXCEPT !.weight[o] = @ + n]
  <2>2. WeightChanged(v, o, n) = u
    BY <1>2 DEF WeightChanged
  <2>3. Balanced(u, Heavier(e, o, n)) /\ Calm(u, v)
    BY <2>1, HeavierBalanced
  <2>4. QED
    BY <2>2, <2>3
<1>3. CASE v.inRoom[o] = None
  <2> DEFINE c  == v.carriedBy[o]
             v1 == FromChar(v, o)
             v2 == [v1 EXCEPT !.weight[o] = @ + n]
             u  == ToChar(v2, o, c)
  <2>1. c \in Char /\ c # None
    BY <1>1, <1>3 DEF World
  <2>2. WeightChanged(v, o, n) = u
    BY <1>3, <2>1 DEF WeightChanged
  <2>3. Held(v1, o) /\ Balanced(v1, e) /\ Calm(v1, v)
    BY <2>1, FromCharHeld, FromCharBalanced
  <2> HIDE DEF c, v1
  <2>4. Good(v1) /\ v1.inObj[o] = None /\ v1.carriedBy[o] = None
    BY <2>3 DEF Held, Unplaced
  <2>5. Balanced(v2, Heavier(e, o, n)) /\ Calm(v2, v1)
    BY <2>3, <2>4, HeavierBalanced
  <2>6. Held(v2, o)
    BY <2>3, <2>4, HeavierGood
  <2> HIDE DEF v2
  <2>7. Balanced(u, Heavier(e, o, n)) /\ Calm(u, v2)
    BY <2>1, <2>5, <2>6, ToCharBalanced
  <2> HIDE DEF u
  <2>8. Calm(u, v)
    BY <2>3, <2>5, <2>7, CalmTwice
  <2>9. QED
    BY <2>2, <2>7, <2>8
<1>4. QED
  BY <1>2, <1>3

(* Units that change along with the weight.                                *)
LEMMA UnitsSound ==
    ASSUME NEW v, Good(v), Sound(v), NEW u \in World, Calm(u, v),
           NEW e \in [Obj -> Int], Balanced(u, e), NEW U \in [Obj -> Int],
           \A x \in Obj : e[x] = Empty[x] + (IF Drinkable(x) THEN U[x] ELSE 0),
           \A x \in Obj : Drinkable(x) \/ U[x] = v.units[x],
           \A x \in v.alive : Drinkable(x) =>
                U[x] >= 0 /\ (Sober => U[x] <= Capacity[x])
    PROVE  Sound([u EXCEPT !.units = U])
<1> DEFINE t == [u EXCEPT !.units = U]
<1>1. /\ t.alive = u.alive /\ t.weight = u.weight /\ t.units = U
      /\ t.contains = u.contains /\ t.carrying = u.carrying
      /\ t.carryW = u.carryW /\ t.carryN = u.carryN
      /\ t.eq = u.eq /\ t.wornOn = u.wornOn /\ t.at = u.at /\ t.light = u.light
  BY DEF World
<1> HIDE DEF t
<1>2. v \in World /\ v.alive \subseteq Obj
  BY DEF Good, World
<1>3. Balanced(t, e)
  BY <1>1, SameBalanced
<1>4. \A x \in Obj : Own(t)[x] = e[x]
  BY <1>1 DEF Own, Liquid, Drinkable
<1>5. Balanced(t, Own(t))
  BY <1>1, <1>2, <1>3, <1>4, BalancedOwn DEF Calm
<1>6. Dressed(t) /\ Full(t)
  BY <1>1 DEF Calm, Sound, Dressed, Full
<1>7. ASSUME Lit(v) PROVE Lit(t)
  <2>1. ASSUME NEW d \in Char PROVE Shines(t, d) = Shines(v, d)
    <3> DEFINE x == v.eq[d][LightPos]
    <3>1. x \in Obj \union {None}
      BY <1>2, PopulationAssumption DEF World
    <3> HIDE DEF x
    <3>2. IsLit(t, x) <=> IsLit(v, x)
      BY <1>1, <3>1 DEF IsLit, Drinkable
    <3>3. QED
      BY <1>1, <3>2 DEF Shines, Calm, x
  <2>2. QED
    BY <1>1, <1>7, <2>1, LightStays DEF Calm
<1>8. QED
  BY <1>5, <1>6, <1>7 DEF Sound, t

(* Drinking, pouring out and creating water.                               *)
LEMMA LiquidSound ==
    ASSUME NEW v, Good(v), Sound(v), NEW o \in Obj, Drinkable(o),
           v.inRoom[o] # None \/ v.carriedBy[o] # None,
           NEW n \in Int, NEW m, m = v.units[o] + n, m >= 0,
           Sober => m <= Capacity[o]
    PROVE  /\ Sound([WeightChanged(v, o, n) EXCEPT !.units[o] = m])
           /\ WeightChanged(v, o, n).units = v.units
<1> DEFINE u == WeightChanged(v, o, n)
           e == Heavier(Own(v), o, n)
           U == [v.units EXCEPT ![o] = m]
<1>1. v \in World /\ v.units \in [Obj -> Int] /\ v.alive \subseteq Obj
  BY DEF Good, World
<1>2. Own(v) \in [Obj -> Int]
  BY <1>1, OwnType
<1>3. Balanced(u, e) /\ Calm(u, v)
  BY <1>2, WeightChangedBalanced DEF Sound
<1>4. u \in World
  BY WeightChangedGood DEF Good
<1>5. m \in Int
  BY <1>1
<1>6. U \in [Obj -> Int]
  BY <1>1, <1>5
<1>7. e \in [Obj -> Int]
  BY <1>2 DEF Heavier
<1>8. e[o] = Own(v)[o] + n /\ \A x \in Obj \ {o} : e[x] = Own(v)[x]
  BY <1>2 DEF Heavier
<1>9. U[o] = m /\ \A x \in Obj \ {o} : U[x] = v.units[x]
  BY <1>1
<1>10. \A x \in Obj : Own(v)[x] = Empty[x]
                         + (IF Drinkable(x) THEN v.units[x] ELSE 0)
  BY DEF Own, Liquid, Drinkable
<1> HIDE DEF u, e, U
<1>11. ASSUME NEW x \in Obj
       PROVE  e[x] = Empty[x] + (IF Drinkable(x) THEN U[x] ELSE 0)
  <2>1. CASE x = o
    <3>1. Empty[o] \in Int /\ v.units[o] \in Int
      BY <1>1, ValueAssumption
    <3>2. QED
      BY <1>8, <1>9, <1>10, <2>1, <3>1
  <2>2. CASE x # o
    BY <1>8, <1>9, <1>10, <2>2
  <2>3. QED
    BY <2>1, <2>2
<1>12. \A x \in Obj : Drinkable(x) \/ U[x] = v.units[x]
  BY <1>9
<1>13. ASSUME NEW x \in v.alive, Drinkable(x)
       PROVE  U[x] >= 0 /\ (Sober => U[x] <= Capacity[x])
  <2>1. CASE x = o
    BY <1>9, <2>1
  <2>2. CASE x # o
    BY <1>1, <1>9, <1>13, <2>2 DEF Sound, Full
  <2>3. QED
    BY <2>1, <2>2
<1>14. Sound([u EXCEPT !.units = U])
  BY <1>3, <1>4, <1>6, <1>7, <1>11, <1>12, <1>13, UnitsSound
<1>15. [u EXCEPT !.units[o] = m] = [u EXCEPT !.units = U]
  BY <1>3 DEF Calm, U
<1>16. QED
  BY <1>3, <1>14, <1>15 DEF Calm, u

LEMMA DrunkSound ==
    ASSUME NEW v, Good(v), Climbs(v), Sound(v), NEW o \in v.alive, Drinkable(o),
           v.inRoom[o] # None \/ v.carriedBy[o] # None,
           NEW n \in Int, n >= -1, Sober => n >= 0
    PROVE  Sound(Drunk(v, o, n)) /\ Sound(Emptied(v, o))
<1> DEFINE a == Lesser(n, v.units[o])
           b == -Lesser(a, v.weight[o])
           z == -v.units[o]
           u == WeightChanged(v, o, b)
<1>1. o \in Obj /\ v.units[o] \in Int /\ v.weight[o] \in Int
      /\ Capacity[o] \in Int
  BY ValueAssumption DEF Good, World
<1>2. v.units[o] >= 0 /\ v.units[o] <= v.weight[o]
      /\ (Sober => v.units[o] <= Capacity[o])
  BY WeightOfLiquid DEF Sound, Full
<1>3. a \in Int /\ a <= v.units[o] /\ (Sober => a >= 0)
  BY <1>1, <1>2 DEF Lesser
<1>4. Drunk(v, o, n) = [u EXCEPT !.units[o] = @ - a]
      /\ Emptied(v, o) = [WeightChanged(v, o, z) EXCEPT !.units[o] = 0]
  BY DEF Drunk, Emptied
<1> HIDE DEF a
<1>5. b = -a /\ b \in Int /\ z \in Int
  BY <1>1, <1>2, <1>3 DEF Lesser
<1>6. v.units[o] - a = v.units[o] + b /\ v.units[o] - a >= 0
      /\ (Sober => v.units[o] - a <= Capacity[o])
  BY <1>1, <1>2, <1>3, <1>5
<1>7. 0 = v.units[o] + z /\ (Sober => 0 <= Capacity[o])
  BY <1>1, <1>2, ValueAssumption
<1> HIDE DEF b, z
<1>8. /\ Sound([u EXCEPT !.units[o] = v.units[o] - a])
      /\ u.units = v.units
  BY <1>1, <1>5, <1>6, LiquidSound
<1>9. Sound([WeightChanged(v, o, z) EXCEPT !.units[o] = 0])
  BY <1>1, <1>5, <1>7, LiquidSound
<1> HIDE DEF u
<1>10. [u EXCEPT !.units[o] = @ - a] = [u EXCEPT !.units[o] = v.units[o] - a]
  BY <1>8
<1>11. QED
  BY <1>4, <1>8, <1>9, <1>10

(* Pouring from one into the other.                                        *)
LEMMA PouredSound ==
    ASSUME NEW v, Good(v), Climbs(v), Sound(v), NEW o \in v.alive, Drinkable(o),
           NEW t \in v.alive, Drinkable(t), o # t,
           v.inRoom[o] # None \/ v.carriedBy[o] # None,
           v.inRoom[t] # None \/ v.carriedBy[t] # None,
           v.units[t] < Capacity[t]
    PROVE  Sound(Poured(v, o, t))
<1> DEFINE m  == Lesser(Capacity[t] - v.units[t], v.units[o])
           k  == -m
           e1 == Heavier(Own(v), o, k)
           e2 == Heavier(e1, t, m)
           v1 == WeightChanged(v, o, k)
           v2 == WeightChanged(v1, t, m)
           U  == [x \in Obj |-> IF x = o THEN v.units[o] - m
                                ELSE IF x = t THEN v.units[t] + m ELSE v.units[x]]
<1>1. /\ v \in World /\ o \in Obj /\ t \in Obj /\ v.units \in [Obj -> Int]
      /\ v.alive \subseteq Obj
  BY DEF Good, World
<1>2. /\ v.units[o] \in Int /\ v.units[t] \in Int /\ Capacity[t] \in Int
      /\ Capacity[o] \in Int /\ v.units[o] >= 0 /\ v.units[t] >= 0
      /\ (Sober => v.units[o] <= Capacity[o])
  BY <1>1, ValueAssumption DEF Sound, Full
<1>3. /\ m \in Int /\ k \in Int /\ m >= 0 /\ m <= v.units[o]
      /\ m <= Capacity[t] - v.units[t]
  BY <1>2 DEF Lesser
<1>4. Poured(v, o, t) = [v2 EXCEPT !.units[o] = @ - m, !.units[t] = @ + m]
  BY DEF Poured
<1> HIDE DEF m, k
<1>5. Own(v) \in [Obj -> Int]
  BY <1>1, OwnType
<1>6. e1 \in [Obj -> Int] /\ e2 \in [Obj -> Int]
  <2>1. e1 \in [Obj -> Int]
    BY <1>1, <1>3, <1>5 DEF Heavier
  <2> HIDE DEF e1
  <2>2. QED
    BY <1>1, <1>3, <2>1 DEF Heavier
<1>7. Balanced(v1, e1) /\ Calm(v1, v)
  BY <1>1, <1>3, <1>5, WeightChangedBalanced DEF Sound
<1>8. Good(v1) /\ Unmoved(v1, v)
  BY <1>1, <1>3, WeightChangedGood, WeightChangedUnmoved
<1> HIDE DEF v1, e1
<1>9. v1.inRoom[t] # None \/ v1.carriedBy[t] # None
  BY <1>1, <1>8 DEF Unmoved, SameSpot
<1>10. Balanced(v2, e2) /\ Calm(v2, v1)
  BY <1>1, <1>3, <1>6, <1>7, <1>8, <1>9, WeightChangedBalanced
<1>11. v2 \in World
  BY <1>1, <1>3, <1>8, WeightChangedGood DEF Good
<1> HIDE DEF v2, e2
<1>12. Calm(v2, v)
  BY <1>7, <1>10, CalmTwice
<1>13. e1[o] = Own(v)[o] + k /\ \A x \in Obj \ {o} : e1[x] = Own(v)[x]
  BY <1>1, <1>5 DEF Heavier, e1
<1>14. e2[t] = e1[t] + m /\ \A x \in Obj \ {t} : e2[x] = e1[x]
  BY <1>1, <1>6 DEF Heavier, e2
<1>15. \A x \in Obj : Own(v)[x] = Empty[x]
                         + (IF Drinkable(x) THEN v.units[x] ELSE 0)
  BY DEF Own, Liquid, Drinkable
<1>16. U \in [Obj -> Int] /\ U[o] = v.units[o] - m /\ U[t] = v.units[t] + m
       /\ \A x \in Obj \ {o, t} : U[x] = v.units[x]
  BY <1>1, <1>2, <1>3
<1> HIDE DEF U
<1>17. ASSUME NEW x \in Obj
       PROVE  e2[x] = Empty[x] + (IF Drinkable(x) THEN U[x] ELSE 0)
  <2>1. Empty[x] \in Int /\ v.units[x] \in Int
    BY <1>1, ValueAssumption
  <2>2. CASE x = o
    <3>1. e2[o] = Empty[o] + v.units[o] + k
      BY <1>1, <1>3, <1>13, <1>14, <1>15, <2>1, <2>2
    <3>2. QED
      BY <1>3, <1>16, <2>1, <2>2, <3>1 DEF k
  <2>3. CASE x = t
    BY <1>1, <1>3, <1>13, <1>14, <1>15, <1>16, <2>1, <2>3
  <2>4. CASE x # o /\ x # t
    BY <1>13, <1>14, <1>15, <1>16, <2>4
  <2>5. QED
    BY <2>2, <2>3, <2>4
<1>18. \A x \in Obj : Drinkable(x) \/ U[x] = v.units[x]
  BY <1>16
<1>19. ASSUME NEW x \in v.alive, Drinkable(x)
       PROVE  U[x] >= 0 /\ (Sober => U[x] <= Capacity[x])
  <2>1. CASE x = o
    BY <1>2, <1>3, <1>16, <2>1
  <2>2. CASE x = t
    BY <1>2, <1>3, <1>16, <2>2
  <2>3. CASE x # o /\ x # t
    BY <1>1, <1>16, <1>19, <2>3 DEF Sound, Full
  <2>4. QED
    BY <2>1, <2>2, <2>3
<1>20. Sound([v2 EXCEPT !.units = U])
  BY <1>6, <1>10, <1>11, <1>12, <1>16, <1>17, <1>18, <1>19, UnitsSound
<1>21. v2.units = v.units
  BY <1>12 DEF Calm
<1>22. Poured(v, o, t) = [v2 EXCEPT !.units = U]
  <2> DEFINE U1 == [v2.units EXCEPT ![o] = @ - m]
             v3 == [v2 EXCEPT !.units = U1]
             U2 == [v3.units EXCEPT ![t] = v2.units[t] + m]
  <2>1. Poured(v, o, t) = [v3 EXCEPT !.units = U2]
    BY <1>4
  <2>2. v3.units = U1
    BY <1>11 DEF World
  <2>3. U2 = U
    BY <1>1, <1>21, <2>2 DEF U
  <2> HIDE DEF U1, U2
  <2>4. [v3 EXCEPT !.units = U2] = [v2 EXCEPT !.units = U2]
    BY <1>11 DEF World
  <2>5. QED
    BY <2>1, <2>3, <2>4
<1>23. QED
  BY <1>20, <1>22

-----------------------------------------------------------------------------
(* Lists, nesting and totals together, through the handlers that commands  *)
(* are made of.                                                            *)
InOrder(v) == Good(v) /\ Climbs(v) /\ Sound(v)

LEMMA OrderFromChar ==
    ASSUME NEW v, InOrder(v), NEW o \in Obj, v.carriedBy[o] # None
    PROVE  InOrder(FromChar(v, o)) /\ Held(FromChar(v, o), o)
<1> DEFINE u == FromChar(v, o)
<1>1. Held(u, o) /\ Sound(u) /\ SameNesting(u, v)
  BY FromCharHeld, FromCharSound DEF InOrder
<1> HIDE DEF u
<1>2. Climbs(u)
  BY <1>1, SameShrinks, ShrinkingClimbs DEF InOrder, SameNesting
<1>3. QED
  BY <1>1, <1>2 DEF InOrder, Held, u

LEMMA OrderFromRoom ==
    ASSUME NEW v, InOrder(v), NEW o \in Obj, v.inRoom[o] # None
    PROVE  InOrder(FromRoom(v, o)) /\ Held(FromRoom(v, o), o)
<1> DEFINE u == FromRoom(v, o)
<1>1. Held(u, o) /\ Sound(u)
  BY FromRoomHeld, FromRoomSound DEF InOrder
<1>2. u.inObj = v.inObj
  BY DEF InOrder, Good, FromRoom, World
<1> HIDE DEF u
<1>3. Climbs(u)
  BY <1>2, SameShrinks, ShrinkingClimbs DEF InOrder
<1>4. QED
  BY <1>1, <1>3 DEF InOrder, Held, u

LEMMA OrderFromObj ==
    ASSUME NEW v, InOrder(v), NEW o \in Obj, v.inObj[o] # None
    PROVE  InOrder(FromObj(v, o)) /\ Held(FromObj(v, o), o)
<1>1. Held(FromObj(v, o), o) /\ Sound(FromObj(v, o))
  BY FromObjHeld, FromObjSound DEF InOrder
<1>2. Climbs(FromObj(v, o))
  BY FromObjShrinks, ShrinkingClimbs DEF InOrder, Good
<1>3. QED
  BY <1>1, <1>2 DEF InOrder, Held

LEMMA OrderUnequip ==
    ASSUME NEW v, InOrder(v), NEW c \in Char, NEW p \in Pos, v.eq[c][p] # None
    PROVE  /\ InOrder(Unequip(v, c, p)) /\ Held(Unequip(v, c, p), v.eq[c][p])
           /\ v.eq[c][p] \in Obj
<1> DEFINE u == Unequip(v, c, p)
           o == v.eq[c][p]
<1>1. o \in Obj /\ Held(u, o) /\ SameNesting(u, v) /\ Sound(u)
  BY UnequipHeld, UnequipSound DEF InOrder
<1> HIDE DEF u, o
<1>2. Climbs(u)
  BY <1>1, SameShrinks, ShrinkingClimbs DEF InOrder, SameNesting
<1>3. QED
  BY <1>1, <1>2 DEF InOrder, Held, u, o

LEMMA OrderCreated ==
    ASSUME NEW v, InOrder(v), NEW o \in Obj, o \notin v.alive
    PROVE  /\ InOrder(Created(v, o)) /\ Held(Created(v, o), o)
           /\ Created(v, o).inObj = v.inObj
           /\ Created(v, o).alive = v.alive \union {o}
<1> DEFINE u == Created(v, o)
<1>1. Held(u, o) /\ Sound(u) /\ u.alive = v.alive \union {o}
  BY CreatedHeld, CreatedSound DEF InOrder
<1>2. u.inObj = v.inObj
  BY DEF InOrder, Good, Created, World
<1> HIDE DEF u
<1>3. Climbs(u)
  BY <1>2, SameShrinks, ShrinkingClimbs DEF InOrder
<1>4. QED
  BY <1>1, <1>2, <1>3 DEF InOrder, Held, u

LEMMA OrderToChar ==
    ASSUME NEW v, InOrder(v), NEW o \in Obj, NEW c \in Char, Held(v, o)
    PROVE  InOrder(ToChar(v, o, c)) /\ ToChar(v, o, c).carriedBy[o] = c
<1> DEFINE u == ToChar(v, o, c)
<1>1. Good(u) /\ u.carriedBy[o] = c /\ Sound(u)
  BY ToCharGood, ToCharSound DEF InOrder
<1>2. u.inObj = v.inObj
  BY DEF InOrder, Good, ToChar, World
<1> HIDE DEF u
<1>3. Climbs(u)
  BY <1>2, SameShrinks, ShrinkingClimbs DEF InOrder
<1>4. QED
  BY <1>1, <1>3 DEF InOrder, u

LEMMA OrderToObj ==
    ASSUME NEW v, InOrder(v), NEW o \in Obj, NEW k \in v.alive, Held(v, o),
           k \notin Inside(v, o)
    PROVE  InOrder(ToObj(v, o, k))
<1>1. v \in World /\ k \in Obj
  BY DEF InOrder, Good, World
<1>2. Good(ToObj(v, o, k))
  BY ToObjGood
<1>3. Climbs(ToObj(v, o, k))
  BY <1>1, ToObjClimbs DEF InOrder
<1>4. Sound(ToObj(v, o, k))
  BY ToObjSound DEF InOrder
<1>5. QED
  BY <1>2, <1>3, <1>4 DEF InOrder

LEMMA OrderExtract ==
    ASSUME NEW v, InOrder(v), NEW o \in Obj
    PROVE  InOrder(Extract(v, o))
BY ExtractGood, ExtractSound, ExtractShrinks, ShrinkingClimbs DEF InOrder

LEMMA OrderToRoom ==
    ASSUME NEW v, InOrder(v), NEW o \in Obj, NEW r \in Room \union {None},
           Held(v, o)
    PROVE  InOrder(ToRoom(v, o, r))
<1>1. Good(ToRoom(v, o, r))
  BY ToRoomGood
<1>2. Sound(ToRoom(v, o, r))
  BY ToRoomSound DEF InOrder
<1>3. Climbs(ToRoom(v, o, r))
  BY ToRoomShrinks, ShrinkingClimbs DEF InOrder
<1>4. QED
  BY <1>1, <1>2, <1>3 DEF InOrder

LEMMA OrderEquip ==
    ASSUME NEW v, InOrder(v), NEW o \in Obj, NEW c \in Char, NEW p \in Pos,
           NEW z \in BOOLEAN, Held(v, o), p \in Fits[o]
    PROVE  InOrder(Equip(v, o, c, p, z))
<1> DEFINE u == Equip(v, o, c, p, z)
<1>1. Good(u)
  BY EquipGood
<1>2. Sound(u)
  BY EquipSound DEF InOrder
<1>3. u.inObj = v.inObj
  <2>1. ToChar(v, o, c).inObj = v.inObj
    BY DEF InOrder, Good, ToChar, World
  <2>2. QED
    BY <2>1 DEF Equip, InOrder, Good, World
<1> HIDE DEF u
<1>4. Climbs(u)
  BY <1>3, SameShrinks, ShrinkingClimbs DEF InOrder
<1>5. QED
  BY <1>1, <1>2, <1>4 DEF InOrder, u

LEMMA OrderPocketed ==
    ASSUME NEW v, InOrder(v), NEW o \in Obj, NEW c \in Char, Held(v, o)
    PROVE  InOrder(Pocketed(ToChar(v, o, c), c, o))
<1> DEFINE u == ToChar(v, o, c)
<1>1. InOrder(u) /\ u.carriedBy[o] # None
  BY OrderToChar, PopulationAssumption
<1> HIDE DEF u
<1>2. InOrder(Extract(FromChar(u, o), o))
  BY <1>1, OrderFromChar, OrderExtract
<1>3. QED
  BY <1>1, <1>2 DEF Pocketed, u

-----------------------------------------------------------------------------
(* The steps.  What create water and the wand of wonder do to a thing that *)
(* is worn is not in the books: drink containers that cannot be worn where *)
(* those spells find them are the condition for the totals to be right.    *)
Careful ==
    /\ WaterMage = {} \/ \A o \in Obj : Drinkable(o) => Fits[o] = {}
    /\ Wand = {} \/ \A o \in Obj : Drinkable(o) => LightPos \notin Fits[o]

SInv == NInv /\ Sound(w)

LEMMA SInvOrder == SInv => InOrder(w) /\ w \in World
BY IInvGood DEF SInv, NInv, InOrder, Good

LEMMA OrderSound == ASSUME NEW v, InOrder(v) PROVE Sound(v)
BY DEF InOrder

(* A thing out of a corpse goes to where the corpse is.                    *)
LEMMA OrderSpilled ==
    ASSUME NEW v, InOrder(v), NEW o \in Obj, NEW j \in Obj, v.inObj[o] = j
    PROVE  InOrder(Spilled(v, o, j))
<1> DEFINE v1 == FromObj(v, o)
           k == v1.inObj[j]
<1>1. v \in World /\ None \notin Obj /\ v.inObj[o] # None
  BY PopulationAssumption DEF InOrder, Good
<1>2. InOrder(v1) /\ Held(v1, o) /\ v1 \in World /\ v1.alive = v.alive
  BY <1>1, OrderFromObj, FromObjHeld DEF Held, Good, InOrder
<1>3. Shrinks(v1, v)
  BY <1>1, FromObjShrinks
<1>4. Spilled(v, o, j) =
        IF k # None THEN ToObj(v1, o, k)
        ELSE IF v1.carriedBy[j] # None THEN ToRoom(v1, o, v1.at[v1.carriedBy[j]])
        ELSE ToRoom(v1, o, v1.inRoom[j])
  BY DEF Spilled
<1> HIDE DEF v1
<1>5. CASE k # None
  <2>1. k = v.inObj[j] /\ k \in Obj
    BY <1>1, <1>2, <1>3, <1>5 DEF Shrinks, World
  <2>2. k \in v1.alive
    BY <1>1, <1>2, <2>1, <1>5, ListedAlive DEF InOrder
  <2> HIDE DEF k
  <2>3. o \in Inside(v, j) /\ j \in Inside(v, k)
    BY <2>1, InsideParent
  <2>4. o \in Inside(v, k)
    BY <2>1, <2>3, InsideTransitive
  <2>5. k # o
    <3> SUFFICES ASSUME k = o PROVE FALSE
      OBVIOUS
    <3>1. j = o
      BY <2>3, InsideAsymmetric DEF InOrder
    <3>2. {o} \in SUBSET Obj /\ {o} # {}
      OBVIOUS
    <3>3. QED
      BY <3>1, <3>2 DEF Climbs, InOrder
  <2>6. k \notin Inside(v1, o)
    BY <1>3, <2>1, <2>4, <2>5, OutOfItIsNotAbove DEF InOrder
  <2>7. InOrder(ToObj(v1, o, k))
    BY <1>2, <2>2, <2>6, OrderToObj
  <2>8. QED
    BY <1>4, <1>5, <2>7
<1>6. CASE k = None
  <2>1. v1.inRoom[j] \in Room \union {None}
        /\ (v1.carriedBy[j] # None =>
                v1.at[v1.carriedBy[j]] \in Room \union {None})
    BY <1>2 DEF World
  <2>2. InOrder(ToRoom(v1, o, v1.inRoom[j]))
    BY <1>2, <2>1, OrderToRoom
  <2>3. v1.carriedBy[j] # None => InOrder(ToRoom(v1, o, v1.at[v1.carriedBy[j]]))
    BY <1>2, <2>1, OrderToRoom
  <2>4. QED
    BY <1>4, <1>6, <2>2, <2>3
<1>7. QED
  BY <1>5, <1>6

LEMMA ResetsSum == SInv /\ Resets => Sound(w')
<1> SUFFICES ASSUME SInv, Resets PROVE Sound(w')
  OBVIOUS
<1>1. InOrder(w) /\ w \in World /\ Good(w) /\ Sound(w)
  BY SInvOrder DEF InOrder
<1>2. Mob \subseteq Char /\ None \notin Obj /\ Room \subseteq Room \union {None}
  BY PopulationAssumption
<1>3. ASSUME NEW m \in Mob, NEW r \in Room, ResetMob(m, r) PROVE Sound(w')
  <2>1. w' = EnterRoom(w, m, r) /\ w.at[m] = None /\ m \in Char
    BY <1>2, <1>3 DEF ResetMob, Do
  <2>2. QED
    BY <1>1, <2>1, EnterRoomSound
<1>4. ASSUME NEW o \in Obj, Fresh(o)
      PROVE  InOrder(Created(w, o)) /\ Held(Created(w, o), o)
  BY <1>1, <1>4, OrderCreated DEF Fresh
<1>5. ASSUME NEW o \in Obj, NEW r \in Room, ResetObj(o, r) PROVE Sound(w')
  <2>1. InOrder(ToRoom(Created(w, o), o, r))
    BY <1>2, <1>4, <1>5, OrderToRoom DEF ResetObj
  <2>2. QED
    BY <1>5, <2>1, OrderSound DEF ResetObj, Do
<1>6. ASSUME NEW o \in Obj, ResetPut(o) PROVE Sound(w')
  <2> DEFINE v == Created(w, o)
  <2>1. Fresh(o) /\ w' = IF Home[o] \in w.alive THEN ToObj(v, o, Home[o]) ELSE v
    BY <1>6 DEF ResetPut, Do
  <2>2. /\ InOrder(v) /\ Held(v, o) /\ v.inObj = w.inObj
        /\ v.alive = w.alive \union {o}
    BY <1>1, <1>4, <2>1, OrderCreated DEF Fresh
  <2>3. o \notin w.alive /\ \A x \in Obj : w.inObj[x] # o
    BY <1>1, <2>1 DEF Fresh, Good, Consistent, DeadAreGone
  <2> HIDE DEF v
  <2>4. CASE Home[o] \in w.alive
    <3>1. Home[o] \in Obj /\ Home[o] # o /\ Home[o] \in v.alive
      BY <1>1, <2>2, <2>3, <2>4 DEF World
    <3>2. {o} \in SUBSET Obj /\ o \in {o}
          /\ \A y \in Obj : v.inObj[y] \in {o} => y \in {o}
      BY <2>2, <2>3
    <3>3. Inside(v, o) \subseteq {o}
      BY <3>2, InsideLeast
    <3>4. Home[o] \notin Inside(v, o)
      BY <3>1, <3>3
    <3>5. InOrder(ToObj(v, o, Home[o]))
      BY <2>2, <3>1, <3>4, OrderToObj
    <3>6. QED
      BY <2>1, <2>4, <3>5, OrderSound
  <2>5. CASE Home[o] \notin w.alive
    BY <2>1, <2>2, <2>5, OrderSound
  <2>6. QED
    BY <2>4, <2>5
<1>7. ASSUME NEW o \in Obj, NEW m \in Mob, ResetGive(o, m) PROVE Sound(w')
  <2>1. Fresh(o) /\ w' = ToChar(Created(w, o), o, m) /\ m \in Char
    BY <1>2, <1>7 DEF ResetGive, Do
  <2>2. InOrder(ToChar(Created(w, o), o, m))
    BY <1>4, <2>1, OrderToChar
  <2>3. QED
    BY <2>1, <2>2, OrderSound
<1>8. ASSUME NEW o \in Obj, NEW m \in Mob, NEW p \in Pos, NEW z \in BOOLEAN,
             ResetEquip(o, m, p, z)
      PROVE  Sound(w')
  <2>1. /\ Fresh(o) /\ w' = Equip(Created(w, o), o, m, p, z) /\ m \in Char
        /\ p \in Fits[o]
    BY <1>2, <1>8 DEF ResetEquip, Do
  <2>2. InOrder(Equip(Created(w, o), o, m, p, z))
    BY <1>4, <2>1, OrderEquip
  <2>3. QED
    BY <2>1, <2>2, OrderSound
<1>9. ASSUME NEW o \in Obj, ResetRemove(o) PROVE Sound(w')
  <2>1. w.inRoom[o] # None /\ w' = Extract(FromRoom(w, o), o)
    BY <1>9 DEF ResetRemove, Do
  <2>2. InOrder(Extract(FromRoom(w, o), o))
    BY <1>1, <2>1, OrderFromRoom, OrderExtract
  <2>3. QED
    BY <2>1, <2>2, OrderSound
<1>10. QED
  BY <1>3, <1>5, <1>6, <1>7, <1>8, <1>9 DEF Resets

LEMMA CommandsSum == SInv /\ Commands => Sound(w')
<1> SUFFICES ASSUME SInv, Commands PROVE Sound(w')
  OBVIOUS
<1>1. InOrder(w) /\ w \in World /\ Good(w) /\ Climbs(w) /\ Sound(w)
  BY SInvOrder DEF InOrder
<1>2. /\ None \notin Obj \union Char \union Room
      /\ w.at \in [Char -> Room \union {None}]
      /\ Donation \in Room /\ LightPos \in Pos
  BY <1>1, PopulationAssumption DEF World
<1>3. ASSUME NEW c \in Char, NEW o \in Obj, o \in w.carrying[c]
      PROVE  /\ w.carriedBy[o] = c /\ w.carriedBy[o] # None /\ o \in w.alive
             /\ InOrder(FromChar(w, o)) /\ Held(FromChar(w, o), o)
             /\ FromChar(w, o).alive = w.alive
             /\ FromChar(w, o).inObj = w.inObj
  <2>1. w.carriedBy[o] = c /\ w.carriedBy[o] # None /\ o \in w.alive
    BY <1>1, <1>2, <1>3, ListedAlive
  <2>2. InOrder(FromChar(w, o)) /\ Held(FromChar(w, o), o)
    BY <1>1, <2>1, OrderFromChar
  <2>3. FromChar(w, o).alive = w.alive /\ SameNesting(FromChar(w, o), w)
    BY <1>1, <2>1, FromCharHeld
  <2>4. QED
    BY <2>1, <2>2, <2>3 DEF SameNesting
<1>4. ASSUME NEW c \in Char, NEW o \in Obj, Acts(c), o \in w.contents[w.at[c]]
      PROVE  w.inRoom[o] # None /\ o \in w.alive
  BY <1>1, <1>2, <1>4, ListedAlive DEF Acts
<1>5. ASSUME NEW c \in Char, NEW o \in Obj, NEW k \in Obj, Put(c, o, k)
      PROVE  Sound(w')
  <2>1. /\ o \in w.carrying[c] /\ k # o /\ w' = ToObj(FromChar(w, o), o, k)
        /\ k \in w.carrying[c] \/ k \in w.contents[w.at[c]]
        /\ w.at[c] \in Room
    BY <1>2, <1>5 DEF Put, Do, Here, Acts
  <2>2. w.inObj[k] = None /\ k \in w.alive
    BY <1>1, <1>2, <2>1, ListedAlive DEF Good, Consistent, OnePlaceOnly
  <2> DEFINE v == FromChar(w, o)
  <2>3. InOrder(v) /\ Held(v, o) /\ v.inObj[k] = None /\ k \in v.alive
    BY <1>3, <2>1, <2>2
  <2> HIDE DEF v
  <2>4. k \notin Inside(v, o)
    BY <2>1, <2>3, OutermostInside
  <2>5. InOrder(ToObj(v, o, k))
    BY <2>3, <2>4, OrderToObj
  <2>6. QED
    BY <2>1, <2>5, OrderSound DEF v
<1>6. ASSUME NEW c \in Char, NEW o \in Obj, NEW k \in Obj,
             GetFromContainer(c, o, k)
      PROVE  Sound(w')
  <2>1. o \in w.contains[k]
        /\ w' = Pocketed(ToChar(FromObj(w, o), o, c), c, o)
    BY <1>6 DEF GetFromContainer, Do
  <2>2. w.inObj[o] # None
    BY <1>1, <1>2, <2>1, ListedAlive
  <2>3. InOrder(FromObj(w, o)) /\ Held(FromObj(w, o), o)
    BY <1>1, <2>2, OrderFromObj
  <2>4. InOrder(Pocketed(ToChar(FromObj(w, o), o, c), c, o))
    BY <2>3, OrderPocketed
  <2>5. QED
    BY <2>1, <2>4, OrderSound
<1>7. ASSUME NEW c \in Char, NEW o \in Obj, GetFromRoom(c, o)
      PROVE  Sound(w')
  <2>1. w' = Pocketed(ToChar(FromRoom(w, o), o, c), c, o)
    BY <1>7 DEF GetFromRoom, Do
  <2>2. w.inRoom[o] # None
    BY <1>4, <1>7 DEF GetFromRoom
  <2>3. InOrder(FromRoom(w, o)) /\ Held(FromRoom(w, o), o)
    BY <1>1, <2>2, OrderFromRoom
  <2>4. InOrder(Pocketed(ToChar(FromRoom(w, o), o, c), c, o))
    BY <2>3, OrderPocketed
  <2>5. QED
    BY <2>1, <2>4, OrderSound
<1>8. ASSUME NEW c \in Char, NEW o \in Obj, NEW r \in Room, Drop(c, o, r)
      PROVE  Sound(w')
  <2>1. InOrder(ToRoom(FromChar(w, o), o, r))
    BY <1>3, <1>8, OrderToRoom DEF Drop
  <2>2. QED
    BY <1>8, <2>1, OrderSound DEF Drop, Do
<1>9. ASSUME NEW c \in Char, NEW o \in Obj, Junk(c, o) PROVE Sound(w')
  <2>1. InOrder(Extract(FromChar(w, o), o))
    BY <1>3, <1>9, OrderExtract DEF Junk
  <2>2. QED
    BY <1>9, <2>1, OrderSound DEF Junk, Do
<1>10. ASSUME NEW c \in Char, NEW d \in Char, NEW o \in Obj, Give(c, d, o)
       PROVE  Sound(w')
  <2>1. InOrder(ToChar(FromChar(w, o), o, d))
    BY <1>3, <1>10, OrderToChar DEF Give
  <2>2. QED
    BY <1>10, <2>1, OrderSound DEF Give, Do
<1>11. ASSUME NEW c \in Char, NEW o \in Obj, NEW p \in Pos, NEW z \in BOOLEAN,
              Wear(c, o, p, z)
       PROVE  Sound(w')
  <2>1. InOrder(Equip(FromChar(w, o), o, c, p, z))
    BY <1>3, <1>11, OrderEquip DEF Wear
  <2>2. QED
    BY <1>11, <2>1, OrderSound DEF Wear, Do
<1>12. ASSUME NEW c \in Char, NEW p \in Pos, Remove(c, p) PROVE Sound(w')
  <2>1. w.eq[c][p] # None /\ w' = ToChar(Unequip(w, c, p), w.eq[c][p], c)
    BY <1>12 DEF Remove, Do
  <2>2. /\ InOrder(Unequip(w, c, p)) /\ Held(Unequip(w, c, p), w.eq[c][p])
        /\ w.eq[c][p] \in Obj
    BY <1>1, <2>1, OrderUnequip
  <2>3. InOrder(ToChar(Unequip(w, c, p), w.eq[c][p], c))
    BY <2>2, OrderToChar
  <2>4. QED
    BY <2>1, <2>3, OrderSound
<1>13. ASSUME NEW c \in Char, NEW o \in Obj, NEW n \in -1 .. MaxGulp,
              Drink(c, o, n)
       PROVE  Sound(w')
  <2>1. n \in Int /\ n >= -1 /\ (Sober => n >= 0)
    BY <1>13, ValueAssumption DEF Drink, Sober
  <2>2. w' = Drunk(w, o, n) /\ Drinkable(o)
    BY <1>13 DEF Drink, Do, Drinkable
  <2>3. (w.inRoom[o] # None \/ w.carriedBy[o] # None) /\ o \in w.alive
    BY <1>3, <1>4, <1>13 DEF Drink
  <2>4. Sound(Drunk(w, o, n))
    BY <1>1, <2>1, <2>2, <2>3, DrunkSound
  <2>5. QED
    BY <2>2, <2>4
<1>14. ASSUME NEW c \in Char, NEW o \in Obj, Eat(c, o) PROVE Sound(w')
  <2>1. InOrder(Extract(w, o))
    BY <1>1, OrderExtract
  <2>2. QED
    BY <1>14, <2>1, OrderSound DEF Eat, Do
<1>15. ASSUME NEW c \in Char, NEW o \in Obj, PourOut(c, o) PROVE Sound(w')
  <2>1. w' = Emptied(w, o) /\ Drinkable(o) /\ 0 \in Int /\ 0 >= -1
    BY <1>15 DEF PourOut, Do, Drinkable
  <2>2. w.carriedBy[o] # None /\ o \in w.alive
    BY <1>3, <1>15 DEF PourOut
  <2>3. Sound(Emptied(w, o))
    BY <1>1, <2>1, <2>2, DrunkSound
  <2>4. QED
    BY <2>1, <2>3
<1>16. ASSUME NEW c \in Char, NEW o \in Obj, NEW t \in Obj, Pour(c, o, t)
       PROVE  Sound(w')
  <2>1. /\ w' = Poured(w, o, t) /\ o # t /\ Drinkable(o) /\ Drinkable(t)
        /\ w.units[t] < Capacity[t]
    BY <1>16 DEF Pour, Do, Drinkable
  <2>2. (w.inRoom[o] # None \/ w.carriedBy[o] # None) /\ o \in w.alive
    BY <1>3, <1>4, <1>16 DEF Pour
  <2>3. w.carriedBy[t] # None /\ t \in w.alive
    BY <1>3, <1>16 DEF Pour
  <2>4. Sound(Poured(w, o, t))
    BY <1>1, <2>1, <2>2, <2>3, PouredSound
  <2>5. QED
    BY <2>1, <2>4
<1>17. ASSUME NEW c \in Char, NEW r \in Room, Walk(c, r) PROVE Sound(w')
  <2> DEFINE v == LeaveRoom(w, c)
  <2>1. w' = EnterRoom(v, c, r)
    BY <1>17 DEF Walk, Do
  <2>2. Good(v) /\ Sound(v)
    BY <1>1, LeaveRoomGood, LeaveRoomSound
  <2>3. v.at[c] = None
    BY <1>1 DEF LeaveRoom, World
  <2> HIDE DEF v
  <2>4. Sound(EnterRoom(v, c, r))
    BY <2>2, <2>3, EnterRoomSound
  <2>5. QED
    BY <2>1, <2>4
<1>18. QED
  BY <1>5, <1>6, <1>7, <1>8, <1>9, <1>10, <1>11, <1>12, <1>13, <1>14, <1>15,
     <1>16, <1>17 DEF Commands

(* The wand of wonder leaves weights and liquids alone.                    *)
LEMMA WandSound ==
    ASSUME Careful, Wand # {}, NEW v, Good(v), Sound(v), NEW c \in Char, NEW u,
           u.alive = v.alive, u.weight = v.weight, u.contains = v.contains,
           u.carrying = v.carrying, u.carryW = v.carryW, u.carryN = v.carryN,
           u.wornOn = v.wornOn,
           \A o \in Obj : o # v.eq[c][LightPos] => u.units[o] = v.units[o]
    PROVE  Sound(u)
<1>1. v \in World /\ v.alive \subseteq Obj /\ LightPos \in Pos /\ LightPos # None
  BY PopulationAssumption DEF Good, World
<1>2. ASSUME NEW o \in Obj, o = v.eq[c][LightPos] PROVE ~Drinkable(o)
  <2>1. v.wornOn[o] = LightPos
    BY <1>1, <1>2 DEF Good, Consistent, EquipmentAgrees
  <2>2. LightPos \in Fits[o]
    BY <1>1, <2>1 DEF Sound, Dressed
  <2>3. QED
    BY <2>2 DEF Careful
<1>3. \A o \in Obj : Drinkable(o) => u.units[o] = v.units[o]
  BY <1>2
<1>4. Balanced(u, Own(v))
  BY SameBalanced DEF Sound
<1>5. \A o \in Obj : Own(u)[o] = Own(v)[o]
  BY <1>3 DEF Own, Liquid, Drinkable
<1>6. Balanced(u, Own(u))
  BY <1>1, <1>4, <1>5, BalancedOwn
<1>7. Dressed(u) /\ Full(u)
  BY <1>1, <1>3 DEF Sound, Dressed, Full
<1>8. QED
  BY <1>6, <1>7 DEF Sound

LEMMA SpellsSum == SInv /\ Careful /\ Spells => Sound(w')
<1> SUFFICES ASSUME SInv, Careful, Spells PROVE Sound(w')
  OBVIOUS
<1>1. InOrder(w) /\ w \in World /\ Good(w) /\ Climbs(w) /\ Sound(w)
  BY SInvOrder DEF InOrder
<1>2. None \notin Obj \union Char \union Room
  BY PopulationAssumption
<1>3. ASSUME NEW c \in Char, NEW o \in Obj, CreateWater(c, o)
      PROVE  Sound(w')
  <2> DEFINE n == Capacity[o] - w.units[o]
             m == Capacity[o]
  <2>1. /\ c \in WaterMage /\ Drinkable(o)
        /\ o \in w.carrying[c] \/ w.wornBy[o] = c
        /\ w' = [WeightChanged(w, o, n) EXCEPT !.units[o] = m]
    BY <1>3 DEF CreateWater, Do, Drinkable
  <2>2. o \in w.carrying[c]
    <3> SUFFICES ASSUME w.wornBy[o] = c PROVE FALSE
      BY <2>1
    <3>1. w.wornOn[o] # None
      BY <1>1, <1>2 DEF Good, Consistent, EquipmentAgrees
    <3>2. w.wornOn[o] \in Fits[o]
      BY <1>1, <3>1 DEF Sound, Dressed
    <3>3. QED
      BY <2>1, <3>2 DEF Careful
  <2>3. w.carriedBy[o] # None
    BY <1>1, <1>2, <2>2, ListedAlive
  <2>4. n \in Int /\ m = w.units[o] + n /\ m >= 0 /\ m <= Capacity[o]
    BY <1>1, ValueAssumption DEF World
  <2> HIDE DEF n, m
  <2>5. Sound([WeightChanged(w, o, n) EXCEPT !.units[o] = m])
    BY <1>1, <2>1, <2>3, <2>4, LiquidSound
  <2>6. QED
    BY <2>1, <2>5
<1>4. ASSUME NEW c \in Char, NEW o \in Obj, DisintegrateObj(c, o)
      PROVE  Sound(w')
  <2>1. InOrder(Extract(w, o))
    BY <1>1, OrderExtract
  <2>2. QED
    BY <1>4, <2>1, OrderSound DEF DisintegrateObj, Do
<1>5. ASSUME NEW c \in Char, LightsOut(c) PROVE Sound(w')
  <2> DEFINE mine == w.eq[c][LightPos]
             u == [w EXCEPT !.light[w.at[c]] = 0,
                    !.units = [o \in Obj |-> IF o = mine THEN 0 ELSE @[o]]]
  <2>1. c \in Wand /\ w' = u
    BY <1>5 DEF LightsOut, Do
  <2>2. /\ u.alive = w.alive /\ u.weight = w.weight /\ u.contains = w.contains
        /\ u.carrying = w.carrying /\ u.carryW = w.carryW
        /\ u.carryN = w.carryN /\ u.wornOn = w.wornOn
        /\ \A o \in Obj : o # w.eq[c][LightPos] => u.units[o] = w.units[o]
    BY <1>1 DEF World
  <2> HIDE DEF u
  <2>3. Sound(u)
    BY <1>1, <2>1, <2>2, WandSound
  <2>4. QED
    BY <2>1, <2>3
<1>6. ASSUME NEW c \in Char, NEW m \in Mob, DisintegrateChar(c, m)
      PROVE  Sound(w')
  BY <1>1, <1>6 DEF DisintegrateChar, Begin
<1>7. ASSUME NEW p \in Pos, DisintegrateEquipment(p) PROVE Sound(w')
  <2>1. /\ job.who \in Char /\ w.eq[job.who][p] # None
        /\ w' = Unequip(w, job.who, p)
    BY <1>7 DEF DisintegrateEquipment, Step, Working, Wears, SInv, NInv, IInv,
                JobOK
  <2>2. QED
    BY <1>1, <2>1, OrderUnequip, OrderSound
<1>8. ASSUME NEW o \in Obj, DisintegrateItem(o) PROVE Sound(w')
  <2>1. InOrder(Extract(w, o))
    BY <1>1, OrderExtract
  <2>2. QED
    BY <1>8, <2>1, OrderSound DEF DisintegrateItem, Step
<1>9. ASSUME Left("disintegrate") PROVE Sound(w')
  <2>1. job.who \in Char /\ w' = LeaveRoom(w, job.who)
    BY <1>9 DEF Left, Finish, Working, SInv, NInv, IInv, JobOK
  <2>2. QED
    BY <1>1, <2>1, LeaveRoomSound
<1>10. QED
  BY <1>3, <1>4, <1>5, <1>6, <1>7, <1>8, <1>9 DEF Spells

LEMMA EndsSum == SInv /\ Ends => Sound(w')
<1> SUFFICES ASSUME SInv, Ends PROVE Sound(w')
  OBVIOUS
<1>1. InOrder(w) /\ w \in World /\ Good(w) /\ Climbs(w) /\ Sound(w)
  BY SInvOrder DEF InOrder
<1>2. /\ None \notin Obj \union Char \union Room \union Pos
      /\ w.at \in [Char -> Room \union {None}] /\ Mob \subseteq Char
  BY <1>1, PopulationAssumption DEF World
<1>3. ASSUME NEW m \in Mob, Purge(m) PROVE Sound(w')
  BY <1>1, <1>3 DEF Purge, Begin
<1>4. ASSUME NEW o \in Obj, LeaveItem(o) PROVE Sound(w')
  <2>1. job.who \in Char /\ w' = ToRoom(FromChar(w, o), o, w.at[job.who])
    BY <1>4 DEF LeaveItem, Working, SInv, NInv, IInv, JobOK, Step
  <2>2. w.carriedBy[o] # None
    BY <1>1, <1>2, <1>4, <2>1, ListedAlive DEF LeaveItem
  <2>3. w.at[job.who] \in Room \union {None}
    BY <1>2, <2>1
  <2>4. InOrder(FromChar(w, o)) /\ Held(FromChar(w, o), o)
    BY <1>1, <2>2, OrderFromChar
  <2>5. InOrder(ToRoom(FromChar(w, o), o, w.at[job.who]))
    BY <2>3, <2>4, OrderToRoom
  <2>6. QED
    BY <2>1, <2>5, OrderSound
<1>5. ASSUME NEW p \in Pos, LeaveEquipment(p) PROVE Sound(w')
  <2> DEFINE o == w.eq[job.who][p]
             v == Unequip(w, job.who, p)
  <2>1. /\ job.who \in Char /\ o # None /\ w' = ToRoom(v, o, w.at[job.who])
        /\ w.at[job.who] \in Room \union {None}
    BY <1>2, <1>5 DEF LeaveEquipment, Wears, Working, SInv, NInv, IInv, JobOK, Step
  <2>2. InOrder(v) /\ Held(v, o) /\ o \in Obj
    BY <1>1, <2>1, OrderUnequip
  <2> HIDE DEF v, o
  <2>3. InOrder(ToRoom(v, o, w.at[job.who]))
    BY <2>1, <2>2, OrderToRoom
  <2>4. QED
    BY <2>1, <2>3, OrderSound
<1>6. ASSUME Left("leave") PROVE Sound(w')
  <2>1. job.who \in Char /\ w' = LeaveRoom(w, job.who)
    BY <1>6 DEF Left, Finish, Working, SInv, NInv, IInv, JobOK
  <2>2. QED
    BY <1>1, <2>1, LeaveRoomSound
<1>7. ASSUME NEW m \in Mob, NEW k \in Obj, Die(m, k) PROVE Sound(w')
  <2>1. /\ m \in Char /\ k \notin w.alive /\ Kind[k] = "corpse"
        /\ w' = InCorpse(w, m, k)
    BY <1>2, <1>7 DEF Die, Begin
  <2>2. QED
    BY <1>1, <2>1, InCorpseSound
<1>8. ASSUME NEW p \in Pos, CorpseEquipment(p) PROVE Sound(w')
  <2> DEFINE v == Unequip(w, job.who, p)
             o == w.eq[job.who][p]
             k == job.obj
  <2>1. /\ job.who \in Char /\ o # None
        /\ Unplaced(w, k) /\ k \in Obj /\ k \in w.alive
        /\ w' = ToObj(v, o, k)
    BY <1>8 DEF CorpseEquipment, Wears, Working, SInv, NInv, IInv, JobOK, Step
  <2>2. InOrder(v) /\ Held(v, o) /\ o \in Obj
    BY <1>1, <2>1, OrderUnequip
  <2>3. v.inObj = w.inObj /\ k # o /\ v.alive = w.alive
    BY <1>1, <2>1, UnequipHeld DEF SameNesting
  <2> HIDE DEF v, o, k
  <2>4. v.inObj[k] = None
    BY <2>1, <2>3 DEF Unplaced
  <2>5. k \notin Inside(v, o)
    BY <2>1, <2>2, <2>3, <2>4, OutermostInside
  <2>6. InOrder(ToObj(v, o, k))
    BY <2>1, <2>2, <2>3, <2>5, OrderToObj
  <2>7. QED
    BY <2>1, <2>6, OrderSound
<1>9. ASSUME CorpseDone PROVE Sound(w')
  <2> DEFINE v == ToRoom(w, job.obj, w.at[job.who])
  <2>1. /\ job.who \in Char /\ job.obj \in w.alive
        /\ Unplaced(w, job.obj) /\ job.obj \in Obj
        /\ w' = LeaveRoom(v, job.who)
        /\ w.at[job.who] \in Room \union {None}
    BY <1>2, <1>9 DEF CorpseDone, Working, SInv, NInv, IInv, JobOK, Finish
  <2>2. InOrder(v)
    BY <1>1, <2>1, OrderToRoom DEF Held
  <2> HIDE DEF v
  <2>3. Sound(LeaveRoom(v, job.who))
    BY <2>1, <2>2, LeaveRoomSound DEF InOrder
  <2>4. QED
    BY <2>1, <2>3
<1>10. QED
  BY <1>3, <1>4, <1>5, <1>6, <1>7, <1>8, <1>9 DEF Ends

LEMMA UpdateSum == SInv /\ Update => Sound(w')
<1> SUFFICES ASSUME SInv, Update PROVE Sound(w')
  OBVIOUS
<1>1. InOrder(w) /\ w \in World /\ Good(w) /\ Climbs(w) /\ Sound(w)
  BY SInvOrder DEF InOrder
<1>2. ASSUME NEW c \in Char, Burn(c) PROVE Sound(w')
  <2>1. w' = Burnt(w, c) /\ w.at[c] # None /\ IsLit(w, w.eq[c][LightPos])
    BY <1>2 DEF Burn, Do, Acts
  <2>2. QED
    BY <1>1, <2>1, BurntSound
<1>3. ASSUME StartUpdate \/ PassBy \/ Decay PROVE Sound(w')
  BY <1>1, <1>3 DEF StartUpdate, PassBy, Decay, Begin
<1>4. ASSUME NEW o \in Obj, Spill(o) PROVE Sound(w')
  <2>1. job.obj \in Obj /\ w' = Spilled(w, o, job.obj)
    BY <1>4 DEF Spill, Step, Working, SInv, NInv, IInv, JobOK
  <2>2. w.inObj[o] = job.obj
    BY <1>1, <1>4, <2>1, ListedAlive DEF Spill
  <2>3. QED
    BY <1>1, <2>1, <2>2, OrderSpilled, OrderSound
<1>5. ASSUME DecayDone PROVE Sound(w')
  <2>1. job.obj \in Obj /\ w' = Extract(w, job.obj)
    BY <1>5 DEF DecayDone, Working, SInv, NInv, IInv, JobOK
  <2>2. QED
    BY <1>1, <2>1, OrderExtract, OrderSound
<1>6. QED
  BY <1>2, <1>3, <1>4, <1>5 DEF Update

-----------------------------------------------------------------------------
LEMMA InitSInv == Init => SInv
<1> SUFFICES ASSUME Init PROVE SInv
  OBVIOUS
<1>1. NInv
  BY InitNInv
<1>2. /\ w.alive = {}
      /\ w.carrying = [c \in Char |-> {}] /\ w.weight = [o \in Obj |-> 0]
      /\ w.carryW = [c \in Char |-> 0] /\ w.carryN = [c \in Char |-> 0]
      /\ w.wornOn = [o \in Obj |-> None]
      /\ w.eq = [c \in Char |-> [p \in Pos |-> None]]
      /\ w.light = [r \in Room |-> 0]
  BY DEF Init
<1>3. None \notin Room /\ LightPos \in Pos
  BY PopulationAssumption
<1>4. w.weight \in [Obj -> Int] /\ {} \in SUBSET Obj
  BY <1>2
<1>5. Total({}, w.weight) = 0
  BY <1>4, SumOf
<1>6. Cardinality({}) = 0
  BY FS_EmptySet
<1>7. Weighed(w, Own(w))
  BY <1>2 DEF Weighed
<1>8. Carried(w)
  BY <1>2, <1>5, <1>6 DEF Carried
<1>9. Dressed(w) /\ Full(w)
  BY <1>2 DEF Dressed, Full
<1>10. Lit(w)
  <2> SUFFICES ASSUME NEW r \in Room
               PROVE  w.light[r] = Cardinality({c \in Char : Shines(w, c) = r})
    BY DEF Lit
  <2>1. \A c \in Char : w.eq[c][LightPos] = None
    BY <1>2, <1>3
  <2>2. \A c \in Char : Shines(w, c) = None
    BY <2>1 DEF Shines, IsLit
  <2>3. {c \in Char : Shines(w, c) = r} = {}
    BY <1>3, <2>2
  <2>4. QED
    BY <1>2, <1>6, <2>3
<1>11. QED
  BY <1>1, <1>7, <1>8, <1>9, <1>10 DEF SInv, Sound, Balanced

LEMMA NextSInv == SInv /\ Careful /\ [Next]_vars => SInv'
<1> SUFFICES ASSUME SInv, Careful, [Next]_vars PROVE SInv'
  OBVIOUS
<1>1. NInv'
  BY NextNInv DEF SInv
<1>2. CASE Next
  <2>1. Sound(w')
    BY <1>2, ResetsSum, CommandsSum, SpellsSum, EndsSum, UpdateSum DEF Next
  <2>2. Sound(w)'
    BY <2>1 DEF Sound, Balanced, Weighed, Carried, Own, Liquid, Dressed, Full,
                Lit, Shines, IsLit
  <2>3. QED
    BY <1>1, <2>2 DEF SInv
<1>3. CASE UNCHANGED vars
  <2>1. Sound(w)'
    BY <1>3 DEF vars, SInv, Sound, Balanced, Weighed, Carried, Own, Liquid,
                Dressed, Full, Lit, Shines, IsLit
  <2>2. QED
    BY <1>1, <2>1 DEF SInv
<1>4. QED
  BY <1>2, <1>3

LEMMA WeighedAddsUp == SInv => WeightsAddUp
<1> SUFFICES ASSUME SInv, NEW o \in w.alive
             PROVE  w.weight[o] = Empty[o] + Liquid(w, o)
                                  + Total(w.contains[o], w.weight)
  BY DEF WeightsAddUp
<1>1. o \in Obj
  BY SInvOrder DEF World
<1>2. w.weight[o] = Own(w)[o] + Total(w.contains[o], w.weight)
  BY DEF SInv, Sound, Balanced, Weighed
<1>3. QED
  BY <1>1, <1>2 DEF Own

LEMMA LitAddsUp == SInv /\ Wand = {} => LightAddsUp
<1> SUFFICES ASSUME SInv, Wand = {}, NEW r \in Room
             PROVE  w.light[r] = Cardinality({c \in Char : w.at[c] = r
                                              /\ IsLit(w, w.eq[c][LightPos])})
  BY DEF LightAddsUp
<1>1. w.light[r] = Cardinality({c \in Char : Shines(w, c) = r})
  BY DEF SInv, Sound, Lit
<1>2. r # None
  BY PopulationAssumption
<1>3. {c \in Char : Shines(w, c) = r}
        = {c \in Char : w.at[c] = r /\ IsLit(w, w.eq[c][LightPos])}
  BY <1>2 DEF Shines
<1>4. QED
  BY <1>1, <1>3

(* Where nobody fills worn flasks by magic, the weights of containers and  *)
(* of what characters carry are right whatever lights the wand puts out.   *)
THEOREM TheWeightsAddUp ==
    ASSUME Careful
    PROVE  Spec => [](WeightsAddUp /\ CarriedAddsUp)
<1>1. SInv => WeightsAddUp /\ CarriedAddsUp
  BY WeighedAddsUp DEF SInv, Sound, Balanced, Carried, CarriedAddsUp
<1>2. SInv /\ [Next]_vars => SInv'
  BY NextSInv
<1>3. QED
  BY <1>1, <1>2, InitSInv, PTL DEF Spec

(* Where nobody fills worn flasks by magic or uses the wand of wonder, the *)
(* totals that handler.c keeps by hand are right for any number of         *)
(* objects at any depth of nesting: what a container weighs, what a        *)
(* character carries, and how many lights burn in a room.                  *)
THEOREM TheSumsAddUp ==
    ASSUME Careful, Wand = {}
    PROVE  Spec => []SumsAddUp
<1>1. SInv => SumsAddUp
  <2>1. SInv => CarriedAddsUp
    BY DEF SInv, Sound, Balanced, Carried, CarriedAddsUp
  <2>2. QED
    BY <2>1, WeighedAddsUp, LitAddsUp DEF SumsAddUp
<1>2. SInv /\ [Next]_vars => SInv'
  BY NextSInv
<1>3. QED
  BY <1>1, <1>2, InitSInv, PTL DEF Spec

(* Where moreover no player with too much thirst drinks and no prototype   *)
(* is overfull, drinking, pouring and filling leave every flask between    *)
(* empty and full and no lighter than its liquid, in any container.        *)
THEOREM LiquidsAreWeighed ==
    ASSUME Careful, Sober
    PROVE  Spec => []LiquidsWeighed
<1>1. SInv => LiquidsWeighed
  <2> SUFFICES ASSUME SInv, NEW o \in w.alive, Drinkable(o)
               PROVE  w.units[o] \in 0 .. Capacity[o]
                      /\ w.units[o] <= w.weight[o]
    BY WeighedAddsUp DEF LiquidsWeighed, LiquidBounded, Drinkable
  <2>1. InOrder(w) /\ w \in World
    BY SInvOrder
  <2>2. w.units[o] \in Int /\ Capacity[o] \in Int
    BY <2>1, ValueAssumption DEF World
  <2>3. w.units[o] >= 0 /\ w.units[o] <= Capacity[o]
    BY <2>1 DEF InOrder, Sound, Full
  <2>4. w.units[o] <= w.weight[o]
    BY <2>1, WeightOfLiquid DEF InOrder
  <2>5. QED
    BY <2>2, <2>3, <2>4
<1>2. SInv /\ [Next]_vars => SInv'
  BY NextSInv
<1>3. QED
  BY <1>1, <1>2, InitSInv, PTL DEF Spec

=============================================================================
