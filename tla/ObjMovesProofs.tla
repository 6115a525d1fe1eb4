-------------------------- MODULE ObjMovesProofs --------------------------
(***************************************************************************)
(* Objects on their way, for all objects, rooms and characters, on top of  *)
(* what ObjWorldProofs shows of single places: no container is ever inside *)
(* itself (NoContainerLoop), point_update walks along objects that are     *)
(* allocated (SuccessorLives), and no step leaves an object nowhere        *)
(* (NothingIsLost).                                                        *)
(*                                                                         *)
(* That there is an outermost container above every object does not tell   *)
(* how to go on after a step, so it is strengthened to a property of sets: *)
(* every set of objects has one that is not in another of the set.         *)
(***************************************************************************)
EXTENDS ObjWorldProofs

Climbs(v) ==
    \A S \in SUBSET Obj : S # {} => \E x \in S : v.inObj[x] \notin S

-----------------------------------------------------------------------------
(* Inside is transitive, and the least set of its kind.                    *)
LEMMA InsideLeast ==
    ASSUME NEW v, NEW o \in Obj, NEW S \in SUBSET Obj, o \in S,
           \A y \in Obj : v.inObj[y] \in S => y \in S
    PROVE  Inside(v, o) \subseteq S
BY DEF Inside

LEMMA InsideTransitive ==
    ASSUME NEW v, NEW a \in Obj, NEW b \in Inside(v, a)
    PROVE  b \in Obj /\ Inside(v, b) \subseteq Inside(v, a)
BY InsideClosed, InsideLeast

(* What is in a thing that is in o is in o.                                *)
LEMMA InsideParent ==
    ASSUME NEW v, NEW o \in Obj, v.inObj[o] \in Obj
    PROVE  o \in Inside(v, v.inObj[o])
BY InsideClosed

(* An object that is in nothing is inside itself only.                     *)
LEMMA OutermostInside ==
    ASSUME NEW v, NEW o \in Obj, NEW k \in Obj, v.inObj[k] = None, k # o
    PROVE  k \notin Inside(v, o)
<1>1. Inside(v, o) \subseteq Obj /\ None \notin Obj
  BY PopulationAssumption DEF Inside
<1>2. QED
  BY <1>1, InsideClosed

(* No two objects are inside each other.                                   *)
LEMMA InsideAsymmetric ==
    ASSUME NEW v, Climbs(v), NEW a \in Obj, NEW b \in Inside(v, a),
           a \in Inside(v, b)
    PROVE  a = b
<1> DEFINE S == {x \in Inside(v, a) : a \in Inside(v, x)}
<1>1. S \in SUBSET Obj /\ a \in S
  BY InsideClosed
<1>2. SUFFICES ASSUME a # b PROVE \A x \in S : v.inObj[x] \in S
  BY <1>1 DEF Climbs
<1>3. TAKE x \in S
<1>4. x \in Obj /\ b \in Obj /\ x \in Inside(v, a) /\ a \in Inside(v, x)
  BY <1>1, <1>3, InsideClosed
<1>5. v.inObj[x] \in Inside(v, a)
  <2>1. CASE x # a
    BY <1>4, <2>1, InsideClosed
  <2>2. CASE x = a
    <3>1. v.inObj[a] \in Inside(v, b)
      BY <1>2, <1>4, InsideClosed
    <3>2. QED
      BY <2>2, <3>1, InsideTransitive
  <2>3. QED
    BY <2>1, <2>2
<1>6. a \in Inside(v, v.inObj[x])
  <2>1. v.inObj[x] \in Obj
    BY <1>5, InsideClosed
  <2>2. x \in Inside(v, v.inObj[x])
    BY <1>4, <2>1, InsideParent
  <2>3. QED
    BY <1>4, <2>1, <2>2, InsideTransitive
<1>7. QED
  BY <1>5, <1>6

(* Hence above every object there is one, or the object is one itself,     *)
(* that is in nothing.                                                     *)
LEMMA ClimbsToTop ==
    ASSUME NEW v \in World, Climbs(v), NEW o \in Obj
    PROVE  \E x \in Above(v, o) \union {o} : v.inObj[x] = None
<1> DEFINE S == Above(v, o) \union {o}
<1>1. S \in SUBSET Obj /\ S # {}
  BY DEF Above
<1> HIDE DEF S
<1>2. PICK x \in S : v.inObj[x] \notin S
  BY <1>1 DEF Climbs
<1> DEFINE y == v.inObj[x]
<1>3. x \in Obj /\ o \in Inside(v, x)
  BY <1>1, InsideClosed DEF Above, S
<1>4. SUFFICES ASSUME y # None PROVE FALSE
  BY DEF S
<1>5. y \in Obj
  BY <1>3, <1>4 DEF World
<1>6. o \in Inside(v, y)
  BY <1>3, <1>5, InsideParent, InsideTransitive
<1>7. y \in S
  BY <1>5, <1>6 DEF Above, S
<1>8. QED
  BY <1>2, <1>7

-----------------------------------------------------------------------------
(* What leaves an object where it is, or takes it out of what it is in.    *)
Shrinks(u, v) == \A x \in Obj : u.inObj[x] \in {v.inObj[x], None}

LEMMA ShrinkingClimbs ==
    ASSUME NEW v, NEW u, Climbs(v), Shrinks(u, v)
    PROVE  Climbs(u)
<1> SUFFICES ASSUME NEW S \in SUBSET Obj, S # {}
             PROVE  \E x \in S : u.inObj[x] \notin S
  BY DEF Climbs
<1>1. PICK x \in S : v.inObj[x] \notin S
  BY DEF Climbs
<1>2. None \notin S
  BY PopulationAssumption
<1>3. QED
  BY <1>1, <1>2 DEF Shrinks

(* What goes into another object must not have it inside.                  *)
LEMMA NestingClimbs ==
    ASSUME NEW v, NEW u, Climbs(v), NEW o \in Obj, NEW k \in Obj,
           k \notin Inside(v, o), u.inObj[o] = k,
           \A x \in Obj \ {o} : u.inObj[x] = v.inObj[x]
    PROVE  Climbs(u)
<1> SUFFICES ASSUME NEW S \in SUBSET Obj, S # {}
             PROVE  \E x \in S : u.inObj[x] \notin S
  BY DEF Climbs
<1> DEFINE T == S \ Inside(v, o)
<1>1. CASE T = {}
  <2>1. k \notin S
    BY <1>1
  <2>2. CASE o \in S
    BY <2>1, <2>2
  <2>3. CASE o \notin S
    BY <2>3 DEF Climbs
  <2>4. QED
    BY <2>2, <2>3
<1>2. CASE T # {}
  <2>1. PICK x \in T : v.inObj[x] \notin T
    BY <1>2 DEF Climbs
  <2>2. x \in Obj /\ x # o /\ x \in S /\ v.inObj[x] \notin Inside(v, o)
    BY <2>1, InsideClosed
  <2>3. u.inObj[x] \notin S
    BY <2>1, <2>2
  <2>4. QED
    BY <2>2, <2>3
<1>3. QED
  BY <1>1, <1>2

(* Everything that is in o after a step that only takes things out was in  *)
(* it before.                                                              *)
LEMMA InsideShrinks ==
    ASSUME NEW v, NEW u, Shrinks(u, v), NEW o \in Obj
    PROVE  Inside(u, o) \subseteq Inside(v, o)
<1> DEFINE S == Inside(v, o)
<1>1. /\ S \in SUBSET Obj /\ o \in S
      /\ \A y \in Obj : v.inObj[y] \in S => y \in S
  BY InsideClosed
<1> HIDE DEF S
<1>2. None \notin S
  BY <1>1, PopulationAssumption
<1>3. \A y \in Obj : u.inObj[y] \in S => y \in S
  BY <1>1, <1>2 DEF Shrinks
<1>4. Inside(u, o) \subseteq S
  BY <1>1, <1>3, InsideLeast
<1>5. QED
  BY <1>4 DEF S

(* What has just been taken out of j may go into whatever j is in, or back *)
(* into j.                                                                 *)
LEMMA OutOfItIsNotAbove ==
    ASSUME NEW v, NEW u, Climbs(v), Shrinks(u, v), NEW o \in Obj,
           NEW k \in Obj, o \in Inside(v, k), k # o
    PROVE  k \notin Inside(u, o)
BY InsideShrinks, InsideAsymmetric

-----------------------------------------------------------------------------
(* What only takes things out of containers.                               *)
LEMMA FromObjShrinks ==
    ASSUME NEW v \in World, NEW o \in Obj
    PROVE  Shrinks(FromObj(v, o), v)
<1> DEFINE B == [v.inObj EXCEPT ![o] = None]
<1>1. B \in [Obj -> Obj \union {None}]
      /\ \A x \in Obj : B[x] \in {v.inObj[x], None}
  BY DEF World
<1>2. FromObj(v, o).inObj = B
  BY DEF FromObj, World
<1>3. QED
  BY <1>1, <1>2 DEF Shrinks

(* What extract_obj does before it frees the object frees nothing.         *)
LEMMA DetachShrinks ==
    ASSUME NEW v, NEW o \in Obj, Good(v)
    PROVE  Shrinks(Detach(v, o), v) /\ Detach(v, o).alive = v.alive
<1>1. v \in World /\ Consistent(v)
  BY DEF Good
<1> DEFINE v1 == IF v.wornBy[o] # None
                 THEN Unequip(v, v.wornBy[o], v.wornOn[o]) ELSE v
           d  == Detach(v, o)
<1>2. v1.inObj = v.inObj /\ v1.alive = v.alive /\ v1 \in World
  <2>1. CASE v.wornBy[o] # None
    <3>1. v.wornBy[o] \in Char /\ v.wornOn[o] \in Pos
          /\ v.eq[v.wornBy[o]][v.wornOn[o]] = o /\ o # None
      BY <1>1, <2>1, PopulationAssumption
         DEF World, Consistent, EquipmentAgrees
    <3>2. Held(Unequip(v, v.wornBy[o], v.wornOn[o]), o)
      BY <3>1, UnequipHeld
    <3>3. Unequip(v, v.wornBy[o], v.wornOn[o]).inObj = v.inObj
          /\ Unequip(v, v.wornBy[o], v.wornOn[o]).alive = v.alive
      BY <1>1 DEF Unequip, World
    <3>4. QED
      BY <2>1, <3>2, <3>3 DEF Held, Good
  <2>2. CASE v.wornBy[o] = None
    BY <1>1, <2>2
  <2>3. QED
    BY <2>1, <2>2
<1>3. d = IF v1.inRoom[o] # None THEN FromRoom(v1, o)
          ELSE IF v1.carriedBy[o] # None THEN FromChar(v1, o)
          ELSE IF v1.inObj[o] # None THEN FromObj(v1, o)
          ELSE v1
  BY DEF Detach
<1> HIDE DEF v1, d
<1>4. FromRoom(v1, o).inObj = v1.inObj /\ FromChar(v1, o).inObj = v1.inObj
  BY <1>2 DEF FromRoom, FromChar, World
<1>5. FromRoom(v1, o).alive = v1.alive /\ FromChar(v1, o).alive = v1.alive
      /\ FromObj(v1, o).alive = v1.alive
  BY <1>2 DEF FromRoom, FromChar, FromObj, World
<1>6. Shrinks(FromObj(v1, o), v1)
  BY <1>2, FromObjShrinks
<1>7. QED
  BY <1>2, <1>3, <1>4, <1>5, <1>6 DEF Shrinks, d

(* extract_obj takes the object out of what it is in, and frees it and     *)
(* what is in it.                                                          *)
LEMMA ExtractShrinks ==
    ASSUME NEW v, NEW o \in Obj, Good(v)
    PROVE  /\ Shrinks(Extract(v, o), v)
           /\ Extract(v, o).alive = v.alive \ Inside(Detach(v, o), o)
<1> DEFINE d == Detach(v, o)
<1>1. d \in World
  BY DetachGood DEF Good
<1>2. Shrinks(d, v) /\ d.alive = v.alive
  BY DetachShrinks
<1>3. Extract(v, o) = Erase(d, o)
  BY DEF Extract
<1> HIDE DEF d
<1> DEFINE u == Erase(d, o)
           dead == Inside(d, o)
<1>4. /\ u \in World
      /\ u.alive = d.alive \ dead
      /\ u.inObj = [x \in Obj |-> IF x \in dead THEN None ELSE d.inObj[x]]
      /\ u.contains = [x \in Obj |-> IF x \in dead THEN {} ELSE d.contains[x]]
  BY <1>1, EraseFields
<1> HIDE DEF u, dead
<1>5. QED
  BY <1>2, <1>3, <1>4 DEF Shrinks, u, dead, d

LEMMA ToRoomShrinks ==
    ASSUME NEW v, NEW o \in Obj, NEW r, Good(v)
    PROVE  Shrinks(ToRoom(v, o, r), v)
<1>1. v \in World
  BY DEF Good
<1>2. CASE v.weight[o] > 0 /\ r \in Water /\ o \notin NoSink
  BY <1>2, ExtractShrinks DEF ToRoom
<1>3. CASE ~ (v.weight[o] > 0 /\ r \in Water /\ o \notin NoSink)
  <2>1. ToRoom(v, o, r).inObj = v.inObj
    BY <1>1, <1>3 DEF ToRoom, World
  <2>2. QED
    BY <2>1 DEF Shrinks
<1>4. QED
  BY <1>2, <1>3

LEMMA SameShrinks ==
    ASSUME NEW v, NEW u, u.inObj = v.inObj
    PROVE  Shrinks(u, v)
BY DEF Shrinks

LEMMA ToObjNests ==
    ASSUME NEW v \in World, NEW o \in Obj, NEW k \in Obj, o # k
    PROVE  /\ ToObj(v, o, k) \in World
           /\ ToObj(v, o, k).inObj = [v.inObj EXCEPT ![o] = k]
<1> DEFINE u == ToObj(v, o, k)
<1>1. /\ u \in World
      /\ u.alive = v.alive
      /\ u.inObj = [v.inObj EXCEPT ![o] = k]
      /\ u.contains = [v.contains EXCEPT ![k] = @ \union {o}]
  BY ToObjFields
<1> HIDE DEF u
<1>2. QED
  BY <1>1 DEF u

(* obj_to_obj, of an object that does not have the container inside.       *)
LEMMA ToObjClimbs ==
    ASSUME NEW v \in World, Climbs(v), NEW o \in Obj, NEW k \in Obj,
           k \notin Inside(v, o)
    PROVE  Climbs(ToObj(v, o, k))
<1>1. o # k
  BY InsideClosed
<1> DEFINE u == ToObj(v, o, k)
<1>2. u \in World /\ u.inObj = [v.inObj EXCEPT ![o] = k]
  BY <1>1, ToObjNests
<1> HIDE DEF u
<1>3. u.inObj[o] = k /\ \A x \in Obj \ {o} : u.inObj[x] = v.inObj[x]
  BY <1>2 DEF World
<1>4. Climbs(u)
  BY <1>3, NestingClimbs
<1>5. QED
  BY <1>4 DEF u

(* weight_change_object puts an object back into what it was in.           *)
LEMMA WeightChangedNested ==
    ASSUME NEW v, Good(v), Climbs(v), NEW o \in Obj, NEW n \in Int
    PROVE  WeightChanged(v, o, n).inObj = v.inObj
<1> DEFINE heavier(u) == [u EXCEPT !.weight[o] = @ + n]
<1>1. v \in World
  BY DEF Good
<1>2. CASE v.inRoom[o] # None
  BY <1>1, <1>2 DEF WeightChanged, World
<1>3. CASE v.inRoom[o] = None /\ v.carriedBy[o] # None
  <2> DEFINE v1 == FromChar(v, o)
             v2 == heavier(v1)
  <2>1. WeightChanged(v, o, n) = ToChar(v2, o, v.carriedBy[o])
    BY <1>3 DEF WeightChanged
  <2>2. v1 \in World /\ v1.inObj = v.inObj
    BY <1>1, <1>3, FromCharHeld DEF Held, Good, SameNesting
  <2>3. Good(v1)
    BY <1>3, FromCharHeld DEF Held
  <2> HIDE DEF v1
  <2>4. v2 \in World /\ v2.inObj = v1.inObj
    BY <2>2, <2>3, HeavierGood DEF Good, World
  <2> HIDE DEF v2
  <2>5. ToChar(v2, o, v.carriedBy[o]).inObj = v2.inObj
    BY <2>4 DEF ToChar, World
  <2>6. QED
    BY <2>1, <2>2, <2>4, <2>5
<1>4. CASE v.inRoom[o] = None /\ v.carriedBy[o] = None /\ v.inObj[o] # None
  <2> DEFINE v1 == FromObj(v, o)
             v2 == heavier(v1)
             k  == v.inObj[o]
  <2>1. WeightChanged(v, o, n) = ToObj(v2, o, k)
    BY <1>4 DEF WeightChanged
  <2>2. k \in Obj
    BY <1>1, <1>4 DEF World
  <2>3. k # o
    <3>1. {o} \in SUBSET Obj /\ {o} # {}
      OBVIOUS
    <3>2. QED
      BY <3>1 DEF Climbs
  <2>4. v1.inObj = [v.inObj EXCEPT ![o] = None]
    BY <1>1, <2>2, FromObjFields
  <2>5. Good(v1) /\ v1 \in World
    BY <1>4, FromObjHeld DEF Held, Good
  <2> HIDE DEF v1, k
  <2>6. v2 \in World /\ v2.inObj = v1.inObj
    BY <2>5, HeavierGood DEF Good, World
  <2> HIDE DEF v2
  <2> DEFINE u == ToObj(v2, o, k)
  <2>7. u.inObj = [v2.inObj EXCEPT ![o] = k]
    BY <2>2, <2>3, <2>6, ToObjNests
  <2>8. [v2.inObj EXCEPT ![o] = k] = v.inObj
    BY <1>1, <2>4, <2>6 DEF World, k
  <2>9. QED
    BY <2>1, <2>7, <2>8
<1>5. CASE v.inRoom[o] = None /\ v.carriedBy[o] = None /\ v.inObj[o] = None
  BY <1>5 DEF WeightChanged
<1>6. QED
  BY <1>2, <1>3, <1>4, <1>5

(* make_corpse nests the inventory in a corpse that nothing else is in and *)
(* that is in nothing.                                                     *)
LEMMA InCorpseClimbs ==
    ASSUME NEW v, Good(v), Climbs(v), NEW c \in Char, NEW k \in Obj,
           k \notin v.alive
    PROVE  Climbs(InCorpse(v, c, k))
<1> DEFINE u == InCorpse(v, c, k)
           X == v.carrying[c]
<1>1. v \in World /\ Consistent(v)
  BY DEF Good
<1>2. u.inObj = [o \in Obj |-> IF o \in X THEN k ELSE v.inObj[o]]
  BY <1>1 DEF InCorpse, World
<1>3. Unplaced(v, k) /\ None \notin Char /\ None \notin Obj
  BY <1>1, PopulationAssumption DEF Consistent, DeadAreGone
<1>4. k \notin X
  BY <1>1, <1>3 DEF Consistent, InventoriesAgree, Unplaced
<1> HIDE DEF u, X
<1> SUFFICES ASSUME NEW S \in SUBSET Obj, S # {}
             PROVE  \E x \in S : u.inObj[x] \notin S
  BY DEF Climbs, u
<1>5. CASE k \in S
  BY <1>2, <1>3, <1>4, <1>5 DEF Unplaced
<1>6. CASE k \notin S
  <2>1. PICK x \in S : v.inObj[x] \notin S
    BY DEF Climbs
  <2>2. QED
    BY <1>2, <1>6, <2>1
<1>7. QED
  BY <1>5, <1>6

(* A thing out of a corpse does not have what the corpse is in inside.     *)
LEMMA SpilledClimbs ==
    ASSUME NEW v, Good(v), Climbs(v), NEW o \in Obj, NEW j \in Obj,
           v.inObj[o] = j
    PROVE  Climbs(Spilled(v, o, j))
<1> DEFINE v1 == FromObj(v, o)
           k == v1.inObj[j]
<1>1. v \in World /\ None \notin Obj /\ v.inObj[o] # None
  BY PopulationAssumption DEF Good
<1>2. Held(v1, o) /\ Good(v1) /\ v1 \in World
  BY <1>1, FromObjHeld DEF Held, Good
<1>3. Shrinks(v1, v)
  BY <1>1, FromObjShrinks
<1>4. Climbs(v1)
  BY <1>3, ShrinkingClimbs
<1>5. Spilled(v, o, j) =
        IF k # None THEN ToObj(v1, o, k)
        ELSE IF v1.carriedBy[j] # None THEN ToRoom(v1, o, v1.at[v1.carriedBy[j]])
        ELSE ToRoom(v1, o, v1.inRoom[j])
  BY DEF Spilled
<1> HIDE DEF v1
<1>6. CASE k # None
  <2>1. k = v.inObj[j] /\ k \in Obj
    BY <1>1, <1>2, <1>3, <1>6 DEF Shrinks, World
  <2> HIDE DEF k
  <2>2. o \in Inside(v, j) /\ j \in Inside(v, k)
    BY <2>1, InsideParent
  <2>3. o \in Inside(v, k)
    BY <2>1, <2>2, InsideTransitive
  <2>4. k # o
    <3> SUFFICES ASSUME k = o PROVE FALSE
      OBVIOUS
    <3>1. j = o
      BY <2>2, InsideAsymmetric
    <3>2. {o} \in SUBSET Obj /\ {o} # {}
      OBVIOUS
    <3>3. QED
      BY <3>1, <3>2 DEF Climbs
  <2>5. k \notin Inside(v1, o)
    BY <1>3, <2>1, <2>3, <2>4, OutOfItIsNotAbove
  <2>6. Climbs(ToObj(v1, o, k))
    BY <1>2, <1>4, <2>1, <2>5, ToObjClimbs
  <2>7. QED
    BY <1>5, <1>6, <2>6
<1>7. CASE k = None
  BY <1>2, <1>4, <1>5, <1>7, ToRoomShrinks, ShrinkingClimbs
<1>8. QED
  BY <1>6, <1>7

-----------------------------------------------------------------------------
(* The steps.                                                              *)
LEMMA ResetsClimb == IInv /\ Climbs(w) /\ Resets => Climbs(w')
<1> SUFFICES ASSUME IInv, Climbs(w), Resets PROVE Climbs(w')
  OBVIOUS
<1>1. Good(w) /\ w \in World
  BY IInvGood DEF Good
<1>2. /\ Mob \subseteq Char /\ LightPos \in Pos /\ Pos # {} /\ 0 \in Int
      /\ None \notin Obj
  BY PopulationAssumption
<1>3. ASSUME NEW m \in Mob, NEW r \in Room, ResetMob(m, r) PROVE Climbs(w')
  <2>1. w' = EnterRoom(w, m, r)
    BY <1>3 DEF ResetMob, Do
  <2>2. EnterRoom(w, m, r).inObj = w.inObj
    BY <1>1 DEF EnterRoom, World
  <2>3. QED
    BY <2>1, <2>2, SameShrinks, ShrinkingClimbs
<1>4. ASSUME NEW o \in Obj, Fresh(o)
      PROVE  /\ Good(Created(w, o)) /\ Created(w, o) \in World
             /\ Climbs(Created(w, o)) /\ Created(w, o).inObj = w.inObj
  <2>1. Good(Created(w, o)) /\ Created(w, o) \in World
    BY <1>1, <1>4, CreatedHeld DEF Fresh, Held, Good
  <2>2. Created(w, o).inObj = w.inObj
    BY <1>1 DEF Created, World
  <2>3. QED
    BY <2>1, <2>2, SameShrinks, ShrinkingClimbs
<1>5. ASSUME NEW o \in Obj, NEW r \in Room, ResetObj(o, r) PROVE Climbs(w')
  BY <1>4, <1>5, ToRoomShrinks, ShrinkingClimbs DEF ResetObj, Do
<1>6. ASSUME NEW o \in Obj, ResetPut(o) PROVE Climbs(w')
  <2> DEFINE v == Created(w, o)
  <2>1. Fresh(o) /\ w' = IF Home[o] \in w.alive THEN ToObj(v, o, Home[o]) ELSE v
    BY <1>6 DEF ResetPut, Do
  <2>2. v \in World /\ Climbs(v) /\ v.inObj = w.inObj
    BY <1>4, <2>1
  <2>3. o \notin w.alive /\ \A x \in Obj : w.inObj[x] # o
    BY <1>1, <2>1 DEF Fresh, Good, Consistent, DeadAreGone
  <2> HIDE DEF v
  <2>4. CASE Home[o] \in w.alive
    <3>1. Home[o] \in Obj /\ Home[o] # o
      BY <1>1, <2>3, <2>4 DEF World
    <3>2. {o} \in SUBSET Obj /\ o \in {o}
          /\ \A y \in Obj : v.inObj[y] \in {o} => y \in {o}
      BY <2>2, <2>3
    <3>3. Inside(v, o) \subseteq {o}
      BY <3>2, InsideLeast
    <3>4. Home[o] \notin Inside(v, o)
      BY <3>1, <3>3
    <3>5. Climbs(ToObj(v, o, Home[o]))
      BY <2>2, <3>1, <3>4, ToObjClimbs
    <3>6. QED
      BY <2>1, <2>4, <3>5
  <2>5. CASE Home[o] \notin w.alive
    BY <2>1, <2>2, <2>5
  <2>6. QED
    BY <2>4, <2>5
<1>7. ASSUME NEW o \in Obj, NEW m \in Mob, ResetGive(o, m) PROVE Climbs(w')
  <2>1. Fresh(o) /\ w' = ToChar(Created(w, o), o, m) /\ m \in Char
    BY <1>2, <1>7 DEF ResetGive, Do
  <2>2. ToChar(Created(w, o), o, m).inObj = Created(w, o).inObj
    BY <1>4, <2>1 DEF ToChar, World
  <2>3. QED
    BY <1>4, <2>1, <2>2, SameShrinks, ShrinkingClimbs
<1>8. ASSUME NEW o \in Obj, NEW m \in Mob, NEW p \in Pos, NEW z \in BOOLEAN,
             ResetEquip(o, m, p, z)
      PROVE  Climbs(w')
  <2> DEFINE v == Created(w, o)
             u == Equip(v, o, m, p, z)
  <2>1. Fresh(o) /\ w' = u /\ m \in Char
    BY <1>2, <1>8 DEF ResetEquip, Do
  <2>2. v \in World /\ Climbs(v)
    BY <1>4, <2>1
  <2> HIDE DEF v
  <2>3. u.inObj = v.inObj
    <3>1. ToChar(v, o, m).inObj = v.inObj
      BY <2>1, <2>2 DEF ToChar, World
    <3>2. QED
      BY <2>2, <3>1 DEF Equip, World
  <2>4. QED
    BY <2>1, <2>2, <2>3, SameShrinks, ShrinkingClimbs
<1>9. ASSUME NEW o \in Obj, ResetRemove(o) PROVE Climbs(w')
  <2>1. w.inRoom[o] # None /\ w' = Extract(FromRoom(w, o), o)
    BY <1>9 DEF ResetRemove, Do
  <2>2. FromRoom(w, o).inObj = w.inObj
    BY <1>1 DEF FromRoom, World
  <2>3. Good(FromRoom(w, o))
    BY <1>1, <2>1, FromRoomHeld DEF Held
  <2>4. QED
    BY <2>1, <2>2, <2>3, ExtractShrinks, SameShrinks, ShrinkingClimbs
<1>10. QED
  BY <1>3, <1>5, <1>6, <1>7, <1>8, <1>9 DEF Resets

(* Taking, adding and pouring drink-units nests nothing.                   *)
LEMMA DrunkOnlyNested ==
    ASSUME NEW v, NEW o \in Obj, NEW n \in Int, Good(v), Climbs(v)
    PROVE  Drunk(v, o, n).inObj = v.inObj /\ Emptied(v, o).inObj = v.inObj
<1> DEFINE a  == -Lesser(Lesser(n, v.units[o]), v.weight[o])
           u1 == WeightChanged(v, o, a)
           u2 == WeightChanged(v, o, -v.units[o])
<1>1. v \in World
  BY DEF Good
<1>2. a \in Int /\ -v.units[o] \in Int
  BY <1>1 DEF Lesser, World
<1>3. Drunk(v, o, n) = [u1 EXCEPT !.units[o] = @ - Lesser(n, v.units[o])]
  BY DEF Drunk
<1>4. Emptied(v, o) = [u2 EXCEPT !.units[o] = 0]
  BY DEF Emptied
<1> HIDE DEF a
<1>5. u1 \in World /\ u2 \in World
  BY <1>2, WeightChangedGood DEF Good
<1>6. u1.inObj = v.inObj /\ u2.inObj = v.inObj
  BY <1>2, WeightChangedNested
<1> HIDE DEF u1, u2
<1>7. QED
  BY <1>3, <1>4, <1>5, <1>6 DEF World

LEMMA PouredNested ==
    ASSUME NEW v, NEW o \in Obj, NEW t \in Obj, o # t, Good(v), Climbs(v)
    PROVE  Poured(v, o, t).inObj = v.inObj
<1> DEFINE m  == Lesser(Capacity[t] - v.units[t], v.units[o])
           v1 == WeightChanged(v, o, -m)
           v2 == WeightChanged(v1, t, m)
<1>1. v \in World
  BY DEF Good
<1>2. m \in Int /\ -m \in Int
  <2>1. v.units[o] \in Int /\ v.units[t] \in Int /\ Capacity[t] \in Int
    BY <1>1, ValueAssumption DEF World
  <2>2. QED
    BY <2>1 DEF Lesser
<1>3. Poured(v, o, t) = [v2 EXCEPT !.units[o] = @ - m, !.units[t] = @ + m]
  BY DEF Poured
<1> HIDE DEF m
<1>4. Good(v1) /\ v1.inObj = v.inObj
  BY <1>2, WeightChangedGood, WeightChangedNested
<1> HIDE DEF v1
<1>5. Climbs(v1)
  BY <1>4, SameShrinks, ShrinkingClimbs
<1>6. Good(v2) /\ v2.inObj = v1.inObj
  BY <1>2, <1>4, <1>5, WeightChangedGood, WeightChangedNested
<1> HIDE DEF v2
<1>7. v2 \in World
  BY <1>6 DEF Good
<1>8. QED
  BY <1>3, <1>4, <1>6, <1>7 DEF World

(* get_check_money may extract what has just been picked up.               *)
LEMMA PocketedShrinks ==
    ASSUME NEW v, NEW o \in Obj, NEW c \in Char, Held(v, o)
    PROVE  Shrinks(Pocketed(ToChar(v, o, c), c, o), v)
<1> DEFINE u == ToChar(v, o, c)
           t == FromChar(u, o)
<1>1. v \in World
  BY DEF Held, Good
<1>2. u.inObj = v.inObj
  BY <1>1 DEF ToChar, World
<1>3. Good(u) /\ u \in World /\ u.carriedBy[o] # None
  BY ToCharGood, PopulationAssumption DEF Good
<1> HIDE DEF u
<1>4. t.inObj = u.inObj
  BY <1>3 DEF FromChar, World
<1>5. Good(t)
  BY <1>3, FromCharHeld DEF Held
<1> HIDE DEF t
<1>6. Shrinks(Extract(t, o), t)
  BY <1>5, ExtractShrinks
<1>7. Shrinks(Extract(t, o), v) /\ Shrinks(u, v)
  BY <1>2, <1>4, <1>6 DEF Shrinks
<1>8. Pocketed(u, c, o) = IF Kind[o] = "money" THEN Extract(t, o) ELSE u
  BY DEF Pocketed, t
<1>9. QED
  BY <1>7, <1>8 DEF u

LEMMA CommandsClimb == IInv /\ Climbs(w) /\ Commands => Climbs(w')
<1> SUFFICES ASSUME IInv, Climbs(w), Commands PROVE Climbs(w')
  OBVIOUS
<1>1. Good(w) /\ w \in World
  BY IInvGood DEF Good
<1>2. None \notin Obj \union Char \union Room /\ LightPos \in Pos
      /\ w.at \in [Char -> Room \union {None}]
  BY <1>1, PopulationAssumption DEF World
<1>3. ASSUME NEW c \in Char, NEW o \in Obj, o \in w.carrying[c]
      PROVE  /\ Held(FromChar(w, o), o) /\ Good(FromChar(w, o))
             /\ FromChar(w, o) \in World /\ Climbs(FromChar(w, o))
             /\ FromChar(w, o).inObj = w.inObj
  <2>1. Held(FromChar(w, o), o)
    BY <1>1, <1>2, <1>3, ListedAlive, FromCharHeld
  <2>2. FromChar(w, o).inObj = w.inObj
    BY <1>1 DEF FromChar, World
  <2>3. QED
    BY <2>1, <2>2, SameShrinks, ShrinkingClimbs DEF Held, Good
<1>4. ASSUME NEW v, w' = v, v.inObj = w.inObj PROVE Climbs(w')
  BY <1>4, SameShrinks, ShrinkingClimbs
<1>5. ASSUME NEW c \in Char, NEW o \in Obj, NEW k \in Obj, Put(c, o, k)
      PROVE  Climbs(w')
  <2>1. /\ o \in w.carrying[c] /\ k # o /\ w' = ToObj(FromChar(w, o), o, k)
        /\ k \in w.carrying[c] \/ k \in w.contents[w.at[c]]
        /\ w.at[c] \in Room
    BY <1>2, <1>5 DEF Put, Do, Here, Acts
  <2>2. w.inObj[k] = None
    BY <1>1, <1>2, <2>1, ListedAlive DEF Good, Consistent, OnePlaceOnly
  <2> DEFINE v == FromChar(w, o)
  <2>3. v \in World /\ Climbs(v) /\ v.inObj[k] = None
    BY <1>3, <2>1, <2>2
  <2> HIDE DEF v
  <2>4. k \notin Inside(v, o)
    BY <2>1, <2>3, OutermostInside
  <2>5. Climbs(ToObj(v, o, k))
    BY <2>3, <2>4, ToObjClimbs
  <2>6. QED
    BY <2>1, <2>5 DEF v
<1>6. ASSUME NEW c \in Char, NEW o \in Obj, NEW k \in Obj,
             GetFromContainer(c, o, k)
      PROVE  Climbs(w')
  <2> DEFINE v == FromObj(w, o)
             u == Pocketed(ToChar(v, o, c), c, o)
  <2>1. o \in w.contains[k] /\ w' = u
    BY <1>6 DEF GetFromContainer, Do
  <2>2. w.inObj[o] # None
    BY <1>1, <1>2, <2>1, ListedAlive
  <2>3. Held(v, o) /\ Shrinks(v, w)
    BY <1>1, <2>2, FromObjHeld, FromObjShrinks
  <2> HIDE DEF v
  <2>4. Shrinks(u, v)
    BY <2>3, PocketedShrinks
  <2>5. QED
    BY <2>1, <2>3, <2>4, ShrinkingClimbs
<1>7. ASSUME NEW c \in Char, NEW o \in Obj, GetFromRoom(c, o)
      PROVE  Climbs(w')
  <2> DEFINE v == FromRoom(w, o)
             u == Pocketed(ToChar(v, o, c), c, o)
  <2>1. o \in w.contents[w.at[c]] /\ w' = u /\ w.at[c] \in Room
    BY <1>2, <1>7 DEF GetFromRoom, Do, Acts
  <2>2. w.inRoom[o] # None
    BY <1>1, <1>2, <2>1, ListedAlive
  <2>3. Held(v, o)
    BY <1>1, <2>2, FromRoomHeld
  <2>4. v.inObj = w.inObj
    BY <1>1 DEF FromRoom, World
  <2> HIDE DEF v
  <2>5. Shrinks(u, v)
    BY <2>3, PocketedShrinks
  <2>6. QED
    BY <2>1, <2>4, <2>5, SameShrinks, ShrinkingClimbs
<1>8. ASSUME NEW c \in Char, NEW o \in Obj, NEW r \in Room, Drop(c, o, r)
      PROVE  Climbs(w')
  BY <1>3, <1>8, ToRoomShrinks, ShrinkingClimbs DEF Drop, Do
<1>9. ASSUME NEW c \in Char, NEW o \in Obj, Junk(c, o) PROVE Climbs(w')
  BY <1>3, <1>9, ExtractShrinks, ShrinkingClimbs DEF Junk, Do
<1>10. ASSUME NEW c \in Char, NEW d \in Char, NEW o \in Obj, Give(c, d, o)
       PROVE  Climbs(w')
  <2> DEFINE v == FromChar(w, o)
  <2>1. o \in w.carrying[c] /\ w' = ToChar(v, o, d)
    BY <1>10 DEF Give, Do
  <2>2. v \in World /\ v.inObj = w.inObj
    BY <1>3, <2>1
  <2> HIDE DEF v
  <2>3. ToChar(v, o, d).inObj = v.inObj
    BY <2>2 DEF ToChar, World
  <2>4. QED
    BY <1>4, <2>1, <2>2, <2>3
<1>11. ASSUME NEW c \in Char, NEW o \in Obj, NEW p \in Pos, NEW z \in BOOLEAN,
              Wear(c, o, p, z)
       PROVE  Climbs(w')
  <2> DEFINE v == FromChar(w, o)
             u == Equip(v, o, c, p, z)
  <2>1. o \in w.carrying[c] /\ w' = u
    BY <1>11 DEF Wear, Do
  <2>2. v \in World /\ v.inObj = w.inObj
    BY <1>3, <2>1
  <2> HIDE DEF v
  <2>3. u.inObj = v.inObj
    <3>1. ToChar(v, o, c).inObj = v.inObj
      BY <2>2 DEF ToChar, World
    <3>2. QED
      BY <2>2, <3>1 DEF Equip, World
  <2>4. QED
    BY <1>4, <2>1, <2>2, <2>3
<1>12. ASSUME NEW c \in Char, NEW p \in Pos, Remove(c, p) PROVE Climbs(w')
  <2> DEFINE v == Unequip(w, c, p)
             o == w.eq[c][p]
  <2>1. o # None /\ w' = ToChar(v, o, c)
    BY <1>12 DEF Remove, Do
  <2>2. o \in Obj /\ v \in World /\ v.inObj = w.inObj
    BY <1>1, <2>1, UnequipHeld DEF Held, Good, SameNesting
  <2> HIDE DEF v, o
  <2>3. ToChar(v, o, c).inObj = v.inObj
    BY <2>2 DEF ToChar, World
  <2>4. QED
    BY <1>4, <2>1, <2>2, <2>3
<1>13. ASSUME NEW c \in Char, NEW o \in Obj, NEW n \in -1 .. MaxGulp,
              Drink(c, o, n)
       PROVE  Climbs(w')
  <2>1. n \in Int
    BY ValueAssumption
  <2>2. w' = Drunk(w, o, n)
    BY <1>13 DEF Drink, Do
  <2>3. Drunk(w, o, n).inObj = w.inObj
    BY <1>1, <2>1, DrunkOnlyNested
  <2>4. QED
    BY <1>4, <2>2, <2>3
<1>14. ASSUME NEW c \in Char, NEW o \in Obj, Eat(c, o) PROVE Climbs(w')
  BY <1>1, <1>14, ExtractShrinks, ShrinkingClimbs DEF Eat, Do
<1>15. ASSUME NEW c \in Char, NEW o \in Obj, PourOut(c, o) PROVE Climbs(w')
  <2>1. w' = Emptied(w, o) /\ 0 \in Int
    BY <1>15 DEF PourOut, Do
  <2>2. Emptied(w, o).inObj = w.inObj
    BY <1>1, <2>1, DrunkOnlyNested
  <2>3. QED
    BY <1>4, <2>1, <2>2
<1>16. ASSUME NEW c \in Char, NEW o \in Obj, NEW t \in Obj, Pour(c, o, t)
       PROVE  Climbs(w')
  <2>1. w' = Poured(w, o, t) /\ o # t
    BY <1>16 DEF Pour, Do
  <2>2. Poured(w, o, t).inObj = w.inObj
    BY <1>1, <2>1, PouredNested
  <2>3. QED
    BY <1>4, <2>1, <2>2
<1>17. ASSUME NEW c \in Char, NEW r \in Room, Walk(c, r) PROVE Climbs(w')
  <2> DEFINE v == LeaveRoom(w, c)
  <2>1. w' = EnterRoom(v, c, r)
    BY <1>17 DEF Walk, Do
  <2>2. v \in World
    BY <1>1, LeaveRoomGood DEF Good
  <2>3. v.inObj = w.inObj
    BY <1>1 DEF LeaveRoom, World
  <2> HIDE DEF v
  <2>4. EnterRoom(v, c, r).inObj = v.inObj
    BY <2>2 DEF EnterRoom, World
  <2>5. QED
    BY <1>4, <2>1, <2>3, <2>4
<1>18. QED
  BY <1>5, <1>6, <1>7, <1>8, <1>9, <1>10, <1>11, <1>12, <1>13, <1>14, <1>15,
     <1>16, <1>17 DEF Commands

(* Spells free things or move none.                                        *)
LEMMA SpellsClimb == IInv /\ Climbs(w) /\ Spells => Climbs(w')
<1> SUFFICES ASSUME IInv, Climbs(w), Spells PROVE Climbs(w')
  OBVIOUS
<1>1. Good(w) /\ w \in World
  BY IInvGood DEF Good
<1>2. ASSUME NEW v, w' = v, v.inObj = w.inObj PROVE Climbs(w')
  BY <1>2, SameShrinks, ShrinkingClimbs
<1>3. ASSUME NEW c \in Char, NEW o \in Obj, CreateWater(c, o)
      PROVE  Climbs(w')
  <2> DEFINE n == Capacity[o] - w.units[o]
             v == WeightChanged(w, o, n)
             u == [v EXCEPT !.units[o] = Capacity[o]]
  <2>1. n \in Int
    BY <1>1, ValueAssumption DEF World
  <2>2. Good(v) /\ v.inObj = w.inObj
    BY <1>1, <2>1, WeightChangedGood, WeightChangedNested
  <2>3. w' = u
    BY <1>3 DEF CreateWater, Do
  <2> HIDE DEF v
  <2>4. u.inObj = v.inObj
    BY <2>2 DEF Good, World
  <2>5. QED
    BY <1>2, <2>2, <2>3, <2>4
<1>4. ASSUME NEW c \in Char, NEW o \in Obj, DisintegrateObj(c, o)
      PROVE  Climbs(w')
  BY <1>1, <1>4, ExtractShrinks, ShrinkingClimbs DEF DisintegrateObj, Do
<1>5. ASSUME NEW c \in Char, LightsOut(c) PROVE Climbs(w')
  <2> DEFINE mine == w.eq[c][LightPos]
             u == [w EXCEPT !.light[w.at[c]] = 0,
                    !.units = [o \in Obj |-> IF o = mine THEN 0 ELSE @[o]]]
  <2>1. w' = u
    BY <1>5 DEF LightsOut, Do
  <2>2. u.inObj = w.inObj
    BY <1>1 DEF World
  <2> HIDE DEF u
  <2>3. QED
    BY <1>2, <2>1, <2>2
<1>6. ASSUME NEW c \in Char, NEW m \in Mob, DisintegrateChar(c, m)
      PROVE  Climbs(w')
  BY <1>6 DEF DisintegrateChar, Begin
<1>7. ASSUME NEW p \in Pos, DisintegrateEquipment(p) PROVE Climbs(w')
  <2>1. w' = Unequip(w, job.who, p)
    BY <1>7 DEF DisintegrateEquipment, Step
  <2>2. Unequip(w, job.who, p).inObj = w.inObj
    BY <1>1 DEF Unequip, World
  <2>3. QED
    BY <1>2, <2>1, <2>2
<1>8. ASSUME NEW o \in Obj, DisintegrateItem(o) PROVE Climbs(w')
  BY <1>1, <1>8, ExtractShrinks, ShrinkingClimbs DEF DisintegrateItem, Step
<1>9. ASSUME Left("disintegrate") PROVE Climbs(w')
  <2>1. w' = LeaveRoom(w, job.who)
    BY <1>9 DEF Left, Finish
  <2>2. LeaveRoom(w, job.who).inObj = w.inObj
    BY <1>1 DEF LeaveRoom, World
  <2>3. QED
    BY <1>2, <2>1, <2>2
<1>10. QED
  BY <1>3, <1>4, <1>5, <1>6, <1>7, <1>8, <1>9 DEF Spells

(* What a mobile leaves behind or takes into its corpse.                   *)
LEMMA EndsClimb == IInv /\ Climbs(w) /\ Ends => Climbs(w')
<1> SUFFICES ASSUME IInv, Climbs(w), Ends PROVE Climbs(w')
  OBVIOUS
<1>1. Good(w) /\ w \in World
  BY IInvGood DEF Good
<1>2. None \notin Obj \union Char \union Room \union Pos
      /\ w.at \in [Char -> Room \union {None}]
  BY <1>1, PopulationAssumption DEF World
<1>3. ASSUME NEW m \in Mob, Purge(m) PROVE Climbs(w')
  BY <1>3 DEF Purge, Begin
<1>4. ASSUME NEW o \in Obj, LeaveItem(o) PROVE Climbs(w')
  <2>1. job.op = "leave" /\ job.who \in Char
        /\ w' = ToRoom(FromChar(w, o), o, w.at[job.who])
    BY <1>4 DEF LeaveItem, Working, IInv, JobOK, Step
  <2>2. w.carriedBy[o] # None
    BY <1>1, <1>2, <1>4, <2>1, ListedAlive DEF LeaveItem
  <2>3. Good(FromChar(w, o))
    BY <1>1, <2>2, FromCharHeld DEF Held
  <2>4. FromChar(w, o).inObj = w.inObj
    BY <1>1 DEF FromChar, World
  <2>5. QED
    BY <2>1, <2>3, <2>4, SameShrinks, ToRoomShrinks, ShrinkingClimbs
<1>5. ASSUME NEW p \in Pos, LeaveEquipment(p) PROVE Climbs(w')
  <2> DEFINE o == w.eq[job.who][p]
             v == Unequip(w, job.who, p)
  <2>1. job.op = "leave" /\ job.who \in Char /\ o # None
        /\ w' = ToRoom(v, o, w.at[job.who])
    BY <1>5 DEF LeaveEquipment, Wears, Working, IInv, JobOK, Step
  <2>2. Good(v) /\ o \in Obj /\ v.inObj = w.inObj
    BY <1>1, <2>1, UnequipHeld DEF Held, SameNesting
  <2> HIDE DEF v, o
  <2>3. QED
    BY <2>1, <2>2, SameShrinks, ToRoomShrinks, ShrinkingClimbs
<1>6. ASSUME Left("leave") PROVE Climbs(w')
  <2>1. w' = LeaveRoom(w, job.who)
    BY <1>6 DEF Left, Finish
  <2>2. LeaveRoom(w, job.who).inObj = w.inObj
    BY <1>1 DEF LeaveRoom, World
  <2>3. QED
    BY <2>1, <2>2, SameShrinks, ShrinkingClimbs
<1>7. ASSUME NEW m \in Mob, NEW k \in Obj, Die(m, k) PROVE Climbs(w')
  BY <1>1, <1>7, InCorpseClimbs, PopulationAssumption DEF Die, Begin
<1>8. ASSUME NEW p \in Pos, CorpseEquipment(p) PROVE Climbs(w')
  <2> DEFINE v == Unequip(w, job.who, p)
             o == w.eq[job.who][p]
  <2>1. /\ job.op = "corpse" /\ job.who \in Char /\ o # None
        /\ Unplaced(w, job.obj) /\ job.obj \in Obj
        /\ w' = ToObj(v, o, job.obj)
    BY <1>8 DEF CorpseEquipment, Wears, Working, IInv, JobOK, Step
  <2>2. /\ Good(v) /\ o \in Obj /\ v.inObj = w.inObj /\ job.obj # o
        /\ v \in World
    BY <1>1, <2>1, UnequipHeld DEF Held, SameNesting, Good
  <2> HIDE DEF v, o
  <2>3. Climbs(v) /\ v.inObj[job.obj] = None
    BY <2>1, <2>2, SameShrinks, ShrinkingClimbs DEF Unplaced
  <2>4. job.obj \notin Inside(v, o)
    BY <2>1, <2>2, <2>3, OutermostInside
  <2>5. QED
    BY <2>1, <2>2, <2>3, <2>4, ToObjClimbs
<1>9. ASSUME CorpseDone PROVE Climbs(w')
  <2> DEFINE v == ToRoom(w, job.obj, w.at[job.who])
  <2>1. /\ job.who \in Char /\ job.obj \in w.alive
        /\ Unplaced(w, job.obj) /\ job.obj \in Obj
        /\ w' = LeaveRoom(v, job.who)
    BY <1>9 DEF CorpseDone, Working, IInv, JobOK, Finish
  <2>2. Good(v) /\ v \in World
    BY <1>1, <1>2, <2>1, ToRoomGood DEF Held, Good
  <2>3. Climbs(v)
    BY <1>1, <2>1, ToRoomShrinks, ShrinkingClimbs
  <2> HIDE DEF v
  <2>4. LeaveRoom(v, job.who).inObj = v.inObj
    BY <2>2 DEF LeaveRoom, World
  <2>5. QED
    BY <2>1, <2>3, <2>4, SameShrinks, ShrinkingClimbs
<1>10. QED
  BY <1>3, <1>4, <1>5, <1>6, <1>7, <1>8, <1>9 DEF Ends

(* A decaying corpse is emptied into whatever it is in.                    *)
LEMMA UpdateClimbs == IInv /\ Climbs(w) /\ Update => Climbs(w')
<1> SUFFICES ASSUME IInv, Climbs(w), Update PROVE Climbs(w')
  OBVIOUS
<1>1. Good(w) /\ w \in World
  BY IInvGood DEF Good
<1>2. ASSUME NEW c \in Char, Burn(c) PROVE Climbs(w')
  <2>1. w' = Burnt(w, c)
    BY <1>2 DEF Burn, Do
  <2>2. Burnt(w, c).inObj = w.inObj
    BY <1>1 DEF Burnt, World
  <2>3. QED
    BY <2>1, <2>2, SameShrinks, ShrinkingClimbs
<1>3. ASSUME StartUpdate \/ PassBy \/ Decay PROVE Climbs(w')
  BY <1>3 DEF StartUpdate, PassBy, Decay, Begin
<1>4. ASSUME NEW o \in Obj, Spill(o) PROVE Climbs(w')
  <2>1. job.obj \in Obj /\ w' = Spilled(w, o, job.obj)
    BY <1>4 DEF Spill, Step, Working, IInv, JobOK
  <2>2. w.inObj[o] = job.obj
    BY <1>1, <1>4, <2>1, ListedAlive DEF Spill
  <2>3. QED
    BY <1>1, <2>1, <2>2, SpilledClimbs
<1>5. ASSUME DecayDone PROVE Climbs(w')
  <2>1. job.obj \in Obj /\ w' = Extract(w, job.obj)
    BY <1>5 DEF DecayDone, Working, IInv, JobOK
  <2>2. QED
    BY <1>1, <2>1, ExtractShrinks, ShrinkingClimbs
<1>6. QED
  BY <1>2, <1>3, <1>4, <1>5 DEF Update

-----------------------------------------------------------------------------
NInv == IInv /\ Climbs(w)

LEMMA InitNInv == Init => NInv
<1> SUFFICES ASSUME Init PROVE NInv
  OBVIOUS
<1>1. IInv
  BY InitIInv
<1>2. w.inObj = [o \in Obj |-> None]
  BY DEF Init
<1>3. Climbs(w)
  BY <1>2, PopulationAssumption DEF Climbs
<1>4. QED
  BY <1>1, <1>3 DEF NInv

LEMMA NextNInv == NInv /\ [Next]_vars => NInv'
<1> SUFFICES ASSUME NInv, [Next]_vars PROVE NInv'
  OBVIOUS
<1>1. IInv /\ Climbs(w)
  BY DEF NInv
<1>2. IInv'
  BY <1>1, NextIInv
<1>3. CASE Next
  <2>1. Climbs(w')
    BY <1>1, <1>3, ResetsClimb, CommandsClimb, SpellsClimb, EndsClimb,
       UpdateClimbs DEF Next
  <2>2. QED
    BY <1>2, <2>1 DEF NInv, Climbs
<1>4. CASE UNCHANGED vars
  BY <1>1, <1>2, <1>4 DEF vars, NInv, Climbs
<1>5. QED
  BY <1>3, <1>4

(* No container is inside itself, at any depth, whatever is put into what, *)
(* worn, dropped, killed and left to decay: obj_to_obj and obj_from_obj    *)
(* always reach the outermost container.                                   *)
THEOREM NoContainerIsInItself == Spec => []NoContainerLoop
<1>1. NInv => NoContainerLoop
  <2> SUFFICES ASSUME NInv, NEW o \in w.alive
               PROVE  \E x \in Above(w, o) \union {o} : w.inObj[x] = None
    BY DEF NoContainerLoop
  <2>1. w \in World /\ Climbs(w)
    BY DEF NInv, IInv, TypeOK
  <2>2. o \in Obj
    BY <2>1 DEF World
  <2>3. QED
    BY <2>1, <2>2, ClimbsToTop
<1>2. QED
  BY <1>1, InitNInv, NextNInv, PTL DEF Spec

-----------------------------------------------------------------------------
(* What is freed.  Where nothing sinks, an object that goes into a room    *)
(* stays allocated, and so does everything else.                           *)
NothingSinks == Water = {} \/ NoSink = Obj

LEMMA SpilledAlive ==
    ASSUME NothingSinks, NEW v, Good(v), NEW o \in Obj, NEW j \in Obj,
           v.inObj[o] # None
    PROVE  Spilled(v, o, j).alive = v.alive
<1> DEFINE v1 == FromObj(v, o)
           k == v1.inObj[j]
<1>1. v1 \in World /\ v1.alive = v.alive
  BY FromObjHeld DEF Held, Good
<1>2. Spilled(v, o, j) =
        IF k # None THEN ToObj(v1, o, k)
        ELSE IF v1.carriedBy[j] # None THEN ToRoom(v1, o, v1.at[v1.carriedBy[j]])
        ELSE ToRoom(v1, o, v1.inRoom[j])
  BY DEF Spilled
<1> HIDE DEF v1
<1>3. \A r : ToRoom(v1, o, r).alive = v1.alive
  BY <1>1 DEF ToRoom, World, NothingSinks
<1>4. ToObj(v1, o, k).alive = v1.alive
  BY <1>1 DEF ToObj, World
<1>5. QED
  BY <1>1, <1>2, <1>3, <1>4

(* A corpse that has been emptied is extracted alone.                      *)
LEMMA EmptyExtracted ==
    ASSUME NEW v, Good(v), NEW j \in Obj, v.contains[j] = {}
    PROVE  Extract(v, j).alive = v.alive \ {j}
<1> DEFINE d == Detach(v, j)
<1>1. Shrinks(d, v)
  BY DetachShrinks
<1>2. \A y \in Obj : v.inObj[y] # j
  BY DEF Good, Consistent, NestingAgrees
<1>3. {j} \in SUBSET Obj /\ j \in {j} /\ None # j
  BY PopulationAssumption
<1>4. \A y \in Obj : d.inObj[y] \in {j} => y \in {j}
  BY <1>1, <1>2, <1>3 DEF Shrinks
<1>5. Inside(d, j) = {j}
  BY <1>3, <1>4, InsideLeast, InsideClosed
<1>6. QED
  BY <1>5, ExtractShrinks

(* The walk of point_update: it runs alone but for the decay of the corpse *)
(* it is at, and has passed neither its successor nor what is behind it.   *)
OnItsWay(p) ==
    /\ p.current \notin p.rest /\ p.next \notin p.rest
    /\ p.current # None => p.next # p.current
    /\ p.current = None => p.next = None

WalkInv ==
    /\ SuccessorLives /\ OnItsWay(pass)
    /\ job.op = "decay" => job.obj = pass.current
    /\ job.op \in {"leave", "corpse", "disintegrate"} => pass = NoPass

LEMMA VisitOnItsWay ==
    ASSUME NEW v \in World, NEW j \in v.alive, NEW S \in SUBSET v.alive,
           j \notin S, Visit(j, S)
    PROVE  OnItsWay(pass') /\ {pass'.current, pass'.next} \subseteq v.alive \union {None}
<1>1. None \notin v.alive
  BY PopulationAssumption DEF World
<1>2. QED
  BY <1>1 DEF OnItsWay, Visit, Successors

LEMMA AdvanceOnItsWay ==
    ASSUME NEW v \in World, OnItsWay(pass), pass.next \in v.alive \union {None},
           Advance(v)
    PROVE  OnItsWay(pass') /\ {pass'.current, pass'.next} \subseteq v.alive \union {None}
<1>1. CASE pass.next = None
  BY <1>1 DEF Advance, NoPass, OnItsWay
<1>2. CASE pass.next # None
  <2> DEFINE S == pass.rest \intersect v.alive
  <2>1. Visit(pass.next, S) /\ S \in SUBSET v.alive /\ pass.next \notin S
    BY <1>2 DEF Advance, OnItsWay
  <2>2. QED
    BY <1>2, <2>1, VisitOnItsWay
<1>3. QED
  BY <1>1, <1>2

(* What does not run beside the walk does not disturb it.                  *)
LEMMA NoWalk ==
    ASSUME pass = NoPass, pass' = NoPass,
           job'.op # "decay"
    PROVE  WalkInv'
BY DEF WalkInv, SuccessorLives, OnItsWay, NoPass

LEMMA UpdateWalks == NothingSinks /\ IInv /\ WalkInv /\ Update => WalkInv'
<1> SUFFICES ASSUME NothingSinks, IInv, WalkInv, Update PROVE WalkInv'
  OBVIOUS
<1>1. Good(w) /\ w \in World /\ pass \in Pass /\ job \in Job
  BY IInvGood DEF Good, IInv, TypeOK
<1>2. None \notin w.alive
  BY <1>1, PopulationAssumption DEF World
<1>3. ASSUME NEW c \in Char, Burn(c) PROVE WalkInv'
  BY <1>3, NoWalk DEF Burn, Acts, Quiet, Do, Idle
<1>4. ASSUME StartUpdate PROVE WalkInv'
  <2>1. PICK j \in w.alive : Visit(j, w.alive \ {j})
    BY <1>4 DEF StartUpdate
  <2>2. job = Idle /\ w' = w /\ job' = job
    BY <1>4 DEF StartUpdate, Quiet
  <2>3. OnItsWay(pass') /\ {pass'.current, pass'.next} \subseteq w.alive \union {None}
    BY <1>1, <2>1, VisitOnItsWay
  <2>4. QED
    BY <2>2, <2>3 DEF WalkInv, SuccessorLives, OnItsWay, Idle
<1>5. ASSUME PassBy PROVE WalkInv'
  <2>1. job = Idle /\ w' = w /\ job' = job /\ Advance(w)
    BY <1>5 DEF PassBy
  <2>2. OnItsWay(pass') /\ {pass'.current, pass'.next} \subseteq w.alive \union {None}
    BY <1>1, <2>1, AdvanceOnItsWay DEF WalkInv, SuccessorLives
  <2>3. QED
    BY <2>1, <2>2 DEF WalkInv, SuccessorLives, OnItsWay, Idle
<1>6. ASSUME Decay PROVE WalkInv'
  BY <1>6 DEF Decay, Begin, WalkInv, SuccessorLives, OnItsWay
<1>7. ASSUME NEW o \in Obj, Spill(o) PROVE WalkInv'
  <2>1. /\ job.op = "decay" /\ job.obj \in Obj /\ w' = Spilled(w, o, job.obj)
        /\ job' = job /\ pass' = pass
    BY <1>7 DEF Spill, Step, Working, IInv, JobOK
  <2>2. w.inObj[o] # None
    BY <1>1, <1>7, <2>1, ListedAlive, PopulationAssumption DEF Spill
  <2>3. w'.alive = w.alive
    BY <1>1, <2>1, <2>2, SpilledAlive
  <2>4. QED
    BY <2>1, <2>3 DEF WalkInv, SuccessorLives, OnItsWay
<1>8. ASSUME DecayDone PROVE WalkInv'
  <2> DEFINE v == Extract(w, job.obj)
  <2>1. /\ job.op = "decay" /\ job.obj \in Obj /\ w' = v /\ job' = Idle
        /\ job.obj = pass.current /\ w.contains[job.obj] = {} /\ Advance(v)
    BY <1>8 DEF DecayDone, Working, IInv, JobOK, WalkInv
  <2>2. v \in World /\ v.alive = w.alive \ {pass.current}
    BY <1>1, <2>1, ExtractGood, EmptyExtracted DEF Good
  <2> HIDE DEF v
  <2>3. OnItsWay(pass) /\ pass.next \in v.alive \union {None}
    BY <2>1, <2>2, PopulationAssumption DEF WalkInv, SuccessorLives, OnItsWay
  <2>4. OnItsWay(pass') /\ {pass'.current, pass'.next} \subseteq v.alive \union {None}
    BY <2>1, <2>2, <2>3, AdvanceOnItsWay
  <2>5. QED
    BY <2>1, <2>4 DEF WalkInv, SuccessorLives, OnItsWay, Idle
<1>9. QED
  BY <1>3, <1>4, <1>5, <1>6, <1>7, <1>8 DEF Update

LEMMA NextWalks == NothingSinks /\ IInv /\ WalkInv /\ [Next]_vars => WalkInv'
<1> SUFFICES ASSUME NothingSinks, IInv, WalkInv, [Next]_vars PROVE WalkInv'
  OBVIOUS
<1>1. CASE Resets
  BY <1>1, NoWalk DEF Resets, ResetMob, ResetObj, ResetPut, ResetGive,
     ResetEquip, ResetRemove, Fresh, Quiet, Do, Idle
<1>2. CASE Commands
  BY <1>2, NoWalk DEF Commands, Put, GetFromContainer, GetFromRoom, Drop, Junk,
     Give, Wear, Remove, Drink, Eat, PourOut, Pour, Walk, Acts, Quiet, Do, Idle
<1>3. CASE Spells
  <2>1. CASE \/ \E c \in Char, o \in Obj : CreateWater(c, o)
             \/ \E c \in Char, o \in Obj : DisintegrateObj(c, o)
             \/ \E c \in Char : LightsOut(c)
    <3>1. Quiet /\ UNCHANGED <<job, pass>>
      BY <2>1 DEF CreateWater, DisintegrateObj, LightsOut, Acts, Do
    <3>2. QED
      BY <3>1, NoWalk DEF Quiet, Idle
  <2>2. CASE \E c \in Char, m \in Mob : DisintegrateChar(c, m)
    BY <2>2, NoWalk DEF DisintegrateChar, Acts, Quiet, Begin
  <2>3. CASE \/ \E p \in Pos : DisintegrateEquipment(p)
             \/ \E o \in Obj : DisintegrateItem(o)
    BY <2>3, NoWalk DEF DisintegrateEquipment, DisintegrateItem, Working, Step,
       WalkInv
  <2>4. CASE Left("disintegrate")
    BY <2>4, NoWalk DEF Left, Finish, Working, WalkInv, Idle
  <2>5. QED
    BY <1>3, <2>1, <2>2, <2>3, <2>4 DEF Spells
<1>4. CASE Ends
  BY <1>4, NoWalk DEF Ends, Purge, LeaveItem, LeaveEquipment, Left, Die,
     CorpseEquipment, CorpseDone, Acts, Quiet, Idle, Begin, Working,
     Step, Finish, WalkInv
<1>5. CASE Update
  BY <1>5, UpdateWalks
<1>6. CASE UNCHANGED vars
  BY <1>6 DEF vars, WalkInv, SuccessorLives, OnItsWay
<1>7. QED
  BY <1>1, <1>2, <1>3, <1>4, <1>5, <1>6 DEF Next

(* Where nothing sinks, the object that point_update is at and the         *)
(* successor it has read are still allocated when it comes to them,        *)
(* whatever decays on the way and wherever its contents go.                *)
THEOREM TheSuccessorLives ==
    ASSUME NothingSinks
    PROVE  Spec => []SuccessorLives
<1>1. Init => IInv /\ WalkInv
  <2> SUFFICES ASSUME Init PROVE WalkInv
    BY InitIInv
  <2>1. job = Idle /\ pass = NoPass
    BY DEF Init
  <2>2. QED
    BY <2>1 DEF WalkInv, SuccessorLives, OnItsWay, NoPass, Idle
<1>2. (IInv /\ WalkInv) /\ [Next]_vars => (IInv /\ WalkInv)'
  BY NextIInv, NextWalks
<1>3. IInv /\ WalkInv => SuccessorLives
  BY DEF WalkInv
<1>4. QED
  BY <1>1, <1>2, <1>3, PTL DEF Spec

-----------------------------------------------------------------------------
(* What is where.  Most handlers move one object: the others stay where    *)
(* they are or are freed.                                                  *)
SameSpot(u, v, x) ==
    /\ u.inRoom[x] = v.inRoom[x] /\ u.carriedBy[x] = v.carriedBy[x]
    /\ u.wornBy[x] = v.wornBy[x] /\ u.wornOn[x] = v.wornOn[x]
    /\ u.inObj[x] = v.inObj[x]

Moves(u, v, o) ==
    /\ u.at = v.at /\ u.alive \subseteq v.alive \union {o}
    /\ \A x \in Obj \ {o} : SameSpot(u, v, x) \/ x \notin u.alive

LEMMA MovesTwice ==
    ASSUME NEW v, NEW u, NEW t, NEW o, Moves(u, v, o), Moves(t, u, o)
    PROVE  Moves(t, v, o)
BY DEF Moves, SameSpot

LEMMA FromCharMoves ==
    ASSUME NEW v, Good(v), NEW o \in Obj, v.carriedBy[o] # None
    PROVE  /\ Moves(FromChar(v, o), v, o)
           /\ FromChar(v, o).inObj = v.inObj /\ FromChar(v, o).eq = v.eq
<1> DEFINE u == FromChar(v, o)
<1>1. v \in World
  BY DEF Good
<1>2. /\ u.at = v.at /\ u.alive = v.alive /\ u.inRoom = v.inRoom
      /\ u.wornBy = v.wornBy /\ u.wornOn = v.wornOn /\ u.inObj = v.inObj
      /\ u.carriedBy = [v.carriedBy EXCEPT ![o] = None] /\ u.eq = v.eq
  BY <1>1 DEF FromChar, World
<1> HIDE DEF u
<1>3. \A x \in Obj \ {o} : u.carriedBy[x] = v.carriedBy[x]
  BY <1>1, <1>2 DEF World
<1>4. QED
  BY <1>2, <1>3 DEF Moves, SameSpot, u

LEMMA FromRoomMoves ==
    ASSUME NEW v, Good(v), NEW o \in Obj
    PROVE  Moves(FromRoom(v, o), v, o)
<1> DEFINE u == FromRoom(v, o)
<1>1. v \in World
  BY DEF Good
<1>2. /\ u.at = v.at /\ u.alive = v.alive /\ u.carriedBy = v.carriedBy
      /\ u.wornBy = v.wornBy /\ u.wornOn = v.wornOn /\ u.inObj = v.inObj
      /\ u.inRoom = [v.inRoom EXCEPT ![o] = None]
  BY <1>1 DEF FromRoom, World
<1> HIDE DEF u
<1>3. \A x \in Obj \ {o} : u.inRoom[x] = v.inRoom[x]
  BY <1>1, <1>2 DEF World
<1>4. QED
  BY <1>2, <1>3 DEF Moves, SameSpot, u

LEMMA FromObjMoves ==
    ASSUME NEW v, Good(v), NEW o \in Obj
    PROVE  Moves(FromObj(v, o), v, o)
<1> DEFINE u == FromObj(v, o)
<1>1. v \in World
  BY DEF Good
<1>2. /\ u.at = v.at /\ u.alive = v.alive /\ u.carriedBy = v.carriedBy
      /\ u.wornBy = v.wornBy /\ u.wornOn = v.wornOn /\ u.inRoom = v.inRoom
      /\ u.inObj = [v.inObj EXCEPT ![o] = None]
  BY <1>1 DEF FromObj, World
<1> HIDE DEF u
<1>3. \A x \in Obj \ {o} : u.inObj[x] = v.inObj[x]
  BY <1>1, <1>2 DEF World
<1>4. QED
  BY <1>2, <1>3 DEF Moves, SameSpot, u

LEMMA ToCharMoves ==
    ASSUME NEW v \in World, NEW o \in Obj, NEW c \in Char
    PROVE  /\ Moves(ToChar(v, o, c), v, o)
           /\ ToChar(v, o, c).carriedBy[o] = c
           /\ ToChar(v, o, c).wornBy = v.wornBy
<1> DEFINE u == ToChar(v, o, c)
<1>1. /\ u.at = v.at /\ u.alive = v.alive /\ u.inObj = v.inObj
      /\ u.wornBy = v.wornBy /\ u.wornOn = v.wornOn
      /\ u.inRoom = [v.inRoom EXCEPT ![o] = None]
      /\ u.carriedBy = [v.carriedBy EXCEPT ![o] = c]
  BY DEF ToChar, World
<1> HIDE DEF u
<1>2. \A x \in Obj \ {o} : u.inRoom[x] = v.inRoom[x]
                           /\ u.carriedBy[x] = v.carriedBy[x]
  BY <1>1 DEF World
<1>3. u.carriedBy[o] = c
  BY <1>1 DEF World
<1>4. QED
  BY <1>1, <1>2, <1>3 DEF Moves, SameSpot, u

LEMMA ToObjMoves ==
    ASSUME NEW v \in World, NEW o \in Obj, NEW k \in Obj, o # k
    PROVE  /\ Moves(ToObj(v, o, k), v, o)
           /\ ToObj(v, o, k).inObj[o] = k
           /\ ToObj(v, o, k).wornBy = v.wornBy
           /\ ToObj(v, o, k).carriedBy = v.carriedBy
<1> DEFINE u == ToObj(v, o, k)
<1>1. /\ u.at = v.at /\ u.alive = v.alive /\ u.carriedBy = v.carriedBy
      /\ u.wornBy = v.wornBy /\ u.wornOn = v.wornOn /\ u.inRoom = v.inRoom
      /\ u.inObj = [v.inObj EXCEPT ![o] = k]
  BY DEF ToObj, World
<1> HIDE DEF u
<1>2. u.inObj[o] = k /\ \A x \in Obj \ {o} : u.inObj[x] = v.inObj[x]
  BY <1>1 DEF World
<1>3. QED
  BY <1>1, <1>2 DEF Moves, SameSpot, u

LEMMA UnequipMoves ==
    ASSUME NEW v, Good(v), NEW c \in Char, NEW p \in Pos, v.eq[c][p] # None
    PROVE  Moves(Unequip(v, c, p), v, v.eq[c][p])
<1> DEFINE o == v.eq[c][p]
           u == Unequip(v, c, p)
<1>1. v \in World
  BY DEF Good
<1>2. /\ u.at = v.at /\ u.alive = v.alive /\ u.carriedBy = v.carriedBy
      /\ u.inRoom = v.inRoom /\ u.inObj = v.inObj
      /\ u.wornBy = [v.wornBy EXCEPT ![o] = None]
      /\ u.wornOn = [v.wornOn EXCEPT ![o] = None]
  BY <1>1 DEF Unequip, World
<1> HIDE DEF u, o
<1>3. \A x \in Obj \ {o} : u.wornBy[x] = v.wornBy[x] /\ u.wornOn[x] = v.wornOn[x]
  BY <1>1, <1>2 DEF World
<1>4. QED
  BY <1>2, <1>3 DEF Moves, SameSpot, u, o

LEMMA ExtractMoves ==
    ASSUME NEW v, Good(v), NEW o \in Obj
    PROVE  Moves(Extract(v, o), v, o) /\ o \notin Extract(v, o).alive
<1>1. v \in World /\ Consistent(v) /\ None \notin Obj
  BY PopulationAssumption DEF Good
<1> DEFINE d == Detach(v, o)
           v1 == IF v.wornBy[o] # None
                 THEN Unequip(v, v.wornBy[o], v.wornOn[o]) ELSE v
<1>2. Moves(v1, v, o) /\ Good(v1)
  <2>1. CASE v.wornBy[o] # None
    <3>1. v.wornBy[o] \in Char /\ v.wornOn[o] \in Pos
          /\ v.eq[v.wornBy[o]][v.wornOn[o]] = o /\ o # None
      BY <1>1, <2>1 DEF World, Consistent, EquipmentAgrees
    <3>2. Moves(Unequip(v, v.wornBy[o], v.wornOn[o]), v, o)
      BY <3>1, UnequipMoves
    <3>3. Good(Unequip(v, v.wornBy[o], v.wornOn[o]))
      BY <3>1, UnequipHeld DEF Held
    <3>4. QED
      BY <2>1, <3>2, <3>3
  <2>2. CASE v.wornBy[o] = None
    BY <2>2 DEF Moves, SameSpot
  <2>3. QED
    BY <2>1, <2>2
<1>3. d = IF v1.inRoom[o] # None THEN FromRoom(v1, o)
          ELSE IF v1.carriedBy[o] # None THEN FromChar(v1, o)
          ELSE IF v1.inObj[o] # None THEN FromObj(v1, o)
          ELSE v1
  BY DEF Detach
<1> HIDE DEF v1
<1>4. Good(d) /\ d \in World
  BY DetachGood DEF Good
<1> HIDE DEF d
<1>5. Moves(d, v, o)
  <2>1. CASE v1.inRoom[o] # None
    BY <1>2, <1>3, <2>1, FromRoomMoves, MovesTwice
  <2>2. CASE v1.inRoom[o] = None /\ v1.carriedBy[o] # None
    BY <1>2, <1>3, <2>2, FromCharMoves, MovesTwice
  <2>3. CASE v1.inRoom[o] = None /\ v1.carriedBy[o] = None /\ v1.inObj[o] # None
    BY <1>2, <1>3, <2>3, FromObjMoves, MovesTwice
  <2>4. CASE v1.inRoom[o] = None /\ v1.carriedBy[o] = None /\ v1.inObj[o] = None
    BY <1>2, <1>3, <2>4
  <2>5. QED
    BY <2>1, <2>2, <2>3, <2>4
<1> DEFINE u == Erase(d, o)
           dead == Inside(d, o)
<1>6. /\ u.alive = d.alive \ dead /\ u.at = d.at
      /\ u.inRoom = d.inRoom /\ u.carriedBy = d.carriedBy
      /\ u.wornBy = d.wornBy /\ u.wornOn = d.wornOn
      /\ u.inObj = [x \in Obj |-> IF x \in dead THEN None ELSE d.inObj[x]]
  BY <1>4 DEF Erase, World
<1>7. o \in dead
  BY InsideClosed
<1> HIDE DEF u, dead
<1>8. Moves(u, d, o) /\ o \notin u.alive
  BY <1>6, <1>7 DEF Moves, SameSpot
<1>9. Extract(v, o) = u
  BY DEF Extract, u, d
<1>10. QED
  BY <1>5, <1>8, <1>9, MovesTwice

LEMMA ToRoomMoves ==
    ASSUME NEW v, Good(v), NEW o \in Obj, NEW r \in Room
    PROVE  /\ Moves(ToRoom(v, o, r), v, o)
           /\ o \in ToRoom(v, o, r).alive =>
                /\ ToRoom(v, o, r).inRoom[o] = r
                /\ ToRoom(v, o, r).carriedBy[o] = None
                /\ ToRoom(v, o, r).wornBy = v.wornBy
<1> DEFINE u == ToRoom(v, o, r)
<1>1. v \in World
  BY DEF Good
<1>2. CASE v.weight[o] > 0 /\ r \in Water /\ o \notin NoSink
  BY <1>2, ExtractMoves DEF ToRoom
<1>3. CASE ~ (v.weight[o] > 0 /\ r \in Water /\ o \notin NoSink)
  <2>1. /\ u.at = v.at /\ u.alive = v.alive /\ u.wornBy = v.wornBy
        /\ u.wornOn = v.wornOn /\ u.inObj = v.inObj
        /\ u.inRoom = [v.inRoom EXCEPT ![o] = r]
        /\ u.carriedBy = [v.carriedBy EXCEPT ![o] = None]
    BY <1>1, <1>3 DEF ToRoom, World
  <2> HIDE DEF u
  <2>2. \A x \in Obj \ {o} : u.inRoom[x] = v.inRoom[x]
                             /\ u.carriedBy[x] = v.carriedBy[x]
    BY <1>1, <2>1 DEF World
  <2>3. u.inRoom[o] = r /\ u.carriedBy[o] = None
    BY <1>1, <2>1 DEF World
  <2>4. QED
    BY <2>1, <2>2, <2>3 DEF Moves, SameSpot, u
<1>4. QED
  BY <1>2, <1>3

(* Where an object may end up: with somebody who is in a room, in a room   *)
(* or container, worn, or freed; a corpse is not worn.                     *)
Lands(u, v, o) ==
    /\ Moves(u, v, o)
    /\ u.carriedBy[o] # None => u.at[u.carriedBy[o]] # None
    /\ o \in u.alive =>
          ~Unplaced(u, o) /\ (Kind[o] = "corpse" => u.wornBy[o] = None)

LEMMA ToCharLands ==
    ASSUME NEW v0, NEW v, NEW o \in Obj, NEW c \in Char, Held(v, o),
           Moves(v, v0, o), v.at[c] # None
    PROVE  Lands(ToChar(v, o, c), v0, o)
<1>1. v \in World /\ v.wornBy[o] = None /\ None # c
  BY PopulationAssumption DEF Held, Good, Unplaced
<1> DEFINE u == ToChar(v, o, c)
<1>2. Moves(u, v, o) /\ u.carriedBy[o] = c /\ u.wornBy = v.wornBy
  BY <1>1, ToCharMoves
<1> HIDE DEF u
<1>3. Moves(u, v0, o) /\ u.at = v.at
  BY <1>2, MovesTwice DEF Moves
<1>4. QED
  BY <1>1, <1>2, <1>3 DEF Lands, Unplaced, u

LEMMA ToObjLands ==
    ASSUME NEW v0, NEW v, NEW o \in Obj, NEW k \in Obj, Held(v, o),
           Moves(v, v0, o), o # k
    PROVE  Lands(ToObj(v, o, k), v0, o)
<1>1. v \in World /\ v.wornBy[o] = None /\ v.carriedBy[o] = None /\ None # k
  BY PopulationAssumption DEF Held, Good, Unplaced
<1> DEFINE u == ToObj(v, o, k)
<1>2. /\ Moves(u, v, o) /\ u.inObj[o] = k /\ u.wornBy = v.wornBy
      /\ u.carriedBy = v.carriedBy
  BY <1>1, ToObjMoves
<1> HIDE DEF u
<1>3. Moves(u, v0, o)
  BY <1>2, MovesTwice
<1>4. QED
  BY <1>1, <1>2, <1>3 DEF Lands, Unplaced, u

LEMMA ExtractLands ==
    ASSUME NEW v0, NEW v, NEW o \in Obj, Good(v), Moves(v, v0, o)
    PROVE  Lands(Extract(v, o), v0, o)
<1> DEFINE u == Extract(v, o)
<1>1. Moves(u, v, o) /\ o \notin u.alive /\ Good(u)
  BY ExtractMoves, ExtractGood
<1> HIDE DEF u
<1>2. u.carriedBy[o] = None
  BY <1>1 DEF Good, Consistent, DeadAreGone, Unplaced
<1>3. Moves(u, v0, o)
  BY <1>1, MovesTwice
<1>4. QED
  BY <1>1, <1>2, <1>3 DEF Lands, u

LEMMA ToRoomLands ==
    ASSUME NEW v0, NEW v, NEW o \in Obj, NEW r \in Room, Held(v, o),
           Moves(v, v0, o)
    PROVE  Lands(ToRoom(v, o, r), v0, o)
<1>1. Good(v) /\ v.wornBy[o] = None /\ None # r
  BY PopulationAssumption DEF Held, Unplaced
<1> DEFINE u == ToRoom(v, o, r)
<1>2. /\ Moves(u, v, o)
      /\ o \in u.alive =>
           u.inRoom[o] = r /\ u.carriedBy[o] = None /\ u.wornBy = v.wornBy
  BY <1>1, ToRoomMoves
<1>3. Good(u)
  BY ToRoomGood
<1> HIDE DEF u
<1>4. o \notin u.alive => u.carriedBy[o] = None
  BY <1>3 DEF Good, Consistent, DeadAreGone, Unplaced
<1>5. Moves(u, v0, o)
  BY <1>2, MovesTwice
<1>6. QED
  BY <1>1, <1>2, <1>4, <1>5 DEF Lands, Unplaced, u

LEMMA EquipLands ==
    ASSUME NEW v0, NEW v, NEW o \in Obj, NEW c \in Char, NEW p \in Pos,
           NEW z \in BOOLEAN, Held(v, o), Moves(v, v0, o), v.at[c] # None,
           p \in Fits[o], v.eq[c][p] = None
    PROVE  Lands(Equip(v, o, c, p, z), v0, o)
<1>1. v \in World /\ v.carriedBy[o] = None /\ None # c
  BY PopulationAssumption DEF Held, Good, Unplaced
<1>2. CASE z
  BY <1>2, ToCharLands DEF Equip
<1>3. CASE ~z
  <2> DEFINE u == Equip(v, o, c, p, z)
  <2>1. u = [v EXCEPT !.eq[c][p] = o, !.wornBy[o] = c, !.wornOn[o] = p,
                      !.light = Lighting(v, c, p, o, 1)]
    BY <1>3 DEF Equip
  <2>2. /\ u.at = v.at /\ u.alive = v.alive /\ u.carriedBy = v.carriedBy
        /\ u.inRoom = v.inRoom /\ u.inObj = v.inObj
        /\ u.wornBy = [v.wornBy EXCEPT ![o] = c]
        /\ u.wornOn = [v.wornOn EXCEPT ![o] = p]
    BY <1>1, <2>1 DEF World
  <2> HIDE DEF u
  <2>3. \A x \in Obj \ {o} : u.wornBy[x] = v.wornBy[x] /\ u.wornOn[x] = v.wornOn[x]
    BY <1>1, <2>2 DEF World
  <2>4. Moves(u, v, o)
    BY <2>2, <2>3 DEF Moves, SameSpot
  <2>5. u.wornBy[o] = c
    BY <1>1, <2>2 DEF World
  <2>6. Kind[o] # "corpse"
    BY CorpseAssumption
  <2>7. Moves(u, v0, o)
    BY <2>4, MovesTwice
  <2>8. QED
    BY <1>1, <2>2, <2>5, <2>6, <2>7 DEF Lands, Unplaced, u
<1>4. QED
  BY <1>2, <1>3

LEMMA PocketedLands ==
    ASSUME NEW v0, NEW v, NEW o \in Obj, NEW c \in Char, Held(v, o),
           Moves(v, v0, o), v.at[c] # None
    PROVE  Lands(Pocketed(ToChar(v, o, c), c, o), v0, o)
<1> DEFINE u == ToChar(v, o, c)
           t == FromChar(u, o)
<1>1. Lands(u, v0, o)
  BY ToCharLands
<1>2. Good(u) /\ u.carriedBy[o] # None
  BY ToCharGood, PopulationAssumption
<1> HIDE DEF u
<1>3. Good(t) /\ Moves(t, u, o)
  BY <1>2, FromCharHeld, FromCharMoves DEF Held
<1> HIDE DEF t
<1>4. Moves(t, v0, o)
  BY <1>1, <1>3, MovesTwice DEF Lands
<1>5. Lands(Extract(t, o), v0, o)
  BY <1>3, <1>4, ExtractLands
<1>6. Pocketed(u, c, o) = IF Kind[o] = "money" THEN Extract(t, o) ELSE u
  BY DEF Pocketed, t
<1>7. QED
  BY <1>1, <1>5, <1>6 DEF u

-----------------------------------------------------------------------------
(* Nothing is lost as long as who carries something is in a room, and a    *)
(* corpse is somewhere unless it is the corpse k that is being filled.     *)
Kept(u, v) ==
    \A o \in v.alive : ~Unplaced(v, o) /\ o \in u.alive => ~Unplaced(u, o)

Present(v) ==
    \A o \in Obj : v.carriedBy[o] # None => v.at[v.carriedBy[o]] # None

Corpses(v, k) ==
    \A o \in v.alive :
        Kind[o] = "corpse" => v.wornBy[o] = None /\ (o # k => ~Unplaced(v, o))

Secure(u, v, k) == Kept(u, v) /\ Present(u) /\ Corpses(u, k)

LEMMA LandedIsSecure ==
    ASSUME NEW v, NEW u, NEW o \in Obj, NEW k, Good(v), Good(u),
           Present(v), Corpses(v, k), Lands(u, v, o)
    PROVE  Secure(u, v, k)
<1>1. v \in World /\ u \in World
  BY DEF Good
<1>2. \A x \in Obj \ u.alive : Unplaced(u, x)
  BY DEF Good, Consistent, DeadAreGone
<1>3. \A x \in u.alive \ {o} : SameSpot(u, v, x) /\ x \in v.alive /\ x \in Obj
  BY <1>1 DEF Lands, Moves, World
<1>4. Kept(u, v)
  BY <1>3 DEF Kept, Lands, Unplaced, SameSpot
<1>5. Present(u)
  <2> SUFFICES ASSUME NEW x \in Obj, u.carriedBy[x] # None
               PROVE  u.at[u.carriedBy[x]] # None
    BY DEF Present
  <2>1. CASE x = o
    BY <2>1 DEF Lands
  <2>2. CASE x # o
    <3>1. x \in u.alive
      BY <1>2 DEF Unplaced
    <3>2. QED
      BY <1>3, <2>2, <3>1 DEF SameSpot, Present, Lands, Moves
  <2>3. QED
    BY <2>1, <2>2
<1>6. Corpses(u, k)
  BY <1>3 DEF Corpses, Lands, SameSpot, Unplaced
<1>7. QED
  BY <1>4, <1>5, <1>6 DEF Secure

(* Where nothing moves nothing is lost.                                    *)
Unmoved(u, v) ==
    u.at = v.at /\ u.alive = v.alive /\ \A x \in Obj : SameSpot(u, v, x)

LEMMA UnmovedIsSecure ==
    ASSUME NEW v \in World, NEW u, NEW k, Present(v), Corpses(v, k), Unmoved(u, v)
    PROVE  Secure(u, v, k)
<1>1. \A x \in v.alive : x \in Obj
  BY DEF World
<1>2. QED
  BY <1>1 DEF Unmoved, SameSpot, Secure, Kept, Present, Corpses, Unplaced

LEMMA UnmovedTwice ==
    ASSUME NEW v, NEW u, NEW t, Unmoved(u, v), Unmoved(t, u)
    PROVE  Unmoved(t, v)
BY DEF Unmoved, SameSpot

LEMMA HeavierUnmoved ==
    ASSUME NEW v \in World, NEW o \in Obj, NEW n \in Int
    PROVE  LET u == [v EXCEPT !.weight[o] = @ + n] IN
           /\ u \in World /\ u.alive = v.alive
           /\ u.at = v.at /\ u.inRoom = v.inRoom
           /\ u.carriedBy = v.carriedBy /\ u.wornBy = v.wornBy
           /\ u.wornOn = v.wornOn /\ u.inObj = v.inObj
<1> DEFINE W == [v.weight EXCEPT ![o] = @ + n]
<1>1. W \in [Obj -> Int]
  BY DEF World
<1>2. [v EXCEPT !.weight[o] = @ + n] = [v EXCEPT !.weight = W]
  BY DEF World
<1> HIDE DEF W
<1>3. QED
  BY <1>1, <1>2 DEF World

(* weight_change_object puts the object back where it was.                 *)
LEMMA WeightChangedUnmoved ==
    ASSUME NEW v, Good(v), Climbs(v), NEW o \in Obj, NEW n \in Int
    PROVE  Unmoved(WeightChanged(v, o, n), v)
<1> DEFINE heavier(u) == [u EXCEPT !.weight[o] = @ + n]
           t == WeightChanged(v, o, n)
<1>1. v \in World /\ OnePlaceOnly(v, o)
  BY DEF Good, Consistent
<1>2. \A u \in World :
        /\ heavier(u) \in World /\ heavier(u).alive = u.alive
        /\ heavier(u).at = u.at /\ heavier(u).inRoom = u.inRoom
        /\ heavier(u).carriedBy = u.carriedBy /\ heavier(u).wornBy = u.wornBy
        /\ heavier(u).wornOn = u.wornOn /\ heavier(u).inObj = u.inObj
  BY HeavierUnmoved
<1>3. t = IF v.inRoom[o] # None THEN heavier(v)
          ELSE IF v.carriedBy[o] # None
          THEN ToChar(heavier(FromChar(v, o)), o, v.carriedBy[o])
          ELSE IF v.inObj[o] # None
          THEN ToObj(heavier(FromObj(v, o)), o, v.inObj[o])
          ELSE v
  BY DEF WeightChanged
<1>4. t.inObj = v.inObj
  BY WeightChangedNested
<1> HIDE DEF t
<1> SUFFICES Unmoved(t, v)
  BY DEF t
<1>5. CASE v.inRoom[o] # None
  <2>1. t = heavier(v)
    BY <1>3, <1>5
  <2> HIDE DEF heavier
  <2>2. QED
    BY <1>1, <1>2, <2>1 DEF Unmoved, SameSpot
<1>6. CASE v.inRoom[o] = None /\ v.carriedBy[o] # None
  <2> DEFINE c  == v.carriedBy[o]
             v1 == FromChar(v, o)
             v2 == heavier(v1)
  <2>1. t = ToChar(v2, o, c) /\ c \in Char
    BY <1>1, <1>3, <1>6 DEF World
  <2>2. /\ v1 \in World /\ v1.at = v.at /\ v1.alive = v.alive
        /\ v1.inRoom = v.inRoom /\ v1.wornBy = v.wornBy /\ v1.wornOn = v.wornOn
    BY <1>6, FromCharHeld DEF Held, Good, SameRooms, SameEquipment
  <2>3. v1.carriedBy = [v.carriedBy EXCEPT ![o] = None]
    BY <1>1 DEF FromChar, World
  <2> HIDE DEF v1
  <2>4. /\ v2 \in World /\ v2.at = v.at /\ v2.alive = v.alive
        /\ v2.inRoom = v.inRoom /\ v2.wornBy = v.wornBy /\ v2.wornOn = v.wornOn
        /\ v2.carriedBy = [v.carriedBy EXCEPT ![o] = None]
    BY <1>2, <2>2, <2>3
  <2> HIDE DEF v2, c, heavier
  <2> DEFINE s == ToChar(v2, o, c)
  <2>5. /\ s.at = v2.at /\ s.alive = v2.alive
        /\ s.wornBy = v2.wornBy /\ s.wornOn = v2.wornOn
        /\ s.inRoom = [v2.inRoom EXCEPT ![o] = None]
        /\ s.carriedBy = [v2.carriedBy EXCEPT ![o] = c]
    BY <2>1, <2>4 DEF ToChar, World
  <2> HIDE DEF s
  <2>6. s.inRoom = v.inRoom /\ s.carriedBy = v.carriedBy
    BY <1>1, <1>6, <2>4, <2>5 DEF World, c
  <2>7. QED
    BY <1>4, <2>1, <2>4, <2>5, <2>6 DEF Unmoved, SameSpot, s
<1>7. CASE v.inRoom[o] = None /\ v.carriedBy[o] = None /\ v.inObj[o] # None
  <2> DEFINE k  == v.inObj[o]
             v1 == FromObj(v, o)
             v2 == heavier(v1)
  <2>1. t = ToObj(v2, o, k) /\ k \in Obj
    BY <1>1, <1>3, <1>7 DEF World
  <2>2. v1 \in World
    BY <1>7, FromObjHeld DEF Held, Good
  <2>3. /\ v1.at = v.at /\ v1.alive = v.alive /\ v1.carriedBy = v.carriedBy
        /\ v1.inRoom = v.inRoom /\ v1.wornBy = v.wornBy /\ v1.wornOn = v.wornOn
    BY <1>1 DEF FromObj, World
  <2> HIDE DEF v1
  <2>4. /\ v2 \in World /\ v2.at = v.at /\ v2.alive = v.alive
        /\ v2.carriedBy = v.carriedBy
        /\ v2.inRoom = v.inRoom /\ v2.wornBy = v.wornBy /\ v2.wornOn = v.wornOn
    BY <1>2, <2>2, <2>3
  <2> HIDE DEF v2, k, heavier
  <2> DEFINE s == ToObj(v2, o, k)
  <2>5. /\ s.at = v2.at /\ s.alive = v2.alive /\ s.carriedBy = v2.carriedBy
        /\ s.wornBy = v2.wornBy /\ s.wornOn = v2.wornOn
        /\ s.inRoom = v2.inRoom
    BY <2>1, <2>4 DEF ToObj, World
  <2> HIDE DEF s
  <2>6. QED
    BY <1>4, <2>1, <2>4, <2>5 DEF Unmoved, SameSpot, s
<1>8. CASE v.inRoom[o] = None /\ v.carriedBy[o] = None /\ v.inObj[o] = None
  BY <1>3, <1>8 DEF Unmoved, SameSpot
<1>9. QED
  BY <1>5, <1>6, <1>7, <1>8

(* Nor do units and lights matter here.                                    *)
LEMMA UnitsUnmoved ==
    ASSUME NEW v \in World, NEW U, NEW L
    PROVE  Unmoved([v EXCEPT !.units = U, !.light = L], v)
BY DEF Unmoved, SameSpot, World

LEMMA LiquidUnmoved ==
    ASSUME NEW v, NEW o \in Obj, NEW n \in Int, NEW m, Good(v), Climbs(v)
    PROVE  Unmoved([WeightChanged(v, o, n) EXCEPT !.units[o] = m], v)
<1> DEFINE u == WeightChanged(v, o, n)
           t == [u EXCEPT !.units[o] = m]
<1>1. Unmoved(u, v) /\ u \in World
  BY WeightChangedUnmoved, WeightChangedGood DEF Good
<1> HIDE DEF u
<1>2. Unmoved(t, u)
  BY <1>1 DEF Unmoved, SameSpot, World
<1> HIDE DEF t
<1>3. Unmoved(t, v)
  BY <1>1, <1>2, UnmovedTwice
<1>4. QED
  BY <1>3 DEF t, u

LEMMA DrunkUnmoved ==
    ASSUME NEW v, NEW o \in Obj, NEW n \in Int, Good(v), Climbs(v)
    PROVE  Unmoved(Drunk(v, o, n), v) /\ Unmoved(Emptied(v, o), v)
<1>1. v.units[o] \in Int /\ v.weight[o] \in Int
  BY DEF Good, World
<1> DEFINE a == Lesser(n, v.units[o])
           b == -Lesser(a, v.weight[o])
           z == -v.units[o]
           u == WeightChanged(v, o, b)
<1>2. b \in Int /\ z \in Int
  BY <1>1 DEF Lesser
<1>3. Drunk(v, o, n) = [u EXCEPT !.units[o] = @ - a]
      /\ Emptied(v, o) = [WeightChanged(v, o, z) EXCEPT !.units[o] = 0]
  BY DEF Drunk, Emptied
<1> HIDE DEF a, b, z
<1>4. \A m : Unmoved([u EXCEPT !.units[o] = m], v)
  BY <1>2, LiquidUnmoved
<1>5. Unmoved([WeightChanged(v, o, z) EXCEPT !.units[o] = 0], v)
  BY <1>2, LiquidUnmoved
<1> HIDE DEF u
<1>6. Unmoved([u EXCEPT !.units[o] = u.units[o] - a], v)
  BY <1>4
<1>7. QED
  BY <1>3, <1>5, <1>6

LEMMA PouredUnmoved ==
    ASSUME NEW v, NEW o \in Obj, NEW t \in Obj, o # t, Good(v), Climbs(v)
    PROVE  Unmoved(Poured(v, o, t), v)
<1> DEFINE m  == Lesser(Capacity[t] - v.units[t], v.units[o])
           v1 == WeightChanged(v, o, -m)
           v2 == WeightChanged(v1, t, m)
<1>1. m \in Int /\ -m \in Int
  <2>1. v.units[o] \in Int /\ v.units[t] \in Int /\ Capacity[t] \in Int
    BY ValueAssumption DEF Good, World
  <2>2. QED
    BY <2>1 DEF Lesser
<1>2. Poured(v, o, t) = [v2 EXCEPT !.units[o] = @ - m, !.units[t] = @ + m]
  BY DEF Poured
<1> HIDE DEF m
<1>3. Good(v1) /\ Unmoved(v1, v) /\ v1.inObj = v.inObj
  BY <1>1, WeightChangedGood, WeightChangedUnmoved, WeightChangedNested
<1> HIDE DEF v1
<1>4. Climbs(v1)
  BY <1>3, SameShrinks, ShrinkingClimbs
<1>5. Good(v2) /\ Unmoved(v2, v1)
  BY <1>1, <1>3, <1>4, WeightChangedGood, WeightChangedUnmoved
<1> HIDE DEF v2
<1>6. v2 \in World
  BY <1>5 DEF Good
<1>7. Unmoved(Poured(v, o, t), v2)
  BY <1>2, <1>6 DEF Unmoved, SameSpot, World
<1>8. QED
  BY <1>3, <1>5, <1>7, UnmovedTwice

(* Characters that come and go take what they carry along, or have nothing.*)
LEMMA GoingIsSecure ==
    ASSUME NEW v \in World, NEW u, NEW c \in Char, NEW r \in Room \union {None},
           NEW k, u.alive = v.alive, \A x \in Obj : SameSpot(u, v, x),
           u.at = [v.at EXCEPT ![c] = r],
           r = None => \A x \in Obj : v.carriedBy[x] # c,
           Present(v), Corpses(v, k)
    PROVE  Secure(u, v, k)
<1>1. \A x \in v.alive : x \in Obj
  BY DEF World
<1>2. None \notin Room /\ v.carriedBy \in [Obj -> Char \union {None}]
      /\ v.at \in [Char -> Room \union {None}]
  BY PopulationAssumption DEF World
<1>3. Present(u)
  <2> SUFFICES ASSUME NEW x \in Obj, u.carriedBy[x] # None
               PROVE  u.at[u.carriedBy[x]] # None
    BY DEF Present
  <2>1. u.carriedBy[x] = v.carriedBy[x] /\ v.at[v.carriedBy[x]] # None
        /\ v.carriedBy[x] \in Char
    BY <1>2 DEF SameSpot, Present
  <2>2. CASE v.carriedBy[x] = c
    BY <1>2, <2>1, <2>2
  <2>3. CASE v.carriedBy[x] # c
    BY <1>2, <2>1, <2>3
  <2>4. QED
    BY <2>2, <2>3
<1>4. Kept(u, v) /\ Corpses(u, k)
  BY <1>1 DEF SameSpot, Kept, Corpses, Unplaced
<1>5. QED
  BY <1>3, <1>4 DEF Secure

(* What is created is nowhere yet, and is no corpse.                       *)
LEMMA CreatedMoves ==
    ASSUME NEW v, Good(v), NEW o \in Obj, o \notin v.alive
    PROVE  /\ Held(Created(v, o), o) /\ Moves(Created(v, o), v, o)
           /\ Created(v, o).at = v.at /\ Created(v, o).eq = v.eq
           /\ Created(v, o).alive = v.alive \union {o}
           /\ Created(v, o).inObj = v.inObj
           /\ \A x \in Obj : SameSpot(Created(v, o), v, x)
<1> DEFINE u == Created(v, o)
<1>1. /\ u.at = v.at /\ u.alive = v.alive \union {o} /\ u.eq = v.eq
      /\ u.inRoom = v.inRoom /\ u.carriedBy = v.carriedBy
      /\ u.wornBy = v.wornBy /\ u.wornOn = v.wornOn /\ u.inObj = v.inObj
  BY DEF Created, Good, World
<1>2. Held(u, o)
  BY CreatedHeld
<1> HIDE DEF u
<1>3. QED
  BY <1>1, <1>2 DEF Moves, SameSpot, u

LEMMA CreatedIsSecure ==
    ASSUME NEW v, Good(v), NEW o \in Obj, o \notin v.alive,
           Kind[o] # "corpse", Present(v), NEW k, Corpses(v, k)
    PROVE  Secure(Created(v, o), v, k)
<1> DEFINE u == Created(v, o)
<1>1. /\ u.at = v.at /\ u.alive = v.alive \union {o}
      /\ \A x \in Obj : SameSpot(u, v, x)
  BY CreatedMoves
<1>2. \A x \in v.alive : x \in Obj
  BY DEF Good, World
<1> HIDE DEF u
<1>3. Secure(u, v, k)
  BY <1>1, <1>2 DEF SameSpot, Secure, Kept, Present, Corpses, Unplaced
<1>4. QED
  BY <1>3 DEF u

(* The corpse that is being filled, if any.                                *)
Filling == IF job.op = "corpse" THEN job.obj ELSE None

(* Who is purged or killed is in a room until the end, and only corpses    *)
(* decay.                                                                  *)
AtWork ==
    /\ job.op \in {"leave", "corpse"} => w.at[job.who] # None
    /\ job.op = "decay" => Kind[job.obj] = "corpse"
    /\ job.op # "disintegrate"

KInv == NInv /\ Present(w) /\ Corpses(w, Filling) /\ AtWork

LEMMA ResetsSecure ==
    ASSUME KInv, Good(w'), Resets
    PROVE  Secure(w', w, Filling)
<1>1. /\ Good(w) /\ w \in World /\ Climbs(w) /\ Present(w) /\ Corpses(w, Filling)
      /\ w.at \in [Char -> Room \union {None}]
  BY IInvGood DEF Good, World, KInv, NInv
<1>2. Mob \subseteq Char /\ None \notin Obj \union Char \union Room
  BY PopulationAssumption
<1> DEFINE k == Filling
<1> HIDE DEF k
<1>3. ASSUME NEW m \in Mob, NEW r \in Room, ResetMob(m, r)
      PROVE  Secure(w', w, k)
  <2> DEFINE u == EnterRoom(w, m, r)
  <2>1. w' = u /\ m \in Char
    BY <1>2, <1>3 DEF ResetMob, Do
  <2>2. /\ u.alive = w.alive /\ u.at = [w.at EXCEPT ![m] = r]
        /\ u.inRoom = w.inRoom /\ u.carriedBy = w.carriedBy
        /\ u.wornBy = w.wornBy /\ u.wornOn = w.wornOn /\ u.inObj = w.inObj
    BY <1>1 DEF EnterRoom, World
  <2> HIDE DEF u
  <2>3. Secure(u, w, k)
    BY <1>1, <1>2, <2>1, <2>2, GoingIsSecure DEF SameSpot, k
  <2>4. QED
    BY <2>1, <2>3
<1>4. ASSUME NEW o \in Obj, Fresh(o)
      PROVE  /\ o \notin w.alive /\ Kind[o] # "corpse"
             /\ Held(Created(w, o), o) /\ Moves(Created(w, o), w, o)
             /\ Created(w, o).at = w.at /\ Created(w, o).eq = w.eq
  BY <1>1, <1>4, CreatedMoves DEF Fresh
<1>5. ASSUME NEW o \in Obj, Lands(w', w, o) PROVE Secure(w', w, k)
  BY <1>1, <1>5, LandedIsSecure DEF k
<1>6. ASSUME NEW o \in Obj, Fresh(o), w' = Created(w, o) PROVE Secure(w', w, k)
  BY <1>1, <1>4, <1>6, CreatedIsSecure DEF k
<1>7. ASSUME NEW o \in Obj, NEW r \in Room, ResetObj(o, r)
      PROVE  Secure(w', w, k)
  BY <1>4, <1>5, <1>7, ToRoomLands DEF ResetObj, Do
<1>8. ASSUME NEW o \in Obj, ResetPut(o) PROVE Secure(w', w, k)
  <2> DEFINE v == Created(w, o)
  <2>1. Fresh(o) /\ w' = IF Home[o] \in w.alive THEN ToObj(v, o, Home[o]) ELSE v
    BY <1>8 DEF ResetPut, Do
  <2>2. CASE Home[o] \in w.alive
    <3>1. Home[o] \in Obj /\ Home[o] # o
      BY <1>1, <1>4, <2>1, <2>2 DEF World
    <3>2. Lands(ToObj(v, o, Home[o]), w, o)
      BY <1>4, <2>1, <3>1, ToObjLands
    <3>3. QED
      BY <1>5, <2>1, <2>2, <3>2
  <2>3. CASE Home[o] \notin w.alive
    BY <1>6, <2>1, <2>3
  <2>4. QED
    BY <2>2, <2>3
<1>9. ASSUME NEW o \in Obj, NEW m \in Mob, ResetGive(o, m)
      PROVE  Secure(w', w, k)
  BY <1>2, <1>4, <1>5, <1>9, ToCharLands DEF ResetGive, Do
<1>10. ASSUME NEW o \in Obj, NEW m \in Mob, NEW p \in Pos, NEW z \in BOOLEAN,
              ResetEquip(o, m, p, z)
       PROVE  Secure(w', w, k)
  <2> DEFINE v == Created(w, o)
  <2>1. /\ Fresh(o) /\ m \in Char /\ w.at[m] # None /\ p \in Fits[o]
        /\ w' = Equip(v, o, m, p, z)
    BY <1>2, <1>10 DEF ResetEquip, Do
  <2>2. Held(v, o) /\ Moves(v, w, o) /\ v.at = w.at
    BY <1>4, <2>1
  <2>3. CASE v.eq[m][p] = None
    <3>1. Lands(Equip(v, o, m, p, z), w, o)
      BY <2>1, <2>2, <2>3, EquipLands
    <3>2. QED
      BY <1>5, <2>1, <3>1
  <2>4. CASE v.eq[m][p] # None
    BY <1>6, <2>1, <2>4 DEF Equip
  <2>5. QED
    BY <2>3, <2>4
<1>11. ASSUME NEW o \in Obj, ResetRemove(o) PROVE Secure(w', w, k)
  <2> DEFINE v == FromRoom(w, o)
  <2>1. w.inRoom[o] # None /\ w' = Extract(v, o)
    BY <1>11 DEF ResetRemove, Do
  <2>2. Good(v) /\ Moves(v, w, o)
    BY <1>1, <2>1, FromRoomHeld, FromRoomMoves DEF Held
  <2>3. Lands(Extract(v, o), w, o)
    BY <2>2, ExtractLands
  <2>4. QED
    BY <1>5, <2>1, <2>3
<1>12. QED
  BY <1>3, <1>7, <1>8, <1>9, <1>10, <1>11 DEF Resets, k

LEMMA CommandsSecure ==
    ASSUME KInv, Good(w'), Commands
    PROVE  Secure(w', w, Filling)
<1>1. /\ Good(w) /\ w \in World /\ Climbs(w) /\ Present(w) /\ Corpses(w, Filling)
      /\ w.at \in [Char -> Room \union {None}]
  BY IInvGood DEF Good, World, KInv, NInv
<1>2. None \notin Obj \union Char \union Room /\ Donation \in Room
      /\ LightPos \in Pos
  BY PopulationAssumption
<1> DEFINE k == Filling
<1> HIDE DEF k
<1>3. ASSUME NEW o \in Obj, Lands(w', w, o) PROVE Secure(w', w, k)
  BY <1>1, <1>3, LandedIsSecure DEF k
<1>4. ASSUME Unmoved(w', w) PROVE Secure(w', w, k)
  BY <1>1, <1>4, UnmovedIsSecure DEF k
<1>5. ASSUME NEW c \in Char, NEW o \in Obj, o \in w.carrying[c]
      PROVE  /\ Held(FromChar(w, o), o) /\ Good(FromChar(w, o))
             /\ Moves(FromChar(w, o), w, o)
             /\ FromChar(w, o).at = w.at /\ FromChar(w, o).eq = w.eq
  <2>1. w.carriedBy[o] # None
    BY <1>1, <1>2, <1>5, ListedAlive
  <2>2. QED
    BY <1>1, <2>1, FromCharHeld, FromCharMoves DEF Held, Moves
<1>6. ASSUME NEW c \in Char, NEW o \in Obj, NEW j \in Obj, Put(c, o, j)
      PROVE  Secure(w', w, k)
  <2>1. o \in w.carrying[c] /\ j # o /\ w' = ToObj(FromChar(w, o), o, j)
    BY <1>6 DEF Put, Do
  <2>2. Lands(ToObj(FromChar(w, o), o, j), w, o)
    BY <1>5, <2>1, ToObjLands
  <2>3. QED
    BY <1>3, <2>1, <2>2
<1>7. ASSUME NEW c \in Char, NEW o \in Obj, NEW j \in Obj,
             GetFromContainer(c, o, j)
      PROVE  Secure(w', w, k)
  <2> DEFINE v == FromObj(w, o)
  <2>1. /\ o \in w.contains[j] /\ w.at[c] # None
        /\ w' = Pocketed(ToChar(v, o, c), c, o)
    BY <1>7 DEF GetFromContainer, Do, Acts
  <2>2. w.inObj[o] # None
    BY <1>1, <1>2, <2>1, ListedAlive
  <2>3. Held(v, o) /\ Moves(v, w, o) /\ v.at = w.at
    BY <1>1, <2>2, FromObjHeld, FromObjMoves DEF Moves
  <2> HIDE DEF v
  <2>4. Lands(Pocketed(ToChar(v, o, c), c, o), w, o)
    BY <2>1, <2>3, PocketedLands
  <2>5. QED
    BY <1>3, <2>1, <2>4
<1>8. ASSUME NEW c \in Char, NEW o \in Obj, GetFromRoom(c, o)
      PROVE  Secure(w', w, k)
  <2> DEFINE v == FromRoom(w, o)
  <2>1. /\ o \in w.contents[w.at[c]] /\ w.at[c] \in Room
        /\ w' = Pocketed(ToChar(v, o, c), c, o)
    BY <1>1, <1>8 DEF GetFromRoom, Do, Acts
  <2>2. w.inRoom[o] # None
    BY <1>1, <1>2, <2>1, ListedAlive
  <2>3. Held(v, o) /\ Moves(v, w, o) /\ v.at = w.at
    BY <1>1, <2>2, FromRoomHeld, FromRoomMoves DEF Moves
  <2> HIDE DEF v
  <2>4. Lands(Pocketed(ToChar(v, o, c), c, o), w, o)
    BY <1>2, <2>1, <2>3, PocketedLands
  <2>5. QED
    BY <1>3, <2>1, <2>4
<1>9. ASSUME NEW c \in Char, NEW o \in Obj, NEW r \in Room, Drop(c, o, r)
      PROVE  Secure(w', w, k)
  BY <1>3, <1>5, <1>9, ToRoomLands DEF Drop, Do
<1>10. ASSUME NEW c \in Char, NEW o \in Obj, Junk(c, o)
       PROVE  Secure(w', w, k)
  BY <1>3, <1>5, <1>10, ExtractLands DEF Junk, Do
<1>11. ASSUME NEW c \in Char, NEW d \in Char, NEW o \in Obj, Give(c, d, o)
       PROVE  Secure(w', w, k)
  <2>1. o \in w.carrying[c] /\ w.at[d] # None /\ w' = ToChar(FromChar(w, o), o, d)
    BY <1>11 DEF Give, Do, Acts
  <2>2. Lands(ToChar(FromChar(w, o), o, d), w, o)
    BY <1>5, <2>1, ToCharLands
  <2>3. QED
    BY <1>3, <2>1, <2>2
<1>12. ASSUME NEW c \in Char, NEW o \in Obj, NEW p \in Pos, NEW z \in BOOLEAN,
              Wear(c, o, p, z)
       PROVE  Secure(w', w, k)
  <2> DEFINE v == FromChar(w, o)
  <2>1. /\ o \in w.carrying[c] /\ w.at[c] # None /\ p \in Fits[o]
        /\ w.eq[c][p] = None /\ w' = Equip(v, o, c, p, z)
    BY <1>12 DEF Wear, Do, Acts
  <2>2. Held(v, o) /\ Moves(v, w, o) /\ v.at = w.at /\ v.eq = w.eq
    BY <1>5, <2>1
  <2> HIDE DEF v
  <2>3. Lands(Equip(v, o, c, p, z), w, o)
    BY <2>1, <2>2, EquipLands
  <2>4. QED
    BY <1>3, <2>1, <2>3
<1>13. ASSUME NEW c \in Char, NEW p \in Pos, Remove(c, p)
       PROVE  Secure(w', w, k)
  <2> DEFINE v == Unequip(w, c, p)
             o == w.eq[c][p]
  <2>1. o # None /\ w.at[c] # None /\ w' = ToChar(v, o, c)
    BY <1>13 DEF Remove, Do, Acts
  <2>2. o \in Obj /\ Held(v, o) /\ Moves(v, w, o) /\ v.at = w.at
    BY <1>1, <2>1, UnequipHeld, UnequipMoves
  <2> HIDE DEF v, o
  <2>3. Lands(ToChar(v, o, c), w, o)
    BY <2>1, <2>2, ToCharLands
  <2>4. QED
    BY <1>3, <2>1, <2>2, <2>3
<1>14. ASSUME NEW c \in Char, NEW o \in Obj, NEW n \in -1 .. MaxGulp,
              Drink(c, o, n)
       PROVE  Secure(w', w, k)
  <2>1. n \in Int
    BY ValueAssumption
  <2>2. w' = Drunk(w, o, n)
    BY <1>14 DEF Drink, Do
  <2>3. QED
    BY <1>1, <1>4, <2>1, <2>2, DrunkUnmoved
<1>15. ASSUME NEW c \in Char, NEW o \in Obj, Eat(c, o) PROVE Secure(w', w, k)
  <2>1. w' = Extract(w, o) /\ Moves(w, w, o)
    BY <1>15 DEF Eat, Do, Moves, SameSpot
  <2>2. QED
    BY <1>1, <1>3, <2>1, ExtractLands
<1>16. ASSUME NEW c \in Char, NEW o \in Obj, PourOut(c, o)
       PROVE  Secure(w', w, k)
  <2>1. w' = Emptied(w, o) /\ 0 \in Int
    BY <1>16 DEF PourOut, Do
  <2>2. QED
    BY <1>1, <1>4, <2>1, DrunkUnmoved
<1>17. ASSUME NEW c \in Char, NEW o \in Obj, NEW t \in Obj, Pour(c, o, t)
       PROVE  Secure(w', w, k)
  <2>1. w' = Poured(w, o, t) /\ o # t
    BY <1>17 DEF Pour, Do
  <2>2. QED
    BY <1>1, <1>4, <2>1, PouredUnmoved
<1>18. ASSUME NEW c \in Char, NEW r \in Room, Walk(c, r)
       PROVE  Secure(w', w, k)
  <2> DEFINE v == LeaveRoom(w, c)
             u == EnterRoom(v, c, r)
  <2>1. w' = u
    BY <1>18 DEF Walk, Do
  <2>2. v \in World
    BY <1>1, LeaveRoomGood DEF Good
  <2>3. /\ v.alive = w.alive /\ v.at = [w.at EXCEPT ![c] = None]
        /\ v.inRoom = w.inRoom /\ v.carriedBy = w.carriedBy
        /\ v.wornBy = w.wornBy /\ v.wornOn = w.wornOn /\ v.inObj = w.inObj
    BY <1>1 DEF LeaveRoom, World
  <2> HIDE DEF v
  <2>4. /\ u.alive = v.alive /\ u.at = [v.at EXCEPT ![c] = r]
        /\ u.inRoom = v.inRoom /\ u.carriedBy = v.carriedBy
        /\ u.wornBy = v.wornBy /\ u.wornOn = v.wornOn /\ u.inObj = v.inObj
    BY <2>2 DEF EnterRoom, World
  <2> HIDE DEF u
  <2>5. u.at = [w.at EXCEPT ![c] = r]
    BY <1>1, <2>3, <2>4
  <2>6. \A x \in Obj : SameSpot(u, w, x)
    BY <2>3, <2>4 DEF SameSpot
  <2>7. Secure(u, w, k)
    BY <1>1, <1>2, <2>3, <2>4, <2>5, <2>6, GoingIsSecure DEF k
  <2>8. QED
    BY <2>1, <2>7
<1>19. QED
  BY <1>6, <1>7, <1>8, <1>9, <1>10, <1>11, <1>12, <1>13, <1>14, <1>15, <1>16,
     <1>17, <1>18 DEF Commands, k

(* make_corpse turns an inventory into contents.                           *)
LEMMA InCorpseIsSecure ==
    ASSUME NEW v, Good(v), NEW c \in Char, NEW k \in Obj, k \notin v.alive,
           Present(v), Corpses(v, None)
    PROVE  Secure(InCorpse(v, c, k), v, k) /\ InCorpse(v, c, k).at = v.at
<1> DEFINE u == InCorpse(v, c, k)
           X == v.carrying[c]
<1>1. v \in World /\ Unplaced(v, k) /\ None \notin Obj \union Char
  BY PopulationAssumption DEF Good, Consistent, DeadAreGone
<1>2. /\ u.at = v.at /\ u.alive = v.alive \union {k} /\ u.inRoom = v.inRoom
      /\ u.wornBy = v.wornBy /\ u.wornOn = v.wornOn
      /\ u.inObj = [o \in Obj |-> IF o \in X THEN k ELSE v.inObj[o]]
      /\ u.carriedBy = [o \in Obj |-> IF o \in X THEN None ELSE v.carriedBy[o]]
  BY <1>1 DEF InCorpse, World
<1> HIDE DEF u, X
<1>3. \A x \in v.alive : x \in Obj
  BY <1>1 DEF World
<1>4. \A x \in Obj : ~Unplaced(v, x) => ~Unplaced(u, x)
  BY <1>1, <1>2 DEF Unplaced
<1>5. Present(u)
  BY <1>2 DEF Present
<1>6. Corpses(u, k)
  BY <1>1, <1>2, <1>3, <1>4 DEF Corpses, Unplaced
<1>7. QED
  BY <1>2, <1>3, <1>4, <1>5, <1>6 DEF Secure, Kept, u

(* A thing out of a corpse lands where the corpse is.                      *)
LEMMA SpilledLands ==
    ASSUME NEW v, Good(v), Climbs(v), Present(v), NEW o \in Obj, NEW j \in Obj,
           v.inObj[o] = j, v.wornBy[j] = None, ~Unplaced(v, j)
    PROVE  Lands(Spilled(v, o, j), v, o)
<1> DEFINE v1 == FromObj(v, o)
           k == v1.inObj[j]
<1>1. /\ v \in World /\ Consistent(v)
      /\ None \notin Obj \union Char \union Room
  BY PopulationAssumption DEF Good
<1>2. Held(v1, o) /\ Moves(v1, v, o) /\ v1 \in World
  BY <1>1, FromObjHeld, FromObjMoves DEF Held, Good
<1>3. {o, j} \in SUBSET Obj /\ {o, j} # {}
  OBVIOUS
<1>4. j # o /\ v.inObj[j] # o
  BY <1>3 DEF Climbs
<1>5. SameSpot(v1, v, j)
  <2>1. j \in v1.alive
    <3>1. j \in v.alive
      BY <1>1, ListedAlive
    <3>2. v1.alive = v.alive
      BY <1>1, FromObjHeld
    <3>3. QED
      BY <3>1, <3>2
  <2>2. QED
    BY <1>2, <1>4, <2>1 DEF Moves
<1>6. Spilled(v, o, j) =
        IF k # None THEN ToObj(v1, o, k)
        ELSE IF v1.carriedBy[j] # None THEN ToRoom(v1, o, v1.at[v1.carriedBy[j]])
        ELSE ToRoom(v1, o, v1.inRoom[j])
  BY DEF Spilled
<1> HIDE DEF v1
<1>7. CASE k # None
  <2>1. k \in Obj /\ k # o
    BY <1>2, <1>4, <1>5, <1>7 DEF SameSpot, World
  <2>2. Lands(ToObj(v1, o, k), v, o)
    BY <1>2, <2>1, ToObjLands
  <2>3. QED
    BY <1>6, <1>7, <2>2
<1>8. CASE k = None /\ v1.carriedBy[j] # None
  <2> DEFINE r == v1.at[v1.carriedBy[j]]
  <2>1. r \in Room
    BY <1>1, <1>2, <1>5, <1>8 DEF SameSpot, Moves, Present, World
  <2>2. Lands(ToRoom(v1, o, r), v, o)
    BY <1>2, <2>1, ToRoomLands
  <2>3. QED
    BY <1>6, <1>8, <2>2
<1>9. CASE k = None /\ v1.carriedBy[j] = None
  <2> DEFINE r == v1.inRoom[j]
  <2>1. v.wornOn[j] = None
    BY <1>1 DEF Consistent, EquipmentAgrees
  <2>2. r \in Room
    BY <1>1, <1>5, <1>9, <2>1 DEF SameSpot, Unplaced, World
  <2>3. Lands(ToRoom(v1, o, r), v, o)
    BY <1>2, <2>2, ToRoomLands
  <2>4. QED
    BY <1>6, <1>9, <2>3
<1>10. QED
  BY <1>7, <1>8, <1>9

(* One step of anything: nothing is lost, and the invariant holds on.      *)
KStep == Secure(w', w, Filling') /\ AtWork'

LEMMA SpellsSecure ==
    ASSUME Destroyer = {}, KInv, Spells
    PROVE  KStep
<1>1. /\ Good(w) /\ w \in World /\ Climbs(w) /\ Present(w) /\ Corpses(w, Filling)
      /\ AtWork
  BY IInvGood DEF Good, KInv, NInv
<1>2. ASSUME Unmoved(w', w), job' = Idle, job = Idle PROVE KStep
  <2>1. Secure(w', w, Filling)
    BY <1>1, <1>2, UnmovedIsSecure
  <2>2. QED
    BY <1>2, <2>1 DEF KStep, AtWork, Filling, Idle
<1>3. ASSUME NEW c \in Char, NEW o \in Obj, CreateWater(c, o)
      PROVE  KStep
  <2> DEFINE n == Capacity[o] - w.units[o]
  <2>1. n \in Int
    BY <1>1, ValueAssumption DEF World
  <2>2. job' = Idle /\ job = Idle
        /\ w' = [WeightChanged(w, o, n) EXCEPT !.units[o] = Capacity[o]]
    BY <1>3 DEF CreateWater, Do, Acts, Quiet
  <2> HIDE DEF n
  <2>3. QED
    BY <1>1, <1>2, <2>1, <2>2, LiquidUnmoved
<1>4. ASSUME NEW c \in Char, LightsOut(c) PROVE KStep
  <2> DEFINE mine == w.eq[c][LightPos]
             u == [w EXCEPT !.light[w.at[c]] = 0,
                    !.units = [o \in Obj |-> IF o = mine THEN 0 ELSE @[o]]]
  <2>1. w' = u /\ job' = Idle /\ job = Idle
    BY <1>4 DEF LightsOut, Do, Acts, Quiet
  <2>2. Unmoved(u, w)
    BY <1>1 DEF Unmoved, SameSpot, World
  <2> HIDE DEF u
  <2>3. QED
    BY <1>2, <2>1, <2>2
<1>5. ~(\E c \in Char, o \in Obj : DisintegrateObj(c, o))
      /\ ~(\E c \in Char, m \in Mob : DisintegrateChar(c, m))
  BY DEF DisintegrateObj, DisintegrateChar
<1>6. ~(\E p \in Pos : DisintegrateEquipment(p))
      /\ ~(\E o \in Obj : DisintegrateItem(o)) /\ ~Left("disintegrate")
  BY <1>1 DEF DisintegrateEquipment, DisintegrateItem, Left, Working, AtWork
<1>7. QED
  BY <1>3, <1>4, <1>5, <1>6 DEF Spells

LEMMA EndsSecure ==
    ASSUME KInv, Good(w'), Ends
    PROVE  KStep
<1>1. /\ Good(w) /\ w \in World /\ Climbs(w) /\ Present(w) /\ Corpses(w, Filling)
      /\ AtWork /\ IInv /\ Consistent(w)
      /\ w.at \in [Char -> Room \union {None}]
  BY IInvGood DEF Good, World, KInv, NInv
<1>2. None \notin Obj \union Char \union Room /\ Mob \subseteq Char
  BY PopulationAssumption
<1>3. ASSUME NEW o \in Obj, Lands(w', w, o), job' = job PROVE KStep
  <2>1. Secure(w', w, Filling)
    BY <1>1, <1>3, LandedIsSecure
  <2>2. w'.at = w.at
    BY <1>3 DEF Lands, Moves
  <2>3. QED
    BY <1>1, <1>3, <2>1, <2>2 DEF KStep, AtWork, Filling
<1>4. ASSUME NEW m \in Mob, Purge(m) PROVE KStep
  <2>1. /\ w' = w /\ job = Idle /\ w.at[m] # None
        /\ job' = [op |-> "leave", who |-> m, obj |-> None]
    BY <1>4 DEF Purge, Begin, Acts, Quiet
  <2>2. Unmoved(w', w)
    BY <2>1 DEF Unmoved, SameSpot
  <2>3. Secure(w', w, Filling)
    BY <1>1, <2>2, UnmovedIsSecure
  <2>4. QED
    BY <2>1, <2>3 DEF KStep, AtWork, Filling, Idle
<1>5. ASSUME NEW o \in Obj, LeaveItem(o) PROVE KStep
  <2> DEFINE v == FromChar(w, o)
             r == w.at[job.who]
  <2>1. /\ job.op = "leave" /\ job.who \in Char /\ o \in w.carrying[job.who]
        /\ w' = ToRoom(v, o, r) /\ job' = job
    BY <1>1, <1>5 DEF LeaveItem, Working, IInv, JobOK, Step
  <2>2. w.carriedBy[o] # None
    BY <1>1, <1>2, <2>1, ListedAlive
  <2>3. Held(v, o) /\ Moves(v, w, o) /\ r \in Room
    BY <1>1, <2>1, <2>2, FromCharHeld, FromCharMoves DEF AtWork
  <2> HIDE DEF v, r
  <2>4. Lands(ToRoom(v, o, r), w, o)
    BY <2>3, ToRoomLands
  <2>5. QED
    BY <1>3, <2>1, <2>4
<1>6. ASSUME NEW p \in Pos, LeaveEquipment(p) PROVE KStep
  <2> DEFINE o == w.eq[job.who][p]
             v == Unequip(w, job.who, p)
             r == w.at[job.who]
  <2>1. /\ job.op = "leave" /\ job.who \in Char /\ o # None
        /\ w' = ToRoom(v, o, r) /\ job' = job
    BY <1>1, <1>6 DEF LeaveEquipment, Wears, Working, IInv, JobOK, Step
  <2>2. o \in Obj /\ Held(v, o) /\ Moves(v, w, o) /\ r \in Room
    BY <1>1, <2>1, UnequipHeld, UnequipMoves DEF AtWork
  <2> HIDE DEF v, o, r
  <2>3. Lands(ToRoom(v, o, r), w, o)
    BY <2>2, ToRoomLands
  <2>4. QED
    BY <1>3, <2>1, <2>2, <2>3
<1>7. ASSUME NEW c \in Char, Gone(w, c), NEW x \in Obj PROVE w.carriedBy[x] # c
  BY <1>1, <1>7 DEF Gone, Consistent, InventoriesAgree
<1>8. ASSUME Left("leave") PROVE KStep
  <2> DEFINE c == job.who
             u == LeaveRoom(w, c)
  <2>1. /\ job.op = "leave" /\ c \in Char /\ Gone(w, c) /\ w' = u /\ job' = Idle
    BY <1>1, <1>8 DEF Left, Finish, Working, IInv, JobOK
  <2>2. /\ u.alive = w.alive /\ u.at = [w.at EXCEPT ![c] = None]
        /\ u.inRoom = w.inRoom /\ u.carriedBy = w.carriedBy
        /\ u.wornBy = w.wornBy /\ u.wornOn = w.wornOn /\ u.inObj = w.inObj
    BY <1>1 DEF LeaveRoom, World
  <2> HIDE DEF u, c
  <2>3. \A x \in Obj : SameSpot(u, w, x)
    BY <2>2 DEF SameSpot
  <2>4. Secure(u, w, Filling)
    BY <1>1, <1>7, <2>1, <2>2, <2>3, GoingIsSecure
  <2>5. QED
    BY <2>1, <2>4 DEF KStep, AtWork, Filling, Idle
<1>9. ASSUME NEW m \in Mob, NEW k \in Obj, Die(m, k) PROVE KStep
  <2> DEFINE u == InCorpse(w, m, k)
  <2>1. /\ m \in Char /\ k \notin w.alive /\ w' = u /\ job = Idle
        /\ w.at[m] # None /\ job' = [op |-> "corpse", who |-> m, obj |-> k]
    BY <1>2, <1>9 DEF Die, Begin, Acts, Quiet
  <2>2. Corpses(w, None)
    BY <1>1, <2>1 DEF Filling, Idle
  <2>3. Secure(u, w, k) /\ u.at = w.at
    BY <1>1, <2>1, <2>2, InCorpseIsSecure
  <2> HIDE DEF u
  <2>4. QED
    BY <2>1, <2>3 DEF KStep, AtWork, Filling
<1>10. ASSUME NEW p \in Pos, CorpseEquipment(p) PROVE KStep
  <2> DEFINE o == w.eq[job.who][p]
             v == Unequip(w, job.who, p)
  <2>1. /\ job.op = "corpse" /\ job.who \in Char /\ o # None
        /\ job.obj \in Obj /\ Unplaced(w, job.obj)
        /\ w' = ToObj(v, o, job.obj) /\ job' = job
    BY <1>1, <1>10 DEF CorpseEquipment, Wears, Working, IInv, JobOK, Step
  <2>2. o \in Obj /\ Held(v, o) /\ Moves(v, w, o) /\ job.obj # o
    BY <1>1, <2>1, UnequipHeld, UnequipMoves
  <2> HIDE DEF v, o
  <2>3. Lands(ToObj(v, o, job.obj), w, o)
    BY <2>1, <2>2, ToObjLands
  <2>4. QED
    BY <1>3, <2>1, <2>2, <2>3
<1>11. ASSUME CorpseDone PROVE KStep
  <2> DEFINE c == job.who
             k == job.obj
             r == w.at[c]
             v == ToRoom(w, k, r)
             u == LeaveRoom(v, c)
  <2>1. /\ job.op = "corpse" /\ c \in Char /\ k \in w.alive /\ Unplaced(w, k)
        /\ k \in Obj /\ Gone(w, c) /\ w' = u /\ job' = Idle /\ r \in Room
        /\ Filling = k
    BY <1>1, <1>11 DEF CorpseDone, Finish, Working, IInv, JobOK, AtWork, Filling
  <2>2. Held(w, k) /\ Moves(w, w, k)
    BY <1>1, <2>1 DEF Held, Moves, SameSpot
  <2> HIDE DEF c, k, r
  <2>3. /\ Lands(v, w, k) /\ Good(v)
        /\ k \in v.alive => v.carriedBy[k] = None
    BY <1>1, <2>1, <2>2, ToRoomLands, ToRoomGood, ToRoomMoves
  <2> HIDE DEF v
  <2>4. Secure(v, w, k) /\ v \in World
    BY <1>1, <2>1, <2>3, LandedIsSecure DEF Good
  <2>5. Present(v) /\ Corpses(v, None)
    BY <2>3, <2>4 DEF Secure, Corpses, Lands
  <2>6. \A x \in Obj : v.carriedBy[x] # c
    <3>1. \A x \in Obj \ v.alive : v.carriedBy[x] = None
      BY <2>3 DEF Good, Consistent, DeadAreGone, Unplaced
    <3>2. \A x \in v.alive \ {k} : x \in Obj /\ v.carriedBy[x] = w.carriedBy[x]
      BY <2>3, <2>4 DEF Lands, Moves, SameSpot, World
    <3>3. QED
      BY <1>2, <1>7, <2>1, <2>3, <3>1, <3>2
  <2>7. /\ u.alive = v.alive /\ u.at = [v.at EXCEPT ![c] = None]
        /\ u.inRoom = v.inRoom /\ u.carriedBy = v.carriedBy
        /\ u.wornBy = v.wornBy /\ u.wornOn = v.wornOn /\ u.inObj = v.inObj
    BY <2>4 DEF LeaveRoom, World
  <2> HIDE DEF u
  <2>8. \A x \in Obj : SameSpot(u, v, x)
    BY <2>7 DEF SameSpot
  <2>9. Secure(u, v, None)
    BY <2>1, <2>4, <2>5, <2>6, <2>7, <2>8, GoingIsSecure
  <2>10. Kept(u, w)
    BY <2>4, <2>7, <2>8, <2>9 DEF Secure, Kept, SameSpot, Unplaced
  <2>11. QED
    BY <2>1, <2>9, <2>10 DEF Secure, KStep, AtWork, Filling, Idle
<1>12. QED
  BY <1>4, <1>5, <1>6, <1>8, <1>9, <1>10, <1>11 DEF Ends

LEMMA UpdateSecure ==
    ASSUME KInv, Good(w'), Update
    PROVE  KStep
<1>1. /\ Good(w) /\ w \in World /\ Climbs(w) /\ Present(w) /\ Corpses(w, Filling)
      /\ AtWork /\ IInv
  BY IInvGood DEF Good, KInv, NInv
<1>2. ASSUME Unmoved(w', w), job' = job PROVE KStep
  <2>1. Secure(w', w, Filling)
    BY <1>1, <1>2, UnmovedIsSecure
  <2>2. QED
    BY <1>1, <1>2, <2>1 DEF KStep, AtWork, Filling, Unmoved
<1>3. ASSUME NEW c \in Char, Burn(c) PROVE KStep
  <2>1. w' = Burnt(w, c) /\ job' = job
    BY <1>3 DEF Burn, Do
  <2>2. Unmoved(Burnt(w, c), w)
    BY <1>1 DEF Burnt, Unmoved, SameSpot, World
  <2>3. QED
    BY <1>2, <2>1, <2>2
<1>4. ASSUME StartUpdate \/ PassBy PROVE KStep
  BY <1>2, <1>4 DEF StartUpdate, PassBy, Unmoved, SameSpot
<1>5. ASSUME Decay PROVE KStep
  <2>1. /\ w' = w /\ job = Idle /\ Kind[pass.current] = "corpse"
        /\ job' = [op |-> "decay", who |-> None, obj |-> pass.current]
    BY <1>5 DEF Decay, Begin
  <2>2. Unmoved(w', w)
    BY <2>1 DEF Unmoved, SameSpot
  <2>3. Secure(w', w, Filling)
    BY <1>1, <2>2, UnmovedIsSecure
  <2>4. QED
    BY <2>1, <2>3 DEF KStep, AtWork, Filling, Idle
<1>6. ASSUME NEW o \in Obj, Spill(o) PROVE KStep
  <2>1. /\ job.op = "decay" /\ job.obj \in Obj /\ w' = Spilled(w, o, job.obj)
        /\ job' = job /\ o \in w.contains[job.obj] /\ Kind[job.obj] = "corpse"
        /\ Filling = None
    BY <1>1, <1>6 DEF Spill, Step, Working, IInv, JobOK, AtWork, Filling
  <2>2. w.inObj[o] = job.obj /\ job.obj \in w.alive
    BY <1>1, <2>1, ListedAlive
  <2>3. w.wornBy[job.obj] = None /\ ~Unplaced(w, job.obj)
    BY <1>1, <2>1, <2>2, PopulationAssumption DEF Corpses
  <2>4. Lands(w', w, o)
    BY <1>1, <2>1, <2>2, <2>3, SpilledLands
  <2>5. Secure(w', w, None)
    BY <1>1, <2>1, <2>4, LandedIsSecure
  <2>6. QED
    BY <2>1, <2>5 DEF KStep, AtWork, Filling
<1>7. ASSUME DecayDone PROVE KStep
  <2>1. /\ job.op = "decay" /\ job.obj \in Obj /\ w' = Extract(w, job.obj)
        /\ job' = Idle /\ Filling = None
    BY <1>1, <1>7 DEF DecayDone, Working, IInv, JobOK, Filling
  <2>2. Moves(w, w, job.obj)
    BY DEF Moves, SameSpot
  <2>3. Lands(w', w, job.obj)
    BY <1>1, <2>1, <2>2, ExtractLands
  <2>4. Secure(w', w, None)
    BY <1>1, <2>1, <2>3, LandedIsSecure
  <2>5. QED
    BY <2>1, <2>4 DEF KStep, AtWork, Filling, Idle
<1>8. QED
  BY <1>3, <1>4, <1>5, <1>6, <1>7 DEF Update

LEMMA NextKInv ==
    ASSUME Destroyer = {}, KInv, [Next]_vars
    PROVE  KInv' /\ Kept(w', w)
<1>1. NInv'
  BY NextNInv DEF KInv
<1>2. Good(w')
  BY <1>1 DEF NInv, IInv, TypeOK, OnePlace, Good
<1>3. ASSUME Resets \/ Commands PROVE KStep
  <2>1. job = Idle /\ job' = Idle
    <3>1. CASE Resets
      BY <3>1 DEF Resets, ResetMob, ResetObj, ResetPut, ResetGive,
         ResetEquip, ResetRemove, Fresh, Quiet, Do
    <3>2. CASE Commands
      BY <3>2 DEF Commands, Put, GetFromContainer, GetFromRoom, Drop, Junk,
         Give, Wear, Remove, Drink, Eat, PourOut, Pour, Walk, Acts, Quiet, Do
    <3>3. QED
      BY <1>3, <3>1, <3>2
  <2>2. Secure(w', w, Filling)
    BY <1>2, <1>3, ResetsSecure, CommandsSecure
  <2>3. QED
    BY <2>1, <2>2 DEF KStep, AtWork, Filling, Idle
<1>4. ASSUME UNCHANGED vars PROVE KStep
  <2>1. Unmoved(w', w)
    BY <1>4 DEF vars, Unmoved, SameSpot
  <2>2. Secure(w', w, Filling)
    BY <2>1, UnmovedIsSecure DEF KInv, NInv, IInv, TypeOK
  <2>3. QED
    BY <1>4, <2>2 DEF vars, KInv, KStep, AtWork, Filling
<1>5. KStep
  BY <1>2, <1>3, <1>4, SpellsSecure, EndsSecure, UpdateSecure DEF Next
<1>6. QED
  BY <1>1, <1>5 DEF KInv, KStep, Secure, Present, Corpses

(* Without the spell that takes equipment off the mobile it destroys, no   *)
(* step takes an object out of its place without putting it into another   *)
(* one or freeing it: neither a refused equip_char, nor a purge or a death *)
(* halfway through, nor a corpse that decays in a bag.                     *)
THEOREM NoObjectIsLost ==
    ASSUME Destroyer = {}
    PROVE  Spec => NothingIsLost
<1>1. Init => KInv
  <2> SUFFICES ASSUME Init PROVE KInv
    OBVIOUS
  <2>1. NInv
    BY InitNInv
  <2>2. job = Idle /\ w.alive = {} /\ w.carriedBy = [o \in Obj |-> None]
    BY DEF Init
  <2>3. QED
    BY <2>1, <2>2 DEF KInv, Present, Corpses, AtWork, Idle
<1>2. KInv /\ [Next]_vars => KInv'
  BY NextKInv
<1>3. KInv /\ [Next]_vars =>
        [\A o \in w.alive :
            ~Unplaced(w, o) /\ o \in w'.alive => ~Unplaced(w', o)]_vars
  BY NextKInv DEF Kept
<1>4. QED
  BY <1>1, <1>2, <1>3, PTL DEF Spec, NothingIsLost


=============================================================================
