--------------------------- MODULE ObjWorldProofs ---------------------------
(***************************************************************************)
(* For every set of objects, rooms and characters and every table of their *)
(* properties: the state keeps its type, and the lists and back pointers   *)
(* of handler.c agree (OnePlace).                                          *)
(*                                                                         *)
(* Each primitive of handler.c has a lemma that names the fields it        *)
(* changes, and one that says what it makes of a consistent world: a       *)
(* "from" operation leaves an object in hand (Held), a "to" operation      *)
(* puts an object in hand somewhere.  A command is then a chain of these.  *)
(***************************************************************************)
EXTENDS ObjWorld, TLAPS

Good(v) == v \in World /\ Consistent(v)

(* The object o has been taken out of wherever it was.                     *)
Held(v, o) == Good(v) /\ o \in v.alive /\ Unplaced(v, o)

SameRooms(u, v) == u.inRoom = v.inRoom /\ u.contents = v.contents
SameInventories(u, v) ==
    u.carriedBy = v.carriedBy /\ u.carrying = v.carrying
SameEquipment(u, v) ==
    u.wornBy = v.wornBy /\ u.wornOn = v.wornOn /\ u.eq = v.eq
SameNesting(u, v) == u.inObj = v.inObj /\ u.contains = v.contains

-----------------------------------------------------------------------------
(* What is where does not depend on weights, units, lights or whereabouts. *)
LEMMA SamePlaces ==
    ASSUME NEW u, NEW v, u \in World, Good(v), u.alive = v.alive,
           SameRooms(u, v), SameInventories(u, v), SameEquipment(u, v),
           SameNesting(u, v)
    PROVE  Good(u)
BY DEF Good, Consistent, RoomsAgree, InventoriesAgree, EquipmentAgrees,
       NestingAgrees, DeadAreGone, OnePlaceOnly, Unplaced,
       SameRooms, SameInventories, SameEquipment, SameNesting

(* The fields that obj_to_char changes.                                    *)
LEMMA ToCharFields ==
    ASSUME NEW v \in World, NEW o \in Obj, NEW c \in Char
    PROVE  LET u == ToChar(v, o, c) IN
           /\ u \in World
           /\ u.alive = v.alive
           /\ u.inRoom = [v.inRoom EXCEPT ![o] = None]
           /\ u.contents = v.contents
           /\ u.carriedBy = [v.carriedBy EXCEPT ![o] = c]
           /\ u.carrying = [v.carrying EXCEPT ![c] = @ \union {o}]
           /\ u.weight = v.weight /\ u.at = v.at
           /\ SameEquipment(u, v) /\ SameNesting(u, v)
<1> DEFINE A == [v.carrying EXCEPT ![c] = @ \union {o}]
           B == [v.carriedBy EXCEPT ![o] = c]
           C == [v.inRoom EXCEPT ![o] = None]
           D == [v.carryW EXCEPT ![c] = @ + v.weight[o]]
           E == [v.carryN EXCEPT ![c] = @ + 1]
           u == [v EXCEPT !.carrying = A, !.carriedBy = B, !.inRoom = C,
                          !.carryW = D, !.carryN = E]
<1>1. ToChar(v, o, c) = u
  BY DEF ToChar, World
<1>2. /\ A \in [Char -> SUBSET Obj]
      /\ B \in [Obj -> Char \union {None}]
      /\ C \in [Obj -> Room \union {None}]
  BY DEF World
<1>3. D \in [Char -> Int] /\ E \in [Char -> Int]
  BY DEF World
<1> HIDE DEF A, B, C, D, E
<1>4. /\ u \in World
      /\ u.alive = v.alive /\ u.inRoom = C /\ u.contents = v.contents
      /\ u.carriedBy = B /\ u.carrying = A
      /\ u.weight = v.weight /\ u.at = v.at
      /\ SameEquipment(u, v) /\ SameNesting(u, v)
  BY <1>2, <1>3 DEF World, SameEquipment, SameNesting
<1> QED
  BY <1>1, <1>4 DEF A, B, C

(* obj_to_char puts an object in hand into an inventory.                   *)
LEMMA ToCharGood ==
    ASSUME NEW v, NEW o \in Obj, NEW c \in Char, Held(v, o)
    PROVE  /\ Good(ToChar(v, o, c)) /\ ToChar(v, o, c).alive = v.alive
           /\ ToChar(v, o, c).carriedBy[o] = c
<1>1. v \in World /\ o \in v.alive /\ Unplaced(v, o) /\ Consistent(v)
  BY DEF Held, Good
<1> DEFINE u == ToChar(v, o, c)
<1>2. /\ u \in World
      /\ u.alive = v.alive
      /\ u.inRoom = [v.inRoom EXCEPT ![o] = None]
      /\ u.contents = v.contents
      /\ u.carriedBy = [v.carriedBy EXCEPT ![o] = c]
      /\ u.carrying = [v.carrying EXCEPT ![c] = @ \union {o}]
      /\ SameEquipment(u, v) /\ SameNesting(u, v)
  BY <1>1, ToCharFields
<1> HIDE DEF u
<1>3. None \notin Char
  BY PopulationAssumption
<1>4. RoomsAgree(u)
  BY <1>1, <1>2 DEF Consistent, RoomsAgree, Unplaced, World
<1>5. InventoriesAgree(u)
  BY <1>1, <1>2, <1>3 DEF Consistent, InventoriesAgree, Unplaced, World
<1>6. EquipmentAgrees(u) /\ NestingAgrees(u)
  BY <1>1, <1>2 DEF Consistent, EquipmentAgrees, NestingAgrees, SameEquipment, SameNesting
<1>7. DeadAreGone(u)
  BY <1>1, <1>2 DEF Consistent, DeadAreGone, Unplaced, SameEquipment, SameNesting, World
<1>8. \A x \in Obj : OnePlaceOnly(u, x)
  BY <1>1, <1>2 DEF Consistent, OnePlaceOnly, Unplaced, SameEquipment, SameNesting, World
<1>9. u.carriedBy[o] = c
  BY <1>1, <1>2 DEF World
<1> QED
  BY <1>2, <1>4, <1>5, <1>6, <1>7, <1>8, <1>9 DEF Good, Consistent, u

(* The fields that obj_from_char changes.                                  *)
LEMMA FromCharFields ==
    ASSUME NEW v \in World, NEW o \in Obj, NEW c \in Char, v.carriedBy[o] = c
    PROVE  LET u == FromChar(v, o) IN
           /\ u \in World
           /\ u.alive = v.alive
           /\ u.carriedBy = [v.carriedBy EXCEPT ![o] = None]
           /\ u.carrying = [v.carrying EXCEPT ![c] = @ \ {o}]
           /\ u.weight = v.weight /\ u.at = v.at
           /\ SameRooms(u, v) /\ SameEquipment(u, v) /\ SameNesting(u, v)
<1> DEFINE A == [v.carrying EXCEPT ![c] = @ \ {o}]
           B == [v.carriedBy EXCEPT ![o] = None]
           D == [v.carryW EXCEPT ![c] = @ - v.weight[o]]
           E == [v.carryN EXCEPT ![c] = @ - 1]
           u == [v EXCEPT !.carrying = A, !.carriedBy = B,
                          !.carryW = D, !.carryN = E]
<1>1. FromChar(v, o) = u
  BY DEF FromChar, World
<1>2. /\ A \in [Char -> SUBSET Obj]
      /\ B \in [Obj -> Char \union {None}]
  BY DEF World
<1>3. D \in [Char -> Int] /\ E \in [Char -> Int]
  BY DEF World
<1> HIDE DEF A, B, D, E
<1>4. /\ u \in World
      /\ u.alive = v.alive /\ u.carriedBy = B /\ u.carrying = A
      /\ u.weight = v.weight /\ u.at = v.at
      /\ SameRooms(u, v) /\ SameEquipment(u, v) /\ SameNesting(u, v)
  BY <1>2, <1>3 DEF World, SameRooms, SameEquipment, SameNesting
<1> QED
  BY <1>1, <1>4 DEF A, B

(* obj_from_char leaves the object in hand, and everything else in place.  *)
LEMMA FromCharHeld ==
    ASSUME NEW v, NEW o \in Obj, Good(v), v.carriedBy[o] # None
    PROVE  /\ Held(FromChar(v, o), o)
           /\ FromChar(v, o).alive = v.alive
           /\ SameRooms(FromChar(v, o), v) /\ SameNesting(FromChar(v, o), v)
           /\ SameEquipment(FromChar(v, o), v)
           /\ FromChar(v, o).at = v.at
           /\ FromChar(v, o).weight = v.weight
<1>1. v \in World /\ Consistent(v)
  BY DEF Good
<1> DEFINE u == FromChar(v, o)
           c == v.carriedBy[o]
<1>2. c \in Char /\ None \notin Char
  BY <1>1, PopulationAssumption DEF World
<1>3. /\ u \in World
      /\ u.alive = v.alive
      /\ u.carriedBy = [v.carriedBy EXCEPT ![o] = None]
      /\ u.carrying = [v.carrying EXCEPT ![c] = @ \ {o}]
      /\ SameRooms(u, v) /\ SameEquipment(u, v) /\ SameNesting(u, v)
      /\ u.at = v.at /\ u.weight = v.weight
  BY <1>1, <1>2, FromCharFields
<1>4. o \in v.alive
  BY <1>1 DEF Consistent, DeadAreGone, Unplaced
<1> HIDE DEF u
<1>5. Unplaced(u, o)
  BY <1>1, <1>2, <1>3 DEF Consistent, OnePlaceOnly, EquipmentAgrees, Unplaced,
        SameRooms, SameEquipment, SameNesting, World
<1>6. InventoriesAgree(u)
  BY <1>1, <1>2, <1>3 DEF Consistent, InventoriesAgree, World
<1>7. RoomsAgree(u) /\ EquipmentAgrees(u) /\ NestingAgrees(u)
  BY <1>1, <1>3 DEF Consistent, RoomsAgree, EquipmentAgrees, NestingAgrees,
        SameRooms, SameEquipment, SameNesting
<1>8. DeadAreGone(u)
  BY <1>1, <1>3 DEF Consistent, DeadAreGone, Unplaced,
        SameRooms, SameEquipment, SameNesting, World
<1>9. \A x \in Obj : OnePlaceOnly(u, x)
  BY <1>1, <1>3 DEF Consistent, OnePlaceOnly,
        SameRooms, SameEquipment, SameNesting, World
<1> QED
  BY <1>3, <1>4, <1>5, <1>6, <1>7, <1>8, <1>9 DEF Held, Good, Consistent, u

(* The fields that obj_from_room changes.                                  *)
LEMMA FromRoomFields ==
    ASSUME NEW v \in World, NEW o \in Obj, NEW r \in Room, v.inRoom[o] = r
    PROVE  LET u == FromRoom(v, o) IN
           /\ u \in World
           /\ u.alive = v.alive
           /\ u.inRoom = [v.inRoom EXCEPT ![o] = None]
           /\ u.contents = [v.contents EXCEPT ![r] = @ \ {o}]
           /\ u.weight = v.weight /\ u.at = v.at
           /\ SameInventories(u, v) /\ SameEquipment(u, v) /\ SameNesting(u, v)
<1> DEFINE A == [v.contents EXCEPT ![r] = @ \ {o}]
           B == [v.inRoom EXCEPT ![o] = None]
           u == [v EXCEPT !.contents = A, !.inRoom = B]
<1>1. FromRoom(v, o) = u
  BY DEF FromRoom, World
<1>2. A \in [Room -> SUBSET Obj] /\ B \in [Obj -> Room \union {None}]
  BY DEF World
<1> HIDE DEF A, B
<1>3. /\ u \in World
      /\ u.alive = v.alive /\ u.contents = A /\ u.inRoom = B
      /\ u.weight = v.weight /\ u.at = v.at
      /\ SameInventories(u, v) /\ SameEquipment(u, v) /\ SameNesting(u, v)
  BY <1>2 DEF World, SameInventories, SameEquipment, SameNesting
<1> QED
  BY <1>1, <1>3 DEF A, B

(* obj_from_room leaves the object in hand.                                *)
LEMMA FromRoomHeld ==
    ASSUME NEW v, NEW o \in Obj, Good(v), v.inRoom[o] # None
    PROVE  Held(FromRoom(v, o), o) /\ FromRoom(v, o).alive = v.alive
<1>1. v \in World /\ Consistent(v)
  BY DEF Good
<1> DEFINE u == FromRoom(v, o)
           r == v.inRoom[o]
<1>2. r \in Room /\ None \notin Room
  BY <1>1, PopulationAssumption DEF World
<1>3. /\ u \in World
      /\ u.alive = v.alive
      /\ u.inRoom = [v.inRoom EXCEPT ![o] = None]
      /\ u.contents = [v.contents EXCEPT ![r] = @ \ {o}]
      /\ SameInventories(u, v) /\ SameEquipment(u, v) /\ SameNesting(u, v)
  BY <1>1, <1>2, FromRoomFields
<1>4. o \in v.alive
  BY <1>1 DEF Consistent, DeadAreGone, Unplaced
<1> HIDE DEF u
<1>5. Unplaced(u, o)
  BY <1>1, <1>2, <1>3 DEF Consistent, OnePlaceOnly, EquipmentAgrees, Unplaced,
        SameInventories, SameEquipment, SameNesting, World
<1>6. RoomsAgree(u)
  BY <1>1, <1>2, <1>3 DEF Consistent, RoomsAgree, World
<1>7. InventoriesAgree(u) /\ EquipmentAgrees(u) /\ NestingAgrees(u)
  BY <1>1, <1>3 DEF Consistent, InventoriesAgree, EquipmentAgrees, NestingAgrees,
        SameInventories, SameEquipment, SameNesting
<1>8. DeadAreGone(u)
  BY <1>1, <1>3 DEF Consistent, DeadAreGone, Unplaced,
        SameInventories, SameEquipment, SameNesting, World
<1>9. \A x \in Obj : OnePlaceOnly(u, x)
  BY <1>1, <1>3 DEF Consistent, OnePlaceOnly,
        SameInventories, SameEquipment, SameNesting, World
<1> QED
  BY <1>3, <1>4, <1>5, <1>6, <1>7, <1>8, <1>9 DEF Held, Good, Consistent, u

-----------------------------------------------------------------------------
(* The end of the way up from an object is a character or nobody.          *)
LEMMA BearerType ==
    ASSUME NEW v \in World, NEW o \in Obj
    PROVE  Bearer(v, o) \in Char \union {None}
<1> DEFINE outer == {x \in Above(v, o) : v.inObj[x] = None}
<1>1. CASE outer = {}
  BY <1>1 DEF Bearer
<1>2. CASE outer # {}
  <2>1. (CHOOSE x \in outer : TRUE) \in outer
    BY <1>2
  <2>2. (CHOOSE x \in outer : TRUE) \in Obj
    BY <2>1 DEF Above
  <2> QED
    BY <1>2, <2>2 DEF Bearer, World
<1> QED
  BY <1>1, <1>2

(* The fields that obj_to_obj changes.                                     *)
LEMMA ToObjFields ==
    ASSUME NEW v \in World, NEW o \in Obj, NEW k \in Obj, o # k
    PROVE  LET u == ToObj(v, o, k) IN
           /\ u \in World
           /\ u.alive = v.alive
           /\ u.inObj = [v.inObj EXCEPT ![o] = k]
           /\ u.contains = [v.contains EXCEPT ![k] = @ \union {o}]
           /\ u.at = v.at
           /\ SameRooms(u, v) /\ SameInventories(u, v) /\ SameEquipment(u, v)
<1> DEFINE A  == [v.contains EXCEPT ![k] = @ \union {o}]
           B  == [v.inObj EXCEPT ![o] = k]
           v1 == [v EXCEPT !.contains = A, !.inObj = B]
           c  == Bearer(v1, o)
           W  == [x \in Obj |-> IF x \in Above(v1, o)
                                THEN v.weight[x] + v.weight[o] ELSE v.weight[x]]
           D  == [d \in Char |-> IF d = c THEN v.carryW[d] + v.weight[o]
                                 ELSE v.carryW[d]]
           u  == [v1 EXCEPT !.weight = W, !.carryW = D]
<1>1. v1 = [v EXCEPT !.contains[k] = @ \union {o}, !.inObj[o] = k]
  BY DEF World
<1>2. /\ A \in [Obj -> SUBSET Obj] /\ B \in [Obj -> Obj \union {None}]
      /\ W \in [Obj -> Int] /\ D \in [Char -> Int]
  BY DEF World
<1>3. v1 \in World /\ v1.weight = v.weight /\ v1.carryW = v.carryW
  <2> HIDE DEF A, B
  <2> QED
    BY <1>2 DEF World
<1>4. ToObj(v, o, k) = u
  <2> HIDE DEF v1
  <2>1. W = [x \in Obj |-> IF x \in Above(v1, o)
                           THEN v1.weight[x] + v.weight[o] ELSE v1.weight[x]]
    BY <1>3
  <2>2. D = [d \in Char |-> IF d = c THEN v1.carryW[d] + v.weight[o]
                            ELSE v1.carryW[d]]
    BY <1>3
  <2> QED
    BY <1>1, <2>1, <2>2 DEF ToObj
<1> HIDE DEF A, B, W, D
<1>5. /\ u \in World
      /\ u.alive = v.alive /\ u.inObj = B /\ u.contains = A /\ u.at = v.at
      /\ SameRooms(u, v) /\ SameInventories(u, v) /\ SameEquipment(u, v)
  BY <1>2 DEF World, SameRooms, SameInventories, SameEquipment
<1> QED
  BY <1>4, <1>5 DEF A, B

(* obj_to_obj puts an object in hand into an allocated container, or       *)
(* leaves it in hand when that is the object itself.                       *)
LEMMA ToObjGood ==
    ASSUME NEW v, NEW o \in Obj, NEW k \in v.alive, Held(v, o)
    PROVE  /\ Good(ToObj(v, o, k)) /\ ToObj(v, o, k).alive = v.alive
           /\ ToObj(v, o, k).at = v.at
           /\ \A x \in Obj \ {o} : Unplaced(v, x) => Unplaced(ToObj(v, o, k), x)
<1>1. v \in World /\ o \in v.alive /\ Unplaced(v, o) /\ Consistent(v) /\ k \in Obj
  BY DEF Held, Good, World
<1>2. CASE o = k
  BY <1>1, <1>2 DEF ToObj, Good
<1>3. CASE o # k
  <2> DEFINE u == ToObj(v, o, k)
  <2>1. /\ u \in World
        /\ u.alive = v.alive
        /\ u.inObj = [v.inObj EXCEPT ![o] = k]
        /\ u.contains = [v.contains EXCEPT ![k] = @ \union {o}]
        /\ u.at = v.at
        /\ SameRooms(u, v) /\ SameInventories(u, v) /\ SameEquipment(u, v)
    BY <1>1, <1>3, ToObjFields
  <2>2. None \notin Obj
    BY PopulationAssumption
  <2> HIDE DEF u
  <2>3. NestingAgrees(u)
    BY <1>1, <2>1, <2>2 DEF Consistent, NestingAgrees, Unplaced, World
  <2>4. RoomsAgree(u) /\ InventoriesAgree(u) /\ EquipmentAgrees(u)
    BY <1>1, <2>1 DEF Consistent, RoomsAgree, InventoriesAgree, EquipmentAgrees,
          SameRooms, SameInventories, SameEquipment
  <2>5. DeadAreGone(u)
    BY <1>1, <2>1 DEF Consistent, DeadAreGone, Unplaced,
          SameRooms, SameInventories, SameEquipment, World
  <2>6. \A x \in Obj : OnePlaceOnly(u, x)
    BY <1>1, <2>1 DEF Consistent, OnePlaceOnly, Unplaced,
          SameRooms, SameInventories, SameEquipment, World
  <2>7. \A x \in Obj \ {o} : Unplaced(v, x) => Unplaced(u, x)
    BY <1>1, <2>1 DEF Unplaced, SameRooms, SameInventories, SameEquipment, World
  <2> QED
    BY <2>1, <2>3, <2>4, <2>5, <2>6, <2>7 DEF Good, Consistent, u
<1> QED
  BY <1>2, <1>3

(* The fields that obj_from_obj changes.                                   *)
LEMMA FromObjFields ==
    ASSUME NEW v \in World, NEW o \in Obj, NEW k \in Obj, v.inObj[o] = k
    PROVE  LET u == FromObj(v, o) IN
           /\ u \in World
           /\ u.alive = v.alive
           /\ u.inObj = [v.inObj EXCEPT ![o] = None]
           /\ u.contains = [v.contains EXCEPT ![k] = @ \ {o}]
           /\ u.at = v.at
           /\ SameRooms(u, v) /\ SameInventories(u, v) /\ SameEquipment(u, v)
<1> DEFINE A  == [v.contains EXCEPT ![k] = @ \ {o}]
           B  == [v.inObj EXCEPT ![o] = None]
           W  == [x \in Obj |-> IF x \in Above(v, o)
                                THEN v.weight[x] - v.weight[o] ELSE v.weight[x]]
           D  == [d \in Char |-> IF d = Bearer(v, o) THEN v.carryW[d] - v.weight[o]
                                 ELSE v.carryW[d]]
           u  == [v EXCEPT !.contains = A, !.inObj = B, !.weight = W, !.carryW = D]
<1>1. FromObj(v, o) = u
  BY DEF FromObj, World
<1>2. /\ A \in [Obj -> SUBSET Obj] /\ B \in [Obj -> Obj \union {None}]
      /\ W \in [Obj -> Int] /\ D \in [Char -> Int]
  BY DEF World
<1> HIDE DEF A, B, W, D
<1>3. /\ u \in World
      /\ u.alive = v.alive /\ u.inObj = B /\ u.contains = A /\ u.at = v.at
      /\ SameRooms(u, v) /\ SameInventories(u, v) /\ SameEquipment(u, v)
  BY <1>2 DEF World, SameRooms, SameInventories, SameEquipment
<1> QED
  BY <1>1, <1>3 DEF A, B

(* obj_from_obj leaves the object in hand.                                 *)
LEMMA FromObjHeld ==
    ASSUME NEW v, NEW o \in Obj, Good(v), v.inObj[o] # None
    PROVE  /\ Held(FromObj(v, o), o) /\ FromObj(v, o).alive = v.alive
           /\ FromObj(v, o).at = v.at
<1>1. v \in World /\ Consistent(v)
  BY DEF Good
<1> DEFINE u == FromObj(v, o)
           k == v.inObj[o]
<1>2. k \in Obj /\ None \notin Obj
  BY <1>1, PopulationAssumption DEF World
<1>3. /\ u \in World
      /\ u.alive = v.alive
      /\ u.inObj = [v.inObj EXCEPT ![o] = None]
      /\ u.contains = [v.contains EXCEPT ![k] = @ \ {o}]
      /\ u.at = v.at
      /\ SameRooms(u, v) /\ SameInventories(u, v) /\ SameEquipment(u, v)
  BY <1>1, <1>2, FromObjFields
<1>4. o \in v.alive
  BY <1>1 DEF Consistent, DeadAreGone, Unplaced
<1> HIDE DEF u
<1>5. Unplaced(u, o)
  BY <1>1, <1>2, <1>3 DEF Consistent, OnePlaceOnly, EquipmentAgrees, Unplaced,
        SameRooms, SameInventories, SameEquipment, World
<1>6. NestingAgrees(u)
  BY <1>1, <1>2, <1>3 DEF Consistent, NestingAgrees, World
<1>7. RoomsAgree(u) /\ InventoriesAgree(u) /\ EquipmentAgrees(u)
  BY <1>1, <1>3 DEF Consistent, RoomsAgree, InventoriesAgree, EquipmentAgrees,
        SameRooms, SameInventories, SameEquipment
<1>8. DeadAreGone(u)
  BY <1>1, <1>2, <1>3 DEF Consistent, DeadAreGone, Unplaced,
        SameRooms, SameInventories, SameEquipment, World
<1>9. \A x \in Obj : OnePlaceOnly(u, x)
  BY <1>1, <1>3 DEF Consistent, OnePlaceOnly,
        SameRooms, SameInventories, SameEquipment, World
<1> QED
  BY <1>3, <1>4, <1>5, <1>6, <1>7, <1>8, <1>9 DEF Held, Good, Consistent, u

-----------------------------------------------------------------------------
(* The lights that equip_char and unequip_char leave are numbers.          *)
LEMMA LightingType ==
    ASSUME NEW v \in World, NEW c \in Char, NEW p, NEW o, NEW by \in Int
    PROVE  Lighting(v, c, p, o, by) \in [Room -> Int]
BY DEF Lighting, World

(* equip_char puts an object in hand on, into the inventory of who is      *)
(* zapped, or leaves it in hand.                                           *)
LEMMA EquipGood ==
    ASSUME NEW v, NEW o \in Obj, NEW c \in Char, NEW p \in Pos, NEW zapped,
           Held(v, o)
    PROVE  Good(Equip(v, o, c, p, zapped))
<1>1. v \in World /\ o \in v.alive /\ Unplaced(v, o) /\ Consistent(v)
  BY DEF Held, Good
<1>2. CASE v.eq[c][p] # None
  BY <1>2 DEF Equip, Held
<1>3. CASE v.eq[c][p] = None /\ zapped
  BY <1>3, ToCharGood DEF Equip
<1>4. CASE v.eq[c][p] = None /\ ~ zapped
  <2> DEFINE A == [v.eq EXCEPT ![c] = [v.eq[c] EXCEPT ![p] = o]]
             B == [v.wornBy EXCEPT ![o] = c]
             D == [v.wornOn EXCEPT ![o] = p]
             L == Lighting(v, c, p, o, 1)
             u == [v EXCEPT !.eq = A, !.wornBy = B, !.wornOn = D, !.light = L]
  <2>1. Equip(v, o, c, p, zapped) = u
    BY <1>1, <1>4 DEF Equip, World
  <2>2. /\ A \in [Char -> [Pos -> Obj \union {None}]]
        /\ B \in [Obj -> Char \union {None}] /\ D \in [Obj -> Pos \union {None}]
        /\ L \in [Room -> Int]
    <3>1. v.eq[c] \in [Pos -> Obj \union {None}]
      BY <1>1 DEF World
    <3>2. A \in [Char -> [Pos -> Obj \union {None}]]
      BY <1>1, <3>1 DEF World
    <3>3. B \in [Obj -> Char \union {None}] /\ D \in [Obj -> Pos \union {None}]
      BY <1>1 DEF World
    <3>4. L \in [Room -> Int]
      BY <1>1, LightingType
    <3> QED
      BY <3>2, <3>3, <3>4
  <2>3. None \notin Obj \union Char \union Pos
    BY PopulationAssumption
  <2>4. /\ u \in World
        /\ u.alive = v.alive /\ u.eq = A /\ u.wornBy = B /\ u.wornOn = D
        /\ SameRooms(u, v) /\ SameInventories(u, v) /\ SameNesting(u, v)
    <3> HIDE DEF A, B, D, L
    <3> QED
      BY <1>1, <2>2 DEF World, SameRooms, SameInventories, SameNesting
  <2> HIDE DEF u, L
  <2>5. EquipmentAgrees(u)
    <3>1. \A x \in Obj : u.wornBy[x] = None <=> u.wornOn[x] = None
      BY <1>1, <2>3, <2>4 DEF Consistent, EquipmentAgrees, World
    <3>2. \A x \in Obj, d \in Char, q \in Pos :
              u.eq[d][q] = x <=> u.wornBy[x] = d /\ u.wornOn[x] = q
      <4> TAKE x \in Obj, d \in Char, q \in Pos
      <4>1. CASE d = c /\ q = p
        BY <1>1, <1>4, <2>3, <2>4, <4>1 DEF Consistent, EquipmentAgrees, World, Unplaced
      <4>2. CASE ~ (d = c /\ q = p)
        BY <1>1, <1>4, <2>3, <2>4, <4>2 DEF Consistent, EquipmentAgrees, World, Unplaced
      <4> QED
        BY <4>1, <4>2
    <3> QED
      BY <3>1, <3>2 DEF EquipmentAgrees
  <2>6. RoomsAgree(u) /\ InventoriesAgree(u) /\ NestingAgrees(u)
    BY <1>1, <2>4 DEF Consistent, RoomsAgree, InventoriesAgree, NestingAgrees,
          SameRooms, SameInventories, SameNesting
  <2>7. DeadAreGone(u)
    BY <1>1, <2>4 DEF Consistent, DeadAreGone, Unplaced,
          SameRooms, SameInventories, SameNesting, World
  <2>8. \A x \in Obj : OnePlaceOnly(u, x)
    BY <1>1, <2>4 DEF Consistent, OnePlaceOnly, Unplaced,
          SameRooms, SameInventories, SameNesting, World
  <2> QED
    BY <2>1, <2>4, <2>5, <2>6, <2>7, <2>8 DEF Good, Consistent
<1> QED
  BY <1>2, <1>3, <1>4

(* unequip_char leaves the object in hand; what was nowhere before is      *)
(* still nowhere, and is another object.                                   *)
LEMMA UnequipHeld ==
    ASSUME NEW v, NEW c \in Char, NEW p \in Pos, Good(v), v.eq[c][p] # None
    PROVE  LET o == v.eq[c][p]
               u == Unequip(v, c, p)
           IN  /\ o \in Obj /\ Held(u, o) /\ u.alive = v.alive /\ u.at = v.at
               /\ \A x \in Obj : Unplaced(v, x) => Unplaced(u, x) /\ x # o
               /\ SameRooms(u, v) /\ SameInventories(u, v) /\ SameNesting(u, v)
<1>1. v \in World /\ Consistent(v)
  BY DEF Good
<1> DEFINE o == v.eq[c][p]
           A == [v.eq EXCEPT ![c] = [v.eq[c] EXCEPT ![p] = None]]
           B == [v.wornBy EXCEPT ![o] = None]
           D == [v.wornOn EXCEPT ![o] = None]
           L == Lighting(v, c, p, o, -1)
           u == [v EXCEPT !.eq = A, !.wornBy = B, !.wornOn = D, !.light = L]
<1>2. o \in Obj /\ v.wornBy[o] = c /\ v.wornOn[o] = p
  BY <1>1 DEF World, Consistent, EquipmentAgrees
<1>3. Unequip(v, c, p) = u
  BY <1>1 DEF Unequip, World
<1>4. /\ A \in [Char -> [Pos -> Obj \union {None}]]
      /\ B \in [Obj -> Char \union {None}] /\ D \in [Obj -> Pos \union {None}]
      /\ L \in [Room -> Int]
  <2>1. v.eq[c] \in [Pos -> Obj \union {None}]
    BY <1>1 DEF World
  <2>2. A \in [Char -> [Pos -> Obj \union {None}]]
    BY <1>1, <2>1 DEF World
  <2>3. B \in [Obj -> Char \union {None}] /\ D \in [Obj -> Pos \union {None}]
    BY <1>1 DEF World
  <2>4. L \in [Room -> Int]
    BY <1>1, LightingType
  <2> QED
    BY <2>2, <2>3, <2>4
<1>5. None \notin Obj \union Char \union Pos
  BY PopulationAssumption
<1>6. /\ u \in World
      /\ u.alive = v.alive /\ u.at = v.at
      /\ u.eq = A /\ u.wornBy = B /\ u.wornOn = D
      /\ SameRooms(u, v) /\ SameInventories(u, v) /\ SameNesting(u, v)
  <2> HIDE DEF A, B, D, L
  <2> QED
    BY <1>1, <1>4 DEF World, SameRooms, SameInventories, SameNesting
<1>7. o \in v.alive
  BY <1>1, <1>2, <1>5 DEF Consistent, DeadAreGone, Unplaced
<1> HIDE DEF u, L, o
<1>8. Unplaced(u, o) /\ \A x \in Obj : Unplaced(v, x) => Unplaced(u, x) /\ x # o
  BY <1>1, <1>2, <1>5, <1>6 DEF Consistent, OnePlaceOnly, Unplaced,
        SameRooms, SameInventories, SameNesting, World
<1>9. EquipmentAgrees(u)
  <2>1. \A x \in Obj : u.wornBy[x] = None <=> u.wornOn[x] = None
    BY <1>1, <1>2, <1>6 DEF Consistent, EquipmentAgrees, World
  <2>2. \A x \in Obj, d \in Char, q \in Pos :
            u.eq[d][q] = x <=> u.wornBy[x] = d /\ u.wornOn[x] = q
    <3> TAKE x \in Obj, d \in Char, q \in Pos
    <3>1. CASE d = c /\ q = p
      BY <1>1, <1>2, <1>5, <1>6, <3>1 DEF Consistent, EquipmentAgrees, World
    <3>2. CASE ~ (d = c /\ q = p)
      <4>1. u.eq[d][q] = v.eq[d][q]
        BY <1>1, <1>6, <3>2 DEF World
      <4>2. v.eq[d][q] = x <=> v.wornBy[x] = d /\ v.wornOn[x] = q
        BY <1>1 DEF Consistent, EquipmentAgrees
      <4>3. CASE x = o
        BY <1>1, <1>2, <1>5, <1>6, <3>2, <4>1, <4>2, <4>3 DEF World
      <4>4. CASE x # o
        BY <1>1, <1>6, <4>1, <4>2, <4>4 DEF World
      <4> QED
        BY <4>3, <4>4
    <3> QED
      BY <3>1, <3>2
  <2> QED
    BY <2>1, <2>2 DEF EquipmentAgrees
<1>10. RoomsAgree(u) /\ InventoriesAgree(u) /\ NestingAgrees(u)
  BY <1>1, <1>6 DEF Consistent, RoomsAgree, InventoriesAgree, NestingAgrees,
        SameRooms, SameInventories, SameNesting
<1>11. DeadAreGone(u)
  BY <1>1, <1>6 DEF Consistent, DeadAreGone, Unplaced,
        SameRooms, SameInventories, SameNesting, World
<1>12. \A x \in Obj : OnePlaceOnly(u, x)
  BY <1>1, <1>6 DEF Consistent, OnePlaceOnly,
        SameRooms, SameInventories, SameNesting, World
<1>13. Held(u, o)
  BY <1>6, <1>7, <1>8, <1>9, <1>10, <1>11, <1>12 DEF Held, Good, Consistent
<1> QED
  BY <1>2, <1>3, <1>6, <1>8, <1>13 DEF o

-----------------------------------------------------------------------------
(* Inside(v, o) holds o, is closed under containment, and whatever else is *)
(* in it is in something that is in it.                                    *)
LEMMA InsideClosed ==
    ASSUME NEW v, NEW o \in Obj
    PROVE  /\ Inside(v, o) \subseteq Obj
           /\ o \in Inside(v, o)
           /\ \A y \in Obj : v.inObj[y] \in Inside(v, o) => y \in Inside(v, o)
           /\ \A x \in Inside(v, o) : x = o \/ v.inObj[x] \in Inside(v, o)
<1> DEFINE I == Inside(v, o)
           Closed(S) == o \in S /\ \A y \in Obj : v.inObj[y] \in S => y \in S
<1>1. I = {x \in Obj : \A S \in SUBSET Obj : Closed(S) => x \in S}
  BY DEF Inside
<1> HIDE DEF I
<1>2. I \subseteq Obj /\ o \in I
  BY <1>1
<1>3. \A y \in Obj : v.inObj[y] \in I => y \in I
  BY <1>1
<1>4. \A x \in I : x = o \/ v.inObj[x] \in I
  <2> DEFINE S == {y \in I : y = o \/ v.inObj[y] \in I}
  <2>1. S \in SUBSET Obj
    BY <1>2
  <2>2. Closed(S)
    BY <1>2, <1>3
  <2> HIDE DEF S, Closed
  <2>3. \A x \in I : x \in S
    BY <1>1, <2>1, <2>2
  <2> QED
    BY <2>3 DEF S
<1> QED
  BY <1>2, <1>3, <1>4 DEF I

(* The fields that freeing an object and its contents changes.             *)
LEMMA EraseFields ==
    ASSUME NEW v \in World, NEW o \in Obj
    PROVE  LET u    == Erase(v, o)
               dead == Inside(v, o)
           IN
           /\ u \in World
           /\ u.alive = v.alive \ dead
           /\ u.inObj = [x \in Obj |-> IF x \in dead THEN None ELSE v.inObj[x]]
           /\ u.contains = [x \in Obj |-> IF x \in dead THEN {} ELSE v.contains[x]]
           /\ u.at = v.at
           /\ SameRooms(u, v) /\ SameInventories(u, v) /\ SameEquipment(u, v)
<1> DEFINE dead == Inside(v, o)
           L == v.alive \ dead
           A == [x \in Obj |-> IF x \in dead THEN None ELSE v.inObj[x]]
           B == [x \in Obj |-> IF x \in dead THEN {} ELSE v.contains[x]]
           W == [x \in Obj |-> IF x \in dead THEN 0 ELSE v.weight[x]]
           U == [x \in Obj |-> IF x \in dead THEN 0 ELSE v.units[x]]
           u == [v EXCEPT !.alive = L, !.inObj = A, !.contains = B,
                          !.weight = W, !.units = U]
<1>1. Erase(v, o) = u
  BY DEF Erase, World
<1>2. /\ L \in SUBSET Obj
      /\ A \in [Obj -> Obj \union {None}] /\ B \in [Obj -> SUBSET Obj]
      /\ W \in [Obj -> Int] /\ U \in [Obj -> Int]
  BY DEF World
<1> HIDE DEF L, A, B, W, U
<1>3. /\ u \in World
      /\ u.alive = L /\ u.inObj = A /\ u.contains = B /\ u.at = v.at
      /\ SameRooms(u, v) /\ SameInventories(u, v) /\ SameEquipment(u, v)
  BY <1>2 DEF World, SameRooms, SameInventories, SameEquipment
<1> QED
  BY <1>1, <1>3 DEF L, A, B

(* The second half of extract_obj, for an object that is nowhere: what is  *)
(* freed is in no list and nothing is left in it.                          *)
LEMMA EraseGood ==
    ASSUME NEW v, NEW o \in Obj, Good(v), Unplaced(v, o)
    PROVE  Good(Erase(v, o)) /\ Erase(v, o).at = v.at
<1>1. v \in World /\ Consistent(v)
  BY DEF Good
<1> DEFINE u    == Erase(v, o)
           dead == Inside(v, o)
<1>2. /\ u \in World
      /\ u.alive = v.alive \ dead
      /\ u.inObj = [x \in Obj |-> IF x \in dead THEN None ELSE v.inObj[x]]
      /\ u.contains = [x \in Obj |-> IF x \in dead THEN {} ELSE v.contains[x]]
      /\ u.at = v.at
      /\ SameRooms(u, v) /\ SameInventories(u, v) /\ SameEquipment(u, v)
  BY <1>1, EraseFields
<1>3. /\ dead \subseteq Obj /\ o \in dead
      /\ \A y \in Obj : v.inObj[y] \in dead => y \in dead
      /\ \A x \in dead : x = o \/ v.inObj[x] \in dead
  BY InsideClosed
<1>4. None \notin Obj
  BY PopulationAssumption
<1> HIDE DEF u, dead
<1>5. \A x \in dead : Unplaced(u, x)
  BY <1>1, <1>2, <1>3, <1>4 DEF Consistent, EquipmentAgrees, OnePlaceOnly,
        Unplaced, SameRooms, SameInventories, SameEquipment, World
<1>6. NestingAgrees(u)
  BY <1>1, <1>2, <1>3, <1>4 DEF Consistent, NestingAgrees, Unplaced, World
<1>7. RoomsAgree(u) /\ InventoriesAgree(u) /\ EquipmentAgrees(u)
  BY <1>1, <1>2 DEF Consistent, RoomsAgree, InventoriesAgree, EquipmentAgrees,
        SameRooms, SameInventories, SameEquipment
<1>8. DeadAreGone(u)
  <2> SUFFICES ASSUME NEW x \in Obj \ u.alive
               PROVE  Unplaced(u, x) /\ \A y \in Obj : u.inObj[y] # x
    BY DEF DeadAreGone
  <2>1. CASE x \in dead
    BY <1>2, <1>3, <1>4, <1>5, <2>1
  <2>2. CASE x \notin dead
    <3>1. Unplaced(v, x) /\ \A y \in Obj : v.inObj[y] # x
      BY <1>1, <1>2, <2>2 DEF Consistent, DeadAreGone
    <3> QED
      BY <1>2, <1>4, <2>2, <3>1 DEF Unplaced, SameRooms, SameInventories, SameEquipment
  <2> QED
    BY <2>1, <2>2
<1>9. \A x \in Obj : OnePlaceOnly(u, x)
  BY <1>1, <1>2 DEF Consistent, OnePlaceOnly,
        SameRooms, SameInventories, SameEquipment, World
<1> QED
  BY <1>2, <1>6, <1>7, <1>8, <1>9 DEF Good, Consistent, u

(* The first half of extract_obj leaves the object nowhere, from wherever  *)
(* it was.                                                                 *)
LEMMA DetachGood ==
    ASSUME NEW v, NEW o \in Obj, Good(v)
    PROVE  Good(Detach(v, o)) /\ Unplaced(Detach(v, o), o) /\ Detach(v, o).at = v.at
<1>1. v \in World /\ Consistent(v)
  BY DEF Good
<1>2. None \notin Obj \union Char \union Pos \union Room
  BY PopulationAssumption
<1>3. CASE v.wornBy[o] # None
  <2> DEFINE c == v.wornBy[o]
             p == v.wornOn[o]
             u == Unequip(v, c, p)
  <2>1. c \in Char /\ p \in Pos /\ v.eq[c][p] = o
    BY <1>1, <1>3 DEF World, Consistent, EquipmentAgrees
  <2>2. Held(u, o) /\ u.at = v.at
    BY <1>2, <2>1, UnequipHeld
  <2>3. Detach(v, o) = u
    BY <1>3, <2>2 DEF Detach, Held, Unplaced
  <2> QED
    BY <2>2, <2>3 DEF Held
<1>4. CASE v.wornBy[o] = None /\ v.inRoom[o] # None
  <2>1. Detach(v, o) = FromRoom(v, o)
    BY <1>4 DEF Detach
  <2>2. FromRoom(v, o).at = v.at
    <3>1. v.inRoom[o] \in Room
      BY <1>1, <1>4 DEF World
    <3> QED
      BY <1>1, <3>1, FromRoomFields
  <2> QED
    BY <1>4, <2>1, <2>2, FromRoomHeld DEF Held
<1>5. CASE v.wornBy[o] = None /\ v.inRoom[o] = None /\ v.carriedBy[o] # None
  <2>1. Detach(v, o) = FromChar(v, o)
    BY <1>5 DEF Detach
  <2> QED
    BY <1>5, <2>1, FromCharHeld DEF Held
<1>6. CASE /\ v.wornBy[o] = None /\ v.inRoom[o] = None /\ v.carriedBy[o] = None
           /\ v.inObj[o] # None
  <2>1. Detach(v, o) = FromObj(v, o)
    BY <1>6 DEF Detach
  <2> QED
    BY <1>6, <2>1, FromObjHeld DEF Held
<1>7. CASE /\ v.wornBy[o] = None /\ v.inRoom[o] = None /\ v.carriedBy[o] = None
           /\ v.inObj[o] = None
  <2>1. Detach(v, o) = v
    BY <1>7 DEF Detach
  <2>2. Unplaced(v, o)
    BY <1>1, <1>7 DEF Unplaced, Consistent, EquipmentAgrees
  <2> QED
    BY <2>1, <2>2
<1> QED
  BY <1>3, <1>4, <1>5, <1>6, <1>7

(* extract_obj keeps the lists consistent.                                 *)
LEMMA ExtractGood ==
    ASSUME NEW v, NEW o \in Obj, Good(v)
    PROVE  Good(Extract(v, o)) /\ Extract(v, o).at = v.at
BY DetachGood, EraseGood DEF Extract

-----------------------------------------------------------------------------
(* obj_to_room, also with NOWHERE for a room, where nothing is listed.     *)
LEMMA ToRoomGood ==
    ASSUME NEW v, NEW o \in Obj, NEW r \in Room \union {None}, Held(v, o)
    PROVE  Good(ToRoom(v, o, r)) /\ ToRoom(v, o, r).at = v.at
<1>1. v \in World /\ o \in v.alive /\ Unplaced(v, o) /\ Consistent(v) /\ Good(v)
  BY DEF Held, Good
<1> DEFINE sinks == v.weight[o] > 0 /\ r \in Water /\ o \notin NoSink
<1>2. CASE sinks
  BY <1>1, <1>2, ExtractGood DEF ToRoom
<1>3. CASE ~ sinks
  <2> DEFINE A == [v.contents EXCEPT ![r] = @ \union {o}]
             B == [v.inRoom EXCEPT ![o] = r]
             D == [v.carriedBy EXCEPT ![o] = None]
             u == [v EXCEPT !.contents = A, !.inRoom = B, !.carriedBy = D]
  <2>1. ToRoom(v, o, r) = u
    BY <1>1, <1>3 DEF ToRoom, World
  <2>2. /\ A \in [Room -> SUBSET Obj]
        /\ B \in [Obj -> Room \union {None}] /\ D \in [Obj -> Char \union {None}]
    BY <1>1 DEF World
  <2>3. /\ u \in World
        /\ u.alive = v.alive /\ u.at = v.at
        /\ u.contents = A /\ u.inRoom = B /\ u.carriedBy = D
        /\ u.carrying = v.carrying
        /\ SameEquipment(u, v) /\ SameNesting(u, v)
    <3> HIDE DEF A, B, D
    <3> QED
      BY <1>1, <2>2 DEF World, SameEquipment, SameNesting
  <2>4. None \notin Room \union Char
    BY PopulationAssumption
  <2> HIDE DEF u
  <2>5. D = v.carriedBy
    BY <1>1 DEF Unplaced, World
  <2>6. RoomsAgree(u)
    <3>1. RoomsAgree(v) /\ v.inRoom[o] = None
      BY <1>1 DEF Consistent, Unplaced
    <3>2. \A q \in Room : u.contents[q] = IF q = r THEN v.contents[q] \union {o}
                                         ELSE v.contents[q]
      BY <1>1, <2>3 DEF World
    <3>3. \A x \in Obj : u.inRoom[x] = IF x = o THEN r ELSE v.inRoom[x]
      BY <1>1, <2>3 DEF World
    <3> SUFFICES ASSUME NEW x \in Obj, NEW q \in Room
                 PROVE  x \in u.contents[q] <=> u.inRoom[x] = q
      BY DEF RoomsAgree
    <3>4. x \in v.contents[q] <=> v.inRoom[x] = q
      BY <3>1 DEF RoomsAgree
    <3>5. CASE q = r
      BY <2>4, <3>1, <3>2, <3>3, <3>4, <3>5
    <3>6. CASE q # r
      BY <2>4, <3>1, <3>2, <3>3, <3>4, <3>6
    <3> QED
      BY <3>5, <3>6
  <2>7. InventoriesAgree(u) /\ EquipmentAgrees(u) /\ NestingAgrees(u)
    BY <1>1, <2>3, <2>5 DEF Consistent, InventoriesAgree, EquipmentAgrees,
          NestingAgrees, SameEquipment, SameNesting
  <2>8. DeadAreGone(u)
    BY <1>1, <2>3, <2>5 DEF Consistent, DeadAreGone, Unplaced,
          SameEquipment, SameNesting, World
  <2>9. \A x \in Obj : OnePlaceOnly(u, x)
    BY <1>1, <2>3, <2>5 DEF Consistent, OnePlaceOnly, Unplaced,
          SameEquipment, SameNesting, World
  <2> QED
    BY <2>1, <2>3, <2>6, <2>7, <2>8, <2>9 DEF Good, Consistent
<1> QED
  BY <1>2, <1>3

-----------------------------------------------------------------------------
(* read_object leaves a new object in hand.                                *)
LEMMA CreatedHeld ==
    ASSUME NEW v, NEW o \in Obj, Good(v), o \notin v.alive
    PROVE  /\ Held(Created(v, o), o)
           /\ Created(v, o).alive = v.alive \union {o}
           /\ Created(v, o).at = v.at
<1>1. v \in World /\ Consistent(v)
  BY DEF Good
<1> DEFINE heavy == Empty[o] + IF Kind[o] \in {"drink", "fountain"} THEN Units[o]
                               ELSE 0
           L == v.alive \union {o}
           U == [v.units EXCEPT ![o] = Units[o]]
           W == [v.weight EXCEPT ![o] = heavy]
           u == [v EXCEPT !.alive = L, !.units = U, !.weight = W]
<1>2. heavy \in Int /\ Units[o] \in Int
  BY ValueAssumption
<1>3. Created(v, o) = u
  BY <1>1 DEF Created, World
<1>4. L \in SUBSET Obj /\ U \in [Obj -> Int] /\ W \in [Obj -> Int]
  <2> HIDE DEF heavy
  <2> QED
    BY <1>1, <1>2 DEF World
<1>5. /\ u \in World
      /\ u.alive = L /\ u.at = v.at
      /\ SameRooms(u, v) /\ SameInventories(u, v)
      /\ SameEquipment(u, v) /\ SameNesting(u, v)
  <2> HIDE DEF L, U, W
  <2> QED
    BY <1>1, <1>4 DEF World, SameRooms, SameInventories, SameEquipment, SameNesting
<1> HIDE DEF u
<1>6. Consistent(u) /\ Unplaced(u, o)
  BY <1>1, <1>5 DEF Consistent, RoomsAgree, InventoriesAgree, EquipmentAgrees,
        NestingAgrees, DeadAreGone, OnePlaceOnly, Unplaced,
        SameRooms, SameInventories, SameEquipment, SameNesting
<1> QED
  BY <1>3, <1>5, <1>6 DEF Held, Good

(* A change of weight alone moves nothing.                                 *)
LEMMA HeavierGood ==
    ASSUME NEW v, NEW o \in Obj, NEW n \in Int, Good(v)
    PROVE  LET u == [v EXCEPT !.weight[o] = @ + n]
           IN  Good(u) /\ u.alive = v.alive /\ (Held(v, o) => Held(u, o))
<1>1. v \in World
  BY DEF Good
<1> DEFINE W == [v.weight EXCEPT ![o] = @ + n]
           u == [v EXCEPT !.weight = W]
<1>2. W \in [Obj -> Int]
  BY <1>1 DEF World
<1>3. u = [v EXCEPT !.weight[o] = @ + n]
  OBVIOUS
<1> HIDE DEF W
<1>4. /\ u \in World /\ u.alive = v.alive
      /\ SameRooms(u, v) /\ SameInventories(u, v)
      /\ SameEquipment(u, v) /\ SameNesting(u, v)
  BY <1>1, <1>2 DEF World, SameRooms, SameInventories, SameEquipment, SameNesting
<1> HIDE DEF u
<1>5. Good(u)
  BY <1>4, SamePlaces
<1>6. Held(v, o) => Held(u, o)
  BY <1>4, <1>5 DEF Held, Unplaced, SameRooms, SameInventories, SameEquipment,
        SameNesting
<1> QED
  BY <1>3, <1>4, <1>5, <1>6

(* weight_change_object takes the object out and puts it back.             *)
LEMMA WeightChangedGood ==
    ASSUME NEW v, NEW o \in Obj, NEW n \in Int, Good(v)
    PROVE  Good(WeightChanged(v, o, n))
<1> DEFINE heavier(u) == [u EXCEPT !.weight[o] = @ + n]
<1>1. v \in World /\ Consistent(v)
  BY DEF Good
<1>2. CASE v.inRoom[o] # None
  <2>1. WeightChanged(v, o, n) = heavier(v)
    BY <1>2 DEF WeightChanged
  <2> QED
    BY <2>1, HeavierGood
<1>3. CASE v.inRoom[o] = None /\ v.carriedBy[o] # None
  <2> DEFINE v1 == FromChar(v, o)
             v2 == heavier(v1)
  <2>1. WeightChanged(v, o, n) = ToChar(v2, o, v.carriedBy[o])
    BY <1>3 DEF WeightChanged
  <2>2. Held(v1, o)
    BY <1>3, FromCharHeld
  <2> HIDE DEF v1
  <2>3. Held(v2, o)
    BY <2>2, HeavierGood DEF Held
  <2>4. v.carriedBy[o] \in Char
    BY <1>1, <1>3 DEF World
  <2> HIDE DEF v2
  <2> QED
    BY <2>1, <2>3, <2>4, ToCharGood
<1>4. CASE v.inRoom[o] = None /\ v.carriedBy[o] = None /\ v.inObj[o] # None
  <2> DEFINE v1 == FromObj(v, o)
             v2 == heavier(v1)
             k  == v.inObj[o]
  <2>1. WeightChanged(v, o, n) = ToObj(v2, o, k)
    BY <1>4 DEF WeightChanged
  <2>2. Held(v1, o) /\ v1.alive = v.alive
    BY <1>4, FromObjHeld
  <2>3. k \in v.alive
    <3>1. k \in Obj
      BY <1>1, <1>4 DEF World
    <3> QED
      BY <1>1, <3>1 DEF Consistent, DeadAreGone
  <2> HIDE DEF v1, k
  <2>4. Held(v2, o) /\ v2.alive = v.alive
    BY <2>2, HeavierGood DEF Held
  <2> HIDE DEF v2
  <2> QED
    BY <2>1, <2>3, <2>4, ToObjGood
<1>5. CASE v.inRoom[o] = None /\ v.carriedBy[o] = None /\ v.inObj[o] = None
  BY <1>5 DEF WeightChanged
<1> QED
  BY <1>2, <1>3, <1>4, <1>5

(* A change of drink-units or hours alone moves nothing.                   *)
LEMMA UnitsGood ==
    ASSUME NEW v, NEW U \in [Obj -> Int], Good(v)
    PROVE  Good([v EXCEPT !.units = U])
<1> DEFINE u == [v EXCEPT !.units = U]
<1>1. /\ u \in World /\ u.alive = v.alive
      /\ SameRooms(u, v) /\ SameInventories(u, v)
      /\ SameEquipment(u, v) /\ SameNesting(u, v)
  BY DEF Good, World, SameRooms, SameInventories, SameEquipment, SameNesting
<1> QED
  BY <1>1, SamePlaces

(* Characters move, and take their light along, without moving objects.    *)
LEMMA LightAtGood ==
    ASSUME NEW v, NEW L \in [Room -> Int], NEW A \in [Char -> Room \union {None}],
           Good(v)
    PROVE  Good([v EXCEPT !.light = L, !.at = A])
<1> DEFINE u == [v EXCEPT !.light = L, !.at = A]
<1>1. /\ u \in World /\ u.alive = v.alive
      /\ SameRooms(u, v) /\ SameInventories(u, v)
      /\ SameEquipment(u, v) /\ SameNesting(u, v)
  BY DEF Good, World, SameRooms, SameInventories, SameEquipment, SameNesting
<1> QED
  BY <1>1, SamePlaces

(* Lights burn out without moving objects.                                 *)
LEMMA LightUnitsGood ==
    ASSUME NEW v, NEW L \in [Room -> Int], NEW U \in [Obj -> Int], Good(v)
    PROVE  Good([v EXCEPT !.light = L, !.units = U])
<1> DEFINE u == [v EXCEPT !.light = L, !.units = U]
<1>1. /\ u \in World /\ u.alive = v.alive
      /\ SameRooms(u, v) /\ SameInventories(u, v)
      /\ SameEquipment(u, v) /\ SameNesting(u, v)
  BY DEF Good, World, SameRooms, SameInventories, SameEquipment, SameNesting
<1> QED
  BY <1>1, SamePlaces

(* char_from_room moves no object.                                         *)
LEMMA LeaveRoomGood ==
    ASSUME NEW v, NEW c \in Char, Good(v)
    PROVE  Good(LeaveRoom(v, c))
<1> DEFINE L == Lighting(v, c, LightPos, v.eq[c][LightPos], -1)
           A == [v.at EXCEPT ![c] = None]
<1>1. v \in World
  BY DEF Good
<1>2. L \in [Room -> Int] /\ A \in [Char -> Room \union {None}]
  <2>1. L \in [Room -> Int]
    BY <1>1, LightingType
  <2>2. A \in [Char -> Room \union {None}]
    BY <1>1 DEF World
  <2> QED
    BY <2>1, <2>2
<1>3. LeaveRoom(v, c) = [v EXCEPT !.light = L, !.at = A]
  <2>1. LeaveRoom(v, c) = [v EXCEPT !.light = L, !.at[c] = None]
    BY DEF LeaveRoom
  <2> HIDE DEF L
  <2>2. [v EXCEPT !.light = L, !.at[c] = None] = [v EXCEPT !.light = L, !.at = A]
    BY <1>1 DEF World
  <2> QED
    BY <2>1, <2>2
<1> HIDE DEF L, A
<1>4. Good([v EXCEPT !.light = L, !.at = A])
  BY <1>2, LightAtGood
<1> QED
  BY <1>3, <1>4

(* char_to_room moves no object.                                           *)
LEMMA EnterRoomGood ==
    ASSUME NEW v, NEW c \in Char, NEW r \in Room, Good(v)
    PROVE  Good(EnterRoom(v, c, r))
<1> DEFINE A  == [v.at EXCEPT ![c] = r]
           v1 == [v EXCEPT !.at = A]
           L  == Lighting(v1, c, LightPos, v.eq[c][LightPos], 1)
           u  == [v1 EXCEPT !.light = L]
<1>1. v \in World
  BY DEF Good
<1>2. A \in [Char -> Room \union {None}]
  BY <1>1 DEF World
<1>3. EnterRoom(v, c, r) = u
  BY DEF EnterRoom
<1> HIDE DEF A
<1>4. /\ v1 \in World /\ v1.alive = v.alive
      /\ SameRooms(v1, v) /\ SameInventories(v1, v)
      /\ SameEquipment(v1, v) /\ SameNesting(v1, v)
  BY <1>1, <1>2 DEF World, SameRooms, SameInventories, SameEquipment, SameNesting
<1> HIDE DEF v1
<1>5. L \in [Room -> Int]
  BY <1>4, LightingType
<1> HIDE DEF L
<1>6. /\ u \in World /\ u.alive = v1.alive
      /\ SameRooms(u, v1) /\ SameInventories(u, v1)
      /\ SameEquipment(u, v1) /\ SameNesting(u, v1)
  BY <1>4, <1>5 DEF World, SameRooms, SameInventories, SameEquipment, SameNesting
<1>7. Good(v1)
  BY <1>4, SamePlaces
<1> QED
  BY <1>3, <1>6, <1>7, SamePlaces

(* make_corpse turns an inventory into the contents of the corpse, which   *)
(* itself is still nowhere.                                                *)
LEMMA InCorpseGood ==
    ASSUME NEW v, NEW c \in Char, NEW k \in Obj, Good(v), k \notin v.alive
    PROVE  Held(InCorpse(v, c, k), k)
<1>1. v \in World /\ Consistent(v) /\ Unplaced(v, k)
      /\ \A x \in Obj : v.inObj[x] # k
  BY DEF Good, Consistent, DeadAreGone
<1> DEFINE had == v.carrying[c]
           L == v.alive \union {k}
           U == [v.units EXCEPT ![k] = 0]
           W == [v.weight EXCEPT ![k] = BodyWeight + v.carryW[c]]
           K == [v.contains EXCEPT ![k] = had]
           I == [x \in Obj |-> IF x \in had THEN k ELSE v.inObj[x]]
           B == [x \in Obj |-> IF x \in had THEN None ELSE v.carriedBy[x]]
           C == [v.carrying EXCEPT ![c] = {}]
           N == [v.carryN EXCEPT ![c] = 0]
           D == [v.carryW EXCEPT ![c] = 0]
           u == [v EXCEPT !.alive = L, !.units = U, !.weight = W, !.contains = K,
                          !.inObj = I, !.carriedBy = B, !.carrying = C,
                          !.carryN = N, !.carryW = D]
<1>2. InCorpse(v, c, k) = u
  BY <1>1 DEF InCorpse, World
<1>3. /\ L \in SUBSET Obj /\ U \in [Obj -> Int] /\ K \in [Obj -> SUBSET Obj]
      /\ C \in [Char -> SUBSET Obj] /\ N \in [Char -> Int] /\ D \in [Char -> Int]
  BY <1>1 DEF World
<1>4. W \in [Obj -> Int]
  BY <1>1, ValueAssumption DEF World
<1>5. I \in [Obj -> Obj \union {None}] /\ B \in [Obj -> Char \union {None}]
  BY <1>1 DEF World
<1>6. /\ u \in World
      /\ u.alive = L /\ u.contains = K /\ u.inObj = I
      /\ u.carriedBy = B /\ u.carrying = C
      /\ SameRooms(u, v) /\ SameEquipment(u, v)
  <2> HIDE DEF L, U, W, K, I, B, C, N, D
  <2> QED
    BY <1>1, <1>3, <1>4, <1>5 DEF World, SameRooms, SameEquipment
<1> HIDE DEF u
<1>7. None \notin Obj \union Char
  BY PopulationAssumption
<1>8. had \subseteq Obj /\ k \notin had /\ \A x \in Obj : x \in had <=> v.carriedBy[x] = c
  BY <1>1, <1>7 DEF Consistent, InventoriesAgree, Unplaced, World
<1>9. \A x \in had : v.inObj[x] = None /\ v.inRoom[x] = None
                     /\ v.wornBy[x] = None /\ x \in v.alive
  BY <1>1, <1>7, <1>8 DEF Consistent, OnePlaceOnly, DeadAreGone, Unplaced
<1> HIDE DEF had
<1>10. InventoriesAgree(u)
  <2> SUFFICES ASSUME NEW x \in Obj, NEW d \in Char
               PROVE  x \in u.carrying[d] <=> u.carriedBy[x] = d
    BY DEF InventoriesAgree
  <2>1. x \in v.carrying[d] <=> v.carriedBy[x] = d
    BY <1>1 DEF Consistent, InventoriesAgree
  <2>2. u.carrying[d] = IF d = c THEN {} ELSE v.carrying[d]
    BY <1>1, <1>6 DEF World
  <2>3. u.carriedBy[x] = IF x \in had THEN None ELSE v.carriedBy[x]
    BY <1>6
  <2> QED
    BY <1>7, <1>8, <2>1, <2>2, <2>3
<1>11. NestingAgrees(u)
  <2> SUFFICES ASSUME NEW x \in Obj, NEW y \in Obj
               PROVE  x \in u.contains[y] <=> u.inObj[x] = y
    BY DEF NestingAgrees
  <2>1. x \in v.contains[y] <=> v.inObj[x] = y
    BY <1>1 DEF Consistent, NestingAgrees
  <2>2. CASE y = k
    BY <1>1, <1>6, <2>1, <2>2 DEF World
  <2>3. CASE y # k
    BY <1>1, <1>6, <1>7, <1>9, <2>1, <2>3 DEF World
  <2> QED
    BY <2>2, <2>3
<1>12. RoomsAgree(u) /\ EquipmentAgrees(u)
  BY <1>1, <1>6 DEF Consistent, RoomsAgree, EquipmentAgrees, SameRooms, SameEquipment
<1>13. DeadAreGone(u)
  BY <1>1, <1>6, <1>8, <1>9 DEF Consistent, DeadAreGone, Unplaced,
        SameRooms, SameEquipment
<1>14. \A x \in Obj : OnePlaceOnly(u, x)
  BY <1>1, <1>6, <1>9 DEF Consistent, OnePlaceOnly, SameRooms, SameEquipment
<1>15. Unplaced(u, k) /\ k \in u.alive
  BY <1>1, <1>6, <1>8 DEF Unplaced, SameRooms, SameEquipment
<1> QED
  BY <1>2, <1>6, <1>10, <1>11, <1>12, <1>13, <1>14, <1>15 DEF Held, Good, Consistent

-----------------------------------------------------------------------------
(* The loops know whom and what they work on; the corpse that is being     *)
(* filled is nowhere until it is put into the room.                        *)
JobOK ==
    /\ job.op \in {"leave", "corpse", "disintegrate"} => job.who \in Char
    /\ job.op \in {"decay", "corpse"} => job.obj \in Obj
    /\ job.op = "corpse" => job.obj \in w.alive /\ Unplaced(w, job.obj)

IInv == TypeOK /\ OnePlace /\ JobOK

(* The invariant in the form the lemmas about the primitives take.         *)
LEMMA IInvGood == IInv => Good(w)
BY DEF IInv, TypeOK, OnePlace, Good

(* Everything in a list, in equipment or in a container is allocated.      *)
LEMMA ListedAlive ==
    ASSUME NEW v, Good(v), NEW o \in Obj
    PROVE  /\ \A r \in Room : o \in v.contents[r] => v.inRoom[o] = r
           /\ \A c \in Char : o \in v.carrying[c] => v.carriedBy[o] = c
           /\ \A k \in Obj : o \in v.contains[k] => v.inObj[o] = k /\ k \in v.alive
           /\ v.inRoom[o] # None \/ v.carriedBy[o] # None \/ v.inObj[o] # None
                => o \in v.alive
           /\ v.inObj[o] # None => v.inObj[o] \in v.alive
BY PopulationAssumption DEF Good, World, Consistent, RoomsAgree, InventoriesAgree,
   NestingAgrees, DeadAreGone, Unplaced

(* A command that leaves a consistent world while no loop runs keeps the   *)
(* invariant.                                                              *)
LEMMA DoStep ==
    ASSUME NEW v, IInv, Quiet, Do(v), Good(v)
    PROVE  IInv'
BY DEF IInv, Quiet, Do, Good, TypeOK, OnePlace, JobOK, Idle

(* The commands of a zone reset (reset_zone) keep the invariant.           *)
LEMMA ResetsStep == IInv /\ Resets => IInv'
<1> SUFFICES ASSUME IInv, Resets PROVE IInv'
  OBVIOUS
<1>1. Good(w) /\ w \in World
  BY IInvGood DEF Good
<1>2. Mob \subseteq Char /\ None \notin Obj \union Char \union Room
  BY PopulationAssumption
<1>3. CASE \E m \in Mob, r \in Room : ResetMob(m, r)
  BY <1>1, <1>2, <1>3, EnterRoomGood, DoStep DEF ResetMob
<1>4. CASE \E o \in Obj, r \in Room : ResetObj(o, r)
  BY <1>1, <1>4, CreatedHeld, ToRoomGood, DoStep DEF ResetObj, Fresh
<1>5. CASE \E o \in Obj : ResetPut(o)
  <2> PICK o \in Obj : ResetPut(o)
    BY <1>5
  <2>1. Quiet /\ Held(Created(w, o), o) /\ Created(w, o).alive = w.alive \union {o}
    BY <1>1, CreatedHeld DEF ResetPut, Fresh
  <2>2. CASE Home[o] \in w.alive
    BY <2>1, <2>2, ToObjGood, DoStep DEF ResetPut
  <2>3. CASE Home[o] \notin w.alive
    BY <2>1, <2>3, DoStep DEF ResetPut, Held
  <2> QED
    BY <2>2, <2>3
<1>6. CASE \E o \in Obj, m \in Mob : ResetGive(o, m)
  BY <1>1, <1>2, <1>6, CreatedHeld, ToCharGood, DoStep DEF ResetGive, Fresh
<1>7. CASE \E o \in Obj, m \in Mob, p \in Pos, z \in BOOLEAN : ResetEquip(o, m, p, z)
  <2> PICK o \in Obj, m \in Mob, p \in Pos, z \in BOOLEAN : ResetEquip(o, m, p, z)
    BY <1>7
  <2>1. Quiet /\ Held(Created(w, o), o)
    BY <1>1, CreatedHeld DEF ResetEquip, Fresh
  <2>2. Good(Equip(Created(w, o), o, m, p, z))
    BY <1>2, <2>1, EquipGood
  <2> QED
    BY <2>1, <2>2, DoStep DEF ResetEquip
<1>8. CASE \E o \in Obj : ResetRemove(o)
  BY <1>1, <1>8, FromRoomHeld, ExtractGood, DoStep DEF ResetRemove, Held
<1> QED
  BY <1>3, <1>4, <1>5, <1>6, <1>7, <1>8 DEF Resets

(* get_check_money extracts what has just been picked up.                  *)
LEMMA PocketedGood ==
    ASSUME NEW v, NEW o \in Obj, NEW c \in Char, Held(v, o)
    PROVE  Good(Pocketed(ToChar(v, o, c), c, o))
<1> DEFINE u == ToChar(v, o, c)
<1>1. Good(u) /\ u.carriedBy[o] # None
  BY ToCharGood, PopulationAssumption
<1> HIDE DEF u
<1>2. Good(Extract(FromChar(u, o), o))
  BY <1>1, FromCharHeld, ExtractGood DEF Held
<1> QED
  BY <1>1, <1>2 DEF Pocketed, u

(* Taking or adding drink-units.                                           *)
LEMMA DrunkGood ==
    ASSUME NEW v, NEW o \in Obj, NEW n \in Int, Good(v)
    PROVE  Good(Drunk(v, o, n)) /\ Good(Emptied(v, o))
<1>1. v \in World
  BY DEF Good
<1> DEFINE a  == Lesser(n, v.units[o])
           v1 == WeightChanged(v, o, -Lesser(a, v.weight[o]))
           v2 == WeightChanged(v, o, -v.units[o])
           U1 == [v1.units EXCEPT ![o] = @ - a]
           U2 == [v2.units EXCEPT ![o] = 0]
<1>2. v.units[o] \in Int /\ v.weight[o] \in Int
  BY <1>1 DEF World
<1>3. a \in Int
  BY <1>2 DEF Lesser
<1>4. Lesser(a, v.weight[o]) \in Int
  BY <1>2, <1>3 DEF Lesser
<1>5. Good(v1) /\ Good(v2)
  BY <1>2, <1>4, WeightChangedGood
<1> HIDE DEF a, v1, v2
<1>6. U1 \in [Obj -> Int] /\ U2 \in [Obj -> Int]
  BY <1>3, <1>5 DEF Good, World
<1>7. Drunk(v, o, n) = [v1 EXCEPT !.units = U1]
  BY DEF Drunk, a, v1
<1>8. Emptied(v, o) = [v2 EXCEPT !.units = U2]
  BY DEF Emptied, v2
<1> HIDE DEF U1, U2
<1> QED
  BY <1>5, <1>6, <1>7, <1>8, UnitsGood

(* Pouring changes the weights and units of two containers.                *)
LEMMA PouredGood ==
    ASSUME NEW v, NEW o \in Obj, NEW t \in Obj, o # t, Good(v)
    PROVE  Good(Poured(v, o, t))
<1>1. v \in World
  BY DEF Good
<1> DEFINE n  == Lesser(Capacity[t] - v.units[t], v.units[o])
           v1 == WeightChanged(v, o, -n)
           v2 == WeightChanged(v1, t, n)
<1>2. n \in Int
  BY <1>1, ValueAssumption DEF Lesser, World
<1>3. Poured(v, o, t) = [v2 EXCEPT !.units[o] = @ - n, !.units[t] = @ + n]
  BY DEF Poured
<1> HIDE DEF n
<1>4. Good(v1)
  BY <1>2, WeightChangedGood
<1> HIDE DEF v1
<1>5. Good(v2)
  BY <1>2, <1>4, WeightChangedGood
<1> HIDE DEF v2
<1>6. v2 \in World
  BY <1>5 DEF Good
<1> DEFINE U1 == [v2.units EXCEPT ![o] = @ - n]
           v3 == [v2 EXCEPT !.units = U1]
           U2 == [v3.units EXCEPT ![t] = v2.units[t] + n]
<1>7. Poured(v, o, t) = [v3 EXCEPT !.units = U2]
  BY <1>3
<1>8. U1 \in [Obj -> Int]
  BY <1>2, <1>6 DEF World
<1> HIDE DEF U1
<1>9. Good(v3)
  BY <1>5, <1>8, UnitsGood
<1> HIDE DEF v3
<1>10. U2 \in [Obj -> Int]
  BY <1>2, <1>6, <1>9 DEF Good, World
<1> HIDE DEF U2
<1> QED
  BY <1>7, <1>9, <1>10, UnitsGood

(* The commands of act.item.c, and walking, keep the invariant.            *)
LEMMA CommandsStep == IInv /\ Commands => IInv'
<1> SUFFICES ASSUME IInv, Commands PROVE IInv'
  OBVIOUS
<1>1. Good(w) /\ w \in World
  BY IInvGood DEF Good
<1>2. /\ None \notin Obj \union Char \union Room /\ Donation \in Room
      /\ w.at \in [Char -> Room \union {None}]
  BY <1>1, PopulationAssumption DEF World
<1>3. \A c \in Char, o \in Obj :
          o \in w.carrying[c] => Held(FromChar(w, o), o) /\ FromChar(w, o).alive = w.alive
                                 /\ FromChar(w, o).at = w.at
  BY <1>1, <1>2, ListedAlive, FromCharHeld
<1>4. CASE \E c \in Char, o, k \in Obj : Put(c, o, k)
  <2> PICK c \in Char, o \in Obj, k \in Obj : Put(c, o, k)
    BY <1>4
  <2>1. k \in w.alive
    <3>1. k \in w.carrying[c] \/ k \in w.contents[w.at[c]]
      BY DEF Put, Here
    <3>2. w.at[c] \in Room
      BY <1>2 DEF Put, Acts
    <3> QED
      BY <1>1, <1>2, <3>1, <3>2, ListedAlive
  <2>2. Good(ToObj(FromChar(w, o), o, k))
    BY <1>3, <2>1, ToObjGood DEF Put
  <2> QED
    BY <2>2, DoStep DEF Put, Acts
<1>5. CASE \E c \in Char, o, k \in Obj : GetFromContainer(c, o, k)
  <2> PICK c \in Char, o \in Obj, k \in Obj : GetFromContainer(c, o, k)
    BY <1>5
  <2>1. Held(FromObj(w, o), o)
    BY <1>1, <1>2, ListedAlive, FromObjHeld DEF GetFromContainer
  <2>2. Good(Pocketed(ToChar(FromObj(w, o), o, c), c, o))
    BY <2>1, PocketedGood
  <2> QED
    BY <2>2, DoStep DEF GetFromContainer, Acts
<1>6. CASE \E c \in Char, o \in Obj : GetFromRoom(c, o)
  <2> PICK c \in Char, o \in Obj : GetFromRoom(c, o)
    BY <1>6
  <2>1. w.at[c] \in Room
    BY <1>2 DEF GetFromRoom, Acts
  <2>2. Held(FromRoom(w, o), o)
    BY <1>1, <1>2, <2>1, ListedAlive, FromRoomHeld DEF GetFromRoom
  <2>3. Good(Pocketed(ToChar(FromRoom(w, o), o, c), c, o))
    BY <2>2, PocketedGood
  <2> QED
    BY <2>3, DoStep DEF GetFromRoom, Acts
<1>7. CASE \E c \in Char, o \in Obj, r \in Room : Drop(c, o, r)
  BY <1>3, <1>7, ToRoomGood, DoStep DEF Drop, Acts
<1>8. CASE \E c \in Char, o \in Obj : Junk(c, o)
  BY <1>3, <1>8, ExtractGood, DoStep DEF Junk, Acts, Held
<1>9. CASE \E c, d \in Char, o \in Obj : Give(c, d, o)
  BY <1>3, <1>9, ToCharGood, DoStep DEF Give, Acts
<1>10. CASE \E c \in Char, o \in Obj, p \in Pos, z \in BOOLEAN : Wear(c, o, p, z)
  <2> PICK c \in Char, o \in Obj, p \in Pos, z \in BOOLEAN : Wear(c, o, p, z)
    BY <1>10
  <2>1. Good(Equip(FromChar(w, o), o, c, p, z))
    BY <1>3, EquipGood DEF Wear
  <2> QED
    BY <2>1, DoStep DEF Wear, Acts
<1>11. CASE \E c \in Char, p \in Pos : Remove(c, p)
  <2> PICK c \in Char, p \in Pos : Remove(c, p)
    BY <1>11
  <2>1. w.eq[c][p] \in Obj /\ Held(Unequip(w, c, p), w.eq[c][p])
    BY <1>1, UnequipHeld DEF Remove
  <2>2. Good(ToChar(Unequip(w, c, p), w.eq[c][p], c))
    BY <2>1, ToCharGood
  <2> QED
    BY <2>2, DoStep DEF Remove, Acts
<1>12. CASE \E c \in Char, o \in Obj, n \in -1 .. MaxGulp : Drink(c, o, n)
  <2> PICK c \in Char, o \in Obj, n \in -1 .. MaxGulp : Drink(c, o, n)
    BY <1>12
  <2>1. n \in Int
    BY ValueAssumption
  <2> QED
    BY <1>1, <2>1, DrunkGood, DoStep DEF Drink, Acts
<1>13. CASE \E c \in Char, o \in Obj : Eat(c, o)
  BY <1>1, <1>13, ExtractGood, DoStep DEF Eat, Acts
<1>14. CASE \E c \in Char, o \in Obj : PourOut(c, o)
  BY <1>1, <1>14, 0 \in Int, DrunkGood, DoStep DEF PourOut, Acts
<1>15. CASE \E c \in Char, o, t \in Obj : Pour(c, o, t)
  BY <1>1, <1>15, PouredGood, DoStep DEF Pour, Acts
<1>16. CASE \E c \in Char, r \in Room : Walk(c, r)
  BY <1>1, <1>16, LeaveRoomGood, EnterRoomGood, DoStep DEF Walk, Acts
<1> QED
  BY <1>4, <1>5, <1>6, <1>7, <1>8, <1>9, <1>10, <1>11, <1>12, <1>13, <1>14,
     <1>15, <1>16 DEF Commands

(* create water, disintegrate and the wand of wonder keep the invariant:   *)
(* an object that disintegrate takes off its wearer is nowhere, which is   *)
(* consistent.                                                             *)
LEMMA SpellsStep == IInv /\ Spells => IInv'
<1> SUFFICES ASSUME IInv, Spells PROVE IInv'
  OBVIOUS
<1>1. Good(w) /\ w \in World
  BY IInvGood DEF Good
<1>2. CASE \E c \in Char, o \in Obj : CreateWater(c, o)
  <2> PICK c \in Char, o \in Obj : CreateWater(c, o)
    BY <1>2
  <2> DEFINE n == Capacity[o] - w.units[o]
             v == WeightChanged(w, o, n)
             U == [v.units EXCEPT ![o] = Capacity[o]]
             u == [v EXCEPT !.units = U]
  <2>1. n \in Int /\ Capacity[o] \in Int
    BY <1>1, ValueAssumption DEF World
  <2>2. Good(v)
    BY <1>1, <2>1, WeightChangedGood
  <2>3. Do(u) /\ Quiet
    BY DEF CreateWater, Acts
  <2> HIDE DEF v
  <2>4. U \in [Obj -> Int]
    BY <2>1, <2>2 DEF Good, World
  <2>5. Good(u)
    BY <2>2, <2>4, UnitsGood
  <2> QED
    BY <2>3, <2>5, DoStep
<1>3. CASE \E c \in Char, o \in Obj : DisintegrateObj(c, o)
  BY <1>1, <1>3, ExtractGood, DoStep DEF DisintegrateObj, Acts
<1>4. CASE \E c \in Char : LightsOut(c)
  <2> PICK c \in Char : LightsOut(c)
    BY <1>4
  <2> DEFINE mine == w.eq[c][LightPos]
             L == [w.light EXCEPT ![w.at[c]] = 0]
             U == [o \in Obj |-> IF o = mine THEN 0 ELSE w.units[o]]
             u == [w EXCEPT !.light = L, !.units = U]
  <2>1. Do(u) /\ Quiet
    BY DEF LightsOut, Acts
  <2>2. L \in [Room -> Int] /\ U \in [Obj -> Int]
    <3>1. w.light \in [Room -> Int] /\ w.units \in [Obj -> Int]
      BY <1>1 DEF World
    <3>2. w.at[c] \in Room
      BY <1>1 DEF World, LightsOut, Acts
    <3>3. L \in [Room -> Int]
      BY <3>1, <3>2
    <3>4. U \in [Obj -> Int]
      BY <3>1
    <3> QED
      BY <3>3, <3>4
  <2>3. Good(u)
    BY <1>1, <2>2, LightUnitsGood
  <2> QED
    BY <2>1, <2>3, DoStep
<1>5. CASE \E c \in Char, m \in Mob : DisintegrateChar(c, m)
  BY <1>1, <1>5, PopulationAssumption
     DEF DisintegrateChar, Begin, Acts, Quiet, IInv, TypeOK, OnePlace, JobOK, Job, Idle
<1>6. CASE \E p \in Pos : DisintegrateEquipment(p)
  BY <1>1, <1>6, UnequipHeld DEF DisintegrateEquipment, Wears, Step, Working,
     Held, Good, IInv, TypeOK, OnePlace, JobOK
<1>7. CASE \E o \in Obj : DisintegrateItem(o)
  BY <1>1, <1>7, ExtractGood DEF DisintegrateItem, Step, Working,
     Good, IInv, TypeOK, OnePlace, JobOK
<1>8. CASE Left("disintegrate")
  BY <1>1, <1>8, LeaveRoomGood DEF Left, Finish, Working,
     Good, IInv, TypeOK, OnePlace, JobOK, Job, Idle
<1> QED
  BY <1>2, <1>3, <1>4, <1>5, <1>6, <1>7, <1>8 DEF Spells

(* Purging and killing a mobile keep the invariant at every step of the    *)
(* loops of extract_char and make_corpse.                                  *)
LEMMA EndsStep == IInv /\ Ends => IInv'
<1> SUFFICES ASSUME IInv, Ends PROVE IInv'
  OBVIOUS
<1>1. Good(w) /\ w \in World
  BY IInvGood DEF Good
<1>2. w.at \in [Char -> Room \union {None}]
  BY <1>1 DEF World
<1>3. CASE \E m \in Mob : Purge(m)
  BY <1>1, <1>3, PopulationAssumption
     DEF Purge, Begin, Acts, Quiet, IInv, TypeOK, OnePlace, JobOK, Job, Idle
<1>4. CASE \E o \in Obj : LeaveItem(o)
  <2> PICK o \in Obj : LeaveItem(o)
    BY <1>4
  <2>1. job.op = "leave" /\ job.who \in Char
    BY DEF LeaveItem, Working, IInv, JobOK
  <2>2. w.carriedBy[o] # None
    BY <1>1, <2>1, ListedAlive, PopulationAssumption DEF LeaveItem
  <2>3. Good(ToRoom(FromChar(w, o), o, w.at[job.who]))
    BY <1>1, <1>2, <2>1, <2>2, FromCharHeld, ToRoomGood
  <2> QED
    BY <2>1, <2>3 DEF LeaveItem, Step, Good, IInv, TypeOK, OnePlace, JobOK
<1>5. CASE \E p \in Pos : LeaveEquipment(p)
  <2> PICK p \in Pos : LeaveEquipment(p)
    BY <1>5
  <2>1. job.op = "leave" /\ job.who \in Char /\ w.eq[job.who][p] # None
    BY DEF LeaveEquipment, Wears, Working, IInv, JobOK
  <2>2. Good(ToRoom(Unequip(w, job.who, p), w.eq[job.who][p], w.at[job.who]))
    BY <1>1, <1>2, <2>1, UnequipHeld, ToRoomGood
  <2> QED
    BY <2>1, <2>2 DEF LeaveEquipment, Step, Good, IInv, TypeOK, OnePlace, JobOK
<1>6. CASE Left("leave")
  BY <1>1, <1>6, LeaveRoomGood DEF Left, Finish, Working,
     Good, IInv, TypeOK, OnePlace, JobOK, Job, Idle
<1>7. CASE \E m \in Mob, k \in Obj : Die(m, k)
  <2> PICK m \in Mob, k \in Obj : Die(m, k)
    BY <1>7
  <2>1. Held(InCorpse(w, m, k), k) /\ m \in Char
    BY <1>1, InCorpseGood, PopulationAssumption DEF Die
  <2>2. /\ w' = InCorpse(w, m, k) /\ job' = [op |-> "corpse", who |-> m, obj |-> k]
        /\ pass' = pass
    BY DEF Die, Begin
  <2> QED
    BY <2>1, <2>2 DEF Held, Good, IInv, TypeOK, OnePlace, JobOK, Job
<1>8. CASE \E p \in Pos : CorpseEquipment(p)
  <2> PICK p \in Pos : CorpseEquipment(p)
    BY <1>8
  <2> DEFINE v == Unequip(w, job.who, p)
             o == w.eq[job.who][p]
             u == ToObj(v, o, job.obj)
  <2>1. /\ job.op = "corpse" /\ job.who \in Char /\ o # None
        /\ job.obj \in w.alive /\ Unplaced(w, job.obj) /\ job.obj \in Obj
    BY DEF CorpseEquipment, Wears, Working, IInv, JobOK
  <2>2. /\ Held(v, o) /\ o \in Obj /\ v.alive = w.alive
        /\ Unplaced(v, job.obj) /\ job.obj # o
    BY <1>1, <2>1, UnequipHeld
  <2> HIDE DEF v, o
  <2>3. Good(u) /\ u.alive = v.alive /\ Unplaced(u, job.obj)
    BY <2>1, <2>2, ToObjGood
  <2>4. Step(u)
    BY DEF CorpseEquipment, v, o
  <2> HIDE DEF u
  <2> QED
    BY <2>1, <2>2, <2>3, <2>4 DEF Step, Good, IInv, TypeOK, OnePlace, JobOK
<1>9. CASE CorpseDone
  <2> DEFINE v == ToRoom(w, job.obj, w.at[job.who])
  <2>1. /\ job.who \in Char /\ job.obj \in w.alive
        /\ Unplaced(w, job.obj) /\ job.obj \in Obj
    BY <1>9 DEF CorpseDone, Working, IInv, JobOK
  <2>2. Good(v)
    BY <1>1, <1>2, <2>1, ToRoomGood DEF Held
  <2>3. Good(LeaveRoom(v, job.who))
    BY <2>1, <2>2, LeaveRoomGood
  <2> QED
    BY <1>9, <2>3 DEF CorpseDone, Finish, Good, IInv, TypeOK, OnePlace, JobOK, Job, Idle
<1> QED
  BY <1>3, <1>4, <1>5, <1>6, <1>7, <1>8, <1>9 DEF Ends

(* A thing out of a decaying corpse goes where the corpse is.              *)
LEMMA SpilledGood ==
    ASSUME NEW v, NEW o \in Obj, NEW j \in Obj, Good(v), v.inObj[o] # None
    PROVE  Good(Spilled(v, o, j))
<1> DEFINE v1 == FromObj(v, o)
<1>1. Held(v1, o)
  BY FromObjHeld
<1>2. Good(v1) /\ v1 \in World
  BY <1>1 DEF Held, Good
<1>3. Spilled(v, o, j) =
        IF v1.inObj[j] # None THEN ToObj(v1, o, v1.inObj[j])
        ELSE IF v1.carriedBy[j] # None THEN ToRoom(v1, o, v1.at[v1.carriedBy[j]])
        ELSE ToRoom(v1, o, v1.inRoom[j])
  BY DEF Spilled
<1> HIDE DEF v1
<1>4. CASE v1.inObj[j] # None
  BY <1>1, <1>2, <1>3, <1>4, ListedAlive, ToObjGood
<1>5. CASE v1.inObj[j] = None /\ v1.carriedBy[j] # None
  <2>1. v1.at[v1.carriedBy[j]] \in Room \union {None}
    BY <1>2, <1>5 DEF World
  <2> QED
    BY <1>1, <1>3, <1>5, <2>1, ToRoomGood
<1>6. CASE v1.inObj[j] = None /\ v1.carriedBy[j] = None
  <2>1. v1.inRoom[j] \in Room \union {None}
    BY <1>2 DEF World
  <2> QED
    BY <1>1, <1>3, <1>6, <2>1, ToRoomGood
<1> QED
  BY <1>4, <1>5, <1>6

(* point_update's walk goes on to its successor.                           *)
LEMMA AdvanceType ==
    ASSUME NEW v, v \in World, pass \in Pass, Advance(v)
    PROVE  pass' \in Pass
BY DEF Advance, Visit, Successors, Pass, NoPass, World

(* Burning lights and the walk of point_update, with the decay of corpses, *)
(* keep the invariant.                                                     *)
LEMMA UpdateStep == IInv /\ Update => IInv'
<1> SUFFICES ASSUME IInv, Update PROVE IInv'
  OBVIOUS
<1>1. Good(w) /\ w \in World /\ pass \in Pass /\ job \in Job
  BY IInvGood DEF Good, IInv, TypeOK
<1>2. CASE \E c \in Char : Burn(c)
  <2> PICK c \in Char : Burn(c)
    BY <1>2
  <2> DEFINE o == w.eq[c][LightPos]
             U == [w.units EXCEPT ![o] = @ - 1]
             L == [w.light EXCEPT ![w.at[c]] = IF w.units[o] = 1 THEN @ - 1 ELSE @]
             u == [w EXCEPT !.light = L, !.units = U]
  <2>1. Quiet /\ Do(Burnt(w, c)) /\ o # None /\ w.at[c] # None
    BY DEF Burn, Acts, IsLit
  <2>2. o \in Obj /\ w.at[c] \in Room
    BY <1>1, <2>1, PopulationAssumption DEF World
  <2>3. Burnt(w, c) = [w EXCEPT !.units = U, !.light = L]
    BY <1>1 DEF Burnt, World
  <2>4. L \in [Room -> Int] /\ U \in [Obj -> Int]
    BY <1>1, <2>2 DEF World
  <2> HIDE DEF L, U, o
  <2>5. Burnt(w, c) = u
    BY <1>1, <2>3 DEF World
  <2>6. Good(u)
    BY <1>1, <2>4, LightUnitsGood
  <2> QED
    BY <2>1, <2>5, <2>6, DoStep
<1>3. CASE StartUpdate
  BY <1>1, <1>3 DEF StartUpdate, Visit, Successors, Pass, World, IInv, TypeOK,
     OnePlace, JobOK
<1>4. CASE PassBy
  BY <1>1, <1>4, AdvanceType DEF PassBy, IInv, TypeOK, OnePlace, JobOK
<1>5. CASE Decay
  BY <1>1, <1>5 DEF Decay, Begin, World, IInv, TypeOK, OnePlace, JobOK, Job
<1>6. CASE \E o \in Obj : Spill(o)
  <2> PICK o \in Obj : Spill(o)
    BY <1>6
  <2>1. job.op = "decay" /\ job.obj \in Obj
    BY DEF Spill, Working, IInv, JobOK
  <2>2. Good(Spilled(w, o, job.obj))
    BY <1>1, <2>1, ListedAlive, SpilledGood, PopulationAssumption DEF Spill
  <2> QED
    BY <2>1, <2>2 DEF Spill, Step, Good, IInv, TypeOK, OnePlace, JobOK
<1>7. CASE DecayDone
  <2>1. job.obj \in Obj
    BY <1>7 DEF DecayDone, Working, IInv, JobOK
  <2>2. Good(Extract(w, job.obj)) /\ Extract(w, job.obj) \in World
    BY <1>1, <2>1, ExtractGood DEF Good
  <2>3. pass' \in Pass
    BY <1>1, <1>7, <2>2, AdvanceType DEF DecayDone
  <2> QED
    BY <1>7, <2>2, <2>3 DEF DecayDone, Good, IInv, TypeOK, OnePlace, JobOK, Job, Idle
<1> QED
  BY <1>2, <1>3, <1>4, <1>5, <1>6, <1>7 DEF Update

-----------------------------------------------------------------------------
(* A world before the first reset is consistent.                           *)
LEMMA InitIInv == Init => IInv
<1> SUFFICES ASSUME Init PROVE IInv
  OBVIOUS
<1> PICK start \in [Char -> Room] :
        w = [alive     |-> {},
             inRoom    |-> [o \in Obj |-> None],
             carriedBy |-> [o \in Obj |-> None],
             wornBy    |-> [o \in Obj |-> None],
             wornOn    |-> [o \in Obj |-> None],
             inObj     |-> [o \in Obj |-> None],
             contents  |-> [r \in Room |-> {}],
             carrying  |-> [c \in Char |-> {}],
             eq        |-> [c \in Char |-> [p \in Pos |-> None]],
             contains  |-> [o \in Obj |-> {}],
             weight    |-> [o \in Obj |-> 0],
             units     |-> [o \in Obj |-> 0],
             carryW    |-> [c \in Char |-> 0],
             carryN    |-> [c \in Char |-> 0],
             at        |-> [c \in Char |-> IF c \in Mob THEN None ELSE start[c]],
             light     |-> [r \in Room |-> 0]]
  BY DEF Init
<1>1. w \in World
  BY DEF World
<1>2. job = Idle /\ pass = NoPass
  BY DEF Init
<1>3. None \notin Obj \union Room \union Char \union Pos
  BY PopulationAssumption
<1>4. RoomsAgree(w) /\ InventoriesAgree(w) /\ NestingAgrees(w)
  BY <1>3 DEF RoomsAgree, InventoriesAgree, NestingAgrees
<1>5. EquipmentAgrees(w)
  BY <1>3 DEF EquipmentAgrees
<1>6. DeadAreGone(w) /\ \A o \in Obj : OnePlaceOnly(w, o)
  BY <1>3 DEF DeadAreGone, OnePlaceOnly, Unplaced
<1> QED
  BY <1>1, <1>2, <1>4, <1>5, <1>6 DEF IInv, TypeOK, OnePlace, Consistent, JobOK,
     Job, Idle, Pass, NoPass

(* Every step keeps the invariant.                                         *)
LEMMA NextIInv == IInv /\ [Next]_vars => IInv'
<1> SUFFICES ASSUME IInv, [Next]_vars PROVE IInv'
  OBVIOUS
<1>1. CASE Next
  BY <1>1, ResetsStep, CommandsStep, SpellsStep, EndsStep, UpdateStep DEF Next
<1>2. CASE UNCHANGED vars
  BY <1>2 DEF vars, IInv, TypeOK, OnePlace, JobOK
<1> QED
  BY <1>1, <1>2

(* The state keeps its type: no handler is called with NULL or NOWHERE     *)
(* where it stores an object, a character or a position.                   *)
THEOREM ObjTypeOK == Spec => []TypeOK
<1>1. IInv => TypeOK
  BY DEF IInv
<1> QED
  BY <1>1, InitIInv, NextIInv, PTL DEF Spec

(* Every object is in at most one place, the lists of rooms, characters    *)
(* and containers agree with the back pointers of the objects, and nothing *)
(* that has been freed is in any of them: whatever the objects, rooms and  *)
(* characters are, and with every spell.                                   *)
THEOREM ObjOnePlace == Spec => []OnePlace
<1>1. IInv => OnePlace
  BY DEF IInv
<1> QED
  BY <1>1, InitIInv, NextIInv, PTL DEF Spec
=============================================================================
