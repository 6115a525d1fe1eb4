----------------------------- MODULE ObjWorld -----------------------------
(***************************************************************************)
(* Where the objects of the game are: the lists of rooms, characters and   *)
(* containers, the back pointers of obj_data that mirror them, and the     *)
(* totals kept up by hand beside them - weights of containers, what a      *)
(* character carries, the lights of a room - under the commands of         *)
(* act.item.c, zone resets, spells, deaths and the hourly update.          *)
(*                                                                         *)
(* A place p of state w is given by the handlers of handler.c as operators *)
(* on the whole record, so that a command is the composition of its calls. *)
(* The "all" forms of a command repeat the handler of one object.  Loops   *)
(* that move one object at a time are jobs: nothing else runs until the    *)
(* job is done, but every step of it is a state.                           *)
(***************************************************************************)
EXTENDS Integers, FiniteSets, FiniteSetsExt

CONSTANTS
    Obj,            \* memory for objects, used again once freed
    Room,
    Char,
    Mob,            \* the mobiles among the characters
    Pos,            \* where things are worn
    LightPos,       \* WEAR_LIGHT
    None,           \* NULL and NOWHERE
    Donation,       \* the donation room
    Water,          \* rooms of the sectors WATER_SWIM and WATER_NOSWIM
    NoSink,         \* objects with ITEM2_NOSINK
    NoDrop,         \* objects with ITEM_NODROP
    NoTake,         \* objects without ITEM_WEAR_TAKE
    Kind,           \* the type of an object
    Fits,           \* where an object may be worn
    Empty,          \* its weight without liquid or contents
    Capacity,       \* GET_OBJ_VAL(obj, 0) of containers of all sorts
    Units,          \* drink-units or hours of light when it is created
    Home,           \* the container that its P command in the zone names
    CarryN, CarryW, \* CAN_CARRY_N, CAN_CARRY_W
    BodyWeight,
    MaxGulp,        \* bound on the units of one drink
    Quenched,       \* players whose THIRST is above 25 but who are hungry
    WaterMage,      \* may cast create water
    Destroyer,      \* may cast disintegrate
    Wand            \* may use the wand of wonder

ASSUME PopulationAssumption ==
    /\ Mob \subseteq Char /\ Quenched \subseteq Char \ Mob
    /\ WaterMage \subseteq Char /\ Destroyer \subseteq Char
    /\ Wand \subseteq Char
    /\ Water \subseteq Room /\ NoSink \subseteq Obj /\ NoDrop \subseteq Obj
    /\ NoTake \subseteq Obj /\ LightPos \in Pos
    /\ Donation \in Room
    /\ None \notin Obj \union Room \union Char \union Pos

ASSUME FiniteAssumption == IsFiniteSet(Obj) /\ IsFiniteSet(Char)

ASSUME ValueAssumption ==
    /\ Kind \in [Obj -> {"container", "drink", "fountain", "light", "corpse",
                         "money", "food", "other"}]
    /\ Fits \in [Obj -> SUBSET Pos]
    /\ Empty \in [Obj -> Nat] /\ Capacity \in [Obj -> Nat]
    /\ Units \in [Obj -> Nat] /\ Home \in [Obj -> Obj \union {None}]
    /\ CarryN \in [Char -> Nat] /\ CarryW \in [Char -> Nat]
    /\ BodyWeight \in Nat \ {0} /\ MaxGulp \in Nat \ {0}

(* What make_corpse makes is worn nowhere and weighs as much as the dead.  *)
ASSUME CorpseAssumption ==
    \A o \in Obj : Kind[o] = "corpse" => Fits[o] = {} /\ Empty[o] = BodyWeight

VARIABLES
    w,              \* the objects and everything that keeps count of them
    job,            \* the loop that is running, if any
    pass            \* point_update's walk along object_list

vars == <<w, job, pass>>

World ==
    [alive     : SUBSET Obj,
     inRoom    : [Obj -> Room \union {None}],
     carriedBy : [Obj -> Char \union {None}],
     wornBy    : [Obj -> Char \union {None}],
     wornOn    : [Obj -> Pos \union {None}],
     inObj     : [Obj -> Obj \union {None}],
     contents  : [Room -> SUBSET Obj],
     carrying  : [Char -> SUBSET Obj],
     eq        : [Char -> [Pos -> Obj \union {None}]],
     contains  : [Obj -> SUBSET Obj],
     weight    : [Obj -> Int],
     units     : [Obj -> Int],
     carryW    : [Char -> Int],
     carryN    : [Char -> Int],
     at        : [Char -> Room \union {None}],
     light     : [Room -> Int]]

Job ==
    [op : {"idle", "decay", "leave", "corpse", "disintegrate"},
     who : Char \union {None}, obj : Obj \union {None}]

Idle == [op |-> "idle", who |-> None, obj |-> None]

Pass == [current : Obj \union {None}, next : Obj \union {None},
         rest : SUBSET Obj]

NoPass == [current |-> None, next |-> None, rest |-> {}]

-----------------------------------------------------------------------------
(* The object o and everything inside it: the least set with o that is     *)
(* closed under contains.                                                  *)
Inside(v, o) ==
    {x \in Obj :
        \A S \in SUBSET Obj :
            (o \in S /\ \A y \in Obj : v.inObj[y] \in S => y \in S) => x \in S}

Above(v, o) == {x \in Obj \ {o} : o \in Inside(v, x)}

(* The character whose inventory holds the outermost container of o.       *)
Bearer(v, o) ==
    LET outer == {x \in Above(v, o) : v.inObj[x] = None}
    IN  IF outer = {} THEN None ELSE v.carriedBy[CHOOSE x \in outer : TRUE]

IsLit(v, o) ==
    o # None /\ Kind[o] = "light" /\ v.units[o] # 0

Total(S, f) == MapThenSumSet(LAMBDA x : f[x], S)

-----------------------------------------------------------------------------
(* obj_to_char and obj_from_char.                                          *)
ToChar(v, o, c) ==
    [v EXCEPT !.carrying[c] = @ \union {o}, !.carriedBy[o] = c,
              !.inRoom[o] = None,
              !.carryW[c] = @ + v.weight[o], !.carryN[c] = @ + 1]

FromChar(v, o) ==
    LET c == v.carriedBy[o]
    IN  [v EXCEPT !.carrying[c] = @ \ {o}, !.carriedBy[o] = None,
                  !.carryW[c] = @ - v.weight[o], !.carryN[c] = @ - 1]

FromRoom(v, o) ==
    [v EXCEPT !.contents[v.inRoom[o]] = @ \ {o}, !.inRoom[o] = None]

(* obj_to_obj: the weight goes up to the outermost container, and to the   *)
(* character that carries it.                                              *)
ToObj(v, o, k) ==
    IF o = k THEN v ELSE
    LET v1 == [v EXCEPT !.contains[k] = @ \union {o}, !.inObj[o] = k]
        c  == Bearer(v1, o)
    IN  [v1 EXCEPT
           !.weight = [x \in Obj |-> IF x \in Above(v1, o)
                                     THEN @[x] + v.weight[o] ELSE @[x]],
           !.carryW = [d \in Char |-> IF d = c THEN @[d] + v.weight[o]
                                      ELSE @[d]]]

\* bug: obj_from_obj forgets the character that carries the container.
FromObjLight(v, o) ==
    [v EXCEPT
       !.contains[v.inObj[o]] = @ \ {o}, !.inObj[o] = None,
       !.weight = [x \in Obj |-> IF x \in Above(v, o)
                                 THEN @[x] - v.weight[o] ELSE @[x]]]

(* obj_from_obj.                                                           *)
FromObj(v, o) ==
    [v EXCEPT
       !.contains[v.inObj[o]] = @ \ {o}, !.inObj[o] = None,
       !.weight = [x \in Obj |-> IF x \in Above(v, o)
                                 THEN @[x] - v.weight[o] ELSE @[x]],
       !.carryW = [d \in Char |-> IF d = Bearer(v, o) THEN @[d] - v.weight[o]
                                  ELSE @[d]]]

(* The light of the room a character is in, when the object o is taken up  *)
(* (by = 1) or put down (by = -1) at the position p.                       *)
Lighting(v, c, p, o, by) ==
    IF p = LightPos /\ IsLit(v, o) /\ v.at[c] # None
    THEN [v.light EXCEPT ![v.at[c]] = @ + by] ELSE v.light

\* bug: the position and its wearer are mixed up.
EquipSwapped(v, o, c, p, zapped) ==
    [v EXCEPT !.eq[c][p] = o, !.wornBy[o] = p, !.wornOn[o] = c]

(* equip_char: the position is taken, or the character zapped, or not.     *)
Equip(v, o, c, p, zapped) ==
    IF v.eq[c][p] # None THEN v
    ELSE IF zapped THEN ToChar(v, o, c)
    ELSE [v EXCEPT !.eq[c][p] = o, !.wornBy[o] = c, !.wornOn[o] = p,
                   !.light = Lighting(v, c, p, o, 1)]

Unequip(v, c, p) ==
    LET o == v.eq[c][p]
    IN  [v EXCEPT !.eq[c][p] = None, !.wornBy[o] = None, !.wornOn[o] = None,
                  !.light = Lighting(v, c, p, o, -1)]

(* The first half of extract_obj: the object leaves the place it is in.    *)
Detach(v, o) ==
    LET v1 == IF v.wornBy[o] # None THEN Unequip(v, v.wornBy[o], v.wornOn[o])
              ELSE v
    IN  IF v1.inRoom[o] # None THEN FromRoom(v1, o)
        ELSE IF v1.carriedBy[o] # None THEN FromChar(v1, o)
        ELSE IF v1.inObj[o] # None THEN FromObj(v1, o)
        ELSE v1

\* bug: extract_obj does not extract what is in the object.
EraseShallow(v, o) ==
    [v EXCEPT !.alive = @ \ {o}, !.contains[o] = {},
              !.weight[o] = 0, !.units[o] = 0]

(* The second half: the object and what is in it are freed.                *)
Erase(v, o) ==
    LET dead == Inside(v, o)
    IN  [v EXCEPT !.alive = @ \ dead,
           !.inObj = [x \in Obj |-> IF x \in dead THEN None ELSE @[x]],
           !.contains = [x \in Obj |-> IF x \in dead THEN {} ELSE @[x]],
           !.weight = [x \in Obj |-> IF x \in dead THEN 0 ELSE @[x]],
           !.units = [x \in Obj |-> IF x \in dead THEN 0 ELSE @[x]]]

Extract(v, o) == Erase(Detach(v, o), o)

(* obj_to_room: what sinks is gone.                                        *)
ToRoom(v, o, r) ==
    IF v.weight[o] > 0 /\ r \in Water /\ o \notin NoSink THEN Extract(v, o)
    ELSE [v EXCEPT !.contents[r] = @ \union {o}, !.inRoom[o] = r,
                   !.carriedBy[o] = None]

(* read_object.                                                            *)
Created(v, o) ==
    [v EXCEPT !.alive = @ \union {o}, !.units[o] = Units[o],
              !.weight[o] = Empty[o]
                  + IF Kind[o] \in {"drink", "fountain"} THEN Units[o] ELSE 0]

(* weight_change_object: nothing happens to a worn object.                 *)
WeightChanged(v, o, n) ==
    LET heavier(u) == [u EXCEPT !.weight[o] = @ + n]
    IN  IF v.inRoom[o] # None THEN heavier(v)
        ELSE IF v.carriedBy[o] # None
        THEN ToChar(heavier(FromChar(v, o)), o, v.carriedBy[o])
        ELSE IF v.inObj[o] # None
        THEN ToObj(heavier(FromObj(v, o)), o, v.inObj[o])
        ELSE v

(* char_from_room and char_to_room.                                        *)
LeaveRoom(v, c) ==
    [v EXCEPT !.light = Lighting(v, c, LightPos, v.eq[c][LightPos], -1),
              !.at[c] = None]

EnterRoom(v, c, r) ==
    LET v1 == [v EXCEPT !.at[c] = r]
    IN  [v1 EXCEPT !.light = Lighting(v1, c, LightPos, v.eq[c][LightPos], 1)]

(* What a character finds with get_obj_in_list_vis and generic_find.       *)
Here(v, c) == v.carrying[c] \union v.contents[v.at[c]]

(* can_take_obj.                                                           *)
CanTake(v, c, o) ==
    /\ v.carryN[c] < CarryN[c]
    /\ v.carryW[c] + v.weight[o] <= CarryW[c]
    /\ o \notin NoTake

(* get_check_money.                                                        *)
Pocketed(v, c, o) ==
    IF Kind[o] = "money" THEN Extract(FromChar(v, o), o) ELSE v

-----------------------------------------------------------------------------
Quiet == job = Idle /\ pass = NoPass

(* A character that is in a room and may act.                              *)
Acts(c) == Quiet /\ w.at[c] # None

Do(v) == w' = v /\ UNCHANGED <<job, pass>>

Init ==
    /\ \E start \in [Char -> Room] :
        w = [alive     |-> {},
             inRoom    |-> [o \in Obj |-> None],
             carriedBy |-> [o \in Obj |-> None],
             wornBy    |-> [o \in Obj |-> None],
             wornOn    |-> [o \in Obj |-> None],
             inObj     |-> [o \in Obj |-> None],
             contents  |-> [r \in Room |-> {}],
             carrying  |-> [c \in Char |-> {}],
             eq        |-> [c \in Char |-> [p \in Pos |-> None]],
             contains  |-> [o \in Obj |-> {}],
             weight    |-> [o \in Obj |-> 0],
             units     |-> [o \in Obj |-> 0],
             carryW    |-> [c \in Char |-> 0],
             carryN    |-> [c \in Char |-> 0],
             at        |-> [c \in Char |-> IF c \in Mob THEN None ELSE start[c]],
             light     |-> [r \in Room |-> 0]]
    /\ job = Idle
    /\ pass = NoPass

(* The commands of a zone reset.  P puts the object into the first object  *)
(* of its home's kind wherever that is; without one the object stays       *)
(* nowhere.  E gives up when the position is taken.                        *)
Fresh(o) == Quiet /\ o \notin w.alive /\ Kind[o] # "corpse"

ResetMob(m, r) ==
    /\ Quiet /\ m \in Mob /\ w.at[m] = None
    /\ Do(EnterRoom(w, m, r))

ResetObj(o, r) == Fresh(o) /\ Do(ToRoom(Created(w, o), o, r))

ResetPut(o) ==
    /\ Fresh(o) /\ Home[o] # None
    /\ Do(IF Home[o] \in w.alive THEN ToObj(Created(w, o), o, Home[o])
          ELSE Created(w, o))

ResetGive(o, m) ==
    Fresh(o) /\ m \in Mob /\ w.at[m] # None /\ Do(ToChar(Created(w, o), o, m))

ResetEquip(o, m, p, zapped) ==
    /\ Fresh(o) /\ m \in Mob /\ w.at[m] # None /\ p \in Fits[o]
    /\ Do(Equip(Created(w, o), o, m, p, zapped))

ResetRemove(o) ==
    Quiet /\ w.inRoom[o] # None /\ Do(Extract(FromRoom(w, o), o))

-----------------------------------------------------------------------------
\* bug: the container is looked for inside of other containers, too.
PutAnywhere(c, o, k) ==
    /\ Acts(c) /\ o \in w.carrying[c] /\ k \in w.alive \ {o}
    /\ Kind[k] = "container"
    /\ w.weight[k] + w.weight[o] <= Capacity[k]
    /\ Do(ToObj(FromChar(w, o), o, k))

(* put: not into itself, and only what fits.                               *)
Put(c, o, k) ==
    /\ Acts(c) /\ o \in w.carrying[c] /\ k \in Here(w, c) \ {o}
    /\ Kind[k] = "container"
    /\ w.weight[k] + w.weight[o] <= Capacity[k]
    /\ Do(ToObj(FromChar(w, o), o, k))

(* get from a container; nobody asks whether the weight can be carried     *)
(* when the container is carried already.                                  *)
GetFromContainer(c, o, k) ==
    /\ Acts(c) /\ k \in Here(w, c) /\ o \in w.contains[k]
    /\ Kind[k] \in {"container", "corpse"}
    /\ w.carryN[c] < CarryN[c]
    /\ k \in w.carrying[c] \/ CanTake(w, c, o)
    /\ Do(Pocketed(ToChar(FromObj(w, o), o, c), c, o))

GetFromRoom(c, o) ==
    /\ Acts(c) /\ o \in w.contents[w.at[c]] /\ CanTake(w, c, o)
    /\ Do(Pocketed(ToChar(FromRoom(w, o), o, c), c, o))

(* drop, donate and junk.                                                  *)
Drop(c, o, r) ==
    /\ Acts(c) /\ o \in w.carrying[c] \ NoDrop /\ r \in {w.at[c], Donation}
    /\ Do(ToRoom(FromChar(w, o), o, r))

Junk(c, o) ==
    /\ Acts(c) /\ o \in w.carrying[c] \ NoDrop
    /\ Do(Extract(FromChar(w, o), o))

Give(c, d, o) ==
    /\ Acts(c) /\ d # c /\ w.at[d] = w.at[c] /\ o \in w.carrying[c] \ NoDrop
    /\ w.carryN[d] < CarryN[d] /\ w.weight[o] + w.carryW[d] <= CarryW[d]
    /\ Do(ToChar(FromChar(w, o), o, d))

(* wear, wield and hold.  The object is out of the inventory when          *)
(* equip_char may still refuse it.                                         *)
Wear(c, o, p, zapped) ==
    /\ Acts(c) /\ o \in w.carrying[c] /\ p \in Fits[o] /\ w.eq[c][p] = None
    /\ Do(Equip(FromChar(w, o), o, c, p, zapped))

Remove(c, p) ==
    /\ Acts(c) /\ w.eq[c][p] # None /\ w.eq[c][p] \notin NoDrop
    /\ w.carryN[c] < CarryN[c]
    /\ Do(ToChar(Unequip(w, c, p), w.eq[c][p], c))

Lesser(a, b) == IF a < b THEN a ELSE b

\* bug: do_drink takes the units before the limits are applied.
DrunkUnchecked(v, o, n) == [WeightChanged(v, o, -n) EXCEPT !.units[o] = @ - n]

(* do_drink of n units: no more than there is, no more weight than the     *)
(* object has.                                                             *)
Drunk(v, o, n) ==
    LET amount == Lesser(n, v.units[o])
    IN  [WeightChanged(v, o, -Lesser(amount, v.weight[o]))
            EXCEPT !.units[o] = @ - amount]

(* A player whose thirst is above 25 takes (25 - THIRST) / 3 units of beer,*)
(* which is below zero.                                                    *)
Drink(c, o, n) ==
    /\ Acts(c) /\ c \notin Mob
    /\ \/ o \in w.carrying[c] /\ Kind[o] \in {"drink", "fountain"}
       \/ o \in w.contents[w.at[c]] /\ Kind[o] = "fountain"
    /\ w.units[o] # 0 /\ w.units[o] <= Capacity[o]
    /\ n \in (IF c \in Quenched THEN {-1} ELSE 1 .. MaxGulp)
    /\ Do(Drunk(w, o, n))

Eat(c, o) ==
    /\ Acts(c) /\ c \notin Mob /\ o \in w.carrying[c] /\ Kind[o] = "food"
    /\ Do(Extract(w, o))

(* pour out.                                                               *)
Emptied(v, o) == [WeightChanged(v, o, -v.units[o]) EXCEPT !.units[o] = 0]

PourOut(c, o) ==
    /\ Acts(c) /\ o \in w.carrying[c] /\ Kind[o] = "drink" /\ w.units[o] # 0
    /\ Do(Emptied(w, o))

\* bug: what was too little is not taken back from the amount.
PouredTooMuch(v, o, t) ==
    LET room == Capacity[t] - v.units[t]
        n    == Lesser(room, v.units[o])
    IN  [WeightChanged(WeightChanged(v, o, -room), t, room)
            EXCEPT !.units[o] = @ - n, !.units[t] = @ + n]

(* pour from o into t, and fill t from o.                                  *)
Poured(v, o, t) ==
    LET n == Lesser(Capacity[t] - v.units[t], v.units[o])
    IN  [WeightChanged(WeightChanged(v, o, -n), t, n)
            EXCEPT !.units[o] = @ - n, !.units[t] = @ + n]

Pour(c, o, t) ==
    /\ Acts(c) /\ o # t /\ t \in w.carrying[c]
    /\ \/ o \in w.carrying[c] /\ Kind[o] = "drink"
          /\ Kind[t] \in {"drink", "fountain"}
       \/ o \in w.contents[w.at[c]] /\ Kind[o] = "fountain"
          /\ Kind[t] = "drink"
    /\ w.units[o] # 0 /\ w.units[t] < Capacity[t]
    /\ Do(Poured(w, o, t))

(* create water, on something carried or worn.  The weight of a flask that *)
(* is filled while it is held and emptied when it is not has no lower      *)
(* bound in the code; here it stays above -3.                              *)
CreateWater(c, o) ==
    /\ Acts(c) /\ c \in WaterMage /\ Kind[o] = "drink" /\ w.weight[o] >= 0
    /\ o \in w.carrying[c] \/ w.wornBy[o] = c
    /\ w.units[o] < Capacity[o]
    /\ Do([WeightChanged(w, o, Capacity[o] - w.units[o])
              EXCEPT !.units[o] = Capacity[o]])

(* disintegrate, on an object.                                             *)
DisintegrateObj(c, o) ==
    /\ Acts(c) /\ c \in Destroyer
    /\ o \in Here(w, c) \/ w.wornBy[o] = c
    /\ Do(Extract(w, o))

(* The wand of wonder puts out the lights.  It dereferences what each      *)
(* bystander holds as a light: the program ends if one holds none and the  *)
(* user does, which is left out.                                           *)
Bystanders(v, c) == {d \in Char : v.at[d] = v.at[c]}

LightsOut(c) ==
    /\ Acts(c) /\ c \in Wand
    /\ LET mine == w.eq[c][LightPos]
       IN  /\ mine # None =>
                \A d \in Bystanders(w, c) : w.eq[d][LightPos] # None
           /\ Do([w EXCEPT !.light[w.at[c]] = 0,
                    !.units = [o \in Obj |-> IF o = mine THEN 0 ELSE @[o]]])

Walk(c, r) ==
    Acts(c) /\ w.at[c] # r /\ Do(EnterRoom(LeaveRoom(w, c), c, r))

\* bug: a light that burns out still shines.
BurntBrightly(v, c) == [v EXCEPT !.units[v.eq[c][LightPos]] = @ - 1]

(* update_char_objects: an hour of light.                                  *)
Burnt(v, c) ==
    LET o == v.eq[c][LightPos]
    IN  [v EXCEPT !.units[o] = @ - 1,
                  !.light[v.at[c]] = IF v.units[o] = 1 THEN @ - 1 ELSE @]

Burn(c) ==
    Acts(c) /\ c \notin Mob /\ IsLit(w, w.eq[c][LightPos]) /\ Do(Burnt(w, c))

-----------------------------------------------------------------------------
Working(op) == job.op = op
Step(v) == w' = v /\ UNCHANGED <<job, pass>>
Finish(v) == w' = v /\ job' = Idle /\ UNCHANGED pass

Begin(op, c, o, v) ==
    w' = v /\ job' = [op |-> op, who |-> c, obj |-> o] /\ UNCHANGED pass

Wears(v, c) == {p \in Pos : v.eq[c][p] # None}

(* extract_char of a mobile that is purged: it leaves its things behind.   *)
Purge(m) == Acts(m) /\ m \in Mob /\ Begin("leave", m, None, w)

LeaveItem(o) ==
    /\ Working("leave") /\ o \in w.carrying[job.who]
    /\ Step(ToRoom(FromChar(w, o), o, w.at[job.who]))

LeaveEquipment(p) ==
    /\ Working("leave") /\ w.carrying[job.who] = {} /\ p \in Wears(w, job.who)
    /\ Step(ToRoom(Unequip(w, job.who, p), w.eq[job.who][p], w.at[job.who]))

Gone(v, c) == v.carrying[c] = {} /\ Wears(v, c) = {}

Left(op) ==
    Working(op) /\ Gone(w, job.who) /\ Finish(LeaveRoom(w, job.who))

\* bug: the corpse weighs as much as the dead alone.
InCorpseLight(v, c, k) ==
    [v EXCEPT !.alive = @ \union {k}, !.units[k] = 0,
       !.weight[k] = BodyWeight,
       !.contains[k] = v.carrying[c],
       !.inObj = [o \in Obj |-> IF o \in v.carrying[c] THEN k ELSE @[o]],
       !.carriedBy = [o \in Obj |-> IF o \in v.carrying[c] THEN None ELSE @[o]],
       !.carrying[c] = {}, !.carryN[c] = 0, !.carryW[c] = 0]

(* make_corpse: the inventory becomes the contents of the corpse at once,  *)
(* the equipment piece by piece.                                           *)
InCorpse(v, c, k) ==
    [v EXCEPT !.alive = @ \union {k}, !.units[k] = 0,
       !.weight[k] = BodyWeight + v.carryW[c],
       !.contains[k] = v.carrying[c],
       !.inObj = [o \in Obj |-> IF o \in v.carrying[c] THEN k ELSE @[o]],
       !.carriedBy = [o \in Obj |-> IF o \in v.carrying[c] THEN None ELSE @[o]],
       !.carrying[c] = {}, !.carryN[c] = 0, !.carryW[c] = 0]

Die(m, k) ==
    /\ Acts(m) /\ m \in Mob /\ k \notin w.alive /\ Kind[k] = "corpse"
    /\ Begin("corpse", m, k, InCorpse(w, m, k))

CorpseEquipment(p) ==
    /\ Working("corpse") /\ p \in Wears(w, job.who)
    /\ Step(ToObj(Unequip(w, job.who, p), w.eq[job.who][p], job.obj))

CorpseDone ==
    /\ Working("corpse") /\ Gone(w, job.who)
    /\ Finish(LeaveRoom(ToRoom(w, job.obj, w.at[job.who]), job.who))

(* disintegrate, on a mobile: what it wears is taken off, what it carries  *)
(* is extracted.                                                           *)
DisintegrateChar(c, m) ==
    /\ Acts(c) /\ c \in Destroyer /\ m \in Mob /\ w.at[m] = w.at[c] /\ m # c
    /\ Begin("disintegrate", m, None, w)

DisintegrateEquipment(p) ==
    /\ Working("disintegrate") /\ p \in Wears(w, job.who)
    /\ Step(Unequip(w, job.who, p))

DisintegrateItem(o) ==
    /\ Working("disintegrate") /\ Wears(w, job.who) = {}
    /\ o \in w.carrying[job.who]
    /\ Step(Extract(w, o))

-----------------------------------------------------------------------------
(* point_update's walk along object_list.  The successor of an object is   *)
(* read before the object is handled.  Objects come to the list in any     *)
(* order, so the successor is any object that has not been passed.         *)
Successors(S) == IF S = {} THEN {None} ELSE S

Visit(j, S) ==
    \E n \in Successors(S) : pass' = [current |-> j, next |-> n, rest |-> S \ {n}]

StartUpdate ==
    /\ Quiet /\ \E j \in w.alive : Visit(j, w.alive \ {j})
    /\ UNCHANGED <<w, job>>

(* On to the successor, dead or alive.                                     *)
Advance(v) ==
    IF pass.next = None THEN pass' = NoPass
    ELSE Visit(pass.next, pass.rest \intersect v.alive)

(* Nothing happens to what is no corpse, or a corpse whose time has not    *)
(* come.                                                                   *)
PassBy ==
    /\ job = Idle /\ pass.current # None
    /\ Advance(w)
    /\ UNCHANGED <<w, job>>

Decay ==
    /\ job = Idle /\ pass.current \in w.alive /\ Kind[pass.current] = "corpse"
    /\ Begin("decay", None, pass.current, w)

\* bug: what was in the corpse is taken out and put nowhere.
SpilledNowhere(v, o, j) ==
    LET v1 == FromObj(v, o)
    IN  IF v1.inObj[j] # None THEN ToObj(v1, o, v1.inObj[j])
        ELSE IF v1.carriedBy[j] # None THEN v1
        ELSE ToRoom(v1, o, v1.inRoom[j])

(* One thing out of the decaying corpse j, to where the corpse is; the     *)
(* program ends if that is nowhere.                                        *)
Spilled(v, o, j) ==
    LET v1 == FromObj(v, o)
    IN  IF v1.inObj[j] # None THEN ToObj(v1, o, v1.inObj[j])
        ELSE IF v1.carriedBy[j] # None
        THEN ToRoom(v1, o, v1.at[v1.carriedBy[j]])
        ELSE ToRoom(v1, o, v1.inRoom[j])

Spill(o) ==
    /\ Working("decay") /\ o \in w.contains[job.obj]
    /\ Step(Spilled(w, o, job.obj))

\* bug: the corpse is extracted with what is still in it.
DecayDoneEarly ==
    /\ Working("decay")
    /\ w' = Extract(w, job.obj) /\ job' = Idle
    /\ Advance(Extract(w, job.obj))

DecayDone ==
    /\ Working("decay") /\ w.contains[job.obj] = {}
    /\ w' = Extract(w, job.obj) /\ job' = Idle
    /\ Advance(Extract(w, job.obj))

-----------------------------------------------------------------------------
Resets ==
    \/ \E m \in Mob, r \in Room : ResetMob(m, r)
    \/ \E o \in Obj, r \in Room : ResetObj(o, r)
    \/ \E o \in Obj : ResetPut(o)
    \/ \E o \in Obj, m \in Mob : ResetGive(o, m)
    \/ \E o \in Obj, m \in Mob, p \in Pos, z \in BOOLEAN : ResetEquip(o, m, p, z)
    \/ \E o \in Obj : ResetRemove(o)

Commands ==
    \/ \E c \in Char, o, k \in Obj : Put(c, o, k)
    \/ \E c \in Char, o, k \in Obj : GetFromContainer(c, o, k)
    \/ \E c \in Char, o \in Obj : GetFromRoom(c, o)
    \/ \E c \in Char, o \in Obj, r \in Room : Drop(c, o, r)
    \/ \E c \in Char, o \in Obj : Junk(c, o)
    \/ \E c, d \in Char, o \in Obj : Give(c, d, o)
    \/ \E c \in Char, o \in Obj, p \in Pos, z \in BOOLEAN : Wear(c, o, p, z)
    \/ \E c \in Char, p \in Pos : Remove(c, p)
    \/ \E c \in Char, o \in Obj, n \in -1 .. MaxGulp : Drink(c, o, n)
    \/ \E c \in Char, o \in Obj : Eat(c, o)
    \/ \E c \in Char, o \in Obj : PourOut(c, o)
    \/ \E c \in Char, o, t \in Obj : Pour(c, o, t)
    \/ \E c \in Char, r \in Room : Walk(c, r)

Spells ==
    \/ \E c \in Char, o \in Obj : CreateWater(c, o)
    \/ \E c \in Char, o \in Obj : DisintegrateObj(c, o)
    \/ \E c \in Char : LightsOut(c)
    \/ \E c \in Char, m \in Mob : DisintegrateChar(c, m)
    \/ \E p \in Pos : DisintegrateEquipment(p)
    \/ \E o \in Obj : DisintegrateItem(o)
    \/ Left("disintegrate")

Ends ==
    \/ \E m \in Mob : Purge(m)
    \/ \E o \in Obj : LeaveItem(o)
    \/ \E p \in Pos : LeaveEquipment(p)
    \/ Left("leave")
    \/ \E m \in Mob, k \in Obj : Die(m, k)
    \/ \E p \in Pos : CorpseEquipment(p)
    \/ CorpseDone

Update ==
    \/ \E c \in Char : Burn(c)
    \/ StartUpdate
    \/ PassBy
    \/ Decay
    \/ \E o \in Obj : Spill(o)
    \/ DecayDone

Next == Resets \/ Commands \/ Spells \/ Ends \/ Update

Spec == Init /\ [][Next]_vars

-----------------------------------------------------------------------------
(* The state is of the declared shape.                                     *)
TypeOK == w \in World /\ job \in Job /\ pass \in Pass

Unplaced(v, o) ==
    /\ v.inRoom[o] = None /\ v.carriedBy[o] = None
    /\ v.wornBy[o] = None /\ v.wornOn[o] = None /\ v.inObj[o] = None

RoomsAgree(v) ==
    \A o \in Obj, r \in Room : o \in v.contents[r] <=> v.inRoom[o] = r

InventoriesAgree(v) ==
    \A o \in Obj, c \in Char : o \in v.carrying[c] <=> v.carriedBy[o] = c

EquipmentAgrees(v) ==
    /\ \A o \in Obj, c \in Char, p \in Pos :
          v.eq[c][p] = o <=> v.wornBy[o] = c /\ v.wornOn[o] = p
    /\ \A o \in Obj : v.wornBy[o] = None <=> v.wornOn[o] = None

NestingAgrees(v) ==
    \A o, k \in Obj : o \in v.contains[k] <=> v.inObj[o] = k

OnePlaceOnly(v, o) ==
    /\ v.inRoom[o] # None =>
          v.carriedBy[o] = None /\ v.wornBy[o] = None /\ v.inObj[o] = None
    /\ v.carriedBy[o] # None => v.wornBy[o] = None /\ v.inObj[o] = None
    /\ v.wornBy[o] # None => v.inObj[o] = None

DeadAreGone(v) ==
    \A o \in Obj \ v.alive : Unplaced(v, o) /\ \A x \in Obj : v.inObj[x] # o

Consistent(v) ==
    /\ RoomsAgree(v) /\ InventoriesAgree(v)
    /\ EquipmentAgrees(v) /\ NestingAgrees(v)
    /\ DeadAreGone(v)
    /\ \A o \in Obj : OnePlaceOnly(v, o)

(* The lists of rooms, characters and containers and the back pointers of  *)
(* the objects agree, no object is in two places, and nothing leads to a   *)
(* freed object: obj_to_X and obj_from_X are paired in every command.      *)
OnePlace == Consistent(w)

(* No container is inside itself, whatever is put into what: obj_to_obj    *)
(* and obj_from_obj end their way up.                                      *)
NoContainerLoop ==
    \A o \in w.alive : \E x \in Above(w, o) \union {o} : w.inObj[x] = None

Liquid(v, o) == IF Kind[o] \in {"drink", "fountain"} THEN v.units[o] ELSE 0

(* A thing weighs what it is made of, what it is filled with and what is   *)
(* in it, although nothing ever computes that: the sum is kept up by       *)
(* obj_to_obj, obj_from_obj, weight_change_object and make_corpse.         *)
WeightsAddUp ==
    \A o \in w.alive :
        w.weight[o] = Empty[o] + Liquid(w, o) + Total(w.contains[o], w.weight)

(* A character carries as many things as are in the inventory, and their   *)
(* weight, also while liquids and contents of bags come and go.            *)
CarriedAddsUp ==
    \A c \in Char :
        /\ w.carryN[c] = Cardinality(w.carrying[c])
        /\ w.carryW[c] = Total(w.carrying[c], w.weight)

(* The light of a room is the number of characters there with a light that *)
(* burns: equipping, walking, burning out and losing the light keep it.    *)
LightAddsUp ==
    \A r \in Room :
        w.light[r] = Cardinality({c \in Char : w.at[c] = r
                                                /\ IsLit(w, w.eq[c][LightPos])})

(* All sums that are kept by hand are right: weights, carried weights and  *)
(* numbers, and lights.                                                    *)
SumsAddUp == WeightsAddUp /\ CarriedAddsUp /\ LightAddsUp

(* A drink container holds no more than its maximum, and weighs no less    *)
(* than what is in it.                                                     *)
LiquidBounded ==
    \A o \in w.alive :
        Kind[o] \in {"drink", "fountain"} =>
            w.units[o] \in 0 .. Capacity[o] /\ w.units[o] <= w.weight[o]

(* Liquids that are drunk, poured and filled leave drink containers within *)
(* their bounds, and the weights right at any depth of nesting.            *)
LiquidsWeighed == LiquidBounded /\ WeightsAddUp

(* No command takes an object out of the place it is in without putting it *)
(* into another one or freeing it.                                         *)
NothingIsLost ==
    [][\A o \in w.alive :
          ~Unplaced(w, o) /\ o \in w'.alive => ~Unplaced(w', o)]_vars

(* The object that point_update is at, and the successor that it has read, *)
(* have not been freed by what it does to the objects before them.         *)
SuccessorLives == {pass.current, pass.next} \subseteq w.alive \union {None}

=============================================================================
