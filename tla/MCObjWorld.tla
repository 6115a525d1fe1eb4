---------------------------- MODULE MCObjWorld ----------------------------
(* Instances of ObjWorld: the objects are named for what they are.         *)
EXTENDS ObjWorld

KindOf ==
    [o \in Obj |->
        CASE o \in {"bag", "sack"} -> "container"
          [] o \in {"flask", "skin"} -> "drink"
          [] o = "well" -> "fountain"
          [] o \in {"torch", "lamp"} -> "light"
          [] o \in {"corpse", "remains"} -> "corpse"
          [] o = "coins" -> "money"
          [] o = "bread" -> "food"
          [] OTHER -> "other"]

FitsOf ==
    [o \in Obj |->
        CASE o \in {"torch", "lamp"} -> {"light"}
          [] o \in {"flask", "sword", "bag"} -> {"hold"}
          [] OTHER -> {}]

EmptyOf ==
    [o \in Obj |-> CASE o = "coins" -> 0 [] o = "well" -> 9 [] OTHER -> 1]

CapacityOf ==
    [o \in Obj |->
        CASE o \in {"bag", "sack"} -> 4
          [] o \in {"flask", "skin", "well"} -> 2
          [] OTHER -> 0]

UnitsOf ==
    [o \in Obj |-> CASE o \in {"flask", "skin"} -> 2
                     [] o \in {"torch", "lamp", "well"} -> 1
                     [] OTHER -> 0]

HomeOf ==
    [o \in Obj |-> IF o \in {"sword", "flask", "torch"} /\ "bag" \in Obj
                   THEN "bag" ELSE None]

Two == [c \in Char |-> 2]
Five == [c \in Char |-> 5]

=============================================================================
