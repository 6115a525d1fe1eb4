------------------------------ MODULE ListWalks ------------------------------
(***************************************************************************)
(* Loops over a list whose body moves what they stand on (act.item.c,      *)
(* fight.c, limits.c).  An object has one next_content, for whatever list  *)
(* it is in: moving it rewrites the pointer that the loop will follow.     *)
(* ObjWorld has the lists as sets; here they are pointers, one character   *)
(* with his inventory, one room, one corpse.  Holes and remains that       *)
(* digging and burying leave are left out.                                 *)
(***************************************************************************)
EXTENDS Naturals, FiniteSets

CONSTANTS
  Stones,         \* objects
  Unseen          \* those that only HOLYLIGHT shows

VARIABLES
  ow,             \* next_content of all, the heads of the three lists, in_room,
                  \* carried_by and in_obj as sets, and who is ITEM_BURIED
  bearer,         \* the character: "mortal", "god" (HOLYLIGHT) or "ghost" (MOB_GHOST)
  walk,           \* the loop that runs: what it does, where it is, what it has
                  \* visited, and what was where when it began
  gone,           \* objects that no list leads to any more
  endless         \* a loop goes round for ever

walkVars == <<ow, bearer, walk, gone, endless>>

Null == "null"
NoWalk == [op |-> "none", at |-> Null, seen |-> {}, room |-> {}, inv |-> {}]
CanSee(w, o) == bearer = "god" \/ (o \notin Unseen /\ o \notin w.buried)

WalksInit ==
  /\ ow = [next_content |-> [x \in Stones |-> Null], contents |-> Null, carrying |-> Null, contains |-> Null,
           in_room |-> {}, carried |-> {}, in_obj |-> {}, buried |-> {}, unborn |-> Stones]
  /\ bearer \in {"mortal", "god", "ghost"} /\ walk = NoWalk /\ gone = {} /\ endless = FALSE

-----------------------------------------------------------------------------
\* What can be reached from o.
Chain(w, o) ==
  LET f[n \in 0..Cardinality(Stones)] ==
        IF n = 0 THEN {o} \ {Null}
        ELSE f[n - 1] \union ({w.next_content[x] : x \in f[n - 1]} \ {Null})
  IN f[Cardinality(Stones)]

\* REMOVE_FROM_LIST
RemoveFromList(w, o, head) ==
  IF w[head] = o THEN [w EXCEPT ![head] = w.next_content[o]]
  ELSE [w EXCEPT !.next_content =
          [x \in Stones |-> IF x \in Chain(w, w[head]) /\ w.next_content[x] = o THEN w.next_content[o]
                            ELSE w.next_content[x]]]
TakenOut(w, o, head, place) ==
  [RemoveFromList(w, o, head) EXCEPT ![place] = @ \ {o}, !.next_content[o] = Null]
PutFirst(w, o, head, place) == [w EXCEPT !.next_content[o] = w[head], ![head] = o, ![place] = @ \union {o}]

obj_from_char(w, o) == TakenOut(w, o, "carrying", "carried")
obj_to_char(w, o) == [PutFirst(w, o, "carrying", "carried") EXCEPT !.in_room = @ \ {o}]
\* What is in no room stays where it is.
obj_from_room(w, o) == IF o \in w.in_room THEN TakenOut(w, o, "contents", "in_room") ELSE w
obj_to_room(w, o) == [PutFirst(w, o, "contents", "in_room") EXCEPT !.carried = @ \ {o}]
obj_from_obj(w, o) == TakenOut(w, o, "contains", "in_obj")

NoLoop == walk.op = "none" /\ ~endless
AtLeisure == NoLoop /\ UNCHANGED <<bearer, walk, gone, endless>>

load_stone(o) == o \in ow.unborn /\ ow' = [obj_to_room(ow, o) EXCEPT !.unborn = @ \ {o}] /\ AtLeisure
get_stone(o) == o \in ow.in_room /\ CanSee(ow, o) /\ ow' = obj_to_char(obj_from_room(ow, o), o) /\ AtLeisure
drop_stone(o) == o \in ow.carried /\ CanSee(ow, o) /\ ow' = obj_to_room(obj_from_char(ow, o), o) /\ AtLeisure
do_bury(o) ==
  /\ o \in ow.carried /\ CanSee(ow, o) /\ AtLeisure
  /\ ow' = obj_to_room([obj_from_char(ow, o) EXCEPT !.buried = @ \union {o}], o)

-----------------------------------------------------------------------------
(* The loops. *)

Begin(op, head) ==
  /\ NoLoop /\ UNCHANGED <<ow, bearer, gone, endless>>
  /\ walk' = [op |-> op, at |-> ow[head], seen |-> {}, room |-> ow.in_room,
              inv |-> {o \in ow.carried : o \in ow.buried /\ (bearer = "god" \/ o \notin Unseen)}]
GoOn(w, next) ==
  /\ ow' = w
  /\ walk' = [walk EXCEPT !.at = next, !.seen = @ \union {walk.at}]
  /\ endless' = (walk.at \in walk.seen)
  /\ UNCHANGED <<bearer, gone>>
At(op) == walk.op = op /\ walk.at # Null /\ ~endless
Over(op) ==
  /\ walk.op = op /\ walk.at = Null /\ walk' = NoWalk /\ UNCHANGED <<bearer, endless>>

\* bug: the successor is read from the object after it has moved.
StepOnMoved(w, moved) == GoOn(moved, moved.next_content[walk.at])
\* "get all", and a corpse that decays in a room: the successor is read first.
StepOn(w, moved) == GoOn(moved, w.next_content[walk.at])
GetAllStep ==
  /\ At("get all")
  /\ StepOn(ow, IF CanSee(ow, walk.at) THEN obj_to_char(obj_from_room(ow, walk.at), walk.at) ELSE ow)
DecayStep == At("decay") /\ StepOn(ow, obj_to_room(obj_from_obj(ow, walk.at), walk.at))

\* "dig": the successor is that of the object where it is by then.  It ends also
\* when the digger is too tired for the next buried object.
DigStep ==
  LET o == walk.at
      bared == [ow EXCEPT !.buried = @ \ {o}]
      w == IF o \in ow.buried /\ CanSee(bared, o) THEN obj_to_char(obj_from_room(bared, o), o) ELSE ow
  IN /\ At("dig")
     /\ \/ GoOn(w, w.next_content[o])
        \/ o \in ow.buried /\ walk' = NoWalk /\ UNCHANGED <<ow, bearer, gone, endless>>

\* A mobile with MOB_GHOST dies: what it carries is put into the room, but not
\* taken from the list that the loop follows, which is dropped at the end.
GhostStep ==
  At("ghost") /\ LET w == obj_to_room(ow, walk.at) IN GoOn(w, w.next_content[walk.at])
GhostDies ==
  /\ Over("ghost")
  /\ gone' = gone \union ow.carried
  /\ ow' = [ow EXCEPT !.carrying = Null, !.carried = {}]

\* Others leave a corpse with all of it.  Bound: one corpse at a time.
make_corpse ==
  /\ NoLoop /\ bearer # "ghost" /\ ow.in_obj = {}
  /\ ow' = [ow EXCEPT !.contains = ow.carrying, !.in_obj = ow.carried, !.carrying = Null, !.carried = {}]
  /\ UNCHANGED <<bearer, walk, gone, endless>>

WalksNext ==
  \/ \E o \in Stones : load_stone(o) \/ get_stone(o) \/ drop_stone(o) \/ do_bury(o)
  \/ Begin("get all", "contents") \/ Begin("dig", "contents")
  \/ ow.in_obj # {} /\ Begin("decay", "contains")
  \/ bearer = "ghost" /\ Begin("ghost", "carrying")
  \/ GetAllStep \/ DecayStep \/ DigStep \/ GhostStep \/ GhostDies \/ make_corpse
  \/ \E op \in {"get all", "dig", "decay"} : Over(op) /\ UNCHANGED <<ow, gone>>
WalksSpec == WalksInit /\ [][WalksNext]_walkVars

-----------------------------------------------------------------------------
WalksTypeOK ==
  /\ ow.next_content \in [Stones -> Stones \union {Null}]
  /\ {ow.contents, ow.carrying, ow.contains} \subseteq Stones \union {Null}
  /\ ow.in_room \union ow.carried \union ow.in_obj \union ow.buried \union gone \subseteq Stones
  /\ bearer \in {"mortal", "god", "ghost"} /\ walk.at \in Stones \union {Null} /\ endless \in BOOLEAN

Ends(w, o) == o = Null \/ \E x \in Chain(w, o) : w.next_content[x] = Null

\* After each command and each loop every list ends and leads to what is there
\* and to nothing else.  A loop that goes round for ever is that of a ghost with
\* belongings in a room where something lies, or that of a digger who carries
\* something still buried (make_corpse, do_dig).
ListsWhole ==
  /\ NoLoop =>
       /\ Ends(ow, ow.contents) /\ Chain(ow, ow.contents) = ow.in_room
       /\ Ends(ow, ow.carrying) /\ Chain(ow, ow.carrying) = ow.carried
       /\ Ends(ow, ow.contains) /\ Chain(ow, ow.contains) = ow.in_obj
       /\ ow.in_room \intersect ow.carried = {} /\ ow.in_obj \intersect (ow.in_room \union ow.carried) = {}
  /\ endless => (walk.op = "ghost" /\ walk.room # {}) \/ (walk.op = "dig" /\ walk.inv # {})

\* What no list leads to any more is what a ghost had in an empty room, but for
\* the newest of it; no other loop loses anything (make_corpse, point_update,
\* get_from_room).
OnlyGhostsLose ==
  gone' # gone => walk.op = "ghost" /\ walk.room = {} /\ Cardinality(walk.seen) = 1

\* After each step of a command or a loop both hold.
ListsSound == [][ListsWhole' /\ OnlyGhostsLose]_walkVars
=============================================================================
