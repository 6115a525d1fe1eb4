----------------------------- MODULE Belongings -----------------------------
(***************************************************************************)
(* What players wear and carry, and the files that keep it (objsave.c,     *)
(* and House_load, House_save in house.c).  A player's file is a sequence  *)
(* of records; a container is followed by its contents and an end mark,    *)
(* and the list ends with one.  The floor of a house has a file of its     *)
(* own, without nesting.  Flags say that a player (PLR_CRASH) or a house   *)
(* (ROOM_HOUSE_CRASH) has changed since it was saved; the heartbeat saves  *)
(* what is flagged, and a crash or a shutdown may come at any time.        *)
(* In memory an item is [obj, kids]: a thing with what is in it, nearest   *)
(* first.  Bags are not put into bags.                                     *)
(***************************************************************************)
EXTENDS Integers, Sequences, FiniteSets, SequencesExt

CONSTANTS
  Owners,        \* players
  Things,        \* objects, each of a prototype of its own
  Bags,          \* those that are containers (ITEM_CONTAINER)
  NoRents,       \* those that may not be rented (keys, ITEM_NORENT, rent < 0)
  Wearable,      \* those that can be worn, each at a place of its own
  Given,         \* what each owner starts with
  MaxHandlings,  \* bound on the times that things are handled
  MaxRestarts    \* bound on crashes and shutdowns

VARIABLES
  presence,      \* presence[p]: "out" of the game, "linked" or "linkless" in it
  worn,          \* worn[p]: items worn, by position
  carrying,      \* carrying[p]: items carried, the newest first
  plr_crash,     \* plr_crash[p]: PLR_CRASH
  rent_file,     \* rent_file[p]: [code, records], "none" if there is no file
  floor,         \* the items on the floor of the house, the newest first
  house_crash,   \* ROOM_HOUSE_CRASH
  house_file,    \* the things in the file of the house
  no_proto,      \* things whose prototype was removed from the world files
  handlings,     \* how often things were handled
  restarts       \* crashes and shutdowns so far

belongingsVars == <<presence, worn, carrying, plr_crash, rent_file, floor,
                    house_crash, house_file, no_proto, handlings, restarts>>

RENT_CRASH  == 1
RENT_RENTED == 2
OBJ_TERMINATE == [at |-> "end", obj |-> "none", bag |-> "none"]
Item(o) == [obj |-> o, kids |-> <<>>]

-----------------------------------------------------------------------------
(* Writing a player's file. *)

Skipped(o, save_norents) == ~save_norents /\ o \in NoRents

\* save_object: the record of an item, with its contents if it is a container.
\* The bag that a content was in is not in the record; properties refer to it.
save_object(item, at, save_norents) ==
  IF Skipped(item.obj, save_norents) THEN <<>>
  ELSE <<[at |-> at, obj |-> item.obj, bag |-> "none"]>> \o
       (IF item.obj \notin Bags THEN <<>>
        ELSE FlattenSeq([i \in DOMAIN item.kids |->
               IF Skipped(item.kids[i], save_norents) THEN <<>>
               ELSE <<[at |-> "content", obj |-> item.kids[i], bag |-> item.obj]>>])
             \o <<OBJ_TERMINATE>>)

\* Advanced_Save: what is worn, what is carried, and an end mark.
Advanced_Save(w, c, save_norents) ==
  FlattenSeq([i \in DOMAIN w |-> save_object(w[i], "worn", save_norents)]) \o
  FlattenSeq([i \in DOMAIN c |-> save_object(c[i], "inventory", save_norents)]) \o
  <<OBJ_TERMINATE>>

Saved(p, code, save_norents) ==
  [code |-> code, records |-> Advanced_Save(worn[p], carrying[p], save_norents)]

(* Reading it. *)

\* load_object returns no object at an end mark, and neither for a record whose
\* prototype does not exist: each ends the list that is being read.
EndsList(r) == r.at = "end" \/ r.obj \in no_proto

\* A finished item goes where its record says.  A content that is met when no
\* container is open any more goes nowhere.
Place(s, item, at) ==
  CASE at = "worn"      -> [s EXCEPT !.worn = Append(@, item)]
    [] at = "inventory" -> [s EXCEPT !.carrying = <<item>> \o @]
    [] OTHER            -> s

\* One record: s.open is the container that is being filled and its place.
load_object(s, r) ==
  CASE s.done -> s
    [] EndsList(r) /\ s.open = <<>> -> [s EXCEPT !.done = TRUE]
    [] EndsList(r) /\ s.open # <<>> ->
         Place([s EXCEPT !.open = <<>>], s.open[1], s.open[2])
    [] ~EndsList(r) /\ r.obj \in Bags -> [s EXCEPT !.open = <<Item(r.obj), r.at>>]
    [] ~EndsList(r) /\ r.obj \notin Bags ->
         IF s.open # <<>> THEN [s EXCEPT !.open[1].kids = <<r.obj>> \o @]
         ELSE Place(s, Item(r.obj), r.at)

Advanced_Load(records) ==
  FoldLeft(load_object, [worn |-> <<>>, carrying |-> <<>>, open |-> <<>>, done |-> FALSE],
           records)

-----------------------------------------------------------------------------
BelongingsInit ==
  /\ presence = [p \in Owners |-> "linked"]
  /\ worn = [p \in Owners |-> <<>>]
  /\ carrying = Given
  /\ plr_crash = [p \in Owners |-> TRUE]
  /\ rent_file = [p \in Owners |-> [code |-> 0, records |-> <<>>]]
  /\ floor = <<>> /\ house_crash = FALSE /\ house_file = <<>>
  /\ no_proto = {} /\ handlings = 0 /\ restarts = 0

(* Handling things: each flags the player and the room that it changes.  Bound:
   MaxHandlings. *)

\* bug: nothing is flagged when an object changes hands.
TouchForgotten(P) == UNCHANGED plr_crash
Touch(P) == plr_crash' = [p \in Owners |-> p \in P \/ plr_crash[p]]
Acts(p) == presence[p] = "linked"
Handle ==
  /\ handlings < MaxHandlings /\ handlings' = handlings + 1
  /\ UNCHANGED <<presence, rent_file, house_file, no_proto, restarts>>
Without(seq, i) == RemoveAt(seq, i)

do_drop(p, i) ==
  /\ Acts(p) /\ i \in DOMAIN carrying[p]
  /\ carrying' = [carrying EXCEPT ![p] = Without(@, i)]
  /\ floor' = <<carrying[p][i]>> \o floor
  /\ house_crash' = TRUE /\ Touch({p})
  /\ UNCHANGED worn /\ Handle

do_get(p, i) ==
  /\ Acts(p) /\ i \in DOMAIN floor
  /\ carrying' = [carrying EXCEPT ![p] = <<floor[i]>> \o @]
  /\ floor' = Without(floor, i)
  /\ house_crash' = TRUE /\ Touch({p})
  /\ UNCHANGED worn /\ Handle

\* To somebody who need not have a link.
do_give(p, q, i) ==
  /\ Acts(p) /\ presence[q] # "out" /\ p # q /\ i \in DOMAIN carrying[p]
  /\ carrying' = [carrying EXCEPT ![p] = Without(@, i),
                                  ![q] = <<carrying[p][i]>> \o @]
  /\ Touch({p, q})
  /\ UNCHANGED <<worn, floor, house_crash>> /\ Handle

do_wear(p, i) ==
  /\ Acts(p) /\ i \in DOMAIN carrying[p] /\ carrying[p][i].obj \in Wearable
  /\ \A j \in DOMAIN worn[p] : worn[p][j].obj # carrying[p][i].obj
  /\ carrying' = [carrying EXCEPT ![p] = Without(@, i)]
  /\ worn' = [worn EXCEPT ![p] = Append(@, carrying[p][i])]
  /\ Touch({p})
  /\ UNCHANGED <<floor, house_crash>> /\ Handle

do_remove(p, i) ==
  /\ Acts(p) /\ i \in DOMAIN worn[p]
  /\ worn' = [worn EXCEPT ![p] = Without(@, i)]
  /\ carrying' = [carrying EXCEPT ![p] = <<worn[p][i]>> \o @]
  /\ Touch({p})
  /\ UNCHANGED <<floor, house_crash>> /\ Handle

Fill(item, o) == [item EXCEPT !.kids = <<o>> \o @]
Emptied(item, k) == [item EXCEPT !.kids = Without(@, k)]

\* Into a bag that is carried, worn or on the floor: the house is not flagged.
do_put(p, i) ==
  /\ Acts(p) /\ i \in DOMAIN carrying[p] /\ carrying[p][i].obj \notin Bags
  /\ LET o == carrying[p][i].obj
         rest == Without(carrying[p], i)
     IN \/ \E j \in DOMAIN rest :
             /\ rest[j].obj \in Bags
             /\ carrying' = [carrying EXCEPT ![p] = [rest EXCEPT ![j] = Fill(@, o)]]
             /\ UNCHANGED <<worn, floor>>
        \/ \E j \in DOMAIN worn[p] :
             /\ worn[p][j].obj \in Bags
             /\ worn' = [worn EXCEPT ![p][j] = Fill(@, o)]
             /\ carrying' = [carrying EXCEPT ![p] = rest]
             /\ UNCHANGED floor
        \/ \E j \in DOMAIN floor :
             /\ floor[j].obj \in Bags
             /\ floor' = [floor EXCEPT ![j] = Fill(@, o)]
             /\ carrying' = [carrying EXCEPT ![p] = rest]
             /\ UNCHANGED worn
  /\ Touch({p})
  /\ UNCHANGED house_crash /\ Handle

\* Out of a bag: neither is the house flagged then.
get_from_container(p) ==
  /\ Acts(p)
  /\ \/ \E j \in DOMAIN carrying[p] : \E k \in DOMAIN carrying[p][j].kids :
          /\ carrying' = [carrying EXCEPT ![p] =
               <<Item(carrying[p][j].kids[k])>> \o [@ EXCEPT ![j] = Emptied(@, k)]]
          /\ UNCHANGED <<worn, floor>>
     \/ \E j \in DOMAIN worn[p] : \E k \in DOMAIN worn[p][j].kids :
          /\ carrying' = [carrying EXCEPT ![p] = <<Item(worn[p][j].kids[k])>> \o @]
          /\ worn' = [worn EXCEPT ![p][j] = Emptied(@, k)]
          /\ UNCHANGED floor
     \/ \E j \in DOMAIN floor : \E k \in DOMAIN floor[j].kids :
          /\ carrying' = [carrying EXCEPT ![p] = <<Item(floor[j].kids[k])>> \o @]
          /\ floor' = [floor EXCEPT ![j] = Emptied(@, k)]
          /\ UNCHANGED worn
  /\ Touch({p})
  /\ UNCHANGED house_crash /\ Handle

LoseLink(p) ==
  /\ presence[p] = "linked" /\ presence' = [presence EXCEPT ![p] = "linkless"]
  /\ UNCHANGED <<worn, carrying, plr_crash, rent_file, floor, house_crash,
                 house_file, no_proto, handlings, restarts>>

-----------------------------------------------------------------------------
(* Saving. *)

\* House_save: contents first and the list from its end; nothing is nested.
FlatItem(item) == Reverse(item.kids) \o <<item.obj>>
House_save == FlattenSeq([i \in DOMAIN floor |-> FlatItem(floor[Len(floor) + 1 - i])])
House_crashsave == house_file' = House_save /\ house_crash' = FALSE

Crash_crashsave(P) ==
  /\ rent_file' = [p \in Owners |-> IF p \in P THEN Saved(p, RENT_CRASH, TRUE)
                                    ELSE rent_file[p]]
  /\ plr_crash' = [p \in Owners |-> p \notin P /\ plr_crash[p]]

\* Crash_save_all: those who play over a link and are flagged.
ToSave == {p \in Owners : presence[p] = "linked" /\ plr_crash[p]}

\* The heartbeat: Crash_save_all, then House_save_all.
AutoSave ==
  /\ Crash_crashsave(ToSave)
  /\ IF house_crash THEN House_crashsave ELSE UNCHANGED <<house_file, house_crash>>
  /\ UNCHANGED <<presence, worn, carrying, floor, no_proto, handlings, restarts>>

\* "save", in the house or elsewhere.
do_save(p) ==
  /\ Acts(p)
  /\ Crash_crashsave({p})
  /\ \/ house_crash /\ House_crashsave
     \/ UNCHANGED <<house_file, house_crash>>
  /\ UNCHANGED <<presence, worn, carrying, floor, no_proto, handlings, restarts>>

\* Crash_rentsave: what can be rented is saved, and everything is extracted.
Crash_rentsave(p) ==
  /\ rent_file' = [rent_file EXCEPT ![p] = Saved(p, RENT_RENTED, FALSE)]
  /\ worn' = [worn EXCEPT ![p] = <<>>]
  /\ carrying' = [carrying EXCEPT ![p] = <<>>]

\* do_quit, or check_idling, which takes the linkless too; Crash_delete_objects
\* in extract_char leaves a rented file alone.
QuitOrIdle(p) ==
  /\ presence[p] # "out"
  /\ Crash_rentsave(p)
  /\ presence' = [presence EXCEPT ![p] = "out"]
  /\ plr_crash' = [plr_crash EXCEPT ![p] = @ \/ worn[p] # <<>>]
  /\ UNCHANGED <<floor, house_crash, house_file, no_proto, handlings, restarts>>

\* Death: all falls to the floor (in a corpse, or by extract_char), and
\* Crash_delete_objects empties the file, unless it is a rented one.
\* bug: a crash file survives the death of its player.
Crash_delete_objectsKept(p) == UNCHANGED rent_file
Crash_delete_objects(p) ==
  rent_file' = [rent_file EXCEPT ![p].records = IF rent_file[p].code = RENT_CRASH
                                                THEN <<>> ELSE @]
extract_char(p) ==
  /\ presence[p] # "out"
  /\ floor' = Reverse(worn[p]) \o Reverse(carrying[p]) \o floor
  /\ house_crash' = (house_crash \/ worn[p] # <<>> \/ carrying[p] # <<>>)
  /\ worn' = [worn EXCEPT ![p] = <<>>] /\ carrying' = [carrying EXCEPT ![p] = <<>>]
  /\ presence' = [presence EXCEPT ![p] = "out"]
  /\ plr_crash' = [plr_crash EXCEPT ![p] = @ \/ carrying[p] # <<>>]
  /\ Crash_delete_objects(p)
  /\ UNCHANGED <<house_file, no_proto, handlings, restarts>>

\* enter_player_game: the belongings are read, and the file becomes a crash file
\* if it was there.
enter_player_game(p) ==
  LET s == Advanced_Load(rent_file[p].records)
  IN /\ presence[p] = "out"
     /\ presence' = [presence EXCEPT ![p] = "linked"]
     /\ worn' = [worn EXCEPT ![p] = s.worn]
     /\ carrying' = [carrying EXCEPT ![p] = s.carrying]
     /\ plr_crash' = [plr_crash EXCEPT ![p] = @ \/ s.carrying # <<>>]
     /\ rent_file' = [rent_file EXCEPT ![p].code = IF @ = 0 THEN 0 ELSE RENT_CRASH]
     /\ UNCHANGED <<floor, house_crash, house_file, no_proto, handlings, restarts>>

\* The player comes back to the body.
Reconnect(p) ==
  /\ presence[p] = "linkless" /\ presence' = [presence EXCEPT ![p] = "linked"]
  /\ UNCHANGED <<worn, carrying, plr_crash, rent_file, floor, house_crash,
                 house_file, no_proto, handlings, restarts>>

\* House_load: everything lies on the floor; a thing without prototype does not.
House_load(file, gone) ==
  [i \in DOMAIN SelectSeq(file, LAMBDA o : o \notin gone) |->
     Item(Reverse(SelectSeq(file, LAMBDA o : o \notin gone))[i])]

\* A crash, or a shutdown (comm.c, after game_loop), which saves the players
\* but no house; then the world is booted, perhaps without some prototype.
\* Bound: MaxRestarts.
Restart(shutdown, gone) ==
  /\ restarts < MaxRestarts /\ restarts' = restarts + 1
  /\ rent_file' = [p \in Owners |-> IF shutdown /\ p \in ToSave
                                    THEN Saved(p, RENT_CRASH, TRUE) ELSE rent_file[p]]
  /\ no_proto' = no_proto \cup gone
  /\ floor' = House_load(house_file, no_proto')
  /\ house_crash' = (floor' # <<>>)
  /\ presence' = [p \in Owners |-> "out"]
  /\ worn' = [p \in Owners |-> <<>>] /\ carrying' = [p \in Owners |-> <<>>]
  /\ plr_crash' = [p \in Owners |-> FALSE]
  /\ UNCHANGED <<house_file, handlings>>

BelongingsNext ==
  \/ \E p \in Owners :
       \/ \E i \in 1..4 : \/ do_drop(p, i) \/ do_get(p, i) \/ do_wear(p, i)
                          \/ do_remove(p, i) \/ do_put(p, i)
                          \/ \E q \in Owners : do_give(p, q, i)
       \/ get_from_container(p) \/ LoseLink(p) \/ Reconnect(p) \/ do_save(p)
       \/ QuitOrIdle(p) \/ extract_char(p) \/ enter_player_game(p)
  \/ AutoSave
  \/ \E shutdown \in BOOLEAN, gone \in {{}} \cup {{o} : o \in Things} : Restart(shutdown, gone)

BelongingsSpec == BelongingsInit /\ [][BelongingsNext]_belongingsVars

-----------------------------------------------------------------------------
InGame(p) == presence[p] # "out"
Records(p) == ToSet(rent_file[p].records) \ {OBJ_TERMINATE}
RecordsOf(w, c) == ToSet(Advanced_Save(w, c, TRUE)) \ {OBJ_TERMINATE}

Items == [obj : Things, kids : Seq(Things)]
BelongingsTypeOK ==
  /\ presence \in [Owners -> {"out", "linked", "linkless"}]
  /\ worn \in [Owners -> Seq(Items)] /\ carrying \in [Owners -> Seq(Items)]
  /\ plr_crash \in [Owners -> BOOLEAN] /\ house_crash \in BOOLEAN
  /\ \A p \in Owners : rent_file[p].code \in {0, RENT_CRASH, RENT_RENTED}
  /\ floor \in Seq(Items) /\ house_file \in Seq(Things) /\ no_proto \subseteq Things
  /\ handlings \in 0..MaxHandlings /\ restarts \in 0..MaxRestarts

\* A player in the game who is not flagged has the belongings that the file
\* says, each in its place and each content in its bag, if all prototypes exist;
\* what lies on the floor of an unflagged house is in the file of the house.
SavedUnlessFlagged ==
  /\ \A p \in Owners :
       InGame(p) /\ ~plr_crash[p] /\ (\A r \in Records(p) : r.obj \notin no_proto)
         => Records(p) = RecordsOf(worn[p], carrying[p])
  /\ ~house_crash => \A i \in DOMAIN floor : floor[i].obj \in ToSet(house_file)

\* How often a thing is among items, themselves or in them.
Count(o, items) ==
  Cardinality({i \in DOMAIN items : items[i].obj = o}) +
  Cardinality({<<i, k>> \in (DOMAIN items) \X (1..Cardinality(Things)) :
                 k \in DOMAIN items[i].kids /\ items[i].kids[k] = o})

\* Until the program stops, each thing that can be rented is in exactly one
\* place: on the floor, with a player in the game, or in the file of one who is
\* not (objsave.c 690-735, 1286-1405, act.other.c 481-515).
NothingDoubled ==
  restarts = 0 =>
    \A o \in Things \ NoRents :
      1 = Count(o, floor) +
          Cardinality({p \in Owners : InGame(p) /\ Count(o, worn[p] \o carrying[p]) = 1}) +
          Cardinality({p \in Owners : ~InGame(p) /\ \E r \in Records(p) : r.obj = o})
\* What is saved and what is in the game tell one story, through quits, deaths,
\* lost links, saves and restarts.
BelongingsSound == SavedUnlessFlagged /\ NothingDoubled
=============================================================================
