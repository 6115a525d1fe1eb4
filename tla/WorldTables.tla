----------------------------- MODULE WorldTables -----------------------------
(***************************************************************************)
(* The tables of rooms, mobile and object prototypes, and zones, and what  *)
(* the online editors do to them (redit.c, medit.c, oedit.c, zedit.c,      *)
(* sedit.c, olc.c; db.c at a boot).  Everything else in the program names  *)
(* a prototype by its place in the table, so that an insertion has to go   *)
(* after all of these references; the files of the world name it by its    *)
(* virtual number.  Room 0 of the table is not edited here: it would be    *)
(* taken for a new room ("room_num > 0"), and so the first object.         *)
(***************************************************************************)
EXTENDS Integers, Sequences, FiniteSets, SequencesExt, BinarySearch

CONSTANTS
  FirstTable,     \* FirstTable[k]: the virtual numbers of kind k, in order
  NewNumbers,     \* NewNumbers[k]: those that builders may add
  FirstRefs,      \* FirstRefs[x]: the reference x as [at, kind, num, file]
  ZoneSize,       \* virtual numbers in a zone (100)
  MaxEdits        \* commands of the builders

VARIABLES
  tables,         \* tables[k]: the virtual numbers in the order of the table
  deleted,        \* pairs <<k, vnum>> with the flag DELETED
  refs,           \* refs[x]: [at, kind, num, file, means]; num 0: disabled
  copies,         \* the references in rooms and shops that are being edited
  save_list,      \* olc_save_list: pairs of a zone and what is to be saved
  edits,          \* commands so far
  on_disk         \* [protos |-> pairs <<k, vnum>>, refs |-> virtual numbers]

tableVars == <<tables, deleted, refs, copies, save_list, edits, on_disk>>

TableKinds == {"room", "mob", "obj", "zone"}
ZoneNumberOf(v) == v \div ZoneSize
Disabled == 0
NotEdited == [num |-> -1, means |-> -1]

\* Each kind of insertion and the references that it goes after.
RoomRefs == {"in_room", "exit", "edited_exit", "cmd_room", "start_room"}
MobRefs == {"live_mob", "cmd_mob", "keeper"}
ObjRefs == {"live_obj", "cmd_obj", "board", "product"}

\* The tables are read in order from files that are not empty, a room's zone
\* exists, and what refers to rooms, mobiles and objects is of that kind.
ASSUME TablesAssumption ==
  /\ ZoneSize \in Nat \ {0} /\ MaxEdits \in Nat
  /\ FirstTable \in [TableKinds -> Seq(Nat) \ {<<>>}] /\ NewNumbers \in [TableKinds -> SUBSET Nat]
  /\ \A k \in TableKinds : \A i, j \in DOMAIN FirstTable[k] : i < j => FirstTable[k][i] < FirstTable[k][j]
  /\ \A i \in DOMAIN FirstTable["room"] : ZoneNumberOf(FirstTable["room"][i]) \in ToSet(FirstTable["zone"])
  /\ \A x \in DOMAIN FirstRefs :
       LET r == FirstRefs[x]
       IN /\ r.kind \in TableKinds /\ r.num \in DOMAIN FirstTable[r.kind] /\ r.file \in Int \X STRING
          /\ r.at \in RoomRefs => r.kind = "room"
          /\ r.at \in MobRefs => r.kind = "mob"
          /\ r.at \in ObjRefs => r.kind = "obj"

Meant(k, num) == IF num = Disabled THEN 0 ELSE tables[k][num]
TablesInit ==
  /\ tables = FirstTable /\ deleted = {} /\ save_list = {} /\ edits = 0
  /\ refs = [x \in DOMAIN FirstRefs |->
               [at |-> FirstRefs[x].at, kind |-> FirstRefs[x].kind, num |-> FirstRefs[x].num,
                file |-> FirstRefs[x].file, means |-> FirstTable[FirstRefs[x].kind][FirstRefs[x].num]]]
  /\ copies = [x \in DOMAIN FirstRefs |-> NotEdited]
  /\ on_disk = [protos |-> UNION {{k} \X ToSet(FirstTable[k]) : k \in TableKinds},
                refs |-> [x \in DOMAIN FirstRefs |-> FirstTable[FirstRefs[x].kind][FirstRefs[x].num]]]

-----------------------------------------------------------------------------
\* A reference n that the code moves when place p of a table is filled.
Up(n, p) == IF n >= p THEN n + 1 ELSE n
\* The code's test for some of them: what was at p itself is left behind.
UpAfter(n, p) == IF n > p THEN n + 1 ELSE n

\* What an insertion does to a reference.  Not moved by any editor: "trainer",
\* "zone_of_room".
Renumbered(k, p, r) ==
  IF r.kind # k \/ r.num = Disabled THEN r
  ELSE CASE k = "room" /\ r.at \in RoomRefs -> [r EXCEPT !.num = Up(@, p)]
         [] k = "mob" /\ r.at \in MobRefs -> [r EXCEPT !.num = UpAfter(@, p)]
         [] k = "obj" /\ r.at \in ObjRefs -> [r EXCEPT !.num = Up(@, p)]
         [] OTHER -> r
\* The shops in the editor; rooms in the editor are not looked at.
RenumberedCopy(k, p, x) ==
  IF copies[x] # NotEdited /\ refs[x].kind = k /\ refs[x].at \in {"keeper", "product"}
  THEN [copies[x] EXCEPT !.num = Up(@, p)] ELSE copies[x]

\* bug: the new entry goes behind the first that is greater.
PlaceForLate(tab, v) ==
  LET p == 1 + Cardinality({i \in DOMAIN tab : tab[i] < v}) IN IF p > Len(tab) THEN p ELSE p + 1
\* The place of a new number: before the first that is greater.
PlaceFor(tab, v) == 1 + Cardinality({i \in DOMAIN tab : tab[i] < v})
InsertedAt(k, v, p) ==
  /\ tables' = [tables EXCEPT ![k] = InsertAt(@, p, v)]
  /\ refs' = [x \in DOMAIN refs |-> Renumbered(k, p, refs[x])]
  /\ copies' = [x \in DOMAIN copies |-> RenumberedCopy(k, p, x)]
Edit == edits < MaxEdits /\ edits' = edits + 1
ZoneExists(v) == \E i \in DOMAIN tables["zone"] : tables["zone"][i] = ZoneNumberOf(v)

\* redit_save_internally, medit_save_internally, oedit_save_internally of a
\* number that is not there yet.
redit_new(v) ==
  /\ Edit
  /\ real_number(tables["room"], v) = 0 /\ ZoneExists(v)
  /\ InsertedAt("room", v, PlaceFor(tables["room"], v))
  /\ save_list' = save_list \union {<<ZoneNumberOf(v), "room">>}
  /\ UNCHANGED <<deleted, on_disk>>
medit_new(v) ==
  /\ Edit
  /\ real_number(tables["mob"], v) = 0 /\ ZoneExists(v)
  /\ InsertedAt("mob", v, PlaceFor(tables["mob"], v))
  /\ save_list' = save_list \union {<<ZoneNumberOf(v), "mob">>}
  /\ UNCHANGED <<deleted, on_disk>>
oedit_new(v) ==
  /\ Edit
  /\ real_number(tables["obj"], v) = 0 /\ ZoneExists(v)
  /\ InsertedAt("obj", v, PlaceFor(tables["obj"], v))
  /\ save_list' = save_list \union {<<ZoneNumberOf(v), "obj">>}
  /\ UNCHANGED <<deleted, on_disk>>
\* The new zone's files are written at once, with a first room that is not in
\* memory before the next boot.
zedit_new_zone(z) ==
  /\ Edit
  /\ ~\E i \in DOMAIN tables["zone"] : tables["zone"][i] = z
  /\ InsertedAt("zone", z, PlaceFor(tables["zone"], z))
  /\ on_disk' = [on_disk EXCEPT !.protos = @ \union {<<"zone", z>>, <<"room", z * ZoneSize>>}]
  /\ UNCHANGED <<deleted, save_list>>

\* A room or a shop goes into its editor, and back into the table.
setup_existing(x) ==
  /\ Edit
  /\ refs[x].at \in {"edited_exit", "keeper", "product"} /\ copies[x] = NotEdited
  /\ copies' = [copies EXCEPT ![x] = [num |-> refs[x].num, means |-> refs[x].means]]
  /\ UNCHANGED <<tables, deleted, refs, save_list, on_disk>>
save_internally(x) ==
  /\ copies[x] # NotEdited
  /\ refs' = [refs EXCEPT ![x].num = copies[x].num]
  /\ copies' = [copies EXCEPT ![x] = NotEdited]
  /\ save_list' = save_list \union {refs[x].file}
  /\ UNCHANGED <<tables, deleted, edits, on_disk>>
editor_quit(x) ==
  /\ copies[x] # NotEdited
  /\ copies' = [copies EXCEPT ![x] = NotEdited]
  /\ UNCHANGED <<tables, deleted, refs, save_list, edits, on_disk>>

do_delete(k, v) ==
  /\ Edit
  /\ k # "zone" /\ real_number(tables[k], v) > 1       \* "r <= 0" is refused
  /\ <<k, v>> \notin deleted
  /\ deleted' = deleted \union {<<k, v>>}
  /\ save_list' = save_list \union {<<ZoneNumberOf(v), k>>}
  /\ UNCHANGED <<tables, refs, copies, on_disk>>
do_undelete(k, v) ==
  /\ Edit
  /\ k # "zone" /\ real_number(tables[k], v) > 1
  /\ <<k, v>> \in deleted
  /\ deleted' = deleted \ {<<k, v>>}
  /\ save_list' = save_list \union {<<ZoneNumberOf(v), k>>}
  /\ UNCHANGED <<tables, refs, copies, on_disk>>

-----------------------------------------------------------------------------
\* What the disk holds after files, pairs of a zone and a kind, are written: the
\* undeleted numbers of their ranges, and the virtual numbers of the references
\* in them.  A zone's own file keeps naming the zone.
Prototypes == UNION {{k} \X ToSet(tables[k]) : k \in TableKinds \ {"zone"}}
FileOf(q) == <<ZoneNumberOf(q[2]), q[1]>>
WrittenFiles(files) ==
  [protos |-> {q \in on_disk.protos : q[1] = "zone" \/ FileOf(q) \notin files}
              \union {q \in Prototypes \ deleted : FileOf(q) \in files},
   refs |-> [x \in DOMAIN refs |->
               IF refs[x].file \in files THEN Meant(refs[x].kind, refs[x].num) ELSE on_disk.refs[x]]]
save_to_disk(z, k) ==
  /\ on_disk' = WrittenFiles({<<z, k>>})
  /\ save_list' = save_list \ {<<z, k>>}
  /\ UNCHANGED <<tables, deleted, refs, copies, edits>>
olc_saveall ==
  /\ save_list # {}
  /\ on_disk' = WrittenFiles(save_list)
  /\ save_list' = {}
  /\ UNCHANGED <<tables, deleted, refs, copies, edits>>

\* The program ends and boots again, unless files without a record stop it
\* ("0 records counted").  Tables are in the order of the files.
\* What the files name and nobody has is disabled (renum_world,
\* renum_zone_table); live mobiles and objects come from the reset commands.
InOrder(S) ==
  [i \in 1..Cardinality(S) |-> CHOOSE n \in S : Cardinality({m \in S : m < n}) = i - 1]
OnDisk(k) == {q[2] : q \in {p \in on_disk.protos : p[1] = k}}
Booted(k) == InOrder(OnDisk(k))
FromCommand(x) == CHOOSE y \in DOMAIN refs : refs[y].at = IF refs[x].at = "live_mob" THEN "cmd_mob" ELSE "cmd_obj"
boot_world ==
  LET tabs == [k \in TableKinds |-> Booted(k)]
      Vnum(x) == IF refs[x].at \in {"live_mob", "live_obj"} THEN on_disk.refs[FromCommand(x)] ELSE on_disk.refs[x]
      Found(x) == real_number(tabs[refs[x].kind], Vnum(x))
  IN /\ \A k \in TableKinds : OnDisk(k) # {}
     /\ tables' = tabs /\ deleted' = {} /\ save_list' = {}
     /\ refs' = [x \in DOMAIN refs |-> [refs[x] EXCEPT !.num = Found(x), !.means = IF Found(x) = 0 THEN 0 ELSE Vnum(x)]]
     /\ copies' = [x \in DOMAIN copies |-> NotEdited]
     /\ UNCHANGED <<edits, on_disk>>

TablesNext ==
  \/ \E v \in NewNumbers["room"] : redit_new(v)
  \/ \E v \in NewNumbers["mob"] : medit_new(v)
  \/ \E v \in NewNumbers["obj"] : oedit_new(v)
  \/ \E z \in NewNumbers["zone"] : zedit_new_zone(z)
  \/ \E x \in DOMAIN refs : setup_existing(x) \/ save_internally(x) \/ editor_quit(x)
  \/ \E k \in TableKinds : \E v \in ToSet(tables[k]) : do_delete(k, v) \/ do_undelete(k, v)
  \/ \E e \in save_list : save_to_disk(e[1], e[2])
  \/ olc_saveall
  \/ boot_world
TablesSpec == TablesInit /\ [][TablesNext]_tableVars

-----------------------------------------------------------------------------
TablesTypeOK ==
  /\ \A k \in TableKinds : tables[k] \in Seq(Int)
  /\ deleted \subseteq TableKinds \X Int /\ edits \in 0..MaxEdits /\ save_list \subseteq Int \X STRING
  /\ \A x \in DOMAIN refs : refs[x].num \in 0..Len(tables[refs[x].kind])

\* Every number in a table is found by the binary search of real_room,
\* real_mobile and real_object, whatever was inserted before and after boots:
\* the editors that insert must find the place that the search expects.
PrototypesFound == \A k \in TableKinds : \A i \in DOMAIN tables[k] : real_number(tables[k], tables[k][i]) = i

\* The references that an insertion should go after: the room somebody is in,
\* exits, reset commands, start rooms, objects in the game, boards and the
\* products of shops still name the prototype that they named when the game
\* was booted.  Copies in an editor and the mobiles are not among them.
Followed == {"in_room", "exit", "cmd_room", "start_room", "live_obj", "cmd_obj", "board", "product"}
ReferencesKept ==
  \A x \in DOMAIN refs : refs[x].at \in Followed /\ refs[x].num # Disabled
                         => tables[refs[x].kind][refs[x].num] = refs[x].means

\* What is not in the files is on the save list: a prototype that is there and
\* in no file, or in a file and flagged DELETED, is found by olc_saveall.
UnsavedIsListed ==
  \A k \in TableKinds \ {"zone"} : \A i \in DOMAIN tables[k] :
     LET v == tables[k][i] IN
     (<<k, v>> \in on_disk.protos) = (<<k, v>> \in deleted) => <<ZoneNumberOf(v), k>> \in save_list
TablesSound == PrototypesFound /\ ReferencesKept /\ UnsavedIsListed
=============================================================================
