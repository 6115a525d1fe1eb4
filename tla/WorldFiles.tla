------------------------------ MODULE WorldFiles ------------------------------
(***************************************************************************)
(* What the online editors leave in memory, what the savings write to the  *)
(* world files, and what the next boot makes of them (redit.c, medit.c,    *)
(* oedit.c, zedit.c, sedit.c, gedit.c, olc.c, db.c, shop.c, guild.c): one  *)
(* room with its cellar, mobile, object, zone, shop and guild, which       *)
(* refer to each other.  A text stands for its kind: "empty" has no        *)
(* characters, "te~xt" a tilde inside, "text~" one at its end.             *)
(***************************************************************************)
EXTENDS Integers, Sequences, FiniteSets, SequencesExt, TLC

CONSTANTS
  TOP_LEVEL,    \* LVL_IMPL
  MAX_CMD,
  MaxChanges, MaxBoots

VARIABLES
  proto,        \* the prototypes and tables in memory
  world_files,  \* kind -> what its file says
  unsaved,      \* kinds on the list of what is to be saved
  mud,          \* "running", "crashed" in a saving, "refused" to boot
  as_saved,     \* history: each kind when it was saved last
  changes, boots

fileVars == <<proto, world_files, unsaved, mud, as_saved, changes, boots>>

FileKinds == {"room", "mob", "obj", "zone", "shop", "guild"}

-----------------------------------------------------------------------------
(* What the editors allow. *)

Door(word, info, to) == <<[keyword |-> word, info |-> info, to |-> to]>>
redit_parse ==
  [name |-> {"text", "empty", "te~xt", "text~"}, desc |-> {"text", "empty"},
   exit |-> {<<>>, Door("door", {"isdoor"}, "cellar"), Door("door", {"isdoor", "pickproof"}, "here"),
             Door("empty", {}, "nowhere"), Door("text~", {}, "here")},
   descs |-> {<<>>, <<"a">>, <<"a", "b">>}, tele |-> {0, 5}, aff |-> {0, 2},
   func |-> {"none", "dump"}, cellar |-> {"deleted"}]

\* A program of type "in_file" is a mere choice in the menu; commands that were
\* all deleted leave an empty text, and none were typed yet in NULL.
Prog(type, comlist) == <<[type |-> type, comlist |-> comlist]>>
medit_parse ==
  [alias |-> {"text", "te~xt", "text~"}, sdesc |-> {"The text"}, ac |-> {40, 15, -15},
   max_move |-> {100}, func |-> {"none", "mayor"}, life |-> {"deleted"},
   progs |-> {<<>>, Prog("act", "text"), Prog("act", "empty"), Prog("act", "NULL"),
              Prog("in_file", "text"), Prog("in_file", "NULL")}]

\* The bounds of levels are swapped when they come in the wrong order, and 0 as
\* the upper one stands for all levels.
oedit_parse ==
  [name |-> {"text", "empty", "te~xt", "text~"}, ldesc |-> {"A text", "a text"}, weight |-> {1, 4},
   timer |-> {0, 3}, bits |-> {{}, {"invisible"}}, life |-> {"deleted"},
   levels |-> {<<0, TOP_LEVEL>>, <<2, 3>>, <<-1, 0>>}, descs |-> {<<>>, <<"a", "b">>},
   affected |-> {<<[loc |-> "none", mod |-> 0], [loc |-> "str", mod |-> 1]>>,
                 <<[loc |-> "str", mod |-> 0], [loc |-> "none", mod |-> 0]>>}]

zedit_parse ==
  [name |-> {"text", "te~xt", "*text"}, builders |-> {"empty", "text", "*text"},
   cmds |-> {<<"M", "O">>, <<"O", "N">>, <<"M", "O", "M">>}]
sedit_parse ==
  [types |-> {<<>>, <<[type |-> 5, word |-> "sword"]>>, <<[type |-> 5, word |-> "2x"]>>},
   producing |-> {<<>>, <<"lamp", "obj">>}, keeper |-> {"mob", "porter"}, message |-> {"text", "te~xt"}]
gedit_parse ==
  [trainer |-> {"mob", "porter"}, skills |-> {{1}, {0, 3}}, charge |-> {100, 107}]

Parse == [room |-> redit_parse, mob |-> medit_parse, obj |-> oedit_parse,
          zone |-> zedit_parse, shop |-> sedit_parse, guild |-> gedit_parse]

\* Plain ones, before they were saved for the first time and booted: the mayor
\* keeps the shop.
FirstWorld ==
  [room  |-> [name |-> "text", desc |-> "text", exit |-> <<>>, descs |-> <<>>, tele |-> 0, aff |-> 0,
              func |-> "none", cellar |-> "live"],
   mob   |-> [alias |-> "text", sdesc |-> "the text", ac |-> 0, max_move |-> 50, func |-> "mayor",
              progs |-> <<>>, life |-> "live"],
   obj   |-> [name |-> "text", ldesc |-> "A text", weight |-> 4, contents |-> 2, timer |-> 0, bits |-> {},
              levels |-> <<0, TOP_LEVEL>>, descs |-> <<>>, life |-> "live",
              affected |-> <<[loc |-> "none", mod |-> 0], [loc |-> "none", mod |-> 0]>>],
   zone  |-> [name |-> "text", builders |-> "<NONE>", cmds |-> <<>>],
   shop  |-> [types |-> <<>>, producing |-> <<>>, keeper |-> "mob", message |-> "text", own |-> "none"],
   guild |-> [trainer |-> "porter", skills |-> {1}, charge |-> 100, own |-> "none"]]

-----------------------------------------------------------------------------
(* Savings. *)

OrElse(t, word) == IF t = "NULL" THEN word ELSE t
\* bug: pick-proof doors are saved as doors
door_flagPlain(info) == IF "isdoor" \in info THEN 1 ELSE 0
door_flag(info) == IF "isdoor" \notin info THEN 0 ELSE IF "pickproof" \in info THEN 2 ELSE 1

room_file(r) ==
  [name |-> OrElse(r.name, "undefined"), desc |-> OrElse(r.desc, "Empty"), E |-> r.descs,
   D |-> [i \in DOMAIN r.exit |-> [keyword |-> OrElse(r.exit[i].keyword, "empty"),
                                   flag |-> door_flag(r.exit[i].info), to |-> r.exit[i].to]],
   T |-> r.tele, A |-> r.aff, P |-> r.func, cellar |-> r.cellar = "live"]

SpecProcs == {"none", "mayor", "dump"}
dup_mobprograms(progs) == SelectSeq(progs, LAMBDA p : p.comlist # "NULL" \/ p.type = "in_file")
\* Any editing of a mobile gives it back the procedure that the menu shows, which
\* has none of the functions of shopkeepers and trainers.
medit_save_internally(m) ==
  [m EXCEPT !.progs = dup_mobprograms(@), !.func = IF @ \in SpecProcs THEN @ ELSE "none"]

\* str_remove_cr does not ask for a program without commands.
save_mprog_crashes(m) == m.life = "live" /\ \E i \in DOMAIN m.progs : m.progs[i].comlist = "NULL"
Tenth(n) == IF n >= 0 THEN n \div 10 ELSE -((-n) \div 10)
medit_save_to_disk(m) ==
  [there |-> m.life = "live", alias |-> OrElse(m.alias, "undefined"), sdesc |-> OrElse(m.sdesc, "undefined"),
   ac |-> Tenth(m.ac), MaxMove |-> IF m.max_move = 100 THEN <<>> ELSE <<m.max_move>>,
   SpecProc |-> IF m.func \in SpecProcs THEN m.func ELSE "none", progs |-> m.progs, cut |-> FALSE]

oedit_save_to_disk(o) ==
  [there |-> o.life = "live", name |-> OrElse(o.name, "undefined"), ldesc |-> OrElse(o.ldesc, "undefined"),
   weight |-> o.weight, contents |-> o.contents, E |-> o.descs, C |-> o.bits,
   A |-> SelectSeq(o.affected, LAMBDA a : a.mod # 0),
   L |-> IF o.levels[2] # 0 /\ o.levels # <<0, TOP_LEVEL>> THEN <<o.levels>> ELSE <<>>]

zedit_save_to_disk(z) ==
  [name |-> z.name, builders |-> IF z.builders \in {"NULL", "empty"} THEN "<NONE>" ELSE z.builders,
   cmds |-> SelectSeq(z.cmds, LAMBDA c : c \in {"M", "O"})]
sedit_save_to_disk(s) ==
  [types |-> s.types, producing |-> s.producing, keeper |-> s.keeper, message |-> OrElse(s.message, "%s Ke?!")]
gedit_save_to_disk(g) ==
  [trainer |-> g.trainer, skills |-> g.skills, charge |-> 10 * ((g.charge + 5) \div 10)]

FileText(w, k) ==
  CASE k = "room" -> room_file(w.room)  [] k = "mob"   -> medit_save_to_disk(w.mob)
    [] k = "obj"  -> oedit_save_to_disk(w.obj)   [] k = "zone"  -> zedit_save_to_disk(w.zone)
    [] k = "shop" -> sedit_save_to_disk(w.shop)  [] k = "guild" -> gedit_save_to_disk(w.guild)

-----------------------------------------------------------------------------
(* The boot. *)

\* A text ends at its first tilde that no other follows, and with it the rest of
\* the line; one of no characters is NULL.
fread_string(t) == CASE t = "empty" -> "NULL" [] t = "te~xt" -> "te" [] OTHER -> t
\* A tilde at the end makes two in the file: what was to be read next becomes part
\* of the text, and some number is missed.
RunsOn(t) == t = "text~"
\* get_line leaves out lines that begin like a comment.
IsComment(t) == t = "*text"

setup_dir(d, cellar) ==
  [keyword |-> fread_string(d.keyword),
   info |-> CASE d.flag = 1 -> {"isdoor"} [] d.flag = 2 -> {"isdoor", "pickproof"} [] OTHER -> {},
   to |-> IF d.to = "cellar" /\ ~cellar THEN "nowhere" ELSE d.to]
parse_room(l) ==
  [name |-> fread_string(l.name), desc |-> fread_string(l.desc),
   exit |-> [i \in DOMAIN l.D |-> setup_dir(l.D[i], l.cellar)], descs |-> Reverse(l.E),
   tele |-> l.T, aff |-> l.A, func |-> l.P, cellar |-> IF l.cellar THEN "live" ELSE "gone"]

\* MaxMove has another default in a file than in the editor.
interpret_espec(l) == [max_move |-> IF l.MaxMove = <<>> THEN 50 ELSE l.MaxMove[1], func |-> l.SpecProc]
parse_simple_mob(l) == [ac |-> 10 * l.ac, life |-> IF l.there THEN "live" ELSE "gone"]
\* The descriptions that a mobile is seen by begin with a small article.
parse_mobile(l) ==
  interpret_espec(l) @@ parse_simple_mob(l) @@
  [alias |-> fread_string(l.alias), sdesc |-> IF l.sdesc = "The text" THEN "the text" ELSE l.sdesc,
   progs |-> [i \in DOMAIN l.progs |-> [l.progs[i] EXCEPT !.comlist = fread_string(@)]]]

\* The flags of section C are copied onto themselves.
ObjSections(l) ==
  [bits |-> {}, levels |-> IF l.L = <<>> THEN <<0, TOP_LEVEL>> ELSE l.L[1], descs |-> Reverse(l.E),
   affected |-> [j \in 1..2 |-> IF j <= Len(l.A) THEN l.A[j] ELSE [loc |-> "none", mod |-> 0]]]
parse_object(l) ==
  ObjSections(l) @@
  [name |-> fread_string(l.name), ldesc |-> IF l.ldesc = "a text" THEN "A text" ELSE l.ldesc,
   weight |-> IF l.weight < l.contents THEN l.contents + 5 ELSE l.weight, contents |-> l.contents,
   timer |-> 0, life |-> IF l.there THEN "live" ELSE "gone"]

\* A command whose mobile or object is not there is disabled.
renum_zone_table(cmds, mob, obj) ==
  [i \in DOMAIN cmds |-> IF (cmds[i] = "M" /\ ~mob) \/ (cmds[i] = "O" /\ ~obj) THEN "*" ELSE cmds[i]]
load_zones(l, mob, obj) ==
  [name |-> fread_string(l.name), builders |-> IF IsComment(l.builders) THEN "NULL" ELSE l.builders,
   cmds |-> renum_zone_table(l.cmds, mob, obj)]

read_type_list(types) ==
  [i \in DOMAIN types |-> IF types[i].word = "2x" THEN [type |-> 10 * types[i].type + 2, word |-> "x"] ELSE types[i]]
real_mobile(m, mob) == IF m = "mob" /\ ~mob THEN "nobody" ELSE m
boot_the_shops(l, mob, obj) ==
  [types |-> read_type_list(l.types), producing |-> SelectSeq(l.producing, LAMBDA o : o = "obj" => obj),
   keeper |-> real_mobile(l.keeper, mob), message |-> fread_string(l.message), own |-> "none"]
boot_the_guilds(l, mob) ==
  [trainer |-> real_mobile(l.trainer, mob), skills |-> l.skills, charge |-> l.charge, own |-> "none"]

\* First the keepers, then the trainers, keep the procedure that was there as a
\* second one.
assign_the_shopkeepers(w) ==
  IF w.shop.keeper = "mob"
  THEN [w EXCEPT !.shop.own = w.mob.func, !.mob.func = "shop_keeper"] ELSE w
assign_the_gms(w) ==
  IF w.guild.trainer = "mob"
  THEN [w EXCEPT !.guild.own = w.mob.func, !.mob.func = "guild"] ELSE w

boot_db ==
  LET f == world_files
  IN assign_the_gms(assign_the_shopkeepers(
       [room  |-> parse_room(f.room), mob |-> parse_mobile(f.mob), obj |-> parse_object(f.obj),
        zone  |-> load_zones(f.zone, f.mob.there, f.obj.there),
        shop  |-> boot_the_shops(f.shop, f.mob.there, f.obj.there),
        guild |-> boot_the_guilds(f.guild, f.mob.there)]))

Refused ==
  LET f == world_files
  IN \/ RunsOn(f.room.name) \/ \E i \in DOMAIN f.room.D : RunsOn(f.room.D[i].keyword)
     \/ f.mob.cut
     \/ f.mob.there /\ (RunsOn(f.mob.alias) \/ \E i \in DOMAIN f.mob.progs : f.mob.progs[i].type = "in_file")
     \/ f.obj.there /\ (RunsOn(f.obj.name) \/ fread_string(f.obj.name) = "NULL")
     \/ IsComment(f.zone.name) \/ Len(f.zone.cmds) + 1 >= MAX_CMD

-----------------------------------------------------------------------------
WorldFilesInit ==
  /\ as_saved = FirstWorld /\ world_files = [k \in FileKinds |-> FileText(FirstWorld, k)] /\ proto = boot_db
  /\ unsaved = {} /\ mud = "running" /\ changes = 0 /\ boots = 0

Gone(k) == k \in {"mob", "obj"} /\ proto[k].life # "live"
\* A builder changes one field and keeps the change.  Deleting is a flag of the
\* prototype, kept until the next boot.
edit_field(k, field, value) ==
  /\ mud = "running" /\ changes < MaxChanges /\ ~Gone(k)
  /\ field = "cellar" => proto.room.cellar = "live"
  /\ LET edited == [proto[k] EXCEPT ![field] = value]
     IN proto' = [proto EXCEPT ![k] = IF k = "mob" THEN medit_save_internally(edited) ELSE edited]
  /\ unsaved' = unsaved \cup {k} /\ changes' = changes + 1
  /\ UNCHANGED <<world_files, mud, as_saved, boots>>

\* Something else of the same file is edited, so that all of it will be saved.
olc_add_to_save_list(k) ==
  /\ mud = "running" /\ changes < MaxChanges /\ k \notin unsaved
  /\ unsaved' = unsaved \cup {k} /\ changes' = changes + 1
  /\ UNCHANGED <<proto, world_files, mud, as_saved, boots>>

\* Somebody in the game closes the door, which no builder is told to save.
do_doorcmd_close ==
  /\ mud = "running" /\ changes < MaxChanges
  /\ \E i \in DOMAIN proto.room.exit :
       /\ "isdoor" \in proto.room.exit[i].info /\ "closed" \notin proto.room.exit[i].info
       /\ proto' = [proto EXCEPT !.room.exit[i].info = @ \cup {"closed"}]
  /\ changes' = changes + 1 /\ UNCHANGED <<world_files, unsaved, mud, as_saved, boots>>

save_file(k) ==
  /\ mud = "running" /\ k \in unsaved
  /\ IF k = "mob" /\ save_mprog_crashes(proto.mob)
     THEN /\ mud' = "crashed" /\ world_files' = [world_files EXCEPT !.mob.cut = TRUE]
          /\ UNCHANGED <<unsaved, as_saved>>
     ELSE /\ world_files' = [world_files EXCEPT ![k] = FileText(proto, k)] /\ unsaved' = unsaved \ {k}
          /\ as_saved' = [as_saved EXCEPT ![k] = proto[k]] /\ UNCHANGED mud
  /\ UNCHANGED <<proto, changes, boots>>

\* The program ends, or has crashed, and is started again.  assign_the_gms writes
\* into the table of mobiles for a trainer who is not there: anything may happen.
Boot ==
  /\ mud # "refused" /\ boots < MaxBoots /\ boots' = boots + 1
  /\ \/ Refused /\ mud' = "refused" /\ UNCHANGED proto
     \/ ~Refused /\ mud' = "running" /\ proto' = boot_db
     \/ ~Refused /\ boot_db.guild.trainer = "nobody" /\ mud' = "refused" /\ UNCHANGED proto
  /\ unsaved' = {} /\ UNCHANGED <<world_files, as_saved, changes>>

WorldFilesNext ==
  \/ \E k \in FileKinds : save_file(k) \/ olc_add_to_save_list(k)
  \/ \E k \in FileKinds : \E field \in DOMAIN Parse[k] : \E value \in Parse[k][field] :
       proto[k][field] # value /\ edit_field(k, field, value)
  \/ do_doorcmd_close \/ Boot
WorldFilesSpec == WorldFilesInit /\ [][WorldFilesNext]_fileVars

-----------------------------------------------------------------------------
WorldFilesTypeOK ==
  /\ DOMAIN proto = FileKinds /\ DOMAIN world_files = FileKinds /\ unsaved \subseteq FileKinds
  /\ mud \in {"running", "crashed", "refused"} /\ changes \in 0..MaxChanges /\ boots \in 0..MaxBoots

\* The fields that the next boot reads as they were when they were saved.
Kept ==
  LET r == as_saved.room m == as_saved.mob o == as_saved.obj z == as_saved.zone
      s == as_saved.shop g == as_saved.guild
      plain(t) == t \notin {"NULL", "empty", "te~xt"}
      mob == m.life # "deleted" obj == o.life # "deleted"
  IN [room  |-> [name |-> plain(r.name), desc |-> plain(r.desc), tele |-> TRUE, aff |-> TRUE, func |-> TRUE,
                 cellar |-> r.cellar # "deleted", descs |-> Len(r.descs) <= 1,
                 exit |-> \A i \in DOMAIN r.exit :
                            /\ plain(r.exit[i].keyword) /\ "closed" \notin r.exit[i].info
                            /\ r.exit[i].to = "cellar" => r.cellar = "live"],
      mob   |-> [alias |-> plain(m.alias), sdesc |-> m.sdesc # "The text", ac |-> m.ac % 10 = 0,
                 max_move |-> m.max_move # 100, life |-> mob,
                 func |-> m.func \in SpecProcs /\ s.keeper # "mob" /\ g.trainer # "mob",
                 progs |-> \A i \in DOMAIN m.progs : m.progs[i].comlist # "empty"],
      obj   |-> [name |-> plain(o.name), ldesc |-> o.ldesc # "a text", weight |-> o.weight >= o.contents,
                 contents |-> TRUE, timer |-> o.timer = 0, bits |-> o.bits = {}, levels |-> o.levels[2] # 0,
                 descs |-> Len(o.descs) <= 1, life |-> obj,
                 affected |-> o.affected[1].mod # 0 \/ \A j \in 1..2 : o.affected[j] = [loc |-> "none", mod |-> 0]],
      zone  |-> [name |-> plain(z.name), builders |-> plain(z.builders) /\ ~IsComment(z.builders),
                 cmds |-> \A i \in DOMAIN z.cmds : (z.cmds[i] = "M" /\ m.life = "live") \/ (z.cmds[i] = "O" /\ o.life = "live")],
      shop  |-> [types |-> \A i \in DOMAIN s.types : s.types[i].word # "2x", message |-> plain(s.message),
                 producing |-> o.life = "live" \/ s.producing = <<>>, keeper |-> m.life = "live" \/ s.keeper # "mob",
                 own |-> FALSE],
      guild |-> [trainer |-> m.life = "live" \/ g.trainer # "mob", skills |-> TRUE, charge |-> g.charge % 10 = 0,
                 own |-> FALSE]]

\* What makes the boot stop although the editors took it and the saving wrote it.
Fatal ==
  LET r == as_saved.room m == as_saved.mob o == as_saved.obj z == as_saved.zone
  IN \/ RunsOn(r.name) \/ \E i \in DOMAIN r.exit : RunsOn(r.exit[i].keyword)
     \/ m.life = "live" /\ (RunsOn(m.alias) \/ \E i \in DOMAIN m.progs : m.progs[i].type = "in_file")
     \/ o.life = "live" /\ (RunsOn(o.name) \/ o.name = "empty")
     \/ IsComment(z.name) \/ Cardinality({i \in DOMAIN z.cmds : z.cmds[i] \in {"M", "O"}}) + 1 >= MAX_CMD

\* Through any editing, deleting, saving and booting: a boot reads what was saved,
\* save the fields that Kept leaves out; it stops for the texts and numbers of
\* Fatal, after a crash in the saving of mobiles, or for a guild whose trainer was
\* deleted; and a saving crashes only on a program without commands, which is one
\* of the type that the menu alone offers or one that the boot before has read
\* (the *_save_to_disk functions against parse_room, parse_mobile, parse_object,
\* load_zones, boot_the_shops, boot_the_guilds).
FilesKeep ==
  [][/\ boots' # boots /\ mud' = "running" =>
          \A k \in FileKinds : \A f \in DOMAIN proto[k] : Kept[k][f] => proto'[k][f] = as_saved[k][f]
     /\ boots' # boots => IF mud' = "running" THEN ~Fatal /\ mud # "crashed"
                          ELSE Fatal \/ mud = "crashed" \/ (as_saved.guild.trainer = "mob" /\ as_saved.mob.life # "live")
     /\ mud' = "crashed" => boots > 0 \/ \E i \in DOMAIN proto.mob.progs : proto.mob.progs[i].type = "in_file"]_fileVars
=============================================================================
