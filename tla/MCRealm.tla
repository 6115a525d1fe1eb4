------------------------------- MODULE MCRealm -------------------------------
(***************************************************************************)
(* The components that keep their state apart from the others, in one      *)
(* instance: a behaviour starts in one of them, part, and takes its steps  *)
(* while the others rest, so that the states to check are the sum of       *)
(* theirs.  Those that do share state are composed in Sessions, ObjWorld,  *)
(* Combat, Belongings and Zones.                                           *)
(***************************************************************************)
EXTENDS MailImplements, Boards, Belongings, Houses, Clans, TextEditor, Tracking,
        Zones, Riding, Editors, Shops, MobProgs, Affects, CommandTree,
        CommandLine, Ranks, WorldFiles, Casting, ListWalks, Copyover, TLC

CONSTANT Parts
VARIABLE part

-----------------------------------------------------------------------------
(* Values of the constants. *)

BoardOrder   == <<"m", "s">>
LevelsHere   == ("god" :> 2) @@ ("ann" :> 1)
GodsWrite    == ("m" :> 1) @@ ("s" :> 2)
GodsRemove   == [b \in {"m", "s"} |-> 2]

\* ann has a bag with a gem in it, which cannot be rented.
GivenThings  == ("ann" :> <<[obj |-> "bag", kids |-> <<"gem">>]>>) @@ ("bob" :> <<>>)

\* The house "attic" is reached through another one.
Atriums      == [r \in {"villa", "cottage", "attic"} |-> IF r = "attic" THEN "tower" ELSE "square"]

ClanLevels   == ("ann" :> 20) @@ ("god" :> 108)
ClanAtFirst  == [number |-> 5, owner |-> "ann", gold |-> 1, nummembers |-> 0]
GiveOrTake   == {-1, 1}

\* A text of the game, the same for all editors of it, and a note of one's own.
TextKinds    == ("texted" :> "shared")

\* Worlds of three rooms: anywhere through exit 1, around through exit 2, which
\* may be missing in b; with a room that is not tracked through, or without.
Around       == [x \in {"a", "b", "c"} |-> CASE x = "a" -> "b" [] x = "b" -> "c" [] x = "c" -> "a"]
Mazes        == {[to |-> [x \in {"a", "b", "c"} |-> <<f[x], g[x]>>], notrack |-> nt] :
                   f \in [{"a", "b", "c"} -> {"a", "b", "c", NOWHERE}],
                   g \in {Around, [Around EXCEPT !["b"] = NOWHERE]}, nt \in {{}, {"c"}}}

\* A gate in zone 1 and a hall in zone 2, with a door between them.
ZonesOfRooms == ("gate" :> 1) @@ ("hall" :> 2)
Opposite     == ("n" :> "s") @@ ("s" :> "n")
OneDoor      == (<<"gate", "n">> :> [to_room |-> "hall", isdoor |-> TRUE, key |-> 7, pickproof |-> FALSE])
                  @@ (<<"hall", "s">> :> [to_room |-> "gate", isdoor |-> TRUE, key |-> 7, pickproof |-> TRUE])
Cmd(c, if, a1, a2, a3) == [command |-> c, if_flag |-> if, arg1 |-> a1, arg2 |-> a2, arg3 |-> a3]
Resets       == <<<<Cmd("D", FALSE, "gate", "n", 2), Cmd("D", FALSE, "hall", "s", 2)>>,
                  <<Cmd("M", FALSE, "orc", 1, "hall"), Cmd("G", TRUE, "axe", 1, 0),
                    Cmd("R", FALSE, "hall", "axe", 0), Cmd("D", TRUE, "hall", "s", 0),
                    Cmd("D", FALSE, "gate", "n", 0)>>>>
ASSUME ResetsPaired == PairedResets
Lifespans    == <<1, 1>>
ResetModes   == <<1, 2>>
KeyRings     == {<<"bob", 7>>}

Paths        == ("field" :> {"cave", "pit"}) @@ ("cave" :> {"field"}) @@ ("pit" :> {"field"})

Numbers      == [room |-> <<1, 11, 21>>, mob |-> <<1, 21>>, obj |-> <<1, 12>>, zone |-> <<0, 1, 2>>]
Additions    == [room |-> {12}, mob |-> {11}, obj |-> {11}, zone |-> {3}]
Reference(at, kind, num, home) == [at |-> at, kind |-> kind, num |-> num, file |-> home]
References   == [walker |-> Reference("in_room", "room", 3, <<2, "room">>),
                 door   |-> Reference("edited_exit", "room", 3, <<1, "room">>),
                 orc    |-> Reference("live_mob", "mob", 2, <<2, "zone">>),
                 mcmd   |-> Reference("cmd_mob", "mob", 2, <<2, "zone">>),
                 axe    |-> Reference("live_obj", "obj", 2, <<2, "zone">>),
                 ocmd   |-> Reference("cmd_obj", "obj", 2, <<2, "zone">>),
                 wares  |-> Reference("product", "obj", 2, <<2, "shop">>)]

\* Things that buy and sell at different prices, one of them worth nothing, and
\* the expressions over two names up to two operators deep.
PricesAsked  == ("lamp" :> 1) @@ ("gem" :> 2) @@ ("dud" :> 0)
PricesPaid   == ("lamp" :> 1) @@ ("gem" :> 1) @@ ("dud" :> 0)
OnTheShelf   == <<"gem", "lamp", "dud">>
Combined     == LET L  == {Name("a"), Name("b")}
                    E1 == L \cup {Not(e) : e \in L} \cup {Both(op, e, f) : op \in {OPER_AND, OPER_OR}, e \in L, f \in L}
                IN E1 \cup {Not(e) : e \in E1}
                      \cup {Both(op, e, f) : op \in {OPER_AND, OPER_OR}, e \in E1, f \in E1}

\* Programs with nested ifs, waits, a break, and commands that set off others; of
\* those that an act sets off, one waits for a phrase and one for words.
Scripts      == <<[trigger |-> "speech",
                   text |-> <<If(<<"c", "d">>, <<Do("nod"), Line("break", "")>>, <<Do("grin")>>),
                              Do("force_act"), Line("wait", ""), Do("bow")>>],
                  [trigger |-> "act_phrase",
                   text |-> <<Do("force_say"), Line("wait", ""),
                              If(<<"c">>, <<Do("wave"), If(<<"d">>, <<Do("hum")>>, <<>>)>>,
                                          <<If(<<"d">>, <<Do("eat")>>, <<Do("sip")>>)>>),
                              Do("force_act")>>],
                  [trigger |-> "give",
                   text |-> <<If(<<"d">>, <<If(<<"c">>, <<Do("cry")>>, <<>>), Do("nap")>>, <<>>),
                              Line("wait", ""), Do("yawn")>>],
                  [trigger |-> "act_words",
                   text |-> <<Do("bark"), Line("wait", ""), Do("force_say"), Do("sit")>>]>>

\* A spell that helps and accumulates, one that harms for two durations, and one
\* that lasts no hour; and a ring that gives what the first one gives.
Effect(l, m, d, b) == [loc |-> l, mod |-> m, dur |-> d, bit |-> b]
SpellBook    == <<[type |-> "aid", effects |-> <<Effect("max_hit", 3, 1, "prot")>>, accum_dur |-> FALSE, accum_aff |-> TRUE],
                  [type |-> "weaken", effects |-> <<Effect("dex", -3, 1, "none"), Effect("max_hit", -1, 2, "none")>>,
                   accum_dur |-> TRUE, accum_aff |-> FALSE],
                  [type |-> "shell", effects |-> <<Effect("none", 0, 0, "anti_magic")>>, accum_dur |-> FALSE, accum_aff |-> FALSE]>>
RingOnly     == [ring |-> [mod |-> 1, bits |-> {"prot"}, anti |-> TRUE]]

Words        == {<<"a">>, <<"a", "b">>, <<"a", "c">>, <<"a", "b", "c">>, <<"b">>, <<"a", "b", "d">>}
TypedLines   == {<<"alias", "k", "look", ";", "k", "$1">>, <<"alias", "k", "edit", ";", "say", "$*">>,
                 <<"alias", "k", "sit">>, <<"k", "orc">>, <<"alias", "k">>, <<"!">>, <<"!", "k">>,
                 <<"^", "orc", "elf">>, <<"@">>}

\* An immortal's first level costs less than the level before, as in the tables.
Costs        == (0 :> 0) @@ (1 :> 1) @@ (2 :> 2) @@ (3 :> 5) @@ (4 :> 3) @@ (5 :> 7) @@ (6 :> 8)
Duels        == 2 :> 2
WinOrLose    == {-4, 4}

\* ann follows bob, who has a pet behind him.
Standing     == ("hall" :> <<"orc", "ann", "bob", "imp">>) @@ ("yard" :> <<"wiz">>)
Following    == ("ann" :> "bob") @@ ("imp" :> "bob")
Rod(t, spells, max) == [type |-> t, spells |-> spells, max |-> max]
MagicThings  == [page   |-> Rod("scroll", <<"chain", "disintegrate">>, 1),
                 flask  |-> Rod("potion", <<"boost", "disintegrate">>, 1),
                 wand   |-> Rod("wand", <<"transfer">>, 2),
                 staff  |-> Rod("staff", <<"disintegrate">>, 1),
                 figure |-> Rod("staff", <<"chain">>, 1),
                 corpse |-> Rod("corpse", <<>>, 1)]

WordsOfName  == ("puff" :> 1) @@ ("the orc" :> 2)

-----------------------------------------------------------------------------
realmVars == <<part, mailVars, boardVars, belongingsVars, houseVars, clanVars, editorVars,
               trackVars, zoneVars, rideVars, tableVars, menuVars, shopVars, keywordVars, progVars,
               affectVars, treeVars, lineVars, rankVars, fileVars, castVars, walkVars, copyVars>>

\* A component that rests starts in one of its initial states.
AtRest ==
  /\ IF part = "editor"   THEN TRUE ELSE texts = [h \in Homes |-> NoText]
  /\ IF part = "tracking" THEN TRUE
     ELSE /\ ways = CHOOSE m \in TrackWorlds : TRUE
          /\ hunter = CHOOSE r \in TrackRooms : TRUE
          /\ prey = hunter
  /\ IF part = "zones"    THEN TRUE ELSE walker_in = [p \in Walkers |-> CHOOSE r \in DOMAIN ZoneOf : TRUE]
  /\ IF part = "riding"   THEN TRUE ELSE rides_in = [c \in RideChars |-> Elsewhere]
  /\ IF part = "shops"    THEN TRUE ELSE shop_hour = CHOOSE h \in ShopHours : TRUE
  /\ IF part = "keywords" THEN TRUE ELSE /\ expr = CHOOSE e \in Expressions : TRUE
                                         /\ names = {}
  /\ IF part = "programs" THEN TRUE ELSE truth = [c \in Checks |-> 1]
  /\ IF part = "affects"  THEN TRUE ELSE is_npc = FALSE /\ evil = FALSE
  /\ IF part = "walks"    THEN TRUE ELSE bearer = "mortal"

RealmInit ==
  /\ part \in Parts /\ AtRest
  /\ MailInit /\ BoardsInit /\ BelongingsInit /\ HousesInit /\ ClansInit
  /\ TablesInit /\ MenusInit /\ CommandTreeInit /\ CommandLineInit /\ RanksInit
  /\ WorldFilesInit /\ CastingInit /\ EditorInit /\ TrackingInit /\ ZonesInit /\ RidingInit
  /\ ShopsInit /\ KeywordsInit /\ ProgsInit /\ AffectsInit /\ WalksInit /\ CopyoverInit

RealmNext ==
  /\ UNCHANGED part
  /\ IF part = "mail"       THEN MailNext       ELSE UNCHANGED mailVars
  /\ IF part = "boards"     THEN BoardsNext     ELSE UNCHANGED boardVars
  /\ IF part = "belongings" THEN BelongingsNext ELSE UNCHANGED belongingsVars
  /\ IF part = "houses"     THEN HousesNext     ELSE UNCHANGED houseVars
  /\ IF part = "clans"      THEN ClansNext      ELSE UNCHANGED clanVars
  /\ IF part = "editor"     THEN EditorNext     ELSE UNCHANGED editorVars
  /\ IF part = "tracking"   THEN TrackingNext   ELSE UNCHANGED trackVars
  /\ IF part = "zones"      THEN ZonesNext      ELSE UNCHANGED zoneVars
  /\ IF part = "riding"     THEN RidingNext     ELSE UNCHANGED rideVars
  /\ IF part = "tables"     THEN TablesNext     ELSE UNCHANGED tableVars
  /\ IF part = "menus"      THEN MenusNext      ELSE UNCHANGED menuVars
  /\ IF part = "shops"      THEN ShopsNext      ELSE UNCHANGED shopVars
  /\ IF part = "keywords"   THEN KeywordsNext   ELSE UNCHANGED keywordVars
  /\ IF part = "programs"   THEN ProgsNext      ELSE UNCHANGED progVars
  /\ IF part = "affects"    THEN AffectsNext    ELSE UNCHANGED affectVars
  /\ IF part = "commands"   THEN CommandTreeNext ELSE UNCHANGED treeVars
  /\ IF part = "lines"      THEN CommandLineNext ELSE UNCHANGED lineVars
  /\ IF part = "ranks"      THEN RanksNext      ELSE UNCHANGED rankVars
  /\ IF part = "files"      THEN WorldFilesNext ELSE UNCHANGED fileVars
  /\ IF part = "casting"    THEN CastingNext    ELSE UNCHANGED castVars
  /\ IF part = "walks"      THEN WalksNext      ELSE UNCHANGED walkVars
  /\ IF part = "copyover"   THEN CopyoverNext   ELSE UNCHANGED copyVars

RealmSpec == RealmInit /\ [][RealmNext]_realmVars

\* Every component's variables have their types: a component that rests is as at
\* its start, which its own part checks too.
RealmTypeOK ==
  /\ part = "mail"       => MailTypeOK
  /\ part = "boards"     => BoardsTypeOK
  /\ part = "belongings" => BelongingsTypeOK
  /\ part = "houses"     => HousesTypeOK
  /\ part = "clans"      => ClansTypeOK
  /\ part = "editor"     => EditorTypeOK
  /\ part = "tracking"   => TrackingTypeOK
  /\ part = "zones"      => ZonesTypeOK
  /\ part = "riding"     => RidingTypeOK
  /\ part = "tables"     => TablesTypeOK
  /\ part = "menus"      => MenusTypeOK
  /\ part = "shops"      => ShopsTypeOK
  /\ part = "keywords"   => KeywordsTypeOK
  /\ part = "programs"   => ProgsTypeOK
  /\ part = "affects"    => AffectsTypeOK
  /\ part = "commands"   => CommandTreeTypeOK
  /\ part = "lines"      => CommandLineTypeOK
  /\ part = "ranks"      => RanksTypeOK
  /\ part = "files"      => WorldFilesTypeOK
  /\ part = "casting"    => CastingTypeOK
  /\ part = "walks"      => WalksTypeOK
  /\ part = "copyover"   => CopyoverTypeOK

\* What a restart gives back is what there was: each player's belongings and each
\* house's (objsave.c, house.c), and whom and where everybody played when the
\* copyover kept his connection (act.wizard.c, do_copyover).
RestartsSound ==
  /\ [](part = "belongings" => BelongingsSound)
  /\ [](part = "houses" => HouseFlagsAgree)
  /\ ResumedAsPlayed

\* What is typed or written is what is done: the tree finds what the table says
\* (interpreter.c, find_command), the lines of a player are done in the order he
\* typed them (comm.c, process_input), and a mobile runs its program as it reads
\* (mobprog.c, mprog_process_cmnd).
CommandsSound ==
  /\ part = "commands" => SearchFinds
  /\ part = "lines"    => LinesInOrder
  /\ part = "programs" => ProgramsAsWritten

=============================================================================
