------------------------------ MODULE OlcMenus ------------------------------
(***************************************************************************)
(* The menus of the online editors: redit_parse, medit_parse, oedit_parse, *)
(* zedit_parse, sedit_parse, gedit_parse, the menus they display (which    *)
(* set the mode), and the way back from the string editor (modify.c).  A   *)
(* builder works on a copy.  An editor keeps one mark that something was   *)
(* changed: OLC_VAL, which redit, oedit and sedit also use to remember a   *)
(* direction or an index, and in zedit the fields age and number.          *)
(***************************************************************************)
EXTENDS Integers, Sequences, FiniteSets, SequencesExt

CONSTANTS
  OlcEditors,     \* the editors in use, of {"redit", "medit", "oedit", "zedit", "sedit", "gedit"}
  MaxDescs,       \* extra descriptions of one room or object
  MaxCmds         \* reset commands of one room

ASSUME MenusAssumption ==
  /\ OlcEditors \subseteq {"redit", "medit", "oedit", "zedit", "sedit", "gedit"}
  /\ MaxDescs \in Nat /\ MaxCmds \in Nat

VARIABLES
  editor,         \* the editor a builder is in, or "none"
  mode, last_mode,   \* OLC_MODE, OLC_LAST
  readonly,       \* OLC_READONLY
  marked,         \* OLC_VAL # 0; for zedit: age or number # 0
  changed,        \* what the copy has been changed by, of Changes
  descs, desc_at, \* extra descriptions as [key, text]; the place of OLC_DESC
  cmds, cmd_at    \* reset commands, each of CmdStates; OLC_VAL of zedit

menuVars == <<editor, mode, last_mode, readonly, marked, changed, descs, desc_at, cmds, cmd_at>>
olcData == <<descs, desc_at, cmds, cmd_at>>

\* What an answer to a menu does.  "look": nothing.  "mark": it falls out of
\* the switch, and the mark is set.  "store": a change and the mark.  "index":
\* OLC_VAL remembers a number that may be 0.  The others change the copy and
\* leave the mark alone.
Changes == {"store", "write", "values", "mob_desc", "guild_type"}
Effects == Changes \union {"look", "mark", "index"}

\* Answers as <<mode, next mode, effect>>.
From(m, next, e) == {<<m, n, e>> : n \in next}
BackTo(ms, m, e) == {<<n, m, e>> : n \in ms}
Toggles(ms) == {<<m, m, "write">> : m \in ms} \union {<<m, m, "look">> : m \in ms} \union BackTo(ms, "main", "mark")

-----------------------------------------------------------------------------
\* redit_parse.  The menus are displayed by functions that set the mode, the
\* prompts are printed by the parser.
ReditMenus == {"extradesc", "flags", "sector", "room_affect", "main"}
ReditTeleMenus == {"tele", "tele_flags"}
ReditMain ==
  From("main", ReditMenus \union {"tele", "name", "spec_proc"}, "look")
  \union {<<"main", "desc", "mark">>, <<"main", "exit", "index">>}
ReditFields ==
  BackTo({"name", "sector", "spec_proc"}, "main", "store") \union BackTo({"sector", "spec_proc"}, "main", "mark")
  \union {<<"sector", "sector", "look">>} \union Toggles({"flags", "room_affect"})
  \union {<<"desc", "main", "write">>, <<"desc", "main", "look">>}
ReditExits ==
  From("exit", {"to_room", "keyword", "key", "doorflags", "exit_desc", "exit"}, "look")
  \union {<<"exit", "main", "mark">>, <<"exit", "main", "store">>}
  \union BackTo({"to_room", "keyword", "key", "doorflags", "exit_desc"}, "exit", "write")
  \union {<<"to_room", "to_room", "look">>, <<"doorflags", "doorflags", "look">>, <<"exit_desc", "exit", "look">>}
ReditTeleport ==
  From("tele", (ReditTeleMenus \ {"tele"}) \union {"tele_target", "tele_freq", "tele_obj"}, "look")
  \union {<<"tele", "main", "mark">>}
  \union BackTo({"tele_target", "tele_freq", "tele_obj"}, "tele", "write")
  \union {<<m, m, "look">> : m \in {"tele_target", "tele_freq", "tele_obj"}}
  \union {<<"tele_flags", "tele_flags", "write">>, <<"tele_flags", "tele", "look">>}

\* medit_parse; the description goes to the string editor without the mark
MeditMenus == {"sex", "npc_flags", "aff_flags", "main"}
MeditProgMenus == {"mprog", "mprog_type"}
MeditMain ==
  From("main", MeditMenus \union {"text", "number", "mprog", "spec_proc", "d_desc"}, "look")
MeditFields ==
  BackTo({"sex", "text", "number", "spec_proc"}, "main", "store") \union {<<"spec_proc", "main", "mark">>}
  \union {<<"number", "number", "look">>} \union Toggles({"npc_flags", "aff_flags"})
  \union {<<"d_desc", "main", "mob_desc">>, <<"d_desc", "main", "look">>}
MeditProgs ==
  {<<"mprog", "main", "look">>, <<"mprog", "main", "mark">>, <<"mprog", "mprog", "store">>}
  \union From("mprog", (MeditProgMenus \ {"mprog"}) \union {"mprog_arg", "mprog_cmds"}, "mark")
  \union BackTo({"mprog_type", "mprog_arg", "mprog_cmds"}, "mprog", "write")
  \union {<<"mprog_type", "mprog_type", "look">>, <<"mprog_cmds", "mprog", "look">>}

\* oedit_parse; which values are asked for depends on the type of the object,
\* and after the last but the fourth comes the main menu, without the mark
OeditMenus == {"type", "extras", "wear", "aff_flags", "main"}
OeditListMenus == {"prompt_apply", "extradesc"}
OeditValueMenus == {"value_1", "value_2", "value_3", "value_4"}
OeditMain ==
  From("main", OeditMenus \union OeditListMenus \union {"text", "number", "bottom_lev", "spec_proc"}, "look")
  \union {<<"main", "action_desc", "mark">>, <<"main", "value_1", "values">>, <<"main", "main", "values">>}
OeditFields ==
  BackTo({"text", "number", "type", "top_lev", "spec_proc"}, "main", "store") \union BackTo({"type", "spec_proc"}, "main", "mark")
  \union {<<"type", "type", "look">>, <<"bottom_lev", "top_lev", "write">>}
  \union Toggles({"extras", "wear", "aff_flags"})
  \union {<<"action_desc", "main", "write">>, <<"action_desc", "main", "look">>}
OeditValues ==
  {<<"value_1", "value_2", "values">>, <<"value_2", "value_2", "values">>, <<"value_2", "value_2", "look">>,
   <<"value_2", "value_3", "values">>, <<"value_3", "value_4", "values">>, <<"value_4", "main", "store">>}
  \union BackTo(OeditValueMenus \ {"value_4"}, "main", "values")
OeditApplies ==
  {<<"prompt_apply", "main", "mark">>, <<"prompt_apply", "prompt_apply", "look">>, <<"prompt_apply", "apply", "index">>,
   <<"apply", "prompt_apply", "write">>, <<"apply", "apply", "look">>, <<"apply", "apply_mod", "write">>,
   <<"apply_mod", "prompt_apply", "write">>}

\* sedit_parse
SeditListMenus == {"rooms", "products", "namelist"}
SeditFlagMenus == {"notrade", "shop_flags"}
SeditMain ==
  From("main", SeditListMenus \union SeditFlagMenus \union {"keeper", "number", "text", "main"}, "look")
SeditFields ==
  BackTo({"keeper", "number", "text"}, "main", "store") \union {<<"keeper", "keeper", "look">>, <<"number", "number", "look">>}
  \union {<<m, m, "write">> : m \in SeditFlagMenus} \union BackTo(SeditFlagMenus, "main", "mark")
SeditLists ==
  From("rooms", {"new_rooms", "delete_rooms"}, "look") \union BackTo({"new_rooms", "delete_rooms"}, "rooms", "write")
  \union From("products", {"new_products", "delete_products"}, "look")
  \union BackTo({"new_products", "delete_products"}, "products", "write")
  \union BackTo(SeditListMenus, "main", "mark")
  \union {<<"rooms", "rooms", "look">>, <<"new_rooms", "new_rooms", "look">>, <<"new_products", "new_products", "look">>}
  \union From("namelist", {"type_menu", "delete_type"}, "look")
  \union {<<"type_menu", "type_word", "index">>, <<"type_word", "namelist", "write">>, <<"delete_type", "namelist", "write">>}

\* gedit_parse; the type of the guild is changed without the mark
GeditMenus == {"notrain", "spells", "skills"}
GeditRows ==
  From("main", GeditMenus \union {"trainer", "text", "number", "main"}, "look")
  \union {<<"main", "main", "guild_type">>, <<"trainer", "trainer", "look">>}
  \union BackTo({"trainer", "text", "number"}, "main", "store") \union Toggles(GeditMenus)

\* zedit_parse, what is not about commands; the flags of a zone are not
\* changed, only marked
ZeditRows ==
  From("main", {"text", "number", "master_mob", "zon_flags", "new_entry", "change_entry", "delete_entry", "main"}, "look")
  \union BackTo({"text", "number", "master_mob"}, "main", "store")
  \union {<<"number", "number", "look">>, <<"master_mob", "master_mob", "look">>,
          <<"zon_flags", "zon_flags", "mark">>, <<"zon_flags", "main", "look">>}

Rows ==
  [e \in OlcEditors |->
     CASE e = "redit" -> ReditMain \union ReditFields \union ReditExits \union ReditTeleport
       [] e = "medit" -> MeditMain \union MeditFields \union MeditProgs
       [] e = "oedit" -> OeditMain \union OeditFields \union OeditValues \union OeditApplies
       [] e = "sedit" -> SeditMain \union SeditFields \union SeditLists
       [] e = "gedit" -> GeditRows
       [] e = "zedit" -> ZeditRows]
TextModes == {"desc", "exit_desc", "d_desc", "mprog_cmds", "action_desc", "desc_text"}

-----------------------------------------------------------------------------
Whole(d) == d.key /\ d.text
DescLists == {<<>>, <<[key |-> TRUE, text |-> TRUE]>>, <<[key |-> TRUE, text |-> TRUE], [key |-> TRUE, text |-> TRUE]>>}
MenusInit ==
  /\ editor = "none" /\ mode = "main" /\ last_mode = "main" /\ readonly = FALSE /\ marked = FALSE
  /\ changed = {} /\ descs = <<>> /\ desc_at = 0 /\ cmds = <<>> /\ cmd_at = 0

\* A builder who may look at the zone but not edit it works read-only.
do_olc(e, ro) ==
  /\ editor = "none" /\ editor' = e /\ readonly' = ro
  /\ mode' = "main" /\ last_mode' = "main" /\ marked' = FALSE /\ changed' = {} /\ desc_at' = 0 /\ cmd_at' = 0
  /\ descs' \in IF e \in {"redit", "oedit"} THEN DescLists ELSE {<<>>}
  /\ cmds' \in IF e = "zedit" THEN {<<>>, <<"whole">>} ELSE {<<>>}
cleanup_olc ==
  /\ editor' = "none" /\ mode' = "main" /\ last_mode' = "main" /\ readonly' = FALSE /\ marked' = FALSE
  /\ changed' = {} /\ descs' = <<>> /\ desc_at' = 0 /\ cmds' = <<>> /\ cmd_at' = 0

\* One answer to a menu, or the text that comes back from the string editor.
Marks(e) == IF e \in {"mark", "store"} THEN {TRUE} ELSE IF e = "index" THEN BOOLEAN ELSE {marked}
olc_parse(row) ==
  /\ editor # "none" /\ mode = row[1] /\ mode' = row[2]
  /\ marked' \in Marks(row[3])
  /\ changed' = changed \union ({row[3]} \intersect Changes)
  /\ IF row[2] = "extradesc"
     THEN descs' = (IF descs = <<>> THEN <<[key |-> FALSE, text |-> FALSE]>> ELSE descs) /\ desc_at' = 1
     ELSE UNCHANGED <<descs, desc_at>>
  /\ UNCHANGED <<editor, last_mode, readonly, cmds, cmd_at>>

olc_quit ==
  /\ editor # "none" /\ mode = "main"
  /\ IF ~readonly /\ marked
     THEN mode' = "confirm" /\ UNCHANGED <<editor, last_mode, readonly, marked, changed, olcData>>
     ELSE cleanup_olc
olc_confirm(yes) ==      \* y or n; any other answer asks again
  /\ editor # "none" /\ mode = "confirm" /\ yes \in BOOLEAN
  /\ cleanup_olc
\* "?" and a topic leads to the help from any mode, an empty line back; asked for
\* in the help itself, it leads nowhere but to the help.
olc_help ==
  /\ editor \notin {"none", "gedit"} /\ mode \notin TextModes
  /\ mode' = "help" /\ last_mode' = mode
  /\ UNCHANGED <<editor, readonly, marked, changed, olcData>>
olc_help_over ==
  /\ editor # "none" /\ mode = "help" /\ mode' = last_mode
  /\ last_mode' = IF last_mode = "help" THEN "help" ELSE "main"
  /\ UNCHANGED <<editor, readonly, marked, changed, olcData>>

-----------------------------------------------------------------------------
\* Extra descriptions, in redit and oedit.
InDescs == editor \in {"redit", "oedit"} /\ mode = "extradesc"
extradesc_field(f) ==
  /\ InDescs /\ mode' = IF f = "key" THEN "desc_key" ELSE "desc_text"
  /\ marked' = (marked \/ (editor = "oedit" /\ f = "text"))
  /\ UNCHANGED <<editor, last_mode, readonly, changed, olcData>>
extradesc_key ==
  /\ mode = "desc_key" /\ mode' = "extradesc"
  /\ descs' = [descs EXCEPT ![desc_at].key = TRUE] /\ changed' = changed \union {"write"}
  /\ UNCHANGED <<editor, last_mode, readonly, marked, desc_at, cmds, cmd_at>>
\* An empty text becomes NULL; an aborted one is as it was.
extradesc_text(full) ==
  /\ mode = "desc_text" /\ mode' = "extradesc"
  /\ descs' = [descs EXCEPT ![desc_at].text = full] /\ changed' = changed \union {"write"}
  /\ UNCHANGED <<editor, last_mode, readonly, marked, desc_at, cmds, cmd_at>>
extradesc_next ==
  /\ InDescs /\ Whole(descs[desc_at]) /\ desc_at < MaxDescs
  /\ desc_at' = desc_at + 1
  /\ descs' = IF desc_at = Len(descs) THEN Append(descs, [key |-> FALSE, text |-> FALSE]) ELSE descs
  /\ UNCHANGED <<editor, mode, last_mode, readonly, marked, changed, cmds, cmd_at>>
\* bug: an unfinished description stays in the list.
extradesc_doneAsIs ==
  /\ InDescs /\ mode' = "main" /\ marked' = TRUE
  /\ UNCHANGED <<editor, last_mode, readonly, changed, olcData>>
\* What was left out is taken away, with all that follows it.
extradesc_done ==
  /\ InDescs /\ mode' = "main" /\ marked' = TRUE
  /\ descs' = IF Whole(descs[desc_at]) THEN descs ELSE SubSeq(descs, 1, desc_at - 1)
  /\ desc_at' = 0
  /\ UNCHANGED <<editor, last_mode, readonly, changed, cmds, cmd_at>>
\* Any other answer: redit falls out of the switch, oedit shows the menu.
extradesc_other ==
  /\ InDescs /\ editor = "redit" /\ mode' = "main" /\ marked' = TRUE /\ desc_at' = 0
  /\ UNCHANGED <<editor, last_mode, readonly, changed, descs, cmds, cmd_at>>

\* Reset commands.  "blank": of type 'N'; "half": with a type, without its
\* arguments.
CmdStates == {"whole", "blank", "half"}
ZoneCmd(m) == editor = "zedit" /\ mode = m
new_command(pos) ==
  /\ ZoneCmd("new_entry") /\ Len(cmds) < MaxCmds /\ pos \in 0..Len(cmds)
  /\ cmds' = InsertAt(cmds, pos + 1, "blank") /\ cmd_at' = pos
  /\ mode' = "command_type" /\ marked' = TRUE /\ changed' = changed \union {"write"}
  /\ UNCHANGED <<editor, last_mode, readonly, descs, desc_at>>
start_change_command(pos) ==
  /\ ZoneCmd("change_entry") /\ pos \in 0..(Len(cmds) - 1)
  /\ cmd_at' = pos /\ mode' = "command_type" /\ marked' = TRUE
  /\ UNCHANGED <<editor, last_mode, readonly, changed, descs, desc_at, cmds>>
delete_command(pos) ==
  /\ ZoneCmd("delete_entry") /\ pos \in 0..Len(cmds)
  /\ cmds' = IF pos < Len(cmds) THEN RemoveAt(cmds, pos + 1) ELSE cmds
  /\ mode' = "main" /\ marked' = TRUE /\ changed' = IF pos < Len(cmds) THEN changed \union {"write"} ELSE changed
  /\ UNCHANGED <<editor, last_mode, readonly, descs, desc_at, cmd_at>>
no_such_command ==
  /\ editor = "zedit" /\ mode \in {"new_entry", "change_entry", "delete_entry"} /\ mode' = "main"
  /\ UNCHANGED <<editor, last_mode, readonly, marked, changed, olcData>>
\* A letter that is no type makes the command blank, whatever it was; "Q" takes
\* a blank one away.
command_type(c) ==
  /\ ZoneCmd("command_type")
  /\ cmds' = [cmds EXCEPT ![cmd_at + 1] = c]
  /\ \/ c = "blank" /\ UNCHANGED mode
     \/ c = "half" /\ mode' \in IF cmd_at > 0 THEN {"if_flag"} ELSE {"arg1", "arg2"}
  /\ changed' = changed \union {"write"}
  /\ UNCHANGED <<editor, last_mode, readonly, marked, descs, desc_at, cmd_at>>
command_type_quit ==
  /\ ZoneCmd("command_type") /\ mode' = "main"
  /\ cmds' = IF cmds[cmd_at + 1] = "blank" THEN RemoveAt(cmds, cmd_at + 1) ELSE cmds
  /\ UNCHANGED <<editor, last_mode, readonly, marked, changed, descs, desc_at, cmd_at>>
\* The arguments: 'D' and 'R' begin with the second, 'M', 'O', 'G', 'R' end
\* with it.  An answer that does not fit is asked for again.
command_arg(m, next) ==
  /\ editor = "zedit" /\ mode = m
  /\ <<m, next>> \in {<<"if_flag", "arg1">>, <<"if_flag", "arg2">>, <<"arg1", "arg2">>,
                      <<"arg2", "arg3">>, <<"arg2", "main">>, <<"arg3", "main">>}
  /\ mode' = next
  /\ cmds' = IF next = "main" THEN [cmds EXCEPT ![cmd_at + 1] = "whole"] ELSE cmds
  /\ UNCHANGED <<editor, last_mode, readonly, marked, changed, descs, desc_at, cmd_at>>

MenusNext ==
  \/ \E e \in OlcEditors, ro \in BOOLEAN : do_olc(e, ro)
  \/ \E row \in UNION {Rows[e] : e \in OlcEditors \intersect {editor}} : olc_parse(row)
  \/ olc_quit \/ \E yes \in BOOLEAN : olc_confirm(yes)
  \/ olc_help \/ olc_help_over
  \/ \E f \in {"key", "text"} : extradesc_field(f)
  \/ extradesc_key \/ \E full \in BOOLEAN : extradesc_text(full)
  \/ extradesc_next \/ extradesc_done \/ extradesc_other
  \/ \E pos \in 0..MaxCmds : new_command(pos) \/ start_change_command(pos) \/ delete_command(pos)
  \/ no_such_command \/ command_type_quit
  \/ \E c \in {"blank", "half"} : command_type(c)
  \/ \E m \in {"if_flag", "arg1", "arg2", "arg3"}, next \in {"arg1", "arg2", "arg3", "main"} : command_arg(m, next)
MenusSpec == MenusInit /\ [][MenusNext]_menuVars

-----------------------------------------------------------------------------
MenusTypeOK ==
  /\ editor \in OlcEditors \union {"none"} /\ readonly \in BOOLEAN /\ marked \in BOOLEAN
  /\ changed \subseteq Changes /\ desc_at \in 0..Len(descs)
  /\ cmds \in Seq(CmdStates) /\ cmd_at \in 0..MaxCmds

\* A builder is asked before a change is thrown away: whoever is back in the
\* main menu with a changed copy finds the mark set, although OLC_VAL was used
\* in between for directions and indices.  Four changes are known not to set
\* it: values of objects, a mobile's description, the type of a guild.
ChangesAreMarked == mode = "main" /\ changed \intersect {"store", "write"} # {} => marked

\* What can be saved is finished: in the main menu no reset command is blank
\* or without its arguments, and no extra description of an object lacks its
\* keyword or text.
CommandsWhole == mode \in {"main", "confirm"} => \A i \in DOMAIN cmds : cmds[i] = "whole"
DescsWhole == editor = "oedit" /\ mode \in {"main", "confirm"} => \A i \in DOMAIN descs : Whole(descs[i])
MenusSound == ChangesAreMarked /\ CommandsWhole /\ DescsWhole
=============================================================================
