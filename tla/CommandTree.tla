----------------------------- MODULE CommandTree -----------------------------
(***************************************************************************)
(* The search of a typed word among the commands (interpreter.c 949-1069): *)
(* at the boot a tree of letters is built from the table of the commands,  *)
(* each of its nodes with the first command of those letters and the       *)
(* lowest level of all of them.                                            *)
(***************************************************************************)
EXTENDS Integers, Sequences, SequencesExt, FiniteSetsExt, TLC

CONSTANTS
  Verbs,        \* names of commands: sequences of letters
  CmdLevels,    \* levels of commands and of players
  MaxCommands   \* bound on the table

VARIABLES
  cmd_info,     \* the commands already in the tree, [name, level], in order
  cmd_tree      \* the letters of a node -> [cmd_index, min_level, letter_string]

treeVars == <<cmd_info, cmd_tree>>

CmdNode(cmd, level) == [cmd_index |-> cmd, min_level |-> level, letter_string |-> <<>>]

CommandTreeInit == cmd_info = <<>> /\ cmd_tree = (<<>> :> CmdNode(-1, 0))

-----------------------------------------------------------------------------
\* A node that is there takes the lower level; a letter that is not goes behind
\* those of its directory.
add_cmd(name, level) ==
  LET new   == Prefixes(name) \ DOMAIN cmd_tree
      cmd   == Len(cmd_info) + 1
      old   == [p \in DOMAIN cmd_tree \cap Prefixes(name) |->
                 [cmd_tree[p] EXCEPT !.min_level = IF p # <<>> /\ @ > level THEN level ELSE @]]
      grown == old @@ [p \in new |-> CmdNode(cmd, level)]
  IN /\ cmd_info' = Append(cmd_info, [name |-> name, level |-> level])
     /\ cmd_tree' = [p \in Prefixes(name) |->
                      [grown[p] EXCEPT !.letter_string =
                         IF \E c \in new : Len(c) = Len(p) + 1 THEN Append(@, name[Len(p) + 1]) ELSE @]]
                    @@ cmd_tree

CommandTreeNext == \E n \in Verbs, l \in CmdLevels : Len(cmd_info) < MaxCommands /\ add_cmd(n, l)
CommandTreeSpec == CommandTreeInit /\ [][CommandTreeNext]_treeVars

-----------------------------------------------------------------------------
CMD_LEVEL(cmd) == cmd_info[cmd].level

\* First the commands of a directory, then those of the directories under it.
RECURSIVE find_command_level(_, _)
find_command_level(dir, level) ==
  LET letters == cmd_tree[dir].letter_string
      firsts  == SelectSeq([i \in DOMAIN letters |-> cmd_tree[Append(dir, letters[i])].cmd_index],
                           LAMBDA cmd : CMD_LEVEL(cmd) <= level)
      deeper  == SelectSeq([i \in DOMAIN letters |-> find_command_level(Append(dir, letters[i]), level)],
                           LAMBDA r : r >= 0)
  IN IF firsts # <<>> THEN Head(firsts) ELSE IF deeper # <<>> THEN Head(deeper) ELSE -1

tree_cmd_search(s, level) ==
  IF s = <<>> \/ s \notin DOMAIN cmd_tree THEN -1
  ELSE IF \E p \in Prefixes(s) \ {<<>>} : cmd_tree[p].min_level > level THEN -1
  ELSE IF CMD_LEVEL(cmd_tree[s].cmd_index) <= level THEN cmd_tree[s].cmd_index
  ELSE find_command_level(s, level)

-----------------------------------------------------------------------------
CommandTreeTypeOK ==
  /\ cmd_info \in Seq([name : Verbs, level : CmdLevels]) /\ <<>> \in DOMAIN cmd_tree
  /\ \A p \in DOMAIN cmd_tree \ {<<>>} :
       /\ cmd_tree[p].cmd_index \in DOMAIN cmd_info /\ cmd_tree[p].min_level \in CmdLevels

\* The search that the tree replaces (interpreter.c 1126-1132): the first command
\* of the table that begins with the word and that the player may use.
Usable(s, level) ==
  {cmd \in DOMAIN cmd_info : IsPrefix(s, cmd_info[cmd].name) /\ CMD_LEVEL(cmd) <= level}

\* A command whose name begins an earlier, higher one's has no node of its own.
Hidden(cmd, level) ==
  \E c \in 1..(cmd - 1) : IsPrefix(cmd_info[cmd].name, cmd_info[c].name) /\ CMD_LEVEL(c) > level

\* Whatever the tree finds begins with the word and is for the player's level;
\* it is the first of the table whenever the first with these letters is usable
\* at all; and it finds something unless all that is usable is hidden behind
\* earlier commands of a higher level (tree_cmd_search, interpreter.c 1039-1069).
SearchFinds ==
  \A s \in UNION {Prefixes(n) : n \in Verbs} \ {<<>>}, level \in CmdLevels :
    LET found  == tree_cmd_search(s, level)
        usable == Usable(s, level)
        all    == Usable(s, Max(CmdLevels))
    IN /\ found # -1 => found \in usable
       /\ all # {} /\ Min(all) \in usable => found = Min(all)
       /\ found = -1 => \A cmd \in usable : Hidden(cmd, level)
=============================================================================
