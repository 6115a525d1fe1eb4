------------------------------- MODULE Editors -------------------------------
(***************************************************************************)
(* What the online editors owe to the rest of the program, in the menus    *)
(* that change a copy and in the tables that the copies go into.           *)
(***************************************************************************)
EXTENDS WorldTables, OlcMenus

\* What the editors keep beside their copies is right: the numbers that the rest of
\* the program holds into the tables they insert into (redit.c, medit.c, oedit.c,
\* zedit.c), and the mark that decides whether a change is asked about.
EditorsSound == TablesSound /\ MenusSound
=============================================================================
