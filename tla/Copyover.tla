------------------------------ MODULE Copyover ------------------------------
(***************************************************************************)
(* The restart that keeps connections (act.wizard.c, do_copyover; comm.c,  *)
(* copyover_recover; interpreter.c, enter_player_game): the old process    *)
(* writes for each connection that plays the name and the room of whom it  *)
(* plays, the new one reads them, loads the player of that name and puts   *)
(* him into that room.  Who plays what is in Sessions in all its cases;    *)
(* belongings are in Belongings.                                           *)
(***************************************************************************)
EXTENDS Naturals, Sequences, SequencesExt

CONSTANTS
  Hands,          \* players, each with one connection
  Switchers,      \* those who may switch into mobiles, and into players
  Puppets,        \* mobiles
  Worded,         \* Worded[m]: how many words the name of m has
  HandRooms, UnsavedRooms,     \* rooms, and those of them that are in no file
  StartRoom, FrozenRoom, FrozenHands,
  MaxProgress        \* bound on what a player does

VARIABLES
  link,           \* link[p]: "none", "menu" (any state before the game), "playing",
                  \* "editing" (a state of an editor)
  body,           \* body[p]: whom the connection of p plays
  conns,          \* descriptor_list, the newest first
  where,          \* where[p]: the room of p's character, or OutOfGame
  deeds, record,  \* how far p has come, in memory and in the player file
  copyover_file,  \* what is left to read of COPYOVER_FILE
  process,        \* "running", "recovering", or "hung" in copyover_recover
  was, broken     \* history: how it was at the last copyover, and whose socket broke then

copyVars == <<link, body, conns, where, deeds, record, copyover_file, process, was, broken>>

OutOfGame == "out"
Plays(p) == link[p] = "playing"
Linkless(c) == where[c] # OutOfGame /\ \A p \in Hands : link[p] = "none" \/ body[p] # c
Running == process = "running" /\ UNCHANGED <<copyover_file, process, was, broken>>
NoneBefore == [link |-> [p \in Hands |-> "none"], body |-> [p \in Hands |-> p],
           where |-> [p \in Hands |-> OutOfGame], deeds |-> [p \in Hands |-> 0]]

CopyoverInit ==
  /\ link = [p \in Hands |-> "none"] /\ body = [p \in Hands |-> p] /\ conns = <<>>
  /\ where = [p \in Hands |-> OutOfGame] /\ deeds = [p \in Hands |-> 0] /\ record = deeds
  /\ copyover_file = <<>> /\ process = "running" /\ was = NoneBefore /\ broken = {}

-----------------------------------------------------------------------------
\* A new connection: back into a body without one, or to the menu.
log_in(p) ==
  /\ Running /\ link[p] = "none" /\ (where[p] = OutOfGame \/ Linkless(p))
  /\ link' = [link EXCEPT ![p] = IF where[p] = OutOfGame THEN "menu" ELSE "playing"]
  /\ conns' = <<p>> \o conns
  /\ UNCHANGED <<body, where, deeds, record>>

\* enter_player_game: the room is the one asked for, if the files have it.
EntryRoom(p, room) ==
  IF p \in FrozenHands THEN FrozenRoom ELSE IF room \in UnsavedRooms THEN StartRoom ELSE room
enter_game(p) ==
  /\ Running /\ link[p] = "menu" /\ link' = [link EXCEPT ![p] = "playing"]
  /\ where' = [where EXCEPT ![p] = EntryRoom(p, StartRoom)]
  /\ UNCHANGED <<body, conns, deeds, record>>

\* A character in the game comes further, also without a connection.  Bound: MaxProgress.
come_further(c) ==
  /\ Running /\ where[c] # OutOfGame /\ deeds[c] < MaxProgress
  /\ deeds' = [deeds EXCEPT ![c] = @ + 1] /\ UNCHANGED <<link, body, conns, where, record>>
go_to(c, r) ==
  /\ Running /\ where[c] \notin {OutOfGame, r} /\ where' = [where EXCEPT ![c] = r]
  /\ UNCHANGED <<link, body, conns, deeds, record>>

\* save_char: of a player with a connection only.
OnRecord(c) == IF c \in Hands THEN [record EXCEPT ![c] = deeds[c]] ELSE record
save_self(p) ==
  /\ Running /\ Plays(p) /\ record' = OnRecord(body[p]) /\ UNCHANGED <<link, body, conns, where, deeds>>
do_quit(p) ==
  /\ Running /\ Plays(p) /\ body[p] = p
  /\ record' = OnRecord(p) /\ where' = [where EXCEPT ![p] = OutOfGame]
  /\ link' = [link EXCEPT ![p] = "menu"] /\ UNCHANGED <<body, conns, deeds>>

do_switch(p, c) ==
  /\ Running /\ p \in Switchers /\ Plays(p) /\ body[p] = p
  /\ \/ c \in Puppets /\ \A q \in Hands : body[q] # c
     \/ c \in Hands /\ Linkless(c)
  /\ body' = [body EXCEPT ![p] = c] /\ UNCHANGED <<link, conns, where, deeds, record>>
do_return(p) ==
  /\ Running /\ body[p] # p /\ body' = [body EXCEPT ![p] = p]
  /\ UNCHANGED <<link, conns, where, deeds, record>>
begin_edit(p) ==
  /\ Running /\ Plays(p) /\ body[p] = p /\ link' = [link EXCEPT ![p] = "editing"]
  /\ UNCHANGED <<body, conns, where, deeds, record>>
end_edit(p) ==
  /\ Running /\ link[p] = "editing" /\ link' = [link EXCEPT ![p] = "playing"]
  /\ UNCHANGED <<body, conns, where, deeds, record>>

\* close_socket: whoever plays or edits is saved.
lose_link(p) ==
  /\ Running /\ link[p] # "none"
  /\ record' = IF link[p] = "menu" THEN record ELSE OnRecord(body[p])
  /\ link' = [link EXCEPT ![p] = "none"] /\ body' = [body EXCEPT ![p] = p]
  /\ conns' = SelectSeq(conns, LAMBDA q : q # p)
  /\ UNCHANGED <<where, deeds>>

-----------------------------------------------------------------------------
\* Everyone who plays is written to the file and saved, everyone else is closed.
\* bug: whoever is in an editor is closed without being saved.
AllSavedPlayingOnly ==
  [c \in Hands |-> IF \E p \in Hands : link[p] = "playing" /\ body[p] = c THEN deeds[c] ELSE record[c]]
AllSaved ==
  [c \in Hands |-> IF \E p \in Hands : link[p] \in {"playing", "editing"} /\ body[p] = c THEN deeds[c]
                   ELSE record[c]]
RoomOf(c) == IF c \in Hands THEN where[c] ELSE StartRoom
do_copyover(p) ==
  LET kept == SelectSeq(conns, Plays)
  IN /\ process = "running" /\ Plays(p) /\ process' = "recovering"
     /\ was' = [link |-> link, body |-> body, where |-> where, deeds |-> deeds] /\ broken' = {}
     /\ record' = AllSaved
     /\ copyover_file' = [i \in DOMAIN kept |-> [by |-> kept[i], name |-> body[kept[i]], room |-> RoomOf(body[kept[i]])]]
     /\ link' = [q \in Hands |-> "none"] /\ body' = [q \in Hands |-> q] /\ conns' = <<>>
     /\ where' = [q \in Hands |-> OutOfGame] /\ deeds' = AllSaved

\* One line of the file.  A name of several words does not match the format: the
\* rest of it is never read past.  A line of somebody else than a player, and one
\* whose socket is broken, is skipped.
copyover_recover ==
  LET e == Head(copyover_file)
  IN /\ process = "recovering" /\ copyover_file # <<>> /\ UNCHANGED <<was, record, deeds, body>>
     /\ \/ e.name \in Puppets /\ Worded[e.name] > 1 /\ process' = "hung"
           /\ UNCHANGED <<link, conns, where, copyover_file, broken>>
        \/ e.name \in Puppets /\ Worded[e.name] = 1 /\ copyover_file' = Tail(copyover_file)
           /\ UNCHANGED <<link, conns, where, process, broken>>
        \/ e.name \in Hands /\ broken' = broken \union {e.by} /\ copyover_file' = Tail(copyover_file)
           /\ UNCHANGED <<link, conns, where, process>>
        \/ /\ e.name \in Hands /\ copyover_file' = Tail(copyover_file)
           /\ link' = [link EXCEPT ![e.name] = "playing"] /\ conns' = <<e.name>> \o conns
           /\ where' = [where EXCEPT ![e.name] = EntryRoom(e.name, e.room)]
           /\ UNCHANGED <<process, broken>>
recovered ==
  /\ process = "recovering" /\ copyover_file = <<>> /\ process' = "running"
  /\ was' = NoneBefore /\ broken' = {}
  /\ UNCHANGED <<link, body, conns, where, deeds, record, copyover_file>>

CopyoverNext ==
  \/ \E p \in Hands :
       \/ log_in(p) \/ enter_game(p) \/ come_further(p) \/ save_self(p) \/ do_quit(p) \/ do_return(p)
       \/ begin_edit(p) \/ end_edit(p) \/ lose_link(p) \/ do_copyover(p)
       \/ \E r \in HandRooms : go_to(p, r)
       \/ \E c \in Puppets \union Hands : do_switch(p, c)
  \/ copyover_recover \/ recovered
CopyoverSpec == CopyoverInit /\ [][CopyoverNext]_copyVars

-----------------------------------------------------------------------------
CopyoverTypeOK ==
  /\ link \in [Hands -> {"none", "menu", "playing", "editing"}] /\ body \in [Hands -> Hands \union Puppets]
  /\ where \in [Hands -> HandRooms \union {OutOfGame}] /\ conns \in Seq(Hands)
  /\ \A p \in Hands : deeds[p] \in 0..MaxProgress /\ record[p] \in 0..deeds[p]
  /\ process \in {"running", "recovering", "hung"} /\ broken \subseteq Hands

\* After a copyover everybody who played in his own body plays where he was, as
\* far as he had come, unless his socket broke: then he is out of the game, and
\* nothing of it is lost.  So it is with whoever edited.  Nobody else is in the
\* game, but for those without a connection whom somebody else played: they have
\* his connection now.  And the new process comes up, unless the copyover caught
\* somebody in the body of a mobile with a name of several words
\* (copyover_recover, "%d %s %d %s").
ResumedAsPlayed ==
  [][/\ process = "recovering" /\ process' = "running" =>
          \A p \in Hands :
            LET own == was.link[p] = "playing" /\ was.body[p] = p
                lent == {q \in Hands : q # p /\ was.link[q] = "playing" /\ was.body[q] = p}
            IN /\ own => /\ (link[p] = "playing" \/ p \in broken)
                         /\ deeds[p] = was.deeds[p] /\ record[p] = deeds[p]
               /\ link[p] = "playing" =>
                    /\ (own \/ lent # {})
                    /\ where[p] = EntryRoom(p, was.where[p]) /\ body[p] = p
               /\ link[p] # "playing" => where[p] = OutOfGame /\ link[p] = "none"
               /\ was.link[p] = "editing" => record[p] = was.deeds[p]
     /\ process' = "hung" =>
          \E p \in Hands : was.link[p] = "playing" /\ was.body[p] \in Puppets /\ Worded[was.body[p]] > 1]_copyVars
=============================================================================
