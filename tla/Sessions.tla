----------------------------- MODULE Sessions -----------------------------
(***************************************************************************)
(* Who controls which body: the links between the connections of comm.c    *)
(* (descriptor_data) and the characters of the game (char_data), through   *)
(* login, duplicate logins, switching into other bodies, editors, quitting,*)
(* extraction and lost links.  One pass of game_loop handles input, one    *)
(* command per descriptor, the closing of marked descriptors and the       *)
(* heartbeat, in this order.                                               *)
(*                                                                         *)
(* A record's version stands for its contents: playing makes it grow,      *)
(* save_char writes it to the player file, logging in reads it back.       *)
(***************************************************************************)
EXTENDS Integers, FiniteSets

CONSTANTS
    Desc,           \* the connections
    Player,         \* the players of the player file, by idnum
    PcBody,         \* memory for the characters of players
    MobBody,        \* the mobiles of the world
    None,           \* the null pointer
    Rank,           \* 0 mortal, 1 immortal, 2 implementor
    Editor,         \* the editor states an immortal may enter
    Zombie,         \* the mobiles that the spell corpse host can bring up
    MaxVersion      \* bound on the versions of a record

ASSUME PlayerAssumption == Player # {}

ASSUME RankAssumption == Rank \in [Player -> 0 .. 2]

ASSUME BodyAssumption ==
    /\ PcBody \intersect MobBody = {}
    /\ None \notin Desc \union Player \union PcBody \union MobBody
    /\ Zombie \subseteq MobBody

ASSUME VersionAssumption == MaxVersion \in Nat

Body == PcBody \union MobBody

(* The editor states that close_socket cleans up after.                    *)
CleanedUp == {"oedit", "redit", "zedit", "medit", "sedit", "clan_edit"}

(* CON_GET_NAME and before are "name"; CON_RMOTD and the menu's questions  *)
(* are "menu"; "free" is no connection.                                    *)
ConState ==
    {"free", "name", "password", "menu", "playing", "close", "disconnect"}
        \union Editor

Marked == {"close", "disconnect"}
InGame == {"playing"} \union Editor

VARIABLES
    s,              \* descriptors and characters
    file,           \* the version of each player's record in the file
    lastQuit,       \* the version each player had on quitting, for properties
    phase,          \* what the present pass of game_loop is doing
    todo            \* descriptors that have not had their command this pass

vars == <<s, file, lastQuit, phase, todo>>

State ==
    [conn      : [Desc -> ConState],
     character : [Desc -> Body \union {None}],
     original  : [Desc -> Body \union {None}],
     desc      : [Body -> Desc \union {None}],
     owner     : [PcBody -> Player],
     version   : [PcBody -> 0 .. MaxVersion],
     alive     : SUBSET Body,      \* allocated
     listed    : SUBSET Body,      \* character_list, and in a room
     hosts     : SUBSET MobBody,   \* affected by SPELL_CORPSE_HOST
     halted    : BOOLEAN]          \* exit(1)

Connected(w) == {d \in Desc : w.conn[d] # "free"}
IsPlayer(b) == b \in PcBody
IsOf(w, b, p) == b \in PcBody /\ b \in w.alive /\ w.owner[b] = p

(* save_char writes nothing for a mobile or for a body without a           *)
(* descriptor.                                                             *)
Saved(w, f, b) ==
    IF b \in PcBody /\ w.desc[b] # None
    THEN [f EXCEPT ![w.owner[b]] = w.version[b]] ELSE f

(* A body nobody can reach any more, neither through character_list nor    *)
(* from a descriptor, is leaked memory; its place is used again.           *)
Reclaimed(w) ==
    LET held == {w.character[d] : d \in Desc} \union {w.original[d] : d \in Desc}
    IN  [w EXCEPT !.alive = @ \intersect (w.listed \union held \union MobBody)]

-----------------------------------------------------------------------------
(* What is left of a body once it is freed; a mobile outside of every room *)
(* that is extracted once more stops the program.                          *)
Freed(w, b) ==
    [w EXCEPT !.listed = @ \ {b}, !.alive = @ \ {b}, !.hosts = @ \ {b},
              !.halted = @ \/ b \notin w.listed]

(* do_return, for the body c: its controller goes back to the original     *)
(* body, and whoever has meanwhile switched into that one is marked.  A    *)
(* corpse that was animated for its controller dies.                       *)
HomeAgain(w, c) ==
    LET d     == w.desc[c]
        o     == w.original[d]
        other == w.desc[o]
    IN  [w EXCEPT !.conn = [e \in Desc |-> IF e = other THEN "disconnect"
                                           ELSE w.conn[e]],
                  !.character[d] = o,
                  !.original[d] = None,
                  !.desc = [@ EXCEPT ![o] = d, ![c] = None]]

Returned(w, c) ==
    IF w.desc[c] = None \/ w.original[w.desc[c]] = None THEN w
    ELSE IF c \in w.hosts THEN Freed(HomeAgain(w, c), c) ELSE HomeAgain(w, c)

\* bug: extract_char does not call back whoever is away in another body.
TakenOutWithoutCall(w, b) == Returned([w EXCEPT !.listed = @ \ {b}], b)

(* extract_char, up to where it saves the player: a player's body without  *)
(* a link first calls back whoever has switched out of it; a switched body *)
(* sends its controller home.                                              *)
TakenOut(w, b) ==
    LET away == {d \in Desc : w.original[d] = b}
        w1   == IF IsPlayer(b) /\ w.desc[b] = None /\ away # {}
                THEN Returned(w, w.character[CHOOSE d \in away : TRUE])
                ELSE w
    IN  Returned([w1 EXCEPT !.listed = @ \ {b}], b)

(* The rest of extract_char: a player with a link is left at the menu with *)
(* the body, everyone else's body is freed.                                *)
Extracted(w, b) ==
    LET w1 == TakenOut(w, b)
    IN  IF IsPlayer(b) /\ w1.desc[b] # None
        THEN [w1 EXCEPT !.conn[w1.desc[b]] = "menu"]
        ELSE [w1 EXCEPT !.alive = @ \ {b}, !.hosts = @ \ {b}]

ExtractedFile(w, f, b) == Saved(TakenOut(w, b), f, b)

(* The state of the descriptor after close_socket's clean-up of editors.   *)
AfterCleanUp(w, d) ==
    IF w.conn[d] \in CleanedUp /\ w.character[d] # None THEN "playing"
    ELSE w.conn[d]

\* bug: only CON_PLAYING is a connection of the game.
KeepsBodyPlayingOnly(w, d) == AfterCleanUp(w, d) = "playing"

(* Whether close_socket saves the body and leaves it without a link, or    *)
(* frees it.                                                               *)
KeepsBody(w, d) == AfterCleanUp(w, d) \in {"playing", "disconnect"}

Closed(w, d) ==
    LET c == w.character[d]
        o == w.original[d]
    IN  Reclaimed(
          [w EXCEPT
             !.conn[d] = "free",
             !.character[d] = None,
             !.original[d] = None,
             !.desc = [b \in Body |-> IF b # None /\ b \in {c, o} THEN None
                                      ELSE w.desc[b]],
             !.alive = IF c # None /\ ~ KeepsBody(w, d) THEN @ \ {c} ELSE @])

ClosedFile(w, f, d) ==
    IF w.character[d] # None /\ KeepsBody(w, d)
    THEN Saved(w, f, w.character[d]) ELSE f

-----------------------------------------------------------------------------
(* perform_dupe_check, after d has given the right password.  Every other  *)
(* descriptor of the player is cut off; d takes over the body it was       *)
(* playing or had switched out of, or else a body without a link, and all  *)
(* the other linkless bodies of the player are extracted.                  *)
Others(w, d, p) ==
    {k \in Connected(w) \ {d} : IsOf(w, w.original[k], p) \/ IsOf(w, w.character[k], p)}

Candidates(w, d, p) ==
    {w.original[k] : k \in {j \in Others(w, d, p) : IsOf(w, w.original[j], p)}}
    \union
    {w.character[k] : k \in {j \in Others(w, d, p) :
                               /\ ~ IsOf(w, w.original[j], p)
                               /\ w.conn[j] = "playing"}}

\* bug: the body does not forget the descriptor it is taken from.
CutOffKeepsDesc(w, ks) ==
    [w EXCEPT !.conn      = [k \in Desc |-> IF k \in ks THEN "close" ELSE w.conn[k]],
              !.character = [k \in Desc |-> IF k \in ks THEN None ELSE w.character[k]],
              !.original  = [k \in Desc |-> IF k \in ks THEN None ELSE w.original[k]]]

CutOff(w, ks) ==
    [w EXCEPT !.conn      = [k \in Desc |-> IF k \in ks THEN "close" ELSE w.conn[k]],
              !.character = [k \in Desc |-> IF k \in ks THEN None ELSE w.character[k]],
              !.original  = [k \in Desc |-> IF k \in ks THEN None ELSE w.original[k]],
              !.desc      = [b \in Body |-> IF \E k \in ks : b = w.character[k]
                                           THEN None ELSE w.desc[b]]]

\* bug: character_list is not searched for bodies without a link.
LinklessOverlooked(w, p) == {}

Linkless(w, p) == {b \in w.listed : IsOf(w, b, p) /\ w.desc[b] = None}

TakenOver(w, d, t) ==
    [w EXCEPT !.alive = @ \ {w.character[d]}, !.character[d] = t,
              !.original[d] = None, !.desc[t] = d, !.conn[d] = "playing"]

Discarded(w, bs) == [w EXCEPT !.listed = @ \ bs, !.alive = @ \ bs]

(* The states perform_dupe_check may leave behind; without a body to take  *)
(* over the login goes on to the menu.                                     *)
LoggedIn(w, d) ==
    LET p  == w.owner[w.character[d]]
        w1 == CutOff(w, Others(w, d, p))
        ts == IF Candidates(w, d, p) # {} THEN Candidates(w, d, p)
              ELSE Linkless(w1, p)
    IN  IF ts = {} THEN {Reclaimed([w1 EXCEPT !.conn[d] = "menu"])}
        ELSE {Reclaimed(TakenOver(Discarded(w1, Linkless(w1, p) \ {t}), d, t)) :
                t \in ts}

-----------------------------------------------------------------------------
Init ==
    /\ s = [conn |-> [d \in Desc |-> "free"],
            character |-> [d \in Desc |-> None],
            original |-> [d \in Desc |-> None],
            desc |-> [b \in Body |-> None],
            owner |-> [b \in PcBody |-> CHOOSE p \in Player : TRUE],
            version |-> [b \in PcBody |-> 0],
            alive |-> MobBody \ Zombie,
            listed |-> MobBody \ Zombie,
            hosts |-> {},
            halted |-> FALSE]
    /\ file = [p \in Player |-> 0]
    /\ lastQuit = [p \in Player |-> 0]
    /\ phase = "input"
    /\ todo = {}

(* A command of descriptor d: at most one in each pass.                    *)
Turn(d) ==
    /\ phase = "command"
    /\ ~ s.halted
    /\ d \in todo
    /\ todo' = todo \ {d}
    /\ UNCHANGED phase

\* bug: a connection starts in a state that nanny has no case for.
NewDescriptorUnknownState(d) ==
    /\ phase = "input"
    /\ s.conn[d] = "free"
    /\ s' = [s EXCEPT !.conn[d] = "ident"]
    /\ UNCHANGED <<file, lastQuit, phase, todo>>

(* new_descriptor.                                                         *)
NewDescriptor(d) ==
    /\ phase = "input"
    /\ s.conn[d] = "free"
    /\ s' = [s EXCEPT !.conn[d] = "name"]
    /\ UNCHANGED <<file, lastQuit, phase, todo>>

(* nanny, CON_GET_NAME: the record is loaded before the password is known. *)
EnterName(d, p, b) ==
    /\ Turn(d)
    /\ s.conn[d] = "name"
    /\ b \in PcBody \ s.alive
    /\ s' = [s EXCEPT !.conn[d] = "password", !.character[d] = b,
                      !.desc[b] = d, !.owner[b] = p, !.version[b] = file[p],
                      !.alive = @ \union {b}]
    /\ UNCHANGED <<file, lastQuit>>

(* nanny: an empty line at the name or password prompt.                    *)
GiveUp(d) ==
    /\ Turn(d)
    /\ s.conn[d] \in {"name", "password"}
    /\ s' = [s EXCEPT !.conn[d] = "close"]
    /\ UNCHANGED <<file, lastQuit>>

(* nanny, CON_PASSWORD: a wrong password is counted in the record, which   *)
(* is saved; after the last one allowed the connection is closed.          *)
BadPassword(d) ==
    /\ Turn(d)
    /\ s.conn[d] = "password"
    /\ \E c \in {"password", "close"} : s' = [s EXCEPT !.conn[d] = c]
    /\ file' = Saved(s, file, s.character[d])
    /\ UNCHANGED lastQuit

(* The right password; a banned site or a restricted game closes all the   *)
(* same.                                                                   *)
GoodPassword(d) ==
    /\ Turn(d)
    /\ s.conn[d] = "password"
    /\ \/ s' \in LoggedIn(s, d)
       \/ s' = [s EXCEPT !.conn[d] = "close"]
    /\ UNCHANGED <<file, lastQuit>>

(* nanny, CON_MENU: every choice saves the record first.                   *)
Menu(d) ==
    /\ Turn(d)
    /\ s.conn[d] = "menu"
    /\ file' = Saved(s, file, s.character[d])
    /\ UNCHANGED lastQuit

LeaveMenu(d) ==
    /\ Menu(d)
    /\ s' = [s EXCEPT !.conn[d] = "close"]

\* bug: enter_player_game does not put the body on character_list.
EnterGameUnlisted(d) ==
    /\ Menu(d)
    /\ s' = [s EXCEPT !.conn[d] = "playing"]

EnterGame(d) ==
    /\ Menu(d)
    /\ s' = [s EXCEPT !.conn[d] = "playing", !.listed = @ \union {s.character[d]}]

(* nanny's default: input of a descriptor that has been marked.            *)
StrayInput(d) ==
    /\ Turn(d)
    /\ s.conn[d] \in Marked
    /\ s' = [s EXCEPT !.conn[d] = "disconnect"]
    /\ UNCHANGED <<file, lastQuit>>

-----------------------------------------------------------------------------
Plays(d) == Turn(d) /\ s.conn[d] = "playing"

Unswitched(d) == s.original[d] = None /\ s.character[d] \in PcBody
RankOf(b) == IF b \in PcBody THEN Rank[s.owner[b]] ELSE 0

(* What a player has gained since the last save - experience, gold, skills *)
(* - makes a later version of the record.                                  *)
Gained(w, b) ==
    IF b \in PcBody
    THEN {[w EXCEPT !.version[b] = v] : v \in w.version[b] .. MaxVersion}
    ELSE {w}

(* do_save; Crash_save_all does the same for every player with a link.     *)
DoSave(d) ==
    /\ Plays(d)
    /\ s' \in Gained(s, s.character[d])
    /\ file' = Saved(s', file, s.character[d])
    /\ UNCHANGED lastQuit

(* do_quit: every other descriptor logged in, or logging in, as the same   *)
(* player is marked, and the body is extracted, which saves the record.    *)
DoQuit(d) ==
    LET b == s.character[d]
        p == s.owner[b]
        w == [s EXCEPT !.conn = [e \in Desc |->
                 IF e # d /\ IsOf(s, s.character[e], p) THEN "disconnect"
                 ELSE s.conn[e]]]
    IN
    /\ Plays(d)
    /\ b \in PcBody
    /\ s' = Extracted(w, b)
    /\ file' = ExtractedFile(w, file, b)
    /\ lastQuit' = IF s.original[d] = None
                   THEN [lastQuit EXCEPT ![p] = s.version[b]] ELSE lastQuit

DoSwitch(d, v) ==
    /\ Plays(d)
    /\ Unswitched(d)
    /\ RankOf(s.character[d]) >= (IF v \in PcBody THEN 2 ELSE 1)
    /\ v \in s.listed \ {s.character[d]}
    /\ s.desc[v] = None
    /\ s' = [s EXCEPT !.character[d] = v, !.original[d] = s.character[d],
                      !.desc = [@ EXCEPT ![v] = d, ![s.character[d]] = None]]
    /\ UNCHANGED <<file, lastQuit>>

(* spell_corpse_host: the caster leaves for a corpse brought to life.      *)
CorpseHost(d, z) ==
    /\ Plays(d)
    /\ s.character[d] \in PcBody
    /\ z \in Zombie \ s.alive
    /\ s' = [s EXCEPT !.character[d] = z, !.original[d] = s.character[d],
                      !.desc = [@ EXCEPT ![z] = d, ![s.character[d]] = None],
                      !.alive = @ \union {z}, !.listed = @ \union {z},
                      !.hosts = @ \union {z}]
    /\ UNCHANGED <<file, lastQuit>>

DoReturn(d) ==
    /\ Plays(d)
    /\ s.original[d] # None
    /\ s' = Returned(s, s.character[d])
    /\ UNCHANGED <<file, lastQuit>>

(* do_olc, do_tedit and the clan editor, and leaving them.                 *)
OpenEditor(d, e) ==
    /\ Plays(d)
    /\ Unswitched(d)
    /\ RankOf(s.character[d]) >= 1
    /\ s' = [s EXCEPT !.conn[d] = e]
    /\ UNCHANGED <<file, lastQuit>>

LeaveEditor(d) ==
    /\ Turn(d)
    /\ s.conn[d] \in Editor
    /\ s' = [s EXCEPT !.conn[d] = "playing"]
    /\ UNCHANGED <<file, lastQuit>>

(* do_purge: a player's connection is first cut off from the body.         *)
DoPurge(d, v) ==
    /\ Plays(d)
    /\ Unswitched(d)
    /\ RankOf(s.character[d]) >= 1
    /\ v \in s.listed \ {s.character[d]}
    /\ RankOf(v) < RankOf(s.character[d])
    /\ LET e  == s.desc[v]
           w1 == IF e # None /\ v \in PcBody
                 THEN [s EXCEPT !.conn[e] = "close", !.character[e] = None,
                                !.desc[v] = None]
                 ELSE s
       IN  s' = Extracted(w1, v) /\ file' = ExtractedFile(w1, file, v)
    /\ UNCHANGED lastQuit

DoDc(d, e) ==
    /\ Plays(d)
    /\ Unswitched(d)
    /\ RankOf(s.character[d]) >= 1
    /\ e \in Connected(s) \ {d}
    /\ RankOf(s.character[e]) < RankOf(s.character[d])
    /\ s' = [s EXCEPT !.conn[e] = "disconnect"]
    /\ UNCHANGED <<file, lastQuit>>

-----------------------------------------------------------------------------
(* close_socket, for a broken connection: in the exception and input       *)
(* passes, or when output cannot be written.                               *)
LinkLost(d) ==
    /\ phase \in {"input", "output"}
    /\ s.conn[d] # "free"
    /\ s' = Closed(s, d)
    /\ file' = ClosedFile(s, file, d)
    /\ UNCHANGED <<lastQuit, phase, todo>>

\* bug: only CON_CLOSE is closed.
CloseMarkedCloseOnly(d) ==
    /\ phase = "output"
    /\ s.conn[d] = "close"
    /\ s' = Closed(s, d)
    /\ file' = ClosedFile(s, file, d)
    /\ UNCHANGED <<lastQuit, phase, todo>>

(* The pass that closes the marked descriptors.                            *)
CloseMarked(d) ==
    /\ phase = "output"
    /\ s.conn[d] \in Marked
    /\ s' = Closed(s, d)
    /\ file' = ClosedFile(s, file, d)
    /\ UNCHANGED <<lastQuit, phase, todo>>

(* raw_kill, for a mobile: the affects are removed before the body is      *)
(* extracted, the corpse host's too.                                       *)
MobDies(m) ==
    /\ phase \in {"command", "heartbeat"}
    /\ ~ s.halted
    /\ m \in s.listed \intersect MobBody
    /\ s' = Extracted([s EXCEPT !.hosts = @ \ {m}], m)
    /\ UNCHANGED <<file, lastQuit, phase, todo>>

(* A death trap, walked into or teleported into.                           *)
DeathTrap(b) ==
    /\ phase \in {"command", "heartbeat"}
    /\ ~ s.halted
    /\ b \in s.listed \intersect PcBody
    /\ RankOf(b) = 0
    /\ s' = Extracted(s, b)
    /\ file' = ExtractedFile(s, file, b)
    /\ UNCHANGED <<lastQuit, phase, todo>>

(* check_idle_passwords.                                                   *)
PasswordTimeout(d) ==
    /\ phase = "heartbeat"
    /\ s.conn[d] \in {"name", "password"}
    /\ s' = [s EXCEPT !.conn[d] = "close"]
    /\ UNCHANGED <<file, lastQuit, phase, todo>>

(* zone_update brings a mobile back.                                       *)
MobLoad(m) ==
    /\ phase = "heartbeat"
    /\ m \in (MobBody \ Zombie) \ s.alive
    /\ s' = [s EXCEPT !.alive = @ \union {m}, !.listed = @ \union {m}]
    /\ UNCHANGED <<file, lastQuit, phase, todo>>

-----------------------------------------------------------------------------
(* The order of the passes in game_loop.                                   *)
EndInput ==
    /\ phase = "input"
    /\ phase' = "command"
    /\ todo' = Connected(s)
    /\ UNCHANGED <<s, file, lastQuit>>

EndCommands ==
    /\ phase = "command"
    /\ phase' = "output"
    /\ todo' = {}
    /\ UNCHANGED <<s, file, lastQuit>>

EndOutput ==
    /\ phase = "output"
    /\ \A d \in Desc : s.conn[d] \notin Marked
    /\ phase' = "heartbeat"
    /\ UNCHANGED <<s, file, lastQuit, todo>>

EndHeartbeat ==
    /\ phase = "heartbeat"
    /\ phase' = "input"
    /\ UNCHANGED <<s, file, lastQuit, todo>>

Login(d) ==
    \/ NewDescriptor(d) \/ GiveUp(d) \/ BadPassword(d) \/ GoodPassword(d)
    \/ LeaveMenu(d) \/ EnterGame(d) \/ StrayInput(d)
    \/ \E p \in Player, b \in PcBody : EnterName(d, p, b)

Command(d) ==
    \/ DoSave(d) \/ DoQuit(d) \/ DoReturn(d)
    \/ LeaveEditor(d)
    \/ \E v \in Body : DoSwitch(d, v) \/ DoPurge(d, v) \/ CorpseHost(d, v)
    \/ \E e \in Editor : OpenEditor(d, e)
    \/ \E e \in Desc : DoDc(d, e)

World ==
    \/ \E b \in Body : MobDies(b) \/ DeathTrap(b) \/ MobLoad(b)
    \/ \E d \in Desc : PasswordTimeout(d)

Pass == EndInput \/ EndCommands \/ EndOutput \/ EndHeartbeat
            \/ \E d \in Desc : CloseMarked(d)

Next ==
    \/ \E d \in Desc : Login(d) \/ Command(d) \/ LinkLost(d)
    \/ World
    \/ Pass

Spec == Init /\ [][Next]_vars

(* game_loop never stops between two passes.                               *)
FairSpec == Spec /\ WF_vars(Pass)

-----------------------------------------------------------------------------
TypeOK ==
    /\ s \in State
    /\ file \in [Player -> 0 .. MaxVersion]
    /\ lastQuit \in [Player -> 0 .. MaxVersion]
    /\ phase \in {"input", "command", "output", "heartbeat"}
    /\ todo \subseteq Desc

(* A connection in the game and its body point at each other, and a body   *)
(* points at no connection that does not point back: commands follow       *)
(* ch->desc and game_loop follows d->character.                            *)
LinkSymmetric ==
    /\ \A d \in Desc : s.conn[d] \in InGame =>
          /\ s.character[d] # None
          /\ s.desc[s.character[d]] = d
    /\ \A b \in s.alive : s.desc[b] # None => s.character[s.desc[b]] = b

(* No pointer leads to freed memory: neither from character_list nor from  *)
(* a connection.                                                           *)
NoDangling ==
    /\ s.listed \subseteq s.alive
    /\ \A d \in Desc : {s.character[d], s.original[d]} \subseteq s.alive \union {None}

(* A player is in the world at most once, however many connections have    *)
(* logged in as that player, lost their link or switched bodies.           *)
OneBodyPerPlayer ==
    \A a, b \in s.listed \intersect PcBody :
        s.owner[a] = s.owner[b] => a = b

(* A body that is played, or that waits for its player to return from a    *)
(* switch, is in the world.                                                *)
PlayedIsListed ==
    \A d \in Desc :
        /\ s.conn[d] \in InGame => s.character[d] \in s.listed
        /\ s.original[d] # None => s.original[d] \in s.listed

(* The pointers between connections, bodies and the list of the world are  *)
(* sound through logins, switches, extractions and lost links.             *)
LinksSound == LinkSymmetric /\ NoDangling /\ PlayedIsListed

(* close_socket never frees a character that is still in the world.        *)
NeverFreesListed ==
    [][\A b \in s.listed : b \in s'.alive \/ b \notin s'.listed]_vars

(* A marked descriptor is closed, or its player died in the same pass and  *)
(* is back at the menu.                                                    *)
MarkedLeavesGame ==
    \A d \in Desc : s.conn[d] \in Marked ~> s.conn[d] \in {"free", "menu"}

(* After a player has quit the record in the player file is at least as    *)
(* new as the one the player quit with, until the player is back.          *)
QuitRecordKept ==
    \A p \in Player :
        (\A d \in Desc : ~ IsOf(s, s.character[d], p)) => file[p] >= lastQuit[p]

(* A character that is in no room is never extracted: extract_char stops   *)
(* the program when it is.                                                 *)
NeverExtractedTwice == ~ s.halted
=============================================================================
