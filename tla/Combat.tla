------------------------------- MODULE Combat -------------------------------
(***************************************************************************)
(* Fighting: who fights whom (FIGHTING), the list of everyone who fights   *)
(* (combat_list), the cursor with which perform_violence walks that list   *)
(* while the blows it deals add and remove members (next_combat_list),     *)
(* and what a blow may cause before damage() returns: the victim hits      *)
(* back, flees, is rescued, falls, burns the attacker with a fire shield,  *)
(* dies.  Code: fight.c, act.offensive.c, mobact.c, and the parts of       *)
(* handler.c, limits.c, magic.c, spells.c and act.movement.c that end or   *)
(* start a fight.                                                          *)
(*                                                                         *)
(* The game is one thread.  A command is one step; a loop whose iterations *)
(* may each do harm (a round of fighting, an area spell, a grenade) is a   *)
(* job of several steps, and no command runs before it is over.  A         *)
(* function that throws dice is the SET of the worlds it may leave.        *)
(*                                                                         *)
(* Hit points are kept as bands, the ones update_pos and the wimpy tests   *)
(* tell apart; the abstractions are listed in README.md.  Players      *)
(* follow nobody here, mobs follow the player who charmed them.  Mob       *)
(* programs, riding, body hosts and MOB_PET companions are left out.       *)
(***************************************************************************)
EXTENDS Integers

CONSTANTS
  Player, Mob,       \* the characters
  NoOne,             \* NULL
  Room, Nowhere,     \* the rooms; Nowhere: extracted, or not loaded yet
  Peaceful,          \* the rooms flagged ROOM_PEACEFUL
  Exit,              \* pairs of rooms: a door leads from the first to the second
  SpiritRoom,        \* where a slain player wakes (SPIRIT_MIN)
  VoidRoom,          \* where an idle player waits (room 1)
  LimboRoom,         \* where divine forces put the linkless (room 0)
  StartRoom,         \* r_mortal_start_room
  Keeper,            \* the shop keepers who may not be attacked
  Level,             \* GET_LEVEL
  Skill,             \* pairs: who can do what (Skills)
  Enemy,             \* pairs of players of enemy clans, in a player-killing zone
  Grenades,          \* the rooms where a grenade may go off
  Blow,              \* pairs of bands: what one call of damage() may do
  MaxAttacks,        \* the largest number of attacks in a round, apr + 1
  Mishap             \* the known defects that may strike (see README.md)

Char == Player \cup Mob

\* The positions of a character (structs.h).  POS_RESTING is taken with
\* POS_SITTING: nothing here tells them apart.
DEAD      == 0
MORTALLYW == 1
INCAP     == 2
STUNNED   == 3
SLEEPING  == 4
SITTING   == 5
FIGHTING  == 6
STANDING  == 7

\* The bands of hit points: up to STUNNED a band is named for the position
\* update_pos derives from it; above, anyone may be low enough to wimp out.
Hale == 4

Band == DEAD..Hale

Skills == {"kick", "backstab", "bash", "rescue", "retreat", "shoot",
           "sleep", "heal", "charm", "recall", "area"}

ASSUME CombatAssumption ==
  /\ Player \cap Mob = {} /\ NoOne \notin Char /\ Nowhere \notin Room
  /\ Peaceful \subseteq Room /\ Exit \subseteq Room \X Room
  /\ {SpiritRoom, VoidRoom, LimboRoom, StartRoom} \subseteq Room
  /\ Skill \subseteq Char \X Skills /\ Grenades \subseteq Room
  /\ Enemy \subseteq Player \X Player
  /\ Keeper \subseteq Mob /\ Level \in [Char -> Nat]
  \* damage() takes at most 1000 hit points, and death is at -2000: only who is
  \* mortally wounded already can be killed by one blow
  /\ {<<h, h>> : h \in Band} \subseteq Blow
  /\ Blow \subseteq {b \in Band \X Band : b[2] <= b[1] /\ (b[2] = DEAD => b[1] <= MORTALLYW)}
  /\ MaxAttacks \in Nat \ {0}
  /\ Mishap \subseteq {"bash", "drown", "affliction", "missile", "grenade", "stunned",
                     "assist"}

VARIABLES
  w,     \* the world: a record of the fields World names
  job    \* the loop under way: a round of fighting, an area spell, a grenade

vars == <<w, job>>

\* The fields of a character that fights, and combat_list.  The list is kept as
\* the set of its members with the order the links give them; cursor is
\* next_combat_list.  Two fields are history: due, who has been fighting since
\* the round began and has had no turn, and freedUse, whether a handler has used
\* a mob after free_char.
World ==
  [room     : [Char -> Room \cup {Nowhere}],
   health   : [Char -> Band],
   pos      : [Char -> DEAD..STANDING],
   fighting : [Char -> Char \cup {NoOne}],
   listed   : SUBSET Char,
   ahead    : SUBSET (Char \X Char),
   cursor   : Char \cup {NoOne},
   master   : [Mob -> Player \cup {NoOne}],
   linkless : SUBSET Player,
   due      : SUBSET Char,
   freedUse : BOOLEAN]

Job ==
  [op   : {"idle", "turn", "strikes", "area", "blast"},
   who  : Char \cup {NoOne},        \* the fighter, the caster
   next : Char \cup {NoOne},        \* the saved next_tch of an area spell
   room : Room \cup {Nowhere},      \* where the spell was cast, the grenade lies
   left : 0..MaxAttacks,            \* attacks left in this turn
   rest : SUBSET Char]              \* the people an area spell or blast has not reached

Idle == [op |-> "idle", who |-> NoOne, next |-> NoOne, room |-> Nowhere,
         left |-> 0, rest |-> {}]

Present(v, c) == v.room[c] # Nowhere
People(v, r)  == {c \in Char : v.room[c] = r}
Together(v, c, d) == Present(v, c) /\ v.room[c] = v.room[d]
InPeace(v, c) == v.room[c] \in Peaceful

\* What a blow may leave of a character, and what may be healed of it at once.
Worse(v, c)  == {h \in Band : <<v.health[c], h>> \in Blow}
Better(v, c) == {h \in Band : <<h, v.health[c]>> \in Blow}

\* CAN_MURDER: between players the victim is to be the attacker's senior.
MaxLevelDiff == 10
CanMurder(c, d) ==
  {c, d} \subseteq Player => <<c, d>> \in Enemy /\ Level[d] - Level[c] >= MaxLevelDiff

\* Code that goes on with a character after a killing: a slain player wakes
\* elsewhere, a slain mob's record has been freed.
Touch(v, c) == [v EXCEPT !.freedUse = @ \/ (c \in Mob /\ v.room[c] = Nowhere)]

-----------------------------------------------------------------------------
(* combat_list *)

Behind(v, c) == {x \in v.listed : <<c, x>> \in v.ahead}

FirstOf(v, S) == IF S = {} THEN NoOne
                 ELSE CHOOSE x \in S : S \ {x} \subseteq Behind(v, x)

NextFighting(v, c) == FirstOf(v, Behind(v, c))

\* bug: the mortally wounded die at once, as where death is at -10
UpdatedPosDies(health, pos) ==
  IF health <= MORTALLYW THEN DEAD
  ELSE IF health = STUNNED THEN STUNNED
  ELSE IF pos > STUNNED THEN pos ELSE STANDING

UpdatedPos(health, pos) ==
  IF health <= STUNNED THEN health
  ELSE IF pos > STUNNED THEN pos ELSE STANDING

UpdatePos(v, c) == [v EXCEPT !.pos[c] = UpdatedPos(v.health[c], @)]

\* bug: a new fighter goes to the end of the list
SetFightingTail(v, c, d) ==
  IF c = d \/ v.fighting[c] # NoOne THEN v
  ELSE [v EXCEPT !.listed = @ \cup {c}, !.ahead = @ \cup (v.listed \X {c}),
                 !.fighting[c] = d, !.pos[c] = FIGHTING]

SetFighting(v, c, d) ==
  IF c = d \/ v.fighting[c] # NoOne THEN v
  ELSE [v EXCEPT !.listed = @ \cup {c},
                 !.ahead = @ \cup ({c} \X v.listed),
                 !.fighting[c] = d,
                 !.pos[c] = FIGHTING]

\* bug: the cursor stays on a fighter who leaves the list
StopAllCursor(v, S) ==
  [v EXCEPT !.listed = @ \ S, !.due = @ \ S,
            !.ahead = {e \in @ : e[1] \notin S /\ e[2] \notin S},
            !.fighting = [c \in Char |-> IF c \in S THEN NoOne ELSE @[c]],
            !.pos = [c \in Char |-> IF c \in S THEN UpdatedPos(v.health[c], STANDING)
                                               ELSE @[c]]]

\* bug: the pointer is cleared, but the fighter stays on the list
StopAllListed(v, S) ==
  [v EXCEPT !.cursor = IF @ \in S THEN FirstOf(v, Behind(v, @) \ S) ELSE @,
            !.due = @ \ S,
            !.fighting = [c \in Char |-> IF c \in S THEN NoOne ELSE @[c]],
            !.pos = [c \in Char |-> IF c \in S THEN UpdatedPos(v.health[c], STANDING)
                                               ELSE @[c]]]

\* stop_fighting for each character of S, as extract_char calls it for every
\* fighter whose opponent leaves the game: the cursor moves past all of them.
StopAll(v, S) ==
  [v EXCEPT !.cursor = IF @ \in S THEN FirstOf(v, Behind(v, @) \ S) ELSE @,
            !.listed = @ \ S,
            !.due = @ \ S,
            !.ahead = {e \in @ : e[1] \notin S /\ e[2] \notin S},
            !.fighting = [c \in Char |-> IF c \in S THEN NoOne ELSE @[c]],
            !.pos = [c \in Char |-> IF c \in S THEN UpdatedPos(v.health[c], STANDING)
                                               ELSE @[c]]]

StopFighting(v, c) == StopAll(v, {c})

StopIfFighting(v, c) == IF v.fighting[c] # NoOne THEN StopFighting(v, c) ELSE v

-----------------------------------------------------------------------------
(* Coming and going *)

CharFromRoom(v, c) == [StopIfFighting(v, c) EXCEPT !.room[c] = Nowhere]

CharToRoom(v, c, r) ==
  LET u == [v EXCEPT !.room[c] = r]
      d == u.fighting[c]
  IN IF d # NoOne /\ u.room[d] # r THEN StopFighting(StopFighting(u, d), c) ELSE u

MoveTo(v, c, r) == CharToRoom(CharFromRoom(v, c), c, r)

\* bug: those who fight whoever is extracted go on fighting
ExtractCharFought(v, c) ==
  LET a == [v EXCEPT !.master = [m \in Mob |-> IF c \in {m, @[m]} THEN NoOne ELSE @[m]]]
  IN [CharFromRoom(StopIfFighting(a, c), c) EXCEPT !.health[c] = Hale, !.pos[c] = STANDING,
                                                   !.linkless = @ \ {c}]

\* A follower is set free when either end of the link leaves the game.
ExtractChar(v, c) ==
  LET a == [v EXCEPT !.master = [m \in Mob |-> IF c \in {m, @[m]} THEN NoOne ELSE @[m]]]
      b == StopIfFighting(a, c)
      d == StopAll(b, {k \in b.listed : b.fighting[k] = c})
  IN [CharFromRoom(d, c) EXCEPT !.health[c] = Hale, !.pos[c] = STANDING,
                                !.linkless = @ \ {c}]

\* raw_kill: a mob leaves a corpse (ObjWorld) and the game, a player wakes as
\* a spirit, whole.  Whoever fought the player goes on facing an empty place.
RawKill(v, c) ==
  LET a == StopIfFighting(v, c)
  IN IF c \in Mob THEN ExtractChar(a, c)
     ELSE UpdatePos([MoveTo(a, c, SpiritRoom) EXCEPT !.health[c] = Hale], c)

\* do_simple_move: the worlds a step may lead to.  A pet stays with its master.
WithMaster(v, c) == c \in Mob /\ \E p \in Player : v.master[c] = p /\ Together(v, c, p)

Steps(v, c) ==
  {MoveTo(v, c, r) : r \in {x \in Room : <<v.room[c], x>> \in Exit /\ ~WithMaster(v, c)}}

\* do_flee
Flee(v, c) ==
  {v} \cup IF v.fighting[c] # NoOne /\ v.pos[c] >= FIGHTING THEN Steps(v, c) ELSE {}

-----------------------------------------------------------------------------
(* damage(): the worlds one blow may leave, each with what it returns:     *)
(* -1 for a kill, 0 for no damage, 1 for damage.                           *)

Outcome(v, ret) == [world |-> v, ret |-> ret]
Worlds(S) == {o.world : o \in S}

\* Whoever can stand turns on the other; the attacker first.
EngageAttacker(v, c, d) ==
  IF v.pos[c] > STUNNED /\ v.fighting[c] = NoOne THEN SetFighting(v, c, d) ELSE v

EngageVictim(v, c, d) ==
  IF v.pos[d] > STUNNED /\ v.fighting[d] = NoOne THEN SetFighting(v, d, c) ELSE v

\* "Attack pet?": a pet its master attacks is a pet no more.
Freed(v, c, d) ==
  [v EXCEPT !.master = [m \in Mob |-> IF m = d /\ @[m] = c THEN NoOne ELSE @[m]]]

\* The hit points, and the return value they make.
Wounds(v, d) ==
  UNION {{Outcome(UpdatePos([v EXCEPT !.health[d] = h], d), ret) :
            ret \in IF h = v.health[d] THEN {0, 1} ELSE {1}} : h \in Worse(v, d)}

\* Who is low may wimp out, whoever has no link or is away tries to flee and is
\* otherwise taken to safety, once no fight holds him.
Escapes(v, c, d) ==
  LET wimp == IF v.pos[d] > STUNNED /\ c # d
              THEN Flee(v, d) ELSE {v}
      Saved(u) == IF u.fighting[d] = NoOne THEN MoveTo(u, d, LimboRoom) ELSE u
  IN IF d \notin v.linkless THEN wimp
     ELSE {Saved(u) : u \in UNION {Flee(x, d) : x \in wimp}}

\* bug: only who deals the blow stops fighting
DownedFights(v, c, d) ==
  IF d \in Player /\ v.pos[d] <= MORTALLYW /\ v.fighting[c] # NoOne
  THEN StopFighting(v, c) ELSE v

\* The stunned stop fighting; who has felled a player lets go of him.
Downed(v, c, d) ==
  IF v.pos[d] <= STUNNED /\ v.fighting[d] # NoOne THEN StopFighting(v, d)
  ELSE IF d \in Player /\ v.pos[d] <= MORTALLYW /\ v.fighting[c] # NoOne
       THEN StopFighting(v, c)
  ELSE v

\* The end of damage(): the slain die, unless the slayer is a player's equal.
Slain(o, c, d) ==
  IF o.world.pos[d] # DEAD THEN o
  ELSE IF d \in Player /\ Level[c] = Level[d] THEN Outcome(o.world, 1)
  ELSE Outcome(Touch(RawKill(o.world, d), c), -1)

\* bug: peaceful rooms do not stop a blow
RefusedKeeper(v, c, d) == d \in Keeper

\* Peaceful rooms, and shop keepers under protection.
Refused(v, c, d) == (c # d /\ InPeace(v, c)) \/ d \in Keeper

\* The blow up to the fire shield: both turn on each other, if they share a room.
Melee(v, c, d) == c # d /\ v.room[c] = v.room[d]

Fallen(v, c, d) ==
  LET a == IF Melee(v, c, d) THEN EngageVictim(EngageAttacker(v, c, d), c, d) ELSE v
  IN UNION {{Outcome(Downed(u, c, d), o.ret) : u \in Escapes(o.world, c, d)} :
              o \in Wounds(Freed(a, c, d), d)}

\* What is left of a blow once the fire shield of its victim has answered it with
\* one of the worlds S.
Burnt(o, c, d, S) == {Outcome(Touch(Touch(u, c), d), o.ret) : u \in S}

\* damage(c, d): blows are what the blow itself, and a fire shield, may come to,
\* turned what may come of it if it hits somebody else.
Damage(v, c, d, turned, blows) ==
  IF v.pos[d] = DEAD THEN {Outcome(RawKill(v, d), 0)}
  ELSE IF Refused(v, c, d) THEN {Outcome(v, 0)}
  ELSE turned \cup {Slain(o, c, d) : o \in blows}

\* damage() of a player's fire shield, which burns a mob: nobody is struck instead.
BurnsMob(v, p, m) == Worlds(Damage(v, p, m, {}, Fallen(v, p, m)))

\* Blood feeds the attacker who thirsts for it (AFF2_BLOODLUST).
Fed(v, c) == {Touch(v, c)} \cup
             {[Touch(v, c) EXCEPT !.health[c] = h] : h \in Better(v, c)}

\* hit(m, p) by a mob that strikes the master instead of the pet.
HitsMaster(v, m, p) ==
  LET fallen == Fallen(v, m, p)
      burnt  == UNION {Burnt(o, m, p, BurnsMob(o.world, p, m)) : o \in fallen}
  IN {v} \cup UNION {Fed(u, m) : u \in Worlds(Damage(v, m, p, {}, fallen \cup burnt))}

Turned(v, c, d) ==
  IF /\ Melee(v, c, d) /\ v.pos[c] > STUNNED /\ {c, d} \subseteq Mob
     /\ v.master[d] # NoOne /\ v.room[v.master[d]] = v.room[c]
  THEN {Outcome(u, 0) : u \in HitsMaster(StopIfFighting(EngageAttacker(v, c, d), c),
                                        c, v.master[d])}
  ELSE {}

\* The attacks no fire shield answers, and those it does (TYPE_HIT..TYPE_STAB).
Spell(v, c, d) == Damage(v, c, d, Turned(v, c, d), Fallen(v, c, d))

Strike(v, c, d) ==
  LET fallen == Fallen(v, c, d)
      burnt  == UNION {Burnt(o, c, d, Worlds(Spell(o.world, d, c))) : o \in fallen}
  IN Damage(v, c, d, Turned(v, c, d), fallen \cup burnt)

\* hit(): the blow may be parried or blinked away from.
Hit(v, c, d) ==
  IF v.room[c] # v.room[d]
  THEN {IF v.fighting[c] = d THEN StopFighting(v, c) ELSE v}
  ELSE {v} \cup UNION {Fed(u, c) : u \in Worlds(Strike(v, c, d))}

-----------------------------------------------------------------------------
(* Commands.  The command table asks for POS_FIGHTING or better where not  *)
(* said otherwise.                                                         *)

Command == job = Idle /\ UNCHANGED job

\* do_hit: a charmed mob neither strikes its master nor, on order, a player.
\* A player who follows with auto-assist joins in.  A mob that helps against itself
\* hits itself.
Assist(v, c, d) ==
  LET foes == IF v.fighting[d] # NoOne THEN {v.fighting[d]}
              ELSE {x \in People(v, v.room[c]) : v.fighting[x] = d}
      own  == IF c \in Mob /\ "assist" \notin Mishap THEN {c} ELSE {}
  IN IF v.fighting[c] # NoOne \/ c = d THEN {v}
     ELSE UNION {Hit(v, c, x) : x \in {y \in foes \ own : CanMurder(c, y)}}

Joined(v, c) ==
  {v} \cup UNION {Assist(v, p, c) :
                    p \in {x \in Player : c \in Player \ {x} /\ Together(v, x, c)}}

DoHit(c, d) ==
  /\ Command
  /\ c # d /\ Together(w, c, d)
  /\ c \in Mob => w.master[c] # d /\ ~(w.master[c] # NoOne /\ d \in Player)
  /\ w.pos[c] = STANDING /\ w.fighting[c] # d
  /\ w' \in UNION {Joined(u, c) : u \in Hit(w, c, d)}

DoAssist(c, d) ==
  /\ Command
  /\ c # d /\ Together(w, c, d)
  /\ w.pos[c] >= FIGHTING
  /\ w' \in Assist(w, c, d)

\* do_kick, and a spell of mag_damage: a blow no fire shield answers.
DoKick(c, d) ==
  /\ Command
  /\ <<c, "kick">> \in Skill
  /\ c # d /\ Together(w, c, d) /\ CanMurder(c, d)
  /\ w.pos[c] >= FIGHTING
  /\ w' \in Worlds(Spell(w, c, d))

\* do_backstab: an aware mob strikes first.
DoBackstab(c, d) ==
  /\ Command
  /\ <<c, "backstab">> \in Skill
  /\ c # d /\ Together(w, c, d) /\ CanMurder(c, d)
  /\ w.pos[c] = STANDING /\ w.fighting[d] = NoOne
  /\ \/ w' \in {w} \cup Worlds(Spell(w, c, d))
     \/ /\ d \in Mob
        /\ w.pos[d] > STUNNED \/ "stunned" \in Mishap
        /\ w' \in Hit(w, d, c)

\* do_bash: a failure puts the basher on the floor, a success the victim,
\* whatever the blow did to him otherwise.
Seated(v, c) == [v EXCEPT !.pos[c] = SITTING]

BashOutcome(o, d) == IF o.ret > 0 THEN Seated(o.world, d) ELSE o.world

Bashable(v, c) == v.health[c] > STUNNED \/ "bash" \in Mishap

DoBash(c, d) ==
  /\ Command
  /\ <<c, "bash">> \in Skill
  /\ c # d /\ Together(w, c, d) /\ CanMurder(c, d) /\ ~InPeace(w, c)
  /\ w.pos[c] >= FIGHTING
  /\ \/ \E u \in Worlds(Spell(w, c, d)) : Bashable(u, c) /\ w' = Seated(u, c)
     \/ \E o \in Spell(w, c, d) :
          /\ o.ret > 0 => Bashable(o.world, d)
          /\ w' = BashOutcome(o, d)

\* do_rescue: c steps between d and t, the one who fights d.
Rescued(v, c, d, t) ==
  LET a == IF v.fighting[d] = t THEN StopFighting(v, d) ELSE v
      b == StopIfFighting(StopIfFighting(a, t), c)
  IN SetFighting(SetFighting(b, c, t), t, c)

DoRescue(c, d, t) ==
  /\ Command
  /\ <<c, "rescue">> \in Skill
  /\ c \in Player /\ c # d /\ Together(w, c, d)
  /\ w.pos[c] >= FIGHTING /\ w.fighting[c] # d
  /\ Together(w, c, t) /\ w.fighting[t] = d
  /\ w' = Rescued(w, c, d, t)

DoFlee(c) ==
  /\ Command
  /\ Present(w, c) /\ w.fighting[c] # NoOne
  /\ w' \in Flee(w, c)

\* do_retreat: once the way is free the fight is over, whether the step succeeds or not.
Disengaged(v, c) ==
  LET d == v.fighting[c]
  IN StopFighting(IF d # NoOne /\ v.fighting[d] = c THEN StopFighting(v, d) ELSE v, c)

DoRetreat(c) ==
  /\ Command
  /\ <<c, "retreat">> \in Skill
  /\ Present(w, c) /\ w.fighting[c] # NoOne /\ w.pos[c] >= FIGHTING
  /\ \E r \in Room : <<w.room[c], r>> \in Exit
  /\ \E u \in {w} \cup Steps(w, c) : w' = Disengaged(u, c)

\* do_decapitate: whoever lies worse than stunned.
DoDecapitate(c, d) ==
  /\ Command
  /\ Together(w, c, d) /\ w.pos[c] = STANDING
  /\ w.pos[d] < STUNNED
  /\ w' = RawKill(w, d)

\* do_kill by an implementor, and do_purge, which only takes mobs.
Slay(d) ==
  /\ Command
  /\ Present(w, d)
  /\ w' = RawKill(w, d)

Purge(m) ==
  /\ Command
  /\ Present(w, m)
  /\ w' = ExtractChar(w, m)

\* do_peace: the mobs of the room stop fighting, and so do those they fight, if
\* they fight back.
DoPeace(r) ==
  LET calm == {m \in Mob \cap People(w, r) : w.fighting[m] # NoOne}
  IN /\ Command
     /\ calm # {}
     /\ w' = StopAll(w, calm \cup {d \in Char : \E m \in calm :
                                      w.fighting[m] = d /\ w.fighting[d] = m})

\* do_stand, do_sit, do_sleep, do_wake.
DoPosition(c) ==
  /\ Command
  /\ Present(w, c)
  /\ \E move \in {<<SITTING, STANDING>>, <<STANDING, SITTING>>, <<STANDING, SLEEPING>>,
                  <<SITTING, SLEEPING>>, <<SLEEPING, SITTING>>} :
       w.pos[c] = move[1] /\ w' = [w EXCEPT !.pos[c] = move[2]]

\* perform_move and do_move: pets on their feet follow their master; a fast
\* aggressive mob of the room entered may strike a player there at once.
Pets(v, c, r) ==
  {m \in Mob :
     /\ v.master[m] = c /\ v.room[m] = r
     /\ v.pos[m] = STANDING /\ v.fighting[m] = NoOne}

Led(v, c, r) ==
  [MoveTo(v, c, r) EXCEPT !.room = [x \in Char |-> IF x \in Pets(v, c, v.room[c]) THEN r
                                                   ELSE @[x]]]

Pounced(v, r) ==
  LET mobs == {m \in Mob \cap People(v, r) : v.pos[m] > STUNNED \/ "stunned" \in Mishap}
  IN {v} \cup UNION {Hit(v, m, p) : m \in mobs, p \in Player \cap People(v, r)}

Walk(c, r) ==
  /\ Command
  /\ Present(w, c) /\ <<w.room[c], r>> \in Exit
  /\ w.pos[c] = STANDING /\ w.fighting[c] = NoOne
  /\ ~WithMaster(w, c)
  /\ w' \in IF c \in Player THEN Pounced(Led(w, c, r), r) ELSE {MoveTo(w, c, r)}

\* do_recall, and the spell, which takes whom it is cast on out of his fight.
DoRecall(p) ==
  /\ Command
  /\ Present(w, p) /\ w.pos[p] = STANDING
  /\ w' = MoveTo(w, p, StartRoom)

CastRecall(c, p) ==
  /\ Command
  /\ <<c, "recall">> \in Skill
  /\ Together(w, c, p) /\ w.pos[c] >= FIGHTING
  /\ w' = MoveTo(w, p, StartRoom)

-----------------------------------------------------------------------------
(* Spells without a blow *)

\* mag_affects, SPELL_SLEEP: the sleeper's fights are not called off.
CastSleep(c, d) ==
  /\ Command
  /\ <<c, "sleep">> \in Skill
  /\ Together(w, c, d) /\ w.pos[c] >= FIGHTING
  /\ w.pos[d] > SLEEPING
  /\ w' = [w EXCEPT !.pos[d] = SLEEPING]

\* mag_points: healing.
Healed(v, c, h) == UpdatePos([v EXCEPT !.health[c] = h], c)

CastHeal(c, d) ==
  /\ Command
  /\ <<c, "heal">> \in Skill
  /\ Together(w, c, d) /\ w.pos[c] >= FIGHTING
  /\ \E h \in Better(w, d) : w' = Healed(w, d, h)

\* spell_charm; the charm wears off in affect_update, or the player drops it.
Charm(p, m) ==
  /\ Command
  /\ <<p, "charm">> \in Skill
  /\ Together(w, p, m) /\ w.pos[p] >= FIGHTING
  /\ w.master[m] = NoOne
  /\ w' = [w EXCEPT !.master[m] = p]

Uncharm(m) ==
  /\ Command
  /\ w.master[m] # NoOne
  /\ w' = [w EXCEPT !.master[m] = NoOne]

-----------------------------------------------------------------------------
(* The world around: players come and go, zones are reset, links are lost. *)

Enter(c, r) ==
  /\ Command
  /\ ~Present(w, c)
  /\ w' = CharToRoom(w, c, r)

\* do_quit: refused to who fights, fatal to who lies worse than stunned.
DoQuit(p) ==
  /\ Command
  /\ Present(w, p) /\ p \notin w.linkless /\ w.pos[p] # FIGHTING
  /\ w' = IF w.pos[p] < STUNNED THEN RawKill(w, p) ELSE ExtractChar(w, p)

\* A player loses the link (close_socket) or takes it up again; also do_afk.
LinkChanges(p) ==
  /\ Command
  /\ Present(w, p)
  /\ w' = [w EXCEPT !.linkless = IF p \in @ THEN @ \ {p} ELSE @ \cup {p}]

\* mobile_activity: a mob that is awake and free wanders, or strikes: a player
\* here (aggressive, or with a grudge), or the player an ally here is fighting.
AllysFoes(v, m) ==
  {v.fighting[x] : x \in {y \in Mob \ {m} : Together(v, y, m) /\ v.fighting[y] \in Player}}

MobileActivity(m) ==
  /\ Command
  /\ Present(w, m) /\ w.fighting[m] = NoOne /\ w.pos[m] > SLEEPING
  /\ \E d \in (Player \cap People(w, w.room[m])) \cup AllysFoes(w, m) : w' \in Hit(w, m, d)

\* point_update: hit points come back; poison, fire or acid wounds; water and
\* bleeding take hit points without a call of damage().
Gained(v, c) == {[v EXCEPT !.health[c] = h] : h \in Better(v, c)}

Afflicted(v, c) ==
  {v} \cup {u \in Worlds(Spell(v, c, c)) : u.freedUse => v.freedUse \/ "affliction" \in Mishap}

\* A tick takes a hundred hit points at most: nobody dies of it but the mortally wounded.
Floor(v, c) == IF v.health[c] <= MORTALLYW THEN DEAD ELSE MORTALLYW

Drained(v, c, floor) ==
  {[v EXCEPT !.health[c] = h] :
     h \in {x \in Worse(v, c) :
              /\ x = v.health[c] \/ x >= floor
              /\ v.health[c] > STUNNED => x > STUNNED \/ "drown" \in Mishap}}

PointUpdate(c) ==
  /\ Command
  /\ Present(w, c)
  /\ \E g \in Gained(w, c) : \E a \in Afflicted(g, c) :
       IF ~Present(a, c) THEN w' = a
       ELSE \E d \in Drained(a, c, Floor(w, c)) :
              w' = IF d.pos[c] <= STUNNED THEN UpdatePos(d, c) ELSE d

\* check_idling, the first stage: a player of level 0 is pulled into the void.
\* The opponent's fight is ended too, whoever it is with.
IdleMaxLevel == 1

IdleVoid(p) ==
  /\ Command
  /\ Present(w, p) /\ Level[p] < IdleMaxLevel
  /\ LET d == w.fighting[p]
         a == IF d # NoOne THEN StopFighting(StopFighting(w, d), p) ELSE w
     IN w' = MoveTo(a, p, VoidRoom)

\* The next command of a player who was idle or taken to safety first brings him
\* back (GET_WAS_IN, which may be any room).
ReturnFromVoid(p) ==
  /\ Command
  /\ w.room[p] \in {VoidRoom, LimboRoom}
  /\ \E r \in Room : w' = MoveTo(w, p, r)

\* fire_missile, mob_reaction: a shot into the next room; the mob it is aimed at
\* charges, gets up, or stays.
Reactions(v, c, d) ==
  {v} \cup
  IF d \in Player \/ v.fighting[d] # NoOne \/ v.pos[d] <= STUNNED THEN {}
  ELSE IF v.pos[d] # STANDING THEN {[v EXCEPT !.pos[d] = STANDING]}
  ELSE {u \in Steps(v, d) : Together(u, c, d)}

Shoot(c, d) ==
  /\ Command
  /\ <<c, "shoot">> \in Skill
  /\ Present(w, c) /\ Present(w, d) /\ w.pos[c] = STANDING
  /\ <<w.room[c], w.room[d]>> \in Exit /\ w.room[c] # w.room[d]
  /\ ~InPeace(w, c) /\ ~InPeace(w, d)
  /\ \E u \in {w} \cup {Touch(x, d) : x \in Worlds(Spell(w, c, d))} :
       /\ u.freedUse => w.freedUse \/ "missile" \in Mishap
       /\ w' \in Reactions(u, c, d)

-----------------------------------------------------------------------------
(* mag_areas: everyone in the room but the caster and its pets is hit, and *)
(* the next victim is saved before the blow.  A next victim who has been   *)
(* moved by then draws the loop along into another room.                   *)

CastArea(c) ==
  /\ job = Idle /\ UNCHANGED w
  /\ <<c, "area">> \in Skill
  /\ Present(w, c) /\ w.pos[c] >= FIGHTING
  /\ \E n \in People(w, w.room[c]) :
       job' = [Idle EXCEPT !.op = "area", !.who = c, !.next = n, !.room = w.room[c],
                           !.rest = People(w, w.room[c]) \ {n}]

Spared(v, c, d) == d = c \/ (d \in Mob /\ v.master[d] = c) \/ ~CanMurder(c, d)

\* Whoever has just entered a room stands at the head of its list.
AreaRest(v, d) ==
  IF ~Present(v, d) THEN {}
  ELSE IF v.room[d] = job.room THEN {x \in job.rest : v.room[x] = job.room}
  ELSE People(v, v.room[d]) \ {d}

AreaHit ==
  LET c == job.who
      d == job.next
      rest == AreaRest(w, d)
  IN /\ job.op = "area"
     /\ job' \in IF rest = {} THEN {Idle}
                ELSE {[job EXCEPT !.next = n, !.room = w.room[d], !.rest = rest \ {n}] :
                        n \in rest}
     /\ \/ Spared(w, c, d) /\ UNCHANGED w
        \/ /\ ~Spared(w, c, d)
           /\ w' \in {Touch(u, c) : u \in Worlds(Spell(Touch(w, d), c, d))}

-----------------------------------------------------------------------------
(* tick_grenade: everyone in the room loses hit points; the dead leave the *)
(* game at once, players too; nobody stops fighting.  A corpse that still  *)
(* stands in the room (NobodyLeftDead) ends the loop.                      *)

TickGrenade(r) ==
  /\ job = Idle /\ UNCHANGED w
  /\ r \in Grenades \ Peaceful /\ People(w, r) # {}
  /\ "grenade" \in Mishap \/ \A c \in People(w, r) : w.fighting[c] = NoOne
  /\ job' = [Idle EXCEPT !.op = "blast", !.room = r, !.rest = People(w, r)]

Blasted(v, c) ==
  LET u == UpdatePos(v, c) IN IF u.pos[c] = DEAD THEN ExtractChar(u, c) ELSE u

BlastHit ==
  \E c \in job.rest :
    /\ job.op = "blast"
    /\ IF w.pos[c] = DEAD THEN job' = Idle /\ UNCHANGED w
       ELSE /\ job' = IF job.rest = {c} THEN Idle ELSE [job EXCEPT !.rest = @ \ {c}]
            /\ \E h \in Worse(w, c) :
                 w' = Blasted([w EXCEPT !.health[c] = h], c)

-----------------------------------------------------------------------------
(* perform_violence: one turn for every fighter of combat_list.            *)

\* The fighter the loop goes on with: next_combat_list.
NextTurn(v) ==
  IF v.cursor = NoOne THEN Idle ELSE [Idle EXCEPT !.op = "turn", !.who = v.cursor]

StartRound ==
  /\ job = Idle /\ w.listed # {}
  /\ job' = [Idle EXCEPT !.op = "turn", !.who = FirstOf(w, w.listed)]
  /\ w' = [w EXCEPT !.due = w.listed]

Scrambled(v, c) ==
  IF c \in Mob /\ v.pos[c] < FIGHTING THEN [v EXCEPT !.pos[c] = FIGHTING] ELSE v

Stale(v, c) == ~\E d \in Char : v.fighting[c] = d /\ v.room[d] = v.room[c]

\* bug: the number of attacks is not limited
TakeTurnUnlimited ==
  LET c == job.who
      u == [w EXCEPT !.cursor = NextFighting(w, c), !.due = @ \ {c}]
      v == Scrambled(u, c)
  IN /\ job.op = "turn"
     /\ \/ /\ Stale(u, c)
           /\ w' = StopFighting(u, c)
           /\ job' = NextTurn(w')
        \/ /\ ~Stale(u, c) /\ c \in Mob
           /\ w' = u
           /\ job' = NextTurn(w')
        \/ /\ ~Stale(u, c)
           /\ w' = v
           /\ IF v.pos[c] < FIGHTING THEN job' = NextTurn(w')
              ELSE \E n \in 0..(MaxAttacks + 1) :
                     job' = IF n = 0 THEN NextTurn(w')
                            ELSE [job EXCEPT !.op = "strikes", !.left = n]

\* The turn begins: the cursor moves on; who has nobody to fight here stops; a
\* mob may have to wait, and else gets to its feet; who sits cannot fight.
TakeTurn ==
  LET c == job.who
      u == [w EXCEPT !.cursor = NextFighting(w, c), !.due = @ \ {c}]
      v == Scrambled(u, c)
  IN /\ job.op = "turn"
     /\ \/ /\ Stale(u, c)
           /\ w' = StopFighting(u, c)
           /\ job' = NextTurn(w')
        \/ /\ ~Stale(u, c) /\ c \in Mob
           /\ w' = u
           /\ job' = NextTurn(w')
        \/ /\ ~Stale(u, c)
           /\ w' = v
           /\ IF v.pos[c] < FIGHTING THEN job' = NextTurn(w')
              ELSE \E n \in 0..MaxAttacks :
                     job' = IF n = 0 THEN NextTurn(w')
                            ELSE [job EXCEPT !.op = "strikes", !.left = n]

\* One attack, by hand or by the spell of a special weapon.
Attack ==
  LET c == job.who
      d == w.fighting[c]
  IN /\ job.op = "strikes" /\ job.left > 0 /\ d # NoOne
     /\ w' \in {Touch(u, c) : u \in Hit(w, c, d) \cup
                                  (IF CanMurder(c, d) THEN Worlds(Spell(w, c, d)) ELSE {w})}
     /\ job' = [job EXCEPT !.left = @ - 1]

\* The attacks are over; the special procedure of a mob may cast at its foe.
EndTurn ==
  LET c == job.who
      d == w.fighting[c]
  IN /\ job.op = "strikes" /\ (job.left = 0 \/ d = NoOne)
     /\ w' \in {w} \cup IF c \in Mob /\ d # NoOne THEN Worlds(Spell(w, c, d)) ELSE {}
     /\ job' = NextTurn(w')

-----------------------------------------------------------------------------

Init ==
  /\ w = [room     |-> [c \in Char |-> Nowhere],
          health   |-> [c \in Char |-> Hale],
          pos      |-> [c \in Char |-> STANDING],
          fighting |-> [c \in Char |-> NoOne],
          listed   |-> {},
          ahead    |-> {},
          cursor   |-> NoOne,
          master   |-> [m \in Mob |-> NoOne],
          linkless |-> {},
          due      |-> {},
          freedUse |-> FALSE]
  /\ job = Idle

Fights ==
  \E c, d \in Char :
    \/ DoHit(c, d) \/ DoAssist(c, d) \/ DoKick(c, d) \/ DoBackstab(c, d)
    \/ DoBash(c, d) \/ DoDecapitate(c, d) \/ Shoot(c, d)
    \/ \E t \in Char : DoRescue(c, d, t)

Moves ==
  \E c \in Char :
    \/ DoFlee(c) \/ DoRetreat(c) \/ DoPosition(c) \/ PointUpdate(c)
    \/ \E r \in Room : Walk(c, r) \/ Enter(c, r)

Magic ==
  \/ \E c, d \in Char : CastSleep(c, d) \/ CastHeal(c, d)
  \/ \E c \in Char, p \in Player : CastRecall(c, p)
  \/ \E c \in Char : CastArea(c)
  \/ \E m \in Mob : Uncharm(m) \/ \E p \in Player : Charm(p, m)

Others ==
  \/ \E p \in Player : DoRecall(p) \/ DoQuit(p) \/ LinkChanges(p) \/ IdleVoid(p)
                      \/ ReturnFromVoid(p)
  \/ \E m \in Mob : MobileActivity(m) \/ Purge(m)
  \/ \E c \in Char : Slay(c)
  \/ \E r \in Room : DoPeace(r) \/ TickGrenade(r)

Next ==
  \/ Fights \/ Moves \/ Magic \/ Others
  \/ AreaHit \/ BlastHit
  \/ StartRound \/ TakeTurn \/ Attack \/ EndTurn

Spec == Init /\ [][Next]_vars

-----------------------------------------------------------------------------
(* Properties *)

\* The world and the job under way have the shape the code gives them.
TypeOK == w \in World /\ job \in Job

\* combat_list holds exactly those with a FIGHTING pointer, in one line: set_fighting,
\* stop_fighting and extract_char keep list and pointer in step (fight.c 330-371).
ListIsFighters ==
  /\ w.listed = {c \in Char : w.fighting[c] # NoOne}
  /\ w.ahead \subseteq w.listed \X w.listed
  /\ \A c, d \in w.listed : c # d => (<<c, d>> \in w.ahead <=> <<d, c>> \notin w.ahead)

\* Nobody fights who has left the game, and who has left the game fights nobody:
\* extract_char finds every FIGHTING pointer to the one it frees (handler.c 939-946).
FoesInGame ==
  \A c \in Char : w.fighting[c] # NoOne => Present(w, c) /\ Present(w, w.fighting[c])

\* Whatever a blow does to the list, next_combat_list still points into it, and
\* between rounds it is NULL (stop_fighting moves it on, fight.c 361-362).
CursorListed ==
  /\ w.cursor \in w.listed \cup {NoOne}
  /\ job.op \notin {"turn", "strikes"} => w.cursor = NoOne

\* The list that perform_violence walks is sound in the middle of every round: its
\* members are the fighters, they and their opponents are in the game, and the global
\* successor is one of them (fight.c 330-371, 1380-1410).
ListSound == ListIsFighters /\ FoesInGame /\ CursorListed

\* A round gives everyone who fights from its beginning on one turn: those the loop
\* still reaches from the cursor are exactly those still due one, however blows, deaths
\* and flights change the list meanwhile (perform_violence, fight.c 1392-1393).
TurnsFair ==
  LET from == IF job.op = "turn" THEN job.who ELSE w.cursor
  IN w.due = IF from = NoOne THEN {} ELSE {from} \cup Behind(w, from)

\* Nobody fights an opponent who shares a peaceful room with him: no command, blow,
\* flight or rescue starts or carries a fight into one (fight.c 963-966).
PeaceKept ==
  \A c \in Char : LET d == w.fighting[c]
                  IN d # NoOne /\ w.room[c] = w.room[d] => ~InPeace(w, c)

\* Whoever has no hit points left lies down and fights nobody: the stunned and worse
\* are taken off combat_list whichever way they fell (fight.c 1145-1150).
FallenLieDown ==
  \A c \in Char : w.health[c] <= STUNNED => w.pos[c] <= STUNNED /\ w.fighting[c] = NoOne

\* No handler goes on with a mob that the blow it dealt has extracted and freed,
\* through fire shields, redirected blows and area spells (fight.c 1152-1159, 1489-1497).
NobodyUsedAfterFree == ~w.freedUse

\* A blow that fells or frees somebody leaves no trace of a fight: neither a fighter
\* who lies stunned or worse, nor a handler that goes on with a freed mob.
FallenSound == FallenLieDown /\ NobodyUsedAfterFree

\* Two players and a mob in their fights: all of the above, and the peace.
PartySound == ListSound /\ FallenSound /\ PeaceKept

\* Whoever is dead has been through die(): nobody is left standing in the game at
\* POS_DEAD once a command or a round is over.
NobodyLeftDead == job = Idle => \A c \in Char : Present(w, c) => w.pos[c] # DEAD
=============================================================================
