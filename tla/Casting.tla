------------------------------- MODULE Casting -------------------------------
(***************************************************************************)
(* Spells that are cast and the things that cast them (spell_parser.c,     *)
(* magic.c, spells.c).  One command goes from target to target and from    *)
(* spell to spell, while those it meets flee, die and take others with     *)
(* them; it is followed call by call.  Experience, skills, affects (in     *)
(* Affects) and who may fight whom (in Combat) are left out; saving throws *)
(* and dice are choices.                                                   *)
(***************************************************************************)
EXTENDS Integers, Sequences, FiniteSets, SequencesExt, FiniteSetsExt

CONSTANTS
  Mages, Gods,            \* players: mortals, and those of LVL_IMMORT and more
  Beasts, Imps,           \* mobiles, and those that are charmed pets (MOB_PET) at first
  CastRooms, NoMagic, Peaceful,   \* rooms, and those flagged ROOM_NOMAGIC, ROOM_PEACEFUL
  FirstPlaces,            \* FirstPlaces[r]: the people of room r, in order
  Leader,                 \* Leader[c]: whom c follows, a player in a group or a pet
  CastCost,               \* the mana that a spell costs a player
  MaxMana, MaxHealth,
  FogTicks,               \* the hours that fog lasts
  Rods,                   \* Rods[o] = [type, spells, max]: scroll, potion, wand, staff, corpse
  MaxCasts                \* bound on the commands

ASSUME CastingAssumption ==
  CastCost \in Nat \ {0} /\ MaxMana \in Nat /\ MaxHealth \in Nat \ {0} /\ FogTicks \in Nat

VARIABLES
  cw,             \* [spot, life, hp, mana, master, grouped, rods]: the world
  cast,           \* the command being carried out, or NoCast
  misuse,         \* what was used after it had left the game, if anything
  fogged, lasting, raff_list,     \* rooms with RAFF_FOG; without a spell; raff_node-s
  cast_count

castVars == <<cw, cast, misuse, fogged, lasting, raff_list, cast_count>>

\* The order of the others in a list.
WithoutThese(s, S) == FoldLeft(LAMBDA t, x : IF x \in S THEN t ELSE Append(t, x), <<>>, s)

Zombie == "zombie"
CastPlayers == Mages \union Gods
Pets == Imps \union {Zombie}
CastMobs == Beasts \union Pets
Casters == CastPlayers \union CastMobs
None == "none"
GoneRod == -1

NoCast == [src |-> None, by |-> None, tch |-> None, tobj |-> None, rod |-> None, spells |-> <<>>,
           phase |-> None, next |-> None, inner |-> None, struck |-> {}, result |-> 0]

\* Everybody but the zombie is somewhere at first, and nobody is twice.
ASSUME PlacesAssumption ==
  /\ IsFiniteSet(Casters) /\ None \notin Casters
  /\ FirstPlaces \in [CastRooms -> Seq(Casters \ {Zombie})]
  /\ \A c \in Casters \ {Zombie} : \E r \in CastRooms : c \in ToSet(FirstPlaces[r])
  /\ \A r \in CastRooms, q \in CastRooms :
       \A i \in DOMAIN FirstPlaces[r], j \in DOMAIN FirstPlaces[q] :
         FirstPlaces[r][i] = FirstPlaces[q][j] => r = q /\ i = j
  /\ \A o \in DOMAIN Rods : /\ Rods[o].type \in {"scroll", "potion", "wand", "staff", "corpse"}
                            /\ Rods[o].max \in Nat

CastingInit ==
  /\ cw = [spot |-> FirstPlaces,
           life |-> [c \in Casters |-> IF c = Zombie THEN "unborn" ELSE "here"],
           hp |-> [c \in Casters |-> MaxHealth], mana |-> [c \in Casters |-> MaxMana],
           master |-> [c \in Casters |-> IF c \in DOMAIN Leader THEN Leader[c] ELSE None],
           grouped |-> (DOMAIN Leader \union Range(Leader)) \intersect CastPlayers,
           rods |-> [o \in DOMAIN Rods |-> Rods[o].max]]
  /\ cast = NoCast /\ misuse = None /\ cast_count = 0
  /\ fogged = {} /\ lasting = {} /\ raff_list = <<>>

Here(v, c) == v.life[c] = "here"
RoomNow(v, c) == CHOOSE r \in CastRooms : c \in ToSet(v.spot[r])
RoomMates(v, c) == v.spot[RoomNow(v, c)]
NextInRoom(v, c) ==
  LET s == RoomMates(v, c)  i == CHOOSE k \in DOMAIN s : s[k] = c
  IN IF i = Len(s) THEN None ELSE s[i + 1]

-----------------------------------------------------------------------------
(* What spells do to the people and the things of a world v. *)

\* extract_char: the pets of the dead perish with them, other followers are let go.
LeavesGame(v, c) ==
  LET pets == {p \in Pets : v.master[p] = c}
      dead == {c} \union pets
      free == dead \union {f \in Casters : v.master[f] = c}
  IN [v EXCEPT !.spot = [r \in CastRooms |-> WithoutThese(@[r], dead)],
               !.life = [x \in Casters |-> IF x \notin dead THEN @[x]
                                           ELSE IF x \in CastMobs THEN "freed" ELSE "menu"],
               !.master = [x \in Casters |-> IF x \in free THEN None ELSE @[x]],
               !.grouped = @ \ free]

\* damage(): nothing, a wound, or death.
Damage(v, c) ==
  {v, IF v.hp[c] > 1 THEN [v EXCEPT !.hp[c] = @ - 1] ELSE LeavesGame(v, c)}

\* do_flee of one who may fight: through an exit, where he is first in the list.
do_flee(v, c) ==
  LET left == [v.spot EXCEPT ![RoomNow(v, c)] = WithoutThese(@, {c})]
  IN {v} \union {[v EXCEPT !.spot = [left EXCEPT ![r] = <<c>> \o left[r]]] : r \in CastRooms \ {RoomNow(v, c)}}

\* IS_NPC(ch) || IS_NPC(vict) || ..., where all players are of one clan.
CanMurder(c, d) == c \in CastMobs \/ d \in CastMobs

mag_damage(v, c, d) == IF d \in Gods \/ ~CanMurder(c, d) THEN {v} ELSE Damage(v, d)

\* bug: what is given is not taken from the giver.
mag_pointsGiftOnly(v, c, d) ==
  {[v EXCEPT !.mana[d] = Min({MaxMana, @ + roll - loss})] : roll \in 1..2, loss \in 0..1}

\* SPELL_MANA_TRANSFER: one who has no mana gains the point that he cannot give.
mag_points(v, c, d) ==
  {LET gift == Min({roll, v.mana[c] - 1})
       left == [v.mana EXCEPT ![c] = @ - gift]
   IN [v EXCEPT !.mana = [left EXCEPT ![d] = Min({MaxMana, left[d] + Max({0, gift - loss})})]] :
     roll \in 1..2, loss \in 1..2}

\* SPELL_MANA_BOOST, which only magic things hold: mana from nobody.
mana_boost(v, d) == {[v EXCEPT !.mana[d] = Min({MaxMana, @ + roll})] : roll \in 2..3}

\* SPELL_GROUP_HEAL: the others in the room, the leader wherever he is, and oneself.
mag_groups(v, c) ==
  LET k == IF v.master[c] # None THEN v.master[c] ELSE c
      reached == {f \in v.grouped : v.master[f] = k /\ RoomNow(v, f) = RoomNow(v, c)}
                   \union ({k} \intersect v.grouped) \union {c}
  IN IF c \notin v.grouped THEN v
     ELSE [v EXCEPT !.hp = [x \in Casters |-> IF x \in reached THEN MaxHealth ELSE @[x]]]

\* SPELL_ANIMATE_DEAD; there is one zombie at most.
mag_summons(v, c, o) ==
  IF o = None \/ c \in Pets THEN {v}
  ELSE IF Rods[o].type # "corpse" \/ v.life[Zombie] # "unborn" THEN {v}
  ELSE {v, [v EXCEPT !.spot[RoomNow(v, c)] = <<Zombie>> \o @, !.life[Zombie] = "here",
                     !.master[Zombie] = c, !.rods[o] = GoneRod]}

\* Overcharged, it explodes; he who is hurt to death by it does not die of it.
spell_recharge(v, c, o) ==
  IF o = None THEN {v}
  ELSE IF Rods[o].type \notin {"wand", "staff"} \/ v.rods[o] >= Rods[o].max THEN {v}
  ELSE {IF v.rods[o] + n > Rods[o].max
        THEN [v EXCEPT !.rods[o] = GoneRod, !.hp[c] = @ - Min({hurt, @})]
        ELSE [v EXCEPT !.rods[o] = @ + n] : n \in 1..2, hurt \in 1..2}

\* A thing, or else a victim with all that he carries; a mobile that resists hits back.
spell_disintegrate(v, c, d, o) ==
  IF o # None THEN {v, [v EXCEPT !.rods[o] = GoneRod]}
  ELSE IF d = None \/ d \in Gods THEN {v}
  ELSE {[LeavesGame(v, d) EXCEPT !.rods = [x \in DOMAIN Rods |->
            IF d = cast.by /\ x = cast.rod /\ Rods[x].type \in {"scroll", "potion"} THEN GoneRod ELSE @[x]]]}
         \union (IF d \in CastMobs THEN Damage(v, c) ELSE {v})

\* The node is put before the others; where there is fog already nothing happens.
mag_room(c) ==
  LET r == RoomNow(cw, c)
  IN IF r \in fogged THEN UNCHANGED <<fogged, raff_list>>
     ELSE fogged' = fogged \union {r} /\ raff_list' = <<[room |-> r, timer |-> FogTicks]>> \o raff_list

-----------------------------------------------------------------------------
(* spello(): what a spell is cast on, and whether it is violent. *)

mag_manacost(c) == IF c \in CastMobs THEN 0 ELSE CastCost

ViolentSpells == {"missile", "fear", "chain", "disintegrate"}
SpellTargets(c, s) ==
  LET people == {d \in Casters : Here(cw, d) /\ RoomNow(cw, d) = RoomNow(cw, c)}
      rods == {o \in DOMAIN Rods : cw.rods[o] # GoneRod}
      On(S) == S \X {None}
  IN CASE s \in {"fear", "group"}     -> {<<None, None>>}
       [] s \in {"missile", "chain"}  -> On(people \ {c})
       [] s = "transfer"              -> On(people \ {c})
       [] s = "fog"                   -> On({c})
       [] s = "disintegrate"          -> On(people \ {c}) \union ({None} \X rods)
       [] s \in {"recharge", "animate"} -> {None} \X rods

CastSpells == {"missile", "fear", "chain", "disintegrate", "transfer", "group", "fog", "recharge", "animate"}

Ready(c) == cast = NoCast /\ misuse = None /\ cast_count < MaxCasts /\ Here(cw, c) /\ cw.hp[c] > 0

\* A mobile that is charmed does not cast.  Failing costs half of the mana, and
\* a mobile that was to be harmed attacks.
do_cast(c, s, t) ==
  /\ Ready(c) /\ c \notin Pets /\ t \in SpellTargets(c, s)
  /\ cw.mana[c] >= mag_manacost(c) \/ c \in Gods
  /\ s = "group" => c \in cw.grouped
  /\ cast_count' = cast_count + 1
  /\ UNCHANGED <<misuse, fogged, lasting, raff_list>>
  /\ \/ /\ c \in CastPlayers
        /\ LET tired == [cw EXCEPT !.mana[c] = Max({0, @ - mag_manacost(c) \div 2})]
           IN cw' \in IF s \in ViolentSpells /\ t[1] \in CastMobs THEN Damage(tired, c) ELSE {tired}
        /\ UNCHANGED cast
     \/ /\ cast' = [NoCast EXCEPT !.src = "cast", !.by = c, !.tch = t[1], !.tobj = t[2],
                                  !.spells = <<s>>, !.phase = "call"]
        /\ UNCHANGED cw

\* A wand or a staff loses a charge whatever comes of it.  A scroll that is given
\* no target is for oneself, and a staff is for everyone else, first to last.
do_use(c, o, d, obj) ==
  LET kind == Rods[o].type
      first == RoomMates(cw, c)[1]
  IN /\ Ready(c) /\ cw.rods[o] > 0 /\ kind # "corpse"
     /\ d # None => Here(cw, d) /\ RoomNow(cw, d) = RoomNow(cw, c)
     /\ obj # None => cw.rods[obj] # GoneRod
     /\ CASE kind \in {"potion", "staff"} -> d = c /\ obj = None
          [] kind \in {"wand", "scroll"}  -> (d = None) # (obj = None)
     /\ cast_count' = cast_count + 1
     /\ cw' = IF kind \in {"wand", "staff"} THEN [cw EXCEPT !.rods[o] = @ - 1] ELSE cw
     /\ cast' = [NoCast EXCEPT !.src = kind, !.by = c, !.rod = o, !.tobj = obj, !.spells = Rods[o].spells,
                               !.phase = IF kind = "staff" THEN "back" ELSE "call",
                               !.tch = IF kind = "staff" THEN None ELSE d,
                               !.next = IF kind = "staff" THEN first ELSE None]
     /\ UNCHANGED <<misuse, fogged, lasting, raff_list>>

-----------------------------------------------------------------------------
(* call_magic. *)

\* After the use of what has left the game there is no telling.
Misused(what) ==
  misuse' = what /\ cast' = NoCast /\ UNCHANGED <<cw, fogged, lasting, raff_list, cast_count>>

Returns(j, n) == [j EXCEPT !.phase = "back", !.result = n]

call_magic ==
  LET c == cast.by
      s == Head(cast.spells)
      d == cast.tch
      OnVictim == s \in {"missile", "transfer", "boost", "chain"} \/ (s = "disintegrate" /\ cast.tobj = None)
      OnThing == s \in {"disintegrate", "recharge", "animate"}
      \* routines that end in one call
      Once(W) == cw' \in W /\ cast' = Returns(cast, 1) /\ UNCHANGED <<misuse, fogged, lasting, raff_list, cast_count>>
      Loop(j) == cast' = j /\ UNCHANGED <<cw, misuse, fogged, lasting, raff_list, cast_count>>
  IN /\ cast.phase = "call"
     /\ IF ~Here(cw, c) THEN Misused("caster")
        ELSE IF RoomNow(cw, c) \in NoMagic \/ (RoomNow(cw, c) \in Peaceful /\ s \in ViolentSpells)
        THEN Loop(Returns(cast, 0))
        ELSE IF OnVictim /\ d # None /\ ~Here(cw, d) THEN Misused("target")
        ELSE IF OnThing /\ cast.tobj # None /\ cw.rods[cast.tobj] = GoneRod THEN Misused("object")
        ELSE \/ s = "missile"      /\ Once(IF d = None THEN {cw} ELSE mag_damage(cw, c, d))
             \/ s = "transfer"     /\ Once(IF d = None THEN {cw} ELSE mag_points(cw, c, d))
             \/ s = "boost"        /\ Once(IF d = None THEN {cw} ELSE mana_boost(cw, d))
             \/ s = "group"        /\ Once({mag_groups(cw, c)})
             \/ s = "animate"      /\ Once(mag_summons(cw, c, cast.tobj))
             \/ s = "recharge"     /\ Once(spell_recharge(cw, c, cast.tobj))
             \/ s = "disintegrate" /\ Once(spell_disintegrate(cw, c, d, cast.tobj))
             \/ s = "chain"        /\ Loop(IF d = None \/ d \in Gods THEN Returns(cast, 1)
                                           ELSE [cast EXCEPT !.phase = "chain", !.inner = d])
             \/ s = "fear"         /\ Loop([cast EXCEPT !.phase = "fear", !.inner = RoomMates(cw, c)[1]])
             \/ /\ s = "fog" /\ mag_room(c) /\ cast' = Returns(cast, 1)
                /\ UNCHANGED <<cw, misuse, lasting, cast_count>>

\* FindNext: anyone in the room of the caster who has not been struck; gods harm mobiles only.
FindNext(v, c, struck) ==
  {d \in ToSet(RoomMates(v, c)) \ (struck \union {c}) : d \in CastMobs \/ c \notin Gods}

\* Three strokes, each at one who is there when it falls; he is looked for in the
\* room of the caster, who may have struck himself down.
spell_chain_lightning ==
  LET c == cast.by
      struck == cast.struck \union {cast.inner}
  IN /\ cast.phase = "chain"
     /\ IF ~Here(cw, cast.inner) THEN Misused("stroke")
        ELSE /\ cw' \in Damage(cw, cast.inner)
             /\ LET nexts == IF Here(cw', c) THEN FindNext(cw', c, struck) ELSE {c}
                IN cast' \in IF Cardinality(struck) = 3 \/ nexts = {}
                             THEN {[Returns(cast, 1) EXCEPT !.struck = {}, !.inner = None]}
                             ELSE {[cast EXCEPT !.inner = n, !.struck = struck] : n \in nexts}
             /\ UNCHANGED <<misuse, fogged, lasting, raff_list, cast_count>>

\* Those who resist attack the caster, if they are mobiles; the others flee.
spell_fear ==
  LET t == cast.inner
      c == cast.by
      Resisted(W) == cw' \in W
  IN /\ cast.phase = "fear"
     /\ IF t = None
        THEN cast' = Returns(cast, 1) /\ UNCHANGED <<cw, misuse, fogged, lasting, raff_list, cast_count>>
        ELSE IF ~Here(cw, t) THEN Misused("frightened")
        ELSE \/ ~Here(cw, c) /\ t # c /\ t \notin Gods /\ Misused("caster")
             \/ /\ cast' = [cast EXCEPT !.inner = NextInRoom(cw, t)]
                /\ IF t = c \/ t \in Gods THEN UNCHANGED cw
                   ELSE cw' \in do_flee(cw, t) \union (IF t \in CastMobs /\ Here(cw, c) THEN Damage(cw, c) ELSE {})
                /\ UNCHANGED <<misuse, fogged, lasting, raff_list, cast_count>>

-----------------------------------------------------------------------------
(* What follows the return of call_magic. *)

\* cast_spell, do_cast: a spell that took effect is paid for, were it by one who
\* has died of it; a mobile then has been freed.
PayForSpell ==
  /\ cast.phase = "back" /\ cast.src = "cast"
  /\ IF cast.result = 1 /\ cw.life[cast.by] = "freed" THEN Misused("payer")
     ELSE /\ cw' = IF cast.result = 1 THEN [cw EXCEPT !.mana[cast.by] = Max({0, @ - mag_manacost(cast.by)})] ELSE cw
          /\ cast' = NoCast /\ UNCHANGED <<misuse, fogged, lasting, raff_list, cast_count>>

\* mag_objectmagic, scroll and potion: up to three spells on the same target, then
\* the thing is gone.
NextOfScroll ==
  /\ cast.phase = "back" /\ cast.src \in {"scroll", "potion"}
  /\ IF cast.result = 1 /\ Len(cast.spells) > 1
     THEN /\ cast' = [cast EXCEPT !.phase = "call", !.spells = Tail(@), !.result = 0]
          /\ UNCHANGED <<cw, misuse, fogged, lasting, raff_list, cast_count>>
     ELSE IF cw.rods[cast.rod] = GoneRod THEN Misused("scroll")
     ELSE /\ cw' = [cw EXCEPT !.rods[cast.rod] = GoneRod] /\ cast' = NoCast
          /\ UNCHANGED <<misuse, fogged, lasting, raff_list, cast_count>>

\* mag_objectmagic, staff: the next in the room was read before the spell.  A
\* spell that goes round the room keeps a place of its own.
NextOfStaff ==
  LET t == cast.next
  IN /\ cast.phase = "back" /\ cast.src = "staff"
     /\ IF t = None
        THEN cast' = NoCast /\ UNCHANGED <<cw, misuse, fogged, lasting, raff_list, cast_count>>
        ELSE IF ~Here(cw, t) THEN Misused("next")
        ELSE /\ cast' = [cast EXCEPT !.next = NextInRoom(cw, t), !.result = 0,
                                     !.tch = IF t = cast.by THEN None ELSE t,
                                     !.phase = IF t = cast.by THEN "back" ELSE "call"]
             /\ UNCHANGED <<cw, misuse, fogged, lasting, raff_list, cast_count>>

WandUsed ==
  /\ cast.phase = "back" /\ cast.src = "wand"
  /\ cast' = NoCast /\ UNCHANGED <<cw, misuse, fogged, lasting, raff_list, cast_count>>

-----------------------------------------------------------------------------
(* Fog between the commands. *)

\* affect_update, on rooms: an expired node takes the fog of its room with it, whoever made it.
raff_update ==
  LET aged == [i \in DOMAIN raff_list |-> [raff_list[i] EXCEPT !.timer = @ - 1]]
      dead == {m \in ToSet(aged) : m.timer <= 0}
      over == {n.room : n \in dead}
  IN /\ cast = NoCast /\ misuse = None /\ raff_list # <<>>
     /\ raff_list' = WithoutThese(aged, dead)
     /\ fogged' = fogged \ over /\ lasting' = lasting \ over
     /\ UNCHANGED <<cw, cast, misuse, cast_count>>

\* do_fog, do_mist make fog without a node; do_evap_fog leaves the node.
do_fog(r) ==
  /\ cast = NoCast /\ misuse = None /\ cast_count < MaxCasts
  /\ fogged' = fogged \union {r} /\ lasting' = lasting \union {r}
  /\ cast_count' = cast_count + 1 /\ UNCHANGED <<cw, cast, misuse, raff_list>>

do_evap_fog(r) ==
  /\ cast = NoCast /\ misuse = None /\ r \in fogged /\ cast_count < MaxCasts
  /\ fogged' = fogged \ {r} /\ lasting' = lasting \ {r}
  /\ cast_count' = cast_count + 1 /\ UNCHANGED <<cw, cast, misuse, raff_list>>

CastingNext ==
  \/ \E c \in {d \in Casters : Ready(d)}, s \in CastSpells : \E t \in SpellTargets(c, s) : do_cast(c, s, t)
  \/ \E c \in {d \in CastPlayers : Ready(d)}, o \in DOMAIN Rods, d \in Casters \union {None},
        obj \in DOMAIN Rods \union {None} : do_use(c, o, d, obj)
  \/ call_magic \/ spell_chain_lightning \/ spell_fear
  \/ PayForSpell \/ NextOfScroll \/ NextOfStaff \/ WandUsed
  \/ raff_update
  \/ \E r \in CastRooms : do_fog(r) \/ do_evap_fog(r)

CastingSpec == CastingInit /\ [][CastingNext]_castVars

-----------------------------------------------------------------------------
CastingTypeOK ==
  /\ \A c \in Casters : /\ Here(cw, c) <=> \E r \in CastRooms : c \in ToSet(cw.spot[r])
                        /\ cw.hp[c] \in 0..MaxHealth /\ cw.mana[c] \in 0..MaxMana
                        /\ cw.life[c] \in {"here", "menu", "freed", "unborn"}
                        /\ cw.master[c] \in Casters \union {None}
  /\ \A o \in DOMAIN Rods : cw.rods[o] \in GoneRod..Rods[o].max
  /\ cast.phase \in {None, "call", "back", "chain", "fear"}
  /\ fogged \subseteq CastRooms /\ lasting \subseteq fogged
  /\ misuse \in {None, "caster", "target", "object", "stroke", "frightened", "payer", "scroll", "next"}

CasterFell == cast.by # None /\ ~Here(cw, cast.by)

\* What a command reaches is still in the game (spell_parser.c, call_magic,
\* mag_objectmagic; spells.c), except that the second spell of a scroll or a potion
\* goes to a target that the first one destroyed, the scroll itself included; that
\* a staff goes on to a pet that fell with its master or to one whom its chain
\* lightning struck; and that those who fall of their own spell go on with it.
SpellsTouchTheLiving ==
  misuse' # misuse =>
    \/ cast.src \in {"scroll", "potion"}
    \/ cast.src = "staff" /\ misuse' = "next" /\ (cast.next \in Pets \/ Head(cast.spells) = "chain")
    \/ CasterFell

\* Only a mana boost makes mana (magic.c, mag_points; spell_parser.c, do_cast): what
\* one gives by a transfer is his, and what he keeps pays for the spell.  But he who
\* has none gains the point that he cannot give.
TotalMana(v) == MapThenSumSet(LAMBDA c : v.mana[c], Casters)
Boosting == cast.phase = "call" /\ Head(cast.spells) = "boost"
ManaNotMade ==
  cw'.mana # cw.mana /\ TotalMana(cw') > TotalMana(cw) => cw.mana[cast.by] = 0 \/ Boosting

\* Fog that a spell made has the node that will end it (magic.c, mag_room,
\* affect_update), whatever else makes and clears fog in its room.
FogHasItsNode == \A r \in fogged \ lasting : \E n \in ToSet(raff_list) : n.room = r

\* The three above.
CastingSound == []FogHasItsNode /\ [][SpellsTouchTheLiving /\ ManaNotMade]_castVars
=============================================================================
