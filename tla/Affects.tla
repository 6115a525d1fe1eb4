------------------------------- MODULE Affects -------------------------------
(***************************************************************************)
(* What spells and equipment do to a character (handler.c, magic.c, db.c): *)
(* the list ch->affected, what is worn, and the values and flags that both *)
(* change.  max_hit stands for the values of ch->points, which are changed *)
(* by additions only, and dex for the abilities, which affect_total starts *)
(* anew from real_abils.                                                   *)
(***************************************************************************)
EXTENDS Integers, Sequences, FiniteSets, FiniteSetsExt, SequencesExt

CONSTANTS
  Spells,            \* [type, effects, accum_dur, accum_aff]; an effect is [loc, mod, dur, bit]
  Gear,              \* what may be worn: [mod, bits, anti]; anti: the wearer's enemies
  Redone,            \* what oedit may make of mod
  Innate,            \* flags of the mobile's prototype
  SByte,             \* modifiers are signed bytes, -SByte..SByte-1
  MAX_AFFECT,        \* affects in a record of the player file
  MAX_ABILITY,       \* 18 for a player, 25 for a mobile
  MaxDur, MaxEvents  \* bounds on durations and on what happens

VARIABLES
  is_npc,
  me,                \* [affected, max_hit, dex, bits, original]: the character, of
                     \* whose affects the last one that was added comes first
  gear_worn,         \* what he wears
  gear_mod,          \* obj->affected[].modifier of what there is
  real_dex,
  evil,              \* whether the gear that is anti him lets him wear it
  file,              \* his record in the player file
  own_hit, own_bits, \* max_hit and flags that he has of himself
  tampered,          \* oedit changed something that was worn
  events, last_event

affectVars == <<is_npc, me, gear_worn, gear_mod, real_dex, evil, file, own_hit, own_bits,
                tampered, events, last_event>>

NoAffect == [type |-> "none", loc |-> "none", mod |-> 0, dur |-> 0, bit |-> "none"]
Bits(af) == IF af.bit = "none" THEN {} ELSE {af.bit}
Total(list, loc) == FoldLeft(LAMBDA sum, af : sum + (IF af.loc = loc THEN af.mod ELSE 0), 0, list)
Worth(items) == FoldSet(LAMBDA o, sum : sum + gear_mod[o], 0, items)
\* The flags that affects and gear give.
Laden(list, items) == UNION ({Bits(list[i]) : i \in DOMAIN list} \cup {Gear[o].bits : o \in items})

AffectsInit ==
  /\ is_npc \in BOOLEAN
  /\ own_bits = (IF is_npc THEN Innate ELSE {}) /\ own_hit = 5 /\ real_dex = 2
  /\ me = [affected |-> <<>>, max_hit |-> own_hit, dex |-> real_dex, bits |-> own_bits,
           original |-> is_npc]
  /\ gear_worn = {} /\ gear_mod = [o \in DOMAIN Gear |-> Gear[o].mod] /\ evil \in BOOLEAN
  /\ file = [affected |-> <<>>, max_hit |-> own_hit, bits |-> own_bits]
  /\ tampered = FALSE /\ events = 0 /\ last_event = "none"

-----------------------------------------------------------------------------
(* handler.c.  m is the character, items what he wears. *)

\* All is taken back and given again, so that max_hit is as before and a flag
\* that one source took away while another gives it returns.
affect_total(m, items) ==
  [m EXCEPT !.bits = @ \cup Laden(m.affected, items),
            !.dex  = Max({0, Min({real_dex + Total(m.affected, "dex"), MAX_ABILITY})})]

Gained(m, loc, mod) == IF loc = "max_hit" THEN [m EXCEPT !.max_hit = @ + mod] ELSE m

affect_to_char(m, items, af) ==
  affect_total(Gained([m EXCEPT !.affected = <<af>> \o @, !.bits = @ \cup Bits(af)], af.loc, af.mod), items)

\* "af->type = SPELL_CORPSE_HOST" assigns: somebody who plays the body of
\* another returns to his own, and the affect stays under its new type.
affect_remove(m, items, i) ==
  LET af == m.affected[i]
  IN IF m.original THEN [m EXCEPT !.affected[i].type = "corpse_host", !.original = FALSE]
     ELSE affect_total(Gained([m EXCEPT !.affected = RemoveAt(@, i), !.bits = @ \ Bits(af)],
                              af.loc, -af.mod), items)

affect_from_char(m, items, type) ==
  LET pass(x, af) == IF \E i \in DOMAIN x.affected : x.affected[i] = af
                     THEN affect_remove(x, items, CHOOSE i \in DOMAIN x.affected : x.affected[i] = af) ELSE x
  IN FoldLeft(pass, m, SelectSeq(m.affected, LAMBDA af : af.type = type))
\* "while (ch->affected) affect_remove(ch, ch->affected)".
RECURSIVE RemovedWhile(_, _, _)
RemovedWhile(m, items, n) ==
  IF m.affected = <<>> \/ n = 0 THEN m ELSE RemovedWhile(affect_remove(m, items, 1), items, n - 1)
AllRemoved(m, items) == RemovedWhile(m, items, 2 * Len(m.affected))

\* A signed byte.
AsByte(n) == ((n + SByte) % (2 * SByte)) - SByte
affect_join(m, items, af, add_dur, add_mod) ==
  LET same == {i \in DOMAIN m.affected : m.affected[i].type = af.type /\ m.affected[i].loc = af.loc}
      old  == m.affected[Min(same)]
      joined == [af EXCEPT !.dur = IF add_dur THEN @ + old.dur ELSE @,
                           !.mod = IF add_mod THEN AsByte(@ + old.mod) ELSE @]
  IN IF same = {} THEN affect_to_char(m, items, af)
     ELSE affect_to_char(affect_remove(m, items, Min(same)), items, joined)

-----------------------------------------------------------------------------
(* What happens to him.  Bound: MaxEvents. *)

Event(e) == events < MaxEvents /\ events' = events + 1 /\ last_event' = e
Unworn == <<gear_worn, gear_mod, tampered>>
Self   == <<is_npc, real_dex, evil, own_hit, own_bits>>

\* ANTI_MAGIC leaves a third, rounded to zero.
Weakened(af) == [af EXCEPT !.mod = IF @ < 0 THEN -((-@) \div 3) ELSE @ \div 3, !.dur = @ \div 3]

\* A mobile is not given what it has of itself, and nobody the same spell twice
\* unless it adds up.
mag_affects(sp) ==
  LET affs == [i \in DOMAIN sp.effects |->
                 LET e == [type |-> sp.type] @@ sp.effects[i]
                 IN IF "anti_magic" \in me.bits THEN Weakened(e) ELSE e]
      had == \E i \in DOMAIN me.affected : me.affected[i].type = sp.type
  IN /\ Event("cast")
     /\ ~(is_npc /\ ~had /\ \E i \in DOMAIN affs : Bits(affs[i]) \cap me.bits # {})
     /\ had => sp.accum_dur \/ sp.accum_aff
     /\ me' = FoldLeft(LAMBDA m, af : affect_join(m, gear_worn, af, sp.accum_dur, sp.accum_aff), me, affs)
     /\ \A i \in DOMAIN me'.affected : me'.affected[i].dur <= MaxDur
     /\ UNCHANGED <<Self, Unworn, file>>

\* Cures remove the affects of one spell; dispel magic those of one after another.
mag_unaffects(type) ==
  /\ Event("cure")
  /\ me' = affect_from_char(me, gear_worn, type) /\ me' # me
  /\ UNCHANGED <<Self, Unworn, file>>

\* The hourly walk; at: the affect that is looked at.
affect_update ==
  LET look(x, k) ==
        LET af == x.m.affected[x.at]
        IN CASE af.dur >= 1  -> [m |-> [x.m EXCEPT !.affected[x.at].dur = @ - 1], at |-> x.at + 1]
             [] af.dur = -1  -> [x EXCEPT !.at = @ + 1]
             [] af.dur = 0   -> [m |-> affect_remove(x.m, gear_worn, x.at),
                                 at |-> IF x.m.original THEN x.at + 1 ELSE x.at]
  IN /\ me.affected # <<>> /\ last_event' = "tick"
     /\ me' = FoldLeft(look, [m |-> me, at |-> 1], me.affected).m
     /\ UNCHANGED <<Self, Unworn, file, events>>

\* What is anti him is let go of at once.
Put(m, items, o) ==
  IF evil /\ Gear[o].anti THEN [m |-> m, items |-> items]
  ELSE [m |-> affect_total(Gained([m EXCEPT !.bits = @ \cup Gear[o].bits], "max_hit", gear_mod[o]),
                           items \cup {o}),
        items |-> items \cup {o}]
Off(m, items, o) ==
  affect_total(Gained([m EXCEPT !.bits = @ \ Gear[o].bits], "max_hit", -gear_mod[o]), items \ {o})

equip_char(o) ==
  /\ Event("wear") /\ o \notin gear_worn
  /\ gear_worn' = Put(me, gear_worn, o).items /\ me' = Put(me, gear_worn, o).m
  /\ UNCHANGED <<Self, gear_mod, tampered, file>>
unequip_char(o) ==
  /\ Event("remove") /\ o \in gear_worn
  /\ gear_worn' = gear_worn \ {o} /\ me' = Off(me, gear_worn, o)
  /\ UNCHANGED <<Self, gear_mod, tampered, file>>

\* A builder saves the prototype, whose modifiers every such object gets at
\* once, on whomever it is; the flags that it gives are kept.
oedit_save_internally(o) ==
  /\ Event("oedit")
  /\ \E mod \in Redone : gear_mod' = [gear_mod EXCEPT ![o] = mod]
  /\ tampered' = (tampered \/ o \in gear_worn)
  /\ UNCHANGED <<Self, me, gear_worn, file>>

\* "set maxhit" writes the value that has everything in it.
perform_set(n) ==
  /\ Event("set")
  /\ me' = [me EXCEPT !.max_hit = n]
  /\ own_hit' = n - Total(me.affected, "max_hit") - Worth(gear_worn)
  /\ UNCHANGED <<is_npc, real_dex, evil, own_bits, Unworn, file>>

\* Flags like HIDE are set and cleared without an affect: an attempt ends the old
\* hiding and may begin a new one.
do_hide ==
  /\ Event("hide")
  /\ \E hidden \in SUBSET {"hide"} :
       /\ me' = [me EXCEPT !.bits = (@ \ {"hide"}) \cup hidden]
       /\ own_bits' = (own_bits \ {"hide"}) \cup hidden
  /\ UNCHANGED <<is_npc, real_dex, evil, own_hit, Unworn, file>>

\* His deeds change what he may wear, at the next time that he is dressed.
AlignmentTurns == Event("turn") /\ evil' = ~evil /\ UNCHANGED <<is_npc, real_dex, own_hit, own_bits, me, Unworn, file>>

\* All that is worn is taken off and all affects are removed, so that what he has
\* of himself is written; then he gets back the affects that are in the
\* record, in turn, and is dressed again.
Undressed == FoldSet(LAMBDA o, x : [m |-> Off(x.m, x.items, o), items |-> x.items \ {o}],
                     [m |-> me, items |-> gear_worn], gear_worn).m
Recorded(list) == SubSeq(list, 1, Min({Len(list), MAX_AFFECT}))
Dressed(m, items) == FoldSet(LAMBDA o, x : Put(x.m, x.items, o), [m |-> m, items |-> {}], items)
Restored(m, list) == FoldLeft(LAMBDA x, af : affect_to_char(x, {}, af), m, list)

\* bug: the affects are not taken off before they are given again.
char_to_storeAffected ==
  LET raw == Undressed
  IN [rec |-> [affected |-> Recorded(me.affected), max_hit |-> raw.max_hit, bits |-> raw.bits],
      m |-> Restored([raw EXCEPT !.dex = real_dex], Recorded(me.affected))]
char_to_store ==
  LET raw == AllRemoved(Undressed, {})
  IN [rec |-> [affected |-> Recorded(me.affected), max_hit |-> raw.max_hit, bits |-> raw.bits],
      m |-> Restored([raw EXCEPT !.dex = real_dex], Recorded(me.affected))]

save_char ==
  LET d == Dressed(char_to_store.m, gear_worn)
  IN /\ Event("save") /\ ~is_npc
     /\ file' = char_to_store.rec
     /\ me' = d.m /\ gear_worn' = d.items
     /\ UNCHANGED <<Self, gear_mod, tampered>>

\* He left the game when he was last saved, and enters it again, dressed as then
\* or not.
store_to_char ==
  LET bare == [affected |-> <<>>, max_hit |-> file.max_hit, dex |-> real_dex, bits |-> file.bits, original |-> FALSE]
  IN /\ Event("enter") /\ last_event = "save"
     /\ \E items \in {gear_worn, {}} :
          /\ me' = Dressed(Restored(bare, file.affected), items).m
          /\ gear_worn' = Dressed(Restored(bare, file.affected), items).items
     /\ UNCHANGED <<Self, gear_mod, tampered, file>>

AffectsNext ==
  \/ \E i \in DOMAIN Spells : mag_affects(Spells[i]) \/ mag_unaffects(Spells[i].type)
  \/ \E o \in DOMAIN Gear : equip_char(o) \/ unequip_char(o) \/ oedit_save_internally(o)
  \/ affect_update \/ perform_set(4) \/ do_hide \/ AlignmentTurns \/ save_char \/ store_to_char
AffectsSpec == AffectsInit /\ [][AffectsNext]_affectVars

-----------------------------------------------------------------------------
AffectsTypeOK ==
  /\ gear_worn \subseteq DOMAIN Gear /\ events \in 0..MaxEvents
  /\ \A i \in DOMAIN me.affected : me.affected[i].mod \in -SByte..(SByte - 1) /\ me.affected[i].dur \in -1..MaxDur
  /\ Len(file.affected) <= MAX_AFFECT

\* However spells join, wear off and are dispelled, gear is put on, zapped off
\* and edited, and whoever returns from the body meanwhile: max_hit is what he
\* has of himself and what his affects and gear give, unless a thing was
\* edited on him; his abilities are in their range; and a flag is there while
\* something gives it and no longer (handler.c 225-383, db.c 2619-2797).
EffectsAddUp ==
  /\ tampered \/ me.max_hit = own_hit + Total(me.affected, "max_hit") + Worth(gear_worn)
  /\ me.dex = Max({0, Min({real_dex + Total(me.affected, "dex"), MAX_ABILITY})})
  /\ Laden(me.affected, gear_worn) \subseteq me.bits
  /\ me.bits \subseteq Laden(me.affected, gear_worn) \cup own_bits

HowOften(list, af) == Cardinality({i \in DOMAIN list : list[i] = af})
Alike(a, b) == \A i \in DOMAIN a : HowOften(a, a[i]) = HowOften(b, a[i])
\* Saving a player is not felt by him, whoever saves him when: he has the same
\* affects and values, but for those beyond MAX_AFFECT, which he loses, and for
\* what he is no longer let wear (char_to_store).
SavingIsUnfelt ==
  [][last_event' = "save" /\ events' # events /\ Len(me.affected) <= MAX_AFFECT =>
       /\ Alike(me.affected, me'.affected)
       /\ gear_worn' = gear_worn /\ ~tampered => me'.max_hit = me.max_hit /\ me'.dex = me.dex]_affectVars

AffectsSound == []EffectsAddUp /\ SavingIsUnfelt
=============================================================================
