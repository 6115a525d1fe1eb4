-------------------------------- MODULE Ranks --------------------------------
(***************************************************************************)
(* How a player rises and falls (limits.c, class.c, multi.c, act.other.c,  *)
(* act.offensive.c, act.wizard.c): experience and levels, the total of     *)
(* them over several classes, the status won by beheading others, the      *)
(* legend, quest points, and what immortals do to all this.  Levels and    *)
(* experience are scaled down with their order kept.                       *)
(***************************************************************************)
EXTENDS Integers, FiniteSets, FiniteSetsExt

CONSTANTS
  MAX_MORT_LEVEL, LVL_IMMORT, LVL_GOD_ADVANCE, LVL_IMPL,
  LevelExp,        \* level_exp of a level, 0..LVL_IMPL+1, the same for all classes
  KillsFor,        \* a level that is not left without so much status
  MAX_QPOINTS, MAX_LEGEND_LEVELS,
  RankClasses, FirstClass,
  ExpGains,        \* what kills and deaths give and take, already capped
  ExpLimit         \* bound on experience

\* Immortality begins right above the mortal levels.
ASSUME RanksAssumption ==
  /\ MAX_MORT_LEVEL \in Nat \ {0} /\ LVL_IMMORT = MAX_MORT_LEVEL + 1
  /\ {LVL_GOD_ADVANCE, LVL_IMPL} \subseteq Nat
  /\ LVL_IMMORT <= LVL_GOD_ADVANCE /\ LVL_GOD_ADVANCE <= LVL_IMPL
  /\ LevelExp \in [0..(LVL_IMPL + 1) -> Nat] /\ ExpGains \subseteq Int
  /\ MAX_QPOINTS \in Nat /\ MAX_LEGEND_LEVELS \in Nat \ {0}

VARIABLE hero      \* the player; earlier, lowered, raised and drained are history:
                   \* levels of former classes, what immortals did, and spirits drained

rankVars == <<hero>>

Newcomer == [level |-> 1, exp |-> 1, tot |-> 1, status |-> 1, legend |-> 1, qpoints |-> 0,
             cls |-> FirstClass, multi |-> {}, holylight |-> FALSE,
             earlier |-> 0, lowered |-> FALSE, raised |-> FALSE, drained |-> FALSE]
\* Whatever class was chosen, everybody begins as FirstClass, and none is begun
\* as MULTI_FLAGS count it.
RanksInit == hero = Newcomer

-----------------------------------------------------------------------------
level_exp(level) == LevelExp[level]

\* From the last mortal level on to immortality; every new level is saved with
\* HOLYLIGHT set for an immortal and cleared for others.
NextLevel(h) == IF h.level >= MAX_MORT_LEVEL /\ h.level < LVL_IMMORT THEN LVL_IMMORT ELSE h.level + 1
advance_level(h) == [h EXCEPT !.holylight = (h.level >= LVL_IMMORT)]
Risen(h) == advance_level([h EXCEPT !.level = NextLevel(h), !.tot = @ + 1])

gain_exp(gain) ==
  /\ hero.level \in 1..(LVL_IMMORT - 1) /\ hero.exp + gain <= ExpLimit
  /\ hero' = [hero EXCEPT !.exp = Max({0, @ + gain})]

\* bug: the quest points are not asked for
do_gainAnyone ==
  /\ hero.level <= MAX_MORT_LEVEL /\ hero.exp >= level_exp(hero.level + 1) /\ hero' = Risen(hero)
\* One level at a time, with the status that some levels ask for.
do_gain ==
  /\ hero.level <= MAX_MORT_LEVEL
  /\ hero.level \in DOMAIN KillsFor => hero.status >= KillsFor[hero.level]
  /\ hero.exp >= level_exp(hero.level + 1)
  /\ hero.level = MAX_MORT_LEVEL => hero.qpoints >= MAX_QPOINTS
  /\ hero' = Risen(hero)

RisenIfPaid(h) == IF h.level < LVL_IMPL /\ h.exp >= level_exp(h.level + 1) THEN Risen(h) ELSE h
\* The gain is counted twice, and every level that it pays for is taken.
gain_exp_regardless(h, gain) ==
  LET paid == [h EXCEPT !.exp = Max({0, @ + 2 * gain})]
      after[k \in 0..LVL_IMPL] ==
        IF k = 0 THEN paid ELSE RisenIfPaid(after[k - 1])
  IN after[LVL_IMPL]

do_start(h) ==
  advance_level([h EXCEPT !.level = 1, !.exp = 1, !.tot = 1, !.status = 1, !.legend = 1, !.cls = FirstClass])

\* "advance": somebody who is lowered starts anew first.  Bound: once.
Advanced(new) ==
  LET h == IF new < hero.level
           THEN [do_start(hero) EXCEPT !.tot = @ - (hero.level - new), !.lowered = TRUE] ELSE hero
      dim == [h EXCEPT !.holylight = @ /\ new >= LVL_IMMORT, !.raised = TRUE]
  IN gain_exp_regardless(dim, level_exp(new) - dim.exp)
do_advance(by, new) ==
  /\ ~hero.raised /\ hero.level < by /\ new <= by /\ new # hero.level
  /\ new \in (1..MAX_MORT_LEVEL) \cup (LVL_IMMORT..LVL_IMPL)
  /\ hero' = Advanced(new)

\* A new class, which is not one that was begun in this way before.  Nothing but
\* level, class and experience begins anew.
do_multi(c) ==
  /\ c # hero.cls /\ c \notin hero.multi /\ hero.level >= LVL_IMMORT - 1
  /\ hero' = [hero EXCEPT !.level = 1, !.cls = c, !.exp = 1, !.multi = @ \cup {c}, !.tot = @ + 1,
                          !.earlier = @ + hero.level]

-----------------------------------------------------------------------------
\* Status: "train avatar" makes 2 of 1; beheading somebody of at least the same
\* status adds 1, and whoever is beheaded begins with 1 again.
do_train_avatar == hero.status = 1 /\ hero' = [hero EXCEPT !.status = 2]
do_decapitate == hero.status < 3 /\ hero' = [hero EXCEPT !.status = @ + 1]
Beheaded == hero' = [hero EXCEPT !.status = 1]

\* "train legend" stops at the last one, the spirit of a victim of the same level
\* does not.  Bound: one more than the names that "who" has for legends.
do_train_legend == hero.legend < MAX_LEGEND_LEVELS /\ hero' = [hero EXCEPT !.legend = @ + 1]
DrainSpirit == hero.legend <= MAX_LEGEND_LEVELS /\ hero' = [hero EXCEPT !.legend = @ + 1, !.drained = TRUE]

\* Quest points are won in wars of clans or given, never beyond the maximum.
inc_kill_counters == hero.qpoints < MAX_QPOINTS /\ hero' = [hero EXCEPT !.qpoints = @ + 1]
do_addquest(addp) ==
  hero.level < LVL_IMMORT /\ hero' = [hero EXCEPT !.qpoints = @ + Min({addp, MAX_QPOINTS - @})]

RanksNext ==
  \/ \E g \in ExpGains : gain_exp(g)
  \/ do_gain \/ do_train_avatar \/ do_decapitate \/ Beheaded \/ do_train_legend \/ DrainSpirit
  \/ \E c \in RankClasses : do_multi(c)
  \/ inc_kill_counters \/ do_addquest(MAX_QPOINTS)
  \/ \E by \in LVL_GOD_ADVANCE..LVL_IMPL, new \in 1..LVL_IMPL : do_advance(by, new)
RanksSpec == RanksInit /\ [][RanksNext]_rankVars

-----------------------------------------------------------------------------
RanksTypeOK ==
  /\ hero.level \in (1..MAX_MORT_LEVEL) \cup (LVL_IMMORT..LVL_IMPL) /\ hero.exp \in Nat
  /\ hero.status \in 1..3 /\ hero.multi \subseteq RankClasses /\ hero.qpoints \in 0..MAX_QPOINTS

\* However kills, deaths, new classes and immortals mix: the total counts every
\* level of every class, unless an immortal lowered the player; nobody is
\* immortal who neither has all quest points nor was advanced; a mortal has an
\* immortal's light only from the new class of a former immortal to his next
\* level; and a legend beyond the names for it comes from spirits alone
\* (do_gain, advance_level, do_multi, do_advance, act.wizard.c 1392-1472).
RanksSound ==
  /\ ~hero.lowered => hero.tot = hero.level + hero.earlier
  /\ hero.level >= LVL_IMMORT => hero.raised \/ hero.qpoints = MAX_QPOINTS
  /\ hero.holylight /\ hero.level < LVL_IMMORT => hero.level = 1 /\ hero.multi # {}
  /\ hero.legend > MAX_LEGEND_LEVELS => hero.drained
=============================================================================
