---------------------------- MODULE RealmProofs ----------------------------
(***************************************************************************)
(* Theorems about the small components that MCRealm checks side by side:   *)
(* what an advancement through levels, classes and immortals keeps         *)
(* (Ranks), that a search finds the first step of a shortest path          *)
(* (Tracking), that no two board messages share a place in memory          *)
(* (Boards), that houses are flagged as their records say (Houses), that   *)
(* the online editors ask before a change is lost (OlcMenus), that rider   *)
(* and mount stay paired (Riding), that resets, doors and the editor of    *)
(* rooms leave each other whole (Zones), and that a spell or a magic thing *)
(* never goes on to one who has left the game (Casting).                   *)
(***************************************************************************)
EXTENDS Ranks, Tracking, Boards, Houses, OlcMenus, Riding, Zones, Casting,
        FiniteSetTheorems, SequenceTheorems, WellFoundedInduction, TLAPS

(* Induction over the natural numbers, for a set in place of a predicate.  *)
LEMMA NatSetInduction ==
    ASSUME NEW P \in SUBSET Nat, 0 \in P, \A n \in P : n + 1 \in P
    PROVE  P = Nat
<1> DEFINE R == {xy \in Nat \X Nat : xy[1] < xy[2]}
           T == Nat \ P
<1>1. IsWellFoundedOn(R, Nat)
  BY NatLessThanWellFounded DEF OpToRel
<1>2. SUFFICES ASSUME T # {} PROVE FALSE
  OBVIOUS
<1> HIDE DEF R
<1>3. PICK x \in T : \A y \in T : ~ (<<y, x>> \in R)
  BY <1>1, <1>2, WFMin
<1>4. x # 0 /\ x - 1 \in Nat /\ x - 1 < x
  BY <1>3
<1>5. <<x - 1, x>> \in R
  BY <1>4 DEF R
<1>6. x - 1 \in P
  BY <1>3, <1>4, <1>5
<1>7. QED
  BY <1>3, <1>6

(* A recursive function over 0..n whose next value follows from the last.  *)
Steps(x, n, step, g) ==
    g = [k \in 0..n |-> IF k = 0 THEN x ELSE step[<<k, g[k - 1]>>]]

LEMMA StepsExist ==
    ASSUME NEW S, NEW x \in S, NEW N \in Nat, NEW step \in [Nat \X S -> S]
    PROVE  \E g \in [0..N -> S] : Steps(x, N, step, g)
<1> DEFINE P == {n \in Nat : \E g \in [0..n -> S] : Steps(x, n, step, g)}
<1>1. 0 \in P
  <2> DEFINE f == [k \in 0..0 |-> x]
  <2>1. f \in [0..0 -> S] /\ Steps(x, 0, step, f)
    BY DEF Steps
  <2>2. QED
    BY <2>1
<1>2. ASSUME NEW n \in P PROVE n + 1 \in P
  <2>1. PICK g \in [0..n -> S] : Steps(x, n, step, g)
    BY <1>2
  <2>2. n \in Nat /\ n + 1 \in Nat
    BY <1>2
  <2> DEFINE f == [k \in 0..(n + 1) |-> IF k = n + 1 THEN step[<<n + 1, g[n]>>] ELSE g[k]]
  <2>3. ASSUME NEW k \in 0..(n + 1)
        PROVE  /\ f[k] = IF k = 0 THEN x ELSE step[<<k, f[k - 1]>>]
               /\ f[k] \in S
    <3>1. CASE k = n + 1
      <4>1. f[k] = step[<<n + 1, g[n]>>] /\ f[k - 1] = g[n] /\ g[n] \in S /\ k # 0
        BY <2>2, <3>1
      <4>2. QED
        BY <2>2, <3>1, <4>1
    <3>2. CASE k # n + 1
      <4>1. k \in 0..n /\ (k # 0 => k - 1 \in 0..n)
        BY <2>2, <3>2
      <4>2. g[k] = IF k = 0 THEN x ELSE step[<<k, g[k - 1]>>]
        BY <2>1, <4>1 DEF Steps
      <4>3. f[k] = g[k] /\ (k # 0 => f[k - 1] = g[k - 1]) /\ g[k] \in S
        BY <2>2, <3>2, <4>1
      <4>4. QED
        BY <4>2, <4>3
    <3>3. QED
      BY <3>1, <3>2
  <2>4. f = [k \in 0..(n + 1) |-> f[k]]
    OBVIOUS
  <2> HIDE DEF f
  <2>5. f = [k \in 0..(n + 1) |-> IF k = 0 THEN x ELSE step[<<k, f[k - 1]>>]]
    BY <2>3, <2>4
  <2>6. f \in [0..(n + 1) -> S]
    BY <2>3, <2>4
  <2>7. Steps(x, n + 1, step, f)
    BY <2>5 DEF Steps
  <2>8. QED
    BY <2>2, <2>6, <2>7
<1> HIDE DEF P
<1>3. P = Nat
  BY <1>1, <1>2, NatSetInduction DEF P
<1>4. QED
  BY <1>3 DEF P

-----------------------------------------------------------------------------
(* Ranks.  Everything that is kept of a player, and the part of RanksSound *)
(* that raising somebody level by level does not break.                    *)
Levels == (1..MAX_MORT_LEVEL) \cup (LVL_IMMORT..LVL_IMPL)

Hero ==
    [level : Levels, exp : Nat, tot : Int, status : 1..3, legend : Nat,
     qpoints : 0..MAX_QPOINTS, cls : RankClasses \cup {FirstClass},
     multi : SUBSET RankClasses, holylight : BOOLEAN, earlier : Nat,
     lowered : BOOLEAN, raised : BOOLEAN, drained : BOOLEAN]

HeroSound(h) ==
    /\ h \in Hero
    /\ ~h.lowered => h.tot = h.level + h.earlier
    /\ h.level >= LVL_IMMORT => h.raised \/ h.qpoints = MAX_QPOINTS
    /\ h.holylight /\ h.level < LVL_IMMORT => h.level = 1 /\ h.multi # {}
    /\ h.legend > MAX_LEGEND_LEVELS => h.drained

LEMMA TheLarger ==
    ASSUME NEW a \in Int, NEW b \in Int
    PROVE  Max({a, b}) \in {a, b} /\ Max({a, b}) >= a /\ Max({a, b}) >= b
<1>1. \E x \in {a, b} : \A y \in {a, b} : x >= y
  OBVIOUS
<1>2. QED
  BY <1>1 DEF Max

LEMMA TheSmaller ==
    ASSUME NEW a \in Int, NEW b \in Int
    PROVE  Min({a, b}) \in {a, b} /\ Min({a, b}) <= a /\ Min({a, b}) <= b
<1>1. \E x \in {a, b} : \A y \in {a, b} : x <= y
  OBVIOUS
<1>2. QED
  BY <1>1 DEF Min

(* One level up, for whoever has the quest points or was raised.           *)
LEMMA RisenWhole ==
    ASSUME NEW h, HeroSound(h), h.level < LVL_IMPL,
           h.level < MAX_MORT_LEVEL \/ h.raised \/ h.qpoints = MAX_QPOINTS
    PROVE  HeroSound(Risen(h)) /\ Risen(h).raised = h.raised
<1> DEFINE n == NextLevel(h)
           u == Risen(h)
<1>1. h \in Hero /\ h.level \in Nat
  BY RanksAssumption DEF HeroSound, Hero, Levels
<1>2. n = h.level + 1 /\ n \in Levels /\ n \in Nat
  BY <1>1, RanksAssumption DEF NextLevel, Levels, Hero
<1> DEFINE b == n >= LVL_IMMORT
           t == h.tot + 1
<1>3. u = [[h EXCEPT !.level = n, !.tot = t] EXCEPT !.holylight = b]
  BY <1>1 DEF Risen, advance_level, Hero
<1>11. /\ b \in BOOLEAN /\ t \in Int /\ t = h.tot + 1 /\ LVL_IMMORT \in Nat
       /\ b <=> n >= LVL_IMMORT
  BY <1>1, RanksAssumption DEF Hero
<1> HIDE DEF n, b, t
<1>4. /\ u.level = n /\ u.tot = h.tot + 1 /\ u.holylight = b
      /\ u.exp = h.exp /\ u.status = h.status /\ u.legend = h.legend
      /\ u.qpoints = h.qpoints /\ u.multi = h.multi /\ u.earlier = h.earlier
      /\ u.lowered = h.lowered /\ u.raised = h.raised /\ u.drained = h.drained
  BY <1>1, <1>3, <1>11 DEF Hero
<1>10. u \in Hero
  BY <1>1, <1>2, <1>3, <1>11 DEF Hero
<1> HIDE DEF u
<1>5. ~u.lowered => u.tot = u.level + u.earlier
  BY <1>1, <1>2, <1>4 DEF HeroSound, Hero
<1>6. u.level >= LVL_IMMORT => u.raised \/ u.qpoints = MAX_QPOINTS
  BY <1>1, <1>2, <1>4, RanksAssumption
<1>7. u.holylight /\ u.level < LVL_IMMORT => u.level = 1 /\ u.multi # {}
  BY <1>2, <1>4, <1>11
<1>8. u.legend > MAX_LEGEND_LEVELS => u.drained
  BY <1>4 DEF HeroSound
<1>9. QED
  BY <1>4, <1>5, <1>6, <1>7, <1>8, <1>10 DEF HeroSound, u

(* The loop of gain_exp_regardless as a function of how often it has gone  *)
(* round.                                                                  *)
Rounds(x, n, g) ==
    g = [k \in 0..n |-> IF k = 0 THEN x ELSE RisenIfPaid(g[k - 1])]

LEMMA RoundsExist ==
    ASSUME NEW x, NEW N \in Nat
    PROVE  \E g : Rounds(x, N, g)
<1> DEFINE P == {n \in Nat : \E g : Rounds(x, n, g)}
<1>1. 0 \in P
  <2>1. Rounds(x, 0, [k \in 0..0 |-> x])
    BY DEF Rounds
  <2>2. QED
    BY <2>1
<1>2. ASSUME NEW n \in P PROVE n + 1 \in P
  <2>1. PICK g : Rounds(x, n, g)
    BY <1>2
  <2>2. n \in Nat /\ n + 1 \in Nat
    BY <1>2
  <2> DEFINE f == [k \in 0..(n + 1) |-> IF k = n + 1 THEN RisenIfPaid(g[n]) ELSE g[k]]
  <2>3. ASSUME NEW k \in 0..(n + 1)
        PROVE  f[k] = IF k = 0 THEN x ELSE RisenIfPaid(f[k - 1])
    <3>1. CASE k = n + 1
      BY <2>2, <3>1
    <3>2. CASE k # n + 1
      <4>1. k \in 0..n /\ (k # 0 => k - 1 \in 0..n)
        BY <2>2, <3>2
      <4>2. g[k] = IF k = 0 THEN x ELSE RisenIfPaid(g[k - 1])
        BY <2>1, <4>1 DEF Rounds
      <4>3. f[k] = g[k] /\ (k # 0 => f[k - 1] = g[k - 1])
        BY <2>2, <3>2, <4>1
      <4>4. QED
        BY <4>2, <4>3
    <3>3. QED
      BY <3>1, <3>2
  <2>4. f = [k \in 0..(n + 1) |-> IF k = 0 THEN x ELSE RisenIfPaid(f[k - 1])]
    <3>1. f = [k \in 0..(n + 1) |-> f[k]]
      OBVIOUS
    <3> HIDE DEF f
    <3>2. QED
      BY <2>3, <3>1
  <2> HIDE DEF f
  <2>5. Rounds(x, n + 1, f)
    BY <2>4 DEF Rounds
  <2>6. QED
    BY <2>2, <2>5
<1> HIDE DEF P
<1>3. P = Nat
  BY <1>1, <1>2, NatSetInduction DEF P
<1>4. QED
  BY <1>3 DEF P

(* Whoever was raised stays whole, however many levels his experience pays *)
(* for.                                                                    *)
LEMMA RaisedWhole ==
    ASSUME NEW h, NEW gain \in Int, HeroSound(h), h.raised
    PROVE  HeroSound(gain_exp_regardless(h, gain))
<1> DEFINE e == Max({0, h.exp + 2 * gain})
           paid == [h EXCEPT !.exp = e]
           g == CHOOSE f : Rounds(paid, LVL_IMPL, f)
           P == {k \in Nat : k <= LVL_IMPL => HeroSound(g[k]) /\ g[k].raised}
<1>1. h \in Hero /\ h.exp \in Int /\ LVL_IMPL \in Nat
  BY RanksAssumption DEF HeroSound, Hero
<1>2. e \in Nat
  <2>1. h.exp + 2 * gain \in Int /\ 0 \in Int
    BY <1>1
  <2>2. e >= 0 /\ e \in {0, h.exp + 2 * gain}
    BY <2>1, TheLarger
  <2>3. QED
    BY <2>1, <2>2
<1>3. gain_exp_regardless(h, gain) = g[LVL_IMPL]
  BY DEF gain_exp_regardless, Rounds
<1>4. HeroSound(paid) /\ paid.raised
  <2> HIDE DEF e
  <2>1. /\ paid \in Hero /\ paid.level = h.level /\ paid.tot = h.tot
        /\ paid.legend = h.legend /\ paid.qpoints = h.qpoints
        /\ paid.multi = h.multi /\ paid.holylight = h.holylight
        /\ paid.earlier = h.earlier /\ paid.lowered = h.lowered
        /\ paid.raised = h.raised /\ paid.drained = h.drained
    BY <1>1, <1>2 DEF Hero
  <2>2. QED
    BY <2>1 DEF HeroSound
<1> HIDE DEF paid
<1>5. Rounds(paid, LVL_IMPL, g)
  BY <1>1, RoundsExist
<1> HIDE DEF g
<1>6. 0 \in P
  BY <1>1, <1>4, <1>5 DEF Rounds
<1>7. ASSUME NEW k \in P PROVE k + 1 \in P
  <2> SUFFICES ASSUME k + 1 <= LVL_IMPL
               PROVE  HeroSound(g[k + 1]) /\ g[k + 1].raised
    BY <1>7
  <2>1. k \in Nat /\ HeroSound(g[k]) /\ g[k].raised
    BY <1>1, <1>7
  <2>2. g[k + 1] = RisenIfPaid(g[k])
    BY <1>1, <1>5, <2>1 DEF Rounds
  <2>3. QED
    BY <2>1, <2>2, RisenWhole DEF RisenIfPaid
<1> HIDE DEF P
<1>8. P = Nat
  BY <1>6, <1>7, NatSetInduction DEF P
<1>9. QED
  BY <1>1, <1>3, <1>8 DEF P

LEMMA AdvancedWhole ==
    ASSUME HeroSound(hero), NEW new \in Levels, new # hero.level
    PROVE  HeroSound(Advanced(new))
<1> DEFINE low == [do_start(hero) EXCEPT !.tot = @ - (hero.level - new), !.lowered = TRUE]
           h == IF new < hero.level THEN low ELSE hero
           dark == h.holylight /\ new >= LVL_IMMORT
           dim == [h EXCEPT !.holylight = dark, !.raised = TRUE]
           start == [hero EXCEPT !.level = 1, !.exp = 1, !.tot = 1, !.status = 1,
                                 !.legend = 1, !.cls = FirstClass]
           lit == start.level >= LVL_IMMORT
           left == 1 - (hero.level - new)
<1>1. /\ hero \in Hero /\ hero.level \in Nat /\ new \in Nat
      /\ LVL_IMMORT \in Nat /\ LVL_IMMORT > 1 /\ 1 \in Levels
      /\ MAX_LEGEND_LEVELS \in Nat /\ MAX_LEGEND_LEVELS >= 1
      /\ LVL_IMPL \in Nat /\ new <= LVL_IMPL
  BY RanksAssumption DEF HeroSound, Hero, Levels
<1>2. Advanced(new) = gain_exp_regardless(dim, LevelExp[new] - dim.exp)
  BY DEF Advanced, level_exp
<1>3. LevelExp[new] \in Int
  BY <1>1, RanksAssumption
<1>4. start \in Hero /\ start.level = 1 /\ start.tot = 1 /\ start.legend = 1
  <2>1. 1 \in Nat /\ 1 \in Int /\ 1 \in 1..3 /\ FirstClass \in RankClasses \cup {FirstClass}
    OBVIOUS
  <2>2. start.level = 1 /\ start.tot = 1 /\ start.legend = 1
    BY <1>1 DEF Hero
  <2>3. start \in Hero
    BY <1>1, <2>1 DEF Hero
  <2>4. QED
    BY <2>2, <2>3
<1>5. do_start(hero) = [start EXCEPT !.holylight = lit]
  BY DEF do_start, advance_level
<1> HIDE DEF start
<1>6. lit = FALSE
  BY <1>1, <1>4
<1> HIDE DEF lit
<1>7. low = [[start EXCEPT !.holylight = FALSE] EXCEPT !.tot = left, !.lowered = TRUE]
  BY <1>4, <1>5, <1>6 DEF Hero
<1>8. left \in Int
  BY <1>1
<1> HIDE DEF left, low
<1>9. /\ low \in Hero /\ low.level = 1 /\ low.holylight = FALSE
      /\ low.lowered = TRUE /\ low.legend = 1
  BY <1>4, <1>7, <1>8 DEF Hero
<1>10. HeroSound(low)
  BY <1>1, <1>9 DEF HeroSound
<1>11. HeroSound(h)
  BY <1>10
<1> HIDE DEF h
<1>12. h \in Hero /\ h.level \in Nat /\ dark \in BOOLEAN
  BY <1>11, RanksAssumption, SMTT(20) DEF HeroSound, Hero, Levels
<1>13. dark => h.holylight
  OBVIOUS
<1> HIDE DEF dark
<1>14. /\ dim \in Hero /\ dim.level = h.level /\ dim.tot = h.tot
       /\ dim.exp = h.exp /\ dim.legend = h.legend /\ dim.qpoints = h.qpoints
       /\ dim.multi = h.multi /\ dim.holylight = dark
       /\ dim.earlier = h.earlier /\ dim.lowered = h.lowered
       /\ dim.raised = TRUE /\ dim.drained = h.drained
  BY <1>12 DEF Hero
<1> HIDE DEF dim
<1>15. HeroSound(dim)
  BY <1>11, <1>13, <1>14 DEF HeroSound
<1>16. LevelExp[new] - dim.exp \in Int
  BY <1>3, <1>14 DEF Hero
<1>17. QED
  BY <1>2, <1>14, <1>15, <1>16, RaisedWhole

(* A change of experience, status or quest points alone.                   *)
LEMMA SmallChange ==
    ASSUME NEW h, HeroSound(h), NEW u \in Hero,
           u.level = h.level, u.tot = h.tot, u.earlier = h.earlier,
           u.lowered = h.lowered, u.raised = h.raised,
           u.holylight = h.holylight, u.multi = h.multi,
           h.qpoints = MAX_QPOINTS => u.qpoints = MAX_QPOINTS,
           u.legend > MAX_LEGEND_LEVELS => u.drained
    PROVE  HeroSound(u)
BY DEF HeroSound

LEMMA RanksStep == HeroSound(hero) /\ RanksNext => HeroSound(hero')
<1> SUFFICES ASSUME HeroSound(hero), RanksNext PROVE HeroSound(hero')
  OBVIOUS
<1>1. /\ hero \in Hero /\ hero.level \in Nat /\ hero.exp \in Int
      /\ hero.status \in Nat /\ hero.legend \in Nat /\ hero.qpoints \in Nat
      /\ hero.tot \in Int /\ hero.earlier \in Nat
  BY RanksAssumption DEF HeroSound, Hero, Levels
<1>2. /\ LVL_IMMORT \in Nat /\ LVL_IMMORT > 1 /\ 1 \in Levels
      /\ LVL_IMPL \in Nat /\ MAX_MORT_LEVEL \in Nat
      /\ MAX_MORT_LEVEL < LVL_IMPL
      /\ MAX_QPOINTS \in Nat /\ MAX_LEGEND_LEVELS \in Nat
      /\ MAX_LEGEND_LEVELS >= 1 /\ 0 \in Int /\ 1 \in Int
  BY RanksAssumption DEF Levels
<1>3. ASSUME NEW g \in ExpGains, gain_exp(g) PROVE HeroSound(hero')
  <2> DEFINE e == Max({0, hero.exp + g})
             u == [hero EXCEPT !.exp = e]
  <2>1. hero' = u
    BY <1>3 DEF gain_exp
  <2>2. hero.exp + g \in Int
    BY <1>1, RanksAssumption
  <2>3. e >= 0 /\ e \in {0, hero.exp + g}
    BY <1>2, <2>2, TheLarger
  <2>4. e \in Nat
    BY <2>2, <2>3
  <2> HIDE DEF e
  <2>5. /\ u \in Hero /\ u.level = hero.level /\ u.tot = hero.tot
        /\ u.earlier = hero.earlier /\ u.lowered = hero.lowered
        /\ u.raised = hero.raised /\ u.holylight = hero.holylight
        /\ u.multi = hero.multi /\ u.qpoints = hero.qpoints
        /\ u.legend = hero.legend /\ u.drained = hero.drained
    BY <1>1, <2>4 DEF Hero
  <2> HIDE DEF u
  <2>6. QED
    BY <2>1, <2>5 DEF HeroSound
<1>4. ASSUME do_gain PROVE HeroSound(hero')
  <2>1. /\ hero.level <= MAX_MORT_LEVEL
        /\ hero.level = MAX_MORT_LEVEL => hero.qpoints >= MAX_QPOINTS
        /\ hero' = Risen(hero)
    BY <1>4 DEF do_gain
  <2>2. hero.qpoints <= MAX_QPOINTS
    BY <1>1, <1>2 DEF Hero
  <2>3. hero.level < LVL_IMPL
    BY <1>1, <1>2, <2>1
  <2>4. hero.level < MAX_MORT_LEVEL \/ hero.qpoints = MAX_QPOINTS
    BY <1>1, <1>2, <2>1, <2>2
  <2>5. QED
    BY <2>1, <2>3, <2>4, RisenWhole
<1>5. ASSUME do_train_avatar \/ do_decapitate \/ Beheaded PROVE HeroSound(hero')
  <2>1. PICK s \in 1..3 : hero' = [hero EXCEPT !.status = s]
    <3>1. CASE do_train_avatar
      BY <3>1 DEF do_train_avatar
    <3>2. CASE do_decapitate
      BY <3>2, <1>1 DEF do_decapitate, Hero
    <3>3. CASE Beheaded
      BY <3>3 DEF Beheaded
    <3>4. QED
      BY <1>5, <3>1, <3>2, <3>3
  <2> DEFINE u == [hero EXCEPT !.status = s]
  <2>5. /\ u \in Hero /\ u.level = hero.level /\ u.tot = hero.tot
        /\ u.earlier = hero.earlier /\ u.lowered = hero.lowered
        /\ u.raised = hero.raised /\ u.holylight = hero.holylight
        /\ u.multi = hero.multi /\ u.qpoints = hero.qpoints
        /\ u.legend = hero.legend /\ u.drained = hero.drained
    BY <1>1, <2>1 DEF Hero
  <2> HIDE DEF u
  <2>6. QED
    BY <2>1, <2>5 DEF HeroSound, u
<1>6. ASSUME do_train_legend \/ DrainSpirit PROVE HeroSound(hero')
  <2>1. PICK d \in BOOLEAN :
          /\ hero' = [hero EXCEPT !.legend = @ + 1, !.drained = d]
          /\ d \/ (d = hero.drained /\ hero.legend < MAX_LEGEND_LEVELS)
    <3>1. CASE do_train_legend
      <4>1. hero' = [hero EXCEPT !.legend = @ + 1, !.drained = hero.drained]
        BY <3>1, <1>1 DEF do_train_legend, Hero
      <4>2. hero.drained \in BOOLEAN /\ hero.legend < MAX_LEGEND_LEVELS
        BY <3>1, <1>1 DEF do_train_legend, Hero
      <4>3. QED
        BY <4>1, <4>2
    <3>2. CASE DrainSpirit
      BY <3>2 DEF DrainSpirit
    <3>3. QED
      BY <1>6, <3>1, <3>2
  <2> DEFINE l == hero.legend + 1
             u == [hero EXCEPT !.legend = l, !.drained = d]
  <2>2. l \in Nat /\ (hero.legend < MAX_LEGEND_LEVELS => ~(l > MAX_LEGEND_LEVELS))
    BY <1>1, <1>2
  <2>3. hero' = u
    BY <2>1
  <2> HIDE DEF l
  <2>5. /\ u \in Hero /\ u.level = hero.level /\ u.tot = hero.tot
        /\ u.earlier = hero.earlier /\ u.lowered = hero.lowered
        /\ u.raised = hero.raised /\ u.holylight = hero.holylight
        /\ u.multi = hero.multi /\ u.qpoints = hero.qpoints
        /\ u.legend = l /\ u.drained = d
    BY <1>1, <2>1, <2>2 DEF Hero
  <2> HIDE DEF u
  <2>6. u.legend > MAX_LEGEND_LEVELS => u.drained
    BY <2>1, <2>2, <2>5
  <2>7. QED
    BY <2>3, <2>5, <2>6, SmallChange
<1>7. ASSUME NEW c \in RankClasses, do_multi(c) PROVE HeroSound(hero')
  <2> DEFINE t == hero.tot + 1
             a == hero.earlier + hero.level
             m == hero.multi \cup {c}
             u == [hero EXCEPT !.level = 1, !.cls = c, !.exp = 1, !.multi = m,
                               !.tot = t, !.earlier = a]
  <2>1. hero' = u
    BY <1>7, <1>1 DEF do_multi, Hero
  <2>2. /\ t \in Int /\ a \in Nat /\ m \subseteq RankClasses /\ m # {}
        /\ (hero.tot = hero.level + hero.earlier => t = 1 + a)
    BY <1>1 DEF Hero
  <2> HIDE DEF t, a, m
  <2>3. /\ u \in Hero /\ u.level = 1 /\ u.tot = t
        /\ u.earlier = a /\ u.lowered = hero.lowered
        /\ u.raised = hero.raised /\ u.holylight = hero.holylight
        /\ u.multi = m /\ u.qpoints = hero.qpoints
        /\ u.legend = hero.legend /\ u.drained = hero.drained
    BY <1>1, <1>2, <2>2 DEF Hero
  <2> HIDE DEF u
  <2>4. QED
    BY <1>2, <2>1, <2>2, <2>3 DEF HeroSound
<1>8. ASSUME inc_kill_counters \/ do_addquest(MAX_QPOINTS) PROVE HeroSound(hero')
  <2> DEFINE n == Min({MAX_QPOINTS, MAX_QPOINTS - hero.qpoints})
  <2>1. /\ hero.qpoints <= MAX_QPOINTS /\ n \in {MAX_QPOINTS, MAX_QPOINTS - hero.qpoints}
        /\ n <= MAX_QPOINTS - hero.qpoints
    <3>1. MAX_QPOINTS - hero.qpoints \in Int /\ MAX_QPOINTS \in Int
      BY <1>1, <1>2
    <3>2. hero.qpoints <= MAX_QPOINTS
      BY <1>1, <1>2 DEF Hero
    <3>3. QED
      BY <3>1, <3>2, TheSmaller
  <2> HIDE DEF n
  <2>2. PICK q \in 0..MAX_QPOINTS :
          /\ hero' = [hero EXCEPT !.qpoints = q]
          /\ hero.qpoints = MAX_QPOINTS => q = MAX_QPOINTS
    <3>1. CASE inc_kill_counters
      <4>1. hero.qpoints < MAX_QPOINTS /\ hero' = [hero EXCEPT !.qpoints = hero.qpoints + 1]
        BY <3>1 DEF inc_kill_counters
      <4>2. hero.qpoints \in 0..MAX_QPOINTS /\ MAX_QPOINTS \in Nat
        BY <1>1, <1>2 DEF Hero
      <4>3. /\ hero.qpoints + 1 \in 0..MAX_QPOINTS
            /\ hero.qpoints = MAX_QPOINTS => hero.qpoints + 1 = MAX_QPOINTS
        BY <4>1, <4>2
      <4>4. QED
        BY <4>1, <4>3
    <3>2. CASE do_addquest(MAX_QPOINTS)
      <4>1. hero' = [hero EXCEPT !.qpoints = hero.qpoints + n]
        BY <3>2, <1>1 DEF do_addquest, n, Hero
      <4>2. hero.qpoints + n \in 0..MAX_QPOINTS
            /\ (hero.qpoints = MAX_QPOINTS => hero.qpoints + n = MAX_QPOINTS)
        BY <1>1, <1>2, <2>1
      <4>3. QED
        BY <4>1, <4>2
    <3>3. QED
      BY <1>8, <3>1, <3>2
  <2> DEFINE u == [hero EXCEPT !.qpoints = q]
  <2>5. /\ u \in Hero /\ u.level = hero.level /\ u.tot = hero.tot
        /\ u.earlier = hero.earlier /\ u.lowered = hero.lowered
        /\ u.raised = hero.raised /\ u.holylight = hero.holylight
        /\ u.multi = hero.multi /\ u.qpoints = q
        /\ u.legend = hero.legend /\ u.drained = hero.drained
    BY <1>1, <2>2 DEF Hero
  <2> HIDE DEF u
  <2>6. QED
    BY <2>2, <2>5 DEF HeroSound, u
<1>9. ASSUME NEW by \in LVL_GOD_ADVANCE..LVL_IMPL, NEW new \in 1..LVL_IMPL,
             do_advance(by, new)
      PROVE  HeroSound(hero')
  <2>1. new \in Levels /\ new # hero.level /\ hero' = Advanced(new)
    BY <1>9 DEF do_advance, Levels
  <2>2. QED
    BY <2>1, AdvancedWhole
<1>10. QED
  BY <1>3, <1>4, <1>5, <1>6, <1>7, <1>8, <1>9 DEF RanksNext

(* However kills, deaths, new classes and immortals mix: the total counts  *)
(* the levels of all classes, nobody is immortal without quest points who  *)
(* was not advanced, and light and legend come from where they may, for    *)
(* all numbers of levels, prices of levels and classes.                    *)
THEOREM RanksAlwaysSound == RanksSpec => []RanksSound
<1>1. RanksInit => HeroSound(hero)
  <2> SUFFICES ASSUME RanksInit PROVE HeroSound(hero)
    OBVIOUS
  <2>1. /\ 1 \in Levels /\ LVL_IMMORT \in Nat /\ LVL_IMMORT > 1
        /\ 0 \in 0..MAX_QPOINTS /\ 1 \in Nat /\ 0 \in Nat /\ 1 \in Int /\ 1 \in 1..3
        /\ FirstClass \in RankClasses \cup {FirstClass}
        /\ MAX_LEGEND_LEVELS \in Nat /\ ~(1 > MAX_LEGEND_LEVELS)
        /\ FALSE \in BOOLEAN /\ {} \in SUBSET RankClasses
    BY RanksAssumption DEF Levels
  <2>2. Newcomer \in Hero
    BY <2>1 DEF Newcomer, Hero
  <2>3. QED
    BY <2>1, <2>2 DEF RanksInit, Newcomer, HeroSound
<1>2. HeroSound(hero) /\ [RanksNext]_rankVars => HeroSound(hero)'
  BY RanksStep DEF rankVars, HeroSound, Hero
<1>3. HeroSound(hero) => RanksSound
  BY DEF HeroSound, RanksSound
<1>4. QED
  BY <1>1, <1>2, <1>3, PTL DEF RanksSpec

-----------------------------------------------------------------------------
(* Tracking.  A world as the assumption has it.                            *)
Maps == [TrackRooms -> [Dirs -> TrackRooms \cup {NOWHERE}]]
Rooms == Cardinality(TrackRooms)

LEMMA LeadsSomewhere ==
    ASSUME NEW w, w.to \in Maps, NEW x \in TrackRooms, NEW d \in Dirs
    PROVE  w.to[x][d] \in TrackRooms \cup {NOWHERE} /\ (Leads(w, x, d) => w.to[x][d] \in TrackRooms)
BY DEF Leads, Maps

LEMMA OnwardsIn ==
    ASSUME NEW w, w.to \in Maps, NEW S \in SUBSET TrackRooms
    PROVE  /\ Onwards(w, S) \in SUBSET TrackRooms
           /\ \A x \in S, d \in Dirs : Leads(w, x, d) => w.to[x][d] \in Onwards(w, S)
           /\ \A y \in Onwards(w, S) : \E x \in S, d \in Dirs : Leads(w, x, d) /\ y = w.to[x][d]
           /\ \A T \in SUBSET TrackRooms : S \subseteq T => Onwards(w, S) \subseteq Onwards(w, T)
<1>1. ASSUME NEW y \in Onwards(w, S)
      PROVE  \E x \in S, d \in Dirs : Leads(w, x, d) /\ y = w.to[x][d]
  <2>1. PICK e \in {f \in S \X Dirs : Leads(w, f[1], f[2])} : y = w.to[e[1]][e[2]]
    BY <1>1 DEF Onwards
  <2>2. QED
    BY <2>1
<1>2. ASSUME NEW T \in SUBSET TrackRooms, NEW x \in T, NEW d \in Dirs, Leads(w, x, d)
      PROVE  w.to[x][d] \in Onwards(w, T)
  <2>1. <<x, d>> \in {f \in T \X Dirs : Leads(w, f[1], f[2])}
    BY <1>2
  <2>2. QED
    BY <2>1 DEF Onwards
<1>3. Onwards(w, S) \in SUBSET TrackRooms
  BY <1>1, LeadsSomewhere
<1>4. ASSUME NEW T \in SUBSET TrackRooms, S \subseteq T
      PROVE  Onwards(w, S) \subseteq Onwards(w, T)
  BY <1>1, <1>2, <1>4
<1>5. QED
  BY <1>1, <1>2, <1>3, <1>4

LEMMA RoomsCount == Rooms \in Nat
BY TrackingAssumption, FS_CardinalityType DEF Rooms

LEMMA ReachSteps ==
    ASSUME NEW w, w.to \in Maps, NEW x \in TrackRooms
    PROVE  /\ Reach(w, x) \in [0..Rooms -> SUBSET TrackRooms]
           /\ Reach(w, x)[0] = {x}
           /\ \A n \in 1..Rooms :
                Reach(w, x)[n] = Reach(w, x)[n - 1] \cup Onwards(w, Reach(w, x)[n - 1])
<1> DEFINE S == SUBSET TrackRooms
           step == [e \in Nat \X S |-> e[2] \cup Onwards(w, e[2])]
           Is(g) == g = [n \in 0..Rooms |-> IF n = 0 THEN {x} ELSE g[n - 1] \cup Onwards(w, g[n - 1])]
           c == CHOOSE g : Is(g)
           P == {n \in Nat : n <= Rooms => c[n] \in S}
<1>1. Rooms \in Nat
  BY RoomsCount
<1>2. step \in [Nat \X S -> S] /\ {x} \in S
  BY OnwardsIn
<1>3. \E g : Is(g)
  <2> HIDE DEF step
  <2>1. PICK g \in [0..Rooms -> S] : Steps({x}, Rooms, step, g)
    BY <1>1, <1>2, StepsExist
  <2>2. ASSUME NEW n \in 0..Rooms, n # 0
        PROVE  step[<<n, g[n - 1]>>] = g[n - 1] \cup Onwards(w, g[n - 1])
    <3>1. n - 1 \in 0..Rooms /\ n \in Nat
      BY <1>1, <2>2
    <3>2. <<n, g[n - 1]>> \in Nat \X S
      BY <3>1
    <3>3. QED
      BY <3>2 DEF step
  <2>3. Is(g)
    BY <2>1, <2>2 DEF Steps
  <2>4. QED
    BY <2>3
<1>4. Is(c)
  <2> HIDE DEF Is
  <2>1. QED
    BY <1>3
<1>5. Reach(w, x) = c
  BY DEF Reach, Rooms
<1> HIDE DEF c
<1>6. \A n \in 0..Rooms : c[n] = IF n = 0 THEN {x} ELSE c[n - 1] \cup Onwards(w, c[n - 1])
  BY <1>4
<1>14. \A n \in 1..Rooms : c[n] = c[n - 1] \cup Onwards(w, c[n - 1])
  <2>1. \A n \in 1..Rooms : n \in 0..Rooms /\ n # 0
    BY <1>1
  <2>2. QED
    BY <1>6, <2>1
<1>7. P = Nat
  <2>1. 0 \in P
    <3>1. 0 \in 0..Rooms
      BY <1>1
    <3>2. c[0] = {x} /\ {x} \in S
      BY <1>2, <1>6, <3>1
    <3>3. QED
      BY <3>2
  <2>2. ASSUME NEW n \in P PROVE n + 1 \in P
    <3> SUFFICES ASSUME n + 1 <= Rooms PROVE c[n + 1] \in S
      BY <2>2
    <3>1. n \in Nat /\ n + 1 \in 0..Rooms /\ c[n] \in S
      BY <1>1, <2>2
    <3>2. c[n + 1] = c[n] \cup Onwards(w, c[n])
      <4>1. c[n + 1] = c[n + 1 - 1] \cup Onwards(w, c[n + 1 - 1])
        <5>1. n + 1 \in 1..Rooms
          BY <1>1, <3>1
        <5>2. QED
          BY <1>14, <5>1
      <4>2. n + 1 - 1 = n
        BY <3>1
      <4>3. QED
        BY <4>1, <4>2
    <3>3. QED
      BY <3>1, <3>2, OnwardsIn
  <2> HIDE DEF P
  <2>3. QED
    BY <2>1, <2>2, NatSetInduction DEF P
<1>8. \A n \in 0..Rooms : c[n] \in S
  BY <1>1, <1>7
<1>9. c = [n \in 0..Rooms |-> c[n]]
  <2>1. \A f : f = [n \in 0..Rooms |-> IF n = 0 THEN {x} ELSE c[n - 1] \cup Onwards(w, c[n - 1])]
               => f = [n \in 0..Rooms |-> f[n]]
    OBVIOUS
  <2>2. QED
    BY <1>4, <2>1
<1>10. c \in [0..Rooms -> S]
  BY <1>8, <1>9
<1>11. \A n \in 1..Rooms : n \in 0..Rooms /\ n # 0
  BY <1>1
<1>12. 0 \in 0..Rooms
  BY <1>1
<1>13. QED
  BY <1>5, <1>6, <1>10, <1>11, <1>12

(* The search by distances as a sequence without end: the last set is      *)
(* closed, as there are no more steps than rooms.                          *)
Within(w, x, n) == Reach(w, x)[IF n <= Rooms THEN n ELSE Rooms]

LEMMA LastIsClosed ==
    ASSUME NEW w, w.to \in Maps, NEW x \in TrackRooms
    PROVE  Onwards(w, Reach(w, x)[Rooms]) \subseteq Reach(w, x)[Rooms]
<1> DEFINE R == Reach(w, x)
           Closed(n) == Onwards(w, R[n]) \subseteq R[n]
           P == {n \in Nat : n <= Rooms => Closed(n) \/ Cardinality(R[n]) >= n + 1}
<1>1. /\ Rooms \in Nat /\ R \in [0..Rooms -> SUBSET TrackRooms] /\ R[0] = {x}
      /\ \A n \in 1..Rooms : R[n] = R[n - 1] \cup Onwards(w, R[n - 1])
  BY RoomsCount, ReachSteps
<1> HIDE DEF R
<1>2. \A n \in 0..Rooms : /\ IsFiniteSet(R[n]) /\ Cardinality(R[n]) \in Nat
                          /\ Cardinality(R[n]) <= Rooms
  BY <1>1, TrackingAssumption, FS_Subset, FS_CardinalityType DEF Rooms
<1>3. 0 \in P
  <2>1. Cardinality(R[0]) = 1
    BY <1>1, FS_Singleton
  <2>2. QED
    BY <2>1
<1>4. ASSUME NEW n \in P PROVE n + 1 \in P
  <2> SUFFICES ASSUME n + 1 <= Rooms
               PROVE  Closed(n + 1) \/ Cardinality(R[n + 1]) >= n + 2
    BY <1>4
  <2>1. n \in Nat /\ n \in 0..Rooms /\ n + 1 \in 1..Rooms /\ n + 1 \in 0..Rooms
        /\ n + 1 - 1 = n
    BY <1>1, <1>4
  <2>2. R[n + 1] = R[n] \cup Onwards(w, R[n])
    BY <1>1, <2>1
  <2>3. CASE Closed(n)
    <3>1. R[n + 1] = R[n]
      BY <2>2, <2>3
    <3>2. QED
      BY <2>3, <3>1
  <2>4. CASE ~Closed(n)
    <3>1. Cardinality(R[n]) >= n + 1
      BY <1>4, <2>1, <2>4
    <3>2. R[n] \in SUBSET R[n + 1] /\ R[n] # R[n + 1]
      BY <2>2, <2>4
    <3>3. Cardinality(R[n]) <= Cardinality(R[n + 1]) /\ Cardinality(R[n]) # Cardinality(R[n + 1])
      BY <1>2, <2>1, <3>2, FS_Subset
    <3>4. Cardinality(R[n]) \in Nat /\ Cardinality(R[n + 1]) \in Nat
      BY <1>2, <2>1
    <3>5. QED
      BY <2>1, <3>1, <3>3, <3>4
  <2>5. QED
    BY <2>3, <2>4
<1> HIDE DEF P
<1>5. P = Nat
  BY <1>3, <1>4, NatSetInduction DEF P
<1>6. Closed(Rooms) \/ Cardinality(R[Rooms]) >= Rooms + 1
  BY <1>1, <1>5 DEF P
<1>7. Closed(Rooms)
  BY <1>1, <1>2, <1>6
<1>8. QED
  BY <1>7 DEF R

LEMMA WithinSteps ==
    ASSUME NEW w, w.to \in Maps, NEW x \in TrackRooms
    PROVE  /\ \A n \in Nat : Within(w, x, n) \in SUBSET TrackRooms
           /\ Within(w, x, 0) = {x}
           /\ \A n \in Nat :
                Within(w, x, n + 1) = Within(w, x, n) \cup Onwards(w, Within(w, x, n))
<1>1. /\ Rooms \in Nat /\ Reach(w, x) \in [0..Rooms -> SUBSET TrackRooms]
      /\ Reach(w, x)[0] = {x}
      /\ \A n \in 1..Rooms :
           Reach(w, x)[n] = Reach(w, x)[n - 1] \cup Onwards(w, Reach(w, x)[n - 1])
  BY RoomsCount, ReachSteps
<1>2. Onwards(w, Reach(w, x)[Rooms]) \subseteq Reach(w, x)[Rooms]
  BY LastIsClosed
<1>3. ASSUME NEW n \in Nat
      PROVE  Within(w, x, n + 1) = Within(w, x, n) \cup Onwards(w, Within(w, x, n))
  <2>1. CASE n + 1 <= Rooms
    <3>1. Within(w, x, n + 1) = Reach(w, x)[n + 1] /\ Within(w, x, n) = Reach(w, x)[n]
      BY <1>1, <2>1 DEF Within
    <3>2. n + 1 \in 1..Rooms /\ n + 1 - 1 = n
      BY <1>1, <2>1
    <3>3. QED
      BY <1>1, <3>1, <3>2
  <2>2. CASE ~(n + 1 <= Rooms)
    <3>1. Within(w, x, n + 1) = Reach(w, x)[Rooms] /\ Within(w, x, n) = Reach(w, x)[Rooms]
      <4>1. n <= Rooms => n = Rooms
        BY <1>1, <2>2
      <4>2. QED
        BY <2>2, <4>1 DEF Within
    <3>2. QED
      BY <1>2, <3>1
  <2>3. QED
    BY <2>1, <2>2
<1>4. \A n \in Nat : Within(w, x, n) \in SUBSET TrackRooms
  <2> SUFFICES ASSUME NEW n \in Nat PROVE Within(w, x, n) \in SUBSET TrackRooms
    OBVIOUS
  <2>1. (IF n <= Rooms THEN n ELSE Rooms) \in 0..Rooms
    BY <1>1
  <2>2. QED
    BY <1>1, <2>1 DEF Within
<1>5. Within(w, x, 0) = {x}
  BY <1>1 DEF Within
<1>6. QED
  BY <1>3, <1>4, <1>5

LEMMA WithinGrows ==
    ASSUME NEW w, w.to \in Maps, NEW x \in TrackRooms, NEW m \in Nat, NEW n \in Nat, m <= n
    PROVE  Within(w, x, m) \subseteq Within(w, x, n)
<1> DEFINE P == {k \in Nat : Within(w, x, m) \subseteq Within(w, x, m + k)}
<1>1. 0 \in P
  OBVIOUS
<1>2. ASSUME NEW k \in P PROVE k + 1 \in P
  <2>1. m + k \in Nat /\ m + (k + 1) = (m + k) + 1
    OBVIOUS
  <2>2. Within(w, x, m + k) \subseteq Within(w, x, (m + k) + 1)
    BY <2>1, WithinSteps
  <2>3. Within(w, x, m) \subseteq Within(w, x, m + k)
    OBVIOUS
  <2>4. QED
    BY <2>1, <2>2, <2>3
<1> HIDE DEF P
<1>3. P = Nat
  BY <1>1, <1>2, NatSetInduction DEF P
<1>4. m + (n - m) = n /\ n - m \in Nat
  OBVIOUS
<1>5. QED
  BY <1>3, <1>4 DEF P

(* A closed set of rooms with x in it has whatever is reached from x.      *)
LEMMA ClosedHasAll ==
    ASSUME NEW w, w.to \in Maps, NEW x \in TrackRooms, NEW M \in SUBSET TrackRooms,
           x \in M, Onwards(w, M) \subseteq M, NEW n \in Nat
    PROVE  Within(w, x, n) \subseteq M
<1> DEFINE P == {k \in Nat : Within(w, x, k) \subseteq M}
<1>1. 0 \in P
  BY WithinSteps
<1>2. ASSUME NEW k \in P PROVE k + 1 \in P
  <2>1. Within(w, x, k) \subseteq M /\ Within(w, x, k) \in SUBSET TrackRooms
    BY WithinSteps
  <2>2. Onwards(w, Within(w, x, k)) \subseteq M
    BY <2>1, OnwardsIn
  <2>3. QED
    BY <2>1, <2>2, WithinSteps
<1> HIDE DEF P
<1>3. P = Nat
  BY <1>1, <1>2, NatSetInduction DEF P
<1>4. QED
  BY <1>3 DEF P

(* A step from x brings it one step nearer to what is reached over there.  *)
LEMMA OneStepMore ==
    ASSUME NEW w, w.to \in Maps, NEW x \in TrackRooms, NEW d \in Dirs, Leads(w, x, d),
           NEW n \in Nat
    PROVE  Within(w, w.to[x][d], n) \subseteq Within(w, x, n + 1)
<1> DEFINE y == w.to[x][d]
           P == {k \in Nat : Within(w, y, k) \subseteq Within(w, x, k + 1)}
<1>1. y \in TrackRooms
  BY LeadsSomewhere
<1>2. 0 \in P
  <2>1. Within(w, y, 0) = {y} /\ Within(w, x, 0) = {x}
    BY <1>1, WithinSteps
  <2>2. Within(w, x, 0 + 1) = {x} \cup Onwards(w, {x})
    <3>1. 0 \in Nat
      OBVIOUS
    <3>2. Within(w, x, 0 + 1) = Within(w, x, 0) \cup Onwards(w, Within(w, x, 0))
      BY <3>1, WithinSteps
    <3>3. QED
      BY <2>1, <3>2
  <2>3. {x} \in SUBSET TrackRooms
    OBVIOUS
  <2>4. y \in Onwards(w, {x})
    BY <2>3, OnwardsIn
  <2>5. QED
    BY <2>1, <2>2, <2>4
<1>3. ASSUME NEW k \in P PROVE k + 1 \in P
  <2> HIDE DEF y
  <2>1. /\ k \in Nat /\ k + 1 \in Nat
        /\ Within(w, y, k) \subseteq Within(w, x, k + 1)
        /\ Within(w, y, k) \in SUBSET TrackRooms
        /\ Within(w, x, k + 1) \in SUBSET TrackRooms
    BY <1>1, WithinSteps
  <2>2. Onwards(w, Within(w, y, k)) \subseteq Onwards(w, Within(w, x, k + 1))
    BY <2>1, OnwardsIn
  <2>3. /\ Within(w, y, k + 1) = Within(w, y, k) \cup Onwards(w, Within(w, y, k))
        /\ Within(w, x, k + 1 + 1) = Within(w, x, k + 1) \cup Onwards(w, Within(w, x, k + 1))
    BY <1>1, <2>1, WithinSteps
  <2>4. QED
    BY <2>1, <2>2, <2>3
<1> HIDE DEF P
<1>4. QED
  BY <1>2, <1>3, NatSetInduction DEF P

-----------------------------------------------------------------------------
(* The search from s for t with the queue Q and the marks M, when k steps  *)
(* lead to the first room of the queue: whatever is that near is marked,   *)
(* nothing is marked that is more than a step farther off, near rooms      *)
(* stand before far ones, what is marked and has left the queue has been   *)
(* looked at, and the first step of a room in the queue is on a shortest   *)
(* way to it.                                                              *)
Item == [room : TrackRooms, dir : Dirs]

Frontier(w, s, t, Q, M, k) ==
    /\ k \in Nat \ {0} /\ Q \in Seq(Item) /\ M \in SUBSET TrackRooms
    /\ Within(w, s, k) \subseteq M /\ M \subseteq Within(w, s, k + 1)
    /\ \A i \in 1..Len(Q) : /\ Q[i].room \in M /\ Q[i].room \notin Within(w, s, k - 1)
                            /\ Leads(w, s, Q[i].dir)
                            /\ Q[i].room \in Within(w, w.to[s][Q[i].dir], k)
                            /\ Q[i].room \in Within(w, s, k) =>
                                 Q[i].room \in Within(w, w.to[s][Q[i].dir], k - 1)
    /\ \A i, j \in 1..Len(Q) : i < j =>
         /\ Q[i].room # Q[j].room
         /\ Q[j].room \in Within(w, s, k) => Q[i].room \in Within(w, s, k)
    /\ \A y \in M : (\A i \in 1..Len(Q) : Q[i].room # y) =>
         y # t /\ \A d \in Dirs : Leads(w, y, d) => w.to[y][d] \in M

LEMMA Farther ==
    ASSUME NEW w, w.to \in Maps, NEW s \in TrackRooms, NEW t, NEW Q, NEW M, NEW k,
           Frontier(w, s, t, Q, M, k),
           Q = <<>> \/ Q[1].room \notin Within(w, s, k)
    PROVE  Frontier(w, s, t, Q, M, k + 1)
<1>1. /\ k \in Nat /\ k # 0 /\ k + 1 \in Nat \ {0} /\ k + 1 - 1 = k /\ k + 1 + 1 \in Nat
      /\ Q \in Seq(Item) /\ M \in SUBSET TrackRooms /\ Len(Q) \in Nat
  BY DEF Frontier
<1>2. \A i \in 1..Len(Q) : Q[i].room \notin Within(w, s, k)
  <2> SUFFICES ASSUME NEW i \in 1..Len(Q) PROVE Q[i].room \notin Within(w, s, k)
    OBVIOUS
  <2>1. 1 \in 1..Len(Q) /\ Q[1].room \notin Within(w, s, k)
    BY <1>1
  <2>2. CASE i = 1
    BY <2>1, <2>2
  <2>3. CASE i # 1
    BY <1>1, <2>1, <2>3 DEF Frontier
  <2>4. QED
    BY <2>2, <2>3
<1>3. Within(w, s, k + 1) \subseteq M
  <2>1. Within(w, s, k) \in SUBSET TrackRooms /\ Within(w, s, k) \subseteq M
    BY <1>1, WithinSteps DEF Frontier
  <2>2. \A y \in Within(w, s, k) : \A d \in Dirs : Leads(w, y, d) => w.to[y][d] \in M
    BY <1>2, <2>1 DEF Frontier
  <2>3. Onwards(w, Within(w, s, k)) \subseteq M
    BY <2>1, <2>2, OnwardsIn
  <2>4. QED
    BY <1>1, <2>1, <2>3, WithinSteps
<1>4. M \subseteq Within(w, s, k + 1 + 1)
  <2>1. Within(w, s, k + 1) \subseteq Within(w, s, k + 1 + 1)
    BY <1>1, WithinSteps
  <2>2. QED
    BY <2>1 DEF Frontier
<1>5. \A i \in 1..Len(Q) : /\ Q[i].room \in M /\ Leads(w, s, Q[i].dir)
                           /\ Q[i].room \in Within(w, w.to[s][Q[i].dir], k)
                           /\ Q[i].room \in Within(w, w.to[s][Q[i].dir], k + 1)
  <2> SUFFICES ASSUME NEW i \in 1..Len(Q)
               PROVE  /\ Q[i].room \in M /\ Leads(w, s, Q[i].dir)
                      /\ Q[i].room \in Within(w, w.to[s][Q[i].dir], k)
                      /\ Q[i].room \in Within(w, w.to[s][Q[i].dir], k + 1)
    OBVIOUS
  <2>1. /\ Q[i].room \in M /\ Leads(w, s, Q[i].dir)
        /\ Q[i].room \in Within(w, w.to[s][Q[i].dir], k)
    BY DEF Frontier
  <2>2. Q[i].dir \in Dirs
    <3>1. Q[i] \in Item
      BY <1>1
    <3>2. QED
      BY <3>1 DEF Item
  <2>3. w.to[s][Q[i].dir] \in TrackRooms
    BY <2>1, <2>2, LeadsSomewhere
  <2>4. QED
    BY <1>1, <2>1, <2>3, WithinSteps
<1>6. \A i, j \in 1..Len(Q) : i < j =>
         /\ Q[i].room # Q[j].room
         /\ Q[j].room \in Within(w, s, k + 1) => Q[i].room \in Within(w, s, k + 1)
  BY DEF Frontier
<1>7. \A y \in M : (\A i \in 1..Len(Q) : Q[i].room # y) =>
         y # t /\ \A d \in Dirs : Leads(w, y, d) => w.to[y][d] \in M
  BY DEF Frontier
<1>8. QED
  BY <1>1, <1>2, <1>3, <1>4, <1>5, <1>6, <1>7 DEF Frontier

(* One exit of the first room of the queue.                                *)
Turning(s, t, so, k) ==
    /\ Frontier(ways, s, t, so.queue, so.marks, k)
    /\ so.queue # <<>> /\ so.queue[1].room \in Within(ways, s, k)

LEMMA ExitKeepsFrontier ==
    ASSUME ways.to \in Maps, NEW s \in TrackRooms, NEW t, NEW k, NEW so,
           Turning(s, t, so, k), NEW d \in Dirs,
           NEW u, u = bfs_enqueue(so.queue[1].room, d, so.queue[1].dir, so)
    PROVE  /\ Turning(s, t, u, k)
           /\ u.queue[1] = so.queue[1] /\ so.marks \subseteq u.marks
           /\ Leads(ways, so.queue[1].room, d) => ways.to[so.queue[1].room][d] \in u.marks
<1> DEFINE Q == so.queue
           M == so.marks
           h == so.queue[1].room
           f == so.queue[1].dir
           y == ways.to[h][d]
           e == [room |-> y, dir |-> f]
<1>9. /\ Frontier(ways, s, t, so.queue, so.marks, k)
      /\ so.queue # <<>> /\ so.queue[1].room \in Within(ways, s, k)
  BY DEF Turning
<1>1. /\ k \in Nat /\ k # 0 /\ k - 1 \in Nat /\ k - 1 + 1 = k /\ k + 1 \in Nat
      /\ Q \in Seq(Item) /\ M \in SUBSET TrackRooms /\ Len(Q) \in Nat /\ 1 \in 1..Len(Q)
  BY <1>9 DEF Frontier
<1>2. h \in TrackRooms /\ f \in Dirs /\ f # 0 /\ h \in Within(ways, s, k)
  <2>1. so.queue[1] \in Item
    BY <1>1
  <2>2. QED
    BY <1>9, <2>1, TrackingAssumption DEF Item, Dirs
<1>3. CASE ~(Leads(ways, h, d) /\ y \notin M)
  BY <1>3, <1>9 DEF bfs_enqueue
<1>4. CASE Leads(ways, h, d) /\ y \notin M
  <2>1. u = [queue |-> Append(Q, e), marks |-> M \cup {y}]
    BY <1>2, <1>4 DEF bfs_enqueue
  <2>2. y \in TrackRooms
    BY <1>2, <1>4, LeadsSomewhere
  <2> DEFINE q == Append(Q, e)
             m == M \cup {y}
  <2>3. e \in Item /\ e.room = y /\ e.dir = f
    BY <1>2, <2>2 DEF Item
  <2> HIDE DEF e
  <2>4. /\ q \in Seq(Item) /\ Len(q) = Len(Q) + 1 /\ q[Len(Q) + 1] = e
        /\ \A i \in 1..Len(Q) : q[i] = Q[i]
    BY <1>1, <2>3
  <2> HIDE DEF q
  <2>5. /\ Leads(ways, s, f) /\ h \in Within(ways, ways.to[s][f], k - 1)
        /\ ways.to[s][f] \in TrackRooms
    BY <1>1, <1>2, <1>9, LeadsSomewhere DEF Frontier
  <2>6. y \in Within(ways, s, k + 1)
    <3>1. y \in Onwards(ways, Within(ways, s, k)) /\ Within(ways, s, k) \in SUBSET TrackRooms
      BY <1>1, <1>2, <1>4, WithinSteps, OnwardsIn
    <3>2. QED
      BY <1>1, <3>1, WithinSteps
  <2>7. y \in Within(ways, ways.to[s][f], k)
    <3> DEFINE g == ways.to[s][f]
    <3>1. g \in TrackRooms /\ h \in Within(ways, g, k - 1)
      BY <2>5
    <3> HIDE DEF g
    <3>2. Within(ways, g, k - 1) \in SUBSET TrackRooms
      BY <1>1, <3>1, WithinSteps
    <3>3. y \in Onwards(ways, Within(ways, g, k - 1))
      BY <1>4, <3>1, <3>2, OnwardsIn
    <3>4. Within(ways, g, k - 1 + 1) = Within(ways, g, k - 1) \cup Onwards(ways, Within(ways, g, k - 1))
      BY <1>1, <3>1, WithinSteps
    <3>5. QED
      BY <1>1, <3>3, <3>4 DEF g
  <2>8. y \notin Within(ways, s, k) /\ y \notin Within(ways, s, k - 1)
    <3>1. Within(ways, s, k) \subseteq M
      BY <1>9 DEF Frontier
    <3>2. Within(ways, s, k - 1) \subseteq Within(ways, s, k)
      <4>1. Within(ways, s, k - 1 + 1) = Within(ways, s, k - 1) \cup Onwards(ways, Within(ways, s, k - 1))
        BY <1>1, WithinSteps
      <4>2. QED
        BY <1>1, <4>1
    <3>3. QED
      BY <1>4, <3>1, <3>2
  <2>9. \A i \in 1..Len(q) : i \in 1..Len(Q) \/ i = Len(Q) + 1
    BY <1>1, <2>4
  <2>10. \A i \in 1..Len(q) : /\ q[i].room \in m /\ q[i].room \notin Within(ways, s, k - 1)
                              /\ Leads(ways, s, q[i].dir)
                              /\ q[i].room \in Within(ways, ways.to[s][q[i].dir], k)
                              /\ q[i].room \in Within(ways, s, k) =>
                                   q[i].room \in Within(ways, ways.to[s][q[i].dir], k - 1)
    BY <1>9, <2>3, <2>4, <2>5, <2>7, <2>8, <2>9 DEF Frontier
  <2>11. \A i, j \in 1..Len(q) : i < j =>
           /\ q[i].room # q[j].room
           /\ q[j].room \in Within(ways, s, k) => q[i].room \in Within(ways, s, k)
    <3> SUFFICES ASSUME NEW i \in 1..Len(q), NEW j \in 1..Len(q), i < j
                 PROVE  /\ q[i].room # q[j].room
                        /\ q[j].room \in Within(ways, s, k) => q[i].room \in Within(ways, s, k)
      OBVIOUS
    <3>1. i \in 1..Len(Q)
      <4>1. Len(q) = Len(Q) + 1 /\ i \in Nat /\ j \in Nat /\ j <= Len(q) /\ i >= 1
        BY <1>1, <2>4
      <4>2. QED
        BY <1>1, <4>1
    <3>4. q[i] = Q[i] /\ Q[i].room \in M
      BY <1>9, <2>4, <3>1 DEF Frontier
    <3>2. CASE j = Len(Q) + 1
      BY <1>4, <2>3, <2>4, <2>8, <3>4, <3>2
    <3>3. CASE j \in 1..Len(Q)
      BY <1>9, <2>4, <3>1, <3>3 DEF Frontier
    <3>5. QED
      BY <2>9, <3>2, <3>3
  <2>12. ASSUME NEW z \in m, \A i \in 1..Len(q) : q[i].room # z
         PROVE  z # t /\ \A c \in Dirs : Leads(ways, z, c) => ways.to[z][c] \in m
    <3>1. z # y
      <4>1. Len(Q) + 1 \in 1..Len(q)
        BY <1>1, <2>4
      <4>2. QED
        BY <2>3, <2>4, <2>12, <4>1
    <3>2. z \in M /\ \A i \in 1..Len(Q) : Q[i].room # z
      <4>1. \A i \in 1..Len(Q) : i \in 1..Len(q)
        BY <1>1, <2>4
      <4>2. QED
        BY <2>4, <2>12, <3>1, <4>1
    <3>3. QED
      BY <1>9, <3>2 DEF Frontier
  <2>13. Frontier(ways, s, t, q, m, k)
    <3>1. Within(ways, s, k) \subseteq m /\ m \subseteq Within(ways, s, k + 1) /\ m \in SUBSET TrackRooms
      BY <1>1, <1>9, <2>2, <2>6 DEF Frontier
    <3> HIDE DEF m
    <3>2. QED
      BY <1>1, <2>4, <2>10, <2>11, <2>12, <3>1 DEF Frontier
  <2>14. u.queue = q /\ u.marks = m
    BY <2>1 DEF q
  <2>15. q # <<>> /\ q[1] = Q[1]
    BY <1>1, <2>4
  <2>16. Turning(s, t, u, k)
    BY <1>9, <2>13, <2>14, <2>15 DEF Turning
  <2>17. QED
    BY <2>14, <2>15, <2>16
<1>5. QED
  BY <1>3, <1>4

(* The first room leaves the queue when all its exits have been looked at. *)
LEMMA DequeueKeepsFrontier ==
    ASSUME NEW w, NEW s, NEW t, NEW Q, NEW M, NEW k, Frontier(w, s, t, Q, M, k),
           Q # <<>>, Q[1].room # t,
           \A d \in Dirs : Leads(w, Q[1].room, d) => w.to[Q[1].room][d] \in M
    PROVE  Frontier(w, s, t, Tail(Q), M, k)
<1> DEFINE q == Tail(Q)
<1>1. Q \in Seq(Item) /\ Len(Q) \in Nat /\ 1 \in 1..Len(Q)
  BY DEF Frontier
<1>2. /\ q \in Seq(Item) /\ Len(q) = Len(Q) - 1
      /\ \A i \in 1..Len(q) : q[i] = Q[i + 1]
  BY <1>1
<1> HIDE DEF q
<1>3. \A i \in 1..Len(q) : i + 1 \in 1..Len(Q) /\ i \in Nat
  BY <1>1, <1>2
<1>4. \A i \in 1..Len(Q) : i = 1 \/ (i - 1 \in 1..Len(q) /\ Q[i] = q[i - 1])
  <2> SUFFICES ASSUME NEW i \in 1..Len(Q), i # 1
               PROVE  i - 1 \in 1..Len(q) /\ Q[i] = q[i - 1]
    OBVIOUS
  <2>1. i - 1 \in 1..Len(q) /\ i - 1 + 1 = i
    BY <1>1, <1>2
  <2>2. QED
    BY <1>2, <2>1
<1>5. \A i \in 1..Len(q) : /\ q[i].room \in M /\ q[i].room \notin Within(w, s, k - 1)
                           /\ Leads(w, s, q[i].dir)
                           /\ q[i].room \in Within(w, w.to[s][q[i].dir], k)
                           /\ q[i].room \in Within(w, s, k) =>
                                q[i].room \in Within(w, w.to[s][q[i].dir], k - 1)
  BY <1>2, <1>3 DEF Frontier
<1>6. \A i, j \in 1..Len(q) : i < j =>
         /\ q[i].room # q[j].room
         /\ q[j].room \in Within(w, s, k) => q[i].room \in Within(w, s, k)
  <2> SUFFICES ASSUME NEW i \in 1..Len(q), NEW j \in 1..Len(q), i < j
               PROVE  /\ q[i].room # q[j].room
                      /\ q[j].room \in Within(w, s, k) => q[i].room \in Within(w, s, k)
    OBVIOUS
  <2>1. i + 1 \in 1..Len(Q) /\ j + 1 \in 1..Len(Q) /\ i + 1 < j + 1
    BY <1>3
  <2>2. q[i] = Q[i + 1] /\ q[j] = Q[j + 1]
    BY <1>2
  <2>3. \A a, b \in 1..Len(Q) : a < b =>
           /\ Q[a].room # Q[b].room
           /\ Q[b].room \in Within(w, s, k) => Q[a].room \in Within(w, s, k)
    BY DEF Frontier
  <2>4. QED
    BY <2>1, <2>2, <2>3
<1>7. ASSUME NEW y \in M, \A i \in 1..Len(q) : q[i].room # y
      PROVE  y # t /\ \A d \in Dirs : Leads(w, y, d) => w.to[y][d] \in M
  <2>1. CASE y = Q[1].room
    BY <2>1
  <2>2. CASE y # Q[1].room
    <3>1. \A i \in 1..Len(Q) : Q[i].room # y
      BY <1>4, <1>7, <2>2
    <3>2. QED
      BY <3>1 DEF Frontier
  <2>3. QED
    BY <2>1, <2>2
<1>8. QED
  BY <1>2, <1>5, <1>6, <1>7 DEF Frontier, q

(* The loop over the exits as a function of how many it has seen.          *)
LEMMA ExitsSteps ==
    ASSUME ways.to \in Maps, NEW x \in TrackRooms, NEW f \in Dirs \cup {0},
           NEW so \in [queue : Seq(Item), marks : SUBSET TrackRooms]
    PROVE  \E a : /\ a[0] = so /\ EnqueueExits(x, f, so) = a[NUM_OF_DIRS]
                  /\ \A d \in Nat : d + 1 <= NUM_OF_DIRS =>
                       a[d + 1] = bfs_enqueue(x, d + 1, f, a[d])
<1> DEFINE S == [queue : Seq(Item), marks : SUBSET TrackRooms]
           Of(e) == IF e[1] \in Dirs THEN bfs_enqueue(x, e[1], f, e[2]) ELSE e[2]
           step == [e \in Nat \X S |-> Of(e)]
           Is(g) == g = [d \in 0..NUM_OF_DIRS |-> IF d = 0 THEN so ELSE bfs_enqueue(x, d, f, g[d - 1])]
           c == CHOOSE g : Is(g)
<1>1. NUM_OF_DIRS \in Nat
  BY TrackingAssumption
<1>2. step \in [Nat \X S -> S]
  <2>1. ASSUME NEW d \in Dirs, NEW u \in S PROVE bfs_enqueue(x, d, f, u) \in S
    <3>1. CASE ~(Leads(ways, x, d) /\ ways.to[x][d] \notin u.marks)
      BY <2>1, <3>1 DEF bfs_enqueue
    <3>2. CASE Leads(ways, x, d) /\ ways.to[x][d] \notin u.marks
      <4> DEFINE y == ways.to[x][d]
                 g == IF f = 0 THEN d ELSE f
                 e == [room |-> y, dir |-> g]
      <4>1. y \in TrackRooms /\ g \in Dirs
        BY <3>2, LeadsSomewhere
      <4> HIDE DEF g
      <4>2. e \in Item
        BY <4>1 DEF Item
      <4>3. bfs_enqueue(x, d, f, u) = [queue |-> Append(u.queue, e), marks |-> u.marks \cup {y}]
        BY <3>2 DEF bfs_enqueue, g
      <4> HIDE DEF e
      <4>4. Append(u.queue, e) \in Seq(Item) /\ u.marks \cup {y} \in SUBSET TrackRooms
        BY <2>1, <4>1, <4>2
      <4>5. QED
        BY <4>3, <4>4
    <3>3. QED
      BY <3>1, <3>2
  <2>2. ASSUME NEW e \in Nat \X S PROVE Of(e) \in S
    BY <2>1, <2>2
  <2> HIDE DEF Of, S
  <2>3. QED
    BY <2>2
<1>3. \E g : Is(g)
  <2> HIDE DEF step
  <2>1. PICK g \in [0..NUM_OF_DIRS -> S] : Steps(so, NUM_OF_DIRS, step, g)
    <3> HIDE DEF S
    <3>1. so \in S
      BY DEF S
    <3>2. QED
      BY <1>1, <1>2, <3>1, StepsExist
  <2>2. ASSUME NEW d \in 0..NUM_OF_DIRS, d # 0
        PROVE  step[<<d, g[d - 1]>>] = bfs_enqueue(x, d, f, g[d - 1])
    <3>1. d - 1 \in 0..NUM_OF_DIRS /\ d \in Nat /\ d \in Dirs
      BY <1>1, <2>2 DEF Dirs
    <3> HIDE DEF S
    <3>2. <<d, g[d - 1]>> \in Nat \X S
      BY <2>1, <3>1
    <3>3. step[<<d, g[d - 1]>>] = Of(<<d, g[d - 1]>>)
      <4> HIDE DEF Of
      <4>1. QED
        BY <3>2 DEF step
    <3>4. QED
      BY <3>1, <3>3
  <2>3. Is(g)
    BY <2>1, <2>2 DEF Steps
  <2>4. QED
    BY <2>3
<1>4. Is(c)
  <2> HIDE DEF Is
  <2>1. QED
    BY <1>3
<1>5. EnqueueExits(x, f, so) = c[NUM_OF_DIRS]
  BY DEF EnqueueExits
<1> HIDE DEF c
<1>6. c[0] = so
  <2>1. 0 \in 0..NUM_OF_DIRS
    BY <1>1
  <2>2. QED
    BY <1>4, <2>1
<1>7. ASSUME NEW d \in Nat, d + 1 <= NUM_OF_DIRS
      PROVE  c[d + 1] = bfs_enqueue(x, d + 1, f, c[d])
  <2>1. \A n \in 0..NUM_OF_DIRS : n # 0 => c[n] = bfs_enqueue(x, n, f, c[n - 1])
    BY <1>4
  <2>2. d + 1 \in 0..NUM_OF_DIRS /\ d + 1 # 0 /\ d + 1 - 1 = d
    BY <1>1, <1>7
  <2>3. c[d + 1] = bfs_enqueue(x, d + 1, f, c[d + 1 - 1])
    BY <2>1, <2>2
  <2>4. QED
    BY <2>2, <2>3
<1>8. QED
  BY <1>5, <1>6, <1>7

(* The number of steps to the first room of the queue.                     *)
LEMMA FirstRoomIsNear ==
    ASSUME NEW w, w.to \in Maps, NEW s \in TrackRooms, NEW t, NEW k, NEW Q, NEW M,
           Frontier(w, s, t, Q, M, k), Q # <<>>
    PROVE  \E n : Frontier(w, s, t, Q, M, n) /\ Q[1].room \in Within(w, s, n)
<1>1. CASE Q[1].room \in Within(w, s, k)
  BY <1>1
<1>2. CASE Q[1].room \notin Within(w, s, k)
  <2>1. Frontier(w, s, t, Q, M, k + 1)
    BY <1>2, Farther
  <2>2. Q \in Seq(Item) /\ 1 \in 1..Len(Q) /\ M \subseteq Within(w, s, k + 1)
    BY DEF Frontier
  <2>3. Q[1].room \in Within(w, s, k + 1)
    BY <2>1, <2>2 DEF Frontier
  <2>4. QED
    BY <2>1, <2>3
<1>3. QED
  BY <1>1, <1>2

(* A turn of the loop.                                                     *)
LEMMA TurnKeepsFrontier ==
    ASSUME ways.to \in Maps, NEW s \in TrackRooms, NEW t, NEW k, NEW Q, NEW M,
           Frontier(ways, s, t, Q, M, k), Q # <<>>, Q[1].room # t,
           NEW u, u = EnqueueExits(Q[1].room, Q[1].dir, [queue |-> Q, marks |-> M])
    PROVE  \E n : Frontier(ways, s, t, Tail(u.queue), u.marks, n)
<1>1. Q \in Seq(Item) /\ M \in SUBSET TrackRooms /\ 1 \in 1..Len(Q) /\ Q[1] \in Item
      /\ k \in Nat /\ k + 1 - 1 = k
  BY DEF Frontier
<1>2. Q[1].room \in TrackRooms /\ Q[1].dir \in Dirs /\ Q[1].dir \in Dirs \cup {0}
  BY <1>1 DEF Item
<1> DEFINE so == [queue |-> Q, marks |-> M]
<1>3. PICK n : Frontier(ways, s, t, Q, M, n) /\ Q[1].room \in Within(ways, s, n)
  BY FirstRoomIsNear
<1>4. so \in [queue : Seq(Item), marks : SUBSET TrackRooms] /\ so.queue = Q /\ so.marks = M
  BY <1>1
<1> HIDE DEF so
<1>5. PICK a : /\ a[0] = so /\ EnqueueExits(Q[1].room, Q[1].dir, so) = a[NUM_OF_DIRS]
               /\ \A d \in Nat : d + 1 <= NUM_OF_DIRS =>
                    a[d + 1] = bfs_enqueue(Q[1].room, d + 1, Q[1].dir, a[d])
  BY <1>2, <1>4, ExitsSteps
<1> DEFINE Keeps(v, d) ==
              /\ Turning(s, t, v, n) /\ v.queue[1] = Q[1]
              /\ \A e \in 1..d : Leads(ways, Q[1].room, e) => ways.to[Q[1].room][e] \in v.marks
           P == {d \in Nat : d <= NUM_OF_DIRS => Keeps(a[d], d)}
<1>6. 0 \in P
  BY <1>3, <1>4, <1>5 DEF Turning
<1>7. ASSUME NEW d \in P PROVE d + 1 \in P
  <2> SUFFICES ASSUME d + 1 <= NUM_OF_DIRS PROVE Keeps(a[d + 1], d + 1)
    BY <1>7
  <2>1. /\ d \in Nat /\ NUM_OF_DIRS \in Nat /\ d + 1 \in Dirs
        /\ \A e \in 1..(d + 1) : e \in 1..d \/ e = d + 1
    BY <1>7, TrackingAssumption DEF Dirs
  <2>2. Keeps(a[d], d)
    BY <1>7, <2>1
  <2> DEFINE v == a[d]
             z == a[d + 1]
  <2>3. z = bfs_enqueue(v.queue[1].room, d + 1, v.queue[1].dir, v)
    BY <1>5, <2>1, <2>2
  <2> DEFINE nd == d + 1
  <2> HIDE DEF v, z
  <2>4. Turning(s, t, v, n) /\ v.queue[1] = Q[1]
    BY <2>2 DEF v
  <2>5. /\ Turning(s, t, z, n)
        /\ z.queue[1] = v.queue[1] /\ v.marks \subseteq z.marks
        /\ Leads(ways, v.queue[1].room, d + 1) => ways.to[v.queue[1].room][d + 1] \in z.marks
    <3>1. nd \in Dirs /\ z = bfs_enqueue(v.queue[1].room, nd, v.queue[1].dir, v)
      BY <2>1, <2>3
    <3> HIDE DEF nd
    <3>2. /\ Turning(s, t, z, n)
          /\ z.queue[1] = v.queue[1] /\ v.marks \subseteq z.marks
          /\ Leads(ways, v.queue[1].room, nd) => ways.to[v.queue[1].room][nd] \in z.marks
      BY <2>4, <3>1, ExitKeepsFrontier
    <3>3. QED
      BY <3>2 DEF nd
  <2>6. \A e \in 1..(d + 1) : Leads(ways, Q[1].room, e) => ways.to[Q[1].room][e] \in z.marks
    BY <2>1, <2>2, <2>4, <2>5 DEF v
  <2>7. Keeps(z, d + 1)
    BY <2>4, <2>5, <2>6
  <2>8. QED
    BY <2>7 DEF z
<1> HIDE DEF P
<1>8. P = Nat
  BY <1>6, <1>7, NatSetInduction DEF P
<1>9. Keeps(u, NUM_OF_DIRS)
  BY <1>5, <1>8, TrackingAssumption DEF P, so
<1>10. Frontier(ways, s, t, Tail(u.queue), u.marks, n)
  <2>1. \A d \in Dirs : Leads(ways, u.queue[1].room, d) => ways.to[u.queue[1].room][d] \in u.marks
    BY <1>9 DEF Dirs
  <2>2. QED
    BY <1>9, <2>1, DequeueKeepsFrontier DEF Turning
<1>11. QED
  BY <1>10

(* The exits of the room in which the search begins.                       *)
Begun(s, so) ==
    /\ so.queue \in Seq(Item) /\ so.marks \in SUBSET TrackRooms /\ s \in so.marks
    /\ \A i \in 1..Len(so.queue) : /\ so.queue[i].room \in so.marks \ {s}
                                   /\ Leads(ways, s, so.queue[i].dir)
                                   /\ so.queue[i].room = ways.to[s][so.queue[i].dir]
    /\ \A i, j \in 1..Len(so.queue) : i < j => so.queue[i].room # so.queue[j].room
    /\ \A y \in so.marks : y = s \/ \E i \in 1..Len(so.queue) : so.queue[i].room = y

LEMMA ExitKeepsBegun ==
    ASSUME ways.to \in Maps, NEW s \in TrackRooms, NEW so, Begun(s, so), NEW d \in Dirs,
           NEW u, u = bfs_enqueue(s, d, 0, so)
    PROVE  /\ Begun(s, u) /\ so.marks \subseteq u.marks
           /\ Leads(ways, s, d) => ways.to[s][d] \in u.marks
<1> DEFINE Q == so.queue
           M == so.marks
           y == ways.to[s][d]
           e == [room |-> y, dir |-> d]
<1>1. Q \in Seq(Item) /\ M \in SUBSET TrackRooms /\ Len(Q) \in Nat
  BY DEF Begun
<1>2. CASE ~(Leads(ways, s, d) /\ y \notin M)
  BY <1>2 DEF bfs_enqueue
<1>3. CASE Leads(ways, s, d) /\ y \notin M
  <2>1. u = [queue |-> Append(Q, e), marks |-> M \cup {y}]
    BY <1>3 DEF bfs_enqueue
  <2>2. y \in TrackRooms
    BY <1>3, LeadsSomewhere
  <2> DEFINE q == Append(Q, e)
             m == M \cup {y}
  <2>3. e \in Item /\ e.room = y /\ e.dir = d
    BY <2>2 DEF Item
  <2> HIDE DEF e
  <2>4. /\ q \in Seq(Item) /\ Len(q) = Len(Q) + 1 /\ q[Len(Q) + 1] = e
        /\ \A i \in 1..Len(Q) : q[i] = Q[i]
    BY <1>1, <2>3
  <2> HIDE DEF q
  <2>5. /\ \A i \in 1..Len(q) : i \in 1..Len(Q) \/ i = Len(Q) + 1
        /\ \A i \in 1..Len(Q) : i \in 1..Len(q)
        /\ Len(Q) + 1 \in 1..Len(q)
    BY <1>1, <2>4
  <2>6. y # s
    BY <1>3 DEF Begun
  <2>7. \A i \in 1..Len(q) : /\ q[i].room \in m \ {s} /\ Leads(ways, s, q[i].dir)
                             /\ q[i].room = ways.to[s][q[i].dir]
    BY <1>3, <2>3, <2>4, <2>5, <2>6 DEF Begun
  <2>8. \A i, j \in 1..Len(q) : i < j => q[i].room # q[j].room
    <3> SUFFICES ASSUME NEW i \in 1..Len(q), NEW j \in 1..Len(q), i < j
                 PROVE  q[i].room # q[j].room
      OBVIOUS
    <3>1. i \in 1..Len(Q)
      <4>1. Len(q) = Len(Q) + 1 /\ i \in Nat /\ j \in Nat /\ j <= Len(q) /\ i >= 1
        BY <1>1, <2>4
      <4>2. QED
        BY <1>1, <4>1
    <3>2. q[i] = Q[i] /\ Q[i].room \in M
      BY <2>4, <3>1 DEF Begun
    <3>3. CASE j = Len(Q) + 1
      BY <1>3, <2>3, <2>4, <3>2, <3>3
    <3>4. CASE j \in 1..Len(Q)
      <4>1. Q[i].room # Q[j].room /\ q[j] = Q[j]
        BY <2>4, <3>1, <3>4 DEF Begun
      <4>2. QED
        BY <3>2, <4>1
    <3>5. QED
      BY <2>5, <3>3, <3>4
  <2>9. \A z \in m : z = s \/ \E i \in 1..Len(q) : q[i].room = z
    <3> SUFFICES ASSUME NEW z \in m, z # s PROVE \E i \in 1..Len(q) : q[i].room = z
      OBVIOUS
    <3>1. CASE z = y
      BY <2>3, <2>4, <2>5, <3>1
    <3>2. CASE z \in M
      <4>1. PICK i \in 1..Len(Q) : Q[i].room = z
        BY <3>2 DEF Begun
      <4>2. i \in 1..Len(q) /\ q[i] = Q[i]
        BY <2>4, <2>5
      <4>3. QED
        BY <4>1, <4>2
    <3>3. QED
      BY <3>1, <3>2
  <2>10. u.queue = q /\ u.marks = m /\ m \in SUBSET TrackRooms /\ s \in m
    BY <1>1, <2>1, <2>2 DEF q, Begun
  <2> HIDE DEF m
  <2>11. Begun(s, u)
    <3>1. \A i \in 1..Len(q) : /\ q[i].room \in m \ {s}
                               /\ Leads(ways, s, q[i].dir)
                               /\ q[i].room = ways.to[s][q[i].dir]
      BY <2>7
    <3> HIDE DEF q
    <3>2. QED
      BY <2>4, <2>8, <2>9, <2>10, <3>1, SMTT(20) DEF Begun
  <2>12. QED
    BY <2>10, <2>11 DEF m
<1>4. QED
  BY <1>2, <1>3

LEMMA StartMakesFrontier ==
    ASSUME ways.to \in Maps, NEW s \in TrackRooms, NEW t, s # t,
           NEW u, u = EnqueueExits(s, 0, [queue |-> <<>>, marks |-> {s}])
    PROVE  Frontier(ways, s, t, u.queue, u.marks, 1)
<1> DEFINE so == [queue |-> <<>>, marks |-> {s}]
<1>1. so \in [queue : Seq(Item), marks : SUBSET TrackRooms] /\ so.queue = <<>> /\ so.marks = {s}
  OBVIOUS
<1> HIDE DEF so
<1>2. PICK a : /\ a[0] = so /\ EnqueueExits(s, 0, so) = a[NUM_OF_DIRS]
               /\ \A d \in Nat : d + 1 <= NUM_OF_DIRS =>
                    a[d + 1] = bfs_enqueue(s, d + 1, 0, a[d])
  <2>1. 0 \in Dirs \cup {0}
    OBVIOUS
  <2>2. QED
    BY <1>1, <2>1, ExitsSteps
<1> DEFINE Keeps(v, d) ==
              Begun(s, v) /\ \A e \in 1..d : Leads(ways, s, e) => ways.to[s][e] \in v.marks
           P == {d \in Nat : d <= NUM_OF_DIRS => Keeps(a[d], d)}
<1>3. 0 \in P
  BY <1>1, <1>2 DEF Begun
<1>4. ASSUME NEW d \in P PROVE d + 1 \in P
  <2> SUFFICES ASSUME d + 1 <= NUM_OF_DIRS PROVE Keeps(a[d + 1], d + 1)
    BY <1>4
  <2>1. /\ d \in Nat /\ NUM_OF_DIRS \in Nat /\ d + 1 \in Dirs
        /\ \A e \in 1..(d + 1) : e \in 1..d \/ e = d + 1
    BY <1>4, TrackingAssumption DEF Dirs
  <2>2. Keeps(a[d], d)
    BY <1>4, <2>1
  <2>3. a[d + 1] = bfs_enqueue(s, d + 1, 0, a[d])
    BY <1>2, <2>1
  <2> DEFINE v == a[d]
             z == a[d + 1]
  <2> HIDE DEF v, z
  <2>4. Begun(s, v) /\ z = bfs_enqueue(s, d + 1, 0, v)
    BY <2>2, <2>3 DEF v, z
  <2>5. /\ Begun(s, z) /\ v.marks \subseteq z.marks
        /\ Leads(ways, s, d + 1) => ways.to[s][d + 1] \in z.marks
    BY <2>1, <2>4, ExitKeepsBegun
  <2>6. Keeps(z, d + 1)
    BY <2>1, <2>2, <2>5 DEF v
  <2>7. QED
    BY <2>6 DEF z
<1> HIDE DEF P
<1>5. P = Nat
  BY <1>3, <1>4, NatSetInduction DEF P
<1>6. Keeps(a[NUM_OF_DIRS], NUM_OF_DIRS)
  <2>1. NUM_OF_DIRS \in P /\ NUM_OF_DIRS <= NUM_OF_DIRS
    BY <1>5, TrackingAssumption
  <2>2. QED
    BY <2>1 DEF P
<1>18. u = a[NUM_OF_DIRS]
  BY <1>2 DEF so
<1>7. Begun(s, u) /\ \A e \in Dirs : Leads(ways, s, e) => ways.to[s][e] \in u.marks
  BY <1>6, <1>18 DEF Dirs
<1> DEFINE Q == u.queue
           M == u.marks
<1>19. /\ Q \in Seq(Item) /\ M \in SUBSET TrackRooms /\ s \in M
       /\ \A i \in 1..Len(Q) : /\ Q[i].room \in M \ {s} /\ Leads(ways, s, Q[i].dir)
                               /\ Q[i].room = ways.to[s][Q[i].dir]
       /\ \A i, j \in 1..Len(Q) : i < j => Q[i].room # Q[j].room
       /\ \A y \in M : y = s \/ \E i \in 1..Len(Q) : Q[i].room = y
       /\ \A e \in Dirs : Leads(ways, s, e) => ways.to[s][e] \in M
  BY <1>7 DEF Begun
<1> HIDE DEF Q, M
<1>8. /\ 1 - 1 = 0 /\ 1 \in Nat \ {0}
      /\ \A i \in 1..Len(Q) : Q[i] \in Item
  BY <1>19
<1>9. Within(ways, s, 0) = {s} /\ {s} \in SUBSET TrackRooms
  BY WithinSteps
<1>10. /\ Within(ways, s, 1) = {s} \cup Onwards(ways, {s})
       /\ Within(ways, s, 1) \subseteq Within(ways, s, 1 + 1)
  <2>1. Within(ways, s, 0 + 1) = Within(ways, s, 0) \cup Onwards(ways, Within(ways, s, 0))
    BY WithinSteps
  <2>2. Within(ways, s, 1 + 1) = Within(ways, s, 1) \cup Onwards(ways, Within(ways, s, 1))
    BY WithinSteps
  <2>3. 0 + 1 = 1
    OBVIOUS
  <2>4. QED
    BY <1>9, <2>1, <2>2, <2>3
<1>11. Within(ways, s, 1) \subseteq M
  <2>1. Onwards(ways, {s}) \subseteq M
    <3>1. \A y \in Onwards(ways, {s}) : \E x \in {s}, d \in Dirs : Leads(ways, x, d) /\ y = ways.to[x][d]
      BY <1>9, OnwardsIn
    <3>2. \A y \in Onwards(ways, {s}) : \E d \in Dirs : Leads(ways, s, d) /\ y = ways.to[s][d]
      BY <3>1
    <3>3. \A e \in Dirs : Leads(ways, s, e) => ways.to[s][e] \in M
      BY <1>19
    <3>4. ASSUME NEW y \in Onwards(ways, {s}) PROVE y \in M
      <4>1. PICK d \in Dirs : Leads(ways, s, d) /\ y = ways.to[s][d]
        BY <3>2
      <4>2. QED
        BY <3>3, <4>1
    <3>5. QED
      BY <3>4
  <2>2. QED
    BY <1>19, <1>10, <2>1
<1>12. \A i \in 1..Len(Q) : Q[i].dir \in Dirs
  BY <1>8 DEF Item
<1>13. M \subseteq Within(ways, s, 1)
  <2> SUFFICES ASSUME NEW y \in M, y # s PROVE y \in Onwards(ways, {s})
    BY <1>10
  <2>1. PICK i \in 1..Len(Q) : Q[i].room = y
    BY <1>19
  <2>2. Leads(ways, s, Q[i].dir) /\ y = ways.to[s][Q[i].dir] /\ Q[i].dir \in Dirs
    BY <1>19, <1>12, <2>1
  <2>3. QED
    BY <1>9, <2>2, OnwardsIn
<1>14. \A i \in 1..Len(Q) : /\ Q[i].room \in M /\ Q[i].room \notin Within(ways, s, 0)
                            /\ Leads(ways, s, Q[i].dir)
                            /\ Q[i].room \in Within(ways, ways.to[s][Q[i].dir], 1)
                            /\ Q[i].room \in Within(ways, ways.to[s][Q[i].dir], 0)
  <2> SUFFICES ASSUME NEW i \in 1..Len(Q)
               PROVE  /\ Q[i].room \in M /\ Q[i].room \notin Within(ways, s, 0)
                      /\ Leads(ways, s, Q[i].dir)
                      /\ Q[i].room \in Within(ways, ways.to[s][Q[i].dir], 1)
                      /\ Q[i].room \in Within(ways, ways.to[s][Q[i].dir], 0)
    OBVIOUS
  <2> DEFINE y == ways.to[s][Q[i].dir]
  <2>1. Q[i].room \in M /\ Q[i].room # s /\ Leads(ways, s, Q[i].dir) /\ Q[i].room = y
    BY <1>19
  <2>2. y \in TrackRooms
    BY <1>19, <2>1
  <2> HIDE DEF y
  <2>3. Within(ways, y, 0) = {y}
    BY <2>2, WithinSteps
  <2>4. Within(ways, y, 0 + 1) = Within(ways, y, 0) \cup Onwards(ways, Within(ways, y, 0))
    BY <2>2, WithinSteps
  <2>5. 0 + 1 = 1
    OBVIOUS
  <2>6. y \in Within(ways, y, 0) /\ y \in Within(ways, y, 1)
    BY <2>3, <2>4, <2>5
  <2>7. QED
    BY <1>9, <2>1, <2>6 DEF y
<1>15. \A y \in M : (\A i \in 1..Len(Q) : Q[i].room # y) =>
         y # t /\ \A d \in Dirs : Leads(ways, y, d) => ways.to[y][d] \in M
  BY <1>19
<1>16. \A i, j \in 1..Len(Q) : i < j =>
         /\ Q[i].room # Q[j].room
         /\ Q[j].room \in Within(ways, s, 1) => Q[i].room \in Within(ways, s, 1)
  BY <1>13, <1>19
<1>20. Frontier(ways, s, t, Q, M, 1)
  BY <1>8, <1>10, <1>11, <1>13, <1>14, <1>15, <1>16, <1>19 DEF Frontier
<1>17. QED
  BY <1>20 DEF Q, M

-----------------------------------------------------------------------------
(* What the search answers.                                                *)
LEMMA DistanceIs ==
    ASSUME NEW w, NEW x, NEW y, NEW n \in Nat, n <= Rooms, y \in Within(w, x, n),
           \A m \in Nat : m < n => y \notin Within(w, x, m)
    PROVE  Distance(w, x, y) = n
<1> DEFINE Is(m) == y \in Reach(w, x)[m] /\ \A j \in 0..(m - 1) : y \notin Reach(w, x)[j]
<1>1. Rooms \in Nat /\ n \in 0..Rooms
  BY RoomsCount
<1>2. \A m \in 0..Rooms : Within(w, x, m) = Reach(w, x)[m]
  BY <1>1 DEF Within
<1>3. Is(n)
  <2>1. \A j \in 0..(n - 1) : j \in Nat /\ j < n /\ j \in 0..Rooms
    BY <1>1
  <2>2. QED
    BY <1>1, <1>2, <2>1
<1>4. ASSUME NEW m \in 0..Rooms, Is(m) PROVE m = n
  <2>1. CASE m < n
    <3>1. m \in Nat /\ y \in Within(w, x, m)
      BY <1>1, <1>2, <1>4
    <3>2. QED
      BY <2>1, <3>1
  <2>2. CASE n < m
    <3>1. n \in 0..(m - 1)
      BY <1>1, <2>2
    <3>2. QED
      BY <1>1, <1>2, <1>4, <3>1
  <2>3. QED
    BY <1>1, <2>1, <2>2
<1> HIDE DEF Is
<1>5. (CHOOSE m \in 0..Rooms : Is(m)) = n
  BY <1>1, <1>3, <1>4
<1>6. QED
  BY <1>5 DEF Distance, Is, Rooms

LEMMA ThereIsNoPath ==
    ASSUME NEW w, w.to \in Maps, NEW s \in TrackRooms, NEW t, NEW M, NEW k,
           Frontier(w, s, t, <<>>, M, k)
    PROVE  ~Reachable(w, s, t)
<1>1. k \in Nat /\ M \in SUBSET TrackRooms /\ Within(w, s, k) \subseteq M
  BY DEF Frontier
<1>2. ASSUME NEW y \in M
      PROVE  y # t /\ \A d \in Dirs : Leads(w, y, d) => w.to[y][d] \in M
  <2>1. \A i \in 1..Len(<<>>) : <<>>[i].room # y
    OBVIOUS
  <2>2. QED
    BY <2>1 DEF Frontier
<1>3. s \in M
  <2>1. 0 \in Nat /\ 0 <= k /\ Within(w, s, 0) = {s}
    BY <1>1, WithinSteps
  <2>2. Within(w, s, 0) \subseteq Within(w, s, k)
    BY <1>1, <2>1, WithinGrows
  <2>3. QED
    BY <1>1, <2>1, <2>2
<1>4. Onwards(w, M) \subseteq M
  <2>1. ASSUME NEW y \in Onwards(w, M) PROVE y \in M
    <3>1. PICK x \in M, d \in Dirs : Leads(w, x, d) /\ y = w.to[x][d]
      BY <1>1, OnwardsIn
    <3>2. QED
      BY <1>2, <3>1
  <2>2. QED
    BY <2>1
<1>5. Within(w, s, Rooms) \subseteq M
  BY <1>1, <1>3, <1>4, RoomsCount, ClosedHasAll
<1>6. Within(w, s, Rooms) = Reach(w, s)[Rooms]
  BY DEF Within
<1>7. QED
  BY <1>2, <1>5, <1>6 DEF Reachable, Rooms

LEMMA ReachableWithin ==
    ASSUME NEW w, w.to \in Maps, NEW s \in TrackRooms, NEW t, NEW n \in Nat, t \in Within(w, s, n)
    PROVE  Reachable(w, s, t)
<1>1. Rooms \in Nat /\ Within(w, s, Rooms) = Reach(w, s)[Rooms]
  BY RoomsCount DEF Within
<1>2. t \in Within(w, s, Rooms)
  <2>1. CASE n <= Rooms
    BY <1>1, <2>1, WithinGrows
  <2>2. CASE ~(n <= Rooms)
    BY <1>1, <2>2 DEF Within
  <2>3. QED
    BY <2>1, <2>2
<1>3. QED
  BY <1>1, <1>2 DEF Reachable, Rooms

LEMMA ThePathIsShortest ==
    ASSUME NEW w, w.to \in Maps, NEW s \in TrackRooms, NEW t, NEW Q, NEW M, NEW k,
           Frontier(w, s, t, Q, M, k), Q # <<>>, Q[1].room = t
    PROVE  /\ Reachable(w, s, t) /\ Q[1].dir \in Dirs /\ Leads(w, s, Q[1].dir)
           /\ Distance(w, w.to[s][Q[1].dir], t) = Distance(w, s, t) - 1
<1>1. PICK n : Frontier(w, s, t, Q, M, n) /\ Q[1].room \in Within(w, s, n)
  BY FirstRoomIsNear
<1> DEFINE r == Q[1].dir
           u == w.to[s][r]
<1>2. n \in Nat /\ n - 1 \in Nat /\ n - 1 + 1 = n /\ Q \in Seq(Item) /\ 1 \in 1..Len(Q) /\ Q[1] \in Item
  BY <1>1 DEF Frontier
<1>3. /\ t \in Within(w, s, n) /\ t \notin Within(w, s, n - 1) /\ Leads(w, s, r)
      /\ t \in Within(w, u, n - 1)
  BY <1>1, <1>2 DEF Frontier
<1>4. r \in Dirs
  BY <1>2 DEF Item
<1>5. u \in TrackRooms
  BY <1>3, <1>4, LeadsSomewhere
<1>6. n <= Rooms
  <2>1. SUFFICES ASSUME ~(n <= Rooms) PROVE FALSE
    OBVIOUS
  <2>2. Within(w, s, n) = Reach(w, s)[Rooms] /\ Within(w, s, n - 1) = Reach(w, s)[Rooms]
    <3>1. Rooms \in Nat /\ (n - 1 <= Rooms => n - 1 = Rooms)
      BY <1>2, <2>1, RoomsCount
    <3>2. QED
      BY <2>1, <3>1 DEF Within
  <2>3. QED
    BY <1>3, <2>2
<1>7. \A m \in Nat : m < n => t \notin Within(w, s, m)
  <2> SUFFICES ASSUME NEW m \in Nat, m < n PROVE t \notin Within(w, s, m)
    OBVIOUS
  <2>1. m <= n - 1
    BY <1>2
  <2>2. Within(w, s, m) \subseteq Within(w, s, n - 1)
    BY <1>2, <2>1, WithinGrows
  <2>3. QED
    BY <1>3, <2>2
<1>8. Distance(w, s, t) = n
  BY <1>2, <1>3, <1>6, <1>7, DistanceIs
<1>9. \A m \in Nat : m < n - 1 => t \notin Within(w, u, m)
  <2> SUFFICES ASSUME NEW m \in Nat, m < n - 1 PROVE t \notin Within(w, u, m)
    OBVIOUS
  <2>1. m + 1 \in Nat /\ m + 1 < n
    BY <1>2
  <2>2. Within(w, u, m) \subseteq Within(w, s, m + 1)
    BY <1>3, <1>4, OneStepMore
  <2>3. QED
    BY <1>7, <2>1, <2>2
<1>10. n - 1 <= Rooms
  BY <1>2, <1>6, RoomsCount
<1> HIDE DEF u
<1>11. Distance(w, u, t) = n - 1
  BY <1>2, <1>3, <1>9, <1>10, DistanceIs
<1>12. Reachable(w, s, t)
  BY <1>2, <1>3, ReachableWithin
<1>13. QED
  BY <1>3, <1>4, <1>8, <1>11, <1>12 DEF u

LEMMA EachRoomOnce ==
    ASSUME NEW Q \in Seq(Item),
           \A i, j \in 1..Len(Q) : i < j => Q[i].room # Q[j].room
    PROVE  Cardinality({Q[i].room : i \in DOMAIN Q}) = Len(Q)
<1> DEFINE S == 1..Len(Q)
           T == {Q[i].room : i \in S}
           f == [i \in S |-> Q[i].room]
<1>1. Len(Q) \in Nat /\ DOMAIN Q = S
  OBVIOUS
<1>2. IsFiniteSet(S) /\ Cardinality(S) = Len(Q)
  BY <1>1, FS_Interval
<1>3. f \in Surjection(S, T)
  <2>1. f \in [S -> T] /\ \A y \in T : \E i \in S : f[i] = y
    OBVIOUS
  <2>2. QED
    BY <2>1 DEF Surjection
<1>4. f \in Injection(S, T)
  <2>1. ASSUME NEW i \in S, NEW j \in S, f[i] = f[j] PROVE i = j
    <3>1. Q[i].room = Q[j].room /\ i \in Int /\ j \in Int
      BY <2>1
    <3>2. ~(i < j) /\ ~(j < i)
      BY <3>1
    <3>3. QED
      BY <3>1, <3>2
  <2>2. f \in [S -> T]
    OBVIOUS
  <2> HIDE DEF f, S, T
  <2>3. QED
    BY <2>1, <2>2 DEF Injection, IsInjective
<1> HIDE DEF S, T, f
<1>5. Cardinality(T) = Cardinality(S)
  BY <1>2, <1>3, <1>4, FS_Surjection
<1>6. QED
  BY <1>1, <1>2, <1>5 DEF T

(* The invariant: while the search runs, its queue and marks are what they *)
(* should be; when it has ended, its answer is right.                      *)
Answered ==
    LET r == search.result
    IN /\ r = BFS_ALREADY_THERE <=> search.src = search.target
       /\ r = BFS_NO_PATH <=> ~Reachable(ways, search.src, search.target)
       /\ r > 0 => /\ r \in Dirs /\ Leads(ways, search.src, r)
                   /\ Distance(ways, ways.to[search.src][r], search.target)
                        = Distance(ways, search.src, search.target) - 1

TrackInv ==
    /\ ways \in TrackWorlds /\ hunter \in TrackRooms /\ prey \in TrackRooms
    /\ search \in [on : BOOLEAN, src : TrackRooms \cup {NOWHERE},
                   target : TrackRooms \cup {NOWHERE}, result : Int]
    /\ search.on =>
         /\ search.src \in TrackRooms /\ search.src # search.target
         /\ \E k : Frontier(ways, search.src, search.target, bfs_queue, bfs_marks, k)
    /\ ~search.on => bfs_queue = <<>> /\ (search = NoSearch \/ Answered)

LEMMA TrackStart == TrackingInit => TrackInv
BY DEF TrackingInit, TrackInv, NoSearch

LEMMA TrackStep == TrackInv /\ TrackingNext => TrackInv'
<1> SUFFICES ASSUME TrackInv, TrackingNext PROVE TrackInv'
  OBVIOUS
<1>1. /\ ways \in TrackWorlds /\ ways.to \in Maps
      /\ hunter \in TrackRooms /\ prey \in TrackRooms /\ NOWHERE \notin TrackRooms
      /\ search \in [on : BOOLEAN, src : TrackRooms \cup {NOWHERE},
                     target : TrackRooms \cup {NOWHERE}, result : Int]
  BY TrackingAssumption DEF TrackInv, Maps
<1>2. ASSUME find_first_step PROVE TrackInv'
  <2>1. CASE hunter = prey
    <3> DEFINE v == [on |-> FALSE, src |-> hunter, target |-> prey, result |-> BFS_ALREADY_THERE]
    <3>1. search' = v /\ bfs_queue' = bfs_queue /\ ways' = ways /\ hunter' = hunter /\ prey' = prey
          /\ ~search.on
      BY <1>2, <2>1 DEF find_first_step
    <3>2. /\ search'.on = FALSE /\ search'.src = hunter /\ search'.target = hunter
          /\ search'.result = -2
          /\ search' \in [on : BOOLEAN, src : TrackRooms \cup {NOWHERE},
                          target : TrackRooms \cup {NOWHERE}, result : Int]
      BY <1>1, <2>1, <3>1 DEF BFS_ALREADY_THERE
    <3>3. Reachable(ways, hunter, hunter)
      <4>1. 0 \in Nat /\ hunter \in Within(ways, hunter, 0)
        BY <1>1, WithinSteps
      <4>2. QED
        BY <1>1, <4>1, ReachableWithin
    <3>4. Answered'
      BY <3>1, <3>2, <3>3 DEF Answered, BFS_ALREADY_THERE, BFS_NO_PATH
    <3>5. bfs_queue' = <<>>
      BY <3>1 DEF TrackInv
    <3>6. QED
      BY <1>1, <3>1, <3>2, <3>4, <3>5 DEF TrackInv
  <2>2. CASE hunter # prey
    <3> DEFINE v == [on |-> TRUE, src |-> hunter, target |-> prey, result |-> 0]
               u == EnqueueExits(hunter, 0, [queue |-> <<>>, marks |-> {hunter}])
    <3>1. /\ search' = v /\ bfs_queue' = u.queue /\ bfs_marks' = u.marks
          /\ ways' = ways /\ hunter' = hunter /\ prey' = prey
      BY <1>2, <2>2 DEF find_first_step
    <3>2. /\ search'.on = TRUE /\ search'.src = hunter /\ search'.target = prey
          /\ search' \in [on : BOOLEAN, src : TrackRooms \cup {NOWHERE},
                          target : TrackRooms \cup {NOWHERE}, result : Int]
      BY <1>1, <3>1
    <3> HIDE DEF u
    <3>3. Frontier(ways, hunter, prey, u.queue, u.marks, 1)
      BY <1>1, <2>2, StartMakesFrontier DEF u
    <3>4. Frontier(ways', search'.src, search'.target, bfs_queue', bfs_marks', 1)
      BY <3>1, <3>2, <3>3
    <3>5. QED
      BY <1>1, <2>2, <3>1, <3>2, <3>4 DEF TrackInv
  <2>3. QED
    BY <2>1, <2>2
<1>3. ASSUME SearchStep PROVE TrackInv'
  <2> DEFINE h == Head(bfs_queue)
             u == EnqueueExits(h.room, h.dir, [queue |-> bfs_queue, marks |-> bfs_marks])
             s == search.src
             t == search.target
  <2>1. /\ search.on /\ bfs_queue # <<>> /\ h.room # t
        /\ bfs_queue' = Tail(u.queue) /\ bfs_marks' = u.marks
        /\ ways' = ways /\ search' = search /\ hunter' = hunter /\ prey' = prey
    BY <1>3 DEF SearchStep
  <2>2. PICK k : Frontier(ways, s, t, bfs_queue, bfs_marks, k)
    BY <2>1 DEF TrackInv
  <2>3. s \in TrackRooms /\ s # t
    BY <2>1 DEF TrackInv
  <2>4. bfs_queue \in Seq(Item) /\ h = bfs_queue[1]
    BY <2>1, <2>2 DEF Frontier
  <2> HIDE DEF h
  <2>5. u = EnqueueExits(bfs_queue[1].room, bfs_queue[1].dir, [queue |-> bfs_queue, marks |-> bfs_marks])
    BY <2>4
  <2> HIDE DEF u, s, t
  <2>6. \E n : Frontier(ways, s, t, Tail(u.queue), u.marks, n)
    BY <1>1, <2>1, <2>2, <2>3, <2>4, <2>5, TurnKeepsFrontier
  <2>7. \E n : Frontier(ways', search'.src, search'.target, bfs_queue', bfs_marks', n)
    BY <2>1, <2>6 DEF s, t
  <2>8. QED
    BY <1>1, <2>1, <2>3, <2>7 DEF TrackInv, s, t
<1>4. ASSUME SearchEnds PROVE TrackInv'
  <2> DEFINE s == search.src
             t == search.target
  <2>1. /\ search.on /\ bfs_queue' = <<>> /\ ways' = ways /\ hunter' = hunter /\ prey' = prey
    BY <1>4 DEF SearchEnds
  <2>2. PICK k : Frontier(ways, s, t, bfs_queue, bfs_marks, k)
    BY <2>1 DEF TrackInv
  <2>3. s \in TrackRooms /\ s # t
    BY <2>1 DEF TrackInv
  <2> DEFINE r == search'.result
             Types == [on : BOOLEAN, src : TrackRooms \cup {NOWHERE},
                       target : TrackRooms \cup {NOWHERE}, result : Int]
  <2> DEFINE Ended(n) == [search EXCEPT !.on = FALSE, !.result = n]
  <2>4. ASSUME NEW n \in Int, search' = Ended(n)
        PROVE  search'.on = FALSE /\ search'.src = s /\ search'.target = t
               /\ r = n /\ search' \in Types
    BY <1>1, <2>4
  <2>5. /\ search'.on = FALSE /\ search'.src = s /\ search'.target = t /\ search' \in Types
        /\ \/ bfs_queue = <<>> /\ r = -3
           \/ bfs_queue # <<>> /\ Head(bfs_queue).room = t /\ r = Head(bfs_queue).dir
    <3> HIDE DEF r, s, Types, Ended
    <3>1. CASE bfs_queue = <<>>
      <4>1. search' = Ended(-3) /\ -3 \in Int
        BY <1>4, <3>1 DEF SearchEnds, BFS_NO_PATH, Ended
      <4>2. QED
        BY <2>4, <3>1, <4>1
    <3>2. CASE bfs_queue # <<>>
      <4>1. Head(bfs_queue) \in Item
        BY <2>2, <3>2 DEF Frontier
      <4>2. Head(bfs_queue).dir \in Int
        BY <4>1 DEF Item, Dirs
      <4>3. search' = Ended(Head(bfs_queue).dir) /\ Head(bfs_queue).room = t
        BY <1>4, <3>2 DEF SearchEnds, Ended
      <4>4. QED
        BY <2>4, <3>2, <4>2, <4>3
    <3>3. QED
      BY <3>1, <3>2
  <2>9. r \in Int
    BY <2>5
  <2> HIDE DEF s, t, r
  <2>6. /\ r # -2
        /\ r = -3 <=> ~Reachable(ways, s, t)
        /\ r > 0 => /\ r \in Dirs /\ Leads(ways, s, r)
                    /\ Distance(ways, ways.to[s][r], t) = Distance(ways, s, t) - 1
    <3>1. CASE bfs_queue = <<>>
      <4>1. ~Reachable(ways, s, t)
        BY <1>1, <2>2, <2>3, <3>1, ThereIsNoPath
      <4>2. r = -3
        BY <2>5, <3>1
      <4>3. QED
        BY <4>1, <4>2
    <3>2. CASE bfs_queue # <<>>
      <4>1. Head(bfs_queue) = bfs_queue[1]
        BY <2>2, <3>2 DEF Frontier
      <4>2. bfs_queue[1].room = t /\ r = bfs_queue[1].dir
        BY <2>5, <3>2, <4>1
      <4>3. /\ Reachable(ways, s, t) /\ r \in Dirs /\ Leads(ways, s, r)
            /\ Distance(ways, ways.to[s][r], t) = Distance(ways, s, t) - 1
        BY <1>1, <2>2, <2>3, <3>2, <4>2, ThePathIsShortest, ZenonT(20)
      <4>4. r > 0
        BY <4>3 DEF Dirs
      <4>5. QED
        BY <4>3, <4>4
    <3>3. QED
      BY <3>1, <3>2
  <2>7. Answered'
    BY <2>1, <2>3, <2>5, <2>6 DEF Answered, r, BFS_ALREADY_THERE, BFS_NO_PATH
  <2>8. QED
    BY <1>1, <2>1, <2>5, <2>7 DEF TrackInv
<1>5. ASSUME hunt_victim PROVE TrackInv'
  <2>1. /\ ~search.on /\ search.src = hunter /\ search # NoSearch /\ search' = NoSearch
        /\ ways' = ways /\ bfs_queue' = bfs_queue /\ prey' = prey
        /\ hunter' = hunter \/ (search.result > 0 /\ hunter' = ways.to[hunter][search.result])
    BY <1>5 DEF hunt_victim
  <2>2. Answered /\ bfs_queue = <<>>
    BY <2>1 DEF TrackInv
  <2>3. hunter' \in TrackRooms
    BY <1>1, <2>1, <2>2, LeadsSomewhere DEF Answered
  <2>4. /\ NoSearch \in [on : BOOLEAN, src : TrackRooms \cup {NOWHERE},
                         target : TrackRooms \cup {NOWHERE}, result : Int]
        /\ NoSearch.on = FALSE
    BY DEF NoSearch
  <2>5. QED
    BY <1>1, <2>1, <2>2, <2>3, <2>4 DEF TrackInv
<1>6. ASSUME PreyMoves PROVE TrackInv'
  <2>1. /\ search = NoSearch /\ search' = search /\ ways' = ways /\ bfs_queue' = bfs_queue
        /\ hunter' = hunter /\ ~search.on
    BY <1>6 DEF PreyMoves
  <2>2. PICK d \in Dirs : ways.to[prey][d] # NOWHERE /\ prey' = ways.to[prey][d]
    BY <1>6 DEF PreyMoves
  <2>3. prey' \in TrackRooms
    BY <1>1, <2>2, LeadsSomewhere
  <2>4. bfs_queue = <<>>
    BY <2>1 DEF TrackInv
  <2>5. QED
    BY <1>1, <2>1, <2>3, <2>4 DEF TrackInv
<1>7. QED
  BY <1>2, <1>3, <1>4, <1>5, <1>6 DEF TrackingNext

(* A search that has ended says that there is no path when there is none,  *)
(* and else names an exit through which the target is one step nearer; and *)
(* no room stands in the queue twice: for all worlds with finitely many    *)
(* rooms and all rooms that are not tracked through; doors are ways,       *)
(* whether they are open or closed.                                        *)
THEOREM FirstStepAlwaysShortest == TrackingSpec => []FirstStepIsShortest
<1>1. TrackInv /\ [TrackingNext]_trackVars => TrackInv'
  <2>1. TrackInv /\ UNCHANGED trackVars => TrackInv'
    BY DEF TrackInv, trackVars, Answered, Frontier
  <2>2. QED
    BY <2>1, TrackStep
<1>2. TrackInv => FirstStepIsShortest
  <2> SUFFICES ASSUME TrackInv PROVE FirstStepIsShortest
    OBVIOUS
  <2>1. bfs_queue \in Seq(Item) /\ \A i, j \in 1..Len(bfs_queue) :
          i < j => bfs_queue[i].room # bfs_queue[j].room
    <3>1. CASE search.on
      BY <3>1 DEF TrackInv, Frontier
    <3>2. CASE ~search.on
      BY <3>2 DEF TrackInv
    <3>3. QED
      BY <3>1, <3>2
  <2>2. Cardinality({bfs_queue[i].room : i \in DOMAIN bfs_queue}) = Len(bfs_queue)
    BY <2>1, EachRoomOnce
  <2>3. search.on => {bfs_queue[i].room : i \in DOMAIN bfs_queue} \subseteq bfs_marks
    BY <2>1 DEF TrackInv, Frontier
  <2>4. search.on \/ search = NoSearch \/ Answered
    BY DEF TrackInv
  <2>5. QED
    BY <2>2, <2>3, <2>4 DEF FirstStepIsShortest, Answered
<1>3. QED
  BY <1>1, <1>2, TrackStart, PTL DEF TrackingSpec

(***************************************************************************)
(* The boards.                                                             *)
(***************************************************************************)
Ranking == {PosterLevel[p] : p \in Posters}
Message == [id : Nat, by : Posters, level : Ranking, reply : Nat, slot : Slot]
Record  == [id : Nat, by : Posters, level : Ranking, reply : Nat, text : BOOLEAN]

(* The messages on a board are numbered upwards, by n at most, and answer  *)
(* earlier ones.                                                           *)
Numbered(list, n) ==
  \A i \in 1..Len(list) :
    /\ list[i].id <= n /\ list[i].reply < i
    /\ \A j \in 1..Len(list) : i < j => list[i].id < list[j].id

(* What files hold, message by message, of the boards before the n-th.     *)
FiledBefore(files, n) ==
  {x \in (1..Len(BoardList)) \X (1..MAX_BOARD_MESSAGES) :
     x[1] < n /\ x[2] \in DOMAIN files[BoardList[x[1]]]}
Filed(files) == FiledBefore(files, Len(BoardList) + 1)

BoardTypes ==
  /\ msg_index \in [BoardSet -> Seq(Message)] /\ board_file \in [BoardSet -> Seq(Record)]
  /\ msg_storage \in [Slot -> BOOLEAN] /\ msg_storage_taken \in SUBSET Slot
  /\ board_writing \in [Posters -> [board : BoardSet, slot : Slot] \cup {Nowhere}]
  /\ board_posts \in 0..MaxPosts /\ boards_loaded \in BOOLEAN
  /\ at_menu \in SUBSET Posters

(* While the boards are in memory no file has more messages than its       *)
(* board; before that nobody writes.                                       *)
BoardLists ==
  \A b \in BoardSet :
    /\ Len(msg_index[b]) <= MAX_BOARD_MESSAGES /\ Len(board_file[b]) <= MAX_BOARD_MESSAGES
    /\ Numbered(msg_index[b], board_posts) /\ Numbered(board_file[b], board_posts)
    /\ boards_loaded => Len(board_file[b]) <= Len(msg_index[b])
    /\ ~boards_loaded => msg_index[b] = <<>>
BoardsIdle == ~boards_loaded => \A p \in Posters : board_writing[p] = Nowhere

(* There is a slot for each message in the files.                          *)
FilesFit == Cardinality(Filed(board_file)) <= INDEX_SIZE

BoardsTidy == BoardTypes /\ BoardLists /\ BoardsIdle /\ BoardSlotsSound
BoardInv == BoardsTidy /\ FilesFit

(* No two messages of an index share a slot.                               *)
SlotsApart(index) ==
  \A b, c \in BoardSet : \A i \in DOMAIN index[b], j \in DOMAIN index[c] :
    index[b][i].slot = index[c][j].slot => <<b, i>> = <<c, j>>

LEMMA PlacesOfBoards ==
    /\ Len(BoardList) \in Nat /\ DOMAIN BoardList = 1..Len(BoardList)
    /\ \A n \in 1..Len(BoardList) : BoardList[n] \in BoardSet
    /\ \A b \in BoardSet : \E n \in 1..Len(BoardList) : BoardList[n] = b
    /\ \A m, n \in 1..Len(BoardList) : BoardList[m] = BoardList[n] => m = n
BY BoardsAssumption DEF BoardSet, ToSet

LEMMA FiledFinite ==
    ASSUME NEW files, NEW n
    PROVE  IsFiniteSet(FiledBefore(files, n)) /\ Cardinality(FiledBefore(files, n)) \in Nat
<1> DEFINE A == (1..Len(BoardList)) \X (1..MAX_BOARD_MESSAGES)
<1>1. IsFiniteSet(1..Len(BoardList)) /\ IsFiniteSet(1..MAX_BOARD_MESSAGES)
  BY PlacesOfBoards, BoardsAssumption, FS_Interval
<1>2. IsFiniteSet(A)
  BY <1>1, FS_Product
<1>3. FiledBefore(files, n) \in SUBSET A
  BY DEF FiledBefore
<1> HIDE DEF A
<1>4. IsFiniteSet(FiledBefore(files, n))
  BY <1>2, <1>3, FS_Subset
<1>5. QED
  BY <1>4, FS_CardinalityType

(* The messages of the n-th board come after those of the ones before it.  *)
LEMMA FiledGrows ==
    ASSUME NEW files \in [BoardSet -> Seq(Record)],
           \A b \in BoardSet : Len(files[b]) <= MAX_BOARD_MESSAGES,
           NEW n \in 1..Len(BoardList), NEW m \in Int, n < m
    PROVE  Cardinality(FiledBefore(files, n)) + Len(files[BoardList[n]])
             <= Cardinality(FiledBefore(files, m))
<1> DEFINE k == Len(files[BoardList[n]])
           InIt == {<<n, j>> : j \in 1..k}
           Earlier == FiledBefore(files, n)
           Later == FiledBefore(files, m)
<1>1. files[BoardList[n]] \in Seq(Record) /\ k <= MAX_BOARD_MESSAGES
  BY PlacesOfBoards
<1>2. k \in Nat /\ DOMAIN files[BoardList[n]] = 1..k
  BY <1>1
<1> HIDE DEF k
<1>3. IsFiniteSet(1..k) /\ Cardinality(1..k) = k
  BY <1>2, FS_Interval
<1>4. [j \in 1..k |-> <<n, j>>] \in Bijection(1..k, InIt)
  BY DEF Bijection, Injection, Surjection, IsInjective
<1>5. ExistsBijection(1..k, InIt)
  BY <1>4 DEF ExistsBijection
<1>6. IsFiniteSet(InIt) /\ Cardinality(InIt) = k
  BY <1>3, <1>5, FS_Bijection
<1>7. Earlier \subseteq Later /\ InIt \subseteq Later /\ Earlier \cap InIt = {}
  <2>1. \A x \in Earlier : x \in Later
    BY DEF FiledBefore
  <2>2. \A j \in 1..k : <<n, j>> \in Later /\ <<n, j>> \notin Earlier
    BY <1>1, <1>2, BoardsAssumption DEF FiledBefore, k
  <2>3. QED
    BY <2>1, <2>2
<1>8. /\ IsFiniteSet(Earlier) /\ Cardinality(Earlier) \in Nat
      /\ IsFiniteSet(Later) /\ Cardinality(Later) \in Nat
  BY FiledFinite
<1> HIDE DEF InIt, Earlier, Later
<1>9. Cardinality(Earlier \cup InIt) = Cardinality(Earlier) + k
  <2>1. Cardinality(Earlier \cup InIt) = Cardinality(Earlier) + Cardinality(InIt) - Cardinality({})
    BY <1>6, <1>7, <1>8, FS_Union
  <2>2. QED
    BY <1>2, <1>6, <1>8, <2>1, FS_EmptySet
<1>10. Cardinality(Earlier \cup InIt) <= Cardinality(Later)
  BY <1>7, <1>8, FS_Subset
<1>11. QED
  BY <1>9, <1>10 DEF k, Earlier, Later

LEMMA MessagesAre ==
    ASSUME NEW list \in Seq(Message), NEW i \in 1..Len(list)
    PROVE  list[i] \in Message /\ list[i].id \in Nat /\ list[i].reply \in Nat /\ list[i].slot \in Slot
<1>1. list[i] \in Message
  BY ElementOfSeq
<1>2. QED
  BY <1>1 DEF Message

LEMMA RecordsAre ==
    ASSUME NEW list \in Seq(Record), NEW i \in 1..Len(list)
    PROVE  list[i] \in Record /\ list[i].id \in Nat /\ list[i].reply \in Nat
<1>1. list[i] \in Record
  BY ElementOfSeq
<1>2. QED
  BY <1>1 DEF Record

LEMMA SlotCount == IsFiniteSet(Slot) /\ Cardinality(Slot) = INDEX_SIZE
BY BoardsAssumption, FS_Interval DEF Slot

(* Messages in files that are no more than those of the boards have room.  *)
LEMMA FilesCount ==
    ASSUME NEW files \in [BoardSet -> Seq(Record)], NEW index \in [BoardSet -> Seq(Message)],
           SlotsApart(index),
           \A b \in BoardSet : Len(files[b]) <= Len(index[b])
    PROVE  Cardinality(Filed(files)) <= INDEX_SIZE
<1> DEFINE F == Filed(files)
           f == [x \in F |-> index[BoardList[x[1]]][x[2]].slot]
<1>1. ASSUME NEW x \in F
      PROVE  /\ x = <<x[1], x[2]>> /\ x[1] \in 1..Len(BoardList)
             /\ BoardList[x[1]] \in BoardSet /\ x[2] \in DOMAIN index[BoardList[x[1]]]
             /\ index[BoardList[x[1]]][x[2]].slot \in Slot
  <2>1. /\ x = <<x[1], x[2]>> /\ x[1] \in 1..Len(BoardList)
        /\ x[2] \in DOMAIN files[BoardList[x[1]]]
    BY DEF Filed, FiledBefore
  <2>2. BoardList[x[1]] \in BoardSet
    BY <2>1, PlacesOfBoards
  <2>3. x[2] \in 1..Len(index[BoardList[x[1]]]) /\ index[BoardList[x[1]]] \in Seq(Message)
    BY <2>1, <2>2
  <2>4. index[BoardList[x[1]]][x[2]] \in Message
    BY <2>3
  <2>5. QED
    BY <2>1, <2>2, <2>3, <2>4 DEF Message
<1>2. ASSUME NEW x \in F, NEW y \in F, f[x] = f[y]
      PROVE  x = y
  <2>1. index[BoardList[x[1]]][x[2]].slot = index[BoardList[y[1]]][y[2]].slot
    BY <1>2
  <2>2. <<BoardList[x[1]], x[2]>> = <<BoardList[y[1]], y[2]>>
    BY <1>1, <2>1 DEF SlotsApart
  <2>3. x[1] = y[1] /\ x[2] = y[2]
    BY <1>1, <2>2, PlacesOfBoards
  <2>4. QED
    BY <1>1, <2>3
<1>3. f \in [F -> Slot]
  BY <1>1
<1> HIDE DEF F, f
<1>4. f \in Injection(F, Slot)
  BY <1>2, <1>3 DEF Injection, IsInjective
<1>5. Cardinality(F) <= Cardinality(Slot)
  BY <1>4, SlotCount, FS_Injection
<1>6. QED
  BY <1>5, SlotCount DEF F

LEMMA LoadOrderIs ==
    ASSUME NEW n, NEW i
    PROVE  LoadOrder(n, i) = Cardinality(FiledBefore(board_file, n)) + i - 1
BY DEF LoadOrder, FiledBefore

(* Reading the boards gives each message a slot of its own.                *)
LEMMA LoadOrders ==
    ASSUME BoardInv,
           NEW n \in 1..Len(BoardList), NEW i \in 1..Len(board_file[BoardList[n]]),
           NEW m \in 1..Len(BoardList), NEW j \in 1..Len(board_file[BoardList[m]])
    PROVE  /\ LoadOrder(n, i) \in 0..(Cardinality(Filed(board_file)) - 1)
           /\ LoadOrder(n, i) = LoadOrder(m, j) => n = m /\ i = j
<1> DEFINE cn == Cardinality(FiledBefore(board_file, n))
           cm == Cardinality(FiledBefore(board_file, m))
           all == Cardinality(Filed(board_file))
           ln == Len(board_file[BoardList[n]])
           lm == Len(board_file[BoardList[m]])
<1>1. /\ board_file \in [BoardSet -> Seq(Record)]
      /\ \A b \in BoardSet : Len(board_file[b]) <= MAX_BOARD_MESSAGES
  BY DEF BoardInv, BoardsTidy, BoardTypes, BoardLists
<1>2. n \in Int /\ m \in Int /\ Len(BoardList) + 1 \in Int
      /\ n < Len(BoardList) + 1
  BY PlacesOfBoards
<1>3. cn \in Nat /\ cm \in Nat /\ all \in Nat
  BY FiledFinite DEF Filed
<1>4. ln \in Nat /\ lm \in Nat
  BY <1>1, PlacesOfBoards
<1>5. cn + ln <= all
  BY <1>1, <1>2, FiledGrows DEF Filed
<1>6. n < m => cn + ln <= cm
  BY <1>1, <1>2, FiledGrows
<1>7. m < n => cm + lm <= cn
  BY <1>1, <1>2, FiledGrows
<1>8. LoadOrder(n, i) = cn + i - 1 /\ LoadOrder(m, j) = cm + j - 1
  BY LoadOrderIs
<1>9. i \in 1..ln /\ j \in 1..lm
  OBVIOUS
<1>10. n = m => cn = cm
  OBVIOUS
<1> HIDE DEF cn, cm, all, ln, lm
<1>11. LoadOrder(n, i) \in 0..(all - 1) /\ (LoadOrder(n, i) = LoadOrder(m, j) => n = m /\ i = j)
  BY <1>2, <1>3, <1>4, <1>5, <1>6, <1>7, <1>8, <1>9, <1>10
<1>12. QED
  BY <1>11 DEF all

LEMMA FoundSlotIsFree ==
    ASSUME NEW taken, FoundSlot(taken) # -1
    PROVE  FoundSlot(taken) \in Slot \ taken
<1> DEFINE F == FreeSlots(taken)
           R == {xy \in Nat \X Nat : xy[1] < xy[2]}
<1>1. IsWellFoundedOn(R, Nat)
  BY NatLessThanWellFounded DEF OpToRel
<1>2. F # {} /\ F \in SUBSET Nat
  BY BoardsAssumption DEF FoundSlot, FreeSlots, Slot
<1> HIDE DEF F, R
<1>3. PICK x \in F : \A y \in F : ~ (<<y, x>> \in R)
  BY <1>1, <1>2, WFMin
<1>4. ASSUME NEW y \in F PROVE x <= y
  <2>1. x \in Nat /\ y \in Nat
    BY <1>2
  <2>2. y < x => <<y, x>> \in R
    BY <2>1 DEF R
  <2>3. QED
    BY <1>3, <2>1, <2>2
<1>5. FoundSlot(taken) = CHOOSE s \in F : \A t \in F : s <= t
  BY <1>2 DEF FoundSlot, F
<1>6. FoundSlot(taken) \in F
  BY <1>4, <1>5
<1>7. QED
  BY <1>6 DEF F, FreeSlots

(* The body of ResponsesKeepTheirMessage.                                  *)
ResponsesKept ==
  \A b \in BoardSet :
    boards_loaded /\ boards_loaded' =>
      \A a \in Answers(msg_index, b) :
        (\E i \in DOMAIN msg_index'[b] : msg_index'[b][i].id = a[1])
          => a \in Answers(msg_index', b)

(* What each command and each answer leaves behind.                        *)
BoardStep == BoardsTidy' /\ ResponsesKept /\ (boards_loaded' \/ board_file' = board_file)

LEMMA FilesFitStep == BoardInv /\ BoardStep => FilesFit'
<1> SUFFICES ASSUME BoardInv, BoardStep PROVE FilesFit'
  OBVIOUS
<1>1. CASE board_file' = board_file
  BY <1>1 DEF BoardInv, FilesFit, Filed, FiledBefore
<1>2. CASE boards_loaded'
  <2>1. /\ board_file' \in [BoardSet -> Seq(Record)] /\ msg_index' \in [BoardSet -> Seq(Message)]
        /\ \A b \in BoardSet : Len(board_file'[b]) <= Len(msg_index'[b])
    BY <1>2 DEF BoardStep, BoardsTidy, BoardTypes, BoardLists
  <2>2. SlotsApart(msg_index')
    BY DEF BoardStep, BoardsTidy, BoardSlotsSound, SlotsApart
  <2>3. Cardinality(Filed(board_file')) <= INDEX_SIZE
    BY <2>1, <2>2, FilesCount
  <2>4. QED
    BY <2>3 DEF FilesFit
<1>3. QED
  BY <1>1, <1>2 DEF BoardStep

LEMMA IdleIndexKept == msg_index' = msg_index => ResponsesKept
BY DEF ResponsesKept, Answers

LEMMA BoardTidy ==
    ASSUME BoardInv
    PROVE  BoardTypes /\ BoardLists /\ BoardsIdle /\ BoardSlotsSound
BY DEF BoardInv, BoardsTidy

LEMMA LineStep == ASSUME BoardInv, NEW p \in Posters, string_add_line(p) PROVE BoardStep
<1>1. BoardTypes'
  BY BoardTidy DEF BoardTypes, string_add_line, Nowhere
<1>2. BoardLists' /\ BoardsIdle' /\ BoardSlotsSound'
  BY BoardTidy DEF BoardLists, BoardsIdle, BoardSlotsSound, string_add_line
<1>3. msg_index' = msg_index /\ board_file' = board_file
  BY DEF string_add_line
<1>4. QED
  BY <1>1, <1>2, <1>3, IdleIndexKept DEF BoardStep, BoardsTidy

LEMMA LoseStep == ASSUME BoardInv, NEW p \in Posters, LoseWriter(p) PROVE BoardStep
<1>1. BoardTypes'
  BY BoardTidy DEF BoardTypes, LoseWriter, Nowhere
<1>2. BoardLists' /\ BoardsIdle' /\ BoardSlotsSound'
  BY BoardTidy DEF BoardTypes, BoardLists, BoardsIdle, BoardSlotsSound, LoseWriter
<1>3. msg_index' = msg_index /\ board_file' = board_file
  BY DEF LoseWriter
<1>4. QED
  BY <1>1, <1>2, <1>3, IdleIndexKept DEF BoardStep, BoardsTidy

LEMMA ExtractStep == ASSUME BoardInv, NEW p \in Posters, ExtractWriter(p) PROVE BoardStep
<1>1. BoardTypes'
  BY BoardTidy DEF BoardTypes, ExtractWriter
<1>2. BoardLists' /\ BoardsIdle' /\ BoardSlotsSound'
  BY BoardTidy DEF BoardTypes, BoardLists, BoardsIdle, BoardSlotsSound, ExtractWriter
<1>3. msg_index' = msg_index /\ board_file' = board_file
  BY DEF ExtractWriter
<1>4. QED
  BY <1>1, <1>2, <1>3, IdleIndexKept DEF BoardStep, BoardsTidy

LEMMA CrashStep == ASSUME BoardInv, BoardsCrash PROVE BoardStep
<1>1. BoardTypes'
  <2>1. << >> \in Seq(Message)
    OBVIOUS
  <2>2. QED
    BY <2>1, BoardTidy DEF BoardTypes, BoardsCrash
<1>2. BoardLists' /\ BoardsIdle' /\ BoardSlotsSound'
  <2>1. /\ \A b \in BoardSet : msg_index'[b] = <<>> /\ board_file'[b] = board_file[b]
        /\ ~boards_loaded' /\ UNCHANGED board_posts
        /\ \A p \in Posters : board_writing'[p] = Nowhere
    BY DEF BoardsCrash
  <2>2. \A b \in BoardSet : /\ Len(board_file[b]) <= MAX_BOARD_MESSAGES
                            /\ Numbered(board_file[b], board_posts)
    BY BoardTidy DEF BoardLists
  <2>3. Len(<<>>) <= MAX_BOARD_MESSAGES /\ Numbered(<<>>, board_posts)
    BY BoardsAssumption DEF Numbered
  <2>4. BoardLists'
    BY <2>1, <2>2, <2>3 DEF BoardLists
  <2>5. BoardsIdle'
    BY <2>1 DEF BoardsIdle
  <2>6. BoardSlotsSound'
    BY <2>1 DEF BoardSlotsSound
  <2>7. QED
    BY <2>4, <2>5, <2>6
<1>3. ~boards_loaded' /\ board_file' = board_file
  BY DEF BoardsCrash
<1>4. QED
  BY <1>1, <1>2, <1>3 DEF BoardStep, BoardsTidy, ResponsesKept

LEMMA NumberedMore ==
    ASSUME NEW list, NEW n \in Nat, Numbered(list, n),
           \A i \in 1..Len(list) : list[i].id \in Nat
    PROVE  Numbered(list, n + 1)
<1>1. \A i \in 1..Len(list) : list[i].id <= n + 1
  BY DEF Numbered
<1>2. QED
  BY <1>1 DEF Numbered

LEMMA OneMoreNumbered ==
    ASSUME NEW list, NEW old, NEW n \in Nat, NEW k \in Nat, k = Len(old), Numbered(old, n + 1),
           \A i \in 1..k : old[i].id \in Nat /\ old[i].id <= n,
           Len(list) = k + 1, \A i \in 1..k : list[i] = old[i],
           list[k + 1].id = n + 1, list[k + 1].reply <= k, list[k + 1].reply \in Nat
    PROVE  Numbered(list, n + 1)
<1>1. \A i \in 1..(k + 1) : i \in 1..k \/ i = k + 1
  OBVIOUS
<1>2. ASSUME NEW i \in 1..(k + 1)
      PROVE  list[i].id <= n + 1 /\ list[i].reply < i
  <2>1. CASE i \in 1..k
    BY <2>1 DEF Numbered
  <2>2. CASE i = k + 1
    BY <2>2
  <2>3. QED
    BY <1>1, <2>1, <2>2
<1>3. ASSUME NEW i \in 1..(k + 1), NEW j \in 1..(k + 1), i < j
      PROVE  list[i].id < list[j].id
  <2>1. i \in 1..k
    BY <1>3
  <2>2. CASE j \in 1..k
    BY <1>3, <2>1, <2>2 DEF Numbered
  <2>3. CASE j = k + 1
    <3>1. list[i].id \in Nat /\ list[i].id <= n
      BY <2>1
    <3>2. QED
      BY <2>3, <3>1
  <2>4. QED
    BY <1>1, <2>2, <2>3
<1>4. QED
  BY <1>2, <1>3 DEF Numbered

LEMMA NewMessageStep ==
    ASSUME BoardInv, NEW p \in Posters, NEW b \in BoardSet, NEW reply \in 0..Len(msg_index[b]),
           AtBoard(p, b), board_posts < MaxPosts, Len(msg_index[b]) < MAX_BOARD_MESSAGES,
           find_slot, FoundSlot(msg_storage_taken) # -1, NewMessage(p, b, reply),
           UNCHANGED <<msg_storage, board_file, boards_loaded, at_menu>>
    PROVE  BoardStep
<1> DEFINE s == FoundSlot(msg_storage_taken)
           new == [id |-> board_posts + 1, by |-> p, level |-> PosterLevel[p], reply |-> reply, slot |-> s]
           old == msg_index[b]
           k == Len(old)
<1>1. /\ s \in Slot \ msg_storage_taken /\ s # -1
      /\ msg_storage_taken' = msg_storage_taken \cup {s}
  BY FoundSlotIsFree DEF find_slot
<1>2. /\ msg_index \in [BoardSet -> Seq(Message)] /\ board_file \in [BoardSet -> Seq(Record)]
      /\ board_posts \in Nat /\ board_posts + 1 \in 0..MaxPosts
      /\ msg_index' = [msg_index EXCEPT ![b] = Append(old, new)]
      /\ board_writing' = [board_writing EXCEPT ![p] = [board |-> b, slot |-> s]]
      /\ board_posts' = board_posts + 1 /\ boards_loaded /\ boards_loaded'
      /\ board_file' = board_file /\ at_menu' = at_menu
  BY BoardTidy, BoardsAssumption DEF BoardTypes, NewMessage, AtBoard
<1>3. old \in Seq(Message) /\ k \in Nat /\ DOMAIN old = 1..k
  BY <1>2
<1>4. new \in Message
  BY <1>1, <1>2, <1>3 DEF Message, Ranking
<1> HIDE DEF s, new
<1>5. /\ Append(old, new) \in Seq(Message) /\ Len(Append(old, new)) = k + 1
      /\ \A i \in 1..k : Append(old, new)[i] = old[i]
      /\ Append(old, new)[k + 1] = new
  BY <1>3, <1>4, AppendProperties
<1>6. /\ msg_index' \in [BoardSet -> Seq(Message)]
      /\ \A c \in BoardSet : c # b => msg_index'[c] = msg_index[c]
      /\ Len(msg_index'[b]) = k + 1 /\ DOMAIN msg_index'[b] = 1..(k + 1)
      /\ \A i \in 1..k : msg_index'[b][i] = old[i]
      /\ msg_index'[b][k + 1] = new
  BY <1>2, <1>5
<1>7. /\ new.id = board_posts + 1 /\ new.by = p /\ new.reply = reply /\ new.slot = s
  BY DEF new
<1>8. BoardTypes'
  <2>1. board_writing' \in [Posters -> [board : BoardSet, slot : Slot] \cup {Nowhere}]
    BY <1>1, <1>2, BoardTidy DEF BoardTypes
  <2>2. QED
    BY <1>1, <1>2, <1>6, <2>1, BoardTidy DEF BoardTypes
<1>9. BoardLists'
  <2>1. ASSUME NEW c \in BoardSet
        PROVE  /\ Len(msg_index'[c]) <= MAX_BOARD_MESSAGES
               /\ Len(board_file[c]) <= Len(msg_index'[c])
    <3>1. Len(board_file[c]) <= Len(msg_index[c]) /\ Len(msg_index[c]) <= MAX_BOARD_MESSAGES
          /\ Len(board_file[c]) \in Nat
      BY <1>2, BoardTidy DEF BoardLists
    <3>2. CASE c = b
      <4>1. k < MAX_BOARD_MESSAGES /\ Len(board_file[b]) <= k
        BY <1>3, <3>1, <3>2
      <4>2. QED
        BY <1>3, <1>6, <3>1, <3>2, <4>1, BoardsAssumption
    <3>3. CASE c # b
      BY <1>6, <3>1, <3>3
    <3>4. QED
      BY <3>2, <3>3
  <2>2. ASSUME NEW c \in BoardSet PROVE Numbered(board_file[c], board_posts + 1)
    <3>1. Numbered(board_file[c], board_posts) /\ board_file[c] \in Seq(Record)
      BY <1>2, BoardTidy DEF BoardLists
    <3>2. \A i \in 1..Len(board_file[c]) : board_file[c][i].id \in Nat
      BY <3>1, RecordsAre
    <3>3. QED
      BY <1>2, <3>1, <3>2, NumberedMore
  <2>3. ASSUME NEW c \in BoardSet PROVE Numbered(msg_index[c], board_posts + 1)
    <3>1. Numbered(msg_index[c], board_posts) /\ msg_index[c] \in Seq(Message)
      BY <1>2, BoardTidy DEF BoardLists
    <3>2. \A i \in 1..Len(msg_index[c]) : msg_index[c][i].id \in Nat
      BY <3>1, MessagesAre
    <3>3. QED
      BY <1>2, <3>1, <3>2, NumberedMore
  <2>4. Numbered(msg_index'[b], board_posts + 1)
    <3>1. Numbered(old, board_posts)
      BY BoardTidy DEF BoardLists
    <3>2. \A i \in 1..k : old[i].id \in Nat
      BY <1>3, MessagesAre
    <3>3. /\ Numbered(old, board_posts + 1)
          /\ \A i \in 1..k : old[i].id <= board_posts
      BY <1>2, <3>1, <3>2, NumberedMore DEF Numbered
    <3>4. /\ Len(msg_index'[b]) = k + 1 /\ \A i \in 1..k : msg_index'[b][i] = old[i]
          /\ msg_index'[b][k + 1].id = board_posts + 1
          /\ msg_index'[b][k + 1].reply <= k /\ msg_index'[b][k + 1].reply \in Nat
      BY <1>3, <1>6, <1>7
    <3> HIDE DEF old, k
    <3>5. k \in Nat /\ k = Len(old)
      BY <1>3 DEF k, old
    <3>6. QED
      BY <1>2, <3>2, <3>3, <3>4, <3>5, OneMoreNumbered
  <2>5. ASSUME NEW c \in BoardSet PROVE Numbered(msg_index'[c], board_posts')
    BY <1>2, <1>6, <2>3, <2>4
  <2>6. QED
    BY <1>2, <2>1, <2>2, <2>5, BoardTidy DEF BoardLists
<1>10. BoardSlotsSound'
  <2>1. \A c \in BoardSet : \A i \in DOMAIN msg_index[c] : msg_index[c][i].slot # s
    BY <1>1, BoardTidy DEF BoardSlotsSound
  <2>2. ASSUME NEW c \in BoardSet, NEW i \in DOMAIN msg_index'[c]
        PROVE  \/ i \in DOMAIN msg_index[c] /\ msg_index'[c][i] = msg_index[c][i]
               \/ c = b /\ i = k + 1 /\ msg_index'[c][i] = new
    <3>1. CASE c = b
      <4>1. i \in 1..k \/ i = k + 1
        BY <1>3, <1>6, <3>1
      <4>2. QED
        BY <1>3, <1>6, <3>1, <4>1
    <3>2. CASE c # b
      BY <1>6, <3>2
    <3>3. QED
      BY <3>1, <3>2
  <2>3. ASSUME NEW c \in BoardSet, NEW d \in BoardSet,
               NEW i \in DOMAIN msg_index'[c], NEW j \in DOMAIN msg_index'[d],
               msg_index'[c][i].slot = msg_index'[d][j].slot
        PROVE  <<c, i>> = <<d, j>>
    BY <1>7, <2>1, <2>2, <2>3, BoardTidy DEF BoardSlotsSound
  <2>4. ASSUME NEW c \in BoardSet, NEW i \in DOMAIN msg_index'[c]
        PROVE  msg_index'[c][i].slot \in msg_storage_taken' /\ msg_index'[c][i].reply < i
    <3>1. reply < k + 1
      BY <1>3
    <3>2. QED
      BY <1>1, <1>7, <2>2, <3>1, BoardTidy DEF BoardSlotsSound
  <2>5. ASSUME NEW q \in Posters \ at_menu, board_writing'[q] # Nowhere
        PROVE  \E i \in DOMAIN msg_index'[board_writing'[q].board] :
                 /\ msg_index'[board_writing'[q].board][i].slot = board_writing'[q].slot
                 /\ msg_index'[board_writing'[q].board][i].by = q
    <3>1. CASE q = p
      <4>1. board_writing'[q] = [board |-> b, slot |-> s]
        BY <1>2, <3>1, BoardTidy DEF BoardTypes
      <4>2. k + 1 \in DOMAIN msg_index'[b]
        BY <1>3, <1>6
      <4>3. QED
        BY <1>6, <1>7, <3>1, <4>1, <4>2
    <3>2. CASE q # p
      <4> DEFINE d == board_writing[q].board
      <4>1. board_writing'[q] = board_writing[q] /\ board_writing[q] # Nowhere
        BY <1>2, <2>5, <3>2, BoardTidy DEF BoardTypes
      <4>2. d \in BoardSet
        BY <4>1, BoardTidy DEF BoardTypes
      <4>3. PICK i \in DOMAIN msg_index[d] :
              msg_index[d][i].slot = board_writing[q].slot /\ msg_index[d][i].by = q
        BY <4>1, BoardTidy DEF BoardSlotsSound
      <4> HIDE DEF d
      <4>4. i \in DOMAIN msg_index'[d] /\ msg_index'[d][i] = msg_index[d][i]
        <5>1. CASE d = b
          <6>1. i \in 1..k /\ i \in 1..(k + 1)
            BY <1>3, <4>3, <5>1
          <6>2. QED
            BY <1>6, <5>1, <6>1
        <5>2. CASE d # b
          BY <1>6, <4>2, <4>3, <5>2
        <5>3. QED
          BY <5>1, <5>2
      <4>5. QED
        BY <4>1, <4>3, <4>4 DEF d
    <3>3. QED
      BY <3>1, <3>2
  <2>6. QED
    BY <1>2, <2>3, <2>4, <2>5 DEF BoardSlotsSound
<1>11. ResponsesKept
  <2>1. ASSUME NEW c \in BoardSet, NEW a \in Answers(msg_index, c)
        PROVE  a \in Answers(msg_index', c)
    <3>1. CASE c # b
      BY <1>6, <2>1, <3>1 DEF Answers
    <3>2. CASE c = b
      <4>1. PICK i \in 1..k : old[i].reply # 0 /\ a = <<old[i].id, old[old[i].reply].id>>
        BY <1>3, <2>1, <3>2 DEF Answers
      <4>2. old[i].reply < i /\ old[i].reply \in Nat
        BY <1>3, <4>1, BoardTidy, MessagesAre DEF BoardLists, Numbered
      <4>3. old[i].reply \in 1..k /\ i \in 1..(k + 1)
        BY <1>3, <4>1, <4>2
      <4>4. msg_index'[b][i] = old[i] /\ msg_index'[b][old[i].reply] = old[old[i].reply]
        BY <1>6, <4>1, <4>3
      <4>5. i \in DOMAIN msg_index'[b]
        BY <1>6, <4>3
      <4>6. QED
        BY <3>2, <4>1, <4>4, <4>5 DEF Answers
    <3>3. QED
      BY <3>1, <3>2
  <2>2. QED
    BY <2>1 DEF ResponsesKept
<1>12. QED
  BY <1>2, <1>8, <1>9, <1>10, <1>11 DEF BoardStep, BoardsTidy, BoardsIdle

(* A slot may be taken in vain.                                            *)
LEMMA SlotTakenStep ==
    ASSUME BoardInv, boards_loaded, find_slot,
           UNCHANGED <<msg_index, msg_storage, board_writing, board_file, board_posts, boards_loaded, at_menu>>
    PROVE  BoardStep
<1>1. msg_storage_taken' \in SUBSET Slot /\ msg_storage_taken \subseteq msg_storage_taken'
  BY FoundSlotIsFree, BoardTidy DEF find_slot, BoardTypes
<1>2. BoardTypes'
  BY <1>1, BoardTidy DEF BoardTypes
<1>3. BoardLists' /\ BoardsIdle' /\ BoardSlotsSound'
  BY <1>1, BoardTidy DEF BoardLists, BoardsIdle, BoardSlotsSound
<1>4. QED
  BY <1>2, <1>3, IdleIndexKept DEF BoardStep, BoardsTidy

LEMMA WriteStep ==
    ASSUME BoardInv, NEW p \in Posters, NEW b \in BoardSet, Board_write_message(p, b)
    PROVE  BoardStep
<1>1. 0 \in 0..Len(msg_index[b])
  BY BoardTidy DEF BoardTypes
<1>2. AtBoard(p, b) /\ boards_loaded
  BY DEF Board_write_message, AtBoard
<1>3. QED
  BY <1>1, <1>2, NewMessageStep, SlotTakenStep DEF Board_write_message

LEMMA RespondStep ==
    ASSUME BoardInv, NEW p \in Posters, NEW b \in BoardSet, NEW msg \in 1..MAX_BOARD_MESSAGES,
           Board_respond_message(p, b, msg)
    PROVE  BoardStep
<1>1. msg \in DOMAIN msg_index[b] => msg \in 0..Len(msg_index[b])
  BY BoardTidy DEF BoardTypes
<1>2. AtBoard(p, b) /\ boards_loaded
  BY DEF Board_respond_message, AtBoard
<1>3. QED
  BY <1>1, <1>2, NewMessageStep, SlotTakenStep DEF Board_respond_message

LEMMA ListOf ==
    ASSUME NEW S, NEW k \in Nat, NEW s \in [1..k -> S]
    PROVE  s \in Seq(S) /\ Len(s) = k
<1>1. s \in Seq(S)
  BY SeqDef
<1>2. Len(s) \in Nat /\ 1..Len(s) = 1..k
  BY <1>1, LenProperties
<1>3. Len(s) <= k
  <2>1. Len(s) > 0 => Len(s) \in 1..Len(s)
    BY <1>2
  <2>2. QED
    BY <1>2, <2>1
<1>4. k <= Len(s)
  <2>1. k > 0 => k \in 1..k
    OBVIOUS
  <2>2. QED
    BY <1>2, <2>1
<1>5. QED
  BY <1>1, <1>2, <1>3, <1>4

(* What is written to a file is numbered as the board is.                  *)
LEMMA SavedRecords ==
    ASSUME NEW list \in Seq(Message), NEW storage \in [Slot -> BOOLEAN], NEW saved,
           saved = [i \in DOMAIN list |-> [id |-> list[i].id, by |-> list[i].by,
                      level |-> list[i].level, reply |-> list[i].reply,
                      text |-> storage[list[i].slot]]],
           NEW n, Numbered(list, n)
    PROVE  saved \in Seq(Record) /\ Len(saved) = Len(list) /\ Numbered(saved, n)
<1> DEFINE k == Len(list)
<1>1. k \in Nat /\ DOMAIN list = 1..k
  OBVIOUS
<1>2. ASSUME NEW i \in 1..k
      PROVE  saved[i] \in Record /\ saved[i].id = list[i].id /\ saved[i].reply = list[i].reply
  BY <1>1, MessagesAre DEF Record, Message
<1> HIDE DEF k
<1>3. DOMAIN saved = 1..k /\ saved = [i \in 1..k |-> saved[i]]
  BY <1>1
<1>4. saved \in [1..k -> Record]
  BY <1>2, <1>3
<1>5. saved \in Seq(Record) /\ Len(saved) = k
  BY <1>1, <1>4, ListOf
<1>6. Numbered(saved, n)
  BY <1>2, <1>5 DEF Numbered, k
<1>7. QED
  BY <1>5, <1>6 DEF k

LEMMA EndStep == ASSUME BoardInv, NEW p \in Posters, string_add_end(p) PROVE BoardStep
<1> DEFINE x == board_writing[p]
           saved == SavedAs(x.board, msg_storage')
<1>1. x # Nowhere /\ x.board \in BoardSet /\ x.slot \in Slot /\ boards_loaded
  BY BoardTidy DEF string_add_end, BoardTypes, BoardsIdle
<1>2. /\ msg_storage' \in [Slot -> BOOLEAN]
      /\ board_file' = [board_file EXCEPT ![x.board] = saved]
      /\ board_writing' = [board_writing EXCEPT ![p] = Nowhere]
      /\ msg_index' = msg_index /\ msg_storage_taken' = msg_storage_taken
      /\ board_posts' = board_posts /\ boards_loaded' = boards_loaded /\ at_menu' = at_menu \ {p}
  BY <1>1, BoardTidy DEF string_add_end, BoardTypes
<1> DEFINE list == msg_index[x.board]
<1>3. list \in Seq(Message) /\ Numbered(list, board_posts)
  BY <1>1, BoardTidy DEF BoardTypes, BoardLists
<1>4. saved = [i \in DOMAIN list |-> [id |-> list[i].id, by |-> list[i].by,
                      level |-> list[i].level, reply |-> list[i].reply,
                      text |-> msg_storage'[list[i].slot]]]
  BY DEF SavedAs
<1> HIDE DEF saved, list
<1>5. saved \in Seq(Record) /\ Len(saved) = Len(list) /\ Numbered(saved, board_posts)
  BY <1>2, <1>3, <1>4, SavedRecords
<1>6. /\ board_file' \in [BoardSet -> Seq(Record)]
      /\ board_file'[x.board] = saved
      /\ \A b \in BoardSet : b # x.board => board_file'[b] = board_file[b]
  BY <1>1, <1>2, <1>5, BoardTidy DEF BoardTypes
<1>7. BoardTypes'
  <2>1. board_writing' \in [Posters -> [board : BoardSet, slot : Slot] \cup {Nowhere}]
    BY <1>2, BoardTidy DEF BoardTypes
  <2>2. QED
    BY <1>2, <1>6, <2>1, BoardTidy DEF BoardTypes
<1>8. BoardLists'
  <2>1. Len(saved) <= MAX_BOARD_MESSAGES /\ Len(saved) <= Len(msg_index[x.board])
    <3>1. Len(list) <= MAX_BOARD_MESSAGES /\ Len(list) \in Nat
      BY <1>1, <1>3, BoardTidy DEF BoardLists, list
    <3>2. QED
      BY <1>5, <3>1 DEF list
  <2>2. QED
    BY <1>1, <1>2, <1>5, <1>6, <2>1, BoardTidy DEF BoardLists
<1>9. BoardSlotsSound'
  <2>1. \A q \in Posters : board_writing'[q] # Nowhere =>
          board_writing'[q] = board_writing[q] /\ (q \in at_menu' <=> q \in at_menu)
    BY <1>2, BoardTidy DEF BoardTypes
  <2>2. QED
    BY <1>2, <2>1, BoardTidy DEF BoardSlotsSound
<1>10. QED
  BY <1>1, <1>2, <1>7, <1>8, <1>9, IdleIndexKept DEF BoardStep, BoardsTidy, BoardsIdle

(* The places of the messages that stay when message ind is removed.       *)
Was(i, ind) == IF i < ind THEN i ELSE i + 1

LEMMA WithoutIs ==
    ASSUME NEW list \in Seq(Message), NEW ind \in 1..Len(list), NEW n,
           Numbered(list, n), \A i \in DOMAIN list : list[i].reply # ind
    PROVE  LET less == WithoutMessage(list, ind)
           IN /\ less \in Seq(Message) /\ Len(less) = Len(list) - 1
              /\ \A i \in 1..(Len(list) - 1) :
                   LET m == list[Was(i, ind)]
                   IN /\ Was(i, ind) \in 1..Len(list) \ {ind}
                      /\ less[i].id = m.id /\ less[i].by = m.by /\ less[i].slot = m.slot
                      /\ less[i].reply = (IF m.reply >= ind THEN m.reply - 1 ELSE m.reply)
                      /\ less[i].reply < i
              /\ Numbered(less, n)
<1> DEFINE k == Len(list)
           less == WithoutMessage(list, ind)
           w(i) == list[Was(i, ind)]
<1>1. k \in Nat /\ k >= 1 /\ DOMAIN list = 1..k /\ ind \in 1..k /\ k - 1 \in Nat
  OBVIOUS
<1>2. DOMAIN less = 1..(k - 1)
  BY DEF WithoutMessage
<1>3. ASSUME NEW i \in 1..(k - 1)
      PROVE  /\ Was(i, ind) \in (1..k) \ {ind} /\ w(i) \in Message
             /\ w(i).reply \in Nat /\ w(i).reply < Was(i, ind) /\ w(i).reply # ind
             /\ less[i] = IF i >= ind /\ w(i).reply >= ind THEN [w(i) EXCEPT !.reply = @ - 1] ELSE w(i)
  <2>1. Was(i, ind) \in (1..k) \ {ind}
    BY <1>1 DEF Was
  <2>2. w(i) \in Message /\ w(i).reply \in Nat
    BY <2>1, MessagesAre
  <2>3. w(i).reply < Was(i, ind) /\ w(i).reply # ind
    BY <1>1, <2>1 DEF Numbered
  <2>4. less[i] = IF i >= ind /\ w(i).reply >= ind THEN [w(i) EXCEPT !.reply = @ - 1] ELSE w(i)
    BY <1>1 DEF WithoutMessage, Was
  <2>5. QED
    BY <2>1, <2>2, <2>3, <2>4
<1>4. ASSUME NEW i \in 1..(k - 1)
      PROVE  /\ less[i] \in Message
             /\ less[i].id = w(i).id /\ less[i].by = w(i).by /\ less[i].slot = w(i).slot
             /\ less[i].reply = (IF w(i).reply >= ind THEN w(i).reply - 1 ELSE w(i).reply)
             /\ less[i].reply < i
  <2> DEFINE m == w(i)
             x == Was(i, ind)
  <2>1. /\ m \in Message /\ m.reply \in Nat /\ m.reply < x /\ m.reply # ind /\ x \in (1..k) \ {ind}
        /\ less[i] = IF i >= ind /\ m.reply >= ind THEN [m EXCEPT !.reply = @ - 1] ELSE m
    BY <1>3
  <2>2. x = IF i < ind THEN i ELSE i + 1
    BY DEF Was
  <2>3. ind \in Nat /\ i \in Nat
    BY <1>1
  <2> HIDE DEF m, x, less
  <2>4. i < ind => m.reply < ind
    BY <2>1, <2>2, <2>3
  <2>5. /\ [m EXCEPT !.reply = @ - 1].id = m.id /\ [m EXCEPT !.reply = @ - 1].by = m.by
        /\ [m EXCEPT !.reply = @ - 1].slot = m.slot
        /\ [m EXCEPT !.reply = @ - 1].reply = m.reply - 1
        /\ m.reply >= ind => [m EXCEPT !.reply = @ - 1] \in Message
    <3>1. m.reply >= ind => m.reply - 1 \in Nat
      BY <1>1, <2>1, <2>3
    <3>2. \A r \in Nat : LET e == [m EXCEPT !.reply = r]
                         IN e \in Message /\ e.id = m.id /\ e.by = m.by /\ e.slot = m.slot /\ e.reply = r
      BY <2>1 DEF Message
    <3>3. \A r : LET e == [m EXCEPT !.reply = r]
                 IN e.id = m.id /\ e.by = m.by /\ e.slot = m.slot /\ e.reply = r
      BY <2>1 DEF Message
    <3>4. QED
      BY <3>1, <3>2, <3>3
  <2>6. /\ less[i] \in Message
        /\ less[i].id = m.id /\ less[i].by = m.by /\ less[i].slot = m.slot
        /\ less[i].reply = (IF m.reply >= ind THEN m.reply - 1 ELSE m.reply)
    BY <2>1, <2>3, <2>4, <2>5
  <2>7. less[i].reply < i
    BY <2>1, <2>2, <2>3, <2>6
  <2>8. QED
    BY <2>6, <2>7 DEF m
<1>5. less \in Seq(Message) /\ Len(less) = k - 1
  <2>1. less = [i \in 1..(k - 1) |-> less[i]]
    BY DEF WithoutMessage
  <2> HIDE DEF less, k
  <2>2. less \in [1..(k - 1) -> Message]
    BY <1>4, <2>1
  <2>3. QED
    BY <1>1, <2>2, ListOf
<1>6. Numbered(less, n)
  <2>1. ASSUME NEW i \in 1..(k - 1), NEW j \in 1..(k - 1), i < j
        PROVE  less[i].id < less[j].id
    <3>1. Was(i, ind) < Was(j, ind)
      BY <1>1, <2>1 DEF Was
    <3>2. w(i).id < w(j).id
      BY <1>3, <2>1, <3>1 DEF Numbered
    <3>3. QED
      BY <1>4, <2>1, <3>2
  <2>2. ASSUME NEW i \in 1..(k - 1) PROVE less[i].id <= n
    <3>1. w(i).id <= n
      BY <1>3 DEF Numbered
    <3>2. QED
      BY <1>4, <3>1
  <2> HIDE DEF less, k
  <2>3. QED
    BY <1>4, <1>5, <2>1, <2>2 DEF Numbered
<1>7. QED
  BY <1>3, <1>4, <1>5, <1>6

LEMMA RemoveStep ==
    ASSUME BoardInv, NEW p \in Posters, NEW b \in BoardSet, NEW ind \in 1..MAX_BOARD_MESSAGES,
           Board_remove_msg(p, b, ind)
    PROVE  BoardStep
<1> DEFINE list == msg_index[b]
           less == WithoutMessage(list, ind)
           saved == [i \in DOMAIN less |->
               [id |-> less[i].id, by |-> less[i].by, level |-> less[i].level,
                reply |-> less[i].reply, text |-> msg_storage[less[i].slot]]]
           slot == list[ind].slot
           k == Len(list)
<1>1. /\ boards_loaded /\ boards_loaded' /\ ind \in DOMAIN list
      /\ \A i \in DOMAIN list : list[i].reply # ind
      /\ \A q \in Posters \ at_menu : board_writing[q].slot # slot
      /\ msg_storage' = [msg_storage EXCEPT ![slot] = FALSE]
      /\ msg_storage_taken' = msg_storage_taken \ {slot}
      /\ msg_index' = [msg_index EXCEPT ![b] = less]
      /\ board_file' = [board_file EXCEPT ![b] = saved]
      /\ board_writing' = board_writing /\ board_posts' = board_posts /\ at_menu' = at_menu
  BY DEF Board_remove_msg, AtBoard, NotBeingWritten
<1>2. /\ list \in Seq(Message) /\ Numbered(list, board_posts) /\ k \in Nat /\ DOMAIN list = 1..k
      /\ k <= MAX_BOARD_MESSAGES
  BY BoardTidy DEF BoardTypes, BoardLists
<1> DEFINE Old(i) == list[Was(i, ind)]
<1>3. /\ less \in Seq(Message) /\ Len(less) = k - 1 /\ Numbered(less, board_posts)
      /\ \A i \in 1..(k - 1) :
           /\ Was(i, ind) \in (1..k) \ {ind}
           /\ less[i].id = Old(i).id /\ less[i].by = Old(i).by /\ less[i].slot = Old(i).slot
           /\ less[i].reply = (IF Old(i).reply >= ind THEN Old(i).reply - 1 ELSE Old(i).reply)
           /\ less[i].reply < i
  BY <1>1, <1>2, WithoutIs
<1>4. saved \in Seq(Record) /\ Len(saved) = Len(less) /\ Numbered(saved, board_posts)
  <2> HIDE DEF less
  <2>1. msg_storage \in [Slot -> BOOLEAN]
    BY BoardTidy DEF BoardTypes
  <2>2. QED
    BY <1>3, <2>1, SavedRecords
<1> HIDE DEF list, less, saved, slot, k
<1>5. k \in Nat \ {0} /\ k - 1 \in Nat /\ ind \in 1..k /\ DOMAIN less = 1..(k - 1)
  BY <1>1, <1>2, <1>3
<1>6. /\ msg_index' \in [BoardSet -> Seq(Message)] /\ msg_index'[b] = less
      /\ \A c \in BoardSet : c # b => msg_index'[c] = msg_index[c]
      /\ board_file' \in [BoardSet -> Seq(Record)] /\ board_file'[b] = saved
      /\ \A c \in BoardSet : c # b => board_file'[c] = board_file[c]
  BY <1>1, <1>3, <1>4, BoardTidy DEF BoardTypes
<1>7. BoardTypes'
  BY <1>1, <1>6, BoardTidy DEF BoardTypes
<1>8. BoardLists'
  <2>1. Len(less) <= MAX_BOARD_MESSAGES /\ Len(saved) <= MAX_BOARD_MESSAGES
        /\ Len(saved) <= Len(less)
    BY <1>2, <1>3, <1>4, <1>5, BoardsAssumption
  <2>2. QED
    BY <1>1, <1>3, <1>4, <1>6, <2>1, BoardTidy DEF BoardLists
(* Where the messages that stay were.                                      *)
<1> DEFINE Before(c, i) == IF c = b THEN Was(i, ind) ELSE i
<1>9. ASSUME NEW c \in BoardSet, NEW i \in DOMAIN msg_index'[c]
      PROVE  /\ Before(c, i) \in DOMAIN msg_index[c]
             /\ c = b => Before(c, i) # ind
             /\ msg_index'[c][i].slot = msg_index[c][Before(c, i)].slot
             /\ msg_index'[c][i].by = msg_index[c][Before(c, i)].by
             /\ msg_index'[c][i].reply < i
  <2>1. CASE c = b
    BY <1>2, <1>3, <1>5, <1>6, <2>1 DEF list
  <2>2. CASE c # b
    BY <1>6, <2>2, BoardTidy DEF BoardSlotsSound
  <2>3. QED
    BY <2>1, <2>2
<1>10. BoardSlotsSound'
  <2>1. ASSUME NEW c \in BoardSet, NEW d \in BoardSet,
               NEW i \in DOMAIN msg_index'[c], NEW j \in DOMAIN msg_index'[d],
               msg_index'[c][i].slot = msg_index'[d][j].slot
        PROVE  <<c, i>> = <<d, j>>
    <3>1. <<c, Before(c, i)>> = <<d, Before(d, j)>>
      <4>1. msg_index[c][Before(c, i)].slot = msg_index[d][Before(d, j)].slot
            /\ Before(c, i) \in DOMAIN msg_index[c] /\ Before(d, j) \in DOMAIN msg_index[d]
        BY <1>9, <2>1
      <4> HIDE DEF Before
      <4>2. QED
        BY <4>1, BoardTidy DEF BoardSlotsSound
    <3>2. CASE c = b
      <4>1. i \in 1..(k - 1) /\ j \in 1..(k - 1) /\ Was(i, ind) = Was(j, ind) /\ d = b
        BY <1>5, <1>6, <3>1, <3>2
      <4>2. QED
        BY <1>5, <3>2, <4>1 DEF Was
    <3>3. CASE c # b
      BY <3>1, <3>3
    <3>4. QED
      BY <3>2, <3>3
  <2>2. ASSUME NEW c \in BoardSet, NEW i \in DOMAIN msg_index'[c]
        PROVE  msg_index'[c][i].slot \in msg_storage_taken' /\ msg_index'[c][i].reply < i
    <3> DEFINE o == Before(c, i)
    <3>1. /\ o \in DOMAIN msg_index[c] /\ (c = b => o # ind)
          /\ msg_index'[c][i].slot = msg_index[c][o].slot /\ msg_index'[c][i].reply < i
      BY <1>9
    <3> HIDE DEF o
    <3>2. msg_index[c][o].slot \in msg_storage_taken
      BY <3>1, BoardTidy DEF BoardSlotsSound
    <3>3. msg_index[c][o].slot # slot
      BY <1>1, <3>1, BoardTidy DEF BoardSlotsSound, slot, list
    <3>4. QED
      BY <1>1, <3>1, <3>2, <3>3
  <2>3. ASSUME NEW q \in Posters \ at_menu, board_writing[q] # Nowhere
        PROVE  \E i \in DOMAIN msg_index'[board_writing[q].board] :
                 /\ msg_index'[board_writing[q].board][i].slot = board_writing[q].slot
                 /\ msg_index'[board_writing[q].board][i].by = q
    <3> DEFINE d == board_writing[q].board
    <3>1. d \in BoardSet
      BY <2>3, BoardTidy DEF BoardTypes
    <3>2. PICK o \in DOMAIN msg_index[d] :
            msg_index[d][o].slot = board_writing[q].slot /\ msg_index[d][o].by = q
      BY <2>3, BoardTidy DEF BoardSlotsSound
    <3>3. CASE d = b
      <4>1. o # ind /\ o \in 1..k
        BY <1>1, <1>2, <3>2, <3>3 DEF slot, list
      <4> DEFINE i == IF o < ind THEN o ELSE o - 1
      <4>2. i \in 1..(k - 1) /\ Was(i, ind) = o
        BY <1>5, <4>1 DEF Was
      <4> HIDE DEF i
      <4>3. less[i].slot = list[o].slot /\ less[i].by = list[o].by
        BY <1>3, <4>2
      <4>4. i \in DOMAIN msg_index'[d] /\ msg_index'[d][i].slot = board_writing[q].slot
            /\ msg_index'[d][i].by = q
        BY <1>5, <1>6, <3>2, <3>3, <4>2, <4>3 DEF list
      <4>5. QED
        BY <4>4
    <3>4. CASE d # b
      <4>1. msg_index'[d] = msg_index[d]
        BY <1>6, <3>1, <3>4
      <4>2. QED
        BY <3>2, <4>1
    <3>5. QED
      BY <3>3, <3>4
  <2>4. QED
    BY <1>1, <2>1, <2>2, <2>3 DEF BoardSlotsSound
<1>11. ResponsesKept
  <2>1. ASSUME NEW c \in BoardSet, NEW a \in Answers(msg_index, c),
               NEW j \in DOMAIN msg_index'[c], msg_index'[c][j].id = a[1]
        PROVE  a \in Answers(msg_index', c)
    <3>1. CASE c # b
      BY <1>6, <2>1, <3>1 DEF Answers
    <3>2. CASE c = b
      <4>1. PICK i \in 1..k : list[i].reply # 0 /\ a = <<list[i].id, list[list[i].reply].id>>
        BY <1>2, <2>1, <3>2 DEF Answers, list
      <4> DEFINE r == list[i].reply
      <4>2. r < i /\ r \in Nat /\ r # 0 /\ r # ind /\ r \in 1..k
        <5>1. r # 0 /\ r < i /\ k \in Nat /\ i \in 1..k
          BY <1>1, <1>2, <4>1, MessagesAre DEF Numbered, k
        <5>2. r \in Nat /\ r # ind
          BY <1>1, <1>2, <4>1, MessagesAre DEF k
        <5> HIDE DEF r, k
        <5>3. QED
          BY <5>1, <5>2
      <4>3. i # ind
        <5>1. j \in 1..(k - 1) /\ less[j].id = list[i].id
          BY <1>5, <1>6, <2>1, <3>2, <4>1
        <5>2. Was(j, ind) \in (1..k) \ {ind} /\ list[Was(j, ind)].id = list[i].id
          BY <1>3, <5>1
        <5>3. \A x, y \in 1..k : list[x].id = list[y].id => x = y
          <6>1. \A x \in 1..k : list[x].id \in Nat
            BY <1>2, MessagesAre DEF k
          <6>2. \A x, y \in 1..k : x < y => list[x].id < list[y].id
            BY <1>2 DEF Numbered, k
          <6>3. QED
            BY <1>5, <6>1, <6>2
        <5>4. QED
          BY <5>2, <5>3
      <4> DEFINE m == IF i < ind THEN i ELSE i - 1
                 s == IF r < ind THEN r ELSE r - 1
      <4> HIDE DEF r
      <4>4. /\ m \in 1..(k - 1) /\ Was(m, ind) = i /\ s \in 1..(k - 1) /\ Was(s, ind) = r
            /\ s # 0 /\ s = IF r >= ind THEN r - 1 ELSE r
        BY <1>5, <4>2, <4>3 DEF Was
      <4> HIDE DEF m, s
      <4>5. less[m].id = list[i].id /\ less[m].reply = s /\ less[s].id = list[r].id
        BY <1>3, <4>4 DEF r
      <4>6. m \in DOMAIN less /\ less[m].reply # 0 /\ a = <<less[m].id, less[less[m].reply].id>>
        BY <1>5, <4>1, <4>4, <4>5 DEF r
      <4>7. QED
        BY <1>6, <3>2, <4>6 DEF Answers
    <3>3. QED
      BY <3>1, <3>2
  <2>2. QED
    BY <2>1 DEF ResponsesKept
<1>12. QED
  BY <1>1, <1>7, <1>8, <1>10, <1>11 DEF BoardStep, BoardsTidy, BoardsIdle

LEMMA ReadStep == ASSUME BoardInv, init_boards PROVE BoardStep
<1> DEFINE N(b) == CHOOSE n \in DOMAIN BoardList : BoardList[n] = b
           total == Cardinality(Filed(board_file))
           read(b) == [i \in DOMAIN board_file[b] |->
                [id |-> board_file[b][i].id, by |-> board_file[b][i].by,
                 level |-> board_file[b][i].level, reply |-> board_file[b][i].reply,
                 slot |-> LoadOrder(N(b), i)]]
<1>1. /\ ~boards_loaded /\ boards_loaded' /\ board_file' = board_file
      /\ board_writing' = board_writing /\ board_posts' = board_posts /\ at_menu' = at_menu
      /\ \A p \in Posters : board_writing[p] = Nowhere
  BY BoardTidy DEF init_boards, BoardsIdle
<1>2. msg_index' = [b \in BoardSet |-> read(b)]
  BY DEF init_boards
<1>3. total \in Nat /\ total <= INDEX_SIZE
  BY FiledFinite DEF Filed, BoardInv, FilesFit
<1>4. msg_storage_taken' = 0..(total - 1)
  <2>1. LoadOrder(Len(BoardList) + 1, 1) = total + 1 - 1
    BY LoadOrderIs DEF Filed
  <2>2. LoadOrder(Len(BoardList) + 1, 1) = total
    BY <1>3, <2>1
  <2>3. msg_storage_taken' = 0..(LoadOrder(Len(BoardList) + 1, 1) - 1)
    BY DEF init_boards
  <2>4. QED
    BY <2>2, <2>3
<1>5. msg_storage' \in [Slot -> BOOLEAN]
  BY DEF init_boards
<1>6. ASSUME NEW b \in BoardSet
      PROVE  N(b) \in 1..Len(BoardList) /\ BoardList[N(b)] = b
  BY PlacesOfBoards
<1>7. ASSUME NEW b \in BoardSet
      PROVE  board_file[b] \in Seq(Record) /\ Numbered(board_file[b], board_posts)
             /\ Len(board_file[b]) <= MAX_BOARD_MESSAGES
             /\ Len(board_file[b]) \in Nat /\ DOMAIN board_file[b] = 1..Len(board_file[b])
  BY BoardTidy DEF BoardTypes, BoardLists
<1>8. ASSUME NEW b \in BoardSet, NEW i \in 1..Len(board_file[b])
      PROVE  /\ LoadOrder(N(b), i) \in 0..(total - 1) /\ LoadOrder(N(b), i) \in Slot
             /\ \A c \in BoardSet : \A j \in 1..Len(board_file[c]) :
                  LoadOrder(N(b), i) = LoadOrder(N(c), j) => b = c /\ i = j
  <2>1. LoadOrder(N(b), i) \in 0..(total - 1)
    BY <1>6, LoadOrders
  <2>2. LoadOrder(N(b), i) \in Slot
    BY <1>3, <2>1, BoardsAssumption DEF Slot
  <2>3. ASSUME NEW c \in BoardSet, NEW j \in 1..Len(board_file[c]),
               LoadOrder(N(b), i) = LoadOrder(N(c), j)
        PROVE  b = c /\ i = j
    <3>1. /\ N(b) \in 1..Len(BoardList) /\ BoardList[N(b)] = b
          /\ N(c) \in 1..Len(BoardList) /\ BoardList[N(c)] = c
      BY <1>6
    <3> HIDE DEF N
    <3>2. N(b) = N(c) /\ i = j
      BY <2>3, <3>1, LoadOrders
    <3>3. QED
      BY <3>1, <3>2
  <2>4. QED
    BY <2>1, <2>2, <2>3
<1> HIDE DEF N, total
<1>9. ASSUME NEW b \in BoardSet
      PROVE  /\ read(b) \in Seq(Message) /\ Len(read(b)) = Len(board_file[b])
             /\ \A i \in 1..Len(board_file[b]) :
                  /\ read(b)[i].id = board_file[b][i].id /\ read(b)[i].reply = board_file[b][i].reply
                  /\ read(b)[i].slot = LoadOrder(N(b), i)
             /\ Numbered(read(b), board_posts)
  <2> DEFINE k == Len(board_file[b])
             list == read(b)
  <2>1. k \in Nat /\ DOMAIN board_file[b] = 1..k
    BY <1>7
  <2>2. ASSUME NEW i \in 1..k
        PROVE  /\ list[i] \in Message /\ list[i].id = board_file[b][i].id
               /\ list[i].reply = board_file[b][i].reply /\ list[i].slot = LoadOrder(N(b), i)
    <3>1. board_file[b][i] \in Record
      BY <1>7, RecordsAre
    <3>2. LoadOrder(N(b), i) \in Slot
      BY <1>8
    <3>3. list[i] = [id |-> board_file[b][i].id, by |-> board_file[b][i].by,
                 level |-> board_file[b][i].level, reply |-> board_file[b][i].reply,
                 slot |-> LoadOrder(N(b), i)]
      BY <2>1
    <3> HIDE DEF list
    <3>4. QED
      BY <3>1, <3>2, <3>3 DEF Record, Message
  <2>3. list = [i \in 1..k |-> list[i]]
    BY <2>1
  <2> HIDE DEF list, k
  <2>4. list \in [1..k -> Message]
    BY <2>2, <2>3
  <2>5. list \in Seq(Message) /\ Len(list) = k
    BY <2>1, <2>4, ListOf
  <2>6. Numbered(list, board_posts)
    BY <1>7, <2>2, <2>5 DEF Numbered, k
  <2>7. QED
    BY <2>2, <2>5, <2>6 DEF list, k
<1> HIDE DEF read
<1>10. \A b \in BoardSet : msg_index'[b] = read(b)
  BY <1>2
<1>11. BoardTypes'
  <2>1. msg_index' \in [BoardSet -> Seq(Message)]
    BY <1>2, <1>9
  <2>2. msg_storage_taken' \in SUBSET Slot
    BY <1>3, <1>4, BoardsAssumption DEF Slot
  <2>3. QED
    BY <1>1, <1>5, <2>1, <2>2, BoardTidy DEF BoardTypes
<1>12. BoardLists'
  BY <1>1, <1>7, <1>9, <1>10, BoardTidy DEF BoardLists
<1>13. BoardSlotsSound'
  <2>1. ASSUME NEW b \in BoardSet
        PROVE  DOMAIN msg_index'[b] = 1..Len(board_file[b])
    BY <1>9, <1>10
  <2>2. ASSUME NEW b \in BoardSet, NEW i \in DOMAIN msg_index'[b]
        PROVE  /\ msg_index'[b][i].slot = LoadOrder(N(b), i)
               /\ msg_index'[b][i].slot \in msg_storage_taken'
               /\ msg_index'[b][i].reply < i
    BY <1>4, <1>7, <1>8, <1>9, <1>10, <2>1 DEF Numbered
  <2>3. ASSUME NEW b \in BoardSet, NEW c \in BoardSet,
               NEW i \in DOMAIN msg_index'[b], NEW j \in DOMAIN msg_index'[c],
               msg_index'[b][i].slot = msg_index'[c][j].slot
        PROVE  <<b, i>> = <<c, j>>
    <3>1. LoadOrder(N(b), i) = LoadOrder(N(c), j)
      BY <2>2, <2>3
    <3>2. i \in 1..Len(board_file[b]) /\ j \in 1..Len(board_file[c])
      BY <2>1
    <3>3. QED
      BY <1>8, <3>1, <3>2
  <2>4. QED
    BY <1>1, <2>2, <2>3 DEF BoardSlotsSound
<1>14. QED
  BY <1>1, <1>11, <1>12, <1>13 DEF BoardStep, BoardsTidy, BoardsIdle, ResponsesKept

LEMMA BoardsStart == BoardsInit => BoardInv
<1> SUFFICES ASSUME BoardsInit PROVE BoardInv
  OBVIOUS
<1>1. << >> \in Seq(Message) /\ << >> \in Seq(Record) /\ Len(<< >>) = 0 /\ DOMAIN << >> = {}
  OBVIOUS
<1>2. BoardTypes /\ BoardLists /\ BoardsIdle /\ BoardSlotsSound
  <2>1. BoardTypes
    <3>1. msg_index \in [BoardSet -> Seq(Message)] /\ board_file \in [BoardSet -> Seq(Record)]
      BY <1>1 DEF BoardsInit
    <3>2. msg_storage \in [Slot -> BOOLEAN] /\ msg_storage_taken \in SUBSET Slot
      BY DEF BoardsInit
    <3>3. board_writing \in [Posters -> [board : BoardSet, slot : Slot] \cup {Nowhere}]
      BY DEF BoardsInit
    <3>4. board_posts = 0 /\ boards_loaded = FALSE /\ at_menu = {}
      BY DEF BoardsInit
    <3>5. 0 \in 0..MaxPosts
      BY BoardsAssumption
    <3>6. QED
      BY <3>1, <3>2, <3>3, <3>4, <3>5 DEF BoardTypes
  <2>2. BoardLists
    BY <1>1, BoardsAssumption DEF BoardsInit, BoardLists, Numbered
  <2>3. BoardsIdle
    BY DEF BoardsInit, BoardsIdle
  <2>4. BoardSlotsSound
    BY <1>1 DEF BoardsInit, BoardSlotsSound
  <2>5. QED
    BY <2>1, <2>2, <2>3, <2>4
<1>3. Filed(board_file) = {}
  BY <1>1, PlacesOfBoards DEF BoardsInit, Filed, FiledBefore
<1>4. FilesFit
  BY <1>3, FS_EmptySet, BoardsAssumption DEF FilesFit
<1>5. QED
  BY <1>2, <1>4 DEF BoardInv, BoardsTidy

LEMMA BoardsNextStep == BoardInv /\ [BoardsNext]_boardVars => BoardInv' /\ ResponsesKept
<1> SUFFICES ASSUME BoardInv, [BoardsNext]_boardVars PROVE BoardInv' /\ ResponsesKept
  OBVIOUS
<1>1. CASE BoardsNext
  <2>1. BoardStep
    BY <1>1, ReadStep, CrashStep, LineStep, EndStep, LoseStep, ExtractStep, WriteStep, RespondStep,
       RemoveStep
       DEF BoardsNext
  <2>2. QED
    BY <2>1, FilesFitStep DEF BoardInv, BoardStep
<1>2. CASE UNCHANGED boardVars
  <2>1. msg_index' = msg_index
    BY <1>2 DEF boardVars
  <2>2. BoardInv'
    BY <1>2 DEF boardVars, BoardInv, BoardsTidy, BoardTypes, BoardLists, BoardsIdle, BoardSlotsSound,
                FilesFit, Filed, FiledBefore
  <2>3. QED
    BY <2>1, <2>2, IdleIndexKept
<1>3. QED
  BY <1>1, <1>2

(* Whatever is written, answered, removed, saved and read again, by        *)
(* whomever, with whatever links lost and stops in between: no slot has    *)
(* two messages, writers who play write to messages of theirs that are     *)
(* there, and a response goes on answering what it answered (boards.c).    *)
THEOREM BoardsAlwaysSound == BoardsSpec => BoardsSound
<1>1. BoardInv => BoardSlotsSound
  BY DEF BoardInv, BoardsTidy
<1>2. ResponsesKept <=>
        \A b \in BoardSet :
          boards_loaded /\ boards_loaded' =>
            \A a \in Answers(msg_index, b) :
              (\E i \in DOMAIN msg_index'[b] : msg_index'[b][i].id = a[1])
                => a \in Answers(msg_index', b)
  BY DEF ResponsesKept
<1>3. QED
  BY <1>1, <1>2, BoardsStart, BoardsNextStep, PTL DEF BoardsSpec, BoardsSound, ResponsesKeepTheirMessage

-----------------------------------------------------------------------------
(* Houses.  The records, no two of the same room, with guests that are     *)
(* named once and are not the owner.                                       *)
HouseRec == [vnum : HouseRooms, owner : HousePlayers, guests : Seq(HousePlayers)]
GuestsRight(h) ==
    /\ \A i, j \in 1..Len(h.guests) : i # j => h.guests[i] # h.guests[j]
    /\ \A i \in 1..Len(h.guests) : h.guests[i] # h.owner
RecordsRight(list) ==
    /\ \A i, j \in 1..Len(list) : i # j => list[i].vnum # list[j].vnum
    /\ \A i \in 1..Len(list) : GuestsRight(list[i])
HouseLists == {list \in Seq(HouseRec) : RecordsRight(list)}

HouseInv ==
    /\ house_control \in HouseLists /\ known_players \subseteq HousePlayers
    /\ room_house = {house_control[i].vnum : i \in DOMAIN house_control}
    /\ room_atrium = AtriumsOf(house_control)
    /\ control_file = house_control

(* What the last of N steps has, if each step has it that follows one that *)
(* has it.                                                                 *)
LEMMA IterationStays ==
    ASSUME NEW S, NEW N \in Nat, NEW c, c[0] \in S,
           \A n \in 1..N : c[n - 1] \in S => c[n] \in S
    PROVE  c[N] \in S
<1> DEFINE P == {n \in Nat : n <= N => c[n] \in S}
<1>1. 0 \in P
  OBVIOUS
<1>2. ASSUME NEW n \in P PROVE n + 1 \in P
  <2> SUFFICES ASSUME n + 1 <= N PROVE c[n + 1] \in S
    BY <1>2
  <2>1. n \in Nat /\ n + 1 \in 1..N /\ n + 1 - 1 = n /\ c[n] \in S
    BY <1>2
  <2>2. c[n + 1 - 1] \in S => c[n + 1] \in S
    BY <2>1
  <2>3. QED
    BY <2>1, <2>2
<1> HIDE DEF P
<1>3. P = Nat
  <2>1. P \in SUBSET Nat
    BY DEF P
  <2>2. QED
    BY <1>1, <1>2, <2>1, NatSetInduction
<1>4. QED
  BY <1>3 DEF P

(* less is the sequence s of S without its entry ind, the others in order. *)
Less(S, s, ind, less) ==
    /\ less \in Seq(S) /\ Len(less) = Len(s) - 1
    /\ \A i \in 1..(Len(s) - 1) : /\ Was(i, ind) \in (1..Len(s)) \ {ind}
                                  /\ less[i] = s[Was(i, ind)]
    /\ \A i, j \in 1..(Len(s) - 1) : i # j => Was(i, ind) # Was(j, ind)
    /\ \A k \in (1..Len(s)) \ {ind} : \E i \in 1..(Len(s) - 1) : Was(i, ind) = k

LEMMA RemovedAt ==
    ASSUME NEW S, NEW s \in Seq(S), NEW ind \in 1..Len(s)
    PROVE  Less(S, s, ind, RemoveAt(s, ind))
<1> DEFINE k == Len(s)
           a == SubSeq(s, 1, ind - 1)
           b == SubSeq(s, ind + 1, k)
<1>1. k \in Nat /\ ind \in Nat /\ 1 <= ind /\ ind <= k
  OBVIOUS
<1>2. /\ a \in Seq(S) /\ Len(a) = ind - 1
      /\ \A i \in 1..(ind - 1) : a[i] = s[i]
  OBVIOUS
<1>3. /\ b \in Seq(S) /\ Len(b) = k - ind
      /\ \A i \in 1..(k - ind) : b[i] = s[ind + i]
  OBVIOUS
<1>4. RemoveAt(s, ind) = a \o b
  BY DEF RemoveAt
<1> HIDE DEF a, b
<1>5. /\ a \o b \in Seq(S) /\ Len(a \o b) = k - 1
      /\ \A i \in 1..(k - 1) : (a \o b)[i] = IF i <= ind - 1 THEN a[i] ELSE b[i - (ind - 1)]
  <2>1. /\ a \o b \in Seq(S) /\ Len(a \o b) = Len(a) + Len(b)
        /\ \A i \in 1..(Len(a) + Len(b)) : (a \o b)[i] = IF i <= Len(a) THEN a[i] ELSE b[i - Len(a)]
    BY <1>2, <1>3, ConcatProperties
  <2>2. Len(a) + Len(b) = k - 1
    BY <1>1, <1>2, <1>3
  <2>3. QED
    BY <1>2, <2>1, <2>2
<1>6. ASSUME NEW i \in 1..(k - 1)
      PROVE  Was(i, ind) \in (1..k) \ {ind} /\ (a \o b)[i] = s[Was(i, ind)]
  <2>1. Was(i, ind) \in (1..k) \ {ind}
    BY <1>1 DEF Was
  <2>2. CASE i < ind
    BY <1>1, <1>2, <1>5, <2>2 DEF Was
  <2>3. CASE ~(i < ind)
    <3>1. i - (ind - 1) \in 1..(k - ind) /\ ind + (i - (ind - 1)) = i + 1
      BY <1>1, <2>3
    <3>2. b[i - (ind - 1)] = s[i + 1]
      BY <1>3, <3>1
    <3>3. ~(i <= ind - 1)
      BY <1>1, <2>3
    <3>4. (a \o b)[i] = b[i - (ind - 1)]
      BY <1>5, <3>3
    <3>5. Was(i, ind) = i + 1
      BY <2>3 DEF Was
    <3>6. QED
      BY <2>1, <3>2, <3>4, <3>5
  <2>4. QED
    BY <2>1, <2>2, <2>3
<1>7. \A i, j \in 1..(k - 1) : i # j => Was(i, ind) # Was(j, ind)
  BY <1>1 DEF Was
<1>8. ASSUME NEW n \in (1..k) \ {ind} PROVE \E i \in 1..(k - 1) : Was(i, ind) = n
  <2>1. CASE n < ind
    BY <1>1, <2>1 DEF Was
  <2>2. CASE n > ind
    <3>1. n - 1 \in 1..(k - 1) /\ Was(n - 1, ind) = n
      BY <1>1, <2>2 DEF Was
    <3>2. QED
      BY <3>1
  <2>3. QED
    BY <1>1, <2>1, <2>2
<1>9. QED
  BY <1>4, <1>5, <1>6, <1>7, <1>8 DEF Less

LEMMA HouseRecords ==
    ASSUME NEW list \in HouseLists
    PROVE  /\ list \in Seq(HouseRec) /\ Len(list) \in Nat /\ DOMAIN list = 1..Len(list)
           /\ \A i \in 1..Len(list) : list[i] \in HouseRec /\ GuestsRight(list[i])
           /\ \A i, j \in 1..Len(list) : i # j => list[i].vnum # list[j].vnum
BY DEF HouseLists, RecordsRight

(* The invariant says what HouseFlagsAgree says.                           *)
LEMMA HousesAgree == HouseInv => HouseFlagsAgree
<1> SUFFICES ASSUME HouseInv PROVE HouseFlagsAgree
  OBVIOUS
<1> USE HouseInv
<1>1. /\ house_control \in HouseLists /\ control_file = house_control
      /\ room_house = {house_control[i].vnum : i \in DOMAIN house_control}
      /\ room_atrium = AtriumsOf(house_control)
  BY DEF HouseInv
<1>2. ASSUME NEW i \in DOMAIN house_control
      PROVE  HouseIndices(house_control[i].vnum) = {i}
  BY <1>1, HouseRecords DEF HouseIndices
<1>3. ASSUME NEW r \in room_house PROVE Cardinality(HouseIndices(r)) = 1
  <2>1. PICK i \in DOMAIN house_control : r = house_control[i].vnum
    BY <1>1
  <2>2. HouseIndices(r) = {i}
    BY <1>2, <2>1
  <2>3. QED
    BY <2>2, FS_Singleton
<1>4. ASSUME NEW i \in DOMAIN house_control
      PROVE  LET h == house_control[i]
             IN /\ Cardinality(ToSet(h.guests)) = Len(h.guests)
                /\ h.owner \notin ToSet(h.guests)
                /\ {id \in HousePlayers : House_can_enter(id, h.vnum)} = {h.owner} \cup ToSet(h.guests)
  <2> DEFINE h == house_control[i]
             g == h.guests
  <2>1. h \in HouseRec /\ GuestsRight(h)
    BY <1>1, HouseRecords
  <2>2. g \in Seq(HousePlayers) /\ h.owner \in HousePlayers
    BY <2>1 DEF HouseRec
  <2>3. /\ \A m, n \in 1..Len(g) : m # n => g[m] # g[n]
        /\ \A n \in 1..Len(g) : g[n] # h.owner
    BY <2>1 DEF GuestsRight
  <2>4. HouseIndices(h.vnum) = {i}
    BY <1>2
  <2>5. \A id : House_can_enter(id, h.vnum) <=> id = h.owner \/ id \in ToSet(g)
    BY <2>4 DEF House_can_enter
  <2> HIDE DEF h, g
  <2>6. ToSet(g) = {g[n] : n \in 1..Len(g)} /\ Len(g) \in Nat
    BY <2>2 DEF ToSet
  <2>7. Cardinality(ToSet(g)) = Len(g)
    <3> DEFINE f == [n \in 1..Len(g) |-> g[n]]
    <3>1. f \in Bijection(1..Len(g), ToSet(g))
      <4>1. f \in [1..Len(g) -> ToSet(g)]
        BY <2>6
      <4>2. \A m, n \in 1..Len(g) : f[m] = f[n] => m = n
        BY <2>3
      <4>3. \A x \in ToSet(g) : \E n \in 1..Len(g) : f[n] = x
        BY <2>6
      <4>4. QED
        BY <4>1, <4>2, <4>3 DEF Bijection, Injection, Surjection, IsInjective
    <3>2. IsFiniteSet(1..Len(g)) /\ Cardinality(1..Len(g)) = Len(g)
      <4>1. /\ IsFiniteSet(1..Len(g))
            /\ Cardinality(1..Len(g)) = IF 1 > Len(g) THEN 0 ELSE Len(g) - 1 + 1
        BY <2>6, FS_Interval
      <4>2. QED
        BY <2>6, <4>1
    <3>3. Cardinality(ToSet(g)) = Cardinality(1..Len(g))
      BY <3>1, <3>2, FS_Bijection DEF ExistsBijection
    <3>4. QED
      BY <3>2, <3>3
  <2>8. h.owner \notin ToSet(g) /\ ToSet(g) \subseteq HousePlayers
    BY <2>2, <2>3, <2>6
  <2>9. QED
    BY <2>2, <2>5, <2>7, <2>8 DEF h, g
<1>5. QED
  BY <1>1, <1>3, <1>4 DEF HouseFlagsAgree

LEMMA HousesStart == HousesInit => HouseInv
BY DEF HousesInit, HouseInv, HouseLists, RecordsRight, AtriumsOf

LEMMA BuildStep ==
    ASSUME HouseInv, NEW r \in HouseRooms, NEW owner \in HousePlayers,
           hcontrol_build_house(r, owner)
    PROVE  HouseInv'
<1> DEFINE old == house_control
           k == Len(old)
           new == [vnum |-> r, owner |-> owner, guests |-> <<>>]
<1>1. /\ old \in HouseLists /\ known_players \subseteq HousePlayers
      /\ room_house = {old[i].vnum : i \in DOMAIN old} /\ room_atrium = AtriumsOf(old)
  BY DEF HouseInv
<1>2. old \in Seq(HouseRec) /\ k \in Nat /\ DOMAIN old = 1..k
  BY <1>1, HouseRecords
<1>3. new \in HouseRec /\ GuestsRight(new) /\ new.vnum = r
  BY DEF HouseRec, GuestsRight
<1>4. /\ house_control' = Append(old, new) /\ HouseIndices(r) = {}
      /\ room_house' = room_house \cup {r} /\ room_atrium' = room_atrium \cup {AtriumOf[r]}
      /\ control_file' = house_control' /\ known_players' = known_players
  BY DEF hcontrol_build_house, House_save_control
<1>5. \A i \in 1..k : old[i].vnum # r
  BY <1>2, <1>4 DEF HouseIndices
<1> HIDE DEF new, k, old
<1>6. /\ house_control' \in Seq(HouseRec) /\ Len(house_control') = k + 1
      /\ DOMAIN house_control' = 1..(k + 1)
      /\ \A i \in 1..k : house_control'[i] = old[i]
      /\ house_control'[k + 1] = new
  BY <1>2, <1>3, <1>4 DEF k
<1>7. \A i \in 1..(k + 1) : i \in 1..k \/ i = k + 1
  BY <1>2
<1>12. k + 1 \in 1..(k + 1) /\ 1..k \subseteq 1..(k + 1)
  BY <1>2
<1>8. RecordsRight(house_control')
  <2>1. ASSUME NEW i \in 1..(k + 1), NEW j \in 1..(k + 1), i # j
        PROVE  house_control'[i].vnum # house_control'[j].vnum
    BY <1>1, <1>3, <1>5, <1>6, <1>7, <2>1, HouseRecords DEF k
  <2>2. ASSUME NEW i \in 1..(k + 1) PROVE GuestsRight(house_control'[i])
    BY <1>1, <1>3, <1>6, <1>7, HouseRecords DEF k
  <2>3. QED
    BY <1>6, <2>1, <2>2 DEF RecordsRight
<1>9. room_house' = {house_control'[i].vnum : i \in DOMAIN house_control'}
  BY <1>1, <1>2, <1>3, <1>4, <1>6, <1>7, <1>12
<1>10. room_atrium' = AtriumsOf(house_control')
  BY <1>1, <1>2, <1>3, <1>4, <1>6, <1>7, <1>12 DEF AtriumsOf
<1>11. QED
  BY <1>1, <1>4, <1>6, <1>8, <1>9, <1>10 DEF HouseInv, HouseLists

LEMMA DestroyStep ==
    ASSUME HouseInv, NEW ind \in 1..MAX_HOUSES, hcontrol_destroy_house(ind)
    PROVE  HouseInv'
<1> DEFINE old == house_control
           k == Len(old)
           new == house_control'
<1>1. /\ old \in HouseLists /\ known_players \subseteq HousePlayers
      /\ room_house = {old[i].vnum : i \in DOMAIN old} /\ room_atrium = AtriumsOf(old)
  BY DEF HouseInv
<1>2. old \in Seq(HouseRec) /\ k \in Nat /\ DOMAIN old = 1..k
  BY <1>1, HouseRecords
<1>3. /\ ind \in 1..k /\ new = RemoveAt(old, ind)
      /\ room_house' = room_house \ {old[ind].vnum}
      /\ room_atrium' = (room_atrium \ {AtriumOf[old[ind].vnum]}) \cup AtriumsOf(new)
      /\ control_file' = new /\ known_players' = known_players
  BY <1>2 DEF hcontrol_destroy_house, House_save_control
<1> HIDE DEF new, k, old
<1>4. /\ new \in Seq(HouseRec) /\ Len(new) = k - 1 /\ DOMAIN new = 1..(k - 1)
      /\ \A i \in 1..(k - 1) : Was(i, ind) \in (1..k) \ {ind} /\ new[i] = old[Was(i, ind)]
      /\ \A i, j \in 1..(k - 1) : i # j => Was(i, ind) # Was(j, ind)
      /\ \A n \in (1..k) \ {ind} : \E i \in 1..(k - 1) : Was(i, ind) = n
  <2>1. Less(HouseRec, old, ind, RemoveAt(old, ind))
    BY <1>2, <1>3, RemovedAt DEF k
  <2>2. QED
    BY <1>2, <1>3, <2>1 DEF Less, k
<1>5. RecordsRight(new)
  <2>1. ASSUME NEW i \in 1..(k - 1), NEW j \in 1..(k - 1), i # j
        PROVE  new[i].vnum # new[j].vnum
    <3>1. /\ Was(i, ind) \in 1..k /\ Was(j, ind) \in 1..k /\ Was(i, ind) # Was(j, ind)
          /\ new[i] = old[Was(i, ind)] /\ new[j] = old[Was(j, ind)]
      BY <1>4, <2>1
    <3>2. QED
      BY <1>1, <3>1, HouseRecords DEF k
  <2>2. ASSUME NEW i \in 1..(k - 1) PROVE GuestsRight(new[i])
    BY <1>1, <1>4, HouseRecords DEF k
  <2>3. QED
    BY <1>4, <2>1, <2>2 DEF RecordsRight
<1>6. room_house' = {new[i].vnum : i \in DOMAIN new}
  <2>1. ASSUME NEW r \in room_house'
        PROVE  \E i \in 1..(k - 1) : r = new[i].vnum
    <3>1. PICK n \in 1..k : r = old[n].vnum
      BY <1>1, <1>2, <1>3
    <3>2. n \in (1..k) \ {ind}
      BY <1>3, <3>1
    <3>3. QED
      BY <1>4, <3>1, <3>2
  <2>2. ASSUME NEW i \in 1..(k - 1)
        PROVE  new[i].vnum \in room_house'
    <3>1. Was(i, ind) \in 1..k /\ Was(i, ind) # ind /\ new[i] = old[Was(i, ind)]
      BY <1>4
    <3>2. old[Was(i, ind)].vnum # old[ind].vnum
      BY <1>1, <1>3, <3>1, HouseRecords DEF k
    <3>3. QED
      BY <1>1, <1>2, <1>3, <3>1, <3>2
  <2>3. QED
    BY <1>4, <2>1, <2>2
<1>7. room_atrium' = AtriumsOf(new)
  <2>1. ASSUME NEW a \in room_atrium, a # AtriumOf[old[ind].vnum]
        PROVE  a \in AtriumsOf(new)
    <3>1. PICK n \in 1..k : a = AtriumOf[old[n].vnum]
      BY <1>1, <1>2 DEF AtriumsOf
    <3>2. n \in (1..k) \ {ind}
      BY <2>1, <3>1
    <3>3. PICK i \in 1..(k - 1) : Was(i, ind) = n
      BY <1>4, <3>2
    <3>4. QED
      BY <1>4, <3>1, <3>3 DEF AtriumsOf
  <2>2. QED
    BY <1>3, <2>1
<1>8. QED
  BY <1>1, <1>3, <1>4, <1>5, <1>6, <1>7 DEF HouseInv, HouseLists, new

(* What "house <player>" makes of the guests: one less or one more.        *)
LEMMA GuestStep ==
    ASSUME HouseInv, NEW ind \in 1..MAX_HOUSES, NEW id \in HousePlayers, do_house(ind, id)
    PROVE  HouseInv'
<1> DEFINE old == house_control
           k == Len(old)
           h == old[ind]
           g == h.guests
           at == CHOOSE j \in DOMAIN g : g[j] = id
           new == IF id \in ToSet(g) THEN RemoveAt(g, at)
                  ELSE IF Len(g) = MAX_GUESTS THEN g ELSE Append(g, id)
<1>1. /\ old \in HouseLists /\ known_players \subseteq HousePlayers
      /\ room_house = {old[i].vnum : i \in DOMAIN old} /\ room_atrium = AtriumsOf(old)
  BY DEF HouseInv
<1>2. old \in Seq(HouseRec) /\ k \in Nat /\ DOMAIN old = 1..k
  BY <1>1, HouseRecords
<1>3. /\ ind \in 1..k /\ id # h.owner
      /\ house_control' = [old EXCEPT ![ind].guests = new]
      /\ room_house' = room_house /\ room_atrium' = room_atrium
      /\ control_file' = house_control' /\ known_players' = known_players
  BY <1>2 DEF do_house, House_save_control
<1>4. h \in HouseRec /\ GuestsRight(h)
  BY <1>1, <1>3, HouseRecords
<1>5. g \in Seq(HousePlayers) /\ Len(g) \in Nat /\ DOMAIN g = 1..Len(g)
  BY <1>4 DEF HouseRec
<1> HIDE DEF h
<1>6. /\ \A i, j \in 1..Len(g) : i # j => g[i] # g[j]
      /\ \A i \in 1..Len(g) : g[i] # h.owner
  BY <1>4 DEF GuestsRight
<1> HIDE DEF old, k, g
<1>7. /\ new \in Seq(HousePlayers)
      /\ \A i, j \in 1..Len(new) : i # j => new[i] # new[j]
      /\ \A i \in 1..Len(new) : new[i] # h.owner
  <2>1. CASE id \in ToSet(g)
    <3>1. at \in 1..Len(g)
      BY <1>5, <2>1 DEF ToSet
    <3> HIDE DEF at
    <3>2. /\ RemoveAt(g, at) \in Seq(HousePlayers) /\ Len(RemoveAt(g, at)) = Len(g) - 1
          /\ \A i \in 1..(Len(g) - 1) : /\ Was(i, at) \in (1..Len(g)) \ {at}
                                        /\ RemoveAt(g, at)[i] = g[Was(i, at)]
          /\ \A i, j \in 1..(Len(g) - 1) : i # j => Was(i, at) # Was(j, at)
      <4>1. Less(HousePlayers, g, at, RemoveAt(g, at))
        BY <1>5, <3>1, RemovedAt
      <4>2. QED
        BY <4>1 DEF Less
    <3>3. new = RemoveAt(g, at)
      BY <2>1
    <3> HIDE DEF new
    <3>4. ASSUME NEW i \in 1..(Len(g) - 1)
          PROVE  /\ Was(i, at) \in 1..Len(g) /\ new[i] = g[Was(i, at)]
                 /\ new[i] # h.owner
      BY <1>6, <3>2, <3>3
    <3>5. ASSUME NEW i \in 1..(Len(g) - 1), NEW j \in 1..(Len(g) - 1), i # j
          PROVE  new[i] # new[j]
      <4>1. Was(i, at) # Was(j, at)
        BY <3>2, <3>5
      <4>2. QED
        BY <1>6, <3>4, <4>1
    <3>6. new \in Seq(HousePlayers) /\ Len(new) = Len(g) - 1
      BY <3>2, <3>3
    <3>7. QED
      BY <3>4, <3>5, <3>6
  <2>2. CASE id \notin ToSet(g) /\ Len(g) = MAX_GUESTS
    <3>1. new = g
      BY <2>2
    <3> HIDE DEF new
    <3>2. QED
      BY <1>5, <1>6, <3>1
  <2>3. CASE id \notin ToSet(g) /\ Len(g) # MAX_GUESTS
    <3>1. new = Append(g, id)
      BY <2>3
    <3> HIDE DEF new
    <3>2. /\ new \in Seq(HousePlayers) /\ Len(new) = Len(g) + 1
          /\ \A i \in 1..Len(g) : new[i] = g[i]
          /\ new[Len(g) + 1] = id
      BY <1>5, <3>1
    <3>3. \A i \in 1..(Len(g) + 1) : i \in 1..Len(g) \/ i = Len(g) + 1
      BY <1>5
    <3>4. \A i \in 1..Len(g) : g[i] # id
      BY <1>5, <2>3 DEF ToSet
    <3>5. QED
      BY <1>3, <1>6, <3>2, <3>3, <3>4
  <2>4. QED
    BY <2>1, <2>2, <2>3
<1> HIDE DEF new
<1> DEFINE rec == [h EXCEPT !.guests = new]
<1>8. rec \in HouseRec /\ rec.vnum = h.vnum /\ rec.owner = h.owner /\ rec.guests = new
  BY <1>4, <1>7 DEF HouseRec
<1>9. house_control' = [old EXCEPT ![ind] = rec]
  BY <1>3 DEF h
<1>10. GuestsRight(rec)
  BY <1>7, <1>8 DEF GuestsRight
<1> HIDE DEF rec
<1>11. /\ house_control' \in Seq(HouseRec) /\ Len(house_control') = k /\ DOMAIN house_control' = 1..k
       /\ \A i \in 1..k : house_control'[i] = IF i = ind THEN rec ELSE old[i]
  BY <1>2, <1>3, <1>8, <1>9 DEF k
<1>12. \A i \in 1..k : house_control'[i].vnum = old[i].vnum
  BY <1>8, <1>11 DEF h
<1>13. RecordsRight(house_control')
  <2>1. \A i, j \in 1..k : i # j => old[i].vnum # old[j].vnum
    BY <1>1, HouseRecords DEF k
  <2>2. \A i \in 1..k : GuestsRight(old[i])
    BY <1>1, HouseRecords DEF k
  <2>3. \A i \in 1..k : GuestsRight(house_control'[i])
    BY <1>10, <1>11, <2>2
  <2>4. QED
    BY <1>11, <1>12, <2>1, <2>3 DEF RecordsRight
<1>14. room_house' = {house_control'[i].vnum : i \in DOMAIN house_control'}
  BY <1>1, <1>2, <1>3, <1>11, <1>12
<1>15. room_atrium' = AtriumsOf(house_control')
  BY <1>1, <1>2, <1>3, <1>11, <1>12 DEF AtriumsOf
<1>16. QED
  BY <1>1, <1>3, <1>11, <1>13, <1>14, <1>15 DEF HouseInv, HouseLists

(* Record after record is read: those read so far are in order.            *)
LEMMA BootStep == ASSUME HouseInv, House_boot PROVE HouseInv'
<1> DEFINE file == control_file
           N == Len(file)
           Keeps(houses, h) == /\ Len(houses) < MAX_HOUSES /\ h.owner \in known_players
                               /\ \A i \in DOMAIN houses : houses[i].vnum # h.vnum
           step == [x \in Nat \X HouseLists |->
                      IF x[1] \in 1..N /\ Keeps(x[2], file[x[1]]) THEN Append(x[2], file[x[1]]) ELSE x[2]]
           Is(f) == f = [n \in 0..N |-> IF n = 0 THEN <<>>
                                        ELSE IF Keeps(f[n - 1], file[n]) THEN Append(f[n - 1], file[n])
                                        ELSE f[n - 1]]
           c == CHOOSE f : Is(f)
<1>1. file \in HouseLists /\ known_players \subseteq HousePlayers
  BY DEF HouseInv
<1>2. file \in Seq(HouseRec) /\ N \in Nat /\ \A n \in 1..N : file[n] \in HouseRec /\ GuestsRight(file[n])
  BY <1>1, HouseRecords
<1>3. /\ house_control' = c[N] /\ control_file' = house_control' /\ known_players' = known_players
      /\ room_house' = {house_control'[i].vnum : i \in DOMAIN house_control'}
      /\ room_atrium' = AtriumsOf(house_control')
  BY DEF House_boot, House_save_control
<1> HIDE DEF file, N
<1>4. ASSUME NEW list \in HouseLists, NEW n \in 1..N, Keeps(list, file[n])
      PROVE  Append(list, file[n]) \in HouseLists
  <2> DEFINE k == Len(list)
             h == file[n]
             more == Append(list, h)
  <2>1. /\ list \in Seq(HouseRec) /\ k \in Nat /\ DOMAIN list = 1..k
        /\ \A i \in 1..k : list[i] \in HouseRec /\ GuestsRight(list[i])
        /\ \A i, j \in 1..k : i # j => list[i].vnum # list[j].vnum
    BY HouseRecords
  <2>2. h \in HouseRec /\ GuestsRight(h) /\ \A i \in 1..k : list[i].vnum # h.vnum
    BY <1>2, <1>4, <2>1
  <2> HIDE DEF k, h
  <2>3. /\ more \in Seq(HouseRec) /\ Len(more) = k + 1 /\ more[k + 1] = h
        /\ \A i \in 1..k : more[i] = list[i]
    BY <2>1, <2>2 DEF k
  <2> HIDE DEF more
  <2>4. \A i \in 1..(k + 1) : i \in 1..k \/ i = k + 1
    BY <2>1
  <2>5. RecordsRight(more)
    BY <2>1, <2>2, <2>3, <2>4 DEF RecordsRight
  <2>6. QED
    BY <2>3, <2>5 DEF HouseLists, more, h
<1>5. <<>> \in HouseLists
  BY DEF HouseLists, RecordsRight
<1> DEFINE Of(x) == IF x[1] \in 1..N /\ Keeps(x[2], file[x[1]]) THEN Append(x[2], file[x[1]]) ELSE x[2]
<1>6. step \in [Nat \X HouseLists -> HouseLists]
  <2>1. ASSUME NEW x \in Nat \X HouseLists PROVE Of(x) \in HouseLists
    <3> HIDE DEF Keeps
    <3>1. x[2] \in HouseLists
      OBVIOUS
    <3>2. QED
      BY <1>4, <3>1
  <2>2. step = [x \in Nat \X HouseLists |-> Of(x)]
    OBVIOUS
  <2> HIDE DEF Of, step
  <2>3. QED
    BY <2>1, <2>2
<1> HIDE DEF Keeps
<1>7. \E f : Is(f)
  <2> HIDE DEF step
  <2>1. PICK f \in [0..N -> HouseLists] : Steps(<<>>, N, step, f)
    BY <1>2, <1>5, <1>6, StepsExist
  <2>2. ASSUME NEW n \in 0..N, n # 0
        PROVE  step[<<n, f[n - 1]>>] = IF Keeps(f[n - 1], file[n]) THEN Append(f[n - 1], file[n]) ELSE f[n - 1]
    <3>1. n - 1 \in 0..N /\ n \in 1..N
      BY <1>2, <2>2
    <3>2. <<n, f[n - 1]>> \in Nat \X HouseLists
      BY <2>1, <3>1
    <3>3. QED
      BY <3>1, <3>2 DEF step
  <2>3. Is(f)
    BY <2>1, <2>2 DEF Steps
  <2>4. QED
    BY <2>3
<1>8. Is(c)
  <2> HIDE DEF Is
  <2>1. QED
    BY <1>7
<1> HIDE DEF c
<1>9. \A n \in 0..N : c[n] = IF n = 0 THEN <<>>
                             ELSE IF Keeps(c[n - 1], file[n]) THEN Append(c[n - 1], file[n]) ELSE c[n - 1]
  BY <1>8
<1>10. c[0] \in HouseLists
  <2>1. 0 \in 0..N
    BY <1>2
  <2>2. c[0] = <<>>
    BY <1>9, <2>1
  <2>3. QED
    BY <1>5, <2>2
<1>11. ASSUME NEW n \in 1..N, c[n - 1] \in HouseLists PROVE c[n] \in HouseLists
  <2>1. n \in 0..N /\ n # 0
    BY <1>2
  <2>2. c[n] = IF Keeps(c[n - 1], file[n]) THEN Append(c[n - 1], file[n]) ELSE c[n - 1]
    BY <1>9, <2>1
  <2>3. QED
    BY <1>4, <1>11, <2>2
<1>12. c[N] \in HouseLists
  BY <1>2, <1>10, <1>11, IterationStays
<1>13. QED
  BY <1>1, <1>3, <1>12 DEF HouseInv

LEMMA HousesNextStep == HouseInv /\ [HousesNext]_houseVars => HouseInv'
<1> SUFFICES ASSUME HouseInv, [HousesNext]_houseVars PROVE HouseInv'
  OBVIOUS
<1>1. ASSUME NEW id \in HousePlayers, PlayerDeleted(id) PROVE HouseInv'
  BY <1>1 DEF PlayerDeleted, HouseInv, AtriumsOf
<1>2. CASE UNCHANGED houseVars
  BY <1>2 DEF houseVars, HouseInv, AtriumsOf
<1>3. QED
  BY <1>1, <1>2, BuildStep, DestroyStep, GuestStep, BootStep DEF HousesNext

(* Whatever is built, destroyed, opened to guests and closed to them, and  *)
(* whoever deletes himself, at whatever boots: the flags of the rooms, the *)
(* file and the records agree, a room is a house once, and a private house *)
(* lets in its owner and his guests, each named once (house.c).            *)
THEOREM HouseFlagsAlwaysAgree == HousesSpec => []HouseFlagsAgree
<1>1. HousesInit => HouseInv
  BY HousesStart
<1>2. HouseInv /\ [HousesNext]_houseVars => HouseInv'
  BY HousesNextStep
<1>3. HouseInv => HouseFlagsAgree
  BY HousesAgree
<1>4. QED
  BY <1>1, <1>2, <1>3, PTL DEF HousesSpec

-----------------------------------------------------------------------------
(* Menus.  Whoever asks for help comes back to where he was, if he does    *)
(* not ask for help there again (then he is At the help).  A change may    *)
(* be unmarked in a mode that is left with the mark (the exits and the     *)
(* lists); Carried are the others, and Certain those of them in which      *)
(* something is changed that is not marked on leaving.                     *)
At == IF mode = "help" THEN last_mode ELSE mode
Certain == {"desc", "action_desc", "mprog_type", "mprog_arg", "mprog_cmds",
            "command_type", "if_flag", "arg1", "arg2", "arg3"}
Carried == Certain \cup {"main", "d_desc", "mprog", "value_1", "value_2", "value_3", "value_4",
                         "zon_flags", "new_entry", "change_entry", "delete_entry"}
CmdModes == {"command_type", "if_flag", "arg1", "arg2", "arg3"}
DescModes == {"extradesc", "desc_key", "desc_text"}
Changed == changed \cap {"store", "write"} # {}

(* What every row of every menu has.                                       *)
RowFine(m, n, e) ==
    /\ m \notin CmdModes \cup DescModes \cup {"help", "confirm"}
    /\ n \notin CmdModes \cup {"help", "confirm", "desc_key", "desc_text"}
    /\ e \in Effects
    /\ e \in {"look", "values", "mob_desc", "guild_type"} =>
         (n \in Certain => m \in Certain) /\ (n \in Carried => m \in Carried)
    /\ e = "write" => (n \in Carried => m \in Certain)
    /\ e = "index" => n \notin Carried

MenuTypes ==
    /\ last_mode = "help" => mode = "help"
    /\ marked \in BOOLEAN /\ cmd_at \in Nat /\ desc_at \in Nat
    /\ cmds \in Seq(CmdStates) /\ descs \in Seq([key : BOOLEAN, text : BOOLEAN])
MarkInv ==
    /\ At \in Certain => marked
    /\ At \in Carried /\ Changed => marked
CmdInv ==
    /\ At \notin CmdModes \cup {"help"} => \A i \in 1..Len(cmds) : cmds[i] = "whole"
    /\ At \in CmdModes => /\ cmd_at + 1 \in 1..Len(cmds)
                          /\ \A i \in 1..Len(cmds) : i # cmd_at + 1 => cmds[i] = "whole"
    /\ At = "command_type" => cmds[cmd_at + 1] # "half"
DescInv ==
    /\ At \notin DescModes \cup {"help"} /\ editor = "oedit" => \A i \in 1..Len(descs) : Whole(descs[i])
    /\ At \in DescModes => /\ desc_at \in 1..Len(descs)
                           /\ editor = "oedit" =>
                                \A i \in 1..Len(descs) : i # desc_at => Whole(descs[i])
MenuInv == MenuTypes /\ MarkInv /\ CmdInv /\ DescInv

Fine(rows) == \A row \in rows : RowFine(row[1], row[2], row[3])

LEMMA FromFine ==
    ASSUME NEW m, NEW next, NEW e, \A n \in next : RowFine(m, n, e)
    PROVE  Fine(From(m, next, e))
BY DEF Fine, From

LEMMA BackToFine ==
    ASSUME NEW ms, NEW n, NEW e, \A m \in ms : RowFine(m, n, e)
    PROVE  Fine(BackTo(ms, n, e))
BY DEF Fine, BackTo

LEMMA TogglesFine ==
    ASSUME NEW ms,
           \A m \in ms : RowFine(m, m, "write") /\ RowFine(m, m, "look") /\ RowFine(m, "main", "mark")
    PROVE  Fine(Toggles(ms))
BY BackToFine DEF Fine, Toggles

LEMMA ReditFine == Fine(ReditMain \cup ReditFields \cup ReditExits \cup ReditTeleport)
<1> USE DEF RowFine, CmdModes, DescModes, Effects, Changes, Certain, Carried
<1>1. Fine(ReditMain)
  <2>1. Fine(From("main", ReditMenus \union {"tele", "name", "spec_proc"}, "look"))
    BY FromFine DEF ReditMenus
  <2>2. Fine({<<"main", "desc", "mark">>, <<"main", "exit", "index">>})
    BY DEF Fine
  <2>3. QED
    BY <2>1, <2>2 DEF ReditMain, Fine
<1>2. Fine(ReditFields)
  <2>1. Fine(BackTo({"name", "sector", "spec_proc"}, "main", "store"))
    BY BackToFine
  <2>2. Fine(BackTo({"sector", "spec_proc"}, "main", "mark"))
    BY BackToFine
  <2>3. Fine(Toggles({"flags", "room_affect"}))
    BY TogglesFine
  <2>4. Fine({<<"sector", "sector", "look">>}) /\ Fine({<<"desc", "main", "write">>, <<"desc", "main", "look">>})
    BY DEF Fine
  <2>5. QED
    BY <2>1, <2>2, <2>3, <2>4 DEF ReditFields, Fine
<1>3. Fine(ReditExits)
  <2>1. Fine(From("exit", {"to_room", "keyword", "key", "doorflags", "exit_desc", "exit"}, "look"))
    BY FromFine
  <2>2. Fine(BackTo({"to_room", "keyword", "key", "doorflags", "exit_desc"}, "exit", "write"))
    BY BackToFine
  <2>3. Fine({<<"exit", "main", "mark">>, <<"exit", "main", "store">>})
    BY DEF Fine
  <2>4. Fine({<<"to_room", "to_room", "look">>, <<"doorflags", "doorflags", "look">>, <<"exit_desc", "exit", "look">>})
    BY DEF Fine
  <2>5. QED
    BY <2>1, <2>2, <2>3, <2>4 DEF ReditExits, Fine
<1>4. Fine(ReditTeleport)
  <2>1. Fine(From("tele", (ReditTeleMenus \ {"tele"}) \union {"tele_target", "tele_freq", "tele_obj"}, "look"))
    BY FromFine DEF ReditTeleMenus
  <2>2. Fine(BackTo({"tele_target", "tele_freq", "tele_obj"}, "tele", "write"))
    BY BackToFine
  <2>3. Fine({<<"tele", "main", "mark">>})
    BY DEF Fine
  <2>4. Fine({<<m, m, "look">> : m \in {"tele_target", "tele_freq", "tele_obj"}})
    BY DEF Fine
  <2>5. Fine({<<"tele_flags", "tele_flags", "write">>, <<"tele_flags", "tele", "look">>})
    BY DEF Fine
  <2>6. QED
    BY <2>1, <2>2, <2>3, <2>4, <2>5 DEF ReditTeleport, Fine
<1>5. QED
  BY <1>1, <1>2, <1>3, <1>4 DEF Fine

LEMMA MeditFine == Fine(MeditMain \cup MeditFields \cup MeditProgs)
<1> USE DEF RowFine, CmdModes, DescModes, Effects, Changes, Certain, Carried
<1>1. Fine(MeditMain)
  BY FromFine DEF MeditMain, MeditMenus
<1>2. Fine(MeditFields)
  <2>1. Fine(BackTo({"sex", "text", "number", "spec_proc"}, "main", "store"))
    BY BackToFine
  <2>2. Fine(Toggles({"npc_flags", "aff_flags"}))
    BY TogglesFine
  <2>3. Fine({<<"spec_proc", "main", "mark">>}) /\ Fine({<<"number", "number", "look">>})
    BY DEF Fine
  <2>4. Fine({<<"d_desc", "main", "mob_desc">>, <<"d_desc", "main", "look">>})
    BY DEF Fine
  <2>5. QED
    BY <2>1, <2>2, <2>3, <2>4 DEF MeditFields, Fine
<1>3. Fine(MeditProgs)
  <2>1. Fine({<<"mprog", "main", "look">>, <<"mprog", "main", "mark">>, <<"mprog", "mprog", "store">>})
    BY DEF Fine
  <2>2. Fine(From("mprog", (MeditProgMenus \ {"mprog"}) \union {"mprog_arg", "mprog_cmds"}, "mark"))
    BY FromFine DEF MeditProgMenus
  <2>3. Fine(BackTo({"mprog_type", "mprog_arg", "mprog_cmds"}, "mprog", "write"))
    BY BackToFine
  <2>4. Fine({<<"mprog_type", "mprog_type", "look">>, <<"mprog_cmds", "mprog", "look">>})
    BY DEF Fine
  <2>5. QED
    BY <2>1, <2>2, <2>3, <2>4 DEF MeditProgs, Fine
<1>4. QED
  BY <1>1, <1>2, <1>3 DEF Fine

LEMMA OeditFine == Fine(OeditMain \cup OeditFields \cup OeditValues \cup OeditApplies)
<1> USE DEF RowFine, CmdModes, DescModes, Effects, Changes, Certain, Carried
<1>1. Fine(OeditMain)
  <2>1. Fine(From("main", OeditMenus \union OeditListMenus \union {"text", "number", "bottom_lev", "spec_proc"}, "look"))
    BY FromFine DEF OeditMenus, OeditListMenus
  <2>2. Fine({<<"main", "action_desc", "mark">>, <<"main", "value_1", "values">>, <<"main", "main", "values">>})
    BY DEF Fine
  <2>3. QED
    BY <2>1, <2>2 DEF OeditMain, Fine
<1>2. Fine(OeditFields)
  <2>1. Fine(BackTo({"text", "number", "type", "top_lev", "spec_proc"}, "main", "store"))
    BY BackToFine
  <2>2. Fine(BackTo({"type", "spec_proc"}, "main", "mark"))
    BY BackToFine
  <2>3. Fine(Toggles({"extras", "wear", "aff_flags"}))
    BY TogglesFine
  <2>4. Fine({<<"type", "type", "look">>, <<"bottom_lev", "top_lev", "write">>})
    BY DEF Fine
  <2>5. Fine({<<"action_desc", "main", "write">>, <<"action_desc", "main", "look">>})
    BY DEF Fine
  <2>6. QED
    BY <2>1, <2>2, <2>3, <2>4, <2>5 DEF OeditFields, Fine
<1>3. Fine(OeditValues)
  <2>1. Fine(BackTo(OeditValueMenus \ {"value_4"}, "main", "values"))
    BY BackToFine DEF OeditValueMenus
  <2>2. Fine({<<"value_1", "value_2", "values">>, <<"value_2", "value_2", "values">>, <<"value_2", "value_2", "look">>,
              <<"value_2", "value_3", "values">>, <<"value_3", "value_4", "values">>, <<"value_4", "main", "store">>})
    BY DEF Fine
  <2>3. QED
    BY <2>1, <2>2 DEF OeditValues, Fine
<1>4. Fine(OeditApplies)
  BY DEF OeditApplies, Fine
<1>5. QED
  BY <1>1, <1>2, <1>3, <1>4 DEF Fine

LEMMA SeditFine == Fine(SeditMain \cup SeditFields \cup SeditLists)
<1> USE DEF RowFine, CmdModes, DescModes, Effects, Changes, Certain, Carried
<1>1. Fine(SeditMain)
  BY FromFine DEF SeditMain, SeditListMenus, SeditFlagMenus
<1>2. Fine(SeditFields)
  <2>1. Fine(BackTo({"keeper", "number", "text"}, "main", "store"))
    BY BackToFine
  <2>2. Fine(BackTo(SeditFlagMenus, "main", "mark"))
    BY BackToFine DEF SeditFlagMenus
  <2>3. Fine({<<"keeper", "keeper", "look">>, <<"number", "number", "look">>})
    BY DEF Fine
  <2>4. Fine({<<m, m, "write">> : m \in SeditFlagMenus})
    BY DEF Fine, SeditFlagMenus
  <2>5. QED
    BY <2>1, <2>2, <2>3, <2>4 DEF SeditFields, Fine
<1>3. Fine(SeditLists)
  <2>1. /\ Fine(From("rooms", {"new_rooms", "delete_rooms"}, "look"))
        /\ Fine(BackTo({"new_rooms", "delete_rooms"}, "rooms", "write"))
    BY FromFine, BackToFine
  <2>6. /\ Fine(From("products", {"new_products", "delete_products"}, "look"))
        /\ Fine(BackTo({"new_products", "delete_products"}, "products", "write"))
    BY FromFine, BackToFine
  <2>2. Fine(BackTo(SeditListMenus, "main", "mark"))
    BY BackToFine DEF SeditListMenus
  <2>3. Fine({<<"rooms", "rooms", "look">>, <<"new_rooms", "new_rooms", "look">>, <<"new_products", "new_products", "look">>})
    BY DEF Fine
  <2>4. Fine(From("namelist", {"type_menu", "delete_type"}, "look"))
    BY FromFine
  <2>5. Fine({<<"type_menu", "type_word", "index">>, <<"type_word", "namelist", "write">>, <<"delete_type", "namelist", "write">>})
    BY DEF Fine
  <2>7. QED
    BY <2>1, <2>2, <2>3, <2>4, <2>5, <2>6 DEF SeditLists, Fine
<1>4. QED
  BY <1>1, <1>2, <1>3 DEF Fine

LEMMA GeditFine == Fine(GeditRows)
<1> USE DEF RowFine, CmdModes, DescModes, Effects, Changes, Certain, Carried
<1>1. Fine(From("main", GeditMenus \union {"trainer", "text", "number", "main"}, "look"))
  BY FromFine DEF GeditMenus
<1>2. Fine({<<"main", "main", "guild_type">>, <<"trainer", "trainer", "look">>})
  BY DEF Fine
<1>3. Fine(BackTo({"trainer", "text", "number"}, "main", "store"))
  BY BackToFine
<1>4. Fine(Toggles(GeditMenus))
  BY TogglesFine DEF GeditMenus
<1>5. QED
  BY <1>1, <1>2, <1>3, <1>4 DEF GeditRows, Fine

LEMMA ZeditFine == Fine(ZeditRows)
<1> USE DEF RowFine, CmdModes, DescModes, Effects, Changes, Certain, Carried
<1>1. Fine(From("main", {"text", "number", "master_mob", "zon_flags", "new_entry", "change_entry", "delete_entry", "main"}, "look"))
  BY FromFine
<1>2. Fine(BackTo({"text", "number", "master_mob"}, "main", "store"))
  BY BackToFine
<1>3. Fine({<<"number", "number", "look">>, <<"master_mob", "master_mob", "look">>,
            <<"zon_flags", "zon_flags", "mark">>, <<"zon_flags", "main", "look">>})
  BY DEF Fine
<1>4. QED
  BY <1>1, <1>2, <1>3 DEF ZeditRows, Fine

LEMMA RowsFine == ASSUME NEW e \in OlcEditors PROVE Fine(Rows[e])
<1>1. e \in {"redit", "medit", "oedit", "zedit", "sedit", "gedit"}
  BY MenusAssumption
<1>2. QED
  BY <1>1, ReditFine, MeditFine, OeditFine, SeditFine, GeditFine, ZeditFine DEF Rows

LEMMA NoList == ASSUME NEW S PROVE <<>> \in Seq(S) /\ Len(<<>>) = 0 /\ 1..Len(<<>>) = {}
OBVIOUS

LEMMA MenusStart == MenusInit => MenuInv
<1> SUFFICES ASSUME MenusInit PROVE MenuInv
  OBVIOUS
<1>1. /\ At = "main" /\ ~Changed /\ cmds = <<>> /\ descs = <<>>
      /\ "main" \notin Certain /\ "main" \notin CmdModes /\ "main" \notin DescModes
  BY DEF MenusInit, At, Changed, Certain, CmdModes, DescModes
<1>2. MenuTypes
  BY NoList DEF MenusInit, MenuTypes
<1>3. MarkInv /\ CmdInv /\ DescInv
  BY <1>1, NoList DEF MarkInv, CmdInv, DescInv, CmdModes
<1>4. QED
  BY <1>2, <1>3 DEF MenuInv

(* The main menu of an editor that was just begun or left.                 *)
LEMMA FreshMenu ==
    ASSUME MenuInv, mode' = "main", last_mode' # "help", marked' = FALSE, changed' = {},
           desc_at' = 0, cmd_at' = 0, cmds' \in {<<>>, <<"whole">>}, descs' \in DescLists
    PROVE  MenuInv'
<1>1. /\ At' = "main" /\ ~Changed'
      /\ "main" \notin Certain /\ "main" \notin CmdModes /\ "main" \notin DescModes
  BY DEF At, Changed, Certain, CmdModes, DescModes
<1>2. cmds' \in Seq(CmdStates) /\ \A i \in 1..Len(cmds') : cmds'[i] = "whole"
  <2>1. CASE cmds' = <<>>
    BY <2>1, NoList
  <2>2. CASE cmds' = <<"whole">>
    <3>1. "whole" \in CmdStates
      BY DEF CmdStates
    <3> DEFINE t == <<"whole">>
    <3>2. t \in Seq(CmdStates) /\ Len(t) = 1 /\ t[1] = "whole"
      BY <3>1
    <3> HIDE DEF t
    <3>3. \A i \in 1..Len(t) : t[i] = "whole"
      BY <3>2
    <3>4. QED
      BY <2>2, <3>2, <3>3 DEF t
  <2>3. QED
    BY <2>1, <2>2
<1>3. descs' \in Seq([key : BOOLEAN, text : BOOLEAN]) /\ \A i \in 1..Len(descs') : Whole(descs'[i])
  <2> DEFINE D == [key : BOOLEAN, text : BOOLEAN]
             d == [key |-> TRUE, text |-> TRUE]
  <2>1. d \in D /\ Whole(d)
    BY DEF Whole
  <2> HIDE DEF D, d
  <2>2. descs' = <<>> \/ descs' = <<d>> \/ descs' = <<d, d>>
    BY DEF DescLists, d
  <2>3. CASE descs' = <<>>
    BY <2>3, NoList
  <2>4. CASE descs' = <<d>>
    <3> DEFINE t == <<d>>
    <3>1. t \in Seq(D) /\ Len(t) = 1 /\ t[1] = d
      BY <2>1
    <3> HIDE DEF t
    <3>2. \A i \in 1..Len(t) : Whole(t[i])
      BY <2>1, <3>1
    <3>3. QED
      BY <2>4, <3>1, <3>2 DEF t, D
  <2>5. CASE descs' = <<d, d>>
    <3> DEFINE t == <<d, d>>
    <3>1. t \in Seq(D) /\ Len(t) = 2 /\ t[1] = d /\ t[2] = d
      BY <2>1
    <3> HIDE DEF t
    <3>2. \A i \in 1..Len(t) : i = 1 \/ i = 2
      BY <3>1
    <3>3. \A i \in 1..Len(t) : Whole(t[i])
      BY <2>1, <3>1, <3>2
    <3>4. QED
      BY <2>5, <3>1, <3>3 DEF t, D
  <2>6. QED
    BY <2>2, <2>3, <2>4, <2>5
<1>4. MenuTypes'
  BY <1>2, <1>3 DEF MenuTypes
<1>5. MarkInv'
  BY <1>1 DEF MarkInv
<1>6. CmdInv'
  BY <1>1, <1>2 DEF CmdInv
<1>7. DescInv'
  BY <1>1, <1>3 DEF DescInv
<1>8. QED
  BY <1>4, <1>5, <1>6, <1>7 DEF MenuInv

LEMMA OlcStep ==
    ASSUME MenuInv, NEW e \in OlcEditors, NEW ro \in BOOLEAN, do_olc(e, ro)
    PROVE  MenuInv'
<1>1. last_mode' # "help" /\ cmds' \in {<<>>, <<"whole">>} /\ descs' \in DescLists
  BY DEF do_olc, MenuInv, MenuTypes, DescLists
<1>2. QED
  BY <1>1, FreshMenu DEF do_olc

LEMMA CleanupStep == ASSUME MenuInv, cleanup_olc PROVE MenuInv'
BY FreshMenu DEF cleanup_olc, DescLists

(* A step that changes neither the commands nor the descriptions, nor      *)
(* which of them are open.                                                 *)
LEMMA ListsUntouched ==
    ASSUME MenuInv, UNCHANGED <<editor, olcData>>, last_mode' = "help" => mode' = "help", marked' \in BOOLEAN,
           \/ At' = At \/ At' = "help"
           \/ At' \notin CmdModes \cup DescModes /\ At \notin CmdModes \cup DescModes \cup {"help"},
           MarkInv'
    PROVE  MenuInv'
<1> USE DEF CmdModes, DescModes
<1>1. MenuTypes'
  BY DEF MenuInv, MenuTypes, olcData
<1>2. CmdInv'
  <2>1. At' \in CmdModes => At = At'
    OBVIOUS
  <2>2. At' \notin CmdModes \cup {"help"} => At \notin CmdModes \cup {"help"}
    OBVIOUS
  <2>3. QED
    BY <2>1, <2>2 DEF MenuInv, CmdInv, olcData
<1>3. DescInv'
  <2>1. At' \in DescModes => At = At'
    OBVIOUS
  <2>2. At' \notin DescModes \cup {"help"} => At \notin DescModes \cup {"help"}
    OBVIOUS
  <2>3. QED
    BY <2>1, <2>2 DEF MenuInv, DescInv, olcData
<1>4. QED
  BY <1>1, <1>2, <1>3 DEF MenuInv

LEMMA ParseStep ==
    ASSUME MenuInv, NEW row \in UNION {Rows[e] : e \in OlcEditors \cap {editor}}, olc_parse(row)
    PROVE  MenuInv'
<1> DEFINE m == row[1]
           n == row[2]
           e == row[3]
<1>1. RowFine(m, n, e)
  BY RowsFine DEF Fine
<1>2. /\ mode = m /\ mode' = n /\ marked' \in Marks(e) /\ editor' = editor /\ last_mode' = last_mode
      /\ changed' = changed \cup ({e} \cap Changes) /\ cmds' = cmds /\ cmd_at' = cmd_at
      /\ IF n = "extradesc"
         THEN descs' = (IF descs = <<>> THEN <<[key |-> FALSE, text |-> FALSE]>> ELSE descs) /\ desc_at' = 1
         ELSE descs' = descs /\ desc_at' = desc_at
  BY DEF olc_parse
<1> HIDE DEF m, n, e
<1>3. /\ At = m /\ At' = n /\ m \notin CmdModes \cup DescModes \cup {"help"} /\ n \notin CmdModes \cup {"help"}
      /\ last_mode' # "help"
  BY <1>1, <1>2 DEF At, RowFine, MenuInv, MenuTypes
<1>4. marked' \in BOOLEAN
  BY <1>2 DEF Marks, MenuInv, MenuTypes
<1>5. MarkInv'
  <2>1. MarkInv
    BY DEF MenuInv
  <2>2. CASE e \in {"mark", "store"}
    BY <1>2, <2>2 DEF Marks, MarkInv
  <2>3. CASE e \in {"look", "values", "mob_desc", "guild_type"}
    <3>1. marked' = marked /\ Changed' = Changed
      BY <1>2, <2>3 DEF Marks, Changed
    <3>2. QED
      BY <1>1, <1>3, <2>1, <2>3, <3>1 DEF RowFine, MarkInv
  <2>4. CASE e = "write"
    <3>1. marked' = marked
      BY <1>2, <2>4 DEF Marks
    <3>2. QED
      BY <1>1, <1>3, <2>1, <2>4, <3>1 DEF RowFine, MarkInv, Carried
  <2>5. CASE e = "index"
    BY <1>1, <1>3, <2>5 DEF RowFine, MarkInv, Carried
  <2>6. QED
    BY <1>1, <2>2, <2>3, <2>4, <2>5 DEF RowFine, Effects, Changes
<1>6. CASE n # "extradesc"
  <2>1. n \notin DescModes
    BY <1>1, <1>6 DEF RowFine, DescModes
  <2>2. QED
    BY <1>2, <1>3, <1>4, <1>5, <1>6, <2>1, ListsUntouched DEF olcData, MenuInv, MenuTypes
<1>7. CASE n = "extradesc"
  <2>1. /\ MenuTypes /\ CmdInv /\ DescInv
    BY DEF MenuInv
  <2>2. /\ descs' \in Seq([key : BOOLEAN, text : BOOLEAN]) /\ 1 \in 1..Len(descs')
        /\ editor = "oedit" => \A i \in 1..Len(descs') : i # 1 => Whole(descs'[i])
    <3>1. CASE descs = <<>>
      <4>1. descs' = <<[key |-> FALSE, text |-> FALSE]>>
        BY <1>2, <1>7, <3>1
      <4>2. QED
        BY <4>1
    <3>2. CASE descs # <<>>
      <4>1. descs' = descs /\ descs \in Seq([key : BOOLEAN, text : BOOLEAN])
        BY <1>2, <1>7, <2>1, <3>2 DEF MenuTypes
      <4>2. 1 \in 1..Len(descs)
        BY <3>2, <4>1
      <4>3. QED
        BY <1>3, <2>1, <4>1, <4>2 DEF DescInv
    <3>3. QED
      BY <3>1, <3>2
  <2>3. MenuTypes'
    BY <1>2, <1>3, <1>4, <1>7, <2>1, <2>2 DEF MenuTypes
  <2>4. CmdInv'
    <3>1. At' # "command_type"
      BY <1>3 DEF CmdModes
    <3>2. QED
      BY <1>2, <1>3, <2>1, <3>1 DEF CmdInv
  <2>5. DescInv'
    <3>1. At' \in DescModes
      BY <1>3, <1>7 DEF DescModes
    <3>2. QED
      BY <1>2, <1>7, <2>2, <3>1 DEF DescInv
  <2>6. QED
    BY <1>5, <2>3, <2>4, <2>5 DEF MenuInv
<1>8. QED
  BY <1>6, <1>7

LEMMA QuitStep == ASSUME MenuInv, olc_quit PROVE MenuInv'
<1>1. CASE ~readonly /\ marked
  <2>1. /\ mode = "main" /\ mode' = "confirm" /\ UNCHANGED <<editor, last_mode, marked, olcData>>
    BY <1>1 DEF olc_quit
  <2>2. /\ At = "main" /\ At' = "confirm"
        /\ {"main", "confirm"} \cap (CmdModes \cup DescModes) = {}
        /\ "confirm" \notin Certain /\ "confirm" \notin Carried
    BY <2>1 DEF At, CmdModes, DescModes, Certain, Carried
  <2>3. MarkInv'
    BY <2>2 DEF MarkInv
  <2>4. last_mode' # "help" /\ marked' \in BOOLEAN
    BY <2>1 DEF MenuInv, MenuTypes
  <2>5. QED
    BY <2>1, <2>2, <2>3, <2>4, ListsUntouched
<1>2. CASE ~(~readonly /\ marked)
  BY <1>2, CleanupStep DEF olc_quit
<1>3. QED
  BY <1>1, <1>2

LEMMA HelpStep == ASSUME MenuInv, olc_help \/ olc_help_over PROVE MenuInv'
<1>1. (At' = At \/ At' = "help") /\ "help" \notin Carried /\ Certain \subseteq Carried
  BY DEF olc_help, olc_help_over, MenuInv, MenuTypes, At, Carried, Certain
<1>2. /\ UNCHANGED <<editor, marked, changed, olcData>> /\ (last_mode' = "help" => mode' = "help")
  BY DEF olc_help, olc_help_over, MenuInv, MenuTypes
<1>3. marked' \in BOOLEAN
  BY <1>2 DEF MenuInv, MenuTypes
<1>4. MarkInv'
  BY <1>1, <1>2 DEF MenuInv, MarkInv, Changed
<1>5. QED
  BY <1>1, <1>2, <1>3, <1>4, ListsUntouched

LEMMA FieldStep ==
    ASSUME MenuInv, NEW f \in {"key", "text"}, extradesc_field(f)
    PROVE  MenuInv'
<1>1. /\ mode = "extradesc" /\ mode' \in {"desc_key", "desc_text"} /\ last_mode' = last_mode
      /\ UNCHANGED <<editor, olcData>> /\ marked' \in BOOLEAN
  BY DEF extradesc_field, InDescs, MenuInv, MenuTypes
<1>2. At = "extradesc" /\ At' \in {"desc_key", "desc_text"}
  BY <1>1 DEF At
<1>3. MenuTypes /\ CmdInv /\ DescInv
  BY DEF MenuInv
<1>4. MenuTypes'
  BY <1>1, <1>3 DEF MenuTypes, olcData
<1>5. MarkInv'
  BY <1>2 DEF MarkInv, Certain, Carried
<1>6. CmdInv'
  BY <1>1, <1>2, <1>3 DEF CmdInv, CmdModes, olcData
<1>7. DescInv'
  BY <1>1, <1>2, <1>3 DEF DescInv, DescModes, olcData
<1>8. QED
  BY <1>4, <1>5, <1>6, <1>7 DEF MenuInv

LEMMA AnswerStep ==
    ASSUME MenuInv, extradesc_key \/ \E full \in BOOLEAN : extradesc_text(full)
    PROVE  MenuInv'
<1> DEFINE D == [key : BOOLEAN, text : BOOLEAN]
<1>1. PICK d : /\ mode \in {"desc_key", "desc_text"} /\ mode' = "extradesc" /\ last_mode' = last_mode
               /\ descs' = [descs EXCEPT ![desc_at] = d] /\ (descs[desc_at] \in D => d \in D)
               /\ UNCHANGED <<editor, marked, desc_at, cmds, cmd_at>>
  <2>1. CASE extradesc_key
    <3> DEFINE d == [descs[desc_at] EXCEPT !.key = TRUE]
    <3>1. descs[desc_at] \in D => d \in D
      OBVIOUS
    <3>2. descs' = [descs EXCEPT ![desc_at] = d]
      BY <2>1 DEF extradesc_key
    <3> HIDE DEF d
    <3>3. QED
      BY <2>1, <3>1, <3>2 DEF extradesc_key
  <2>2. ASSUME NEW full \in BOOLEAN, extradesc_text(full)
        PROVE  \E d : /\ mode \in {"desc_key", "desc_text"} /\ mode' = "extradesc" /\ last_mode' = last_mode
                      /\ descs' = [descs EXCEPT ![desc_at] = d] /\ (descs[desc_at] \in D => d \in D)
                      /\ UNCHANGED <<editor, marked, desc_at, cmds, cmd_at>>
    <3> DEFINE d == [descs[desc_at] EXCEPT !.text = full]
    <3>1. descs[desc_at] \in D => d \in D
      OBVIOUS
    <3>2. descs' = [descs EXCEPT ![desc_at] = d]
      BY <2>2 DEF extradesc_text
    <3> HIDE DEF d
    <3>3. QED
      BY <2>2, <3>1, <3>2 DEF extradesc_text
  <2>3. QED
    BY <2>1, <2>2
<1>2. At \in {"desc_key", "desc_text"} /\ At' = "extradesc"
  BY <1>1 DEF At
<1>3. MenuTypes /\ CmdInv /\ DescInv
  BY DEF MenuInv
<1>4. /\ desc_at \in 1..Len(descs) /\ descs \in Seq(D)
      /\ editor = "oedit" => \A i \in 1..Len(descs) : i # desc_at => Whole(descs[i])
  BY <1>2, <1>3 DEF DescInv, DescModes, MenuTypes
<1> HIDE DEF D
<1>5. d \in D
  <2>1. descs[desc_at] \in D
    BY <1>4
  <2>2. QED
    BY <1>1, <2>1
<1>6. /\ descs' \in Seq(D) /\ Len(descs') = Len(descs)
      /\ \A i \in 1..Len(descs) : i # desc_at => descs'[i] = descs[i]
  BY <1>1, <1>4, <1>5
<1>7. MenuTypes'
  BY <1>1, <1>3, <1>6 DEF MenuTypes, D
<1>8. MarkInv'
  BY <1>2 DEF MarkInv, Certain, Carried
<1>9. CmdInv'
  BY <1>1, <1>2, <1>3 DEF CmdInv, CmdModes
<1>10. DescInv'
  BY <1>1, <1>2, <1>4, <1>6 DEF DescInv, DescModes
<1>11. QED
  BY <1>7, <1>8, <1>9, <1>10 DEF MenuInv

LEMMA NextStep == ASSUME MenuInv, extradesc_next PROVE MenuInv'
<1> DEFINE D == [key : BOOLEAN, text : BOOLEAN]
           k == Len(descs)
<1>1. /\ mode = "extradesc" /\ Whole(descs[desc_at]) /\ desc_at' = desc_at + 1
      /\ descs' = IF desc_at = k THEN Append(descs, [key |-> FALSE, text |-> FALSE]) ELSE descs
      /\ UNCHANGED <<editor, mode, last_mode, marked, changed, cmds, cmd_at>>
  BY DEF extradesc_next, InDescs
<1>2. At = "extradesc" /\ At' = At
  BY <1>1 DEF At
<1>3. MenuTypes /\ CmdInv /\ DescInv
  BY DEF MenuInv
<1>4. /\ desc_at \in 1..k /\ descs \in Seq(D) /\ k \in Nat
      /\ editor = "oedit" => \A i \in 1..k : Whole(descs[i])
  BY <1>1, <1>2, <1>3 DEF DescInv, DescModes, MenuTypes
<1>5. /\ descs' \in Seq(D) /\ desc_at' \in 1..Len(descs')
      /\ editor = "oedit" => \A i \in 1..Len(descs') : i # desc_at' => Whole(descs'[i])
  <2>1. CASE desc_at = k
    <3> DEFINE d == [key |-> FALSE, text |-> FALSE]
               more == Append(descs, d)
    <3>1. d \in D /\ descs' = more
      BY <1>1, <2>1
    <3> HIDE DEF d, D
    <3>2. /\ more \in Seq(D) /\ Len(more) = k + 1
          /\ \A i \in 1..k : more[i] = descs[i]
      BY <1>4, <3>1
    <3>3. \A i \in 1..(k + 1) : i # k + 1 => i \in 1..k
      BY <1>4
    <3> HIDE DEF more, k
    <3>4. QED
      BY <1>1, <1>4, <2>1, <3>1, <3>2, <3>3
  <2>2. CASE desc_at # k
    <3>1. descs' = descs /\ desc_at + 1 \in 1..k
      BY <1>1, <1>4, <2>2
    <3>2. QED
      BY <1>1, <1>4, <3>1
  <2>3. QED
    BY <2>1, <2>2
<1>6. MenuTypes'
  BY <1>1, <1>3, <1>5 DEF MenuTypes
<1>7. MarkInv'
  BY <1>2 DEF MarkInv, Certain, Carried
<1>8. CmdInv'
  BY <1>1, <1>2, <1>3 DEF CmdInv, CmdModes
<1>9. DescInv'
  BY <1>1, <1>2, <1>5 DEF DescInv, DescModes
<1>10. QED
  BY <1>6, <1>7, <1>8, <1>9 DEF MenuInv

LEMMA DoneStep == ASSUME MenuInv, extradesc_done \/ extradesc_other PROVE MenuInv'
<1> DEFINE D == [key : BOOLEAN, text : BOOLEAN]
<1>1. /\ mode = "extradesc" /\ mode' = "main" /\ marked' = TRUE /\ desc_at' = 0
      /\ UNCHANGED <<editor, last_mode, cmds, cmd_at>>
  BY DEF extradesc_done, extradesc_other, InDescs
<1>2. At = "extradesc" /\ At' = "main"
  BY <1>1 DEF At
<1>3. MenuTypes /\ CmdInv /\ DescInv
  BY DEF MenuInv
<1>4. /\ desc_at \in 1..Len(descs) /\ descs \in Seq(D) /\ Len(descs) \in Nat
      /\ editor = "oedit" => \A i \in 1..Len(descs) : i # desc_at => Whole(descs[i])
  BY <1>2, <1>3 DEF DescInv, DescModes, MenuTypes
<1>5. /\ descs' \in Seq(D)
      /\ editor = "oedit" => \A i \in 1..Len(descs') : Whole(descs'[i])
  <2>1. CASE extradesc_done /\ Whole(descs[desc_at])
    <3>1. descs' = descs
      BY <2>1 DEF extradesc_done
    <3>2. QED
      BY <1>4, <2>1, <3>1
  <2>2. CASE extradesc_done /\ ~Whole(descs[desc_at])
    <3> DEFINE less == SubSeq(descs, 1, desc_at - 1)
    <3>1. descs' = less
      BY <2>2 DEF extradesc_done
    <3> HIDE DEF D
    <3>2. /\ less \in Seq(D) /\ Len(less) = desc_at - 1
          /\ \A i \in 1..(desc_at - 1) : less[i] = descs[i]
      BY <1>4
    <3>3. \A i \in 1..(desc_at - 1) : i \in 1..Len(descs) /\ i # desc_at
      BY <1>4
    <3> HIDE DEF less
    <3>4. QED
      BY <1>4, <3>1, <3>2, <3>3
  <2>3. CASE extradesc_other
    BY <1>4, <2>3 DEF extradesc_other
  <2>4. QED
    BY <2>1, <2>2, <2>3
<1>6. MenuTypes'
  BY <1>1, <1>3, <1>5 DEF MenuTypes
<1>7. MarkInv'
  BY <1>1 DEF MarkInv
<1>8. CmdInv'
  BY <1>1, <1>2, <1>3 DEF CmdInv, CmdModes
<1>9. DescInv'
  BY <1>1, <1>2, <1>5 DEF DescInv, DescModes
<1>10. QED
  BY <1>6, <1>7, <1>8, <1>9 DEF MenuInv

(* Reset commands.                                                         *)
(* In a step of zedit only the command that is being changed may be less   *)
(* than whole, and its changes are marked.                                 *)
LEMMA CommandStep ==
    ASSUME MenuInv, At' \notin DescModes, At \notin DescModes, CmdInv',
           cmds' \in Seq(CmdStates), cmd_at' \in Nat, marked' = TRUE,
           UNCHANGED <<editor, last_mode, descs, desc_at>>, mode # "help", At # "help"
    PROVE  MenuInv'
<1>1. MenuTypes /\ DescInv
  BY DEF MenuInv
<1>2. MenuTypes'
  BY <1>1 DEF MenuTypes
<1>3. MarkInv'
  BY DEF MarkInv
<1>4. DescInv'
  BY <1>1 DEF DescInv
<1>5. QED
  BY <1>2, <1>3, <1>4 DEF MenuInv

(* more is the sequence s of S with e put behind its entry p.              *)
OneMore(S, s, p, e, more) ==
    /\ more \in Seq(S) /\ Len(more) = Len(s) + 1 /\ more[p + 1] = e
    /\ \A i \in 1..(Len(s) + 1) : i # p + 1 => \E j \in 1..Len(s) : more[i] = s[j]

LEMMA ListInsertedAt ==
    ASSUME NEW S, NEW s \in Seq(S), NEW e \in S, NEW p \in 0..Len(s)
    PROVE  OneMore(S, s, p, e, InsertAt(s, p + 1, e))
<1> DEFINE k == Len(s)
           a == SubSeq(s, 1, p)
           b == SubSeq(s, p + 1, k)
           o == <<e>>
<1>1. k \in Nat /\ p \in Nat /\ p <= k /\ p + 1 - 1 = p
  OBVIOUS
<1>2. a \in Seq(S) /\ Len(a) = p /\ \A i \in 1..p : a[i] = s[i]
  OBVIOUS
<1>3. b \in Seq(S) /\ Len(b) = k - p /\ \A i \in 1..(k - p) : b[i] = s[p + i]
  OBVIOUS
<1>4. o \in Seq(S) /\ Len(o) = 1 /\ o[1] = e
  OBVIOUS
<1>5. InsertAt(s, p + 1, e) = (a \o o) \o b
  <2>1. \A i, j : j = i - 1 =>
          InsertAt(s, i, e) = (SubSeq(s, 1, j) \o <<e>>) \o SubSeq(s, i, Len(s))
    BY DEF InsertAt
  <2>2. p = (p + 1) - 1
    BY <1>1
  <2> DEFINE i == p + 1
  <2> HIDE DEF i
  <2>3. InsertAt(s, i, e) = (SubSeq(s, 1, p) \o <<e>>) \o SubSeq(s, i, Len(s))
    <3>1. p = i - 1
      BY <2>2 DEF i
    <3>2. QED
      BY <2>1, <3>1, Zenon
  <2>4. QED
    BY <2>3 DEF i
<1> HIDE DEF a, b, o
<1>6. /\ a \o o \in Seq(S) /\ Len(a \o o) = p + 1
      /\ \A i \in 1..(p + 1) : (a \o o)[i] = IF i <= p THEN a[i] ELSE o[i - p]
  <2>1. /\ a \o o \in Seq(S) /\ Len(a \o o) = Len(a) + Len(o)
        /\ \A i \in 1..(Len(a) + Len(o)) : (a \o o)[i] = IF i <= Len(a) THEN a[i] ELSE o[i - Len(a)]
    BY <1>2, <1>4, ConcatProperties
  <2>2. QED
    BY <1>2, <1>4, <2>1
<1> DEFINE c == a \o o
<1> HIDE DEF c
<1>7. /\ c \in Seq(S) /\ Len(c) = p + 1 /\ c[p + 1] = e
      /\ \A i \in 1..p : c[i] = s[i]
  <2>1. p + 1 \in 1..(p + 1) /\ ~(p + 1 <= p) /\ p + 1 - p = 1
    BY <1>1
  <2>2. c[p + 1] = e
    BY <1>4, <1>6, <2>1 DEF c
  <2>3. \A i \in 1..p : i \in 1..(p + 1) /\ i <= p
    BY <1>1
  <2>4. QED
    BY <1>2, <1>6, <2>2, <2>3 DEF c
<1>8. /\ c \o b \in Seq(S) /\ Len(c \o b) = k + 1
      /\ \A i \in 1..(k + 1) : (c \o b)[i] = IF i <= p + 1 THEN c[i] ELSE b[i - (p + 1)]
  <2>1. /\ c \o b \in Seq(S) /\ Len(c \o b) = Len(c) + Len(b)
        /\ \A i \in 1..(Len(c) + Len(b)) : (c \o b)[i] = IF i <= Len(c) THEN c[i] ELSE b[i - Len(c)]
    BY <1>3, <1>7, ConcatProperties
  <2>2. Len(c) + Len(b) = k + 1
    BY <1>1, <1>3, <1>7
  <2>3. QED
    BY <1>7, <2>1, <2>2
<1>9. (c \o b)[p + 1] = e
  <2>1. p + 1 \in 1..(k + 1) /\ p + 1 <= p + 1
    BY <1>1
  <2>2. QED
    BY <1>7, <1>8, <2>1
<1>10. ASSUME NEW i \in 1..(k + 1), i # p + 1
       PROVE  \E j \in 1..k : (c \o b)[i] = s[j]
  <2>1. CASE i <= p
    <3>1. i \in 1..p /\ i \in 1..k /\ i <= p + 1
      BY <1>1, <2>1
    <3>2. QED
      BY <1>7, <1>8, <3>1
  <2>2. CASE i > p + 1
    <3>1. i - (p + 1) \in 1..(k - p) /\ p + (i - (p + 1)) \in 1..k /\ ~(i <= p + 1)
      BY <1>1, <2>2
    <3>2. QED
      BY <1>3, <1>8, <3>1
  <2>3. i <= p \/ i > p + 1
    BY <1>1, <1>10
  <2>4. QED
    BY <2>1, <2>2, <2>3
<1>11. QED
  BY <1>5, <1>8, <1>9, <1>10 DEF c, OneMore

LEMMA NewCommandStep ==
    ASSUME MenuInv, NEW pos \in 0..MaxCmds, new_command(pos)
    PROVE  MenuInv'
<1> DEFINE more == InsertAt(cmds, pos + 1, "blank")
<1>1. /\ mode = "new_entry" /\ mode' = "command_type" /\ pos \in 0..Len(cmds)
      /\ cmds' = more /\ cmd_at' = pos /\ marked' = TRUE
      /\ UNCHANGED <<editor, last_mode, descs, desc_at>>
  BY DEF new_command, ZoneCmd
<1>2. /\ At = "new_entry" /\ At' = "command_type"
      /\ At \notin DescModes /\ At' \notin DescModes /\ At \notin CmdModes /\ At' \in CmdModes
  BY <1>1 DEF At, DescModes, CmdModes
<1>3. cmds \in Seq(CmdStates) /\ \A i \in 1..Len(cmds) : cmds[i] = "whole"
  BY <1>2 DEF MenuInv, MenuTypes, CmdInv
<1>4. "blank" \in CmdStates
  BY DEF CmdStates
<1>5. /\ more \in Seq(CmdStates) /\ Len(more) = Len(cmds) + 1 /\ more[pos + 1] = "blank"
      /\ \A i \in 1..(Len(cmds) + 1) : i # pos + 1 => \E j \in 1..Len(cmds) : more[i] = cmds[j]
  <2>1. OneMore(CmdStates, cmds, pos, "blank", more)
    BY <1>1, <1>3, <1>4, ListInsertedAt
  <2>2. QED
    BY <2>1 DEF OneMore
<1> HIDE DEF more
<1>6. CmdInv'
  <2>1. pos + 1 \in 1..(Len(cmds) + 1)
    BY <1>1, <1>3
  <2>2. QED
    BY <1>1, <1>2, <1>3, <1>5, <2>1 DEF CmdInv
<1>7. QED
  BY <1>1, <1>2, <1>5, <1>6, CommandStep

LEMMA ChangeCommandStep ==
    ASSUME MenuInv, NEW pos \in 0..MaxCmds, start_change_command(pos)
    PROVE  MenuInv'
<1>1. /\ mode = "change_entry" /\ mode' = "command_type" /\ pos \in 0..(Len(cmds) - 1)
      /\ cmds' = cmds /\ cmd_at' = pos /\ marked' = TRUE
      /\ UNCHANGED <<editor, last_mode, descs, desc_at>>
  BY DEF start_change_command, ZoneCmd
<1>2. /\ At = "change_entry" /\ At' = "command_type"
      /\ At \notin DescModes /\ At' \notin DescModes /\ At \notin CmdModes /\ At' \in CmdModes
  BY <1>1 DEF At, DescModes, CmdModes
<1>3. cmds \in Seq(CmdStates) /\ \A i \in 1..Len(cmds) : cmds[i] = "whole"
  BY <1>2 DEF MenuInv, MenuTypes, CmdInv
<1>4. pos + 1 \in 1..Len(cmds) /\ pos \in Nat
  BY <1>1, <1>3
<1>5. CmdInv'
  BY <1>1, <1>2, <1>3, <1>4 DEF CmdInv
<1>6. QED
  BY <1>1, <1>2, <1>3, <1>4, <1>5, CommandStep

(* What is left of whole commands without one of them is whole.            *)
LEMMA OthersWhole ==
    ASSUME NEW s \in Seq(CmdStates), NEW ind \in 1..Len(s),
           \A i \in 1..Len(s) : i # ind => s[i] = "whole"
    PROVE  /\ RemoveAt(s, ind) \in Seq(CmdStates)
           /\ \A i \in 1..Len(RemoveAt(s, ind)) : RemoveAt(s, ind)[i] = "whole"
<1>1. Less(CmdStates, s, ind, RemoveAt(s, ind))
  BY RemovedAt
<1> DEFINE t == RemoveAt(s, ind)
<1> HIDE DEF t
<1>2. /\ t \in Seq(CmdStates) /\ Len(t) = Len(s) - 1
      /\ \A i \in 1..(Len(s) - 1) : Was(i, ind) \in (1..Len(s)) \ {ind} /\ t[i] = s[Was(i, ind)]
  BY <1>1 DEF Less, t
<1>3. QED
  BY <1>2 DEF t

LEMMA DeleteCommandStep ==
    ASSUME MenuInv, NEW pos \in 0..MaxCmds, delete_command(pos)
    PROVE  MenuInv'
<1>1. /\ mode = "delete_entry" /\ mode' = "main" /\ pos \in 0..Len(cmds)
      /\ cmds' = IF pos < Len(cmds) THEN RemoveAt(cmds, pos + 1) ELSE cmds
      /\ cmd_at' = cmd_at /\ marked' = TRUE
      /\ UNCHANGED <<editor, last_mode, descs, desc_at>>
  BY DEF delete_command, ZoneCmd
<1>2. /\ At = "delete_entry" /\ At' = "main" /\ At' # "command_type"
      /\ At \notin DescModes /\ At' \notin DescModes /\ At \notin CmdModes /\ At' \notin CmdModes
  BY <1>1 DEF At, DescModes, CmdModes
<1>3. /\ cmds \in Seq(CmdStates) /\ cmd_at \in Nat
      /\ \A i \in 1..Len(cmds) : cmds[i] = "whole"
  BY <1>2 DEF MenuInv, MenuTypes, CmdInv
<1>4. cmds' \in Seq(CmdStates) /\ \A i \in 1..Len(cmds') : cmds'[i] = "whole"
  <2>1. CASE pos < Len(cmds)
    <3>1. pos + 1 \in 1..Len(cmds)
      BY <1>1, <1>3, <2>1
    <3>2. QED
      BY <1>1, <1>3, <2>1, <3>1, OthersWhole
  <2>2. CASE ~(pos < Len(cmds))
    BY <1>1, <1>3, <2>2
  <2>3. QED
    BY <2>1, <2>2
<1>5. CmdInv'
  BY <1>2, <1>4 DEF CmdInv
<1>6. QED
  BY <1>1, <1>2, <1>3, <1>4, <1>5, CommandStep

LEMMA NoCommandStep == ASSUME MenuInv, no_such_command PROVE MenuInv'
<1>1. /\ mode \in {"new_entry", "change_entry", "delete_entry"} /\ mode' = "main"
      /\ UNCHANGED <<editor, last_mode, readonly, marked, changed, olcData>>
  BY DEF no_such_command
<1>2. /\ At = mode /\ At' = "main" /\ At \in Carried
      /\ At' \notin CmdModes \cup DescModes /\ At \notin CmdModes \cup DescModes
      /\ At' \notin Certain
  BY <1>1 DEF At, CmdModes, DescModes, Carried, Certain
<1>3. MarkInv'
  BY <1>1, <1>2 DEF MenuInv, MarkInv, Changed
<1>4. last_mode' # "help" /\ marked' \in BOOLEAN
  BY <1>1 DEF MenuInv, MenuTypes
<1>5. QED
  BY <1>1, <1>2, <1>3, <1>4, ListsUntouched

LEMMA CommandTypeStep ==
    ASSUME MenuInv, NEW c \in {"blank", "half"}, command_type(c)
    PROVE  MenuInv'
<1>1. /\ mode = "command_type" /\ cmds' = [cmds EXCEPT ![cmd_at + 1] = c]
      /\ c = "blank" => mode' = mode
      /\ c = "half" => mode' \in {"if_flag", "arg1", "arg2"}
      /\ UNCHANGED <<editor, last_mode, marked, descs, desc_at, cmd_at>>
  BY DEF command_type, ZoneCmd
<1>2. /\ At = "command_type" /\ At' = mode'
      /\ At \notin DescModes /\ At' \notin DescModes /\ At \in CmdModes /\ At' \in CmdModes
      /\ c = "half" => At' # "command_type"
      /\ At \in Certain
  BY <1>1 DEF At, DescModes, CmdModes, Certain
<1>3. /\ cmds \in Seq(CmdStates) /\ cmd_at \in Nat /\ cmd_at + 1 \in 1..Len(cmds) /\ marked \in BOOLEAN
      /\ \A i \in 1..Len(cmds) : i # cmd_at + 1 => cmds[i] = "whole"
      /\ marked
  BY <1>2 DEF MenuInv, MenuTypes, CmdInv, MarkInv
<1>4. c \in CmdStates
  BY DEF CmdStates
<1>5. /\ cmds' \in Seq(CmdStates) /\ Len(cmds') = Len(cmds) /\ cmds'[cmd_at + 1] = c
      /\ \A i \in 1..Len(cmds) : i # cmd_at + 1 => cmds'[i] = cmds[i]
  BY <1>1, <1>3, <1>4
<1>6. CmdInv'
  BY <1>1, <1>2, <1>3, <1>5 DEF CmdInv
<1>7. marked' = TRUE /\ cmd_at' \in Nat
  BY <1>1, <1>3
<1>8. QED
  BY <1>1, <1>2, <1>5, <1>6, <1>7, CommandStep

LEMMA CommandQuitStep == ASSUME MenuInv, command_type_quit PROVE MenuInv'
<1>1. /\ mode = "command_type" /\ mode' = "main"
      /\ cmds' = IF cmds[cmd_at + 1] = "blank" THEN RemoveAt(cmds, cmd_at + 1) ELSE cmds
      /\ UNCHANGED <<editor, last_mode, marked, descs, desc_at, cmd_at>>
  BY DEF command_type_quit, ZoneCmd
<1>2. /\ At = "command_type" /\ At' = "main" /\ At' # "command_type"
      /\ At \notin DescModes /\ At' \notin DescModes /\ At \in CmdModes /\ At' \notin CmdModes
      /\ At \in Certain
  BY <1>1 DEF At, DescModes, CmdModes, Certain
<1>3. /\ cmds \in Seq(CmdStates) /\ cmd_at \in Nat /\ cmd_at + 1 \in 1..Len(cmds) /\ marked \in BOOLEAN
      /\ \A i \in 1..Len(cmds) : i # cmd_at + 1 => cmds[i] = "whole"
      /\ marked /\ cmds[cmd_at + 1] # "half"
  BY <1>2 DEF MenuInv, MenuTypes, CmdInv, MarkInv
<1>4. cmds' \in Seq(CmdStates) /\ \A i \in 1..Len(cmds') : cmds'[i] = "whole"
  <2>1. CASE cmds[cmd_at + 1] = "blank"
    BY <1>1, <1>3, <2>1, OthersWhole
  <2>2. CASE cmds[cmd_at + 1] # "blank"
    <3>1. cmds[cmd_at + 1] \in CmdStates
      BY <1>3
    <3>2. cmds[cmd_at + 1] = "whole"
      BY <1>3, <2>2, <3>1 DEF CmdStates
    <3>3. QED
      BY <1>1, <1>3, <2>2, <3>2
  <2>3. QED
    BY <2>1, <2>2
<1>5. CmdInv'
  BY <1>2, <1>4 DEF CmdInv
<1>6. marked' = TRUE /\ cmd_at' \in Nat
  BY <1>1, <1>3
<1>7. QED
  BY <1>1, <1>2, <1>4, <1>5, <1>6, CommandStep

LEMMA CommandArgStep ==
    ASSUME MenuInv, NEW m \in {"if_flag", "arg1", "arg2", "arg3"},
           NEW next \in {"arg1", "arg2", "arg3", "main"}, command_arg(m, next)
    PROVE  MenuInv'
<1>1. /\ mode = m /\ mode' = next
      /\ cmds' = IF next = "main" THEN [cmds EXCEPT ![cmd_at + 1] = "whole"] ELSE cmds
      /\ UNCHANGED <<editor, last_mode, marked, descs, desc_at, cmd_at>>
  BY DEF command_arg
<1>2. /\ At = m /\ At' = next /\ At' # "command_type"
      /\ At \notin DescModes /\ At' \notin DescModes /\ At \in CmdModes
      /\ At' \in CmdModes <=> next # "main"
      /\ At \in Certain
  BY <1>1 DEF At, DescModes, CmdModes, Certain
<1>3. /\ cmds \in Seq(CmdStates) /\ cmd_at \in Nat /\ cmd_at + 1 \in 1..Len(cmds) /\ marked \in BOOLEAN
      /\ \A i \in 1..Len(cmds) : i # cmd_at + 1 => cmds[i] = "whole"
      /\ marked
  BY <1>2 DEF MenuInv, MenuTypes, CmdInv, MarkInv
<1>4. CASE next = "main"
  <2>1. "whole" \in CmdStates
    BY DEF CmdStates
  <2>2. /\ cmds' \in Seq(CmdStates) /\ Len(cmds') = Len(cmds)
        /\ \A i \in 1..Len(cmds) : cmds'[i] = "whole"
    BY <1>1, <1>3, <1>4, <2>1
  <2>3. CmdInv'
    BY <1>2, <1>4, <2>2 DEF CmdInv
  <2>4. QED
    BY <1>1, <1>2, <1>3, <2>2, <2>3, CommandStep
<1>5. CASE next # "main"
  <2>1. cmds' = cmds
    BY <1>1, <1>5
  <2>2. CmdInv'
    BY <1>1, <1>2, <1>3, <1>5, <2>1 DEF CmdInv
  <2>3. QED
    BY <1>1, <1>2, <1>3, <2>1, <2>2, CommandStep
<1>6. QED
  BY <1>4, <1>5

LEMMA MenusNextStep == MenuInv /\ [MenusNext]_menuVars => MenuInv'
<1> SUFFICES ASSUME MenuInv, [MenusNext]_menuVars PROVE MenuInv'
  OBVIOUS
<1>1. CASE UNCHANGED menuVars
  BY <1>1 DEF menuVars, MenuInv, MenuTypes, MarkInv, CmdInv, DescInv, At, Changed
<1>2. ASSUME NEW yes \in BOOLEAN, olc_confirm(yes) PROVE MenuInv'
  BY <1>2, CleanupStep DEF olc_confirm
<1>3. QED
  BY <1>1, <1>2, OlcStep, ParseStep, QuitStep, HelpStep, FieldStep, AnswerStep, NextStep, DoneStep,
     NewCommandStep, ChangeCommandStep, DeleteCommandStep, NoCommandStep, CommandTypeStep,
     CommandQuitStep, CommandArgStep DEF MenusNext

LEMMA MenusHold == MenuInv => MenusSound
<1> SUFFICES ASSUME MenuInv PROVE MenusSound
  OBVIOUS
<1>1. /\ MenuTypes /\ MarkInv /\ CmdInv /\ DescInv
  BY DEF MenuInv
<1>2. mode \in {"main", "confirm"} => At = mode /\ At \notin CmdModes /\ At \notin DescModes
  BY DEF At, CmdModes, DescModes
<1>3. "main" \in Carried
  BY DEF Carried
<1>4. ChangesAreMarked
  BY <1>1, <1>2, <1>3 DEF ChangesAreMarked, MarkInv, Changed
<1>5. CommandsWhole
  BY <1>1, <1>2 DEF CommandsWhole, CmdInv, MenuTypes
<1>6. DescsWhole
  BY <1>1, <1>2 DEF DescsWhole, DescInv, MenuTypes
<1>7. QED
  BY <1>4, <1>5, <1>6 DEF MenusSound

(* Through whatever menus a builder goes, with whatever answers, help and  *)
(* texts in between: nothing that was changed by answers that the code     *)
(* marks is thrown away unasked, no reset command and no extra description *)
(* of an object can be saved unfinished (redit_parse and the others).      *)
THEOREM MenusAlwaysSound == MenusSpec => []MenusSound
<1>1. MenusInit => MenuInv
  BY MenusStart
<1>2. MenuInv /\ [MenusNext]_menuVars => MenuInv'
  BY MenusNextStep
<1>3. MenuInv => MenusSound
  BY MenusHold
<1>4. QED
  BY <1>1, <1>2, <1>3, PTL DEF MenusSpec

-----------------------------------------------------------------------------
(* Riding: all that ends a pair is dismount_char, so one lemma about it    *)
(* (Dismount) carries every way of falling, dying and leaving; the steps   *)
(* that move characters leave the pointers alone, and only mounting makes  *)
(* a new pair.                                                             *)

RidingInv == RidingTypeOK /\ RidesPaired

\* What a step may do to the rooms: everybody has one, and whoever is in the game
\* and is not named by out stays in it.
KeepsOthers(out) ==
  /\ rides_in' \in [RideChars -> Pastures \union {Elsewhere}]
  /\ \A x \in RideChars : RidesHere(x) /\ x # out => rides_in'[x] # Elsewhere

\* dismount_char leaves c alone, on both sides, and parts no other pair
\* (act.movement.c, dismount_char).
LEMMA Dismount ==
  ASSUME RidingInv, NEW c \in RideChars, Dismounted(c, riding, ridden_by), KeepsOthers(c)
  PROVE  /\ riding' \in [RideChars -> RideChars \union {NoMount}]
         /\ ridden_by' \in [RideChars -> RideChars \union {NoMount}]
         /\ RidesPaired'
<1> USE RidingAssumption DEF RidingInv, RidingTypeOK, RidesPaired, RidesHere
<1>1. CASE riding[c] # NoMount
  <2> DEFINE m == riding[c]
  <2>1. m \in RideChars /\ ridden_by[m] = c /\ (ridden_by[c] = NoMount \/ (ridden_by[c] = c /\ m = c))
    BY <1>1
  <2>2. /\ riding' = [riding EXCEPT ![c] = NoMount]
        /\ ridden_by' = [ridden_by EXCEPT ![m] = NoMount]
    BY <1>1, <2>1 DEF Dismounted, dismount_char
  <2>3. \A x \in RideChars : x # c => riding[x] # m
    BY <2>1
  <2> QED BY <1>1, <2>1, <2>2, <2>3 DEF KeepsOthers
<1>2. CASE riding[c] = NoMount /\ ridden_by[c] # NoMount
  <2> DEFINE r == ridden_by[c]
  <2>1. r \in RideChars /\ riding[r] = c /\ r # c
    BY <1>2
  <2>2. /\ riding' = [riding EXCEPT ![r] = NoMount]
        /\ ridden_by' = [ridden_by EXCEPT ![c] = NoMount]
    BY <1>2, <2>1 DEF Dismounted, dismount_char
  <2> QED BY <1>2, <2>1, <2>2 DEF KeepsOthers
<1>3. CASE riding[c] = NoMount /\ ridden_by[c] = NoMount
  <2>1. riding' = riding /\ ridden_by' = ridden_by
    BY <1>3 DEF Dismounted, dismount_char
  <2> QED BY <1>3, <2>1 DEF KeepsOthers
<1> QED BY <1>1, <1>2, <1>3

\* So the invariant survives whoever is taken out of the game
\* (handler.c, extract_char).
LEMMA Extraction ==
  ASSUME RidingInv, NEW c \in RideChars, ExtractRider(c), ride_down' \in BOOLEAN
  PROVE  RidingInv'
<1>1. KeepsOthers(c)
  BY DEF RidingInv, RidingTypeOK, ExtractRider, KeepsOthers, RidesHere
<1>2. Dismounted(c, riding, ridden_by) /\ tamed' \subseteq RideChars
  BY DEF RidingInv, RidingTypeOK, ExtractRider
<1> QED BY <1>1, <1>2, Dismount DEF RidingInv, RidingTypeOK, KeepsOthers

\* Falling off, and surviving it.
LEMMA Fall ==
  ASSUME RidingInv, NEW c \in RideChars, Dismounted(c, riding, ridden_by),
         UNCHANGED <<rides_in, tamed>>, ride_down' \in BOOLEAN
  PROVE  RidingInv'
<1>1. KeepsOthers(c)
  BY DEF RidingInv, RidingTypeOK, KeepsOthers, RidesHere
<1> QED BY <1>1, Dismount DEF RidingInv, RidingTypeOK, KeepsOthers

LEMMA HurtKeeps ==
  ASSUME RidingInv, NEW c \in RideChars, HurtAndThrown(c)
  PROVE  RidingInv'
<1>1. ride_down' \in BOOLEAN
  BY DEF RidingInv, RidingTypeOK, HurtAndThrown
<1> QED BY <1>1, Extraction, Fall DEF HurtAndThrown

\* Whoever goes somewhere stays in the game, and no pointer changes.
LEMMA GoingKeeps ==
  ASSUME RidingInv, UNCHANGED <<riding, ridden_by>>, tamed' \subseteq RideChars, ride_down' \in BOOLEAN,
         rides_in' \in [RideChars -> Pastures \union {Elsewhere}],
         \A x \in RideChars : RidesHere(x) => rides_in'[x] # Elsewhere
  PROVE  RidingInv'
BY RidingAssumption DEF RidingInv, RidingTypeOK, RidesPaired, RidesHere

-----------------------------------------------------------------------------
\* A move, with whatever is ridden or rides along: through a fall, into a death
\* trap, or simply away (act.movement.c, do_simple_move).
LEMMA MoveKeeps ==
  ASSUME RidingInv, NEW c \in RideChars, NEW to \in Pastures, ride_simple_move(c, to)
  PROVE  RidingInv'
<1> DEFINE p == Partner(c)
           along == IF p \in TogetherWith(c) THEN {c, p} ELSE {c}
<1>1. CASE HurtAndThrown(c)
  BY <1>1, HurtKeeps
<1>2. CASE Trapped(c, p, along, to)
  <2>1. KeepsOthers(c)
    BY <1>2, RidingAssumption DEF Trapped, KeepsOthers, RidingInv, RidingTypeOK, RidesHere
  <2>2. Dismounted(c, riding, ridden_by) /\ tamed' = tamed /\ ride_down' \in BOOLEAN
    BY <1>2 DEF Trapped
  <2> QED BY <2>1, <2>2, Dismount DEF RidingInv, RidingTypeOK, KeepsOthers
<1>3. CASE /\ rides_in' = [x \in RideChars |-> IF x \in along THEN to ELSE rides_in[x]]
           /\ UNCHANGED <<riding, ridden_by, tamed, ride_down>>
  <2>1. /\ rides_in' \in [RideChars -> Pastures \union {Elsewhere}]
        /\ \A x \in RideChars : RidesHere(x) => rides_in'[x] # Elsewhere
    BY <1>3, RidingAssumption DEF RidingInv, RidingTypeOK, RidesHere
  <2> QED BY <1>3, <2>1, GoingKeeps DEF RidingInv, RidingTypeOK
<1> QED BY <1>1, <1>2, <1>3 DEF ride_simple_move

\* Mounting pairs two who are alone, whatever god mounts whom, himself included
\* (act.movement.c, do_mount).
LEMMA MountKeeps ==
  ASSUME RidingInv, NEW c \in RideChars, NEW v \in RideChars, do_mount(c, v)
  PROVE  RidingInv'
<1>1. ride_down' \in BOOLEAN
  BY DEF RidingInv, RidingTypeOK, do_mount
<1>2. CASE ExtractRider(c)
  BY <1>1, <1>2, Extraction
<1>3. CASE mount_char(c, v) /\ UNCHANGED <<rides_in, tamed>>
  <2>1. /\ riding' \in [RideChars -> RideChars \union {NoMount}]
        /\ ridden_by' \in [RideChars -> RideChars \union {NoMount}]
    BY <1>3 DEF mount_char, RidingInv, RidingTypeOK
  <2>2. RidesPaired'
    BY <1>3, RidingAssumption DEF mount_char, do_mount, RidingInv, RidingTypeOK, RidesPaired, RidesHere
  <2> QED BY <1>1, <1>3, <2>1, <2>2 DEF RidingInv, RidingTypeOK
<1> QED BY <1>2, <1>3 DEF do_mount

LEMMA StepKeeps ==
  ASSUME RidingInv, [RidingNext]_rideVars
  PROVE  RidingInv'
<1>1. CASE UNCHANGED rideVars
  BY <1>1, RidingAssumption DEF rideVars, RidingInv, RidingTypeOK, RidesPaired, RidesHere
<1>2. CASE RidingNext
  <2>1. PICK c \in RideChars :
          \/ LeaveRiding(c) \/ do_dismount(c) \/ do_buck(c) \/ TameWearsOff(c)
          \/ \E r \in Pastures : EnterRiding(c, r) \/ Relocated(c, r) \/ ride_simple_move(c, r)
          \/ \E v \in RideChars : do_tame(c, v) \/ (c \in Riders /\ do_mount(c, v))
    BY <1>2 DEF RidingNext
  <2>2. ASSUME UNCHANGED ride_down PROVE ride_down' \in BOOLEAN
    BY <2>2 DEF RidingInv, RidingTypeOK
  <2>3. CASE LeaveRiding(c)
    BY <2>2, <2>3, Extraction DEF LeaveRiding
  <2>4. CASE do_dismount(c)
    BY <2>2, <2>4, Fall DEF do_dismount
  <2>5. CASE do_buck(c)
    <3>1. ridden_by[c] \in RideChars
      BY <2>5 DEF do_buck, RidingInv, RidingTypeOK
    <3> QED BY <2>5, <3>1, HurtKeeps DEF do_buck
  <2>6. CASE TameWearsOff(c) \/ \E v \in RideChars : do_tame(c, v)
    <3>1. UNCHANGED <<rides_in, riding, ridden_by, ride_down>> /\ tamed' \subseteq RideChars
      BY <2>6 DEF TameWearsOff, do_tame, RidingInv, RidingTypeOK
    <3> QED BY <2>2, <3>1, GoingKeeps DEF RidingInv, RidingTypeOK, RidesHere
  <2>7. CASE \E r \in Pastures : EnterRiding(c, r) \/ Relocated(c, r)
    <3>1. PICK r \in Pastures : EnterRiding(c, r) \/ Relocated(c, r)
      BY <2>7
    <3>2. rides_in' = [rides_in EXCEPT ![c] = r] /\ UNCHANGED <<riding, ridden_by, tamed, ride_down>>
      BY <3>1 DEF EnterRiding, Relocated
    <3>3. /\ rides_in' \in [RideChars -> Pastures \union {Elsewhere}]
          /\ \A x \in RideChars : RidesHere(x) => rides_in'[x] # Elsewhere
      BY <3>2, RidingAssumption DEF RidingInv, RidingTypeOK, RidesHere
    <3> QED BY <2>2, <3>2, <3>3, GoingKeeps DEF RidingInv, RidingTypeOK
  <2>8. CASE \E r \in Pastures : ride_simple_move(c, r)
    BY <2>8, MoveKeeps
  <2>9. CASE \E v \in RideChars : do_mount(c, v)
    BY <2>9, MountKeeps
  <2> QED BY <2>1, <2>3, <2>4, <2>5, <2>6, <2>7, <2>8, <2>9
<1> QED BY <1>1, <1>2

LEMMA RidingAlwaysInv == RidingSpec => []RidingInv
<1>1. RidingInit => RidingInv
  BY RidingAssumption DEF RidingInit, RidingInv, RidingTypeOK, RidesPaired
<1>2. RidingInv /\ [RidingNext]_rideVars => RidingInv'
  BY StepKeeps
<1> QED BY <1>1, <1>2, PTL DEF RidingSpec

\* However many players and mounts move, mount, fall, die, quit and are purged or
\* teleported in whatever order: rider and mount know each other and are both in
\* the game (act.movement.c, do_mount, dismount_char; handler.c, extract_char).
THEOREM RidersAlwaysPaired == RidingSpec => []RidesPaired
<1>1. RidingInv => RidesPaired
  BY DEF RidingInv
<1> QED BY <1>1, RidingAlwaysInv, PTL

\* The pointers, rooms and flags keep their types.
THEOREM RidingAlwaysTyped == RidingSpec => []RidingTypeOK
<1>1. RidingInv => RidingTypeOK
  BY DEF RidingInv
<1> QED BY <1>1, RidingAlwaysInv, PTL

-----------------------------------------------------------------------------
(* Zones: resets, doors and the editor of rooms.                           *)

(* Folds over the numbers from 1 to n, the greatest last.                  *)
Folded(n, base, G, h, s) == IF s = {} THEN base ELSE G[<<Max(s), h[s \ {Max(s)}]>>]
FoldsUp(n, base, G, h) == \A s \in SUBSET (1..n) : h[s] = Folded(n, base, G, h, s)

LEMMA MaxLast ==
    ASSUME NEW n \in Nat, NEW s \in SUBSET (1..(n + 1)), n + 1 \in s
    PROVE  Max(s) = n + 1
<1>1. n + 1 \in s /\ \A y \in s : n + 1 >= y
  OBVIOUS
<1>2. \A x \in s : (\A y \in s : x >= y) => x = n + 1
  OBVIOUS
<1>3. QED
  BY <1>1, <1>2 DEF Max

LEMMA MaxIn ==
    ASSUME NEW n \in Nat, NEW s \in SUBSET (1..n), s # {}
    PROVE  Max(s) \in s
<1> DEFINE P == {m \in Nat : \A t \in SUBSET (1..m) : t # {} => Max(t) \in t}
<1>1. 0 \in P
  <2>1. \A t \in SUBSET (1..0) : t = {}
    OBVIOUS
  <2>2. QED
    BY <2>1
<1>2. ASSUME NEW m \in P PROVE m + 1 \in P
  <2>1. ASSUME NEW t \in SUBSET (1..(m + 1)), t # {} PROVE Max(t) \in t
    <3>1. CASE m + 1 \in t
      BY <3>1, MaxLast
    <3>2. CASE m + 1 \notin t
      <4>1. t \in SUBSET (1..m)
        BY <3>2
      <4>2. QED
        BY <2>1, <4>1
    <3>3. QED
      BY <3>1, <3>2
  <2>2. QED
    BY <2>1
<1>3. P = Nat
  <2> HIDE DEF P
  <2>1. P \in SUBSET Nat
    BY DEF P
  <2>2. QED
    BY <1>1, <1>2, <2>1, NatSetInduction
<1>4. QED
  BY <1>3

LEMMA FoldExists ==
    ASSUME NEW n \in Nat, NEW V, NEW base \in V, NEW G \in [(1..n) \X V -> V]
    PROVE  \E h : FoldsUp(n, base, G, h) /\ \A s \in SUBSET (1..n) : h[s] \in V
<1> DEFINE To(m, h) == FoldsUp(m, base, G, h) /\ \A s \in SUBSET (1..m) : h[s] \in V
           P == {m \in Nat : m <= n => \E h : To(m, h)}
           Next(m, h) == [s \in SUBSET (1..(m + 1)) |->
                            IF m + 1 \in s THEN G[<<m + 1, h[s \ {m + 1}]>>] ELSE h[s]]
<1>1. 0 \in P
  <2>1. To(0, [s \in SUBSET (1..0) |-> base])
    <3>1. \A s \in SUBSET (1..0) : s = {}
      OBVIOUS
    <3>2. QED
      BY <3>1 DEF FoldsUp, Folded
  <2> HIDE DEF To
  <2>2. QED
    BY <2>1
<1>2. ASSUME NEW m \in Nat, m + 1 <= n, NEW h, To(m, h) PROVE To(m + 1, Next(m, h))
  <2> DEFINE k == Next(m, h)
  <2>0. m + 1 \in 1..n /\ m <= n
    BY <1>2
  <2>1. ASSUME NEW s \in SUBSET (1..(m + 1)), m + 1 \in s
        PROVE  k[s] = Folded(m + 1, base, G, k, s) /\ k[s] \in V
    <3>1. s \ {m + 1} \in SUBSET (1..m) /\ s \ {m + 1} \in SUBSET (1..(m + 1)) /\ m + 1 \notin s \ {m + 1}
      OBVIOUS
    <3>2. k[s \ {m + 1}] = h[s \ {m + 1}] /\ k[s] = G[<<m + 1, h[s \ {m + 1}]>>]
      BY <2>1, <3>1
    <3>3. h[s \ {m + 1}] \in V
      BY <1>2, <3>1
    <3>4. Max(s) = m + 1
      BY <2>1, MaxLast
    <3> HIDE DEF Next
    <3>5. k[s] \in V
      BY <2>0, <3>2, <3>3
    <3>6. QED
      BY <2>1, <3>2, <3>4, <3>5 DEF Folded
  <2>2. ASSUME NEW s \in SUBSET (1..(m + 1)), m + 1 \notin s
        PROVE  k[s] = Folded(m + 1, base, G, k, s) /\ k[s] \in V
    <3>1. s \in SUBSET (1..m)
      BY <2>2
    <3>2. k[s] = h[s]
      BY <2>2
    <3>3. h[s] \in V /\ h[s] = Folded(m, base, G, h, s)
      BY <1>2, <3>1 DEF FoldsUp
    <3>4. s # {} => k[s \ {Max(s)}] = h[s \ {Max(s)}]
      BY <2>2
    <3> HIDE DEF Next
    <3>5. QED
      BY <3>2, <3>3, <3>4 DEF Folded
  <2>3. QED
    BY <2>1, <2>2 DEF FoldsUp
<1>3. ASSUME NEW m \in P PROVE m + 1 \in P
  <2> HIDE DEF To, Next
  <2>1. m \in Nat /\ (m + 1 <= n => m <= n)
    OBVIOUS
  <2>2. QED
    BY <1>2, <2>1
<1>4. P = Nat
  <2> HIDE DEF P
  <2>1. P \in SUBSET Nat
    BY DEF P
  <2>2. QED
    BY <1>1, <1>3, <2>1, NatSetInduction
<1>5. QED
  BY <1>4

(* Such a fold goes through the numbers in order.                          *)
LEMMA FoldInOrder ==
    ASSUME NEW n \in Nat, NEW V, NEW base \in V, NEW G \in [(1..n) \X V -> V],
           NEW h, FoldsUp(n, base, G, h)
    PROVE  /\ h[1..0] = base
           /\ \A i \in 1..n : h[1..i] = G[<<i, h[1..(i - 1)]>>]
<1>1. h[1..0] = base
  <2>1. 1..0 = {} /\ 1..0 \in SUBSET (1..n)
    OBVIOUS
  <2>2. QED
    BY <2>1 DEF FoldsUp, Folded
<1>2. ASSUME NEW i \in 1..n PROVE h[1..i] = G[<<i, h[1..(i - 1)]>>]
  <2>1. i - 1 \in Nat /\ (i - 1) + 1 = i /\ i \in 1..i /\ 1..i \in SUBSET (1..n) /\ 1..i # {}
    OBVIOUS
  <2>2. Max(1..i) = i
    <3> DEFINE m == i - 1
    <3>1. m \in Nat /\ m + 1 = i
      BY <2>1
    <3> HIDE DEF m
    <3>2. QED
      BY <2>1, <3>1, MaxLast
  <2>3. (1..i) \ {i} = 1..(i - 1)
    OBVIOUS
  <2>4. QED
    BY <2>1, <2>2, <2>3 DEF FoldsUp, Folded
<1>3. QED
  BY <1>1, <1>2

(* What a reset does with the doors and with last_cmd.                     *)
ZoneDoor == [closed : BOOLEAN, locked : BOOLEAN]
DoorsAre == [DOMAIN Exits -> ZoneDoor]
Populations == [Kinds \X (WorldRooms \union {Held}) -> Nat]
ResetStates == [doors : DoorsAre, pop : Populations, last : BOOLEAN, mob : BOOLEAN]
GoodCmd(c) == c.command \in {"M", "O", "P", "G", "E", "R", "D"}
DoorsAfter(c, st) ==
  IF SetsDoor(c) /\ ~(c.if_flag /\ ~st.last)
  THEN [st.doors EXCEPT ![<<c.arg1, c.arg2>>] = DoorState(c.arg3)] ELSE st.doors

LEMMA DoorStates ==
    ASSUME NEW n \in 0..2
    PROVE  DoorState(n) \in ZoneDoor
<1>1. n = 0 \/ n = 1 \/ n = 2
  OBVIOUS
<1>2. CASE n = 0
  BY <1>2 DEF DoorState, Open, ZoneDoor
<1>3. CASE n = 1
  BY <1>3 DEF DoorState, ZoneDoor
<1>4. CASE n = 2
  BY <1>4 DEF DoorState, ZoneDoor
<1>5. QED
  BY <1>1, <1>2, <1>3, <1>4

LEMMA PutTyped ==
    ASSUME NEW X, NEW V, NEW f \in [X -> V], NEW x, NEW v, x \in X => v \in V
    PROVE  [f EXCEPT ![x] = v] \in [X -> V]
OBVIOUS

LEMMA LoadedTyped ==
    ASSUME NEW st \in ResetStates, NEW c, NEW place
    PROVE  /\ Loaded(st, c, place) \in ResetStates /\ Loaded(st, c, place).doors = st.doors
           /\ RefusedCmd(st) \in ResetStates /\ RefusedCmd(st).doors = st.doors
<1> DEFINE pop == [st.pop EXCEPT ![<<c.arg1, place>>] = @ + 1]
<1>1. pop \in Populations
  <2> DEFINE X == Kinds \X (WorldRooms \union {Held})
             x == <<c.arg1, place>>
             f == st.pop
             v == f[x] + 1
  <2>1. f \in [X -> Nat]
    BY DEF ResetStates, Populations
  <2> HIDE DEF X, x, f
  <2>2. x \in X => v \in Nat
    BY <2>1
  <2> HIDE DEF v
  <2>3. [f EXCEPT ![x] = v] \in [X -> Nat]
    BY <2>1, <2>2, PutTyped
  <2>4. QED
    BY <2>3 DEF X, x, f, v, Populations
<1>2. Loaded(st, c, place) = [st EXCEPT !.pop = pop, !.last = TRUE]
  BY DEF Loaded, ResetStates
<1> HIDE DEF pop
<1>3. QED
  BY <1>1, <1>2 DEF RefusedCmd, ResetStates

LEMMA CmdTyped ==
    ASSUME NEW st \in ResetStates, NEW c, GoodCmd(c)
    PROVE  /\ ResetCmd(c, st) \in ResetStates /\ ResetCmd(c, st).doors = DoorsAfter(c, st)
           /\ Succeeds(c) => ResetCmd(c, st).last
<1> DEFINE n == ResetCmd(c, st)
           room == PopulationOf(st.pop, c.arg1) < c.arg2
<1> HIDE DEF room
<1>1. CASE c.if_flag /\ ~st.last
  BY <1>1 DEF ResetCmd, DoorsAfter, Succeeds
<1>2. CASE ~(c.if_flag /\ ~st.last) /\ c.command = "M"
  <2>1. n = IF room THEN [Loaded(st, c, c.arg3) EXCEPT !.mob = TRUE] ELSE RefusedCmd(st)
    BY <1>2 DEF ResetCmd, room
  <2> DEFINE l == Loaded(st, c, c.arg3)
  <2>2. l \in ResetStates /\ l.doors = st.doors /\ RefusedCmd(st) \in ResetStates /\ RefusedCmd(st).doors = st.doors
    BY LoadedTyped
  <2> HIDE DEF l
  <2>3. [l EXCEPT !.mob = TRUE] \in ResetStates /\ [l EXCEPT !.mob = TRUE].doors = st.doors
    BY <2>2 DEF ResetStates
  <2>4. n = IF room THEN [l EXCEPT !.mob = TRUE] ELSE RefusedCmd(st)
    BY <2>1 DEF l
  <2> HIDE DEF n
  <2>5. n \in ResetStates /\ n.doors = st.doors
    BY <2>2, <2>3, <2>4
  <2>6. QED
    BY <1>2, <2>5 DEF DoorsAfter, SetsDoor, Succeeds, n
<1>3. CASE ~(c.if_flag /\ ~st.last) /\ c.command = "O"
  <2>1. n = IF room THEN Loaded(st, c, c.arg3) ELSE RefusedCmd(st)
    BY <1>3 DEF ResetCmd, room
  <2> HIDE DEF n
  <2>2. n \in ResetStates /\ n.doors = st.doors
    BY <2>1, LoadedTyped
  <2>3. QED
    BY <1>3, <2>2 DEF DoorsAfter, SetsDoor, Succeeds, n
<1>4. CASE ~(c.if_flag /\ ~st.last) /\ c.command = "P"
  <2> DEFINE l == Loaded(st, c, Held)
             t == PopulationOf(st.pop, c.arg3) > 0
  <2>1. n = IF ~room THEN RefusedCmd(st) ELSE [l EXCEPT !.last = t]
    BY <1>4 DEF ResetCmd, room
  <2>2. l \in ResetStates /\ l.doors = st.doors /\ RefusedCmd(st) \in ResetStates /\ RefusedCmd(st).doors = st.doors
    BY LoadedTyped
  <2>3. t \in BOOLEAN
    OBVIOUS
  <2> HIDE DEF l, t, n
  <2>4. [l EXCEPT !.last = t] \in ResetStates /\ [l EXCEPT !.last = t].doors = st.doors
    BY <2>2, <2>3 DEF ResetStates
  <2>5. n \in ResetStates /\ n.doors = st.doors
    BY <2>1, <2>2, <2>4
  <2>6. QED
    BY <1>4, <2>5 DEF DoorsAfter, SetsDoor, Succeeds, n
<1>5. CASE ~(c.if_flag /\ ~st.last) /\ c.command \in {"G", "E"}
  <2>1. n = IF st.mob /\ room THEN Loaded(st, c, Held) ELSE RefusedCmd(st)
    BY <1>5 DEF ResetCmd, room
  <2> HIDE DEF n
  <2>2. n \in ResetStates /\ n.doors = st.doors
    BY <2>1, LoadedTyped
  <2>3. QED
    BY <1>5, <2>2 DEF DoorsAfter, SetsDoor, Succeeds, n
<1>6. CASE ~(c.if_flag /\ ~st.last) /\ c.command = "R"
  <2> DEFINE x == <<c.arg2, c.arg1>>
             pop == [st.pop EXCEPT ![x] = IF @ > 0 THEN @ - 1 ELSE 0]
  <2>1. pop \in Populations
    <3> DEFINE X == Kinds \X (WorldRooms \union {Held})
               f == st.pop
               v == IF f[x] > 0 THEN f[x] - 1 ELSE 0
    <3>1. f \in [X -> Nat]
      BY DEF ResetStates, Populations
    <3> HIDE DEF X, x, f
    <3>2. x \in X => v \in Nat
      BY <3>1
    <3> HIDE DEF v
    <3>3. [f EXCEPT ![x] = v] \in [X -> Nat]
      BY <3>1, <3>2, PutTyped
    <3>4. QED
      BY <3>3 DEF X, x, f, v, Populations
  <2>2. n = [st EXCEPT !.last = TRUE, !.pop = pop]
    BY <1>6 DEF ResetCmd, ResetStates
  <2> HIDE DEF n, pop
  <2>3. n \in ResetStates /\ n.doors = st.doors /\ n.last
    BY <2>1, <2>2 DEF ResetStates
  <2>4. QED
    BY <1>6, <2>3 DEF DoorsAfter, SetsDoor, n
<1>7. CASE ~(c.if_flag /\ ~st.last) /\ c.command = "D"
  <2> DEFINE x == <<c.arg1, c.arg2>>
             v == DoorState(c.arg3)
             d == IF SetsDoor(c) THEN [st.doors EXCEPT ![x] = v] ELSE st.doors
  <2>1. SetsDoor(c) => v \in ZoneDoor
    BY DoorStates DEF SetsDoor
  <2> HIDE DEF v, x
  <2>2. d \in DoorsAre
    BY <2>1 DEF ResetStates, DoorsAre
  <2>3. n = [st EXCEPT !.last = TRUE, !.doors = d]
    BY <1>7 DEF ResetCmd, ResetStates, v, x
  <2>4. d = DoorsAfter(c, st)
    BY <1>7 DEF DoorsAfter, v, x
  <2> HIDE DEF n, d
  <2>5. n \in ResetStates /\ n.doors = d /\ n.last
    BY <2>2, <2>3 DEF ResetStates
  <2>6. QED
    BY <2>4, <2>5 DEF n
<1>8. QED
  BY <1>1, <1>2, <1>3, <1>4, <1>5, <1>6, <1>7 DEF GoodCmd

LEMMA UpTo ==
    ASSUME NEW n \in Nat, NEW i \in 1..n
    PROVE  /\ Max(1..i) = i /\ (1..i) \ {i} = 1..(i - 1) /\ 1..i # {}
           /\ 1..i \in SUBSET (1..n) /\ 1..(i - 1) \in SUBSET (1..n)
<1>1. i - 1 \in Nat /\ (i - 1) + 1 = i /\ i \in 1..i /\ 1..i \in SUBSET (1..n)
  OBVIOUS
<1>2. Max(1..i) = i
  <2> DEFINE m == i - 1
  <2>1. m \in Nat /\ m + 1 = i
    BY <1>1
  <2> HIDE DEF m
  <2>2. QED
    BY <1>1, <2>1, MaxLast
<1>3. QED
  BY <1>1, <1>2

LEMMA StaysIn ==
    ASSUME NEW n \in Nat, NEW V, NEW g, g[0] \in V,
           \A i \in 1..n : g[i - 1] \in V => g[i] \in V
    PROVE  \A i \in 0..n : g[i] \in V
<1> DEFINE P == {i \in Nat : i <= n => g[i] \in V}
<1>1. 0 \in P
  OBVIOUS
<1>2. ASSUME NEW i \in P PROVE i + 1 \in P
  <2>1. i \in Nat /\ (i + 1) - 1 = i /\ (i + 1 <= n => i + 1 \in 1..n /\ i <= n)
    OBVIOUS
  <2>2. QED
    BY <2>1
<1>3. P = Nat
  <2> HIDE DEF P
  <2>1. P \in SUBSET Nat
    BY DEF P
  <2>2. QED
    BY <1>1, <1>2, <2>1, NatSetInduction
<1>4. QED
  BY <1>3

(* The commands of a zone are done one after the other.                    *)
ResetBegins(st) == [st EXCEPT !.last = FALSE, !.mob = FALSE]
CmdFold(orders, base, h, s) == IF s = {} THEN base ELSE ResetCmd(orders[Max(s)], h[s \ {Max(s)}])
Runs(n, base, orders, g) == g[0] = base /\ \A i \in 1..n : g[i] = ResetCmd(orders[i], g[i - 1])

LEMMA ResetIs ==
    ASSUME NEW z, NEW st
    PROVE  reset_zone(z, st) =
             (CHOOSE h : h = [s \in SUBSET DOMAIN ResetCmds[z] |->
                                CmdFold(ResetCmds[z], ResetBegins(st), h, s)])[DOMAIN ResetCmds[z]]
BY Zenon DEF reset_zone, FoldLeft, MapThenFoldSet, CmdFold, ResetBegins

LEMMA ResetRuns ==
    ASSUME NEW z \in ZoneNumbers, NEW st \in ResetStates
    PROVE  \E g : /\ Runs(Len(ResetCmds[z]), ResetBegins(st), ResetCmds[z], g)
                  /\ \A i \in 0..Len(ResetCmds[z]) : g[i] \in ResetStates
                  /\ reset_zone(z, st) = g[Len(ResetCmds[z])]
<1> DEFINE orders == ResetCmds[z]
           n == Len(orders)
           V == ResetStates
           base == ResetBegins(st)
           G == [x \in (1..n) \X V |-> ResetCmd(orders[x[1]], x[2])]
           h == CHOOSE h : h = [s \in SUBSET (1..n) |-> CmdFold(orders, base, h, s)]
<1>1. n \in Nat /\ DOMAIN orders = 1..n /\ \A i \in 1..n : GoodCmd(orders[i])
  BY ZonesAssumption DEF GoodCmd
<1>2. base \in V
  BY DEF ResetBegins, ResetStates
<1>3. reset_zone(z, st) = h[1..n]
  BY <1>1, ResetIs
<1> HIDE DEF orders, n, V, base
<1>4. \A i \in 1..n : \A v \in V : ResetCmd(orders[i], v) \in V
  BY <1>1, CmdTyped DEF V
<1>5. G \in [(1..n) \X V -> V]
  BY <1>4
<1>6. h = [s \in SUBSET (1..n) |-> CmdFold(orders, base, h, s)]
  <2> HIDE DEF G
  <2>1. PICK k : FoldsUp(n, base, G, k) /\ \A s \in SUBSET (1..n) : k[s] \in V
    BY <1>1, <1>2, <1>5, FoldExists
  <2>2. ASSUME NEW s \in SUBSET (1..n) PROVE k[s] = CmdFold(orders, base, k, s)
    <3>1. s # {} => Max(s) \in 1..n /\ s \ {Max(s)} \in SUBSET (1..n)
      BY <1>1, MaxIn
    <3>2. k[s] = Folded(n, base, G, k, s)
      BY <2>1 DEF FoldsUp
    <3>3. CASE s = {}
      BY <3>2, <3>3 DEF Folded, CmdFold
    <3>4. CASE s # {}
      <4> DEFINE m == Max(s)
                 v == k[s \ {m}]
      <4>1. m \in 1..n /\ v \in V
        BY <2>1, <3>1, <3>4
      <4>2. k[s] = G[<<m, v>>]
        BY <3>2, <3>4 DEF Folded
      <4> HIDE DEF m, v
      <4>3. G[<<m, v>>] = ResetCmd(orders[m], v)
        BY <4>1 DEF G
      <4>4. QED
        BY <3>4, <4>2, <4>3 DEF CmdFold, m, v
    <3>5. QED
      BY <3>3, <3>4
  <2> DEFINE f == [s \in SUBSET (1..n) |-> k[s]]
  <2>3. ASSUME NEW s \in SUBSET (1..n) PROVE f[s] = CmdFold(orders, base, f, s)
    <3>1. s \ {Max(s)} \in SUBSET (1..n)
      OBVIOUS
    <3>2. QED
      BY <2>2, <3>1 DEF CmdFold
  <2>4. f = [s \in SUBSET (1..n) |-> f[s]]
    OBVIOUS
  <2> HIDE DEF f
  <2>5. f = [s \in SUBSET (1..n) |-> CmdFold(orders, base, f, s)]
    BY <2>3, <2>4
  <2>6. QED
    BY <2>5
<1> HIDE DEF h, G
<1> DEFINE g == [i \in 0..n |-> h[1..i]]
<1>7. ASSUME NEW i \in 1..n PROVE g[i] = ResetCmd(orders[i], g[i - 1])
  <2>1. i \in 0..n /\ i - 1 \in 0..n
    BY <1>1
  <2>2. h[1..i] = CmdFold(orders, base, h, 1..i)
    BY <1>1, <1>6, UpTo
  <2>3. h[1..i] = ResetCmd(orders[i], h[1..(i - 1)])
    BY <1>1, <2>2, UpTo DEF CmdFold
  <2>4. QED
    BY <2>1, <2>3
<1>8. g[0] = base /\ g[n] = h[1..n]
  <2>1. 0 \in 0..n /\ n \in 0..n /\ 1..0 = {} /\ 1..0 \in SUBSET (1..n)
    BY <1>1
  <2>2. h[1..0] = CmdFold(orders, base, h, 1..0)
    BY <1>6, <2>1
  <2>3. QED
    BY <2>1, <2>2 DEF CmdFold
<1> HIDE DEF g
<1>9. \A i \in 0..n : g[i] \in V
  <2>1. \A i \in 1..n : g[i - 1] \in V => g[i] \in V
    BY <1>4, <1>7
  <2>2. QED
    BY <1>1, <1>2, <1>8, <2>1, StaysIn
<1>10. Runs(n, base, orders, g)
  BY <1>7, <1>8 DEF Runs
<1>11. QED
  BY <1>3, <1>8, <1>9, <1>10 DEF V, n, orders, base

(* boot_db and "zreset *" go through all zones in this way.                *)
ZoneFold(base, h, s) == IF s = {} THEN base ELSE reset_zone(ZoneOrder[Max(s)], h[s \ {Max(s)}])

LEMMA WorldIs ==
    ASSUME NEW st
    PROVE  ResetWorld(st) = (CHOOSE h : h = [s \in SUBSET DOMAIN ZoneOrder |-> ZoneFold(st, h, s)])[DOMAIN ZoneOrder]
BY Zenon DEF ResetWorld, FoldLeft, MapThenFoldSet, ZoneFold

LEMMA ResetTyped ==
    ASSUME NEW z \in ZoneNumbers, NEW st \in ResetStates
    PROVE  reset_zone(z, st) \in ResetStates
<1>1. Len(ResetCmds[z]) \in 0..Len(ResetCmds[z])
  BY ZonesAssumption
<1>2. QED
  BY <1>1, ResetRuns

LEMMA WorldRuns ==
    ASSUME NEW st \in ResetStates
    PROVE  \E g : /\ g[0] = st /\ ResetWorld(st) = g[Cardinality(ZoneNumbers)]
                  /\ \A z \in ZoneNumbers : z - 1 \in 0..Cardinality(ZoneNumbers) /\ g[z] = reset_zone(z, g[z - 1])
                  /\ \A i \in 0..Cardinality(ZoneNumbers) : g[i] \in ResetStates
<1> DEFINE n == Cardinality(ZoneNumbers)
           V == ResetStates
           G == [x \in (1..n) \X V |-> reset_zone(x[1], x[2])]
           h == CHOOSE h : h = [s \in SUBSET (1..n) |-> ZoneFold(st, h, s)]
<1>1. n \in Nat /\ ZoneNumbers = 1..n /\ DOMAIN ZoneOrder = 1..n /\ \A i \in 1..n : ZoneOrder[i] = i
  BY ZonesAssumption, FS_CardinalityType DEF ZoneOrder
<1>2. st \in V
  OBVIOUS
<1>3. ResetWorld(st) = h[1..n]
  BY <1>1, WorldIs
<1> HIDE DEF n, V
<1>4. \A i \in 1..n : \A v \in V : reset_zone(i, v) \in V
  BY <1>1, ResetTyped DEF V
<1>5. G \in [(1..n) \X V -> V]
  BY <1>4
<1>6. h = [s \in SUBSET (1..n) |-> ZoneFold(st, h, s)]
  <2> HIDE DEF G
  <2>1. PICK k : FoldsUp(n, st, G, k) /\ \A s \in SUBSET (1..n) : k[s] \in V
    BY <1>1, <1>2, <1>5, FoldExists
  <2>2. ASSUME NEW s \in SUBSET (1..n) PROVE k[s] = ZoneFold(st, k, s)
    <3>1. s # {} => Max(s) \in 1..n /\ s \ {Max(s)} \in SUBSET (1..n)
      BY <1>1, MaxIn
    <3>2. k[s] = Folded(n, st, G, k, s)
      BY <2>1 DEF FoldsUp
    <3>3. CASE s = {}
      BY <3>2, <3>3 DEF Folded, ZoneFold
    <3>4. CASE s # {}
      <4> DEFINE m == Max(s)
                 v == k[s \ {m}]
      <4>1. m \in 1..n /\ v \in V
        BY <2>1, <3>1, <3>4
      <4>2. k[s] = G[<<m, v>>]
        BY <3>2, <3>4 DEF Folded
      <4> HIDE DEF m, v
      <4>3. G[<<m, v>>] = reset_zone(ZoneOrder[m], v)
        BY <1>1, <4>1 DEF G
      <4>4. QED
        BY <3>4, <4>2, <4>3 DEF ZoneFold, m, v
    <3>5. QED
      BY <3>3, <3>4
  <2> DEFINE f == [s \in SUBSET (1..n) |-> k[s]]
  <2>3. ASSUME NEW s \in SUBSET (1..n) PROVE f[s] = ZoneFold(st, f, s)
    <3>1. s \ {Max(s)} \in SUBSET (1..n)
      OBVIOUS
    <3>2. QED
      BY <2>2, <3>1 DEF ZoneFold
  <2>4. f = [s \in SUBSET (1..n) |-> f[s]]
    OBVIOUS
  <2> HIDE DEF f
  <2>5. f = [s \in SUBSET (1..n) |-> ZoneFold(st, f, s)]
    BY <2>3, <2>4
  <2>6. QED
    BY <2>5
<1> HIDE DEF h, G
<1> DEFINE g == [i \in 0..n |-> h[1..i]]
<1>7. ASSUME NEW i \in 1..n PROVE i - 1 \in 0..n /\ g[i] = reset_zone(i, g[i - 1])
  <2>1. i \in 0..n /\ i - 1 \in 0..n
    BY <1>1
  <2>2. h[1..i] = ZoneFold(st, h, 1..i)
    BY <1>1, <1>6, UpTo
  <2>3. h[1..i] = reset_zone(i, h[1..(i - 1)])
    BY <1>1, <2>2, UpTo DEF ZoneFold
  <2>4. QED
    BY <2>1, <2>3
<1>8. g[0] = st /\ g[n] = h[1..n]
  <2>1. 0 \in 0..n /\ n \in 0..n /\ 1..0 = {} /\ 1..0 \in SUBSET (1..n)
    BY <1>1
  <2>2. h[1..0] = ZoneFold(st, h, 1..0)
    BY <1>6, <2>1
  <2>3. QED
    BY <2>1, <2>2 DEF ZoneFold
<1> HIDE DEF g
<1>9. \A i \in 0..n : g[i] \in V
  <2>1. \A i \in 1..n : g[i - 1] \in V => g[i] \in V
    BY <1>4, <1>7
  <2>2. QED
    BY <1>1, <1>2, <1>8, <2>1, StaysIn
<1>10. QED
  BY <1>1, <1>3, <1>7, <1>8, <1>9 DEF V, n

(* A zone's queue entry is made while its age is looked at.                *)
QueueFold(age, h, s) ==
  IF s = {} THEN reset_q
  ELSE IF IsDue(ZoneOrder[Max(s)], age) THEN Append(h[s \ {Max(s)}], ZoneOrder[Max(s)]) ELSE h[s \ {Max(s)}]

LEMMA QueuedIs ==
    ASSUME NEW age
    PROVE  Queued(age) = (CHOOSE h : h = [s \in SUBSET DOMAIN ZoneOrder |-> QueueFold(age, h, s)])[DOMAIN ZoneOrder]
BY Zenon DEF Queued, FoldLeft, MapThenFoldSet, QueueFold

LEMMA QueueRuns ==
    ASSUME NEW age, reset_q \in Seq(ZoneNumbers)
    PROVE  \E g : /\ g[0] = reset_q /\ Queued(age) = g[Cardinality(ZoneNumbers)]
                  /\ \A z \in ZoneNumbers : g[z] = IF IsDue(z, age) THEN Append(g[z - 1], z) ELSE g[z - 1]
                  /\ \A i \in 0..Cardinality(ZoneNumbers) : g[i] \in Seq(ZoneNumbers)
<1> DEFINE n == Cardinality(ZoneNumbers)
           V == Seq(ZoneNumbers)
           due == {i \in ZoneNumbers : IsDue(i, age)}
           N(i, v) == IF i \in due THEN Append(v, i) ELSE v
           G == [x \in (1..n) \X V |-> N(x[1], x[2])]
           F(h, s) == IF s = {} THEN reset_q ELSE N(Max(s), h[s \ {Max(s)}])
           h == CHOOSE h : h = [s \in SUBSET (1..n) |-> QueueFold(age, h, s)]
<1>1. n \in Nat /\ ZoneNumbers = 1..n /\ DOMAIN ZoneOrder = 1..n /\ \A i \in 1..n : ZoneOrder[i] = i
  BY ZonesAssumption, FS_CardinalityType DEF ZoneOrder
<1>2. reset_q \in V
  OBVIOUS
<1>3. Queued(age) = h[1..n]
  BY <1>1, QueuedIs
<1>4. \A i \in 1..n : \A v \in V : N(i, v) \in V
  BY <1>1
<1> HIDE DEF n, V
<1>5. G \in [(1..n) \X V -> V]
  BY <1>4
<1>6. ASSUME NEW s \in SUBSET (1..n), NEW k PROVE QueueFold(age, k, s) = F(k, s)
  <2>1. s # {} => Max(s) \in 1..n
    BY <1>1, MaxIn
  <2>2. QED
    BY <1>1, <2>1 DEF QueueFold
<1> HIDE DEF N
<1>7. h = [s \in SUBSET (1..n) |-> QueueFold(age, h, s)]
  <2> HIDE DEF G
  <2>1. PICK k : FoldsUp(n, reset_q, G, k) /\ \A s \in SUBSET (1..n) : k[s] \in V
    BY <1>1, <1>2, <1>5, FoldExists
  <2>2. ASSUME NEW s \in SUBSET (1..n) PROVE k[s] = F(k, s)
    <3>1. s # {} => Max(s) \in 1..n /\ s \ {Max(s)} \in SUBSET (1..n)
      BY <1>1, MaxIn
    <3>2. k[s] = Folded(n, reset_q, G, k, s)
      BY <2>1 DEF FoldsUp
    <3>3. CASE s = {}
      BY <3>2, <3>3 DEF Folded
    <3>4. CASE s # {}
      <4> DEFINE m == Max(s)
                 v == k[s \ {m}]
      <4>1. m \in 1..n /\ v \in V
        BY <2>1, <3>1, <3>4
      <4>2. k[s] = G[<<m, v>>]
        BY <3>2, <3>4 DEF Folded
      <4> HIDE DEF m, v
      <4>3. G[<<m, v>>] = N(m, v)
        BY <4>1 DEF G
      <4>4. QED
        BY <3>4, <4>2, <4>3 DEF m, v
    <3>5. QED
      BY <3>3, <3>4
  <2> DEFINE f == [s \in SUBSET (1..n) |-> k[s]]
  <2>3. ASSUME NEW s \in SUBSET (1..n) PROVE f[s] = QueueFold(age, f, s)
    <3>1. s \ {Max(s)} \in SUBSET (1..n)
      OBVIOUS
    <3>2. f[s] = k[s] /\ f[s \ {Max(s)}] = k[s \ {Max(s)}]
      BY <3>1
    <3> HIDE DEF f
    <3>3. f[s] = F(f, s)
      BY <2>2, <3>2
    <3>4. QED
      BY <1>6, <3>3
  <2>4. f = [s \in SUBSET (1..n) |-> f[s]]
    OBVIOUS
  <2> HIDE DEF f
  <2>5. f = [s \in SUBSET (1..n) |-> QueueFold(age, f, s)]
    BY <2>3, <2>4
  <2>6. QED
    BY <2>5
<1> HIDE DEF h, G
<1> DEFINE g == [i \in 0..n |-> h[1..i]]
<1>8. ASSUME NEW i \in 1..n PROVE g[i] = N(i, g[i - 1])
  <2>1. i \in 0..n /\ i - 1 \in 0..n
    BY <1>1
  <2>2. h[1..i] = F(h, 1..i)
    BY <1>1, <1>6, <1>7, UpTo
  <2>3. h[1..i] = N(i, h[1..(i - 1)])
    BY <1>1, <2>2, UpTo
  <2>4. QED
    BY <2>1, <2>3
<1>9. g[0] = reset_q /\ g[n] = h[1..n]
  <2>1. 0 \in 0..n /\ n \in 0..n /\ 1..0 = {} /\ 1..0 \in SUBSET (1..n)
    BY <1>1
  <2>2. h[1..0] = F(h, 1..0)
    BY <1>6, <1>7, <2>1
  <2>3. QED
    BY <2>1, <2>2
<1> HIDE DEF g
<1>10. \A i \in 0..n : g[i] \in V
  <2>1. \A i \in 1..n : g[i - 1] \in V => g[i] \in V
    BY <1>4, <1>8
  <2>2. QED
    BY <1>1, <1>2, <1>9, <2>1, StaysIn
<1>11. QED
  BY <1>1, <1>3, <1>8, <1>9, <1>10 DEF V, n, N

InQueue(q, z) == \E i \in DOMAIN q : q[i] = z

LEMMA AppendQueues ==
    ASSUME NEW S, NEW q \in Seq(S), NEW z \in S, NEW y, InQueue(q, y) \/ y = z
    PROVE  InQueue(Append(q, z), y)
<1>1. /\ DOMAIN q = 1..Len(q) /\ Len(q) \in Nat /\ DOMAIN Append(q, z) = 1..(Len(q) + 1)
      /\ Append(q, z)[Len(q) + 1] = z /\ \A i \in 1..Len(q) : Append(q, z)[i] = q[i]
  BY LenProperties, AppendProperties
<1>2. CASE InQueue(q, y)
  BY <1>1, <1>2 DEF InQueue
<1>3. CASE y = z
  BY <1>1, <1>3 DEF InQueue
<1>4. QED
  BY <1>2, <1>3

LEMMA QueuedHolds ==
    ASSUME NEW age, reset_q \in Seq(ZoneNumbers)
    PROVE  /\ Queued(age) \in Seq(ZoneNumbers)
           /\ \A z \in ZoneNumbers : InQueue(reset_q, z) \/ IsDue(z, age) => InQueue(Queued(age), z)
<1> DEFINE n == Cardinality(ZoneNumbers)
           Waits(i, z) == InQueue(reset_q, z) \/ (IsDue(z, age) /\ z <= i)
<1>1. n \in Nat /\ ZoneNumbers = 1..n
  BY ZonesAssumption, FS_CardinalityType
<1>2. PICK g : /\ g[0] = reset_q /\ Queued(age) = g[n]
               /\ \A z \in ZoneNumbers : g[z] = IF IsDue(z, age) THEN Append(g[z - 1], z) ELSE g[z - 1]
               /\ \A i \in 0..n : g[i] \in Seq(ZoneNumbers)
  BY QueueRuns
<1> DEFINE P == {i \in Nat : i <= n => \A z \in ZoneNumbers : Waits(i, z) => InQueue(g[i], z)}
<1> HIDE DEF n
<1>3. 0 \in P
  <2>1. \A z \in ZoneNumbers : ~(z <= 0)
    BY <1>1
  <2>2. QED
    BY <1>2, <2>1
<1>4. ASSUME NEW i \in P PROVE i + 1 \in P
  <2>1. ASSUME i + 1 <= n, NEW z \in ZoneNumbers, Waits(i + 1, z) PROVE InQueue(g[i + 1], z)
    <3> DEFINE y == i + 1
    <3>1. i \in Nat /\ y \in 1..n /\ y - 1 = i /\ i <= n /\ i \in 0..n /\ z \in Nat
      BY <1>1, <2>1
    <3>2. Waits(i, z) => InQueue(g[i], z)
      BY <3>1
    <3>3. g[y] = IF IsDue(y, age) THEN Append(g[i], y) ELSE g[i]
      BY <1>1, <1>2, <3>1
    <3>4. g[i] \in Seq(ZoneNumbers) /\ y \in ZoneNumbers
      BY <1>1, <1>2, <3>1
    <3>5. Waits(i, z) \/ (z = y /\ IsDue(y, age))
      BY <2>1, <3>1
    <3> HIDE DEF y, Waits
    <3>6. CASE IsDue(y, age)
      <4>1. InQueue(g[i], z) \/ z = y
        BY <3>2, <3>5
      <4>2. InQueue(Append(g[i], y), z)
        BY <3>4, <4>1, AppendQueues
      <4>3. QED
        BY <3>3, <3>6, <4>2 DEF y
    <3>7. CASE ~IsDue(y, age)
      BY <3>2, <3>3, <3>5, <3>7 DEF y
    <3>8. QED
      BY <3>6, <3>7
  <2> HIDE DEF Waits
  <2>2. i + 1 \in Nat
    OBVIOUS
  <2>3. QED
    BY <2>1, <2>2
<1>5. P = Nat
  <2> HIDE DEF P
  <2>1. P \in SUBSET Nat
    BY DEF P
  <2>2. QED
    BY <1>3, <1>4, <2>1, NatSetInduction
<1>6. ASSUME NEW z \in ZoneNumbers, InQueue(reset_q, z) \/ IsDue(z, age) PROVE InQueue(Queued(age), z)
  <2>1. Waits(n, z)
    BY <1>1, <1>6
  <2> HIDE DEF Waits
  <2>2. n \in Nat /\ n <= n
    BY <1>1
  <2>3. InQueue(g[n], z)
    BY <1>5, <2>1, <2>2
  <2>4. QED
    BY <1>2, <2>3
<1>7. Queued(age) \in Seq(ZoneNumbers)
  BY <1>1, <1>2
<1>8. QED
  BY <1>6, <1>7

(* Doors have two sides.                                                   *)
LEMMA BackTurns ==
    ASSUME NEW e \in DOMAIN Exits, NEW b \in Back(e)
    PROVE  b \in DOMAIN Exits /\ e \in Back(b) /\ Back(e) = {b} /\ Back(b) = {e}
<1>1. /\ b = <<Exits[e].to_room, RevDir[e[2]]>> /\ b \in DOMAIN Exits /\ Exits[b].to_room = e[1]
      /\ Back(e) = {b}
  BY DEF Back
<1>2. e = <<e[1], e[2]>> /\ e[2] \in DOMAIN RevDir /\ RevDir[RevDir[e[2]]] = e[2]
  BY ZonesAssumption
<1>3. b[1] = Exits[e].to_room /\ b[2] = RevDir[e[2]]
  BY <1>1
<1>4. <<Exits[b].to_room, RevDir[b[2]]>> = e
  BY <1>1, <1>2, <1>3
<1>5. QED
  BY <1>1, <1>3, <1>4 DEF Back

(* After a reset a door is as the last command on it says, if there is any. *)
LastUpTo(z, i, e, j) == j \in 1..i /\ DoorCmd(z, j, e) /\ \A k \in 1..i : k > j => ~DoorCmd(z, k, e)
NoneUpTo(z, i, e) == \A k \in 1..i : ~DoorCmd(z, k, e)

SaysUpTo(z, g, i, e) ==
  \/ NoneUpTo(z, i, e) /\ g[i].doors[e] = g[0].doors[e]
  \/ \E j : LastUpTo(z, i, e, j) /\ g[i].doors[e] = DoorState(ResetCmds[z][j].arg3)

LEMMA CmdOnDoor ==
    ASSUME NEW z, NEW i, NEW st \in ResetStates, NEW e \in DOMAIN Exits, GoodCmd(ResetCmds[z][i]),
           ResetCmds[z][i].command = "D" => ~(ResetCmds[z][i].if_flag /\ ~st.last)
    PROVE  ResetCmd(ResetCmds[z][i], st).doors[e] =
             IF DoorCmd(z, i, e) THEN DoorState(ResetCmds[z][i].arg3) ELSE st.doors[e]
<1> DEFINE c == ResetCmds[z][i]
           x == <<c.arg1, c.arg2>>
           v == DoorState(c.arg3)
<1>1. ResetCmd(c, st).doors = DoorsAfter(c, st)
  BY CmdTyped
<1>2. st.doors \in DoorsAre
  BY DEF ResetStates
<1>3. CASE SetsDoor(c)
  <2>1. DoorsAfter(c, st) = [st.doors EXCEPT ![x] = v]
    BY <1>3 DEF DoorsAfter, SetsDoor
  <2> HIDE DEF v
  <2>2. [st.doors EXCEPT ![x] = v][e] = IF e = x THEN v ELSE st.doors[e]
    BY <1>2 DEF DoorsAre
  <2>3. DoorCmd(z, i, e) <=> e = x
    BY <1>3 DEF DoorCmd
  <2>4. QED
    BY <1>1, <2>1, <2>2, <2>3 DEF v
<1>4. CASE ~SetsDoor(c)
  BY <1>1, <1>4 DEF DoorsAfter, DoorCmd
<1>5. QED
  BY <1>3, <1>4

LEMMA RunOnDoor ==
    ASSUME PairedResets, NEW z \in ZoneNumbers, NEW g, NEW base,
           Runs(Len(ResetCmds[z]), base, ResetCmds[z], g),
           \A i \in 0..Len(ResetCmds[z]) : g[i] \in ResetStates, NEW e \in DOMAIN Exits
    PROVE  \A i \in 0..Len(ResetCmds[z]) : SaysUpTo(z, g, i, e)
<1> DEFINE orders == ResetCmds[z]
           n == Len(orders)
           Says(i) == \/ NoneUpTo(z, i, e) /\ g[i].doors[e] = g[0].doors[e]
                      \/ \E j : LastUpTo(z, i, e, j) /\ g[i].doors[e] = DoorState(orders[j].arg3)
           P == {i \in Nat : i <= n => Says(i)}
<1>1. n \in Nat /\ DOMAIN orders = 1..n /\ \A i \in 1..n : GoodCmd(orders[i])
  BY ZonesAssumption DEF GoodCmd
<1>2. /\ \A i \in 1..n : g[i] = ResetCmd(orders[i], g[i - 1])
      /\ \A i \in 0..n : g[i] \in ResetStates
  BY DEF Runs
<1>3. \A i \in 1..n : orders[i].command = "D" => ~orders[i].if_flag \/ (i > 1 /\ Succeeds(orders[i - 1]))
  BY <1>1 DEF PairedResets
<1> HIDE DEF orders, n
<1>4. ASSUME NEW i \in 1..n, orders[i].command = "D" PROVE ~(orders[i].if_flag /\ ~g[i - 1].last)
  <2>1. CASE i > 1 /\ Succeeds(orders[i - 1])
    <3> DEFINE m == i - 1
    <3>1. m \in 1..n /\ m - 1 \in 0..n
      BY <1>1, <2>1
    <3>2. g[m] = ResetCmd(orders[m], g[m - 1]) /\ g[m - 1] \in ResetStates /\ GoodCmd(orders[m]) /\ Succeeds(orders[m])
      BY <1>1, <1>2, <2>1, <3>1
    <3> HIDE DEF m
    <3>3. g[m].last
      BY <3>2, CmdTyped
    <3>4. QED
      BY <3>3 DEF m
  <2>2. QED
    BY <1>3, <1>4, <2>1
<1>5. 0 \in P
  <2>1. NoneUpTo(z, 0, e)
    BY DEF NoneUpTo
  <2>2. QED
    BY <2>1
<1>6. ASSUME NEW m \in Nat, m + 1 <= n, Says(m) PROVE Says(m + 1)
  <2> DEFINE i == m + 1
  <2>1. i \in 1..n /\ i - 1 = m /\ m \in 0..n
    BY <1>1, <1>6
  <2>2. g[i].doors[e] = IF DoorCmd(z, i, e) THEN DoorState(orders[i].arg3) ELSE g[m].doors[e]
    <3> DEFINE st == g[m]
    <3>1. g[i] = ResetCmd(orders[i], st) /\ st \in ResetStates /\ GoodCmd(orders[i])
          /\ (orders[i].command = "D" => ~(orders[i].if_flag /\ ~st.last))
      BY <1>1, <1>2, <1>4, <2>1
    <3> HIDE DEF i, st
    <3>2. ResetCmd(orders[i], st).doors[e] = IF DoorCmd(z, i, e) THEN DoorState(orders[i].arg3) ELSE st.doors[e]
      BY <3>1, CmdOnDoor DEF orders
    <3>3. QED
      BY <3>1, <3>2 DEF st
  <2>3. CASE DoorCmd(z, i, e)
    <3>1. LastUpTo(z, i, e, i)
      BY <2>1, <2>3 DEF LastUpTo
    <3>2. QED
      BY <2>2, <2>3, <3>1
  <2>4. CASE ~DoorCmd(z, i, e)
    <3>1. NoneUpTo(z, m, e) => NoneUpTo(z, i, e)
      BY <2>1, <2>4 DEF NoneUpTo
    <3>2. \A j : LastUpTo(z, m, e, j) => LastUpTo(z, i, e, j)
      BY <2>1, <2>4 DEF LastUpTo
    <3> HIDE DEF i
    <3>3. Says(i)
      BY <1>6, <2>2, <2>4, <3>1, <3>2
    <3>4. QED
      BY <3>3 DEF i
  <2>5. QED
    BY <2>3, <2>4
<1>7. P = Nat
  <2> HIDE DEF Says
  <2>1. \A m \in P : m + 1 \in P
    <3>1. ASSUME NEW m \in P PROVE m + 1 \in P
      <4>1. m \in Nat /\ m + 1 \in Nat /\ (m + 1 <= n => m <= n)
        BY <1>1
      <4>2. QED
        BY <1>6, <4>1
    <3>2. QED
      BY <3>1
  <2> HIDE DEF P
  <2>2. P \in SUBSET Nat
    BY DEF P
  <2>3. QED
    BY <1>5, <2>1, <2>2, NatSetInduction
<1>8. ASSUME NEW i \in 0..n PROVE Says(i)
  <2> HIDE DEF Says
  <2>1. QED
    BY <1>1, <1>7
<1>9. QED
  BY <1>8 DEF n, orders, SaysUpTo

LEMMA ResetPairs ==
    ASSUME PairedResets, NEW z \in ZoneNumbers, NEW st \in ResetStates,
           NEW e \in DOMAIN Exits, NEW b \in Back(e), st.doors[e] = st.doors[b]
    PROVE  reset_zone(z, st).doors[e] = reset_zone(z, st).doors[b]
<1> DEFINE n == Len(ResetCmds[z])
           after == reset_zone(z, st)
           Says(x) == \/ NoneUpTo(z, n, x) /\ after.doors[x] = st.doors[x]
                      \/ \E j : LastUpTo(z, n, x, j) /\ after.doors[x] = DoorState(ResetCmds[z][j].arg3)
<1>1. n \in Nat /\ DOMAIN ResetCmds[z] = 1..n
  BY ZonesAssumption
<1>2. b \in DOMAIN Exits /\ e \in Back(b)
  BY BackTurns
<1>3. \A x \in DOMAIN Exits : Says(x)
  <2>1. PICK g : /\ Runs(n, ResetBegins(st), ResetCmds[z], g)
                 /\ \A i \in 0..n : g[i] \in ResetStates
                 /\ after = g[n]
    BY ResetRuns
  <2>2. g[0].doors = st.doors
    BY <2>1 DEF Runs, ResetBegins, ResetStates
  <2>3. n \in 0..n
    BY <1>1
  <2> HIDE DEF after
  <2>4. ASSUME NEW x \in DOMAIN Exits PROVE Says(x)
    <3>1. SaysUpTo(z, g, n, x)
      BY <2>1, <2>3, RunOnDoor
    <3>2. QED
      BY <2>1, <2>2, <3>1 DEF SaysUpTo
  <2>5. QED
    BY <2>4
<1>4. ASSUME NEW x \in DOMAIN Exits, NEW y \in Back(x), NEW i, LastUpTo(z, n, x, i)
      PROVE  \E j : LastUpTo(z, n, y, j) /\ ResetCmds[z][j].arg3 = ResetCmds[z][i].arg3
  <2>1. i \in 1..n /\ LastDoorCmd(z, i, x)
    BY <1>1, <1>4 DEF LastUpTo, LastDoorCmd
  <2>2. PICK j \in DOMAIN ResetCmds[z] : LastDoorCmd(z, j, y) /\ ResetCmds[z][j].arg3 = ResetCmds[z][i].arg3
    BY <1>1, <2>1 DEF PairedResets
  <2>3. LastUpTo(z, n, y, j)
    BY <1>1, <2>2 DEF LastUpTo, LastDoorCmd
  <2>4. QED
    BY <2>2, <2>3
<1>5. ASSUME NEW x, NEW i, NEW j, LastUpTo(z, n, x, i), LastUpTo(z, n, x, j)
      PROVE  i = j
  BY <1>1, <1>5 DEF LastUpTo
<1>6. ASSUME NEW x, NEW i, LastUpTo(z, n, x, i) PROVE ~NoneUpTo(z, n, x)
  BY <1>6 DEF LastUpTo, NoneUpTo
<1> HIDE DEF n, after
<1>7. CASE NoneUpTo(z, n, e)
  <2>1. \A j : ~LastUpTo(z, n, e, j)
    BY <1>6, <1>7
  <2>2. \A j : ~LastUpTo(z, n, b, j)
    BY <1>2, <1>4, <2>1
  <2>3. after.doors[e] = st.doors[e] /\ after.doors[b] = st.doors[b]
    BY <1>2, <1>3, <2>1, <2>2
  <2>4. QED
    BY <2>3 DEF after
<1>8. CASE \E i : LastUpTo(z, n, e, i) /\ after.doors[e] = DoorState(ResetCmds[z][i].arg3)
  <2>1. PICK i : LastUpTo(z, n, e, i) /\ after.doors[e] = DoorState(ResetCmds[z][i].arg3)
    BY <1>8
  <2>2. PICK j : LastUpTo(z, n, b, j) /\ ResetCmds[z][j].arg3 = ResetCmds[z][i].arg3
    BY <1>4, <2>1
  <2>3. PICK k : LastUpTo(z, n, b, k) /\ after.doors[b] = DoorState(ResetCmds[z][k].arg3)
    BY <1>2, <1>3, <1>6, <2>2
  <2>4. k = j
    BY <1>5, <2>2, <2>3
  <2>5. QED
    BY <2>1, <2>2, <2>3, <2>4 DEF after
<1>9. QED
  BY <1>3, <1>7, <1>8

LEMMA WorldPairs ==
    ASSUME NEW st \in ResetStates
    PROVE  /\ ResetWorld(st) \in ResetStates
           /\ PairedResets => \A e \in DOMAIN Exits : \A b \in Back(e) :
                st.doors[e] = st.doors[b] => ResetWorld(st).doors[e] = ResetWorld(st).doors[b]
<1> DEFINE n == Cardinality(ZoneNumbers)
<1>1. n \in Nat /\ ZoneNumbers = 1..n /\ n \in 0..n
  BY ZonesAssumption, FS_CardinalityType
<1>2. PICK g : /\ g[0] = st /\ ResetWorld(st) = g[n]
               /\ \A z \in ZoneNumbers : z - 1 \in 0..n /\ g[z] = reset_zone(z, g[z - 1])
               /\ \A i \in 0..n : g[i] \in ResetStates
  BY WorldRuns
<1> HIDE DEF n
<1>3. ASSUME PairedResets, NEW e \in DOMAIN Exits, NEW b \in Back(e), st.doors[e] = st.doors[b]
      PROVE  g[n].doors[e] = g[n].doors[b]
  <2> DEFINE P == {i \in Nat : i <= n => g[i].doors[e] = g[i].doors[b]}
  <2>1. 0 \in P
    BY <1>2, <1>3
  <2>2. ASSUME NEW i \in P PROVE i + 1 \in P
    <3>1. i \in Nat /\ i + 1 \in Nat
      OBVIOUS
    <3>2. ASSUME i + 1 <= n PROVE g[i + 1].doors[e] = g[i + 1].doors[b]
      <4> DEFINE z == i + 1
                 s == g[i]
      <4>1. z \in ZoneNumbers /\ z - 1 = i /\ i <= n /\ i \in 0..n
        BY <1>1, <3>1, <3>2
      <4>2. g[z] = reset_zone(z, s) /\ s \in ResetStates /\ s.doors[e] = s.doors[b]
        BY <1>2, <4>1
      <4> HIDE DEF z, s
      <4>3. reset_zone(z, s).doors[e] = reset_zone(z, s).doors[b]
        BY <1>3, <4>1, <4>2, ResetPairs
      <4>4. QED
        BY <4>2, <4>3 DEF z
    <3>3. QED
      BY <3>1, <3>2
  <2>3. P = Nat
    <3> HIDE DEF P
    <3>1. P \in SUBSET Nat
      BY DEF P
    <3>2. QED
      BY <2>1, <2>2, <3>1, NatSetInduction
  <2>4. QED
    BY <1>1, <2>3
<1>4. ResetWorld(st) \in ResetStates
  BY <1>1, <1>2
<1>5. QED
  BY <1>2, <1>3, <1>4

(* The invariant: an age that says that its zone waits is true; what was   *)
(* edited and is not on disk is locked in memory; copies are of rooms.     *)
Desc == [unloaded : BOOLEAN, locked : BOOLEAN, edited : {"no", "olc", "copy"}]
DescFine(d) == d \in Desc /\ (d.locked => ~d.unloaded) /\ (d.edited = "olc" => d.locked)
DescsFine(ds) == ds \in [ZoneNumbers -> Desc] /\ \A z \in ZoneNumbers : DescFine(ds[z])
CopyFine(c) == c = NoCopy \/ (c.room \in WorldRooms /\ c.doors \in [DirsOf(c.room) -> ZoneDoor])
QueueFine(ages, q) ==
  /\ ages \in [ZoneNumbers -> 0..ZO_DEAD] /\ q \in Seq(ZoneNumbers)
  /\ \A z \in ZoneNumbers : ages[z] = ZO_DEAD => InQueue(q, z)
ZonesInv ==
  /\ QueueFine(zone_age, reset_q)
  /\ walker_in \in [Walkers -> WorldRooms \union {NotPlaying}]
  /\ doors \in DoorsAre /\ population \in Populations
  /\ DescsFine(room_descs)
  /\ redit_copy = [p \in Builders |-> redit_copy[p]] /\ \A p \in Builders : CopyFine(redit_copy[p])
SidesAgree ==
  redit_copy' = redit_copy =>
    \A e \in DOMAIN Exits : \A b \in Back(e) : doors[e] = doors[b] => doors'[e] = doors'[b]

LEMMA StartTyped ==
    ASSUME ZonesInv
    PROVE  ResetStart \in ResetStates /\ ResetStart.doors = doors
BY DEF ZonesInv, ResetStart, ResetStates

LEMMA DescPut ==
    ASSUME NEW ds, DescsFine(ds), NEW z \in ZoneNumbers, NEW d, DescFine(d)
    PROVE  DescsFine([ds EXCEPT ![z] = d])
BY DEF DescsFine, DescFine

LEMMA UnloadKeeps ==
    ASSUME DescsFine(room_descs), NEW z \in ZoneNumbers, unload_room_descs(z)
    PROVE  DescsFine(room_descs')
<1> DEFINE d == [room_descs[z] EXCEPT !.unloaded = TRUE]
<1>1. DescFine(room_descs[z])
  BY DEF DescsFine
<1>2. CASE ~room_descs[z].unloaded /\ ~room_descs[z].locked
  <2>1. DescFine(d)
    BY <1>1, <1>2 DEF DescFine, Desc
  <2>2. room_descs' = [room_descs EXCEPT ![z] = d]
    BY <1>2 DEF unload_room_descs
  <2> HIDE DEF d
  <2>3. DescsFine([room_descs EXCEPT ![z] = d])
    BY <2>1, DescPut
  <2>4. QED
    BY <2>2, <2>3
<1>3. CASE ~(~room_descs[z].unloaded /\ ~room_descs[z].locked)
  BY <1>3 DEF unload_room_descs
<1>4. QED
  BY <1>2, <1>3

LEMMA ReloadedFine ==
    ASSUME DescsFine(room_descs), NEW z \in ZoneNumbers, NEW lock \in BOOLEAN
    PROVE  DescsFine(Reloaded(z, lock)) /\ (lock => Reloaded(z, lock)[z].locked)
<1> DEFINE d == [room_descs[z] EXCEPT !.unloaded = FALSE, !.locked = lock]
<1>1. DescFine(room_descs[z])
  BY DEF DescsFine
<1>2. CASE ~room_descs[z].locked
  <2>1. DescFine(d) /\ d.locked = lock
    BY <1>1, <1>2 DEF DescFine, Desc
  <2>2. Reloaded(z, lock) = [room_descs EXCEPT ![z] = d]
    <3> DEFINE y == [room_descs EXCEPT ![z].unloaded = FALSE]
    <3>1. z \in DOMAIN room_descs
      BY DEF DescsFine
    <3>2. Reloaded(z, lock) = [y EXCEPT ![z].locked = lock]
      BY <1>2 DEF Reloaded
    <3>3. y[z] = [room_descs[z] EXCEPT !.unloaded = FALSE] /\ [y[z] EXCEPT !.locked = lock] = d
      BY <3>1
    <3>4. [y EXCEPT ![z] = d] = [room_descs EXCEPT ![z] = d]
      BY <3>1
    <3>5. QED
      BY <3>2, <3>3, <3>4
  <2>3. z \in DOMAIN room_descs
    BY DEF DescsFine
  <2> HIDE DEF d
  <2>4. DescsFine([room_descs EXCEPT ![z] = d]) /\ [room_descs EXCEPT ![z] = d][z] = d
    BY <2>1, <2>3, DescPut
  <2>5. QED
    BY <2>1, <2>2, <2>4
<1>3. CASE room_descs[z].locked
  BY <1>3 DEF Reloaded
<1>4. QED
  BY <1>2, <1>3

LEMMA TailQueues ==
    ASSUME NEW S, NEW q \in Seq(S), q # <<>>, NEW y, InQueue(q, y), y # Head(q)
    PROVE  InQueue(Tail(q), y)
<1>1. PICK i \in DOMAIN q : q[i] = y
  BY DEF InQueue
<1>2. /\ DOMAIN q = 1..Len(q) /\ Len(q) \in Nat \ {0} /\ Head(q) = q[1]
      /\ DOMAIN Tail(q) = 1..(Len(q) - 1) /\ \A j \in 1..(Len(q) - 1) : Tail(q)[j] = q[j + 1]
  BY LenProperties, HeadTailProperties, EmptySeq
<1>3. i # 1 /\ i - 1 \in 1..(Len(q) - 1) /\ (i - 1) + 1 = i
  BY <1>1, <1>2
<1>4. Tail(q)[i - 1] = y
  BY <1>1, <1>2, <1>3
<1>5. QED
  BY <1>2, <1>3, <1>4 DEF InQueue

(* What an hour does to the ages and the queue.                            *)
LEMMA AgesStep ==
    ASSUME ZonesInv, NEW dead, NEW q,
           dead = (IF (zone_timer + 1) * PULSE_ZONE >= 60
                   THEN [z \in ZoneNumbers |-> IF IsDue(z, [y \in ZoneNumbers |-> Aged(y)]) THEN ZO_DEAD ELSE Aged(z)]
                   ELSE zone_age),
           q = (IF (zone_timer + 1) * PULSE_ZONE >= 60 THEN Queued([y \in ZoneNumbers |-> Aged(y)]) ELSE reset_q)
    PROVE  QueueFine(dead, q)
<1> DEFINE minute == (zone_timer + 1) * PULSE_ZONE >= 60
           older == [y \in ZoneNumbers |-> Aged(y)]
<1>1. /\ zone_age \in [ZoneNumbers -> 0..ZO_DEAD] /\ reset_q \in Seq(ZoneNumbers)
      /\ \A z \in ZoneNumbers : zone_age[z] = ZO_DEAD => InQueue(reset_q, z)
  BY DEF ZonesInv, QueueFine
<1>2. \A z \in ZoneNumbers : Aged(z) \in 0..ZO_DEAD /\ (Aged(z) = ZO_DEAD => zone_age[z] = ZO_DEAD)
  <2>1. ASSUME NEW z \in ZoneNumbers
        PROVE  Aged(z) \in 0..ZO_DEAD /\ (Aged(z) = ZO_DEAD => zone_age[z] = ZO_DEAD)
    <3> DEFINE a == zone_age[z]
               l == Lifespan[z]
    <3>1. a \in 0..ZO_DEAD /\ l \in 0..(ZO_DEAD - 1)
      BY <1>1, ZonesAssumption
    <3>2. (Aged(z) = a + 1 /\ a < l) \/ Aged(z) = a
      BY DEF Aged
    <3> DEFINE b == Aged(z)
    <3> HIDE DEF a, l, b
    <3>3. (b = a + 1 /\ a < l) \/ b = a
      BY <3>2 DEF b
    <3>4. b \in 0..ZO_DEAD /\ (b = ZO_DEAD => a = ZO_DEAD)
      BY ONLY <3>1, <3>3 DEF ZO_DEAD
    <3>5. QED
      BY <3>4 DEF a, b
  <2>2. QED
    BY <2>1
<1> HIDE DEF minute
<1>3. CASE minute
  <2>1. q = Queued(older)
    BY <1>3 DEF minute
  <2>2. dead = [z \in ZoneNumbers |-> IF IsDue(z, older) THEN ZO_DEAD ELSE Aged(z)]
    BY <1>3 DEF minute
  <2> HIDE DEF older
  <2>3. q \in Seq(ZoneNumbers) /\ \A z \in ZoneNumbers : InQueue(reset_q, z) \/ IsDue(z, older) => InQueue(q, z)
    BY <1>1, <2>1, QueuedHolds
  <2>4. dead \in [ZoneNumbers -> 0..ZO_DEAD]
    BY <1>2, <2>2 DEF ZO_DEAD
  <2>5. \A z \in ZoneNumbers : dead[z] = ZO_DEAD => InQueue(q, z)
    BY <1>1, <1>2, <2>2, <2>3
  <2>6. QED
    BY <2>3, <2>4, <2>5 DEF QueueFine
<1>4. CASE ~minute
  <2>1. dead = zone_age /\ q = reset_q
    BY <1>4 DEF minute
  <2>2. QED
    BY <1>1, <2>1 DEF QueueFine
<1>5. QED
  BY <1>3, <1>4

LEMMA DoneKeeps ==
    ASSUME ZonesInv, NEW st \in ResetStates, ResetDone(st)
    PROVE  doors' \in DoorsAre /\ population' \in Populations /\ doors' = st.doors
BY DEF ResetDone, ResetStates

LEMMA ZoneUpdateKeeps ==
    ASSUME PairedResets, ZonesInv, zone_update
    PROVE  ZonesInv' /\ SidesAgree
<1> DEFINE minute == (zone_timer + 1) * PULSE_ZONE >= 60
           older == [z \in ZoneNumbers |-> Aged(z)]
           dead == IF minute THEN [z \in ZoneNumbers |-> IF IsDue(z, older) THEN ZO_DEAD ELSE Aged(z)]
                   ELSE zone_age
           q == IF minute THEN Queued(older) ELSE reset_q
           z == Head(q)
           Rest == UNCHANGED <<walker_in, redit_copy>>
           Idle == q = <<>> /\ zone_age' = dead /\ UNCHANGED <<reset_q, room_descs, doors, population>>
           Drop == IF is_empty(z) THEN unload_room_descs(z) ELSE UNCHANGED room_descs
           Wait == zone_age' = dead /\ reset_q' = q /\ UNCHANGED <<doors, population>>
           Done == /\ ResetDone(reset_zone(z, ResetStart)) /\ zone_age' = [dead EXCEPT ![z] = 0] /\ reset_q' = Tail(q)
<1>1. QueueFine(dead, q)
  BY AgesStep
<1>2. (Idle \/ (q # <<>> /\ Drop /\ (Wait \/ Done))) /\ Rest
  <2>1. minute => [y \in ZoneNumbers |-> IF IsDue(y, older) THEN ZO_DEAD ELSE older[y]] = dead
    OBVIOUS
  <2>2. QED
    BY <2>1 DEF zone_update
<1> HIDE DEF minute, older, dead, q
<1>3. CASE Idle
  <2>1. \A y \in ZoneNumbers : dead[y] # ZO_DEAD
    <3>1. \A y : ~InQueue(q, y)
      BY <1>3 DEF InQueue
    <3>2. QED
      BY <1>1, <3>1 DEF QueueFine
  <2>2. QueueFine(zone_age', reset_q')
    BY <1>1, <1>3, <2>1 DEF QueueFine, ZonesInv
  <2>3. QED
    BY <1>2, <1>3, <2>2 DEF ZonesInv, SidesAgree
<1>4. CASE q # <<>> /\ Drop /\ (Wait \/ Done)
  <2>1. q \in Seq(ZoneNumbers) /\ z \in ZoneNumbers
    <3>1. q \in Seq(ZoneNumbers)
      BY <1>1 DEF QueueFine
    <3>2. QED
      BY <1>4, <3>1, HeadTailProperties
  <2>2. DescsFine(room_descs')
    BY <1>4, <2>1, UnloadKeeps DEF ZonesInv
  <2>3. CASE Wait
    BY <1>1, <1>2, <2>2, <2>3 DEF ZonesInv, SidesAgree
  <2>4. CASE Done
    <3> HIDE DEF z
    <3>1. reset_zone(z, ResetStart) \in ResetStates
      BY <2>1, ResetTyped, StartTyped
    <3>2. doors' \in DoorsAre /\ population' \in Populations /\ doors' = reset_zone(z, ResetStart).doors
      BY <2>4, <3>1, DoneKeeps
    <3>3. ASSUME NEW e \in DOMAIN Exits, NEW b \in Back(e), doors[e] = doors[b]
          PROVE  doors'[e] = doors'[b]
      BY <2>1, <3>2, <3>3, StartTyped, ResetPairs
    <3>4. QueueFine(zone_age', reset_q')
      <4>1. Tail(q) \in Seq(ZoneNumbers)
        BY <1>4, <2>1, HeadTailProperties
      <4>2. dead \in [ZoneNumbers -> 0..ZO_DEAD] /\ \A y \in ZoneNumbers : dead[y] = ZO_DEAD => InQueue(q, y)
        BY <1>1 DEF QueueFine
      <4>3. [dead EXCEPT ![z] = 0] \in [ZoneNumbers -> 0..ZO_DEAD]
        <5>1. 0 \in 0..ZO_DEAD
          BY DEF ZO_DEAD
        <5>2. QED
          BY <4>2, <5>1, PutTyped
      <4>4. ASSUME NEW y \in ZoneNumbers, [dead EXCEPT ![z] = 0][y] = ZO_DEAD PROVE InQueue(Tail(q), y)
        <5>1. y # z
          BY <4>2, <4>4 DEF ZO_DEAD
        <5>2. dead[y] = ZO_DEAD
          BY <4>2, <4>4, <5>1
        <5>3. QED
          BY <1>4, <2>1, <4>2, <5>1, <5>2, TailQueues DEF z
      <4>5. QED
        BY <2>4, <4>1, <4>3, <4>4 DEF QueueFine
    <3>5. QED
      BY <1>2, <2>2, <3>2, <3>3, <3>4 DEF ZonesInv, SidesAgree
  <2>5. QED
    BY <1>4, <2>3, <2>4
<1>5. QED
  BY <1>2, <1>3, <1>4

LEMMA ZresetKeeps ==
    ASSUME PairedResets, ZonesInv,
           do_zreset_all \/ \E z \in ZoneNumbers : do_zreset(z)
    PROVE  ZonesInv' /\ SidesAgree
<1> DEFINE Fresh(ages) == ages \in [ZoneNumbers -> 0..ZO_DEAD] /\ \A y \in ZoneNumbers : ages[y] = zone_age[y] \/ ages[y] = 0
<1>1. /\ UNCHANGED <<reset_q, walker_in, redit_copy>> /\ Fresh(zone_age') /\ DescsFine(room_descs')
      /\ \E st \in ResetStates :
           /\ ResetDone(st)
           /\ \A e \in DOMAIN Exits : \A b \in Back(e) : doors[e] = doors[b] => st.doors[e] = st.doors[b]
  <2>0. /\ zone_age \in [ZoneNumbers -> 0..ZO_DEAD] /\ 0 \in 0..ZO_DEAD /\ DescsFine(room_descs)
        /\ ResetStart \in ResetStates /\ ResetStart.doors = doors
    <3>1. zone_age \in [ZoneNumbers -> 0..ZO_DEAD] /\ DescsFine(room_descs)
      BY DEF ZonesInv, QueueFine
    <3>2. ResetStart \in ResetStates /\ ResetStart.doors = doors
      BY StartTyped
    <3>3. 0 \in 0..ZO_DEAD
      BY DEF ZO_DEAD
    <3>4. QED
      BY <3>1, <3>2, <3>3
  <2>1. CASE do_zreset_all
    <3>1. /\ UNCHANGED <<reset_q, walker_in, redit_copy, room_descs>> /\ ResetDone(ResetWorld(ResetStart))
          /\ zone_age' = [z \in ZoneNumbers |-> 0]
      BY <2>1 DEF do_zreset_all
    <3>2. Fresh(zone_age')
      BY <2>0, <3>1
    <3> HIDE DEF Fresh
    <3>3. QED
      BY <2>0, <3>1, <3>2, WorldPairs
  <2>2. CASE \E z \in ZoneNumbers : do_zreset(z)
    <3>1. PICK z \in ZoneNumbers : do_zreset(z)
      BY <2>2
    <3>2. /\ UNCHANGED <<reset_q, walker_in, redit_copy>> /\ ResetDone(reset_zone(z, ResetStart))
          /\ zone_age' = [zone_age EXCEPT ![z] = 0]
          /\ unload_room_descs(z) \/ UNCHANGED room_descs
      BY <3>1 DEF do_zreset
    <3>3. Fresh(zone_age')
      BY <2>0, <3>2
    <3>4. DescsFine(room_descs')
      BY <2>0, <3>2, UnloadKeeps
    <3>5. reset_zone(z, ResetStart) \in ResetStates
      BY <2>0, ResetTyped
    <3>6. \A e \in DOMAIN Exits : \A b \in Back(e) :
            doors[e] = doors[b] => reset_zone(z, ResetStart).doors[e] = reset_zone(z, ResetStart).doors[b]
      BY <2>0, ResetPairs
    <3> HIDE DEF Fresh
    <3>7. QED
      BY <3>2, <3>3, <3>4, <3>5, <3>6
  <2>3. QED
    BY <2>1, <2>2
<1>2. QueueFine(zone_age', reset_q')
  <2>1. /\ reset_q \in Seq(ZoneNumbers) /\ reset_q' = reset_q
        /\ \A y \in ZoneNumbers : zone_age[y] = ZO_DEAD => InQueue(reset_q, y)
    BY <1>1 DEF ZonesInv, QueueFine
  <2>2. zone_age' \in [ZoneNumbers -> 0..ZO_DEAD]
    BY <1>1
  <2>3. 0 # ZO_DEAD
    BY DEF ZO_DEAD
  <2>4. \A y \in ZoneNumbers : zone_age'[y] = ZO_DEAD => zone_age[y] = ZO_DEAD
    BY <1>1, <2>3
  <2>5. QED
    BY <2>1, <2>2, <2>4 DEF QueueFine
<1> HIDE DEF Fresh
<1>3. PICK st \in ResetStates :
           /\ ResetDone(st)
           /\ \A e \in DOMAIN Exits : \A b \in Back(e) : doors[e] = doors[b] => st.doors[e] = st.doors[b]
  BY <1>1
<1>4. doors' \in DoorsAre /\ population' \in Populations /\ doors' = st.doors
  BY <1>3, DoneKeeps
<1>5. SidesAgree
  BY <1>3, <1>4 DEF SidesAgree
<1>6. QED
  BY <1>1, <1>2, <1>4, <1>5 DEF ZonesInv

LEMMA ArriveKeeps ==
    ASSUME ZonesInv, NEW p \in Walkers, NEW r \in WorldRooms, Arrive(p, r)
    PROVE  ZonesInv' /\ SidesAgree
<1>1. ZoneOf[r] \in ZoneNumbers
  BY ZonesAssumption DEF WorldRooms
<1>2. DescsFine(room_descs')
  BY <1>1, ReloadedFine DEF Arrive, ZonesInv
<1>3. walker_in' \in [Walkers -> WorldRooms \union {NotPlaying}]
  BY DEF Arrive, ZonesInv
<1>4. QED
  BY <1>2, <1>3 DEF Arrive, ZonesInv, SidesAgree

LEMMA WalkersKeep ==
    ASSUME ZonesInv, NEW p \in Walkers,
           \/ LeaveWorld(p) \/ \E r \in WorldRooms : EnterWorld(p, r)
           \/ \E dir \in DOMAIN RevDir : Walk_zones(p, dir)
    PROVE  ZonesInv' /\ SidesAgree
<1>1. CASE LeaveWorld(p)
  BY <1>1 DEF LeaveWorld, ZonesInv, SidesAgree
<1>2. CASE \E r \in WorldRooms : EnterWorld(p, r)
  BY <1>2, ArriveKeeps DEF EnterWorld
<1>3. CASE \E dir \in DOMAIN RevDir : Walk_zones(p, dir)
  <2>1. PICK dir \in DOMAIN RevDir : Walk_zones(p, dir)
    BY <1>3
  <2>2. Exits[<<walker_in[p], dir>>].to_room \in WorldRooms
    BY <2>1, ZonesAssumption DEF Walk_zones, WorldRooms
  <2>3. QED
    BY <2>1, <2>2, ArriveKeeps DEF Walk_zones
<1>4. QED
  BY <1>1, <1>2, <1>3

LEMMA VanishKeeps ==
    ASSUME ZonesInv, NEW k \in Kinds, NEW x \in WorldRooms \union {Held}, Vanish(k, x)
    PROVE  ZonesInv' /\ SidesAgree
<1> DEFINE X == Kinds \X (WorldRooms \union {Held})
           at == <<k, x>>
           n == population[at] - 1
<1>1. population \in [X -> Nat]
  BY DEF ZonesInv, Populations
<1>2. population[at] > 0 /\ population' = [population EXCEPT ![at] = n]
  BY DEF Vanish
<1>3. at \in X
  OBVIOUS
<1> HIDE DEF X, at
<1>4. n \in Nat
  BY <1>1, <1>2, <1>3
<1> HIDE DEF n
<1>5. population' \in [X -> Nat]
  BY <1>1, <1>2, <1>4, PutTyped
<1>6. population' \in Populations
  BY <1>5 DEF X, Populations
<1>7. QED
  BY <1>6 DEF Vanish, ZonesInv, SidesAgree

(* A command on a door works both of its sides.                            *)
LEMMA DoorKeeps ==
    ASSUME ZonesInv, NEW p, NEW dir, NEW cmd, do_gen_door(p, dir, cmd)
    PROVE  ZonesInv' /\ SidesAgree
<1> DEFINE e == <<walker_in[p], dir>>
           T(d) == IF cmd \in {"open", "close"} THEN [d EXCEPT !.closed = ~@] ELSE [d EXCEPT !.locked = ~@]
           M == {e} \union Back(e)
<1>1. /\ e \in DOMAIN Exits /\ doors' = [x \in DOMAIN doors |-> IF x \in M THEN T(doors[x]) ELSE doors[x]]
      /\ UNCHANGED <<zone_age, reset_q, zone_timer, walker_in, population, room_descs, redit_copy>>
  BY DEF do_gen_door, do_doorcmd
<1>2. doors \in [DOMAIN Exits -> ZoneDoor]
  BY DEF ZonesInv, DoorsAre
<1>3. \A d \in ZoneDoor : T(d) \in ZoneDoor
  BY DEF ZoneDoor
<1> HIDE DEF T, e
<1>4. doors' \in DoorsAre
  BY <1>1, <1>2, <1>3 DEF DoorsAre
<1>5. ASSUME NEW f \in DOMAIN Exits, NEW b \in Back(f), doors[f] = doors[b]
      PROVE  doors'[f] = doors'[b]
  <2>1. b \in DOMAIN Exits /\ f \in Back(b) /\ Back(f) = {b} /\ Back(b) = {f}
    BY BackTurns
  <2>2. f \in M => b \in M
    <3>1. CASE f = e
      BY <2>1, <3>1
    <3>2. CASE f \in Back(e)
      <4>1. Back(f) = {e}
        BY <1>1, <3>2, BackTurns
      <4>2. QED
        BY <2>1, <4>1
    <3>3. QED
      BY <3>1, <3>2
  <2>3. b \in M => f \in M
    <3>1. CASE b = e
      BY <2>1, <3>1
    <3>2. CASE b \in Back(e)
      <4>1. Back(b) = {e}
        BY <1>1, <3>2, BackTurns
      <4>2. QED
        BY <2>1, <4>1
    <3>3. QED
      BY <3>1, <3>2
  <2> HIDE DEF M
  <2>4. QED
    BY <1>1, <1>2, <1>5, <2>1, <2>2, <2>3
<1>6. QED
  BY <1>1, <1>4, <1>5 DEF ZonesInv, SidesAgree

(* The editor of rooms.                                                    *)
LEMMA CopyPut ==
    ASSUME ZonesInv, NEW p \in Builders, NEW c, CopyFine(c), redit_copy' = [redit_copy EXCEPT ![p] = c]
    PROVE  /\ redit_copy' = [q \in Builders |-> redit_copy'[q]] /\ \A q \in Builders : CopyFine(redit_copy'[q])
           /\ redit_copy'[p] = c
BY DEF ZonesInv

LEMMA RoomSetupKeeps ==
    ASSUME ZonesInv, NEW p \in Builders, redit_setup_existing(p)
    PROVE  ZonesInv' /\ SidesAgree
<1> DEFINE r == walker_in[p]
           d == [x \in DirsOf(r) |-> doors[<<r, x>>]]
           c == [room |-> r, doors |-> d]
<1>1. /\ redit_copy' = [redit_copy EXCEPT ![p] = c] /\ r # NotPlaying
      /\ room_descs' = IF room_descs[ZoneOf[r]].unloaded THEN Reloaded(ZoneOf[r], FALSE) ELSE room_descs
      /\ UNCHANGED <<zone_age, reset_q, zone_timer, walker_in, doors, population>>
  BY DEF redit_setup_existing, Playing
<1>2. r \in WorldRooms /\ ZoneOf[r] \in ZoneNumbers
  BY <1>1, ZonesAssumption DEF ZonesInv, WorldRooms
<1>3. d \in [DirsOf(r) -> ZoneDoor]
  <2>1. ASSUME NEW x \in DirsOf(r) PROVE doors[<<r, x>>] \in ZoneDoor
    <3>1. PICK e \in DOMAIN Exits : e[1] = r /\ e[2] = x
      BY DEF DirsOf
    <3>2. e = <<r, x>>
      BY <3>1, ZonesAssumption
    <3>3. QED
      BY <3>2 DEF ZonesInv, DoorsAre
  <2>2. QED
    BY <2>1
<1> HIDE DEF r, d
<1>4. CopyFine(c)
  BY <1>2, <1>3 DEF CopyFine
<1> HIDE DEF c
<1>5. redit_copy' = [q \in Builders |-> redit_copy'[q]] /\ \A q \in Builders : CopyFine(redit_copy'[q])
  BY <1>1, <1>4, CopyPut
<1>6. DescsFine(room_descs')
  BY <1>1, <1>2, ReloadedFine DEF ZonesInv
<1>7. QED
  BY <1>1, <1>5, <1>6 DEF ZonesInv, SidesAgree

LEMMA KeptRoom ==
    ASSUME ZonesInv, NEW p \in Builders, redit_save_internally(p)
    PROVE  ZonesInv' /\ SidesAgree
<1> DEFINE c == redit_copy[p]
           r == c.room
           z == ZoneOf[r]
           ds == Reloaded(z, TRUE)
           d == [ds[z] EXCEPT !.edited = "olc"]
<1>1. /\ c # NoCopy /\ room_descs' = [ds EXCEPT ![z].edited = "olc"]
      /\ doors' = [e \in DOMAIN doors |-> IF e[1] = r THEN c.doors[e[2]] ELSE doors[e]]
      /\ redit_copy' = [redit_copy EXCEPT ![p] = NoCopy]
      /\ UNCHANGED <<zone_age, reset_q, zone_timer, walker_in, population>>
  BY DEF redit_save_internally
<1>2. r \in WorldRooms /\ c.doors \in [DirsOf(r) -> ZoneDoor]
  BY <1>1 DEF ZonesInv, CopyFine
<1>3. z \in ZoneNumbers
  BY <1>2, ZonesAssumption DEF WorldRooms
<1>4. DescsFine(room_descs')
  <2> HIDE DEF z
  <2>1. DescsFine(ds) /\ ds[z].locked
    BY <1>3, ReloadedFine DEF ZonesInv
  <2>2. room_descs' = [ds EXCEPT ![z] = d]
    BY <1>1
  <2> HIDE DEF ds
  <2>3. DescFine(d)
    BY <1>3, <2>1 DEF DescsFine, DescFine, Desc
  <2> HIDE DEF d
  <2>4. QED
    BY <1>3, <2>1, <2>2, <2>3, DescPut
<1>5. doors' \in DoorsAre
  <2>1. doors \in [DOMAIN Exits -> ZoneDoor]
    BY DEF ZonesInv, DoorsAre
  <2>2. ASSUME NEW e \in DOMAIN Exits, e[1] = r PROVE c.doors[e[2]] \in ZoneDoor
    <3>1. e[2] \in DirsOf(r)
      BY <2>2 DEF DirsOf
    <3>2. QED
      BY <1>2, <3>1
  <2>3. QED
    BY <1>1, <2>1, <2>2 DEF DoorsAre
<1>6. CopyFine(NoCopy)
  BY DEF CopyFine
<1>7. /\ redit_copy' = [q \in Builders |-> redit_copy'[q]] /\ \A q \in Builders : CopyFine(redit_copy'[q])
      /\ redit_copy'[p] = NoCopy
  BY <1>1, <1>6, CopyPut
<1>8. redit_copy' # redit_copy
  BY <1>1, <1>7
<1>9. QED
  BY <1>1, <1>4, <1>5, <1>7, <1>8 DEF ZonesInv, SidesAgree

LEMMA RoomQuitKeeps ==
    ASSUME ZonesInv, NEW p \in Builders, redit_quit(p)
    PROVE  ZonesInv' /\ SidesAgree
<1>1. CopyFine(NoCopy)
  BY DEF CopyFine
<1>2. redit_copy' = [q \in Builders |-> redit_copy'[q]] /\ \A q \in Builders : CopyFine(redit_copy'[q])
  BY <1>1, CopyPut DEF redit_quit
<1>3. QED
  BY <1>2 DEF redit_quit, ZonesInv, SidesAgree

LEMMA DiskKeeps ==
    ASSUME ZonesInv, NEW z \in ZoneNumbers, redit_save_to_disk(z) \/ \E p \in Builders : do_copyto(p, z)
    PROVE  ZonesInv' /\ SidesAgree
<1>1. /\ UNCHANGED <<zone_age, reset_q, zone_timer, walker_in, doors, population, redit_copy>>
      /\ \E d : DescFine(d) /\ room_descs' = [room_descs EXCEPT ![z] = d]
  <2>1. DescFine(room_descs[z]) /\ z \in DOMAIN room_descs
    BY DEF ZonesInv, DescsFine
  <2>2. CASE redit_save_to_disk(z)
    <3> DEFINE d == [room_descs[z] EXCEPT !.locked = FALSE, !.edited = "no"]
    <3>1. DescFine(d)
      BY <2>1 DEF DescFine, Desc
    <3>2. room_descs' = [room_descs EXCEPT ![z].locked = FALSE, ![z].edited = "no"]
      BY <2>2 DEF redit_save_to_disk
    <3>3. room_descs' = [room_descs EXCEPT ![z] = d]
      <4> DEFINE y == [room_descs EXCEPT ![z].locked = FALSE]
      <4>1. room_descs' = [y EXCEPT ![z].edited = "no"]
        BY <3>2
      <4>2. y[z] = [room_descs[z] EXCEPT !.locked = FALSE] /\ [y[z] EXCEPT !.edited = "no"] = d
        BY <2>1
      <4>3. [y EXCEPT ![z] = d] = [room_descs EXCEPT ![z] = d]
        BY <2>1
      <4>4. QED
        BY <4>1, <4>2, <4>3
    <3> HIDE DEF d
    <3>4. QED
      BY <2>2, <3>1, <3>3 DEF redit_save_to_disk
  <2>3. CASE \E p \in Builders : do_copyto(p, z)
    <3> DEFINE d == [room_descs[z] EXCEPT !.edited = IF @ = "olc" THEN @ ELSE "copy"]
    <3>1. DescFine(d)
      BY <2>1 DEF DescFine, Desc
    <3>2. room_descs' = [room_descs EXCEPT ![z] = d]
      BY <2>3 DEF do_copyto
    <3> HIDE DEF d
    <3>3. QED
      BY <2>3, <3>1, <3>2 DEF do_copyto
  <2>4. QED
    BY <2>2, <2>3
<1>2. DescsFine(room_descs')
  <2>1. PICK d : DescFine(d) /\ room_descs' = [room_descs EXCEPT ![z] = d]
    BY <1>1
  <2>2. DescsFine(room_descs)
    BY DEF ZonesInv
  <2>3. QED
    BY <2>1, <2>2, DescPut
<1>3. QED
  BY <1>1, <1>2 DEF ZonesInv, SidesAgree

LEMMA ZonesStart ==
    ASSUME ZonesInit
    PROVE  ZonesInv
<1>1. 0 \in 0..ZO_DEAD /\ 0 # ZO_DEAD
  BY DEF ZO_DEAD
<1>2. QueueFine(zone_age, reset_q)
  <2>1. zone_age = [z \in ZoneNumbers |-> 0] /\ reset_q = <<>>
    BY DEF ZonesInit
  <2>2. <<>> \in Seq(ZoneNumbers)
    BY EmptySeq
  <2>3. QED
    BY <1>1, <2>1, <2>2 DEF QueueFine
<1>3. AtFirst \in ResetStates
  <2>1. Open \in ZoneDoor
    BY DEF Open, ZoneDoor
  <2>2. [e \in DOMAIN Exits |-> Open] \in DoorsAre
    BY <2>1 DEF DoorsAre
  <2>3. [x \in Kinds \X (WorldRooms \union {Held}) |-> 0] \in Populations
    BY DEF Populations
  <2>4. QED
    BY <2>2, <2>3 DEF AtFirst, ResetStates
<1>4. ResetWorld(AtFirst) \in ResetStates
  BY <1>3, WorldPairs
<1>5. doors \in DoorsAre /\ population \in Populations
  BY <1>4 DEF ZonesInit, ResetStates
<1>6. DescsFine(room_descs)
  <2> DEFINE d == [unloaded |-> FALSE, locked |-> FALSE, edited |-> "no"]
  <2>1. DescFine(d)
    BY DEF DescFine, Desc
  <2>2. d \in Desc
    BY DEF Desc
  <2>3. room_descs = [z \in ZoneNumbers |-> d]
    BY DEF ZonesInit
  <2> HIDE DEF d
  <2>4. QED
    BY <2>1, <2>2, <2>3 DEF DescsFine
<1>7. redit_copy = [p \in Builders |-> redit_copy[p]] /\ \A p \in Builders : CopyFine(redit_copy[p])
  BY DEF ZonesInit, CopyFine
<1>8. QED
  BY <1>2, <1>5, <1>6, <1>7 DEF ZonesInit, ZonesInv

LEMMA ZonesStep ==
    ASSUME PairedResets, ZonesInv, [ZonesNext]_zoneVars
    PROVE  ZonesInv' /\ SidesAgree
<1>1. CASE zone_update
  BY <1>1, ZoneUpdateKeeps
<1>2. CASE do_zreset_all \/ \E z \in ZoneNumbers : do_zreset(z)
  BY <1>2, ZresetKeeps
<1>3. ASSUME NEW z \in ZoneNumbers, redit_save_to_disk(z) \/ \E p \in Builders : do_copyto(p, z)
      PROVE  ZonesInv' /\ SidesAgree
  BY <1>3, DiskKeeps
<1>4. ASSUME NEW k \in Kinds, NEW x \in WorldRooms \union {Held}, Vanish(k, x)
      PROVE  ZonesInv' /\ SidesAgree
  BY <1>4, VanishKeeps
<1>5. ASSUME NEW p \in Walkers,
             \/ LeaveWorld(p) \/ \E r \in WorldRooms : EnterWorld(p, r)
             \/ \E dir \in DOMAIN RevDir : Walk_zones(p, dir)
      PROVE  ZonesInv' /\ SidesAgree
  BY <1>5, WalkersKeep
<1>6. ASSUME NEW p \in Walkers, NEW dir \in DOMAIN RevDir,
             NEW cmd \in {"open", "close", "lock", "unlock", "pick"}, do_gen_door(p, dir, cmd)
      PROVE  ZonesInv' /\ SidesAgree
  BY <1>6, DoorKeeps
<1>7. ASSUME NEW p \in Builders, redit_setup_existing(p) \/ redit_save_internally(p) \/ redit_quit(p)
      PROVE  ZonesInv' /\ SidesAgree
  BY <1>7, RoomSetupKeeps, KeptRoom, RoomQuitKeeps
<1>8. CASE UNCHANGED zoneVars
  BY <1>8 DEF zoneVars, ZonesInv, SidesAgree
<1>9. CASE ZonesNext
  <2>1. \/ zone_update \/ do_zreset_all
        \/ \E z \in ZoneNumbers : do_zreset(z) \/ redit_save_to_disk(z)
        \/ \E k \in Kinds, x \in WorldRooms \union {Held} : Vanish(k, x)
        \/ \E p \in Walkers :
             \/ LeaveWorld(p) \/ \E r \in WorldRooms : EnterWorld(p, r)
             \/ \E dir \in DOMAIN RevDir : Walk_zones(p, dir)
        \/ \E p \in Walkers : \E dir \in DOMAIN RevDir :
             \E cmd \in {"open", "close", "lock", "unlock", "pick"} : do_gen_door(p, dir, cmd)
        \/ \E p \in Builders : redit_setup_existing(p) \/ redit_save_internally(p) \/ redit_quit(p)
        \/ \E p \in Builders : \E z \in ZoneNumbers : do_copyto(p, z)
    BY <1>9 DEF ZonesNext
  <2>2. QED
    BY <1>1, <1>2, <1>3, <1>4, <1>5, <1>6, <1>7, <2>1
<1>10. QED
  BY <1>8, <1>9

LEMMA ZonesInvSound ==
    ASSUME ZonesInv
    PROVE  ZonesSound
<1>1. \A z \in ZoneNumbers : zone_age[z] = ZO_DEAD => \E i \in DOMAIN reset_q : reset_q[i] = z
  BY DEF ZonesInv, QueueFine, InQueue
<1>2. \A z \in ZoneNumbers : room_descs[z].edited = "olc" => ~room_descs[z].unloaded
  BY DEF ZonesInv, DescsFine, DescFine
<1>3. QED
  BY <1>1, <1>2 DEF ZonesSound

(* A zone that is marked as waiting for its reset waits in the queue, what *)
(* is kept in the room editor is not dropped with the descriptions of a    *)
(* deserted zone before it is on disk, and the two sides of a door that    *)
(* agree agree after each reset and each command on doors (db.c:           *)
(* zone_update, reset_zone, unload_room_descs, reload_room_descs;          *)
(* act.wizard.c: do_zreset; act.movement.c: do_doorcmd; redit.c), provided *)
(* that each zone's commands close both sides of a door alike.             *)
THEOREM ZonesAlwaysSafe ==
    ASSUME PairedResets
    PROVE  ZonesSpec => ZonesSafe
<1>1. ZonesInit => ZonesInv
  BY ZonesStart
<1>2. ZonesInv /\ [ZonesNext]_zoneVars => ZonesInv'
  BY ZonesStep
<1>3. ZonesInv /\ [ZonesNext]_zoneVars =>
        [redit_copy' = redit_copy =>
           \A e \in DOMAIN Exits : \A b \in Back(e) : doors[e] = doors[b] => doors'[e] = doors'[b]]_zoneVars
  BY ZonesStep DEF SidesAgree
<1>4. ZonesInv => ZonesSound
  BY ZonesInvSound
<1>5. QED
  BY <1>1, <1>2, <1>3, <1>4, PTL DEF ZonesSpec, ZonesSafe, SidesKeepAgreeing

-----------------------------------------------------------------------------

(* Sums over a finite set, as FoldSet and FoldSeq take them: One is the    *)
(* element that is added first.                                            *)
One(s) == CHOOSE x \in s : TRUE
Added(f, h, s) == IF s = {} THEN 0 ELSE f[One(s)] + h[s \ {One(s)}]
AddsUp(S, f, h) == \A s \in SUBSET S : h[s] = Added(f, h, s)

LEMMA Sizes ==
    ASSUME NEW S, IsFiniteSet(S), NEW s \in SUBSET S
    PROVE  /\ Cardinality(s) \in Nat /\ Cardinality(s) <= Cardinality(S) /\ Cardinality(S) \in Nat
           /\ Cardinality(s) = 0 <=> s = {}
           /\ s # {} => One(s) \in s /\ s \ {One(s)} \in SUBSET S
                        /\ Cardinality(s \ {One(s)}) = Cardinality(s) - 1
<1>1. IsFiniteSet(s) /\ Cardinality(s) <= Cardinality(S)
  BY FS_Subset
<1>2. s # {} => One(s) \in s
  BY DEF One
<1>3. QED
  BY <1>1, <1>2, FS_CardinalityType, FS_EmptySet, FS_RemoveElement

LEMMA LessOne ==
    ASSUME NEW S, IsFiniteSet(S), NEW s \in SUBSET S, s # {}
    PROVE  One(s) \in s /\ s \ {One(s)} \in SUBSET S /\ Cardinality(s \ {One(s)}) = Cardinality(s) - 1
BY Sizes

LEMMA AddingExists ==
    ASSUME NEW S, IsFiniteSet(S), NEW f
    PROVE  \E h : h = [s \in SUBSET S |-> Added(f, h, s)]
<1> DEFINE To(m, h) == \A s \in SUBSET S : Cardinality(s) < m => h[s] = Added(f, h, s)
           P == {m \in Nat : \E h : To(m, h)}
           Next(h) == [s \in SUBSET S |-> Added(f, h, s)]
<1>1. ASSUME NEW m \in Nat, NEW h, To(m, h) PROVE To(m + 1, Next(h))
  <2>1. \A s \in SUBSET S : Cardinality(s) < m => h[s] = Next(h)[s]
    BY <1>1
  <2> HIDE DEF To, Next
  <2>2. ASSUME NEW s \in SUBSET S, Cardinality(s) < m + 1
        PROVE  Added(f, h, s) = Added(f, Next(h), s)
    <3>1. CASE s = {}
      BY <3>1 DEF Added
    <3>2. CASE s # {}
      <4>1. s \ {One(s)} \in SUBSET S /\ Cardinality(s \ {One(s)}) < m
        BY <2>2, <3>2, Sizes
      <4>2. h[s \ {One(s)}] = Next(h)[s \ {One(s)}]
        BY <2>1, <4>1
      <4>3. QED
        BY <4>2 DEF Added
    <3>3. QED
      BY <3>1, <3>2
  <2>3. \A s \in SUBSET S : Next(h)[s] = Added(f, h, s)
    BY DEF Next
  <2>4. QED
    BY <2>2, <2>3 DEF To
<1>2. 0 \in P
  <2>1. To(0, <<>>)
    <3>1. ASSUME NEW s \in SUBSET S PROVE ~ (Cardinality(s) < 0)
      <4>1. Cardinality(s) \in Nat
        BY Sizes
      <4>2. QED
        BY <4>1
    <3>2. QED
      BY <3>1
  <2> HIDE DEF To
  <2>2. QED
    BY <2>1
<1>3. \A m \in P : m + 1 \in P
  <2> HIDE DEF To, Next
  <2>1. QED
    BY <1>1
<1>4. P = Nat
  <2>1. P \in SUBSET Nat
    OBVIOUS
  <2> HIDE DEF P
  <2>2. QED
    BY <1>2, <1>3, <2>1, NatSetInduction
<1>5. PICK h : To(Cardinality(S) + 1, h)
  <2>1. Cardinality(S) + 1 \in Nat
    BY FS_CardinalityType
  <2> HIDE DEF To
  <2>2. QED
    BY <1>4, <2>1
<1>6. \A s \in SUBSET S : h[s] = Added(f, h, s)
  <2>1. ASSUME NEW s \in SUBSET S PROVE Cardinality(s) < Cardinality(S) + 1
    <3>1. Cardinality(s) \in Nat /\ Cardinality(S) \in Nat /\ Cardinality(s) <= Cardinality(S)
      BY Sizes
    <3>2. QED
      BY <3>1
  <2>2. QED
    BY <1>5, <2>1
<1> DEFINE k == [s \in SUBSET S |-> h[s]]
<1>7. ASSUME NEW s \in SUBSET S PROVE Added(f, h, s) = Added(f, k, s)
  <2>1. s \ {One(s)} \in SUBSET S
    OBVIOUS
  <2>2. QED
    BY <2>1 DEF Added
<1>8. k = [s \in SUBSET S |-> Added(f, k, s)]
  <2>1. \A s \in SUBSET S : k[s] = Added(f, k, s)
    BY <1>6, <1>7
  <2>2. k = [s \in SUBSET S |-> k[s]]
    OBVIOUS
  <2> HIDE DEF k
  <2>3. QED
    BY <2>1, <2>2
<1>9. QED
  BY <1>8

(* A sum is an integer, and when one summand changes, the sum does by as   *)
(* much.                                                                   *)
LEMMA SumTyped ==
    ASSUME NEW S, IsFiniteSet(S), NEW f, \A x \in S : f[x] \in Int, NEW h, AddsUp(S, f, h)
    PROVE  h[S] \in Int
<1> DEFINE P == {m \in Nat : \A s \in SUBSET S : Cardinality(s) = m => h[s] \in Int}
<1>1. 0 \in P
  <2>1. ASSUME NEW s \in SUBSET S, Cardinality(s) = 0 PROVE h[s] \in Int
    <3>1. s = {}
      BY <2>1, Sizes
    <3>2. h[s] = 0
      BY <3>1 DEF AddsUp, Added
    <3>3. QED
      BY <3>2
  <2>2. QED
    BY <2>1
<1>2. ASSUME NEW m \in P PROVE m + 1 \in P
  <2>1. ASSUME NEW s \in SUBSET S, Cardinality(s) = m + 1 PROVE h[s] \in Int
    <3>0. m \in Nat
      OBVIOUS
    <3>1. s # {}
      <4>1. Cardinality(s) # 0
        BY <2>1, <3>0
      <4>2. QED
        BY <4>1, Sizes
    <3>2. One(s) \in S /\ s \ {One(s)} \in SUBSET S /\ Cardinality(s \ {One(s)}) = m
      <4>1. One(s) \in s /\ s \ {One(s)} \in SUBSET S /\ Cardinality(s \ {One(s)}) = Cardinality(s) - 1
        BY <3>1, LessOne
      <4>2. QED
        BY <2>1, <3>0, <4>1
    <3>3. h[s] = f[One(s)] + h[s \ {One(s)}]
      BY <3>1 DEF AddsUp, Added
    <3>4. QED
      BY <3>2, <3>3
  <2>2. QED
    BY <2>1
<1>3. P = Nat
  <2>1. P \in SUBSET Nat
    OBVIOUS
  <2> HIDE DEF P
  <2>2. QED
    BY <1>1, <1>2, <2>1, NatSetInduction
<1>4. S \in SUBSET S /\ Cardinality(S) \in Nat
  BY Sizes
<1>5. QED
  BY <1>3, <1>4

LEMMA SumShifts ==
    ASSUME NEW S, IsFiniteSet(S), NEW f, NEW g, NEW h, NEW k, AddsUp(S, f, h), AddsUp(S, g, k),
           \A x \in S : f[x] \in Int, NEW c \in S, NEW d \in Int,
           g[c] = f[c] + d, \A x \in S : x # c => g[x] = f[x]
    PROVE  k[S] = h[S] + d
<1> DEFINE Extra(s) == IF c \in s THEN d ELSE 0
           Q(s) == h[s] \in Int /\ k[s] = h[s] + Extra(s)
           P == {m \in Nat : \A s \in SUBSET S : Cardinality(s) = m => Q(s)}
<1>1. 0 \in P
  <2>1. ASSUME NEW s \in SUBSET S, Cardinality(s) = 0 PROVE Q(s)
    <3>1. s = {}
      BY <2>1, Sizes
    <3>2. h[s] = 0 /\ k[s] = 0
      BY <3>1 DEF AddsUp, Added
    <3>3. QED
      BY <3>1, <3>2
  <2> HIDE DEF Q
  <2>2. QED
    BY <2>1
<1>2. ASSUME NEW m \in P PROVE m + 1 \in P
  <2>1. ASSUME NEW s \in SUBSET S, Cardinality(s) = m + 1 PROVE Q(s)
    <3> DEFINE o == One(s)
               r == s \ {o}
    <3>0. m \in Nat
      OBVIOUS
    <3>1. s # {}
      <4>1. Cardinality(s) # 0
        BY <2>1, <3>0
      <4>2. QED
        BY <4>1, Sizes
    <3>2. o \in s /\ o \in S /\ r \in SUBSET S /\ Cardinality(r) = m
      <4>1. o \in s /\ r \in SUBSET S /\ Cardinality(r) = Cardinality(s) - 1
        BY <3>1, LessOne
      <4>2. QED
        BY <2>1, <3>0, <4>1
    <3>3. h[s] = f[o] + h[r] /\ k[s] = g[o] + k[r]
      BY <3>1 DEF AddsUp, Added
    <3>4. Q(r)
      BY <3>2
    <3>5. f[o] \in Int /\ g[o] = f[o] + IF o = c THEN d ELSE 0
      BY <3>2
    <3>6. (IF o = c THEN d ELSE 0) + Extra(r) = Extra(s)
      BY <3>2
    <3>7. Extra(r) \in Int /\ (IF o = c THEN d ELSE 0) \in Int
      OBVIOUS
    <3> HIDE DEF o, r, Extra
    <3>8. QED
      BY <3>3, <3>4, <3>5, <3>6, <3>7
  <2> HIDE DEF Q
  <2>2. QED
    BY <2>1
<1>3. P = Nat
  <2>1. P \in SUBSET Nat
    OBVIOUS
  <2> HIDE DEF P
  <2>2. QED
    BY <1>1, <1>2, <2>1, NatSetInduction
<1>4. S \in SUBSET S /\ Cardinality(S) \in Nat
  BY Sizes
<1>5. Q(S)
  <2> HIDE DEF Q
  <2>1. QED
    BY <1>3, <1>4
<1>6. QED
  BY <1>5

-----------------------------------------------------------------------------
(* Lists without some of their elements: the others, in their order.       *)
OneToOne(s) == \A i \in DOMAIN s, j \in DOMAIN s : s[i] = s[j] => i = j

WithoutFold(s, S, h, t) ==
  IF t = {} THEN <<>>
  ELSE IF s[Max(t)] \in S THEN h[t \ {Max(t)}] ELSE Append(h[t \ {Max(t)}], s[Max(t)])

LEMMA WithoutFoldIs ==
    ASSUME NEW s, NEW S
    PROVE  WithoutThese(s, S) = (CHOOSE h : h = [t \in SUBSET DOMAIN s |-> WithoutFold(s, S, h, t)])[DOMAIN s]
BY Zenon DEF WithoutThese, FoldLeft, MapThenFoldSet, WithoutFold

LEMMA WithoutRuns ==
    ASSUME NEW T, NEW s \in Seq(T), NEW S
    PROVE  \E g : /\ g[0] = <<>> /\ WithoutThese(s, S) = g[Len(s)]
                  /\ \A i \in 1..Len(s) : g[i] = IF s[i] \in S THEN g[i - 1] ELSE Append(g[i - 1], s[i])
                  /\ \A i \in 0..Len(s) : g[i] \in Seq(T)
<1> DEFINE n == Len(s)
           V == Seq(T)
           N(i, v) == IF s[i] \in S THEN v ELSE Append(v, s[i])
           G == [x \in (1..n) \X V |-> N(x[1], x[2])]
           F(h, t) == IF t = {} THEN <<>> ELSE N(Max(t), h[t \ {Max(t)}])
           h == CHOOSE h : h = [t \in SUBSET (1..n) |-> WithoutFold(s, S, h, t)]
<1>1. n \in Nat /\ DOMAIN s = 1..n /\ \A i \in 1..n : s[i] \in T
  BY LenProperties, ElementOfSeq
<1>2. <<>> \in V
  BY EmptySeq
<1>3. WithoutThese(s, S) = h[1..n]
  BY <1>1, WithoutFoldIs
<1>4. \A i \in 1..n : \A v \in V : N(i, v) \in V
  <2>1. ASSUME NEW i \in 1..n, NEW v \in V PROVE Append(v, s[i]) \in V
    BY <1>1, AppendProperties
  <2>2. QED
    BY <2>1
<1> HIDE DEF n, V
<1>5. G \in [(1..n) \X V -> V]
  BY <1>4
<1>6. ASSUME NEW t \in SUBSET (1..n), NEW k PROVE WithoutFold(s, S, k, t) = F(k, t)
  BY DEF WithoutFold
<1> HIDE DEF N
<1>7. h = [t \in SUBSET (1..n) |-> WithoutFold(s, S, h, t)]
  <2> HIDE DEF G
  <2>1. PICK k : FoldsUp(n, <<>>, G, k) /\ \A t \in SUBSET (1..n) : k[t] \in V
    BY <1>1, <1>2, <1>5, FoldExists
  <2>2. ASSUME NEW t \in SUBSET (1..n) PROVE k[t] = F(k, t)
    <3>1. t # {} => Max(t) \in 1..n /\ t \ {Max(t)} \in SUBSET (1..n)
      BY <1>1, MaxIn
    <3>2. k[t] = Folded(n, <<>>, G, k, t)
      BY <2>1 DEF FoldsUp
    <3>3. CASE t = {}
      BY <3>2, <3>3 DEF Folded
    <3>4. CASE t # {}
      <4> DEFINE m == Max(t)
                 v == k[t \ {m}]
      <4>1. m \in 1..n /\ v \in V
        BY <2>1, <3>1, <3>4
      <4>2. k[t] = G[<<m, v>>]
        BY <3>2, <3>4 DEF Folded
      <4> HIDE DEF m, v
      <4>3. G[<<m, v>>] = N(m, v)
        BY <4>1 DEF G
      <4>4. QED
        BY <3>4, <4>2, <4>3 DEF m, v
    <3>5. QED
      BY <3>3, <3>4
  <2> DEFINE f == [t \in SUBSET (1..n) |-> k[t]]
  <2>3. ASSUME NEW t \in SUBSET (1..n) PROVE f[t] = WithoutFold(s, S, f, t)
    <3>1. t \ {Max(t)} \in SUBSET (1..n)
      OBVIOUS
    <3>2. f[t] = k[t] /\ f[t \ {Max(t)}] = k[t \ {Max(t)}]
      BY <3>1
    <3> HIDE DEF f
    <3>3. f[t] = F(f, t)
      BY <2>2, <3>2
    <3>4. QED
      BY <1>6, <3>3
  <2>4. f = [t \in SUBSET (1..n) |-> f[t]]
    OBVIOUS
  <2> HIDE DEF f
  <2>5. f = [t \in SUBSET (1..n) |-> WithoutFold(s, S, f, t)]
    BY <2>3, <2>4
  <2>6. QED
    BY <2>5
<1> HIDE DEF h, G
<1> DEFINE g == [i \in 0..n |-> h[1..i]]
<1>8. ASSUME NEW i \in 1..n PROVE g[i] = N(i, g[i - 1])
  <2>1. i \in 0..n /\ i - 1 \in 0..n
    BY <1>1
  <2>2. h[1..i] = F(h, 1..i)
    BY <1>1, <1>6, <1>7, UpTo
  <2>3. h[1..i] = N(i, h[1..(i - 1)])
    BY <1>1, <2>2, UpTo
  <2>4. QED
    BY <2>1, <2>3
<1>9. g[0] = <<>> /\ g[n] = h[1..n]
  <2>1. 0 \in 0..n /\ n \in 0..n /\ 1..0 = {} /\ 1..0 \in SUBSET (1..n)
    BY <1>1
  <2>2. h[1..0] = F(h, 1..0)
    BY <1>6, <1>7, <2>1
  <2>3. QED
    BY <2>1, <2>2
<1> HIDE DEF g
<1>10. \A i \in 0..n : g[i] \in V
  <2>1. \A i \in 1..n : g[i - 1] \in V => g[i] \in V
    BY <1>4, <1>8
  <2>2. QED
    BY <1>1, <1>2, <1>9, <2>1, StaysIn
<1>11. QED
  BY <1>3, <1>8, <1>9, <1>10 DEF V, n, N

LEMMA AppendIs ==
    ASSUME NEW T, NEW v \in Seq(T), NEW x \in T
    PROVE  /\ Append(v, x) \in Seq(T) /\ DOMAIN v = 1..Len(v) /\ Len(v) \in Nat
           /\ DOMAIN Append(v, x) = 1..(Len(v) + 1) /\ Append(v, x)[Len(v) + 1] = x
           /\ \A j \in 1..Len(v) : Append(v, x)[j] = v[j]
BY LenProperties, AppendProperties

(* v has what is not in S of the first i of s.                             *)
Spares(s, S, i, v) ==
  /\ \A j \in DOMAIN v : \E k \in 1..i : v[j] = s[k] /\ s[k] \notin S
  /\ \A k \in 1..i : s[k] \notin S => \E j \in DOMAIN v : v[j] = s[k]
  /\ OneToOne(s) => OneToOne(v)

LEMMA SparesNext ==
    ASSUME NEW T, NEW s \in Seq(T), NEW S, NEW i \in 1..Len(s), NEW v \in Seq(T), Spares(s, S, i - 1, v)
    PROVE  Spares(s, S, i, IF s[i] \in S THEN v ELSE Append(v, s[i]))
<1>1. /\ DOMAIN s = 1..Len(s) /\ Len(s) \in Nat /\ s[i] \in T /\ i \in Nat /\ i \in 1..i
      /\ 1..(i - 1) \subseteq DOMAIN s /\ 1..(i - 1) \subseteq 1..i /\ i \notin 1..(i - 1)
      /\ \A k \in 1..i : k = i \/ k \in 1..(i - 1)
  BY LenProperties, ElementOfSeq
<1>2. CASE s[i] \in S
  BY <1>1, <1>2 DEF Spares
<1>3. CASE s[i] \notin S
  <2> DEFINE w == Append(v, s[i])
             m == Len(v) + 1
  <2>1. /\ DOMAIN v = 1..Len(v) /\ Len(v) \in Nat
        /\ DOMAIN w = 1..m /\ w[m] = s[i] /\ \A j \in 1..Len(v) : w[j] = v[j]
    BY <1>1, AppendIs
  <2>2. DOMAIN v \subseteq DOMAIN w /\ m \in DOMAIN w /\ \A j \in DOMAIN w : j = m \/ j \in DOMAIN v
    BY <2>1
  <2>3. \A j \in DOMAIN v : w[j] = v[j]
    BY <2>1
  <2> HIDE DEF w, m
  <2>4. ASSUME NEW j \in DOMAIN w PROVE \E k \in 1..i : w[j] = s[k] /\ s[k] \notin S
    <3>1. CASE j = m
      BY <1>1, <1>3, <2>1, <3>1
    <3>2. CASE j \in DOMAIN v
      BY <1>1, <2>3, <3>2 DEF Spares
    <3>3. QED
      BY <2>2, <3>1, <3>2
  <2>5. ASSUME NEW k \in 1..i, s[k] \notin S PROVE \E j \in DOMAIN w : w[j] = s[k]
    <3>1. CASE k = i
      BY <2>1, <2>2, <3>1
    <3>2. CASE k \in 1..(i - 1)
      <4>1. PICK j \in DOMAIN v : v[j] = s[k]
        BY <2>5, <3>2 DEF Spares
      <4>2. QED
        BY <2>2, <2>3, <4>1
    <3>3. QED
      BY <1>1, <3>1, <3>2
  <2>6. ASSUME OneToOne(s) PROVE OneToOne(w)
    <3>1. ASSUME NEW j \in DOMAIN v PROVE w[j] # s[i]
      <4>1. PICK k \in 1..(i - 1) : v[j] = s[k]
        BY <3>1 DEF Spares
      <4>2. k \in DOMAIN s /\ i \in DOMAIN s /\ k # i
        BY <1>1, <4>1
      <4>3. s[k] # s[i]
        BY <2>6, <4>2 DEF OneToOne
      <4>4. QED
        BY <2>3, <4>1, <4>3
    <3>2. ASSUME NEW j \in DOMAIN v, NEW k \in DOMAIN v, w[j] = w[k] PROVE j = k
      BY <2>3, <2>6, <3>2 DEF Spares, OneToOne
    <3>3. QED
      BY <2>1, <2>2, <3>1, <3>2 DEF OneToOne
  <2>7. Spares(s, S, i, w)
    BY <2>4, <2>5, <2>6 DEF Spares
  <2>8. QED
    BY <1>3, <2>7 DEF w
<1>4. QED
  BY <1>2, <1>3

LEMMA SparedIs ==
    ASSUME NEW T, NEW s \in Seq(T), NEW S
    PROVE  /\ WithoutThese(s, S) \in Seq(T) /\ ToSet(WithoutThese(s, S)) = ToSet(s) \ S
           /\ OneToOne(s) => OneToOne(WithoutThese(s, S))
<1> DEFINE n == Len(s)
           r == WithoutThese(s, S)
<1>1. PICK g : /\ g[0] = <<>> /\ r = g[n]
               /\ \A i \in 1..n : g[i] = IF s[i] \in S THEN g[i - 1] ELSE Append(g[i - 1], s[i])
               /\ \A i \in 0..n : g[i] \in Seq(T)
  BY WithoutRuns
<1>2. n \in Nat /\ DOMAIN s = 1..n
  BY LenProperties
<1> HIDE DEF n, r
<1> DEFINE P == {i \in Nat : i <= n => Spares(s, S, i, g[i])}
<1>3. 0 \in P
  <2>1. 1..0 = {} /\ DOMAIN <<>> = {}
    OBVIOUS
  <2>2. Spares(s, S, 0, <<>>)
    BY <2>1 DEF Spares, OneToOne
  <2>3. QED
    BY <1>1, <2>2
<1>4. ASSUME NEW i \in P PROVE i + 1 \in P
  <2>1. i \in Nat /\ i + 1 \in Nat /\ (i + 1) - 1 = i
    OBVIOUS
  <2>2. ASSUME i + 1 <= n PROVE Spares(s, S, i + 1, g[i + 1])
    <3> DEFINE k == i + 1
    <3>1. k \in 1..n /\ k - 1 = i /\ i <= n /\ i \in 0..n
      BY <1>2, <2>1, <2>2
    <3>2. Spares(s, S, k - 1, g[k - 1]) /\ g[k - 1] \in Seq(T)
      BY <1>1, <3>1
    <3> HIDE DEF k
    <3>3. g[k] = IF s[k] \in S THEN g[k - 1] ELSE Append(g[k - 1], s[k])
      BY <1>1, <3>1
    <3>4. k \in 1..Len(s)
      BY <3>1 DEF n
    <3>5. Spares(s, S, k, g[k])
      BY <3>2, <3>3, <3>4, SparesNext
    <3>6. QED
      BY <3>5 DEF k
  <2>3. QED
    BY <2>1, <2>2
<1>5. P = Nat
  <2> HIDE DEF P
  <2>1. P \in SUBSET Nat
    BY DEF P
  <2>2. QED
    BY <1>3, <1>4, <2>1, NatSetInduction
<1>6. Spares(s, S, n, r) /\ r \in Seq(T)
  <2>1. n \in 0..n /\ n <= n
    BY <1>2
  <2>2. QED
    BY <1>1, <1>2, <1>5, <2>1
<1>7. ToSet(r) = ToSet(s) \ S
  <2>1. ASSUME NEW y \in ToSet(r) PROVE y \in ToSet(s) \ S
    <3>1. PICK j \in DOMAIN r : y = r[j]
      BY DEF ToSet
    <3>2. PICK k \in 1..n : r[j] = s[k] /\ s[k] \notin S
      BY <1>6, <3>1 DEF Spares
    <3>3. QED
      BY <1>2, <3>1, <3>2 DEF ToSet
  <2>2. ASSUME NEW y \in ToSet(s) \ S PROVE y \in ToSet(r)
    <3>1. PICK k \in 1..n : y = s[k]
      BY <1>2 DEF ToSet
    <3>2. PICK j \in DOMAIN r : r[j] = s[k]
      BY <1>6, <2>2, <3>1 DEF Spares
    <3>3. QED
      BY <3>1, <3>2 DEF ToSet
  <2>3. QED
    BY <2>1, <2>2
<1>8. QED
  BY <1>6, <1>7 DEF Spares, r

LEMMA PrependIs ==
    ASSUME NEW T, NEW s \in Seq(T), NEW x \in T
    PROVE  /\ <<x>> \o s \in Seq(T) /\ ToSet(<<x>> \o s) = ToSet(s) \union {x}
           /\ OneToOne(s) /\ x \notin ToSet(s) => OneToOne(<<x>> \o s)
<1> DEFINE w == <<x>> \o s
           n == Len(s)
<1>1. n \in Nat /\ DOMAIN s = 1..n /\ <<x>> \in Seq(T) /\ Len(<<x>>) = 1 /\ <<x>>[1] = x
  BY LenProperties
<1>2. /\ w \in Seq(T) /\ Len(w) = n + 1 /\ w[1] = x
      /\ \A i \in 1..n : w[i + 1] = s[i]
  BY <1>1, ConcatProperties
<1>3. DOMAIN w = 1..(n + 1)
  BY <1>2, LenProperties
<1> HIDE DEF w, n
<1>4. \A j \in DOMAIN w : j = 1 \/ (j - 1 \in DOMAIN s /\ w[j] = s[j - 1])
  <2>1. ASSUME NEW j \in DOMAIN w, j # 1 PROVE j - 1 \in 1..n /\ w[j] = s[j - 1]
    <3>1. j - 1 \in 1..n /\ (j - 1) + 1 = j
      BY <1>1, <1>3, <2>1
    <3>2. QED
      BY <1>2, <3>1
  <2>2. QED
    BY <1>1, <2>1
<1>5. \A i \in DOMAIN s : i + 1 \in DOMAIN w /\ w[i + 1] = s[i]
  BY <1>1, <1>2, <1>3
<1>6. 1 \in DOMAIN w
  BY <1>1, <1>3
<1>7. ToSet(w) = ToSet(s) \union {x}
  <2>1. ASSUME NEW y \in ToSet(w) PROVE y \in ToSet(s) \union {x}
    <3>1. PICK j \in DOMAIN w : y = w[j]
      BY DEF ToSet
    <3>2. QED
      BY <1>2, <1>4, <3>1 DEF ToSet
  <2>2. ASSUME NEW y \in ToSet(s) PROVE y \in ToSet(w)
    <3>1. PICK i \in DOMAIN s : y = s[i]
      BY DEF ToSet
    <3>2. QED
      BY <1>5, <3>1 DEF ToSet
  <2>3. x \in ToSet(w)
    BY <1>2, <1>6 DEF ToSet
  <2>4. QED
    BY <2>1, <2>2, <2>3
<1>8. ASSUME OneToOne(s), x \notin ToSet(s) PROVE OneToOne(w)
  <2>1. ASSUME NEW j \in DOMAIN w, j # 1 PROVE w[j] # x
    <3>1. j - 1 \in DOMAIN s /\ w[j] = s[j - 1]
      BY <1>4, <2>1
    <3>2. QED
      BY <1>8, <3>1 DEF ToSet
  <2>2. ASSUME NEW i \in DOMAIN w, NEW j \in DOMAIN w, w[i] = w[j], i # 1, j # 1 PROVE i = j
    <3>1. /\ i - 1 \in DOMAIN s /\ w[i] = s[i - 1] /\ j - 1 \in DOMAIN s /\ w[j] = s[j - 1]
      BY <1>4, <2>2
    <3>2. i - 1 = j - 1
      BY <1>8, <2>2, <3>1 DEF OneToOne
    <3>3. i \in Int /\ j \in Int
      BY <1>1, <1>3
    <3>4. QED
      BY <3>2, <3>3
  <2>3. QED
    BY <1>2, <2>1, <2>2 DEF OneToOne
<1>9. QED
  BY <1>2, <1>7, <1>8 DEF w

-----------------------------------------------------------------------------
(* The lists of people: everybody who is here is in one place of one list. *)
PlacesFine(spot, here) ==
  /\ spot \in [CastRooms -> Seq(Casters)] /\ \A r \in CastRooms : OneToOne(spot[r])
  /\ \A c \in Casters : c \in here <=> \E r \in CastRooms : c \in ToSet(spot[r])
  /\ \A r \in CastRooms, q \in CastRooms : r # q => ToSet(spot[r]) \intersect ToSet(spot[q]) = {}
Living(v) == {c \in Casters : Here(v, c)}
World(v) ==
  /\ DOMAIN v = {"spot", "life", "hp", "mana", "master", "grouped", "rods"}
  /\ v.life = [c \in Casters |-> v.life[c]] /\ v.mana \in [Casters -> Nat] /\ v.rods \in [DOMAIN Rods -> Int]
  /\ PlacesFine(v.spot, Living(v))

LEMMA SpotsAre ==
    ASSUME NEW spot, NEW here, PlacesFine(spot, here), NEW r \in CastRooms
    PROVE  spot[r] \in Seq(Casters) /\ OneToOne(spot[r]) /\ ToSet(spot[r]) \subseteq Casters \intersect here
<1>1. spot[r] \in Seq(Casters) /\ OneToOne(spot[r])
  BY DEF PlacesFine
<1>2. ASSUME NEW c \in ToSet(spot[r]) PROVE c \in Casters /\ c \in here
  <2>1. PICK i \in DOMAIN spot[r] : c = spot[r][i]
    BY DEF ToSet
  <2>2. c \in Casters
    BY <1>1, <2>1, LenProperties, ElementOfSeq
  <2>3. QED
    BY <2>2 DEF PlacesFine
<1>3. QED
  BY <1>1, <1>2

LEMMA RoomIs ==
    ASSUME NEW v, World(v), NEW c \in Living(v)
    PROVE  RoomNow(v, c) \in CastRooms /\ c \in ToSet(RoomMates(v, c))
<1>1. \E r \in CastRooms : c \in ToSet(v.spot[r])
  BY DEF World, PlacesFine, Living
<1>2. QED
  BY <1>1 DEF RoomNow, RoomMates

(* Those who share a room with one who is here are here; the list has a    *)
(* first, and the next of anybody is somebody else.                        *)
LEMMA MatesAre ==
    ASSUME NEW v, World(v), NEW c \in Living(v)
    PROVE  /\ ToSet(RoomMates(v, c)) \subseteq Living(v) /\ RoomMates(v, c)[1] \in Living(v)
           /\ NextInRoom(v, c) = None \/ NextInRoom(v, c) \in Living(v) \ {c}
<1> DEFINE r == RoomNow(v, c)
           s == RoomMates(v, c)
           i == CHOOSE k \in DOMAIN s : s[k] = c
<1>1. s = v.spot[r] /\ r \in CastRooms /\ c \in ToSet(s)
  BY RoomIs DEF RoomMates
<1>2. s \in Seq(Casters) /\ OneToOne(s) /\ ToSet(s) \subseteq Living(v)
  BY <1>1, SpotsAre DEF World
<1>3. i \in DOMAIN s /\ s[i] = c
  BY <1>1 DEF ToSet
<1>4. DOMAIN s = 1..Len(s) /\ Len(s) \in Nat
  BY <1>2, LenProperties
<1>5. NextInRoom(v, c) = IF i = Len(s) THEN None ELSE s[i + 1]
  BY DEF NextInRoom
<1> HIDE DEF s, i
<1>6. 1 \in DOMAIN s
  BY <1>3, <1>4
<1>7. i # Len(s) => i + 1 \in DOMAIN s /\ i + 1 # i
  BY <1>3, <1>4
<1>8. i # Len(s) => s[i + 1] \in ToSet(s) /\ s[i + 1] # c
  BY <1>2, <1>3, <1>7 DEF OneToOne, ToSet
<1>9. s[1] \in ToSet(s)
  BY <1>6 DEF ToSet
<1>10. QED
  BY <1>2, <1>5, <1>8, <1>9 DEF s

(* Some are taken out of the lists, one goes from one list to another.     *)
LEMMA PlacesLess ==
    ASSUME NEW spot, NEW here, PlacesFine(spot, here), NEW S
    PROVE  PlacesFine([r \in CastRooms |-> WithoutThese(spot[r], S)], here \ S)
<1> DEFINE new == [r \in CastRooms |-> WithoutThese(spot[r], S)]
<1>1. ASSUME NEW r \in CastRooms
      PROVE  /\ new[r] \in Seq(Casters) /\ OneToOne(new[r]) /\ ToSet(new[r]) = ToSet(spot[r]) \ S
  <2>1. spot[r] \in Seq(Casters) /\ OneToOne(spot[r])
    BY SpotsAre
  <2>2. new[r] = WithoutThese(spot[r], S)
    OBVIOUS
  <2> HIDE DEF new
  <2>3. QED
    BY <2>1, <2>2, SparedIs
<1>2. new \in [CastRooms -> Seq(Casters)]
  BY <1>1
<1> HIDE DEF new
<1>3. \A c \in Casters : c \in here \ S <=> \E r \in CastRooms : c \in ToSet(new[r])
  BY <1>1 DEF PlacesFine
<1>4. \A r \in CastRooms, q \in CastRooms : r # q => ToSet(new[r]) \intersect ToSet(new[q]) = {}
  BY <1>1 DEF PlacesFine
<1>5. PlacesFine(new, here \ S)
  BY <1>1, <1>2, <1>3, <1>4 DEF PlacesFine
<1>6. QED
  BY <1>5 DEF new

LEMMA PlacesMore ==
    ASSUME NEW spot, NEW here, PlacesFine(spot, here), NEW c \in Casters \ here, NEW r \in CastRooms
    PROVE  PlacesFine([spot EXCEPT ![r] = <<c>> \o @], here \union {c})
<1> DEFINE w == <<c>> \o spot[r]
           new == [spot EXCEPT ![r] = w]
<1>1. spot \in [CastRooms -> Seq(Casters)] /\ spot[r] \in Seq(Casters) /\ OneToOne(spot[r])
  BY DEF PlacesFine
<1>2. \A q \in CastRooms : c \notin ToSet(spot[q])
  BY DEF PlacesFine
<1>3. w \in Seq(Casters) /\ OneToOne(w) /\ ToSet(w) = ToSet(spot[r]) \union {c}
  BY <1>1, <1>2, PrependIs
<1> HIDE DEF w
<1>4. new \in [CastRooms -> Seq(Casters)] /\ \A q \in CastRooms : new[q] = IF q = r THEN w ELSE spot[q]
  BY <1>1, <1>3
<1> HIDE DEF new
<1>5. \A q \in CastRooms : ToSet(new[q]) = IF q = r THEN ToSet(spot[q]) \union {c} ELSE ToSet(spot[q])
  BY <1>3, <1>4
<1>6. \A q \in CastRooms : OneToOne(new[q])
  BY <1>3, <1>4 DEF PlacesFine
<1>7. \A d \in Casters : d \in here \union {c} <=> \E q \in CastRooms : d \in ToSet(new[q])
  BY <1>5 DEF PlacesFine
<1>8. \A q \in CastRooms, p \in CastRooms : q # p => ToSet(new[q]) \intersect ToSet(new[p]) = {}
  <2>1. ASSUME NEW q \in CastRooms, NEW p \in CastRooms, q # p, NEW x \in ToSet(new[q]), x \in ToSet(new[p])
        PROVE  FALSE
    <3>1. ToSet(spot[q]) \intersect ToSet(spot[p]) = {}
      BY <2>1 DEF PlacesFine
    <3>2. /\ x \in ToSet(spot[q]) \/ (q = r /\ x = c)
          /\ x \in ToSet(spot[p]) \/ (p = r /\ x = c)
      BY <1>5, <2>1
    <3>3. QED
      BY <1>2, <2>1, <3>1, <3>2
  <2>2. QED
    BY <2>1
<1>9. PlacesFine(new, here \union {c})
  BY <1>4, <1>6, <1>7, <1>8 DEF PlacesFine
<1>10. QED
  BY <1>9 DEF new, w

LEMMA PlacesMoved ==
    ASSUME NEW spot, NEW here, PlacesFine(spot, here), NEW r \in CastRooms, NEW c \in ToSet(spot[r])
    PROVE  PlacesFine([spot EXCEPT ![r] = WithoutThese(@, {c})], here \ {c})
<1> DEFINE w == WithoutThese(spot[r], {c})
           new == [spot EXCEPT ![r] = w]
<1>1. spot \in [CastRooms -> Seq(Casters)] /\ spot[r] \in Seq(Casters) /\ OneToOne(spot[r])
  BY DEF PlacesFine
<1>2. \A q \in CastRooms : q # r => c \notin ToSet(spot[q])
  BY DEF PlacesFine
<1>3. w \in Seq(Casters) /\ OneToOne(w) /\ ToSet(w) = ToSet(spot[r]) \ {c}
  BY <1>1, SparedIs
<1> HIDE DEF w
<1>4. new \in [CastRooms -> Seq(Casters)] /\ \A q \in CastRooms : new[q] = IF q = r THEN w ELSE spot[q]
  BY <1>1, <1>3
<1> HIDE DEF new
<1>5. \A q \in CastRooms : ToSet(new[q]) = ToSet(spot[q]) \ {c}
  <2>1. ASSUME NEW q \in CastRooms PROVE ToSet(new[q]) = ToSet(spot[q]) \ {c}
    <3>1. CASE q = r
      BY <1>3, <1>4, <3>1
    <3>2. CASE q # r
      BY <1>2, <1>4, <3>2
    <3>3. QED
      BY <3>1, <3>2
  <2>2. QED
    BY <2>1
<1>6. \A q \in CastRooms : OneToOne(new[q])
  BY <1>3, <1>4 DEF PlacesFine
<1>7. \A d \in Casters : d \in here \ {c} <=> \E q \in CastRooms : d \in ToSet(new[q])
  BY <1>5 DEF PlacesFine
<1>8. \A q \in CastRooms, p \in CastRooms : q # p => ToSet(new[q]) \intersect ToSet(new[p]) = {}
  BY <1>5 DEF PlacesFine
<1>9. PlacesFine(new, here \ {c})
  BY <1>4, <1>6, <1>7, <1>8 DEF PlacesFine
<1>10. QED
  BY <1>9 DEF new, w

-----------------------------------------------------------------------------
(* What the operators do with a world.                                     *)
SameLives(v, w) == World(w) /\ Living(w) = Living(v) /\ w.mana = v.mana /\ w.rods = v.rods

LEMMA AlikeIs ==
    ASSUME NEW v, World(v), NEW w, DOMAIN w = DOMAIN v, w.spot = v.spot, w.life = v.life,
           w.mana \in [Casters -> Nat], w.rods \in [DOMAIN Rods -> Int]
    PROVE  World(w) /\ Living(w) = Living(v)
<1>1. Living(w) = Living(v)
  BY DEF Living, Here
<1>2. QED
  BY <1>1 DEF World

LEMMA SameIs ==
    ASSUME NEW v, World(v), NEW x
    PROVE  SameLives(v, v) /\ SameLives(v, [v EXCEPT !.hp = x])
<1> DEFINE w == [v EXCEPT !.hp = x]
<1>1. /\ v.mana \in [Casters -> Nat] /\ v.rods \in [DOMAIN Rods -> Int]
      /\ DOMAIN v = {"spot", "life", "hp", "mana", "master", "grouped", "rods"}
  BY DEF World
<1>2. DOMAIN w = DOMAIN v /\ w.spot = v.spot /\ w.life = v.life /\ w.mana = v.mana /\ w.rods = v.rods
  BY <1>1
<1> HIDE DEF w
<1>3. World(w) /\ Living(w) = Living(v)
  BY <1>1, <1>2, AlikeIs
<1>4. QED
  BY <1>2, <1>3 DEF SameLives, w

(* c falls, and only pets with him.                                        *)
Falls(v, w, c) ==
  /\ World(w) /\ w.mana = v.mana /\ c \notin Living(w)
  /\ Living(w) \subseteq Living(v) /\ Living(v) \subseteq Living(w) \union {c} \union Pets

LEMMA LeavesIs ==
    ASSUME NEW v, World(v), NEW c \in Casters
    PROVE  Falls(v, LeavesGame(v, c), c)
<1> DEFINE w == LeavesGame(v, c)
           dead == {c} \union {p \in Pets : v.master[p] = c}
           spot == [r \in CastRooms |-> WithoutThese(v.spot[r], dead)]
           life == [x \in Casters |-> IF x \notin dead THEN v.life[x] ELSE IF x \in CastMobs THEN "freed" ELSE "menu"]
<1>1. DOMAIN w = DOMAIN v /\ w.spot = spot /\ w.life = life /\ w.mana = v.mana /\ w.rods = v.rods
  BY DEF World, LeavesGame
<1> HIDE DEF w, spot
<1>2. Living(w) = Living(v) \ dead
  BY <1>1 DEF Living, Here, life
<1>3. PlacesFine(spot, Living(v) \ dead)
  BY PlacesLess DEF World, spot
<1>4. World(w)
  <2>1. life = [x \in Casters |-> life[x]]
    OBVIOUS
  <2> HIDE DEF life
  <2>2. QED
    BY <1>1, <1>2, <1>3, <2>1 DEF World
<1>5. dead \subseteq {c} \union Pets /\ c \in dead
  OBVIOUS
<1>6. QED
  BY <1>1, <1>2, <1>4, <1>5 DEF Falls, w

LEMMA DamageIs ==
    ASSUME NEW v, World(v), NEW c \in Casters, NEW w \in Damage(v, c)
    PROVE  SameLives(v, w) \/ Falls(v, w, c)
<1>1. w = v \/ w = [v EXCEPT !.hp[c] = @ - 1] \/ w = LeavesGame(v, c)
  BY DEF Damage
<1>2. [v EXCEPT !.hp[c] = @ - 1] = [v EXCEPT !.hp = [v.hp EXCEPT ![c] = v.hp[c] - 1]]
  OBVIOUS
<1>3. CASE w = [v EXCEPT !.hp = [v.hp EXCEPT ![c] = v.hp[c] - 1]]
  BY <1>3, SameIs
<1>4. CASE w = LeavesGame(v, c)
  BY <1>4, LeavesIs
<1>5. CASE w = v
  BY <1>5, SameIs
<1>6. QED
  BY <1>1, <1>2, <1>3, <1>4, <1>5

LEMMA FleeIs ==
    ASSUME NEW v, World(v), NEW c \in Living(v), NEW w \in do_flee(v, c)
    PROVE  SameLives(v, w)
<1>1. CASE w = v
  BY <1>1, SameIs
<1>2. CASE w # v
  <2> DEFINE R == RoomNow(v, c)
             left == [v.spot EXCEPT ![R] = WithoutThese(@, {c})]
  <2>1. PICK r \in CastRooms \ {R} : w = [v EXCEPT !.spot = [left EXCEPT ![r] = <<c>> \o left[r]]]
    BY <1>2 DEF do_flee
  <2> DEFINE spot == [left EXCEPT ![r] = <<c>> \o left[r]]
  <2>2. R \in CastRooms /\ c \in ToSet(v.spot[R]) /\ PlacesFine(v.spot, Living(v)) /\ c \in Casters
    BY RoomIs DEF RoomMates, World, Living
  <2> HIDE DEF R
  <2>3. PlacesFine(left, Living(v) \ {c})
    BY <2>2, PlacesMoved
  <2> HIDE DEF left
  <2>4. PlacesFine(spot, (Living(v) \ {c}) \union {c})
    BY <2>2, <2>3, PlacesMore
  <2>5. (Living(v) \ {c}) \union {c} = Living(v)
    OBVIOUS
  <2> HIDE DEF spot
  <2>6. DOMAIN w = DOMAIN v /\ w.spot = spot /\ w.life = v.life /\ w.mana = v.mana /\ w.rods = v.rods
    BY <2>1 DEF World, spot
  <2>7. Living(w) = Living(v)
    BY <2>6 DEF Living, Here
  <2>8. QED
    BY <2>4, <2>5, <2>6, <2>7 DEF SameLives, World
<1>3. QED
  BY <1>1, <1>2

(* All the mana there is.                                                  *)
LEMMA ManaIs ==
    ASSUME NEW v
    PROVE  TotalMana(v) = (CHOOSE h : h = [s \in SUBSET Casters |-> Added(v.mana, h, s)])[Casters]
BY Zenon DEF TotalMana, MapThenSumSet, MapThenFoldSet, Added, One

LEMMA ManaAdds ==
    ASSUME NEW v
    PROVE  \E h : AddsUp(Casters, v.mana, h) /\ TotalMana(v) = h[Casters]
<1> DEFINE h == CHOOSE h : h = [s \in SUBSET Casters |-> Added(v.mana, h, s)]
<1>1. h = [s \in SUBSET Casters |-> Added(v.mana, h, s)]
  BY AddingExists, PlacesAssumption
<1>2. TotalMana(v) = h[Casters]
  BY ManaIs
<1> HIDE DEF h
<1>3. AddsUp(Casters, v.mana, h)
  BY <1>1 DEF AddsUp
<1>4. QED
  BY <1>2, <1>3

LEMMA TotalTyped ==
    ASSUME NEW v, \A x \in Casters : v.mana[x] \in Int
    PROVE  TotalMana(v) \in Int
<1> DEFINE f == v.mana
<1>1. PICK h : AddsUp(Casters, f, h) /\ TotalMana(v) = h[Casters]
  BY ManaAdds
<1>2. \A x \in Casters : f[x] \in Int
  OBVIOUS
<1> HIDE DEF f
<1>3. QED
  BY <1>1, <1>2, PlacesAssumption, SumTyped

Shifted(v, w, c, d) ==
  /\ c \in Casters /\ d \in Int /\ \A x \in Casters : v.mana[x] \in Int
  /\ w.mana[c] = v.mana[c] + d /\ \A x \in Casters : x # c => w.mana[x] = v.mana[x]

LEMMA ManaShift ==
    ASSUME NEW v, NEW w, NEW c, NEW d, Shifted(v, w, c, d)
    PROVE  TotalMana(w) = TotalMana(v) + d
<1> DEFINE f == v.mana
           g == w.mana
<1>1. PICK h : AddsUp(Casters, f, h) /\ TotalMana(v) = h[Casters]
  BY ManaAdds
<1>2. PICK k : AddsUp(Casters, g, k) /\ TotalMana(w) = k[Casters]
  BY ManaAdds
<1>3. /\ c \in Casters /\ d \in Int /\ \A x \in Casters : f[x] \in Int
      /\ g[c] = f[c] + d /\ \A x \in Casters : x # c => g[x] = f[x]
  BY DEF Shifted
<1> HIDE DEF f, g
<1>4. k[Casters] = h[Casters] + d
  BY <1>1, <1>2, <1>3, PlacesAssumption, SumShifts
<1>5. QED
  BY <1>1, <1>2, <1>4

(* No mana is made: nothing changes, or one person has no more than he had. *)
NoneMade(v, w) == ~(TotalMana(w) > TotalMana(v))

LEMMA SameMana ==
    ASSUME NEW v, World(v), NEW w, w.mana = v.mana
    PROVE  NoneMade(v, w)
<1>1. TotalMana(w) = TotalMana(v)
  BY ManaIs
<1>2. \A x \in Casters : v.mana[x] \in Int
  BY DEF World
<1>3. TotalMana(v) \in Int
  BY <1>2, TotalTyped
<1>4. QED
  BY <1>1, <1>3 DEF NoneMade

LEMMA LessMana ==
    ASSUME NEW v, World(v), NEW w, NEW c \in Casters, NEW x \in Nat, x <= v.mana[c],
           w.mana = [v.mana EXCEPT ![c] = x]
    PROVE  NoneMade(v, w)
<1>1. v.mana \in [Casters -> Nat]
  BY DEF World
<1>2. PICK d \in Int : d <= 0 /\ v.mana[c] + d = x
  <2>1. x - v.mana[c] \in Int /\ x - v.mana[c] <= 0 /\ v.mana[c] + (x - v.mana[c]) = x
    BY <1>1
  <2>2. QED
    BY <2>1
<1>3. w.mana[c] = v.mana[c] + d
  BY <1>1, <1>2
<1>4. \A y \in Casters : y # c => w.mana[y] = v.mana[y]
  BY <1>1
<1>5. \A y \in Casters : v.mana[y] \in Int
  BY <1>1
<1>6. TotalMana(w) = TotalMana(v) + d
  <2>1. Shifted(v, w, c, d)
    BY <1>3, <1>4, <1>5 DEF Shifted
  <2>2. QED
    BY <2>1, ManaShift
<1>7. TotalMana(v) \in Int
  BY <1>5, TotalTyped
<1>8. QED
  BY <1>2, <1>6, <1>7 DEF NoneMade

LEMMA TwoIs ==
    ASSUME NEW a \in Int, NEW b \in Int
    PROVE  Max({a, b}) = (IF a >= b THEN a ELSE b) /\ Min({a, b}) = (IF a <= b THEN a ELSE b)
<1> DEFINE M == IF a >= b THEN a ELSE b
           N == IF a <= b THEN a ELSE b
<1>1. M \in {a, b} /\ \A y \in {a, b} : M >= y
  OBVIOUS
<1>2. \A x \in {a, b} : (\A y \in {a, b} : x >= y) => x = M
  OBVIOUS
<1>3. N \in {a, b} /\ \A y \in {a, b} : N <= y
  OBVIOUS
<1>4. \A x \in {a, b} : (\A y \in {a, b} : x <= y) => x = N
  OBVIOUS
<1> HIDE DEF M, N
<1>5. Max({a, b}) = M
  BY <1>1, <1>2 DEF Max
<1>6. Min({a, b}) = N
  BY <1>3, <1>4 DEF Min
<1>7. QED
  BY <1>5, <1>6 DEF M, N

-----------------------------------------------------------------------------
(* Where c casts on d, nobody else goes but pets, unless c goes himself.   *)
Spelt(v, w, c, d) ==
  World(w) /\ (c \in Living(w) => Living(v) \subseteq Living(w) \union {d} \union Pets)

LEMMA SpeltIs ==
    ASSUME NEW v, NEW w, NEW c, NEW d
    PROVE  /\ SameLives(v, w) \/ Falls(v, w, d) => Spelt(v, w, c, d) /\ w.mana = v.mana
           /\ Falls(v, w, c) => Spelt(v, w, c, d) /\ w.mana = v.mana
BY DEF SameLives, Falls, Spelt

LEMMA MissileIs ==
    ASSUME NEW v, World(v), NEW c \in Casters, NEW d \in Casters, NEW w \in mag_damage(v, c, d)
    PROVE  Spelt(v, w, c, d) /\ NoneMade(v, w)
<1>1. w = v \/ w \in Damage(v, d)
  BY DEF mag_damage
<1>2. SameLives(v, w) \/ Falls(v, w, d)
  BY <1>1, SameIs, DamageIs
<1>3. QED
  BY <1>2, SpeltIs, SameMana

LEMMA GroupsIs ==
    ASSUME NEW v, World(v), NEW c, NEW d
    PROVE  Spelt(v, mag_groups(v, c), c, d) /\ NoneMade(v, mag_groups(v, c))
<1> DEFINE w == mag_groups(v, c)
<1>1. w = v \/ \E x : w = [v EXCEPT !.hp = x]
  BY DEF mag_groups
<1> HIDE DEF w
<1>2. SameLives(v, w)
  BY <1>1, SameIs
<1>3. QED
  BY <1>2, SpeltIs, SameMana DEF w

LEMMA RodsIs ==
    ASSUME NEW v, World(v), NEW w, DOMAIN w = DOMAIN v, w.spot = v.spot, w.life = v.life, w.mana = v.mana,
           w.rods \in [DOMAIN Rods -> Int], NEW c, NEW d
    PROVE  Spelt(v, w, c, d) /\ NoneMade(v, w)
<1>1. w.mana \in [Casters -> Nat]
  BY DEF World
<1>2. World(w) /\ Living(w) = Living(v)
  BY <1>1, AlikeIs
<1>3. QED
  BY <1>2, SameMana DEF Spelt

LEMMA RechargeIs ==
    ASSUME NEW v, World(v), NEW c, NEW o \in DOMAIN Rods \union {None}, NEW w \in spell_recharge(v, c, o), NEW d
    PROVE  Spelt(v, w, c, d) /\ NoneMade(v, w)
<1>1. v.rods \in [DOMAIN Rods -> Int] /\ GoneRod \in Int
  BY DEF World, GoneRod
<1>2. CASE w = v
  BY <1>1, <1>2, RodsIs
<1>3. CASE w # v
  <2>1. PICK n \in 1..2, hurt \in 1..2 :
          w = IF v.rods[o] + n > Rods[o].max
              THEN [v EXCEPT !.rods[o] = GoneRod, !.hp[c] = @ - Min({hurt, @})]
              ELSE [v EXCEPT !.rods[o] = @ + n]
    BY <1>3 DEF spell_recharge
  <2>2. o \in DOMAIN Rods
    BY <1>3 DEF spell_recharge
  <2>3. PICK x \in Int : w.rods = [v.rods EXCEPT ![o] = x]
    <3>1. v.rods[o] + n \in Int
      BY <1>1, <2>2
    <3>2. w.rods = [v.rods EXCEPT ![o] = GoneRod] \/ w.rods = [v.rods EXCEPT ![o] = v.rods[o] + n]
      BY <2>1 DEF World
    <3>3. QED
      BY <1>1, <3>1, <3>2
  <2>4. w.rods \in [DOMAIN Rods -> Int]
    BY <1>1, <2>3
  <2>5. DOMAIN w = DOMAIN v /\ w.spot = v.spot /\ w.life = v.life /\ w.mana = v.mana
    BY <2>1 DEF World
  <2>6. QED
    BY <2>4, <2>5, RodsIs
<1>4. QED
  BY <1>2, <1>3

LEMMA SummonsIs ==
    ASSUME NEW v, World(v), NEW c \in Living(v), NEW o \in DOMAIN Rods \union {None}, NEW w \in mag_summons(v, c, o), NEW d
    PROVE  Spelt(v, w, c, d) /\ NoneMade(v, w)
<1>1. CASE w = v
  BY <1>1, SameIs, SpeltIs, SameMana
<1>2. CASE w # v
  <2> DEFINE R == RoomNow(v, c)
             spot == [v.spot EXCEPT ![R] = <<Zombie>> \o @]
             life == [v.life EXCEPT ![Zombie] = "here"]
             rods == [v.rods EXCEPT ![o] = GoneRod]
  <2>1. /\ v.life[Zombie] = "unborn"
        /\ w = [v EXCEPT !.spot[R] = <<Zombie>> \o @, !.life[Zombie] = "here", !.master[Zombie] = c,
                         !.rods[o] = GoneRod]
    BY <1>2 DEF mag_summons
  <2>2. DOMAIN w = DOMAIN v /\ w.spot = spot /\ w.life = life /\ w.mana = v.mana /\ w.rods = rods
    BY <2>1 DEF World
  <2>3. Zombie \in Casters \ Living(v)
    BY <2>1 DEF Casters, CastMobs, Pets, Living, Here
  <2>4. R \in CastRooms
    BY RoomIs
  <2>5. PlacesFine(spot, Living(v) \union {Zombie})
    <3> HIDE DEF R
    <3>1. PlacesFine(v.spot, Living(v))
      BY DEF World
    <3>2. QED
      BY <2>3, <2>4, <3>1, PlacesMore
  <2>6. v.life = [x \in Casters |-> v.life[x]] /\ v.rods \in [DOMAIN Rods -> Int] /\ GoneRod \in Int
    BY DEF World, GoneRod
  <2>7. \A x \in Casters : life[x] = IF x = Zombie THEN "here" ELSE v.life[x]
    BY <2>6
  <2>8. life = [x \in Casters |-> life[x]] /\ rods \in [DOMAIN Rods -> Int]
    BY <2>6
  <2> HIDE DEF spot, life, rods
  <2>9. Living(w) = Living(v) \union {Zombie}
    BY <2>2, <2>3, <2>7 DEF Living, Here
  <2>10. World(w)
    BY <2>2, <2>5, <2>8, <2>9 DEF World
  <2>11. QED
    BY <2>2, <2>9, <2>10, SameMana DEF Spelt
<1>3. QED
  BY <1>1, <1>2

LEMMA DisintegrateIs ==
    ASSUME NEW v, World(v), NEW c \in Living(v), NEW d \in Casters \union {None},
           NEW o \in DOMAIN Rods \union {None}, NEW w \in spell_disintegrate(v, c, d, o)
    PROVE  Spelt(v, w, c, d) /\ NoneMade(v, w)
<1>1. v.rods \in [DOMAIN Rods -> Int] /\ GoneRod \in Int /\ c \in Casters
  BY DEF World, GoneRod, Living
<1>2. CASE w = v
  BY <1>2, SameIs, SpeltIs, SameMana
<1>3. CASE w = [v EXCEPT !.rods[o] = GoneRod]
  <2>1. /\ DOMAIN w = DOMAIN v /\ w.spot = v.spot /\ w.life = v.life /\ w.mana = v.mana
        /\ w.rods = [v.rods EXCEPT ![o] = GoneRod]
    BY <1>3 DEF World
  <2>2. w.rods \in [DOMAIN Rods -> Int]
    BY <1>1, <2>1
  <2>3. QED
    BY <2>1, <2>2, RodsIs
<1>4. CASE w \in Damage(v, c)
  <2>1. SameLives(v, w) \/ Falls(v, w, c)
    BY <1>1, <1>4, DamageIs
  <2>2. QED
    BY <2>1, SpeltIs, SameMana
<1>5. ASSUME NEW t, d \in Casters, w = [LeavesGame(v, d) EXCEPT !.rods = [x \in DOMAIN Rods |->
                 IF t[x] THEN GoneRod ELSE @[x]]]
      PROVE  Spelt(v, w, c, d) /\ NoneMade(v, w)
  <2> DEFINE u == LeavesGame(v, d)
  <2>1. Falls(v, u, d)
    BY <1>5, LeavesIs
  <2> HIDE DEF u
  <2>2. World(u) /\ u.rods \in [DOMAIN Rods -> Int] /\ u.mana \in [Casters -> Nat]
    BY <2>1 DEF Falls, World
  <2>3. w = [u EXCEPT !.rods = [x \in DOMAIN Rods |-> IF t[x] THEN GoneRod ELSE u.rods[x]]]
    BY <1>5 DEF u
  <2>4. /\ DOMAIN w = DOMAIN u /\ w.spot = u.spot /\ w.life = u.life /\ w.mana = u.mana
        /\ w.rods = [x \in DOMAIN Rods |-> IF t[x] THEN GoneRod ELSE u.rods[x]]
    BY <2>2, <2>3 DEF World
  <2>5. w.rods \in [DOMAIN Rods -> Int]
    BY <1>1, <2>2, <2>4
  <2>6. World(w) /\ Living(w) = Living(u)
    BY <2>2, <2>4, <2>5, AlikeIs
  <2>7. w.mana = v.mana
    BY <2>1, <2>4 DEF Falls
  <2>8. QED
    BY <2>1, <2>6, <2>7, SameMana DEF Falls, Spelt
<1>6. \/ w = v \/ w = [v EXCEPT !.rods[o] = GoneRod] \/ w \in Damage(v, c)
      \/ /\ d \in Casters
         /\ w = [LeavesGame(v, d) EXCEPT !.rods = [x \in DOMAIN Rods |->
              IF d = cast.by /\ x = cast.rod /\ Rods[x].type \in {"scroll", "potion"} THEN GoneRod ELSE @[x]]]
  BY DEF spell_disintegrate
<1>7. QED
  <2> DEFINE t == [x \in DOMAIN Rods |-> d = cast.by /\ x = cast.rod /\ Rods[x].type \in {"scroll", "potion"}]
  <2>1. ASSUME w = [LeavesGame(v, d) EXCEPT !.rods = [x \in DOMAIN Rods |->
              IF d = cast.by /\ x = cast.rod /\ Rods[x].type \in {"scroll", "potion"} THEN GoneRod ELSE @[x]]]
        PROVE  w = [LeavesGame(v, d) EXCEPT !.rods = [x \in DOMAIN Rods |-> IF t[x] THEN GoneRod ELSE @[x]]]
    BY <2>1
  <2> HIDE DEF t
  <2>2. QED
    BY <1>2, <1>3, <1>4, <1>5, <1>6, <2>1

LEMMA PointsIs ==
    ASSUME NEW v, World(v), NEW c \in Casters, NEW d \in Casters, NEW w \in mag_points(v, c, d)
    PROVE  Spelt(v, w, c, d) /\ (v.mana[c] # 0 => NoneMade(v, w))
<1>1. PICK roll \in 1..2, loss \in 1..2 :
        LET gift == Min({roll, v.mana[c] - 1})
            left == [v.mana EXCEPT ![c] = @ - gift]
        IN w = [v EXCEPT !.mana = [left EXCEPT ![d] = Min({MaxMana, left[d] + Max({0, gift - loss})})]]
  BY DEF mag_points
<1> DEFINE gift == Min({roll, v.mana[c] - 1})
           left == [v.mana EXCEPT ![c] = @ - gift]
           got == Max({0, gift - loss})
           mine == Min({MaxMana, left[d] + got})
           u == [v EXCEPT !.mana = left]
<1>2. v.mana \in [Casters -> Nat] /\ MaxMana \in Nat /\ roll \in Int /\ loss \in Int
  BY CastingAssumption DEF World
<1>3. w.mana = [left EXCEPT ![d] = mine] /\ DOMAIN w = DOMAIN v /\ w.spot = v.spot /\ w.life = v.life
      /\ w.rods = v.rods
  BY <1>1 DEF World
<1>4. gift = IF roll <= v.mana[c] - 1 THEN roll ELSE v.mana[c] - 1
  <2>1. PICK y \in Int : y = v.mana[c] - 1
    BY <1>2
  <2>2. Min({roll, y}) = IF roll <= y THEN roll ELSE y
    BY <1>2, TwoIs
  <2>3. QED
    BY <2>1, <2>2
<1> HIDE DEF gift
<1>5. /\ gift \in Int /\ v.mana[c] - gift \in Nat /\ (v.mana[c] # 0 => gift >= 0)
      /\ v.mana[c] = 0 => gift = -1
  BY <1>2, <1>4
<1>6. got = IF 0 >= gift - loss THEN 0 ELSE gift - loss
  <2>1. gift - loss \in Int
    BY <1>2, <1>5
  <2>2. QED
    BY <2>1, TwoIs
<1> HIDE DEF got
<1>7. got \in Nat /\ (v.mana[c] # 0 => got <= gift)
  BY <1>2, <1>5, <1>6
<1>8. left \in [Casters -> Nat]
  BY <1>2, <1>5
<1>9. left[c] = v.mana[c] - gift /\ \A x \in Casters : x # c => left[x] = v.mana[x]
  BY <1>2
<1> HIDE DEF left, mine
<1>10. mine = IF MaxMana <= left[d] + got THEN MaxMana ELSE left[d] + got
  <2>1. PICK y \in Int : y = left[d] + got
    BY <1>7, <1>8
  <2>2. PICK m \in Int : m = MaxMana
    BY <1>2
  <2>3. Min({m, y}) = IF m <= y THEN m ELSE y
    BY TwoIs
  <2>4. QED
    BY <2>1, <2>2, <2>3 DEF mine
<1>11. mine \in Nat /\ mine <= left[d] + got
  BY <1>2, <1>7, <1>8, <1>10
<1>12. w.mana \in [Casters -> Nat]
  BY <1>3, <1>8, <1>11
<1>13. Spelt(v, w, c, d)
  <2>1. v.rods \in [DOMAIN Rods -> Int]
    BY DEF World
  <2>2. World(w) /\ Living(w) = Living(v)
    BY <1>3, <1>12, <2>1, AlikeIs
  <2>3. QED
    BY <2>2 DEF Spelt
<1>14. ASSUME v.mana[c] # 0 PROVE NoneMade(v, w)
  <2>1. u.mana = left
    BY DEF World
  <2> HIDE DEF u
  <2>2. \A x \in Casters : v.mana[x] \in Int /\ u.mana[x] \in Int
    BY <1>2, <1>8, <2>1
  <2>3. Shifted(v, u, c, 0 - gift)
    <3>1. u.mana[c] = v.mana[c] + (0 - gift) /\ (0 - gift) \in Int
      BY <1>2, <1>5, <1>9, <2>1
    <3>2. QED
      BY <1>9, <2>1, <2>2, <3>1 DEF Shifted
  <2>4. PICK e \in Int : e <= gift /\ mine = left[d] + e
    <3>1. mine - left[d] \in Int /\ mine - left[d] <= gift /\ mine = left[d] + (mine - left[d])
      BY <1>5, <1>7, <1>8, <1>11, <1>14
    <3>2. QED
      BY <3>1
  <2>5. Shifted(u, w, d, e)
    <3>1. w.mana[d] = u.mana[d] + e
      BY <1>3, <1>8, <2>1, <2>4
    <3>2. \A x \in Casters : x # d => w.mana[x] = u.mana[x]
      BY <1>3, <1>8, <2>1
    <3>3. QED
      BY <2>2, <3>1, <3>2 DEF Shifted
  <2>6. TotalMana(u) = TotalMana(v) + (0 - gift) /\ TotalMana(w) = TotalMana(u) + e
    BY <2>3, <2>5, ManaShift
  <2>7. TotalMana(v) \in Int
    BY <2>2, TotalTyped
  <2>8. QED
    BY <1>5, <2>4, <2>6, <2>7 DEF NoneMade
<1>15. QED
  BY <1>13, <1>14

LEMMA BoostIs ==
    ASSUME NEW v, World(v), NEW c, NEW d \in Casters, NEW w \in mana_boost(v, d)
    PROVE  Spelt(v, w, c, d)
<1>1. v.mana \in [Casters -> Nat] /\ MaxMana \in Nat /\ v.rods \in [DOMAIN Rods -> Int]
  BY CastingAssumption DEF World
<1>2. PICK roll \in 2..3 : w = [v EXCEPT !.mana[d] = Min({MaxMana, @ + roll})]
  BY DEF mana_boost
<1>3. Min({MaxMana, v.mana[d] + roll}) \in Nat
  <2>1. PICK y \in Nat : y = v.mana[d] + roll
    BY <1>1
  <2>2. Min({MaxMana, y}) = IF MaxMana <= y THEN MaxMana ELSE y
    BY <1>1, TwoIs
  <2>3. QED
    BY <1>1, <2>1, <2>2
<1>4. w.mana \in [Casters -> Nat]
  BY <1>1, <1>2, <1>3 DEF World
<1>5. DOMAIN w = DOMAIN v /\ w.spot = v.spot /\ w.life = v.life /\ w.rods = v.rods
  BY <1>2 DEF World
<1>6. World(w) /\ Living(w) = Living(v)
  BY <1>1, <1>4, <1>5, AlikeIs
<1>7. QED
  BY <1>6 DEF Spelt

-----------------------------------------------------------------------------
(* The command j in the world v: what it will touch next is here, if its   *)
(* caster is.                                                              *)
Someone(v, d) == d = None \/ d \in Living(v)
NextFine(v, j) ==
  j.src = "staff" => /\ Someone(v, j.next) \/ j.next \in Pets \/ Head(j.spells) = "chain"
                     /\ j.phase = "call" => j.next # j.tch \/ j.tch = None
                     /\ j.tobj = None
TargetFine(v, j) ==
  /\ j.phase = "call" => Someone(v, j.tch) /\ (j.tobj # None => v.rods[j.tobj] # GoneRod)
  /\ j.phase = "chain" => j.inner \in Living(v) /\ Head(j.spells) = "chain"
  /\ j.phase = "fear" => Someone(v, j.inner)
Steady(v, j) == j.by \in Living(v) /\ j.src \notin {"scroll", "potion"}
CommandParts == {"src", "by", "tch", "tobj", "rod", "spells", "phase", "next", "inner", "struck", "result"}
CastFine(v, j) ==
  /\ DOMAIN j = CommandParts
  /\ j.tch \in Casters \union {None} /\ j.inner \in Casters \union {None}
  /\ j.next \in Casters \union {None} /\ j.tobj \in DOMAIN Rods \union {None}
  /\ j.phase # None => j.by \in Casters /\ (j.src = "cast" \/ j.rod \in DOMAIN Rods)
  /\ j.phase = "chain" => j.inner \in Casters
  /\ Steady(v, j) => TargetFine(v, j) /\ NextFine(v, j)
FogFine == raff_list \in Seq([room : CastRooms, timer : Int]) /\ FogHasItsNode
CastInv == World(cw) /\ CastFine(cw, cast) /\ FogFine
Lawful == CastInv' /\ SpellsTouchTheLiving /\ ManaNotMade

(* A step that leaves the fog alone and misuses nothing.                   *)
LEMMA LawfulIs ==
    ASSUME CastInv, World(cw'), CastFine(cw', cast'), UNCHANGED <<misuse, fogged, lasting, raff_list>>,
           NoneMade(cw, cw') \/ cw.mana[cast.by] = 0 \/ Boosting
    PROVE  Lawful
<1>1. FogFine'
  BY DEF CastInv, FogFine, FogHasItsNode
<1>2. ManaNotMade
  BY DEF NoneMade, ManaNotMade
<1>3. QED
  BY <1>1, <1>2 DEF Lawful, CastInv, SpellsTouchTheLiving

LEMMA IdleFine ==
    ASSUME NEW v
    PROVE  CastFine(v, NoCast)
<1>1. None \notin Living(v)
  BY PlacesAssumption DEF Living
<1>2. QED
  BY <1>1 DEF CastFine, NoCast, CommandParts, Steady, None

LEMMA MisusedFine ==
    ASSUME CastInv, NEW what, Misused(what), SpellsTouchTheLiving
    PROVE  Lawful
<1>1. cw' = cw /\ cast' = NoCast /\ UNCHANGED <<fogged, lasting, raff_list>>
  BY DEF Misused
<1>2. FogFine' /\ World(cw')
  BY <1>1 DEF CastInv, FogFine, FogHasItsNode
<1>3. ManaNotMade
  <2>1. NoneMade(cw, cw')
    BY <1>1, SameMana DEF CastInv
  <2>2. QED
    BY <2>1 DEF NoneMade, ManaNotMade
<1>4. CastFine(cw', cast')
  BY <1>1, IdleFine
<1>5. QED
  BY <1>2, <1>3, <1>4 DEF Lawful, CastInv

(* A spell has returned.                                                   *)
LEMMA ReturnsIs ==
    ASSUME NEW j, DOMAIN j = CommandParts, NEW n, NEW k, k = Returns(j, n)
    PROVE  /\ DOMAIN k = CommandParts /\ k.src = j.src /\ k.by = j.by /\ k.tch = j.tch /\ k.tobj = j.tobj
           /\ k.rod = j.rod /\ k.spells = j.spells /\ k.phase = "back" /\ k.next = j.next /\ k.inner = j.inner
BY DEF Returns, CommandParts

LEMMA ReturnsFine ==
    ASSUME NEW v, World(v), NEW j, CastFine(v, j), j.phase = "call", j.by \in Living(v),
           NEW w, Spelt(v, w, j.by, j.tch), NEW n
    PROVE  CastFine(w, Returns(j, n))
<1> DEFINE k == Returns(j, n)
<1>1. /\ DOMAIN k = CommandParts /\ k.src = j.src /\ k.by = j.by /\ k.tch = j.tch /\ k.tobj = j.tobj
      /\ k.rod = j.rod /\ k.spells = j.spells /\ k.phase = "back" /\ k.next = j.next /\ k.inner = j.inner
  BY ReturnsIs DEF CastFine
<1> HIDE DEF k
<1>2. ASSUME Steady(w, k) PROVE TargetFine(w, k) /\ NextFine(w, k)
  <2>1. Steady(v, j) /\ j.by \in Living(w)
    BY <1>1, <1>2 DEF Steady
  <2>2. NextFine(v, j)
    BY <2>1 DEF CastFine
  <2>3. Living(v) \subseteq Living(w) \union {j.tch} \union Pets
    BY <2>1 DEF Spelt
  <2>4. None \notin Living(v)
    BY PlacesAssumption DEF Living
  <2>5. TargetFine(w, k)
    BY <1>1 DEF TargetFine
  <2>6. ASSUME j.src = "staff", j.next \in Living(v) PROVE j.next \in Living(w) \/ j.next \in Pets
    <3>1. j.next # j.tch
      BY <2>2, <2>4, <2>6 DEF NextFine
    <3>2. QED
      BY <2>3, <2>6, <3>1
  <2>7. NextFine(w, k)
    BY <1>1, <2>2, <2>6 DEF NextFine, Someone
  <2>8. QED
    BY <2>5, <2>7
<1>3. k.by \in Casters /\ (k.src = "cast" \/ k.rod \in DOMAIN Rods)
  BY <1>1 DEF CastFine, None
<1>4. CastFine(w, k)
  BY <1>1, <1>2, <1>3 DEF CastFine
<1>5. QED
  BY <1>4 DEF k

(* call_magic, where the caster is here.                                   *)
LEMMA Called ==
    ASSUME CastInv, cast.phase = "call", cast.by \in Living(cw), NEW n, cast' = Returns(cast, n),
           UNCHANGED <<misuse, fogged, lasting, raff_list>>,
           Spelt(cw, cw', cast.by, cast.tch), NoneMade(cw, cw') \/ cw.mana[cast.by] = 0 \/ Boosting
    PROVE  Lawful
<1>1. CastFine(cw', cast')
  BY ReturnsFine DEF CastInv
<1>2. World(cw')
  BY DEF Spelt
<1>3. QED
  BY <1>1, <1>2, LawfulIs

LEMMA NothingCalled ==
    ASSUME CastInv, cast.phase = "call", cast.by \in Living(cw), NEW n, cast' = Returns(cast, n),
           cw' = cw, UNCHANGED <<misuse, fogged, lasting, raff_list>>
    PROVE  Lawful
<1>1. SameLives(cw, cw') /\ NoneMade(cw, cw')
  BY SameIs, SameMana DEF CastInv
<1>2. Spelt(cw, cw', cast.by, cast.tch)
  BY <1>1, SpeltIs
<1>3. QED
  BY <1>1, <1>2, Called

LEMMA FogCalled ==
    ASSUME CastInv, cast.phase = "call", cast.by \in Living(cw), mag_room(cast.by), cast' = Returns(cast, 1),
           UNCHANGED <<cw, misuse, lasting>>
    PROVE  Lawful
<1> DEFINE r == RoomNow(cw, cast.by)
           N == [room : CastRooms, timer : Int]
           node == [room |-> r, timer |-> FogTicks]
<1>1. SameLives(cw, cw') /\ NoneMade(cw, cw')
  BY SameIs, SameMana DEF CastInv
<1>2. Spelt(cw, cw', cast.by, cast.tch)
  BY <1>1, SpeltIs
<1>3. CastFine(cw', cast')
  BY <1>2, ReturnsFine DEF CastInv
<1>4. FogFine'
  <2>1. CASE r \in fogged
    <3>1. UNCHANGED <<fogged, raff_list>>
      BY <2>1 DEF mag_room
    <3>2. QED
      BY <3>1 DEF CastInv, FogFine, FogHasItsNode
  <2>2. CASE r \notin fogged
    <3>1. fogged' = fogged \union {r} /\ raff_list' = <<node>> \o raff_list
      BY <2>2 DEF mag_room
    <3>2. r \in CastRooms
      BY RoomIs DEF CastInv
    <3>3. node \in N /\ raff_list \in Seq(N)
      BY <3>2, CastingAssumption DEF CastInv, FogFine
    <3>4. node.room = r
      OBVIOUS
    <3> HIDE DEF node, N
    <3>5. raff_list' \in Seq(N) /\ ToSet(raff_list') = ToSet(raff_list) \union {node}
      BY <3>1, <3>3, PrependIs
    <3>6. FogHasItsNode'
      BY <3>1, <3>4, <3>5 DEF CastInv, FogFine, FogHasItsNode
    <3>7. QED
      BY <3>5, <3>6 DEF FogFine, N
  <2>3. QED
    BY <2>1, <2>2
<1>5. ManaNotMade
  BY <1>1 DEF NoneMade, ManaNotMade
<1>6. QED
  BY <1>1, <1>3, <1>4, <1>5 DEF Lawful, CastInv, SpellsTouchTheLiving, SameLives

(* A routine that goes on by itself.                                       *)
LEMMA GoesOn ==
    ASSUME NEW v, NEW j, CastFine(v, j), j.phase = "call", j.by \in Living(v), NEW k,
           DOMAIN k = CommandParts, k.src = j.src, k.by = j.by, k.tch = j.tch, k.tobj = j.tobj, k.rod = j.rod,
           k.spells = j.spells, k.next = j.next, k.phase \in {"chain", "fear"}, k.inner \in Living(v),
           k.phase = "chain" => Head(j.spells) = "chain"
    PROVE  CastFine(v, k)
<1>1. Steady(v, k) => TargetFine(v, k) /\ NextFine(v, k)
  BY DEF CastFine, Steady, TargetFine, NextFine, Someone
<1>2. k.inner \in Casters
  BY DEF Living
<1>3. QED
  BY <1>1, <1>2 DEF CastFine, None

LEMMA LoopCalled ==
    ASSUME CastInv, cast.phase = "call", cast.by \in Living(cw), NEW p \in {"chain", "fear"}, NEW t \in Living(cw),
           p = "chain" => Head(cast.spells) = "chain",
           cast' = [cast EXCEPT !.phase = p, !.inner = t],
           cw' = cw, UNCHANGED <<misuse, fogged, lasting, raff_list>>
    PROVE  Lawful
<1>1. /\ DOMAIN cast' = CommandParts /\ cast'.src = cast.src /\ cast'.by = cast.by /\ cast'.tch = cast.tch
      /\ cast'.tobj = cast.tobj /\ cast'.rod = cast.rod /\ cast'.spells = cast.spells /\ cast'.next = cast.next
      /\ cast'.phase = p /\ cast'.inner = t
  BY DEF CastInv, CastFine, CommandParts
<1>2. CastFine(cw', cast')
  BY <1>1, GoesOn DEF CastInv
<1>3. NoneMade(cw, cw') /\ World(cw')
  BY SameMana DEF CastInv
<1>4. QED
  BY <1>2, <1>3, LawfulIs

LEMMA CallKeeps ==
    ASSUME CastInv, call_magic
    PROVE  Lawful
<1> DEFINE c == cast.by
           s == Head(cast.spells)
           d == cast.tch
           o == cast.tobj
           onVictim == s \in {"missile", "transfer", "boost", "chain"} \/ (s = "disintegrate" /\ o = None)
           onThing == s \in {"disintegrate", "recharge", "animate"}
           still == UNCHANGED <<misuse, fogged, lasting, raff_list>>
           done == cast' = Returns(cast, 1)
           idle == cw' = cw /\ still
           blocked == RoomNow(cw, c) \in NoMagic \/ (RoomNow(cw, c) \in Peaceful /\ s \in ViolentSpells)
<1>1. cast.phase = "call"
  BY DEF call_magic
<1>2. /\ c \in Casters /\ d \in Casters \union {None} /\ o \in DOMAIN Rods \union {None} /\ World(cw)
      /\ Steady(cw, cast) => TargetFine(cw, cast)
  BY <1>1 DEF CastInv, CastFine, None
<1>3. CASE ~Here(cw, c)
  <2>1. Misused("caster")
    BY <1>3 DEF call_magic
  <2>2. CasterFell
    BY <1>2, <1>3, PlacesAssumption DEF CasterFell
  <2>3. QED
    BY <2>1, <2>2, MisusedFine DEF SpellsTouchTheLiving
<1>4. CASE Here(cw, c) /\ blocked
  <2>1. c \in Living(cw)
    BY <1>2, <1>4 DEF Living
  <2>2. cast' = Returns(cast, 0) /\ idle
    BY <1>4 DEF call_magic
  <2>3. QED
    BY <1>1, <2>1, <2>2, NothingCalled
<1>5. CASE Here(cw, c) /\ ~blocked /\ onVictim /\ d # None /\ ~Here(cw, d)
  <2>1. Misused("target")
    BY <1>5 DEF call_magic
  <2>2. c \in Living(cw) /\ ~Someone(cw, d)
    BY <1>2, <1>5 DEF Living, Someone
  <2>3. cast.src \in {"scroll", "potion"}
    BY <1>1, <1>2, <2>2 DEF Steady, TargetFine
  <2>4. QED
    BY <2>1, <2>3, MisusedFine DEF SpellsTouchTheLiving
<1>6. CASE /\ Here(cw, c) /\ ~blocked /\ ~(onVictim /\ d # None /\ ~Here(cw, d))
           /\ onThing /\ o # None /\ cw.rods[o] = GoneRod
  <2>1. Misused("object")
    BY <1>6 DEF call_magic
  <2>2. c \in Living(cw)
    BY <1>2, <1>6 DEF Living
  <2>3. cast.src \in {"scroll", "potion"}
    BY <1>1, <1>2, <1>6, <2>2 DEF Steady, TargetFine
  <2>4. QED
    BY <2>1, <2>3, MisusedFine DEF SpellsTouchTheLiving
<1>7. CASE /\ Here(cw, c) /\ ~blocked /\ ~(onVictim /\ d # None /\ ~Here(cw, d))
           /\ ~(onThing /\ o # None /\ cw.rods[o] = GoneRod)
  <2>1. c \in Living(cw)
    BY <1>2, <1>7 DEF Living
  <2>2. onVictim => d = None \/ d \in Living(cw)
    BY <1>2, <1>7 DEF Living
  <2>3. \/ s = "missile"      /\ cw' \in (IF d = None THEN {cw} ELSE mag_damage(cw, c, d)) /\ done /\ still
        \/ s = "transfer"     /\ cw' \in (IF d = None THEN {cw} ELSE mag_points(cw, c, d)) /\ done /\ still
        \/ s = "boost"        /\ cw' \in (IF d = None THEN {cw} ELSE mana_boost(cw, d)) /\ done /\ still
        \/ s = "group"        /\ cw' \in {mag_groups(cw, c)} /\ done /\ still
        \/ s = "animate"      /\ cw' \in mag_summons(cw, c, o) /\ done /\ still
        \/ s = "recharge"     /\ cw' \in spell_recharge(cw, c, o) /\ done /\ still
        \/ s = "disintegrate" /\ cw' \in spell_disintegrate(cw, c, d, o) /\ done /\ still
        \/ /\ s = "chain" /\ idle
           /\ cast' = IF d = None \/ d \in Gods THEN Returns(cast, 1) ELSE [cast EXCEPT !.phase = "chain", !.inner = d]
        \/ /\ s = "fear" /\ idle
           /\ cast' = [cast EXCEPT !.phase = "fear", !.inner = RoomMates(cw, c)[1]]
        \/ s = "fog" /\ mag_room(c) /\ done /\ UNCHANGED <<cw, misuse, lasting>>
    BY <1>7 DEF call_magic
  <2> HIDE DEF blocked, onThing
  <2>4. ASSUME Spelt(cw, cw', c, d), NoneMade(cw, cw') \/ cw.mana[c] = 0 \/ Boosting, done, still PROVE Lawful
    BY <1>1, <2>1, <2>4, Called
  <2>5. ASSUME cw' = cw, done, still PROVE Lawful
    BY <1>1, <2>1, <2>5, NothingCalled
  <2>6. CASE s = "missile" /\ cw' \in (IF d = None THEN {cw} ELSE mag_damage(cw, c, d)) /\ done /\ still
    <3>1. CASE d = None
      BY <2>5, <2>6, <3>1
    <3>2. CASE d # None
      <4>1. d \in Casters /\ cw' \in mag_damage(cw, c, d)
        BY <1>2, <2>6, <3>2
      <4>2. QED
        BY <1>2, <2>4, <2>6, <4>1, MissileIs
    <3>3. QED
      BY <3>1, <3>2
  <2>7. CASE s = "transfer" /\ cw' \in (IF d = None THEN {cw} ELSE mag_points(cw, c, d)) /\ done /\ still
    <3>1. CASE d = None
      BY <2>5, <2>7, <3>1
    <3>2. CASE d # None
      <4>1. d \in Casters /\ cw' \in mag_points(cw, c, d)
        BY <1>2, <2>7, <3>2
      <4>2. QED
        BY <1>2, <2>4, <2>7, <4>1, PointsIs
    <3>3. QED
      BY <3>1, <3>2
  <2>15. CASE s = "boost" /\ cw' \in (IF d = None THEN {cw} ELSE mana_boost(cw, d)) /\ done /\ still
    <3>1. CASE d = None
      BY <2>5, <2>15, <3>1
    <3>2. CASE d # None
      <4>1. d \in Casters /\ cw' \in mana_boost(cw, d)
        BY <1>2, <2>15, <3>2
      <4>2. Boosting
        BY <1>1, <2>15 DEF Boosting
      <4>3. QED
        BY <1>2, <2>4, <2>15, <4>1, <4>2, BoostIs
    <3>3. QED
      BY <3>1, <3>2
  <2>8. CASE s = "group" /\ cw' \in {mag_groups(cw, c)} /\ done /\ still
    BY <1>2, <2>4, <2>8, GroupsIs
  <2>9. CASE s = "animate" /\ cw' \in mag_summons(cw, c, o) /\ done /\ still
    BY <1>2, <2>1, <2>4, <2>9, SummonsIs
  <2>10. CASE s = "recharge" /\ cw' \in spell_recharge(cw, c, o) /\ done /\ still
    BY <1>2, <2>4, <2>10, RechargeIs
  <2>11. CASE s = "disintegrate" /\ cw' \in spell_disintegrate(cw, c, d, o) /\ done /\ still
    BY <1>2, <2>1, <2>4, <2>11, DisintegrateIs
  <2>12. CASE /\ s = "chain" /\ idle
              /\ cast' = IF d = None \/ d \in Gods THEN Returns(cast, 1) ELSE [cast EXCEPT !.phase = "chain", !.inner = d]
    <3>1. CASE d = None \/ d \in Gods
      BY <2>5, <2>12, <3>1
    <3>2. CASE ~(d = None \/ d \in Gods)
      <4>1. d \in Living(cw)
        BY <2>2, <2>12, <3>2
      <4>2. cast' = [cast EXCEPT !.phase = "chain", !.inner = d]
        BY <2>12, <3>2
      <4>3. QED
        BY <1>1, <2>1, <2>12, <4>1, <4>2, LoopCalled
    <3>3. QED
      BY <3>1, <3>2
  <2>13. CASE /\ s = "fear" /\ idle
              /\ cast' = [cast EXCEPT !.phase = "fear", !.inner = RoomMates(cw, c)[1]]
    <3>1. RoomMates(cw, c)[1] \in Living(cw)
      BY <1>2, <2>1, MatesAre
    <3>2. QED
      BY <1>1, <2>1, <2>13, <3>1, LoopCalled
  <2>14. CASE s = "fog" /\ mag_room(c) /\ done /\ UNCHANGED <<cw, misuse, lasting>>
    BY <1>1, <2>1, <2>14, FogCalled
  <2>16. QED
    BY <2>3, <2>6, <2>7, <2>8, <2>9, <2>10, <2>11, <2>12, <2>13, <2>14, <2>15
<1>8. QED
  BY <1>3, <1>4, <1>5, <1>6, <1>7

(* The next command has the same caster, source and successor.             *)
SameRound(j, k) ==
  /\ DOMAIN k = CommandParts /\ k.src = j.src /\ k.by = j.by /\ k.tch = j.tch /\ k.tobj = j.tobj
  /\ k.rod = j.rod /\ k.spells = j.spells /\ k.next = j.next

LEMMA ChainKeeps ==
    ASSUME CastInv, spell_chain_lightning
    PROVE  Lawful
<1> DEFINE c == cast.by
           t == cast.inner
           struck == cast.struck \union {t}
           nexts == IF Here(cw', c) THEN FindNext(cw', c, struck) ELSE {c}
           over == Cardinality(struck) = 3 \/ nexts = {}
           ends == [Returns(cast, 1) EXCEPT !.struck = {}, !.inner = None]
<1>1. cast.phase = "chain"
  BY DEF spell_chain_lightning
<1>2. /\ c \in Casters /\ t \in Casters \union {None} /\ World(cw) /\ CastFine(cw, cast)
      /\ Steady(cw, cast) => TargetFine(cw, cast) /\ NextFine(cw, cast)
  BY <1>1 DEF CastInv, CastFine, None
<1>3. CASE ~Here(cw, t)
  <2>1. Misused("stroke")
    BY <1>3 DEF spell_chain_lightning
  <2>2. CASE cast.src \in {"scroll", "potion"}
    BY <2>1, <2>2, MisusedFine DEF SpellsTouchTheLiving
  <2>3. CASE c \in Living(cw) /\ cast.src \notin {"scroll", "potion"}
    BY <1>1, <1>2, <1>3, <2>3 DEF Steady, TargetFine, Living
  <2>4. CASE c \notin Living(cw)
    <3>1. CasterFell
      BY <1>2, <2>4, PlacesAssumption DEF CasterFell, Living
    <3>2. QED
      BY <2>1, <3>1, MisusedFine DEF SpellsTouchTheLiving
  <2>5. QED
    BY <2>2, <2>3, <2>4
<1>4. CASE Here(cw, t) /\ t \in Casters
  <2>1. /\ cw' \in Damage(cw, t) /\ UNCHANGED <<misuse, fogged, lasting, raff_list>>
        /\ cast' \in (IF over THEN {ends} ELSE {[cast EXCEPT !.inner = n, !.struck = struck] : n \in nexts})
    BY <1>4 DEF spell_chain_lightning
  <2>2. SameLives(cw, cw') \/ Falls(cw, cw', t)
    BY <1>2, <1>4, <2>1, DamageIs
  <2>3. World(cw') /\ cw'.mana = cw.mana /\ Living(cw') \subseteq Living(cw)
    BY <2>2 DEF SameLives, Falls
  <2>4. NoneMade(cw, cw')
    BY <1>2, <2>3, SameMana
  <2>5. CASE over
    <3>1. cast' = ends
      BY <2>1, <2>5
    <3>2. SameRound(cast, cast') /\ cast'.phase = "back" /\ cast'.inner = None
      BY <1>2, <3>1 DEF Returns, CommandParts, CastFine, SameRound
    <3>3. ASSUME Steady(cw', cast') PROVE TargetFine(cw', cast') /\ NextFine(cw', cast')
      <4>1. Steady(cw, cast)
        BY <2>3, <3>2, <3>3 DEF Steady, SameRound
      <4>2. QED
        BY <1>1, <1>2, <3>2, <4>1 DEF TargetFine, NextFine, SameRound
    <3>4. CastFine(cw', cast')
      BY <1>1, <1>2, <3>2, <3>3 DEF CastFine, SameRound, None
    <3>5. QED
      BY <2>1, <2>3, <2>4, <3>4, LawfulIs
  <2>6. CASE ~over
    <3>1. PICK n \in nexts : cast' = [cast EXCEPT !.inner = n, !.struck = struck]
      BY <2>1, <2>6
    <3>2. SameRound(cast, cast') /\ cast'.phase = "chain" /\ cast'.inner = n
      BY <1>1, <1>2, <3>1 DEF CommandParts, CastFine, SameRound
    <3>3. n = c \/ n \in Living(cw')
      <4>1. CASE Here(cw', c)
        <5>1. n \in ToSet(RoomMates(cw', c))
          BY <3>1, <4>1 DEF FindNext
        <5>2. c \in Living(cw')
          BY <1>2, <4>1 DEF Living
        <5>3. QED
          BY <2>3, <5>1, <5>2, MatesAre
      <4>2. CASE ~Here(cw', c)
        BY <3>1, <4>2
      <4>3. QED
        BY <4>1, <4>2
    <3>4. n \in Casters
      BY <1>2, <3>3 DEF Living
    <3>5. ASSUME Steady(cw', cast') PROVE TargetFine(cw', cast') /\ NextFine(cw', cast')
      <4>1. Steady(cw, cast) /\ c \in Living(cw')
        BY <2>3, <3>2, <3>5 DEF Steady, SameRound
      <4>2. n \in Living(cw')
        BY <3>3, <4>1
      <4>3. QED
        BY <1>1, <1>2, <3>2, <4>1, <4>2 DEF TargetFine, NextFine, SameRound
    <3>6. CastFine(cw', cast')
      BY <1>1, <1>2, <3>2, <3>4, <3>5 DEF CastFine, SameRound, None
    <3>7. QED
      BY <2>1, <2>3, <2>4, <3>6, LawfulIs
  <2>7. QED
    BY <2>5, <2>6
<1>5. QED
  BY <1>1, <1>3, <1>4 DEF CastInv, CastFine

LEMMA FearKeeps ==
    ASSUME CastInv, spell_fear
    PROVE  Lawful
<1> DEFINE c == cast.by
           t == cast.inner
           still == UNCHANGED <<misuse, fogged, lasting, raff_list>>
<1>1. cast.phase = "fear"
  BY DEF spell_fear
<1>2. /\ c \in Casters /\ t \in Casters \union {None} /\ World(cw) /\ CastFine(cw, cast)
      /\ Steady(cw, cast) => TargetFine(cw, cast) /\ NextFine(cw, cast)
  BY <1>1 DEF CastInv, CastFine, None
<1>3. ASSUME c \notin Living(cw) PROVE CasterFell
  BY <1>2, <1>3, PlacesAssumption DEF CasterFell, Living
<1>4. CASE t = None
  <2>1. cast' = Returns(cast, 1) /\ cw' = cw /\ still
    BY <1>4 DEF spell_fear
  <2>2. SameRound(cast, cast') /\ cast'.phase = "back" /\ cast'.inner = t
    BY <1>2, <2>1, ReturnsIs DEF CastFine, SameRound
  <2>3. ASSUME Steady(cw', cast') PROVE TargetFine(cw', cast') /\ NextFine(cw', cast')
    <3>1. Steady(cw, cast)
      BY <2>1, <2>2, <2>3 DEF Steady, SameRound
    <3>2. QED
      BY <1>2, <2>1, <2>2, <3>1 DEF TargetFine, NextFine, SameRound
  <2>4. CastFine(cw', cast')
    BY <1>1, <1>2, <2>1, <2>2, <2>3 DEF CastFine, SameRound, None
  <2>5. World(cw') /\ NoneMade(cw, cw')
    BY <1>2, <2>1, SameMana
  <2>6. QED
    BY <2>1, <2>4, <2>5, LawfulIs
<1>5. CASE t # None /\ ~Here(cw, t)
  <2>1. Misused("frightened")
    BY <1>5 DEF spell_fear
  <2>2. CASE cast.src \in {"scroll", "potion"}
    BY <2>1, <2>2, MisusedFine DEF SpellsTouchTheLiving
  <2>3. CASE c \in Living(cw) /\ cast.src \notin {"scroll", "potion"}
    BY <1>1, <1>2, <1>5, <2>3 DEF Steady, TargetFine, Someone, Living
  <2>4. CASE c \notin Living(cw)
    BY <1>3, <2>1, <2>4, MisusedFine DEF SpellsTouchTheLiving
  <2>5. QED
    BY <2>2, <2>3, <2>4
<1>6. CASE ~Here(cw, c) /\ Misused("caster")
  <2>1. CasterFell
    BY <1>3, <1>6 DEF Living
  <2>2. QED
    BY <1>6, <2>1, MisusedFine DEF SpellsTouchTheLiving
<1>7. CASE /\ t # None /\ Here(cw, t) /\ cast' = [cast EXCEPT !.inner = NextInRoom(cw, t)] /\ still
           /\ \/ cw' = cw \/ cw' \in do_flee(cw, t)
              \/ Here(cw, c) /\ cw' \in Damage(cw, c)
  <2> DEFINE n == NextInRoom(cw, t)
  <2>1. t \in Living(cw)
    BY <1>2, <1>7 DEF Living
  <2>2. n = None \/ n \in Living(cw)
    BY <1>2, <2>1, MatesAre
  <2> HIDE DEF n
  <2>3. SameLives(cw, cw') \/ Falls(cw, cw', c)
    <3>1. CASE cw' = cw
      BY <1>2, <3>1, SameIs
    <3>2. CASE cw' \in do_flee(cw, t)
      BY <1>2, <2>1, <3>2, FleeIs
    <3>3. CASE cw' \in Damage(cw, c)
      BY <1>2, <3>3, DamageIs
    <3>4. QED
      BY <1>7, <3>1, <3>2, <3>3
  <2>4. /\ World(cw') /\ cw'.mana = cw.mana
        /\ c \in Living(cw') => Living(cw') = Living(cw)
    BY <2>3 DEF SameLives, Falls
  <2>5. NoneMade(cw, cw')
    BY <1>2, <2>4, SameMana
  <2>6. SameRound(cast, cast') /\ cast'.phase = "fear" /\ cast'.inner = n
    BY <1>1, <1>2, <1>7 DEF CommandParts, CastFine, SameRound, n
  <2>7. ASSUME Steady(cw', cast') PROVE TargetFine(cw', cast') /\ NextFine(cw', cast')
    <3>1. Living(cw') = Living(cw) /\ Steady(cw, cast)
      BY <2>4, <2>6, <2>7 DEF Steady, SameRound
    <3>2. QED
      BY <1>1, <1>2, <2>2, <2>6, <3>1 DEF TargetFine, NextFine, SameRound, Someone
  <2>8. n \in Casters \union {None}
    BY <2>2 DEF Living
  <2>9. CastFine(cw', cast')
    BY <1>1, <1>2, <2>6, <2>7, <2>8 DEF CastFine, SameRound, None
  <2>10. QED
    BY <1>7, <2>4, <2>5, <2>9, LawfulIs
<1>8. QED
  BY <1>4, <1>5, <1>6, <1>7 DEF spell_fear

(* What follows the return of a spell.                                     *)
LEMMA EndsIs ==
    ASSUME CastInv, cast' = NoCast, World(cw'), NoneMade(cw, cw'), UNCHANGED <<misuse, fogged, lasting, raff_list>>
    PROVE  Lawful
BY IdleFine, LawfulIs

(* One person has less mana, or as much.                                   *)
LEMMA PaysIs ==
    ASSUME NEW v, World(v), NEW c \in Casters, NEW cost \in Nat, NEW w,
           w = [v EXCEPT !.mana[c] = Max({0, @ - cost})]
    PROVE  World(w) /\ Living(w) = Living(v) /\ NoneMade(v, w) /\ w.rods = v.rods
<1>1. v.mana \in [Casters -> Nat] /\ v.rods \in [DOMAIN Rods -> Int]
  BY DEF World
<1>2. PICK y \in Int : y = v.mana[c] - cost
  BY <1>1
<1>3. PICK x : x = Max({0, y})
  OBVIOUS
<1>4. x = IF 0 >= y THEN 0 ELSE y
  BY <1>3, TwoIs
<1>5. x \in Nat /\ x <= v.mana[c]
  BY <1>1, <1>2, <1>4
<1>6. /\ w.mana = [v.mana EXCEPT ![c] = x] /\ DOMAIN w = DOMAIN v /\ w.spot = v.spot /\ w.life = v.life
      /\ w.rods = v.rods
  BY <1>2, <1>3 DEF World
<1>7. w.mana \in [Casters -> Nat]
  BY <1>1, <1>5, <1>6
<1>8. World(w) /\ Living(w) = Living(v)
  BY <1>1, <1>6, <1>7, AlikeIs
<1>9. NoneMade(v, w)
  BY <1>5, <1>6, LessMana
<1>10. QED
  BY <1>6, <1>8, <1>9

LEMMA ManacostIs ==
    ASSUME NEW c
    PROVE  mag_manacost(c) \in Nat /\ mag_manacost(c) \div 2 \in Nat
<1>1. CastCost \in Nat /\ CastCost \div 2 \in Nat /\ 0 \div 2 \in Nat
  BY CastingAssumption
<1>2. QED
  BY <1>1 DEF mag_manacost

LEMMA PayKeeps ==
    ASSUME CastInv, PayForSpell
    PROVE  Lawful
<1>1. cast.phase = "back" /\ cast.by \in Casters /\ World(cw)
  BY DEF PayForSpell, CastInv, CastFine, None
<1>2. CASE Misused("payer") /\ cw.life[cast.by] = "freed"
  <2>1. CasterFell
    BY <1>1, <1>2, PlacesAssumption DEF CasterFell, Here
  <2>2. QED
    BY <1>2, <2>1, MisusedFine DEF SpellsTouchTheLiving
<1>3. CASE /\ cw' = cw \/ cw' = [cw EXCEPT !.mana[cast.by] = Max({0, @ - mag_manacost(cast.by)})]
           /\ cast' = NoCast /\ UNCHANGED <<misuse, fogged, lasting, raff_list>>
  <2>1. World(cw') /\ NoneMade(cw, cw')
    <3>1. CASE cw' = cw
      BY <1>1, <3>1, SameMana
    <3>2. CASE cw' = [cw EXCEPT !.mana[cast.by] = Max({0, @ - mag_manacost(cast.by)})]
      BY <1>1, <3>2, PaysIs, ManacostIs
    <3>3. QED
      BY <1>3, <3>1, <3>2
  <2>2. QED
    BY <1>3, <2>1, EndsIs
<1>4. QED
  BY <1>2, <1>3 DEF PayForSpell

LEMMA ScrollKeeps ==
    ASSUME CastInv, NextOfScroll
    PROVE  Lawful
<1>1. /\ cast.phase = "back" /\ cast.src \in {"scroll", "potion"} /\ cast.by \in Casters
      /\ World(cw) /\ CastFine(cw, cast)
  BY DEF NextOfScroll, CastInv, CastFine, None
<1>2. CASE /\ cast' = [cast EXCEPT !.phase = "call", !.spells = Tail(@), !.result = 0]
           /\ UNCHANGED <<cw, misuse, fogged, lasting, raff_list>>
  <2>1. /\ DOMAIN cast' = CommandParts /\ cast'.src = cast.src /\ cast'.by = cast.by /\ cast'.tch = cast.tch
        /\ cast'.tobj = cast.tobj /\ cast'.rod = cast.rod /\ cast'.phase = "call" /\ cast'.next = cast.next
        /\ cast'.inner = cast.inner
    BY <1>1, <1>2 DEF CastFine, CommandParts
  <2>2. CastFine(cw', cast')
    BY <1>1, <2>1 DEF CastFine, Steady, None
  <2>3. World(cw') /\ NoneMade(cw, cw')
    BY <1>1, <1>2, SameMana
  <2>4. QED
    BY <1>2, <2>2, <2>3, LawfulIs
<1>3. CASE Misused("scroll")
  BY <1>1, <1>3, MisusedFine DEF SpellsTouchTheLiving
<1>4. CASE /\ cw' = [cw EXCEPT !.rods[cast.rod] = GoneRod] /\ cast' = NoCast
           /\ UNCHANGED <<misuse, fogged, lasting, raff_list>>
  <2>1. /\ DOMAIN cw' = DOMAIN cw /\ cw'.spot = cw.spot /\ cw'.life = cw.life /\ cw'.mana = cw.mana
        /\ cw'.rods = [cw.rods EXCEPT ![cast.rod] = GoneRod]
    BY <1>1, <1>4 DEF World
  <2>2. cw'.rods \in [DOMAIN Rods -> Int]
    <3>1. cw.rods \in [DOMAIN Rods -> Int] /\ GoneRod \in Int
      BY <1>1 DEF World, GoneRod
    <3>2. QED
      BY <2>1, <3>1
  <2>3. World(cw') /\ NoneMade(cw, cw')
    BY <1>1, <2>1, <2>2, RodsIs DEF Spelt
  <2>4. QED
    BY <1>4, <2>3, EndsIs
<1>5. QED
  BY <1>2, <1>3, <1>4 DEF NextOfScroll

LEMMA StaffKeeps ==
    ASSUME CastInv, NextOfStaff
    PROVE  Lawful
<1> DEFINE t == cast.next
<1>1. /\ cast.phase = "back" /\ cast.src = "staff" /\ cast.by \in Casters /\ World(cw) /\ CastFine(cw, cast)
      /\ t \in Casters \union {None}
      /\ cast.by \in Living(cw) => NextFine(cw, cast)
  BY DEF NextOfStaff, CastInv, CastFine, None, Steady
<1>2. CASE t = None
  <2>1. cast' = NoCast /\ cw' = cw /\ UNCHANGED <<misuse, fogged, lasting, raff_list>>
    BY <1>2 DEF NextOfStaff
  <2>2. World(cw') /\ NoneMade(cw, cw')
    BY <1>1, <2>1, SameMana
  <2>3. QED
    BY <2>1, <2>2, EndsIs
<1>3. CASE t # None /\ ~Here(cw, t)
  <2>1. Misused("next")
    BY <1>3 DEF NextOfStaff
  <2>2. CASE cast.by \in Living(cw)
    <3>1. t \in Pets \/ Head(cast.spells) = "chain"
      BY <1>1, <1>3, <2>2 DEF NextFine, Someone, Living
    <3>2. misuse' = "next"
      BY <2>1 DEF Misused
    <3>3. SpellsTouchTheLiving
      BY <1>1, <3>1, <3>2 DEF SpellsTouchTheLiving
    <3>4. QED
      BY <2>1, <3>3, MisusedFine
  <2>3. CASE cast.by \notin Living(cw)
    <3>1. CasterFell
      BY <1>1, <2>3, PlacesAssumption DEF CasterFell, Living
    <3>2. QED
      BY <2>1, <3>1, MisusedFine DEF SpellsTouchTheLiving
  <2>4. QED
    BY <2>2, <2>3
<1>4. CASE t # None /\ Here(cw, t)
  <2> DEFINE n == NextInRoom(cw, t)
             back == t = cast.by
  <2>1. /\ cw' = cw /\ UNCHANGED <<misuse, fogged, lasting, raff_list>>
        /\ cast' = [cast EXCEPT !.next = n, !.result = 0, !.tch = IF back THEN None ELSE t,
                                !.phase = IF back THEN "back" ELSE "call"]
    BY <1>4 DEF NextOfStaff
  <2>2. t \in Living(cw)
    BY <1>1, <1>4 DEF Living
  <2>3. n = None \/ n \in Living(cw) \ {t}
    BY <1>1, <2>2, MatesAre
  <2> HIDE DEF n, back
  <2>4. /\ DOMAIN cast' = CommandParts /\ cast'.src = cast.src /\ cast'.by = cast.by /\ cast'.tobj = cast.tobj
        /\ cast'.rod = cast.rod /\ cast'.spells = cast.spells /\ cast'.inner = cast.inner /\ cast'.next = n
        /\ cast'.tch = (IF back THEN None ELSE t) /\ cast'.phase = (IF back THEN "back" ELSE "call")
    BY <1>1, <2>1 DEF CastFine, CommandParts
  <2>5. n \in Casters \union {None}
    BY <2>3 DEF Living
  <2>6. ASSUME Steady(cw', cast') PROVE TargetFine(cw', cast') /\ NextFine(cw', cast')
    <3>1. NextFine(cw, cast)
      BY <1>1, <2>1, <2>4, <2>6 DEF Steady
    <3>2. TargetFine(cw', cast')
      BY <1>1, <2>1, <2>2, <2>4, <3>1 DEF TargetFine, NextFine, Someone
    <3>3. NextFine(cw', cast')
      BY <1>1, <1>4, <2>1, <2>3, <2>4, <3>1 DEF NextFine, Someone
    <3>4. QED
      BY <3>2, <3>3
  <2>7. CastFine(cw', cast')
    BY <1>1, <2>4, <2>5, <2>6 DEF CastFine, None
  <2>8. World(cw') /\ NoneMade(cw, cw')
    BY <1>1, <2>1, SameMana
  <2>9. QED
    BY <2>1, <2>7, <2>8, LawfulIs
<1>5. QED
  BY <1>2, <1>3, <1>4

LEMMA WandKeeps ==
    ASSUME CastInv, WandUsed
    PROVE  Lawful
<1>1. cast' = NoCast /\ cw' = cw /\ UNCHANGED <<misuse, fogged, lasting, raff_list>>
  BY DEF WandUsed
<1>2. World(cw') /\ NoneMade(cw, cw')
  BY <1>1, SameMana DEF CastInv
<1>3. QED
  BY <1>1, <1>2, EndsIs

(* The fog between the commands.                                           *)
LEMMA FogStep ==
    ASSUME CastInv, UNCHANGED <<cw, cast, misuse>>, FogFine'
    PROVE  Lawful
<1>1. NoneMade(cw, cw')
  BY SameMana DEF CastInv
<1>2. ManaNotMade
  BY <1>1 DEF NoneMade, ManaNotMade
<1>3. QED
  BY <1>2 DEF Lawful, CastInv, SpellsTouchTheLiving

LEMMA MadeKeeps ==
    ASSUME CastInv, NEW r, do_fog(r) \/ do_evap_fog(r)
    PROVE  Lawful
<1>1. UNCHANGED <<cw, cast, misuse, raff_list>> /\ fogged' \ lasting' \subseteq fogged \ lasting
  BY DEF do_fog, do_evap_fog
<1>2. FogFine'
  BY <1>1 DEF CastInv, FogFine, FogHasItsNode
<1>3. QED
  BY <1>1, <1>2, FogStep

LEMMA AgeKeeps ==
    ASSUME CastInv, raff_update
    PROVE  Lawful
<1> DEFINE N == [room : CastRooms, timer : Int]
           aged == [i \in DOMAIN raff_list |-> [raff_list[i] EXCEPT !.timer = @ - 1]]
           dead == {m \in ToSet(aged) : m.timer <= 0}
           over == {n.room : n \in dead}
<1>1. raff_list \in Seq(N) /\ FogHasItsNode
  BY DEF CastInv, FogFine
<1>2. /\ raff_list' = WithoutThese(aged, dead)
      /\ fogged' = fogged \ over /\ lasting' = lasting \ over /\ UNCHANGED <<cw, cast, misuse>>
  BY DEF raff_update
<1>3. DOMAIN raff_list = 1..Len(raff_list) /\ Len(raff_list) \in Nat /\ \A i \in DOMAIN raff_list : raff_list[i] \in N
  BY <1>1, LenProperties, ElementOfSeq
<1>4. ASSUME NEW i \in DOMAIN raff_list PROVE aged[i] \in N /\ aged[i].room = raff_list[i].room
  <2>1. raff_list[i] \in N
    BY <1>3
  <2>2. aged[i] = [raff_list[i] EXCEPT !.timer = @ - 1]
    OBVIOUS
  <2> HIDE DEF aged
  <2>3. QED
    BY <2>1, <2>2
<1>5. DOMAIN aged = DOMAIN raff_list /\ aged \in Seq(N)
  <2>1. DOMAIN aged = DOMAIN raff_list /\ aged \in [1..Len(raff_list) -> N]
    BY <1>3, <1>4
  <2> HIDE DEF aged, N
  <2>2. QED
    BY <1>3, <2>1
<1> HIDE DEF aged, N
<1>6. raff_list' \in Seq(N) /\ ToSet(raff_list') = ToSet(aged) \ dead
  BY <1>2, <1>5, SparedIs
<1>7. FogHasItsNode'
  <2>1. ASSUME NEW r \in fogged' \ lasting' PROVE \E n \in ToSet(raff_list') : n.room = r
    <3>1. r \in fogged \ lasting /\ r \notin over
      BY <1>2
    <3>2. PICK i \in DOMAIN raff_list : raff_list[i].room = r
      BY <1>1, <3>1 DEF FogHasItsNode, ToSet
    <3>3. aged[i] \in ToSet(aged) /\ aged[i].room = r
      BY <1>4, <1>5, <3>2 DEF ToSet
    <3>4. aged[i] \notin dead
      BY <3>1, <3>3
    <3>5. QED
      BY <1>6, <3>3, <3>4
  <2>2. QED
    BY <2>1 DEF FogHasItsNode
<1>8. FogFine'
  BY <1>6, <1>7 DEF FogFine, N
<1>9. QED
  BY <1>2, <1>8, FogStep

(* The commands that start it.                                             *)
LEMMA TargetsAre ==
    ASSUME NEW c, NEW s \in CastSpells, NEW t \in SpellTargets(c, s), c \in Living(cw)
    PROVE  /\ t[1] = None \/ t[1] \in Living(cw)
           /\ t[2] = None \/ (t[2] \in DOMAIN Rods /\ cw.rods[t[2]] # GoneRod)
<1> DEFINE people == {d \in Casters : Here(cw, d) /\ RoomNow(cw, d) = RoomNow(cw, c)}
           rods == {o \in DOMAIN Rods : cw.rods[o] # GoneRod}
           alone == {<<None, None>>}
           them == (people \ {c}) \X {None}
           me == {c} \X {None}
           things == {None} \X rods
<1>1. t \in alone \/ t \in them \/ t \in me \/ t \in things
  <2>1. CASE s \in {"fear", "group"}
    BY <2>1 DEF SpellTargets
  <2>2. CASE s \in {"missile", "chain", "transfer"}
    BY <2>2 DEF SpellTargets
  <2>3. CASE s = "fog"
    BY <2>3 DEF SpellTargets
  <2>4. CASE s \in {"disintegrate", "recharge", "animate"}
    BY <2>4 DEF SpellTargets
  <2>5. QED
    BY <2>1, <2>2, <2>3, <2>4 DEF CastSpells
<1>2. people \subseteq Living(cw)
  BY DEF Living
<1>3. QED
  BY <1>1, <1>2

LEMMA CastKeeps ==
    ASSUME CastInv, NEW c \in Casters, NEW s \in CastSpells, NEW t \in SpellTargets(c, s), do_cast(c, s, t)
    PROVE  Lawful
<1> DEFINE tired == [cw EXCEPT !.mana[c] = Max({0, @ - mag_manacost(c) \div 2})]
<1>1. Ready(c) /\ UNCHANGED <<misuse, fogged, lasting, raff_list>>
  BY DEF do_cast
<1>2. World(cw) /\ c \in Living(cw) /\ cast = NoCast
  BY <1>1 DEF Ready, Living, CastInv
<1>3. /\ t[1] = None \/ t[1] \in Living(cw)
      /\ t[2] = None \/ (t[2] \in DOMAIN Rods /\ cw.rods[t[2]] # GoneRod)
  BY <1>2, TargetsAre
<1>4. CASE cw' \in (IF s \in ViolentSpells /\ t[1] \in CastMobs THEN Damage(tired, c) ELSE {tired}) /\ UNCHANGED cast
  <2>1. World(tired) /\ NoneMade(cw, tired)
    <3>1. mag_manacost(c) \div 2 \in Nat
      BY ManacostIs
    <3>2. PICK cost \in Nat : cost = mag_manacost(c) \div 2
      BY <3>1
    <3>3. QED
      BY <1>2, <3>2, PaysIs
  <2> HIDE DEF tired
  <2>2. World(cw') /\ cw'.mana = tired.mana
    <3>1. CASE cw' = tired
      BY <2>1, <3>1
    <3>2. CASE cw' \in Damage(tired, c)
      <4>1. SameLives(tired, cw') \/ Falls(tired, cw', c)
        BY <2>1, <3>2, DamageIs
      <4>2. QED
        BY <4>1 DEF SameLives, Falls
    <3>3. QED
      BY <1>4, <3>1, <3>2
  <2>3. TotalMana(cw') = TotalMana(tired)
    BY <2>2, ManaIs
  <2>4. NoneMade(cw, cw')
    BY <2>1, <2>3 DEF NoneMade
  <2>5. QED
    BY <1>1, <1>2, <1>4, <2>2, <2>4, EndsIs
<1>5. CASE /\ cast' = [NoCast EXCEPT !.src = "cast", !.by = c, !.tch = t[1], !.tobj = t[2],
                                     !.spells = <<s>>, !.phase = "call"]
           /\ UNCHANGED cw
  <2>1. /\ DOMAIN cast' = CommandParts /\ cast'.src = "cast" /\ cast'.by = c /\ cast'.tch = t[1]
        /\ cast'.tobj = t[2] /\ cast'.phase = "call" /\ cast'.next = None /\ cast'.inner = None
    BY <1>5 DEF NoCast, CommandParts
  <2>2. TargetFine(cw, cast') /\ NextFine(cw, cast')
    BY <1>3, <2>1 DEF TargetFine, NextFine, Someone
  <2>3. cast'.tch \in Casters \union {None} /\ cast'.tobj \in DOMAIN Rods \union {None}
    BY <1>3, <2>1 DEF Living
  <2>4. CastFine(cw', cast')
    BY <1>5, <2>1, <2>2, <2>3 DEF CastFine
  <2>5. World(cw') /\ NoneMade(cw, cw')
    BY <1>2, <1>5, SameMana
  <2>6. QED
    BY <1>1, <2>4, <2>5, LawfulIs
<1>6. QED
  BY <1>4, <1>5 DEF do_cast

LEMMA UseKeeps ==
    ASSUME CastInv, NEW c \in Casters, NEW o \in DOMAIN Rods, NEW d \in Casters \union {None},
           NEW obj \in DOMAIN Rods \union {None}, do_use(c, o, d, obj)
    PROVE  Lawful
<1> DEFINE kind == Rods[o].type
           first == RoomMates(cw, c)[1]
           staff == kind = "staff"
<1>1. /\ Ready(c) /\ cw.rods[o] > 0 /\ kind # "corpse"
      /\ d # None => Here(cw, d)
      /\ obj # None => cw.rods[obj] # GoneRod
      /\ kind \in {"potion", "staff"} => d = c /\ obj = None
      /\ cw' = IF kind \in {"wand", "staff"} THEN [cw EXCEPT !.rods[o] = @ - 1] ELSE cw
      /\ cast' = [NoCast EXCEPT !.src = kind, !.by = c, !.rod = o, !.tobj = obj, !.spells = Rods[o].spells,
                                !.phase = IF staff THEN "back" ELSE "call",
                                !.tch = IF staff THEN None ELSE d,
                                !.next = IF staff THEN first ELSE None]
      /\ UNCHANGED <<misuse, fogged, lasting, raff_list>>
  BY DEF do_use
<1>2. World(cw) /\ c \in Living(cw) /\ cw.rods \in [DOMAIN Rods -> Int]
  BY <1>1 DEF Ready, Living, CastInv, World
<1>3. first \in Living(cw)
  BY <1>2, MatesAre
<1>4. kind \in {"scroll", "potion", "wand", "staff"}
  BY <1>1, PlacesAssumption
<1> HIDE DEF kind, first, staff
<1>5. /\ DOMAIN cast' = CommandParts /\ cast'.src = kind /\ cast'.by = c /\ cast'.tobj = obj /\ cast'.rod = o
      /\ cast'.inner = None /\ cast'.phase = (IF staff THEN "back" ELSE "call")
      /\ cast'.tch = (IF staff THEN None ELSE d) /\ cast'.next = (IF staff THEN first ELSE None)
  BY <1>1 DEF NoCast, CommandParts
<1>6. /\ World(cw') /\ Living(cw') = Living(cw) /\ NoneMade(cw, cw')
      /\ obj # None => cw'.rods[obj] # GoneRod
  <2>1. CASE cw' = cw
    BY <1>1, <1>2, <2>1, SameMana
  <2>2. CASE cw' = [cw EXCEPT !.rods[o] = @ - 1]
    <3>1. /\ DOMAIN cw' = DOMAIN cw /\ cw'.spot = cw.spot /\ cw'.life = cw.life /\ cw'.mana = cw.mana
          /\ cw'.rods = [cw.rods EXCEPT ![o] = @ - 1]
      BY <1>2, <2>2 DEF World
    <3>2. PICK x \in Int : x = cw.rods[o] - 1 /\ x # GoneRod
      BY <1>1, <1>2 DEF GoneRod
    <3>3. cw'.rods \in [DOMAIN Rods -> Int] /\ (obj # None => cw'.rods[obj] # GoneRod)
      BY <1>1, <1>2, <3>1, <3>2
    <3>4. cw.mana \in [Casters -> Nat]
      BY <1>2 DEF World
    <3>5. World(cw') /\ Living(cw') = Living(cw)
      BY <1>2, <3>1, <3>3, <3>4, AlikeIs
    <3>6. NoneMade(cw, cw')
      BY <1>2, <3>1, SameMana
    <3>7. QED
      BY <3>3, <3>5, <3>6
  <2>3. QED
    BY <1>1, <2>1, <2>2
<1>7. d = None \/ d \in Living(cw)
  BY <1>1 DEF Living
<1>8. TargetFine(cw', cast')
  BY <1>5, <1>6, <1>7 DEF TargetFine, Someone
<1>9. NextFine(cw', cast')
  BY <1>1, <1>3, <1>5, <1>6 DEF NextFine, Someone, staff
<1>10. CastFine(cw', cast')
  <2>1. first \in Casters
    BY <1>3 DEF Living
  <2>2. QED
    BY <1>5, <1>8, <1>9, <2>1 DEF CastFine
<1>11. QED
  BY <1>1, <1>6, <1>10, LawfulIs

LEMMA CastingStarts ==
    CastingInit => CastInv
<1> SUFFICES ASSUME CastingInit PROVE CastInv
  OBVIOUS
<1> DEFINE life == [c \in Casters |-> IF c = Zombie THEN "unborn" ELSE "here"]
           people == Casters \ {Zombie}
<1>1. /\ DOMAIN cw = {"spot", "life", "hp", "mana", "master", "grouped", "rods"}
      /\ cw.spot = FirstPlaces /\ cw.life = life /\ cw.mana = [c \in Casters |-> MaxMana]
      /\ cw.rods = [o \in DOMAIN Rods |-> Rods[o].max]
  BY DEF CastingInit
<1>2. cw.mana \in [Casters -> Nat] /\ cw.rods \in [DOMAIN Rods -> Int]
  BY <1>1, CastingAssumption, PlacesAssumption
<1>3. Living(cw) = people
  BY <1>1 DEF Living, Here
<1>4. PlacesFine(FirstPlaces, people)
  <2>1. FirstPlaces \in [CastRooms -> Seq(Casters)]
    <3>1. ASSUME NEW r \in CastRooms PROVE FirstPlaces[r] \in Seq(Casters)
      <4> DEFINE s == FirstPlaces[r]
      <4>1. s \in Seq(people)
        BY PlacesAssumption
      <4> HIDE DEF s, people
      <4>2. s \in [1..Len(s) -> people] /\ Len(s) \in Nat
        BY <4>1, LenProperties, ElementOfSeq
      <4>3. s \in [1..Len(s) -> Casters]
        BY <4>2 DEF people
      <4>4. s \in Seq(Casters)
        BY <4>2, <4>3
      <4>5. QED
        BY <4>4 DEF s
    <3>2. QED
      BY <3>1, PlacesAssumption
  <2>2. \A r \in CastRooms : OneToOne(FirstPlaces[r])
    BY PlacesAssumption DEF OneToOne
  <2>3. ASSUME NEW r \in CastRooms, NEW c \in ToSet(FirstPlaces[r]) PROVE c \in people
    <3>1. FirstPlaces[r] \in Seq(people)
      BY PlacesAssumption
    <3>2. PICK i \in DOMAIN FirstPlaces[r] : c = FirstPlaces[r][i]
      BY <2>3 DEF ToSet
    <3> HIDE DEF people
    <3>3. QED
      BY <3>1, <3>2, LenProperties, ElementOfSeq
  <2>4. \A c \in Casters : c \in people <=> \E r \in CastRooms : c \in ToSet(FirstPlaces[r])
    BY <2>3, PlacesAssumption
  <2>5. ASSUME NEW r \in CastRooms, NEW q \in CastRooms, r # q, NEW x \in ToSet(FirstPlaces[r]), x \in ToSet(FirstPlaces[q])
        PROVE  FALSE
    BY <2>5, PlacesAssumption DEF ToSet
  <2>6. QED
    BY <2>1, <2>2, <2>4, <2>5 DEF PlacesFine
<1>5. World(cw)
  <2>1. life = [c \in Casters |-> life[c]]
    OBVIOUS
  <2> HIDE DEF life
  <2>2. QED
    BY <1>1, <1>2, <1>3, <1>4, <2>1 DEF World
<1>6. CastFine(cw, cast)
  BY IdleFine DEF CastingInit
<1>7. FogFine
  <2>1. raff_list = <<>> /\ fogged = {}
    BY DEF CastingInit
  <2>2. QED
    BY <2>1, EmptySeq DEF FogFine, FogHasItsNode
<1>8. QED
  BY <1>5, <1>6, <1>7 DEF CastInv

LEMMA CastingSteps ==
    ASSUME CastInv, [CastingNext]_castVars
    PROVE  Lawful
<1>1. CASE UNCHANGED castVars
  <2>1. UNCHANGED <<cw, cast, misuse, fogged, lasting, raff_list>>
    BY <1>1 DEF castVars
  <2>2. FogFine'
    BY <2>1 DEF CastInv, FogFine, FogHasItsNode
  <2>3. QED
    BY <2>1, <2>2, FogStep
<1>2. ASSUME NEW c \in {d \in Casters : Ready(d)}, NEW s \in CastSpells, NEW t \in SpellTargets(c, s), do_cast(c, s, t)
      PROVE  Lawful
  BY <1>2, CastKeeps
<1>3. ASSUME NEW c \in CastPlayers, NEW o \in DOMAIN Rods, NEW d \in Casters \union {None},
             NEW obj \in DOMAIN Rods \union {None}, do_use(c, o, d, obj)
      PROVE  Lawful
  BY <1>3, UseKeeps DEF Casters
<1>4. ASSUME NEW r \in CastRooms, do_fog(r) \/ do_evap_fog(r) PROVE Lawful
  BY <1>4, MadeKeeps
<1>5. CASE call_magic
  BY <1>5, CallKeeps
<1>6. CASE spell_chain_lightning
  BY <1>6, ChainKeeps
<1>7. CASE spell_fear
  BY <1>7, FearKeeps
<1>8. CASE PayForSpell
  BY <1>8, PayKeeps
<1>9. CASE NextOfScroll
  BY <1>9, ScrollKeeps
<1>10. CASE NextOfStaff
  BY <1>10, StaffKeeps
<1>11. CASE WandUsed
  BY <1>11, WandKeeps
<1>12. CASE raff_update
  BY <1>12, AgeKeeps
<1>13. QED
  BY <1>1, <1>2, <1>3, <1>4, <1>5, <1>6, <1>7, <1>8, <1>9, <1>10, <1>11, <1>12 DEF CastingNext

(* What a command reaches is in the game but in the cases named, mana is   *)
(* made by a boost alone or by one who has none, and fog that a spell made *)
(* has its node (spell_parser.c, spells.c, magic.c).                       *)
THEOREM CastingAlwaysSound == CastingSpec => CastingSound
<1>1. CastInv /\ [CastingNext]_castVars => CastInv' /\ [SpellsTouchTheLiving /\ ManaNotMade]_castVars
  BY CastingSteps DEF Lawful
<1>2. CastInv => FogHasItsNode
  BY DEF CastInv, FogFine
<1>3. QED
  BY <1>1, <1>2, CastingStarts, PTL DEF CastingSpec, CastingSound

=============================================================================
