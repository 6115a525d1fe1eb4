------------------------------ MODULE MCCombat ------------------------------
(***************************************************************************)
(* Instances of Combat for TLC: a field, and a haven where spirits,        *)
(* idlers and the rescued go, peaceful or not.                             *)
(***************************************************************************)
EXTENDS Combat, TLC

CONSTANTS p1, p2, m1, m2, field, haven

OnePlayer == {p1}
TwoMobs   == {m1, m2}
Rooms     == {field, haven}
Haven     == {haven}
Doors     == {<<field, haven>>, <<haven, field>>}
NoKeeper  == {}
NoMishap  == {}

\* p1 is a newcomer of level 0, who may be pulled into the void and may kill p2.
Levels == [c \in Char |-> CASE c = p1 -> 0 [] c = p2 -> 10 [] OTHER -> 1]
Foes   == {<<p1, p2>>}

\* Who can do what: a fighter of many skills, and a party with area spells.
Fighter == Player \X {"kick", "backstab", "bash", "rescue", "retreat", "sleep", "charm",
                      "shoot"}

Party   == (Player \X {"rescue", "charm", "recall"}) \cup (Char \X {"area"})
             \cup {<<p1, "heal">>}

TwoPlayers == {p1, p2}
OneMob     == {m1}

\* Every fall of one or more of the bands in S.
Falls(S) == {b \in S \X S : b[2] <= b[1] /\ (b[2] = DEAD => b[1] <= MORTALLYW)}
              \cup {<<h, h>> : h \in Band}

\* The incapacitated are as the mortally wounded, but not yet in reach of death;
\* with HeavyBlows so are the stunned.
Blows      == Falls({DEAD, MORTALLYW, STUNNED, Hale})
HeavyBlows == Falls({DEAD, MORTALLYW, Hale})

MobSymmetry == Permutations(Mob)
=============================================================================
