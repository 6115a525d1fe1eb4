---------------------------- MODULE CombatProofs ----------------------------
(***************************************************************************)
(* Fighting for all characters, rooms, skills and blows: combat_list is    *)
(* sound in the middle of every round, a round gives everyone one turn,    *)
(* no fight is started in or carried into a peaceful room and, without     *)
(* the known defects (Mishap = {}), the fallen fight nobody and no handler *)
(* goes on with a freed mob.                                               *)
(*                                                                         *)
(* The invariant is Whole, about a world, and OnTurn, about the cursor in  *)
(* it.  What the properties do not say and a proof needs: the list has a   *)
(* first member among any of its members (so there is always a next one,   *)
(* and no induction over the list is called for), whoever fights is not in *)
(* a peaceful room, with or without his opponent, and whoever fights is    *)
(* not stunned, with the exception of the victim of a blow until damage()  *)
(* has taken him off the list: that is the set D.                          *)
(*                                                                         *)
(* Every function of the code is the set of the worlds it may leave, and   *)
(* has a lemma: the worlds are Good, and they Keep what its callers go on  *)
(* to use, who is in the game and who is able.                             *)
(***************************************************************************)
EXTENDS Combat, TLAPS

(* combat_list is a line of those who fight: each set of members has one   *)
(* who comes before the others.                                            *)
Lined(v) ==
  /\ v.listed = {c \in Char : v.fighting[c] # NoOne}
  /\ \A c \in Char : v.fighting[c] # c
  /\ v.ahead \subseteq v.listed \X v.listed
  /\ \A c, d \in v.listed : <<c, d>> \in v.ahead => <<d, c>> \notin v.ahead
  /\ \A S \in SUBSET v.listed :
       S # {} => \E x \in S : S \ {x} \subseteq Behind(v, x)

Facing(v) ==
  \A c \in Char : v.fighting[c] # NoOne => Present(v, c) /\ Present(v, v.fighting[c])

Calm(v) == \A c \in Char : v.fighting[c] # NoOne => v.room[c] \notin Peaceful

Down(v, D) ==
  /\ \A c \in Char : v.health[c] <= STUNNED => v.pos[c] <= STUNNED
  /\ \A c \in Char \ D : v.fighting[c] # NoOne => v.pos[c] > STUNNED

Whole(v, D) ==
  /\ v \in World
  /\ Lined(v) /\ Facing(v) /\ Calm(v)
  /\ Mishap = {} => Down(v, D)

OnTurn(v) ==
  /\ v.cursor \in v.listed \cup {NoOne}
  /\ v.due = IF v.cursor = NoOne THEN {} ELSE {v.cursor} \cup Behind(v, v.cursor)

Good(v, D) == Whole(v, D) /\ OnTurn(v)

JobSound ==
  /\ job \in Job
  /\ job.op \in {"idle", "area", "blast"} => w.cursor = NoOne
  /\ job.op = "turn" =>
       /\ job.who \in w.listed
       /\ w.cursor \in {NoOne, job.who}
       /\ w.due = {job.who} \cup Behind(w, job.who)
  /\ job.op # "turn" => OnTurn(w)
  /\ job.op = "strikes" => job.who \in Char
  /\ job.op = "area" =>
       /\ job.who \in Char /\ job.next \in Char /\ job.next \notin job.rest
       /\ \A x \in job.rest \cup {job.next} : x # job.who => Present(w, x)
       /\ Mishap = {} => Present(w, job.who)
  /\ job.op = "blast" /\ Mishap = {} => \A x \in job.rest : w.fighting[x] = NoOne
  /\ Mishap = {} => ~w.freedUse

Inv == Whole(w, {}) /\ JobSound

(* Who can stand and fight, and who is not (about to be) dead.             *)
Able(v, x)  == Present(v, x) /\ v.health[x] > STUNNED /\ v.pos[x] > STUNNED
Alive(v, x) == v.health[x] # DEAD /\ v.pos[x] # DEAD

(* From v to u only those in P may have left the game, and only those in A *)
(* have come to harm.                                                      *)
Keeps(v, u, A, P) ==
  /\ v.cursor = NoOne => u.cursor = NoOne
  /\ \A x \in Char \ P : Present(v, x) => Present(u, x)
  /\ \A x \in Char \ A : (Able(v, x) => Able(u, x)) /\ (Alive(v, x) => Alive(u, x))

Quiet(v, u, A, P) == Keeps(v, u, A, P) /\ u.freedUse = v.freedUse

-----------------------------------------------------------------------------
(* What the constants are.                                                 *)
LEMMA Sorts ==
  /\ NoOne \notin Char /\ Player \cap Mob = {}
  /\ \A c \in Char : c \in Player \/ c \in Mob
  /\ Nowhere \notin Room /\ Nowhere \notin Peaceful /\ Peaceful \subseteq Room
  /\ SpiritRoom \in Room /\ VoidRoom \in Room /\ LimboRoom \in Room /\ StartRoom \in Room
  /\ MaxAttacks \in Nat
BY CombatAssumption DEF Char

(* A blow takes hit points, healing gives some, and only the mortally      *)
(* wounded can be killed by one blow.                                      *)
LEMMA BlowsHurt ==
  ASSUME NEW v \in World, NEW c \in Char
  PROVE  /\ \A h \in Worse(v, c) : /\ h \in Band /\ h <= v.health[c]
                                   /\ h = DEAD => v.health[c] <= MORTALLYW
         /\ \A h \in Better(v, c) : h \in Band /\ h >= v.health[c]
BY CombatAssumption DEF Worse, Better, World, Band

(* update_pos: down with the hit points, or up.                            *)
LEMMA UpdatedPosFacts ==
  ASSUME NEW h \in Band, NEW p \in DEAD..STANDING
  PROVE  LET q == UpdatedPos(h, p)
         IN  /\ q \in DEAD..STANDING
             /\ h <= STUNNED => q = h
             /\ h > STUNNED => q > STUNNED
BY DEF UpdatedPos, Band, DEAD, STANDING, STUNNED, Hale

(* Any members of the list have a first one among them.                    *)
LEMMA FirstOfListed ==
  ASSUME NEW v, Lined(v), NEW S \in SUBSET v.listed, S # {}
  PROVE  /\ FirstOf(v, S) \in S
         /\ S \ {FirstOf(v, S)} \subseteq Behind(v, FirstOf(v, S))
BY DEF Lined, FirstOf

(* No members, no first one.                                               *)
LEMMA FirstOfNone ==
  ASSUME NEW v
  PROVE  FirstOf(v, {}) = NoOne
BY DEF FirstOf

(* The list is one line.                                                   *)
LEMMA BehindFacts ==
  ASSUME NEW v, Lined(v), NEW x \in v.listed
  PROVE  /\ Behind(v, x) \subseteq v.listed
         /\ x \notin Behind(v, x)
         /\ \A y \in Behind(v, x) : x \notin Behind(v, y) /\ Behind(v, y) \subseteq Behind(v, x)
         /\ \A y \in v.listed : y = x \/ y \in Behind(v, x) \/ x \in Behind(v, y)
<1>1. Behind(v, x) \subseteq v.listed /\ x \notin Behind(v, x)
  BY DEF Lined, Behind
<1>2. ASSUME NEW y \in Behind(v, x)
      PROVE  x \notin Behind(v, y)
  BY DEF Lined, Behind
<1>3. ASSUME NEW y \in Behind(v, x), NEW z \in Behind(v, y)
      PROVE  z \in Behind(v, x)
  <2>1. y \in v.listed /\ z \in v.listed /\ z # y /\ x # y /\ z # x
    BY <1>2 DEF Lined, Behind
  <2>2. PICK f \in {x, y, z} : {x, y, z} \ {f} \subseteq Behind(v, f)
    <3>1. {x, y, z} \in SUBSET v.listed /\ {x, y, z} # {}
      BY <2>1
    <3> QED
      BY <3>1 DEF Lined
  <2>3. f # y
    BY <1>2, <2>1, <2>2
  <2>4. f # z
    BY <2>1, <2>2 DEF Lined, Behind
  <2> QED
    BY <2>1, <2>2, <2>3, <2>4
<1>4. ASSUME NEW y \in v.listed
      PROVE  y = x \/ y \in Behind(v, x) \/ x \in Behind(v, y)
  <2>1. {x, y} \in SUBSET v.listed /\ {x, y} # {}
    OBVIOUS
  <2>2. PICK f \in {x, y} : {x, y} \ {f} \subseteq Behind(v, f)
    BY <2>1 DEF Lined
  <2> QED
    BY <2>2
<1> QED
  BY <1>1, <1>2, <1>3, <1>4

(* What does not touch a fight leaves the list and the cursor sound.       *)
LEMMA GoodFrame ==
  ASSUME NEW v, NEW u, NEW D, NEW E, Good(v, D), u \in World,
         u.fighting = v.fighting, u.listed = v.listed, u.ahead = v.ahead,
         u.cursor = v.cursor, u.due = v.due,
         Facing(u), Calm(u), Mishap = {} => Down(u, E)
  PROVE  Good(u, E)
<1>1. \A x : Behind(u, x) = Behind(v, x)
  BY DEF Behind
<1> QED
  BY <1>1 DEF Good, Whole, Lined, OnTurn

(* One step after another keeps what both keep.                            *)
LEMMA KeepsTransitive ==
  ASSUME NEW v, NEW u, NEW x, NEW A, NEW P, NEW B, NEW Q,
         Keeps(v, u, A, P), Keeps(u, x, B, Q)
  PROVE  Keeps(v, x, A \cup B, P \cup Q)
BY DEF Keeps

(* Nothing happens.                                                        *)
LEMMA KeepsItself ==
  ASSUME NEW v
  PROVE  Quiet(v, v, {}, {})
BY DEF Keeps, Quiet

-----------------------------------------------------------------------------
(* What stop_fighting leaves of v for those in S.                          *)
Stopped(v, u, S) ==
  /\ u.listed = v.listed \ S /\ u.due = v.due \ S
  /\ u.ahead = {e \in v.ahead : e[1] \notin S /\ e[2] \notin S}
  /\ u.cursor = IF v.cursor \in S THEN FirstOf(v, Behind(v, v.cursor) \ S) ELSE v.cursor
  /\ \A c \in Char : u.fighting[c] = IF c \in S THEN NoOne ELSE v.fighting[c]
  /\ \A c \in Char : u.pos[c] = IF c \in S THEN UpdatedPos(v.health[c], STANDING)
                                ELSE v.pos[c]
  /\ u.room = v.room /\ u.health = v.health /\ u.master = v.master
  /\ u.linkless = v.linkless /\ u.freedUse = v.freedUse

(* stop_fighting, field by field.                                          *)
LEMMA StopAllFields ==
  ASSUME NEW v \in World, NEW S \in SUBSET Char, Lined(v),
         v.cursor \in v.listed \cup {NoOne}
  PROVE  StopAll(v, S) \in World /\ Stopped(v, StopAll(v, S), S)
<1> DEFINE F == [c \in Char |-> IF c \in S THEN NoOne ELSE v.fighting[c]]
           P == [c \in Char |-> IF c \in S THEN UpdatedPos(v.health[c], STANDING) ELSE v.pos[c]]
           C == IF v.cursor \in S THEN FirstOf(v, Behind(v, v.cursor) \ S) ELSE v.cursor
           L == v.listed \ S
           Q == v.due \ S
           A == {e \in v.ahead : e[1] \notin S /\ e[2] \notin S}
           u == [v EXCEPT !.cursor = C, !.listed = L, !.due = Q, !.ahead = A,
                          !.fighting = F, !.pos = P]
<1>1. StopAll(v, S) = u
  BY DEF StopAll
<1>2. C \in v.listed \cup {NoOne}
  <2> DEFINE B == Behind(v, v.cursor) \ S
  <2>1. B \in SUBSET v.listed
    BY DEF Behind
  <2> HIDE DEF B
  <2>2. FirstOf(v, B) \in v.listed \cup {NoOne}
    <3>1. CASE B = {}
      BY <3>1, FirstOfNone
    <3>2. CASE B # {}
      BY <2>1, <3>2, FirstOfListed
    <3> QED
      BY <3>1, <3>2
  <2> QED
    BY <2>2 DEF B
<1>3. P \in [Char -> DEAD..STANDING]
  <2>1. STANDING \in DEAD..STANDING
    BY DEF DEAD, STANDING
  <2>2. v.health \in [Char -> Band] /\ v.pos \in [Char -> DEAD..STANDING]
    BY DEF World
  <2> QED
    BY <2>1, <2>2, UpdatedPosFacts
<1>4. F \in [Char -> Char \cup {NoOne}]
  BY DEF World
<1>5. L \in SUBSET Char /\ Q \in SUBSET Char /\ A \in SUBSET (Char \X Char)
      /\ v.listed \in SUBSET Char
  BY DEF World
<1>6. /\ \A c \in Char : F[c] = IF c \in S THEN NoOne ELSE v.fighting[c]
      /\ \A c \in Char : P[c] = IF c \in S THEN UpdatedPos(v.health[c], STANDING) ELSE v.pos[c]
      /\ A = {e \in v.ahead : e[1] \notin S /\ e[2] \notin S}
      /\ L = v.listed \ S /\ Q = v.due \ S
      /\ C = IF v.cursor \in S THEN FirstOf(v, Behind(v, v.cursor) \ S) ELSE v.cursor
  OBVIOUS
<1> HIDE DEF F, P, C, L, Q, A
<1>7. /\ u \in World
      /\ u.listed = L /\ u.due = Q /\ u.ahead = A /\ u.cursor = C /\ u.fighting = F /\ u.pos = P
      /\ u.room = v.room /\ u.health = v.health /\ u.master = v.master
      /\ u.linkless = v.linkless /\ u.freedUse = v.freedUse
  BY <1>2, <1>3, <1>4, <1>5 DEF World
<1> HIDE DEF u
<1>8. Stopped(v, u, S)
  <2>1. /\ u.listed = v.listed \ S /\ u.due = v.due \ S
        /\ u.ahead = {e \in v.ahead : e[1] \notin S /\ e[2] \notin S}
    BY <1>6, <1>7
  <2>2. u.cursor = IF v.cursor \in S THEN FirstOf(v, Behind(v, v.cursor) \ S) ELSE v.cursor
    BY <1>6, <1>7
  <2>3. /\ \A c \in Char : u.fighting[c] = IF c \in S THEN NoOne ELSE v.fighting[c]
        /\ \A c \in Char : u.pos[c] = IF c \in S THEN UpdatedPos(v.health[c], STANDING)
                                      ELSE v.pos[c]
    BY <1>6, <1>7
  <2> QED
    BY <2>1, <2>2, <2>3, <1>7 DEF Stopped
<1> QED
  BY <1>1, <1>7, <1>8

(* Those in S no longer fight; nobody has moved, been hurt or changed      *)
(* masters.                                                                *)
Parted(v, u, S) ==
  /\ \A c \in Char : u.fighting[c] = IF c \in S THEN NoOne ELSE v.fighting[c]
  /\ u.room = v.room /\ u.health = v.health /\ u.master = v.master
  /\ u.linkless = v.linkless

(* stop_fighting: those who are left fight on, in the order they had, the  *)
(* cursor moves past those who stop, and nobody comes to harm.             *)
LEMMA StopAllGood ==
  ASSUME NEW v, NEW D, Good(v, D), NEW S \in SUBSET Char
  PROVE  LET u == StopAll(v, S)
         IN  Good(u, D \ S) /\ Quiet(v, u, {}, {}) /\ Parted(v, u, S)
<1> DEFINE u == StopAll(v, S)
<1>1. v \in World /\ Lined(v) /\ v.cursor \in v.listed \cup {NoOne} /\ v.listed \subseteq Char
  BY DEF Good, Whole, OnTurn, World
<1>2. u \in World /\ Stopped(v, u, S)
  BY <1>1, StopAllFields
<1> HIDE DEF u
<1>3. \A x \in v.listed \ S : Behind(u, x) = Behind(v, x) \ S
  BY <1>1, <1>2 DEF Behind, Stopped
<1>4. Lined(u)
  <2>1. u.listed = {c \in Char : u.fighting[c] # NoOne} /\ \A c \in Char : u.fighting[c] # c
    BY <1>1, <1>2, Sorts DEF Lined, Stopped
  <2>2. /\ u.ahead \subseteq u.listed \X u.listed
        /\ \A c, d \in u.listed : <<c, d>> \in u.ahead => <<d, c>> \notin u.ahead
    BY <1>1, <1>2 DEF Lined, Stopped
  <2>3. ASSUME NEW T \in SUBSET u.listed, T # {}
        PROVE  \E x \in T : T \ {x} \subseteq Behind(u, x)
    <3>1. T \in SUBSET v.listed /\ T \subseteq v.listed \ S
      BY <1>2 DEF Stopped
    <3>2. PICK x \in T : T \ {x} \subseteq Behind(v, x)
      BY <3>1, <2>3, <1>1 DEF Lined
    <3> QED
      BY <3>1, <3>2, <1>3
  <2> QED
    BY <2>1, <2>2, <2>3 DEF Lined
<1>5. Facing(u) /\ Calm(u)
  BY <1>2 DEF Good, Whole, Facing, Calm, Present, Stopped
<1>6. \A c \in S : /\ v.health[c] <= STUNNED => u.pos[c] = v.health[c]
                   /\ v.health[c] > STUNNED => u.pos[c] > STUNNED
  <2>1. STANDING \in DEAD..STANDING /\ v.health \in [Char -> Band]
    BY <1>1 DEF DEAD, STANDING, World
  <2> QED
    BY <1>2, <2>1, UpdatedPosFacts DEF Stopped
<1>7. Mishap = {} => Down(u, D \ S)
  BY <1>2, <1>6 DEF Good, Whole, Down, Stopped
<1>8. OnTurn(u)
  <2>1. CASE v.cursor = NoOne
    BY <2>1, <1>2, Sorts DEF Good, OnTurn, Stopped
  <2>2. CASE v.cursor \in v.listed \ S
    <3>1. v.cursor # NoOne
      BY <2>2, <1>1, Sorts
    <3>2. u.cursor = v.cursor /\ u.due = ({v.cursor} \cup Behind(v, v.cursor)) \ S
      BY <2>2, <3>1, <1>2 DEF Good, OnTurn, Stopped
    <3>3. u.due = {v.cursor} \cup Behind(u, v.cursor) /\ v.cursor \in u.listed
      BY <2>2, <3>2, <1>2, <1>3 DEF Stopped
    <3> QED
      BY <3>1, <3>2, <3>3 DEF OnTurn
  <2>3. CASE v.cursor \in v.listed \cap S
    <3> DEFINE B == Behind(v, v.cursor) \ S
    <3>1. v.cursor # NoOne
      BY <2>3, <1>1, Sorts
    <3>2. u.cursor = FirstOf(v, B) /\ u.due = B
      BY <2>3, <3>1, <1>2 DEF Good, OnTurn, Stopped
    <3>3. B \in SUBSET v.listed /\ B \subseteq Behind(v, v.cursor) /\ B \cap S = {}
      BY DEF Behind
    <3> HIDE DEF B
    <3>4. CASE B = {}
      BY <3>2, <3>4, FirstOfNone DEF OnTurn
    <3>5. CASE B # {}
      <4> DEFINE n == FirstOf(v, B)
      <4>1. n \in B /\ B \ {n} \subseteq Behind(v, n)
        BY <3>3, <3>5, <1>1, FirstOfListed
      <4>2. n \in v.listed \ S /\ n # NoOne
        BY <4>1, <3>3, <1>1, Sorts
      <4>3. Behind(v, n) \subseteq Behind(v, v.cursor) /\ n \notin Behind(v, n)
        <5>1. n \in Behind(v, v.cursor) /\ n \in v.listed /\ v.cursor \in v.listed
          BY <4>1, <4>2, <3>3, <2>3
        <5> HIDE DEF n
        <5> QED
          BY <5>1, <1>1, BehindFacts
      <4>4. Behind(u, n) = Behind(v, n) \ S
        BY <4>2, <1>3
      <4>5. B = {n} \cup Behind(u, n)
        BY <4>1, <4>3, <4>4, <3>3 DEF B
      <4> HIDE DEF n
      <4>6. u.cursor = n
        BY <3>2 DEF n
      <4> QED
        BY <4>2, <4>5, <4>6, <3>2, <1>2 DEF OnTurn, Stopped
    <3> QED
      BY <3>4, <3>5
  <2> QED
    BY <2>1, <2>2, <2>3, <1>1
<1>9. Quiet(v, u, {}, {})
  <2>1. v.cursor = NoOne => u.cursor = NoOne
    <3>1. NoOne \notin S
      BY Sorts
    <3> QED
      BY <1>2, <3>1 DEF Stopped
  <2>2. \A x \in Char : (Able(v, x) => Able(u, x)) /\ (Alive(v, x) => Alive(u, x))
    <3>1. \A x \in Char : v.health[x] \in Int
      BY <1>1 DEF World, Band
    <3> QED
      BY <1>2, <1>6, <3>1 DEF Able, Alive, Present, DEAD, STUNNED, Stopped
  <2> QED
    BY <2>1, <2>2, <1>2 DEF Quiet, Keeps, Present, Stopped
<1> QED
  <2>1. Good(u, D \ S)
    BY <1>2, <1>4, <1>5, <1>7, <1>8 DEF Good, Whole
  <2>2. Parted(v, u, S)
    BY <1>2 DEF Parted, Stopped
  <2> QED
    BY <1>9, <2>1, <2>2 DEF u

(* set_fighting, field by field.                                           *)
Engaged(v, u, c, d) ==
  /\ u.listed = v.listed \cup {c}
  /\ u.ahead = v.ahead \cup ({c} \X v.listed)
  /\ \A x \in Char : u.fighting[x] = IF x = c THEN d ELSE v.fighting[x]
  /\ \A x \in Char : u.pos[x] = IF x = c THEN FIGHTING ELSE v.pos[x]
  /\ u.room = v.room /\ u.health = v.health /\ u.master = v.master /\ u.cursor = v.cursor
  /\ u.linkless = v.linkless /\ u.due = v.due /\ u.freedUse = v.freedUse

(* set_fighting, field by field.                                           *)
LEMMA SetFightingFields ==
  ASSUME NEW v \in World, NEW c \in Char, NEW d \in Char, c # d, v.fighting[c] = NoOne
  PROVE  SetFighting(v, c, d) \in World /\ Engaged(v, SetFighting(v, c, d), c, d)
<1> DEFINE L == v.listed \cup {c}
           A == v.ahead \cup ({c} \X v.listed)
           F == [v.fighting EXCEPT ![c] = d]
           P == [v.pos EXCEPT ![c] = FIGHTING]
           u == [v EXCEPT !.listed = L, !.ahead = A, !.fighting = F, !.pos = P]
<1>1. SetFighting(v, c, d) = u
  BY DEF SetFighting
<1>2. FIGHTING \in DEAD..STANDING
  BY DEF FIGHTING, DEAD, STANDING
<1>3. /\ L \in SUBSET Char /\ A \in SUBSET (Char \X Char)
      /\ F \in [Char -> Char \cup {NoOne}] /\ P \in [Char -> DEAD..STANDING]
  BY <1>2 DEF World
<1>4. /\ \A x \in Char : F[x] = IF x = c THEN d ELSE v.fighting[x]
      /\ \A x \in Char : P[x] = IF x = c THEN FIGHTING ELSE v.pos[x]
      /\ L = v.listed \cup {c} /\ A = v.ahead \cup ({c} \X v.listed)
  BY DEF World
<1> HIDE DEF L, A, F, P
<1>5. /\ u \in World
      /\ u.listed = L /\ u.ahead = A /\ u.fighting = F /\ u.pos = P
      /\ u.room = v.room /\ u.health = v.health /\ u.master = v.master /\ u.cursor = v.cursor
      /\ u.linkless = v.linkless /\ u.due = v.due /\ u.freedUse = v.freedUse
  BY <1>3 DEF World
<1> HIDE DEF u
<1> QED
  BY <1>1, <1>4, <1>5 DEF Engaged

(* Who fights whom, and on his feet, is all that set_fighting may change.  *)
Turns(v, u, c, d) ==
  /\ \A x \in Char : u.fighting[x] = v.fighting[x] \/ (x = c /\ u.fighting[x] = d)
  /\ \A x \in Char : u.pos[x] = v.pos[x] \/ (x = c /\ u.pos[x] = FIGHTING)
  /\ u.room = v.room /\ u.health = v.health /\ u.master = v.master
  /\ u.linkless = v.linkless

(* set_fighting: the new fighter heads the list, so the round under way    *)
(* does not reach him.                                                     *)
LEMMA SetFightingGood ==
  ASSUME NEW v, NEW D, Good(v, D), NEW c \in Char, NEW d \in Char,
         Present(v, c), Present(v, d), v.room[c] \notin Peaceful,
         Mishap = {} => v.health[c] > STUNNED
  PROVE  LET u == SetFighting(v, c, d)
         IN  Good(u, D) /\ Quiet(v, u, {}, {}) /\ Turns(v, u, c, d)
<1> DEFINE u == SetFighting(v, c, d)
<1>1. CASE c = d \/ v.fighting[c] # NoOne
  <2>1. u = v
    BY <1>1 DEF SetFighting
  <2> QED
    BY <2>1, KeepsItself DEF Turns
<1>2. CASE c # d /\ v.fighting[c] = NoOne
  <2>1. v \in World /\ Lined(v) /\ c \notin v.listed /\ v.listed \subseteq Char
    BY <1>2 DEF Good, Whole, Lined, World
  <2>2. u \in World /\ Engaged(v, u, c, d)
    BY <1>2, <2>1, SetFightingFields
  <2> HIDE DEF u
  <2>3. \A x \in v.listed : Behind(u, x) = Behind(v, x)
    BY <2>1, <2>2 DEF Behind, Engaged, Lined
  <2>4. Behind(u, c) = v.listed
    BY <2>1, <2>2 DEF Behind, Engaged, Lined
  <2>5. Lined(u)
    <3>1. u.listed = {x \in Char : u.fighting[x] # NoOne} /\ \A x \in Char : u.fighting[x] # x
      BY <1>2, <2>1, <2>2, Sorts DEF Lined, Engaged
    <3>2. /\ u.ahead \subseteq u.listed \X u.listed
          /\ \A x, y \in u.listed : <<x, y>> \in u.ahead => <<y, x>> \notin u.ahead
      BY <2>1, <2>2 DEF Lined, Engaged
    <3>3. ASSUME NEW T \in SUBSET u.listed, T # {}
          PROVE  \E x \in T : T \ {x} \subseteq Behind(u, x)
      <4>1. CASE c \in T
        BY <4>1, <2>4, <2>2 DEF Engaged
      <4>2. CASE c \notin T
        <5>1. T \in SUBSET v.listed
          BY <4>2, <2>2 DEF Engaged
        <5>2. PICK x \in T : T \ {x} \subseteq Behind(v, x)
          BY <5>1, <3>3, <2>1 DEF Lined
        <5> QED
          BY <5>1, <5>2, <2>3
      <4> QED
        BY <4>1, <4>2
    <3> QED
      BY <3>1, <3>2, <3>3 DEF Lined
  <2>6. Facing(u) /\ Calm(u)
    BY <2>2 DEF Good, Whole, Facing, Calm, Present, Engaged
  <2>7. Mishap = {} => Down(u, D)
    <3>1. \A x \in Char : v.health[x] \in Int
      BY <2>1 DEF World, Band
    <3> QED
      BY <2>2, <3>1 DEF Good, Whole, Down, Engaged, STUNNED, FIGHTING
  <2>8. OnTurn(u)
    <3>1. CASE v.cursor = NoOne
      BY <3>1, <2>2 DEF Good, OnTurn, Engaged
    <3>2. CASE v.cursor \in v.listed
      <4>1. Behind(u, v.cursor) = Behind(v, v.cursor) /\ v.cursor # NoOne
        BY <3>2, <2>1, <2>3, Sorts
      <4> QED
        BY <3>2, <4>1, <2>2 DEF Good, OnTurn, Engaged
    <3> QED
      BY <3>1, <3>2 DEF Good, OnTurn
  <2>9. Quiet(v, u, {}, {})
    BY <2>2 DEF Quiet, Keeps, Able, Alive, Present, Engaged, FIGHTING, STUNNED, DEAD
  <2>10. Turns(v, u, c, d)
    BY <2>2 DEF Engaged, Turns
  <2>11. Good(u, D)
    BY <2>2, <2>5, <2>6, <2>7, <2>8 DEF Good, Whole
  <2> QED
    BY <2>9, <2>10, <2>11 DEF u
<1> QED
  BY <1>1, <1>2

-----------------------------------------------------------------------------
(* Comings, goings and wounds.                                             *)
LEMMA GoodMore ==
  ASSUME NEW v, NEW D, NEW E, Good(v, D), D \subseteq E
  PROVE  Good(v, E)
BY DEF Good, Whole, Down

(* stop_fighting for one who may not be fighting at all.                   *)
LEMMA StopIfFightingGood ==
  ASSUME NEW v, NEW D, Good(v, D), NEW c \in Char
  PROVE  LET u == StopIfFighting(v, c)
         IN  Good(u, D \ {c}) /\ Quiet(v, u, {}, {}) /\ Parted(v, u, {c})
<1> DEFINE u == StopIfFighting(v, c)
<1>1. CASE v.fighting[c] # NoOne
  <2>1. u = StopAll(v, {c}) /\ {c} \in SUBSET Char
    BY <1>1 DEF StopIfFighting, StopFighting
  <2> QED
    BY <2>1, StopAllGood
<1>2. CASE v.fighting[c] = NoOne
  <2>1. u = v
    BY <1>2 DEF StopIfFighting
  <2>2. Good(v, D \ {c})
    BY <1>2 DEF Good, Whole, Down
  <2>3. Parted(v, v, {c})
    BY <1>2 DEF Parted
  <2> QED
    BY <2>1, <2>2, <2>3, KeepsItself
<1> QED
  BY <1>1, <1>2

(* v with the hit points and the position of c changed.                    *)
Condition(v, c, h, p) == [v EXCEPT !.health[c] = h, !.pos[c] = p]

SameFights(v, u) ==
  /\ u.fighting = v.fighting /\ u.listed = v.listed /\ u.ahead = v.ahead
  /\ u.cursor = v.cursor /\ u.due = v.due

(* Hit points and position, field by field.                                *)
LEMMA ConditionFields ==
  ASSUME NEW v \in World, NEW c \in Char, NEW h \in Band, NEW p \in DEAD..STANDING
  PROVE  LET u == Condition(v, c, h, p)
         IN  /\ u \in World /\ SameFights(v, u)
             /\ \A x \in Char : u.health[x] = IF x = c THEN h ELSE v.health[x]
             /\ \A x \in Char : u.pos[x] = IF x = c THEN p ELSE v.pos[x]
             /\ u.room = v.room /\ u.master = v.master /\ u.linkless = v.linkless
             /\ u.freedUse = v.freedUse
BY DEF Condition, World, SameFights

(* Who is put in a new condition is off the list, can stand, or is one of  *)
(* those the caller has still to take off it.                              *)
LEMMA ConditionGood ==
  ASSUME NEW v, NEW D, NEW E, NEW c \in Char, NEW h \in Band, NEW p \in DEAD..STANDING,
         Good(v, D), D \subseteq E \cup {c},
         Mishap = {} => (h <= STUNNED => p <= STUNNED),
         Mishap = {} => c \in E \/ v.fighting[c] = NoOne \/ p > STUNNED
  PROVE  LET u == Condition(v, c, h, p)
         IN  /\ Good(u, E) /\ Quiet(v, u, {c}, {})
             /\ h > STUNNED /\ p > STUNNED => Quiet(v, u, {}, {})
<1> DEFINE u == Condition(v, c, h, p)
<1>1. v \in World
  BY DEF Good, Whole
<1>2. /\ u \in World /\ SameFights(v, u)
      /\ \A x \in Char : u.health[x] = IF x = c THEN h ELSE v.health[x]
      /\ \A x \in Char : u.pos[x] = IF x = c THEN p ELSE v.pos[x]
      /\ u.room = v.room /\ u.freedUse = v.freedUse
  BY <1>1, ConditionFields
<1> HIDE DEF u
<1>3. Facing(u) /\ Calm(u)
  BY <1>2 DEF Good, Whole, Facing, Calm, Present, SameFights
<1>4. Mishap = {} => Down(u, E)
  BY <1>2 DEF Good, Whole, Down, SameFights
<1>5. Good(u, E)
  BY <1>2, <1>3, <1>4, GoodFrame DEF SameFights
<1>6. Quiet(v, u, {c}, {}) /\ (h > STUNNED /\ p > STUNNED => Quiet(v, u, {}, {}))
  BY <1>2 DEF Quiet, Keeps, Able, Alive, Present, SameFights, DEAD, STUNNED
<1> QED
  BY <1>5, <1>6 DEF u

(* c stands in room r; c fights nobody, nobody has been hurt.              *)
Moved(v, u, c, r) ==
  /\ \A x \in Char : u.fighting[x] = IF x = c THEN NoOne ELSE v.fighting[x]
  /\ \A x \in Char : u.room[x] = IF x = c THEN r ELSE v.room[x]
  /\ u.health = v.health /\ u.master = v.master /\ u.linkless = v.linkless

(* Who fights nobody may be put anywhere, and out of the game if nobody    *)
(* fights him.                                                             *)
LEMMA PutGood ==
  ASSUME NEW v, NEW D, Good(v, D), NEW c \in Char, NEW r \in Room \cup {Nowhere},
         v.fighting[c] = NoOne,
         r # Nowhere \/ \A x \in Char : v.fighting[x] # c
  PROVE  LET u == [v EXCEPT !.room[c] = r]
         IN  /\ Good(u, D) /\ Moved(v, u, c, r) /\ Quiet(v, u, {c}, {c})
             /\ r \in Room => Quiet(v, u, {}, {})
<1> DEFINE u == [v EXCEPT !.room[c] = r]
<1>1. v \in World
  BY DEF Good, Whole
<1>2. /\ u \in World /\ SameFights(v, u)
      /\ \A x \in Char : u.room[x] = IF x = c THEN r ELSE v.room[x]
      /\ u.health = v.health /\ u.pos = v.pos /\ u.master = v.master
      /\ u.linkless = v.linkless /\ u.freedUse = v.freedUse
  BY <1>1 DEF World, SameFights
<1> HIDE DEF u
<1>3. Facing(u)
  <2>1. ASSUME NEW x \in Char, u.fighting[x] # NoOne
        PROVE  Present(u, x) /\ Present(u, u.fighting[x])
    <3>1. /\ x # c /\ v.fighting[x] # NoOne /\ v.fighting[x] \in Char
          /\ Present(v, x) /\ Present(v, v.fighting[x])
      BY <2>1, <1>1, <1>2 DEF Good, Whole, Facing, SameFights, World
    <3>2. u.fighting[x] = v.fighting[x]
      BY <1>2 DEF SameFights
    <3> QED
      BY <3>1, <3>2, <1>2 DEF Present
  <2> QED
    BY <2>1 DEF Facing
<1>4. Calm(u)
  BY <1>2 DEF Good, Whole, Calm, SameFights
<1>5. Mishap = {} => Down(u, D)
  BY <1>2 DEF Good, Whole, Down, SameFights
<1>6. Good(u, D)
  BY <1>2, <1>3, <1>4, <1>5, GoodFrame DEF SameFights
<1>7. Moved(v, u, c, r)
  BY <1>1, <1>2 DEF Moved, SameFights
<1>8. Quiet(v, u, {c}, {c}) /\ (r \in Room => Quiet(v, u, {}, {}))
  BY <1>2, Sorts DEF Quiet, Keeps, Able, Alive, Present, SameFights
<1> QED
  BY <1>6, <1>7, <1>8 DEF u

(* char_from_room and char_to_room: who is moved fights nobody any more;   *)
(* whoever fought him goes on facing his place.                            *)
LEMMA MoveToGood ==
  ASSUME NEW v, NEW D, Good(v, D), NEW c \in Char, NEW r \in Room
  PROVE  LET u == MoveTo(v, c, r)
         IN  Good(u, D \ {c}) /\ Quiet(v, u, {}, {}) /\ Moved(v, u, c, r)
<1> DEFINE a == StopIfFighting(v, c)
           b == [a EXCEPT !.room[c] = Nowhere]
           u == [a EXCEPT !.room[c] = r]
<1>1. Good(a, D \ {c}) /\ Quiet(v, a, {}, {}) /\ Parted(v, a, {c})
  BY StopIfFightingGood
<1>2. a \in World /\ a.fighting[c] = NoOne
  BY <1>1 DEF Good, Whole, Parted
<1>3. MoveTo(v, c, r) = u
  <2>1. CharFromRoom(v, c) = b
    BY DEF CharFromRoom
  <2>2. [b EXCEPT !.room[c] = r] = u /\ u.fighting[c] = NoOne
    BY <1>2 DEF World
  <2> HIDE DEF b, u
  <2>3. CharToRoom(b, c, r) = u
    BY <2>2 DEF CharToRoom
  <2> QED
    BY <2>1, <2>3 DEF MoveTo
<1> HIDE DEF a
<1>4. Good(u, D \ {c}) /\ Moved(a, u, c, r) /\ Quiet(a, u, {}, {})
  BY <1>1, <1>2, PutGood, Sorts
<1> HIDE DEF u
<1>5. Moved(v, u, c, r)
  BY <1>1, <1>4 DEF Parted, Moved
<1>6. Quiet(v, u, {}, {})
  BY <1>1, <1>4, KeepsTransitive DEF Quiet, Keeps
<1> QED
  BY <1>3, <1>4, <1>5, <1>6

(* What does not count for a fight at all.                                 *)
LEMMA AsideGood ==
  ASSUME NEW v, NEW D, Good(v, D), NEW u \in World, SameFights(v, u),
         u.room = v.room, u.health = v.health, u.pos = v.pos
  PROVE  Good(u, D) /\ Keeps(v, u, {}, {})
<1>1. Facing(u) /\ Calm(u) /\ (Mishap = {} => Down(u, D))
  BY DEF Good, Whole, Facing, Calm, Down, Present, SameFights
<1> QED
  BY <1>1, GoodFrame DEF SameFights, Keeps, Able, Alive, Present

(* add_follower and stop_follower start and end no fight.                  *)
LEMMA MasterGood ==
  ASSUME NEW v, NEW D, Good(v, D), NEW f \in [Mob -> Player \cup {NoOne}]
  PROVE  LET u == [v EXCEPT !.master = f]
         IN  /\ Good(u, D) /\ Quiet(v, u, {}, {})
             /\ u.fighting = v.fighting /\ u.room = v.room /\ u.health = v.health
             /\ u.pos = v.pos /\ u.listed = v.listed /\ u.linkless = v.linkless
<1> DEFINE u == [v EXCEPT !.master = f]
<1>1. v \in World
  BY DEF Good, Whole
<1>2. /\ u \in World /\ SameFights(v, u)
      /\ u.room = v.room /\ u.health = v.health /\ u.pos = v.pos
      /\ u.linkless = v.linkless /\ u.freedUse = v.freedUse
  BY <1>1 DEF World, SameFights
<1> HIDE DEF u
<1>3. Good(u, D) /\ Keeps(v, u, {}, {})
  BY <1>2, AsideGood
<1> QED
  BY <1>2, <1>3 DEF u, Quiet, SameFights

(* Using a character harms nobody, and is legal for players and whoever is *)
(* in the game.                                                            *)
LEMMA TouchGood ==
  ASSUME NEW v, NEW D, Good(v, D), NEW c \in Char
  PROVE  LET u == Touch(v, c)
         IN  /\ Good(u, D) /\ Keeps(v, u, {}, {})
             /\ c \in Player \/ Present(v, c) => u.freedUse = v.freedUse
             /\ u.fighting = v.fighting /\ u.room = v.room /\ u.health = v.health
             /\ u.pos = v.pos
<1> DEFINE u == Touch(v, c)
<1>1. v \in World
  BY DEF Good, Whole
<1>2. /\ u \in World /\ SameFights(v, u)
      /\ u.room = v.room /\ u.health = v.health /\ u.pos = v.pos
      /\ u.freedUse = (v.freedUse \/ (c \in Mob /\ v.room[c] = Nowhere))
  BY <1>1 DEF World, SameFights, Touch
<1> HIDE DEF u
<1>3. Good(u, D) /\ Keeps(v, u, {}, {})
  BY <1>2, AsideGood
<1>4. c \in Player \/ Present(v, c) => u.freedUse = v.freedUse
  <2>1. c \in Player \/ Present(v, c) => ~(c \in Mob /\ v.room[c] = Nowhere)
    BY Sorts DEF Present
  <2>2. v.freedUse \in BOOLEAN
    BY <1>1 DEF World
  <2> QED
    BY <1>2, <2>1, <2>2
<1> QED
  BY <1>2, <1>3, <1>4 DEF u, SameFights

(* Nobody fights c, and c nobody; others have only stopped fighting.       *)
Gone(v, u, c) ==
  /\ u.fighting[c] = NoOne
  /\ \A x \in Char : u.fighting[x] \in {v.fighting[x], NoOne}
  /\ \A x \in Char : x # c => u.room[x] = v.room[x]

(* extract_char: nobody is left fighting who is gone.                      *)
LEMMA ExtractCharGood ==
  ASSUME NEW v, NEW D, Good(v, D), NEW c \in Char
  PROVE  LET u == ExtractChar(v, c)
         IN  Good(u, D) /\ Quiet(v, u, {c}, {c}) /\ Gone(v, u, c)
<1> DEFINE f == [m \in Mob |-> IF c \in {m, v.master[m]} THEN NoOne ELSE v.master[m]]
           a == [v EXCEPT !.master = f]
           b == StopIfFighting(a, c)
           S == {k \in b.listed : b.fighting[k] = c}
           d == StopAll(b, S)
           e == [d EXCEPT !.room[c] = Nowhere]
           u == [e EXCEPT !.health[c] = Hale, !.pos[c] = STANDING, !.linkless = @ \ {c}]
<1>0. v \in World
  BY DEF Good, Whole
<1>1. f \in [Mob -> Player \cup {NoOne}]
  BY <1>0 DEF World
<1>2. ExtractChar(v, c) = [CharFromRoom(d, c) EXCEPT !.health[c] = Hale, !.pos[c] = STANDING,
                                                     !.linkless = @ \ {c}]
  BY DEF ExtractChar
<1> HIDE DEF f
<1>3. Good(a, D) /\ Quiet(v, a, {}, {}) /\ a.fighting = v.fighting /\ a.room = v.room
  BY <1>1, MasterGood
<1> HIDE DEF a
<1>4. Good(b, D \ {c}) /\ Quiet(a, b, {}, {}) /\ Parted(a, b, {c})
  BY <1>3, StopIfFightingGood
<1>5. b.listed = {x \in Char : b.fighting[x] # NoOne} /\ b \in World
  BY <1>4 DEF Good, Whole, Lined
<1>6. S \in SUBSET Char
  BY <1>5
<1> HIDE DEF b
<1>7. Good(d, (D \ {c}) \ S) /\ Quiet(b, d, {}, {}) /\ Parted(b, d, S)
  BY <1>4, <1>6, StopAllGood
<1>8. \A x \in Char : d.fighting[x] # c
  BY <1>5, <1>7, Sorts DEF Parted
<1>9. d.fighting[c] = NoOne
  BY <1>4, <1>7 DEF Parted
<1>10. d \in World /\ Good(d, D)
  BY <1>7, GoodMore DEF Good, Whole
<1>11. \A x \in Char : d.fighting[x] \in {v.fighting[x], NoOne} /\ d.room[x] = v.room[x]
  BY <1>3, <1>4, <1>7 DEF Parted
<1> HIDE DEF S, d
<1>12. CharFromRoom(d, c) = e
  BY <1>9 DEF CharFromRoom, StopIfFighting
<1>13. Good(e, D) /\ Moved(d, e, c, Nowhere) /\ Quiet(d, e, {c}, {c})
  BY <1>8, <1>9, <1>10, PutGood
<1> HIDE DEF e
<1>14. /\ u \in World /\ SameFights(e, u) /\ u.room = e.room
       /\ \A x \in Char : u.health[x] = IF x = c THEN Hale ELSE e.health[x]
       /\ \A x \in Char : u.pos[x] = IF x = c THEN STANDING ELSE e.pos[x]
       /\ u.freedUse = e.freedUse
  <2>1. e \in World /\ Hale \in Band /\ STANDING \in DEAD..STANDING
    BY <1>13 DEF Good, Whole, Hale, Band, STANDING, DEAD
  <2>2. e.health \in [Char -> Band] /\ e.pos \in [Char -> DEAD..STANDING]
        /\ e.linkless \in SUBSET Player
    BY <2>1 DEF World
  <2>3. [e.health EXCEPT ![c] = Hale] \in [Char -> Band]
        /\ [e.pos EXCEPT ![c] = STANDING] \in [Char -> DEAD..STANDING]
    BY <2>1, <2>2
  <2> QED
    BY <2>1, <2>2, <2>3 DEF World, SameFights
<1> HIDE DEF u
<1>15. Facing(u) /\ Calm(u)
  BY <1>13, <1>14 DEF Good, Whole, Facing, Calm, Present, SameFights
<1>16. e.fighting[c] = NoOne
  BY <1>13 DEF Moved
<1>17. Mishap = {} => Down(u, D)
  BY <1>13, <1>14, <1>16 DEF Good, Whole, Down, SameFights, Hale, STANDING, STUNNED
<1>18. Good(u, D)
  BY <1>13, <1>14, <1>15, <1>17, GoodFrame DEF SameFights
<1>19. Quiet(e, u, {c}, {c})
  BY <1>14 DEF Quiet, Keeps, Able, Alive, Present, SameFights
<1>20. Quiet(v, u, {c}, {c})
  <2>1. Quiet(v, d, {}, {})
    BY <1>3, <1>4, <1>7 DEF Quiet, Keeps
  <2> QED
    BY <2>1, <1>13, <1>19 DEF Quiet, Keeps
<1>21. Gone(v, u, c)
  BY <1>11, <1>13, <1>14 DEF Gone, Moved, SameFights
<1>22. ExtractChar(v, c) = u
  BY <1>2, <1>12 DEF u
<1> QED
  BY <1>18, <1>20, <1>21, <1>22

(* Others have only stopped fighting.                                      *)
Fewer(v, u) == \A x \in Char : u.fighting[x] \in {v.fighting[x], NoOne}

(* update_pos for who fights nobody.                                       *)
LEMMA UpdatePosGood ==
  ASSUME NEW v, NEW D, NEW E, Good(v, D), NEW c \in Char, NEW h \in Band, D \subseteq E \cup {c},
         c \in E \/ v.fighting[c] = NoOne
  PROVE  LET u == UpdatePos([v EXCEPT !.health[c] = h], c)
         IN  /\ u = Condition(v, c, h, UpdatedPos(h, v.pos[c]))
             /\ Good(u, E) /\ Quiet(v, u, {c}, {}) /\ SameFights(v, u)
             /\ u.room = v.room /\ u.master = v.master /\ u.linkless = v.linkless
             /\ u.health[c] = h /\ u.pos[c] = UpdatedPos(h, v.pos[c])
<1> DEFINE p == UpdatedPos(h, v.pos[c])
<1>1. v \in World /\ v.pos[c] \in DEAD..STANDING
  BY DEF Good, Whole, World
<1>2. UpdatePos([v EXCEPT !.health[c] = h], c) = Condition(v, c, h, p)
  BY <1>1 DEF UpdatePos, Condition, World
<1>3. p \in DEAD..STANDING /\ (h <= STUNNED => p = h)
  BY <1>1, UpdatedPosFacts
<1> HIDE DEF p
<1>4. LET u == Condition(v, c, h, p)
      IN  Good(u, E) /\ Quiet(v, u, {c}, {})
  BY <1>3, ConditionGood
<1>5. LET u == Condition(v, c, h, p)
      IN  /\ SameFights(v, u) /\ u.health[c] = h /\ u.pos[c] = p
          /\ u.room = v.room /\ u.master = v.master /\ u.linkless = v.linkless
  BY <1>1, <1>3, ConditionFields
<1> QED
  BY <1>2, <1>4, <1>5 DEF p

(* raw_kill: a mob leaves the game, a player wakes elsewhere.              *)
LEMMA RawKillGood ==
  ASSUME NEW v, NEW D, Good(v, D), NEW c \in Char
  PROVE  LET u == RawKill(v, c)
         IN  Good(u, D) /\ Quiet(v, u, {c}, {c} \cap Mob) /\ Fewer(v, u)
<1> DEFINE a == StopIfFighting(v, c)
           b == MoveTo(a, c, SpiritRoom)
           u == UpdatePos([b EXCEPT !.health[c] = Hale], c)
<1>1. Good(a, D \ {c}) /\ Quiet(v, a, {}, {}) /\ Parted(v, a, {c})
  BY StopIfFightingGood
<1> HIDE DEF a
<1>2. CASE c \in Mob
  <2>1. RawKill(v, c) = ExtractChar(a, c)
    BY <1>2 DEF RawKill, a
  <2>2. /\ Good(ExtractChar(a, c), D) /\ Quiet(a, ExtractChar(a, c), {c}, {c})
        /\ Gone(a, ExtractChar(a, c), c)
    BY <1>1, GoodMore, ExtractCharGood
  <2>3. Quiet(v, ExtractChar(a, c), {c}, {c}) /\ {c} \cap Mob = {c}
    BY <1>1, <1>2, <2>2 DEF Quiet, Keeps
  <2>4. Fewer(v, ExtractChar(a, c))
    BY <1>1, <2>2 DEF Fewer, Gone, Parted
  <2> QED
    BY <2>1, <2>2, <2>3, <2>4
<1>3. CASE c \notin Mob
  <2>1. RawKill(v, c) = u
    BY <1>3 DEF RawKill, a
  <2>2. Good(b, D) /\ Quiet(a, b, {}, {}) /\ Moved(a, b, c, SpiritRoom)
    BY <1>1, Sorts, MoveToGood, GoodMore
  <2>3. b.fighting[c] = NoOne /\ Hale \in Band /\ \A x \in Char : b.fighting[x] \in {v.fighting[x], NoOne}
    BY <1>1, <2>2 DEF Moved, Parted, Hale, Band, DEAD
  <2> HIDE DEF b
  <2>4. Good(u, D) /\ Quiet(b, u, {c}, {}) /\ SameFights(b, u)
    BY <2>2, <2>3, UpdatePosGood
  <2>5. Fewer(v, u)
    BY <2>3, <2>4 DEF Fewer, SameFights
  <2> HIDE DEF u
  <2>6. Quiet(v, u, {c}, {c} \cap Mob)
    BY <1>1, <1>3, <2>2, <2>4 DEF Quiet, Keeps
  <2> QED
    BY <2>1, <2>4, <2>5, <2>6
<1> QED
  BY <1>2, <1>3

(* do_simple_move and do_flee.                                             *)
LEMMA StepsGood ==
  ASSUME NEW v, NEW D, Good(v, D), NEW c \in Char, NEW u \in Steps(v, c)
  PROVE  Good(u, D) /\ Quiet(v, u, {}, {}) /\ u.fighting[c] = NoOne
<1>1. PICK r \in Room : u = MoveTo(v, c, r)
  BY DEF Steps
<1>2. Good(u, D \ {c}) /\ Quiet(v, u, {}, {}) /\ Moved(v, u, c, r)
  BY <1>1, MoveToGood
<1>3. Good(u, D)
  BY <1>2, GoodMore
<1> QED
  BY <1>2, <1>3 DEF Moved

(* do_flee ends no fight or ends the fight of who flees.                   *)
LEMMA FleeGood ==
  ASSUME NEW v, NEW D, Good(v, D), NEW c \in Char, NEW u \in Flee(v, c)
  PROVE  Good(u, D) /\ Quiet(v, u, {}, {})
<1>1. u = v \/ u \in Steps(v, c)
  BY DEF Flee
<1> QED
  BY <1>1, StepsGood, KeepsItself

-----------------------------------------------------------------------------
(* damage(), function by function.  A set of outcomes is Good when each    *)
(* world in it is.                                                         *)

(* Whoever can stand turns on the other, outside of the peaceful rooms.    *)
LEMMA EngageGood ==
  ASSUME NEW v, NEW D, Good(v, D), NEW c \in Char, NEW d \in Char,
         Present(v, c), Present(v, d), v.room[c] = v.room[d], ~InPeace(v, c)
  PROVE  LET u == EngageAttacker(v, c, d)
             x == EngageVictim(v, c, d)
         IN  /\ Good(u, D) /\ Quiet(v, u, {}, {}) /\ u.room = v.room
             /\ Good(x, D) /\ Quiet(v, x, {}, {}) /\ x.room = v.room
             /\ u.master = v.master /\ x.master = v.master
<1> DEFINE u == SetFighting(v, c, d)
           x == SetFighting(v, d, c)
<1>1. \A y \in Char : v.health[y] \in Int
  BY DEF Good, Whole, World, Band
<1>2. Mishap = {} => \A y \in Char : v.pos[y] > STUNNED => v.health[y] > STUNNED
  <2> SUFFICES ASSUME Mishap = {}, NEW y \in Char, v.pos[y] > STUNNED
               PROVE  v.health[y] > STUNNED
    OBVIOUS
  <2>1. v.pos[y] \in Int
    BY DEF Good, Whole, World
  <2> QED
    BY <1>1, <2>1 DEF Good, Whole, Down, STUNNED
<1>3. v.pos[c] > STUNNED => Good(u, D) /\ Quiet(v, u, {}, {}) /\ Turns(v, u, c, d)
  BY <1>2, SetFightingGood DEF InPeace
<1>4. v.pos[d] > STUNNED => Good(x, D) /\ Quiet(v, x, {}, {}) /\ Turns(v, x, d, c)
  BY <1>2, SetFightingGood DEF InPeace
<1> HIDE DEF u, x
<1>5. EngageAttacker(v, c, d) = v \/ (EngageAttacker(v, c, d) = u /\ v.pos[c] > STUNNED)
  BY DEF EngageAttacker, u
<1>6. EngageVictim(v, c, d) = v \/ (EngageVictim(v, c, d) = x /\ v.pos[d] > STUNNED)
  BY DEF EngageVictim, x
<1>7. Good(v, D) /\ Quiet(v, v, {}, {})
  BY KeepsItself
<1>8. v.pos[c] > STUNNED => u.room = v.room /\ u.master = v.master
  BY <1>3 DEF Turns
<1>9. v.pos[d] > STUNNED => x.room = v.room /\ x.master = v.master
  BY <1>4 DEF Turns
<1> QED
  BY <1>3, <1>4, <1>5, <1>6, <1>7, <1>8, <1>9

(* The wounds of the victim: he may be stunned and still fight.            *)
LEMMA WoundsGood ==
  ASSUME NEW v, Good(v, {}), NEW d \in Char, NEW o \in Wounds(v, d)
  PROVE  /\ Good(o.world, {d}) /\ Quiet(v, o.world, {d}, {})
         /\ o.world.room = v.room
         /\ Able(v, d) => Alive(o.world, d)
<1>1. PICK h \in Worse(v, d), ret \in {0, 1} :
        o = Outcome(UpdatePos([v EXCEPT !.health[d] = h], d), ret)
  BY DEF Wounds
<1> DEFINE u == UpdatePos([v EXCEPT !.health[d] = h], d)
<1>2. v \in World
  BY DEF Good, Whole
<1>3. h \in Band /\ h <= v.health[d] /\ (h = DEAD => v.health[d] <= MORTALLYW)
  BY <1>2, BlowsHurt
<1>4. /\ Good(u, {d}) /\ Quiet(v, u, {d}, {}) /\ u.room = v.room
      /\ u.health[d] = h /\ u.pos[d] = UpdatedPos(h, v.pos[d])
  <2>1. h \in Band /\ {} \subseteq {d} \cup {d} /\ d \in {d}
    BY <1>3
  <2>2. \A E : {} \subseteq E \cup {d} /\ d \in E =>
          /\ Good(u, E) /\ Quiet(v, u, {d}, {}) /\ u.room = v.room
          /\ u.health[d] = h /\ u.pos[d] = UpdatedPos(h, v.pos[d])
    BY <2>1, UpdatePosGood
  <2> HIDE DEF u
  <2> QED
    BY <2>1, <2>2
<1>5. o.world = u
  BY <1>1 DEF Outcome
<1> HIDE DEF u
<1>6. Able(v, d) => Alive(u, d)
  <2>1. v.health[d] \in Int /\ v.pos[d] \in DEAD..STANDING
    BY <1>2 DEF World, Band
  <2>2. /\ h <= STUNNED => UpdatedPos(h, v.pos[d]) = h
        /\ h > STUNNED => UpdatedPos(h, v.pos[d]) > STUNNED
    BY <1>3, <2>1, UpdatedPosFacts
  <2>3. Able(v, d) => h # DEAD
    BY <1>3, <2>1 DEF Able, STUNNED, DEAD, MORTALLYW
  <2>4. h \in Int
    BY <1>3 DEF Band
  <2> QED
    BY <1>4, <2>2, <2>3, <2>4 DEF Alive, STUNNED, DEAD
<1> QED
  BY <1>4, <1>5, <1>6

(* Wimping out, and divine forces: they move the victim or leave him.      *)
LEMMA EscapesGood ==
  ASSUME NEW v, NEW D, Good(v, D), NEW c \in Char, NEW d \in Char, NEW u \in Escapes(v, c, d)
  PROVE  Good(u, D) /\ Quiet(v, u, {}, {})
<1> DEFINE wimp == IF v.pos[d] > STUNNED /\ c # d THEN Flee(v, d) ELSE {v}
           Saved(x) == IF x.fighting[d] = NoOne THEN MoveTo(x, d, LimboRoom) ELSE x
<1>1. ASSUME NEW x \in wimp
      PROVE  Good(x, D) /\ Quiet(v, x, {}, {})
  BY FleeGood, KeepsItself
<1>2. ASSUME NEW x, Good(x, D)
      PROVE  Good(Saved(x), D) /\ Quiet(x, Saved(x), {}, {})
  <2>1. /\ Good(MoveTo(x, d, LimboRoom), D \ {d})
        /\ Quiet(x, MoveTo(x, d, LimboRoom), {}, {})
    BY <1>2, Sorts, MoveToGood
  <2>2. Good(MoveTo(x, d, LimboRoom), D)
    BY <2>1, GoodMore
  <2> QED
    BY <1>2, <2>1, <2>2, KeepsItself
<1>3. CASE d \notin v.linkless
  <2>1. u \in wimp
    BY <1>3 DEF Escapes
  <2> QED
    BY <1>1, <2>1
<1>4. CASE d \in v.linkless
  <2>0. PICK x \in wimp : \E y \in Flee(x, d) : u = Saved(y)
    BY <1>4 DEF Escapes
  <2>1. PICK y \in Flee(x, d) : u = Saved(y)
    BY <2>0
  <2> HIDE DEF wimp, Saved
  <2>2. Good(x, D) /\ Quiet(v, x, {}, {})
    BY <1>1
  <2>3. Good(y, D) /\ Quiet(x, y, {}, {})
    BY <2>2, FleeGood
  <2>4. Good(u, D) /\ Quiet(y, u, {}, {})
    BY <2>1, <2>3, <1>2
  <2> QED
    BY <2>2, <2>3, <2>4 DEF Quiet, Keeps
<1> QED
  BY <1>3, <1>4

(* The stunned stop fighting: the end of the exemption.                    *)
LEMMA DownedGood ==
  ASSUME NEW v, NEW c \in Char, NEW d \in Char, Good(v, {d})
  PROVE  Good(Downed(v, c, d), {}) /\ Quiet(v, Downed(v, c, d), {}, {})
<1>1. CASE v.pos[d] <= STUNNED /\ v.fighting[d] # NoOne
  <2>1. Downed(v, c, d) = StopAll(v, {d}) /\ {d} \in SUBSET Char /\ {d} \ {d} = {}
    BY <1>1 DEF Downed, StopFighting
  <2> QED
    BY <2>1, StopAllGood
<1>2. CASE ~(v.pos[d] <= STUNNED /\ v.fighting[d] # NoOne)
  <2>1. Good(v, {})
    <3>1. v.pos[d] \in Int
      BY DEF Good, Whole, World
    <3> QED
      BY <1>2, <3>1 DEF Good, Whole, Down, STUNNED
  <2>2. Downed(v, c, d) = v \/ Downed(v, c, d) = StopAll(v, {c})
    BY <1>2 DEF Downed, StopFighting
  <2>3. {c} \in SUBSET Char /\ {} \ {c} = {}
    OBVIOUS
  <2> QED
    BY <2>1, <2>2, <2>3, StopAllGood, KeepsItself
<1> QED
  BY <1>1, <1>2

(* A blow up to the fire shield: nobody has left the game, only the victim *)
(* has come to harm, and who was able is not dead.                         *)
LEMMA FallenGood ==
  ASSUME NEW v, NEW c \in Char, NEW d \in Char, Good(v, {}), Present(v, d),
         c # d => ~InPeace(v, c),
         NEW o \in Fallen(v, c, d)
  PROVE  /\ Good(o.world, {}) /\ Quiet(v, o.world, {d}, {})
         /\ Able(v, d) => Alive(o.world, d)
<1> DEFINE e == EngageAttacker(v, c, d)
           a == IF Melee(v, c, d) THEN EngageVictim(e, c, d) ELSE v
           b == Freed(a, c, d)
<1>1. Good(a, {}) /\ Quiet(v, a, {}, {})
  <2>1. CASE Melee(v, c, d)
    <3>1. Present(v, c) /\ v.room[c] = v.room[d] /\ ~InPeace(v, c)
      BY <2>1 DEF Melee, Present
    <3>2. Good(e, {}) /\ Quiet(v, e, {}, {}) /\ e.room = v.room
      BY <3>1, EngageGood
    <3> HIDE DEF e
    <3>3. Present(e, c) /\ Present(e, d) /\ e.room[c] = e.room[d] /\ ~InPeace(e, c)
      BY <3>1, <3>2 DEF Present, InPeace
    <3>4. Good(EngageVictim(e, c, d), {}) /\ Quiet(e, EngageVictim(e, c, d), {}, {})
      BY <3>2, <3>3, EngageGood
    <3> QED
      BY <2>1, <3>2, <3>4 DEF Quiet, Keeps
  <2>2. CASE ~Melee(v, c, d)
    BY <2>2, KeepsItself
  <2> QED
    BY <2>1, <2>2
<1>2. PICK p \in Wounds(b, d) : \E u \in Escapes(p.world, c, d) :
        o = Outcome(Downed(u, c, d), p.ret)
  BY DEF Fallen
<1>3. PICK u \in Escapes(p.world, c, d) : o = Outcome(Downed(u, c, d), p.ret)
  BY <1>2
<1> HIDE DEF a, e
<1>4. Good(b, {}) /\ Quiet(a, b, {}, {})
  <2>1. [m \in Mob |-> IF m = d /\ a.master[m] = c THEN NoOne ELSE a.master[m]]
          \in [Mob -> Player \cup {NoOne}]
    BY <1>1 DEF Good, Whole, World
  <2> QED
    BY <1>1, <2>1, MasterGood DEF Freed
<1> HIDE DEF b
<1>5. /\ Good(p.world, {d}) /\ Quiet(b, p.world, {d}, {})
      /\ Able(b, d) => Alive(p.world, d)
  BY <1>4, WoundsGood
<1>6. Good(u, {d}) /\ Quiet(p.world, u, {}, {})
  BY <1>5, EscapesGood
<1>7. Good(Downed(u, c, d), {}) /\ Quiet(u, Downed(u, c, d), {}, {})
  BY <1>6, DownedGood
<1>8. o.world = Downed(u, c, d)
  BY <1>3 DEF Outcome
<1>9. Quiet(v, b, {}, {})
  BY <1>1, <1>4 DEF Quiet, Keeps
<1>10. Quiet(p.world, o.world, {}, {})
  BY <1>6, <1>7, <1>8 DEF Quiet, Keeps
<1>11. Quiet(v, o.world, {d}, {})
  BY <1>5, <1>9, <1>10 DEF Quiet, Keeps
<1>12. Able(v, d) => Alive(o.world, d)
  BY <1>5, <1>9, <1>10 DEF Quiet, Keeps
<1> QED
  BY <1>7, <1>8, <1>11, <1>12

(* The end of damage(): the slain die.                                     *)
LEMMA SlainGood ==
  ASSUME NEW o, NEW c \in Char, NEW d \in Char, Good(o.world, {})
  PROVE  LET u == Slain(o, c, d).world
         IN  /\ Good(u, {}) /\ Keeps(o.world, u, {d}, {d} \cap Mob)
             /\ c \in Player \/ Present(u, c) => u.freedUse = o.world.freedUse
             /\ Alive(o.world, d) => u = o.world
<1> DEFINE k == RawKill(o.world, d)
<1>1. Good(k, {}) /\ Quiet(o.world, k, {d}, {d} \cap Mob)
  BY RawKillGood
<1>2. CASE o.world.pos[d] # DEAD \/ (d \in Player /\ Level[c] = Level[d])
  <2>1. Slain(o, c, d).world = o.world
    BY <1>2 DEF Slain, Outcome
  <2>2. Quiet(o.world, o.world, {}, {})
    BY KeepsItself
  <2> QED
    BY <2>1, <2>2 DEF Quiet, Keeps
<1>3. CASE o.world.pos[d] = DEAD /\ ~(d \in Player /\ Level[c] = Level[d])
  <2>1. Slain(o, c, d).world = Touch(k, c) /\ ~Alive(o.world, d)
    BY <1>3 DEF Slain, Outcome, Alive
  <2> HIDE DEF k
  <2>2. /\ Good(Touch(k, c), {}) /\ Keeps(k, Touch(k, c), {}, {})
        /\ c \in Player \/ Present(k, c) => Touch(k, c).freedUse = k.freedUse
        /\ Touch(k, c).room = k.room
    BY <1>1, TouchGood
  <2>3. Keeps(o.world, Touch(k, c), {d}, {d} \cap Mob)
    BY <1>1, <2>2 DEF Quiet, Keeps
  <2>4. c \in Player \/ Present(Touch(k, c), c) => Touch(k, c).freedUse = o.world.freedUse
    BY <1>1, <2>2 DEF Quiet, Present
  <2> QED
    BY <2>1, <2>2, <2>3, <2>4
<1> QED
  BY <1>2, <1>3

(* What one call of damage() comes to.                                     *)
LEMMA DamageCases ==
  ASSUME NEW v, NEW c, NEW d, NEW turned, NEW blows, NEW x \in Damage(v, c, d, turned, blows)
  PROVE  \/ x.world = v
         \/ v.pos[d] = DEAD /\ x.world = RawKill(v, d)
         \/ ~Refused(v, c, d) /\ x \in turned
         \/ /\ ~Refused(v, c, d) /\ v.pos[d] # DEAD
            /\ \E o \in blows : x = Slain(o, c, d)
BY DEF Damage, Outcome

(* A fire shield burns a mob.  The mob may die of it, but not if it was    *)
(* able before.                                                            *)
LEMMA BurnsMobGood ==
  ASSUME NEW v, NEW p \in Player, NEW m \in Mob, Good(v, {}), Present(v, m),
         NEW u \in BurnsMob(v, p, m)
  PROVE  /\ Good(u, {}) /\ Quiet(v, u, {m}, {m})
         /\ Able(v, m) => Present(u, m)
<1>1. p \in Char /\ m \in Char /\ p # m /\ {m} \cap Mob = {m}
  BY Sorts DEF Char
<1>2. PICK x \in Damage(v, p, m, {}, Fallen(v, p, m)) : u = x.world
  BY DEF BurnsMob, Worlds
<1>3. CASE u = v
  BY <1>3, KeepsItself DEF Quiet, Keeps, Able
<1>4. CASE v.pos[m] = DEAD /\ u = RawKill(v, m)
  <2>1. Good(u, {}) /\ Quiet(v, u, {m}, {m})
    BY <1>1, <1>4, RawKillGood
  <2> QED
    BY <1>4, <2>1 DEF Able, DEAD, STUNNED
<1>5. CASE ~Refused(v, p, m) /\ \E o \in Fallen(v, p, m) : x = Slain(o, p, m)
  <2>1. PICK o \in Fallen(v, p, m) : x = Slain(o, p, m)
    BY <1>5
  <2>2. ~InPeace(v, p)
    BY <1>1, <1>5 DEF Refused
  <2>3. /\ Good(o.world, {}) /\ Quiet(v, o.world, {m}, {})
        /\ Able(v, m) => Alive(o.world, m)
    BY <1>1, <2>2, FallenGood
  <2>4. /\ Good(u, {}) /\ Keeps(o.world, u, {m}, {m})
        /\ u.freedUse = o.world.freedUse
        /\ Alive(o.world, m) => u = o.world
    BY <1>1, <1>2, <2>1, <2>3, SlainGood
  <2>5. Quiet(v, u, {m}, {m})
    BY <2>3, <2>4 DEF Quiet, Keeps
  <2>6. Able(v, m) => Present(u, m)
    BY <1>1, <2>3, <2>4 DEF Quiet, Keeps, Able
  <2> QED
    BY <2>4, <2>5, <2>6
<1> QED
  BY <1>2, <1>3, <1>4, <1>5, DamageCases

(* Hit points that are given: nothing else changes.                        *)
LEMMA RaisedGood ==
  ASSUME NEW v, NEW c \in Char, NEW h \in Band, Good(v, {}), h >= v.health[c]
  PROVE  LET u == [v EXCEPT !.health[c] = h]
         IN  Good(u, {}) /\ Quiet(v, u, {}, {}) /\ u.room = v.room /\ u.fighting = v.fighting
<1> DEFINE u == [v EXCEPT !.health[c] = h]
<1>1. v \in World /\ v.health[c] \in Int /\ v.pos[c] \in Int /\ h \in Int
  BY DEF Good, Whole, World, Band
<1>2. /\ u \in World /\ SameFights(v, u)
      /\ \A x \in Char : u.health[x] = IF x = c THEN h ELSE v.health[x]
      /\ u.room = v.room /\ u.pos = v.pos /\ u.freedUse = v.freedUse
  BY <1>1 DEF World, SameFights
<1> HIDE DEF u
<1>3. Facing(u) /\ Calm(u)
  BY <1>2 DEF Good, Whole, Facing, Calm, Present, SameFights
<1>4. Mishap = {} => Down(u, {})
  BY <1>1, <1>2 DEF Good, Whole, Down, SameFights, STUNNED
<1>5. Good(u, {})
  BY <1>2, <1>3, <1>4, GoodFrame DEF SameFights
<1>6. Quiet(v, u, {}, {})
  <2>1. h >= 0 /\ v.health[c] >= 0
    BY <1>1 DEF Band, World, DEAD
  <2> QED
    BY <1>1, <1>2, <2>1 DEF Quiet, Keeps, Able, Alive, Present, SameFights, STUNNED, DEAD
<1> QED
  BY <1>2, <1>5, <1>6 DEF u, SameFights

(* Blood feeds who thirsts for it, if he is still there.                   *)
LEMMA FedGood ==
  ASSUME NEW v, NEW c \in Char, Good(v, {}), NEW u \in Fed(v, c)
  PROVE  /\ Good(u, {}) /\ Keeps(v, u, {}, {}) /\ u.room = v.room
         /\ c \in Player \/ Present(v, c) => u.freedUse = v.freedUse
<1> DEFINE t == Touch(v, c)
<1>1. u = t \/ \E h \in Better(v, c) : u = [t EXCEPT !.health[c] = h]
  BY DEF Fed
<1>2. /\ Good(t, {}) /\ Keeps(v, t, {}, {}) /\ t.room = v.room /\ t.health = v.health
      /\ c \in Player \/ Present(v, c) => t.freedUse = v.freedUse
  BY TouchGood
<1> HIDE DEF t
<1>3. CASE u = t
  BY <1>2, <1>3
<1>4. CASE \E h \in Better(v, c) : u = [t EXCEPT !.health[c] = h]
  <2>1. PICK h \in Better(v, c) : u = [t EXCEPT !.health[c] = h]
    BY <1>4
  <2>2. h \in Band /\ h >= t.health[c]
    BY <1>2, BlowsHurt DEF Good, Whole
  <2>3. Good(u, {}) /\ Quiet(t, u, {}, {}) /\ u.room = t.room
    BY <1>2, <2>1, <2>2, RaisedGood
  <2> QED
    BY <1>2, <2>3 DEF Quiet, Keeps
<1> QED
  BY <1>1, <1>3, <1>4

(* A fire shield has answered the blow of c: if both are still there,      *)
(* nobody has been used after being freed.                                 *)
LEMMA BurntGood ==
  ASSUME NEW v, NEW c \in Char, NEW d \in Char, Good(v, {})
  PROVE  LET u == Touch(Touch(v, c), d)
         IN  /\ Good(u, {}) /\ Keeps(v, u, {}, {})
             /\ (c \in Player \/ Present(v, c)) /\ (d \in Player \/ Present(v, d))
                  => u.freedUse = v.freedUse
<1> DEFINE t == Touch(v, c)
<1>1. /\ Good(t, {}) /\ Keeps(v, t, {}, {}) /\ t.room = v.room
      /\ c \in Player \/ Present(v, c) => t.freedUse = v.freedUse
  BY TouchGood
<1> HIDE DEF t
<1>2. /\ Good(Touch(t, d), {}) /\ Keeps(t, Touch(t, d), {}, {})
      /\ d \in Player \/ Present(t, d) => Touch(t, d).freedUse = t.freedUse
  BY <1>1, TouchGood
<1>3. Keeps(v, Touch(t, d), {}, {})
  BY <1>1, <1>2 DEF Keeps
<1> QED
  BY <1>1, <1>2, <1>3 DEF t, Present

(* A mob strikes the master of the pet it meant to strike.                 *)
LEMMA HitsMasterGood ==
  ASSUME NEW v, NEW m \in Mob, NEW p \in Player, Good(v, {}), Present(v, m), Present(v, p),
         NEW u \in HitsMaster(v, m, p)
  PROVE  /\ Good(u, {}) /\ Keeps(v, u, {m, p}, {m})
         /\ Able(v, m) => Present(u, m) /\ u.freedUse = v.freedUse
<1> DEFINE fallen == Fallen(v, m, p)
           burnt  == UNION {Burnt(o, m, p, BurnsMob(o.world, p, m)) : o \in fallen}
           Fine(x) == /\ Good(x, {}) /\ Keeps(v, x, {m, p}, {m})
                      /\ Able(v, m) => Present(x, m) /\ x.freedUse = v.freedUse
<1>1. p \in Char /\ m \in Char /\ p # m /\ p \notin Mob /\ {p} \cap Mob = {}
  BY Sorts DEF Char
<1>2. ASSUME ~Refused(v, m, p), NEW o \in fallen
      PROVE  Good(o.world, {}) /\ Quiet(v, o.world, {p}, {})
  <2>1. ~InPeace(v, m)
    BY <1>1, <1>2 DEF Refused
  <2> QED
    BY <1>1, <1>2, <2>1, FallenGood
<1>3. ASSUME ~Refused(v, m, p), NEW o \in burnt
      PROVE  Fine(o.world)
  <2>1. PICK f \in fallen : o \in Burnt(f, m, p, BurnsMob(f.world, p, m))
    BY <1>3
  <2>2. PICK x \in BurnsMob(f.world, p, m) : o.world = Touch(Touch(x, m), p)
    BY <2>1 DEF Burnt, Outcome
  <2> HIDE DEF fallen, burnt
  <2>3. Good(f.world, {}) /\ Quiet(v, f.world, {p}, {})
    BY <1>2, <1>3
  <2>4. Present(f.world, m) /\ (Able(v, m) => Able(f.world, m))
    BY <1>1, <2>3 DEF Quiet, Keeps
  <2>5. /\ Good(x, {}) /\ Quiet(f.world, x, {m}, {m})
        /\ Able(f.world, m) => Present(x, m)
    BY <2>3, <2>4, BurnsMobGood
  <2>6. /\ Good(o.world, {}) /\ Keeps(x, o.world, {}, {})
        /\ Present(x, m) => o.world.freedUse = x.freedUse
    BY <1>1, <2>2, <2>5, BurntGood
  <2>7. Keeps(v, o.world, {m, p}, {m})
    BY <2>3, <2>5, <2>6 DEF Quiet, Keeps
  <2>8. Able(v, m) => Present(o.world, m) /\ o.world.freedUse = v.freedUse
    BY <1>1, <2>3, <2>4, <2>5, <2>6 DEF Quiet, Keeps
  <2> QED
    BY <2>6, <2>7, <2>8
<1>4. ASSUME ~Refused(v, m, p), NEW o \in fallen \cup burnt
      PROVE  Fine(o.world)
  <2>1. CASE o \in fallen
    <3>1. Good(o.world, {}) /\ Quiet(v, o.world, {p}, {})
      BY <1>2, <1>4, <2>1
    <3> QED
      BY <1>1, <3>1 DEF Quiet, Keeps
  <2>2. CASE o \in burnt
    BY <1>3, <1>4, <2>2
  <2> QED
    BY <1>4, <2>1, <2>2
<1>5. ASSUME NEW x \in Damage(v, m, p, {}, fallen \cup burnt)
      PROVE  Fine(x.world)
  <2>1. CASE x.world = v
    BY <2>1 DEF Keeps
  <2>2. CASE x.world = RawKill(v, p)
    <3>1. Good(x.world, {}) /\ Quiet(v, x.world, {p}, {})
      BY <1>1, <2>2, RawKillGood
    <3> QED
      BY <1>1, <3>1 DEF Quiet, Keeps
  <2>3. CASE ~Refused(v, m, p) /\ \E o \in fallen \cup burnt : x = Slain(o, m, p)
    <3>1. PICK o \in fallen \cup burnt : x = Slain(o, m, p)
      BY <2>3
    <3>2. Fine(o.world)
      BY <1>4, <2>3
    <3> HIDE DEF fallen, burnt
    <3>3. /\ Good(x.world, {}) /\ Keeps(o.world, x.world, {p}, {})
          /\ Present(x.world, m) => x.world.freedUse = o.world.freedUse
      BY <1>1, <3>1, <3>2, SlainGood
    <3>4. Keeps(v, x.world, {m, p}, {m})
      BY <3>2, <3>3 DEF Keeps
    <3>5. Able(v, m) => Present(x.world, m) /\ x.world.freedUse = v.freedUse
      BY <1>1, <3>2, <3>3 DEF Keeps
    <3> QED
      BY <3>3, <3>4, <3>5
  <2> QED
    BY <2>1, <2>2, <2>3, DamageCases
<1>6. CASE u = v
  BY <1>6 DEF Keeps, Able
<1>7. CASE \E x \in Damage(v, m, p, {}, fallen \cup burnt) : u \in Fed(x.world, m)
  <2>1. PICK x \in Damage(v, m, p, {}, fallen \cup burnt) : u \in Fed(x.world, m)
    BY <1>7
  <2>2. Fine(x.world)
    BY <1>5
  <2> HIDE DEF fallen, burnt
  <2>3. /\ Good(u, {}) /\ Keeps(x.world, u, {}, {}) /\ u.room = x.world.room
        /\ Present(x.world, m) => u.freedUse = x.world.freedUse
    <3> DEFINE y == x.world
    <3>1. Good(y, {}) /\ u \in Fed(y, m)
      BY <2>1, <2>2
    <3> HIDE DEF y
    <3>2. /\ Good(u, {}) /\ Keeps(y, u, {}, {}) /\ u.room = y.room
          /\ Present(y, m) => u.freedUse = y.freedUse
      BY <1>1, <3>1, FedGood
    <3> QED
      BY <3>2 DEF y
  <2>4. Keeps(v, u, {m, p}, {m})
    BY <2>2, <2>3 DEF Keeps
  <2> QED
    BY <2>2, <2>3, <2>4 DEF Present
<1>8. u = v \/ \E x \in Damage(v, m, p, {}, fallen \cup burnt) : u \in Fed(x.world, m)
  BY DEF HitsMaster, Worlds
<1> QED
  BY <1>6, <1>7, <1>8

(* A mob that meant to strike a pet turns on its master.                   *)
LEMMA TurnedGood ==
  ASSUME NEW v, NEW c \in Char, NEW d \in Char, Good(v, {}), Present(v, d), ~Refused(v, c, d),
         NEW x \in Turned(v, c, d)
  PROVE  /\ c \in Mob /\ c # d
         /\ Good(x.world, {}) /\ Keeps(v, x.world, Char, {c})
         /\ Mishap = {} => Present(x.world, c) /\ x.world.freedUse = v.freedUse
<1> DEFINE p == v.master[d]
           a == EngageAttacker(v, c, d)
           b == StopIfFighting(a, c)
<1>1. /\ Melee(v, c, d) /\ v.pos[c] > STUNNED /\ c \in Mob /\ d \in Mob
      /\ p # NoOne /\ v.room[p] = v.room[c]
      /\ \E u \in HitsMaster(b, c, p) : x = Outcome(u, 0)
  BY DEF Turned
<1>2. v \in World /\ p \in Player /\ v.pos[c] \in Int /\ v.health[c] \in Int
  BY <1>1 DEF Good, Whole, World, Band
<1>3. c # d /\ v.room[c] = v.room[d] /\ Present(v, c) /\ Present(v, p) /\ ~InPeace(v, c)
  BY <1>1, <1>2 DEF Melee, Present, Refused
<1>4. Good(a, {}) /\ Quiet(v, a, {}, {})
  BY <1>3, EngageGood
<1> HIDE DEF p, a
<1>5. Good(b, {} \ {c}) /\ Quiet(a, b, {}, {}) /\ {} \ {c} = {}
  BY <1>4, StopIfFightingGood
<1> HIDE DEF b
<1>6. Quiet(v, b, {}, {})
  BY <1>4, <1>5 DEF Quiet, Keeps
<1>7. PICK u \in HitsMaster(b, c, p) : x = Outcome(u, 0)
  BY <1>1
<1>8. p \in Char /\ Present(b, c) /\ Present(b, p)
  BY <1>2, <1>3, <1>6 DEF Quiet, Keeps, Char
<1>9. /\ Good(u, {}) /\ Keeps(b, u, {c, p}, {c})
      /\ Able(b, c) => Present(u, c) /\ u.freedUse = b.freedUse
  BY <1>1, <1>2, <1>5, <1>8, HitsMasterGood
<1>10. Mishap = {} => Able(b, c)
  <2>1. Mishap = {} => v.health[c] > STUNNED
    BY <1>1, <1>2 DEF Good, Whole, Down, STUNNED
  <2> QED
    BY <1>1, <1>3, <1>6, <2>1 DEF Quiet, Keeps, Able
<1>11. x.world = u
  BY <1>7 DEF Outcome
<1>12. Keeps(v, u, Char, {c})
  BY <1>6, <1>9 DEF Quiet, Keeps
<1>13. Mishap = {} => Present(u, c) /\ u.freedUse = v.freedUse
  BY <1>6, <1>9, <1>10 DEF Quiet
<1> QED
  BY <1>1, <1>3, <1>9, <1>11, <1>12, <1>13

(* A blow no fire shield answers.                                          *)
LEMMA SpellGood ==
  ASSUME NEW v, NEW c \in Char, NEW d \in Char, Good(v, {}), Present(v, d),
         NEW x \in Spell(v, c, d)
  PROVE  /\ Good(x.world, {}) /\ Keeps(v, x.world, Char, {c, d} \cap Mob)
         /\ Mishap = {} /\ Present(v, c) /\ (c # d \/ c \in Player) =>
              Present(x.world, c) /\ x.world.freedUse = v.freedUse
         /\ Mishap = {} /\ Able(v, d) => Present(x.world, d)
<1>1. CASE x.world = v
  BY <1>1 DEF Keeps, Able
<1>2. CASE v.pos[d] = DEAD /\ x.world = RawKill(v, d)
  <2>1. Good(x.world, {}) /\ Quiet(v, x.world, {d}, {d} \cap Mob)
    BY <1>2, RawKillGood
  <2>2. ~Able(v, d)
    BY <1>2 DEF Able, DEAD, STUNNED
  <2> QED
    BY <2>1, <2>2, Sorts DEF Quiet, Keeps
<1>3. CASE ~Refused(v, c, d) /\ x \in Turned(v, c, d)
  <2>1. /\ c \in Mob /\ c # d
        /\ Good(x.world, {}) /\ Keeps(v, x.world, Char, {c})
        /\ Mishap = {} => Present(x.world, c) /\ x.world.freedUse = v.freedUse
    BY <1>3, TurnedGood
  <2> QED
    BY <2>1 DEF Keeps, Able
<1>4. CASE ~Refused(v, c, d) /\ \E o \in Fallen(v, c, d) : x = Slain(o, c, d)
  <2>1. PICK o \in Fallen(v, c, d) : x = Slain(o, c, d)
    BY <1>4
  <2>2. c # d => ~InPeace(v, c)
    BY <1>4 DEF Refused
  <2>3. /\ Good(o.world, {}) /\ Quiet(v, o.world, {d}, {})
        /\ Able(v, d) => Alive(o.world, d)
    BY <2>2, FallenGood
  <2>4. /\ Good(x.world, {}) /\ Keeps(o.world, x.world, {d}, {d} \cap Mob)
        /\ c \in Player \/ Present(x.world, c) => x.world.freedUse = o.world.freedUse
        /\ Alive(o.world, d) => x.world = o.world
    BY <2>1, <2>3, SlainGood
  <2>5. Keeps(v, x.world, Char, {c, d} \cap Mob)
    BY <2>3, <2>4 DEF Quiet, Keeps
  <2>6. Present(v, c) /\ (c # d \/ c \in Player) =>
          Present(x.world, c) /\ x.world.freedUse = v.freedUse
    BY <2>3, <2>4, Sorts DEF Quiet, Keeps
  <2>7. Able(v, d) => Present(x.world, d)
    BY <2>3, <2>4 DEF Quiet, Keeps, Able
  <2> QED
    BY <2>4, <2>5, <2>6, <2>7
<1>5. x \in Damage(v, c, d, Turned(v, c, d), Fallen(v, c, d))
  BY DEF Spell
<1> QED
  BY <1>1, <1>2, <1>3, <1>4, <1>5, DamageCases

(* The worlds a blow may leave, seen by whoever deals it to another.       *)
LEMMA SpellKeeps ==
  ASSUME NEW v, NEW c \in Char, NEW d \in Char, Good(v, {}), Present(v, d), c # d,
         NEW u \in Worlds(Spell(v, c, d))
  PROVE  /\ Good(u, {}) /\ Keeps(v, u, Char, {c, d} \cap Mob)
         /\ Mishap = {} /\ Present(v, c) => Present(u, c) /\ u.freedUse = v.freedUse
<1>1. PICK x \in Spell(v, c, d) : u = x.world
  BY DEF Worlds
<1>2. Good(x.world, {}) /\ Keeps(v, x.world, Char, {c, d} \cap Mob)
  BY SpellGood
<1>3. ASSUME Mishap = {}, Present(v, c)
      PROVE  Present(x.world, c) /\ x.world.freedUse = v.freedUse
  BY <1>2, <1>3, SpellGood
<1> QED
  BY <1>1, <1>2, <1>3

(* Who deals a blow is a player, who is never freed, or an able mob.       *)
Deals(v, c, d) == c \in Player \/ (c # d /\ Able(v, c))

(* A blow, and what the fire shield of its victim makes of it.             *)
LEMMA StrikeGood ==
  ASSUME NEW v, NEW c \in Char, NEW d \in Char, Good(v, {}), Present(v, c), Present(v, d),
         NEW x \in Strike(v, c, d)
  PROVE  /\ Good(x.world, {}) /\ Keeps(v, x.world, Char, {c, d} \cap Mob)
         /\ Mishap = {} /\ Deals(v, c, d) =>
              Present(x.world, c) /\ x.world.freedUse = v.freedUse
<1> DEFINE fallen == Fallen(v, c, d)
           burnt  == UNION {Burnt(o, c, d, Worlds(Spell(o.world, d, c))) : o \in fallen}
           Fine(y) == /\ Good(y, {}) /\ Keeps(v, y, Char, {c, d} \cap Mob)
                      /\ Mishap = {} /\ Deals(v, c, d) =>
                           Present(y, c) /\ y.freedUse = v.freedUse
<1>1. ASSUME ~Refused(v, c, d), NEW o \in fallen
      PROVE  Good(o.world, {}) /\ Quiet(v, o.world, {d}, {})
  <2>1. c # d => ~InPeace(v, c)
    BY <1>1 DEF Refused
  <2> QED
    BY <1>1, <2>1, FallenGood
<1>2. ASSUME ~Refused(v, c, d), NEW o \in burnt
      PROVE  Fine(o.world)
  <2>1. PICK f \in fallen : o \in Burnt(f, c, d, Worlds(Spell(f.world, d, c)))
    BY <1>2
  <2>2. PICK s \in Spell(f.world, d, c) : o.world = Touch(Touch(s.world, c), d)
    BY <2>1 DEF Burnt, Outcome, Worlds
  <2> HIDE DEF fallen, burnt
  <2>3. Good(f.world, {}) /\ Quiet(v, f.world, {d}, {})
    BY <1>1, <1>2
  <2>4. /\ Present(f.world, c) /\ Present(f.world, d)
        /\ c # d /\ Able(v, c) => Able(f.world, c)
    BY <2>3 DEF Quiet, Keeps
  <2>5. /\ Good(s.world, {}) /\ Keeps(f.world, s.world, Char, {c, d} \cap Mob)
        /\ Mishap = {} /\ (d # c \/ d \in Player) =>
             Present(s.world, d) /\ s.world.freedUse = f.world.freedUse
        /\ Mishap = {} /\ Able(f.world, c) => Present(s.world, c)
    <3>1. /\ Good(s.world, {}) /\ Keeps(f.world, s.world, Char, {d, c} \cap Mob)
          /\ Mishap = {} /\ Present(f.world, d) /\ (d # c \/ d \in Player) =>
               Present(s.world, d) /\ s.world.freedUse = f.world.freedUse
          /\ Mishap = {} /\ Able(f.world, c) => Present(s.world, c)
      BY <2>3, <2>4, SpellGood
    <3>2. {d, c} = {c, d}
      OBVIOUS
    <3> QED
      BY <3>1, <3>2, <2>4
  <2>6. /\ Good(o.world, {}) /\ Keeps(s.world, o.world, {}, {})
        /\ (c \in Player \/ Present(s.world, c)) /\ (d \in Player \/ Present(s.world, d))
             => o.world.freedUse = s.world.freedUse
    BY <2>2, <2>5, BurntGood
  <2>7. Keeps(v, o.world, Char, {c, d} \cap Mob)
    BY <2>3, <2>5, <2>6 DEF Quiet, Keeps
  <2>8. ASSUME Mishap = {}, Deals(v, c, d)
        PROVE  Present(o.world, c) /\ o.world.freedUse = v.freedUse
    <3>1. d # c \/ d \in Player
      BY <2>8 DEF Deals
    <3>2. Present(s.world, d) /\ s.world.freedUse = v.freedUse
      BY <2>8, <3>1, <2>3, <2>5 DEF Quiet
    <3>3. Present(s.world, c)
      <4>1. CASE c \in Player
        BY <4>1, <2>4, <2>5, Sorts DEF Keeps
      <4>2. CASE c # d /\ Able(v, c)
        BY <4>2, <2>8, <2>4, <2>5
      <4> QED
        BY <2>8, <4>1, <4>2 DEF Deals
    <3> QED
      BY <3>2, <3>3, <2>6 DEF Keeps
  <2> QED
    BY <2>6, <2>7, <2>8
<1>3. ASSUME ~Refused(v, c, d), NEW o \in fallen \cup burnt
      PROVE  Fine(o.world)
  <2>1. CASE o \in fallen
    <3>1. Good(o.world, {}) /\ Quiet(v, o.world, {d}, {})
      BY <1>1, <1>3, <2>1
    <3> QED
      BY <3>1 DEF Quiet, Keeps
  <2>2. CASE o \in burnt
    BY <1>2, <1>3, <2>2
  <2> QED
    BY <1>3, <2>1, <2>2
<1>4. CASE x.world = v
  BY <1>4 DEF Keeps
<1>5. CASE x.world = RawKill(v, d)
  <2>1. Good(x.world, {}) /\ Quiet(v, x.world, {d}, {d} \cap Mob)
    BY <1>5, RawKillGood
  <2>2. c # d \/ c \in Player => Present(x.world, c)
    BY <2>1, Sorts DEF Quiet, Keeps
  <2> QED
    BY <2>1, <2>2 DEF Quiet, Keeps, Deals
<1>6. CASE ~Refused(v, c, d) /\ x \in Turned(v, c, d)
  <2>1. /\ c \in Mob /\ c # d
        /\ Good(x.world, {}) /\ Keeps(v, x.world, Char, {c})
        /\ Mishap = {} => Present(x.world, c) /\ x.world.freedUse = v.freedUse
    BY <1>6, TurnedGood
  <2> QED
    BY <2>1 DEF Keeps
<1>7. CASE ~Refused(v, c, d) /\ \E o \in fallen \cup burnt : x = Slain(o, c, d)
  <2>1. PICK o \in fallen \cup burnt : x = Slain(o, c, d)
    BY <1>7
  <2>2. Fine(o.world)
    BY <1>3, <1>7
  <2> HIDE DEF fallen, burnt
  <2>3. /\ Good(x.world, {}) /\ Keeps(o.world, x.world, {d}, {d} \cap Mob)
        /\ c \in Player \/ Present(x.world, c) => x.world.freedUse = o.world.freedUse
    BY <2>1, <2>2, SlainGood
  <2>4. Keeps(v, x.world, Char, {c, d} \cap Mob)
    BY <2>2, <2>3 DEF Keeps
  <2>5. ASSUME Mishap = {}, Deals(v, c, d)
        PROVE  Present(x.world, c) /\ x.world.freedUse = v.freedUse
    <3>1. c \notin {d} \cap Mob
      BY <2>5, Sorts DEF Deals
    <3> QED
      BY <2>5, <3>1, <2>2, <2>3 DEF Keeps
  <2> QED
    BY <2>3, <2>4, <2>5
<1>8. x \in Damage(v, c, d, Turned(v, c, d), fallen \cup burnt)
  BY DEF Strike
<1> QED
  BY <1>4, <1>5, <1>6, <1>7, <1>8, DamageCases

(* hit(): a blow in the room, or nothing.                                  *)
LEMMA HitGood ==
  ASSUME NEW v, NEW c \in Char, NEW d \in Char, Good(v, {}), Present(v, c), Present(v, d),
         NEW u \in Hit(v, c, d)
  PROVE  /\ Good(u, {}) /\ Keeps(v, u, Char, {c, d} \cap Mob)
         /\ Mishap = {} /\ Deals(v, c, d) => Present(u, c) /\ u.freedUse = v.freedUse
<1>1. CASE u = v
  BY <1>1 DEF Keeps
<1>2. CASE u = StopFighting(v, c)
  <2>1. {c} \in SUBSET Char /\ {} \ {c} = {} /\ u = StopAll(v, {c})
    BY <1>2 DEF StopFighting
  <2>2. Good(u, {}) /\ Quiet(v, u, {}, {})
    BY <2>1, StopAllGood
  <2> QED
    BY <2>2 DEF Quiet, Keeps
<1>3. CASE \E x \in Strike(v, c, d) : u \in Fed(x.world, c)
  <2>1. PICK x \in Strike(v, c, d) : u \in Fed(x.world, c)
    BY <1>3
  <2>2. /\ Good(x.world, {}) /\ Keeps(v, x.world, Char, {c, d} \cap Mob)
        /\ Mishap = {} /\ Deals(v, c, d) =>
             Present(x.world, c) /\ x.world.freedUse = v.freedUse
    BY StrikeGood
  <2> DEFINE y == x.world
  <2>3. Good(y, {}) /\ u \in Fed(y, c)
    BY <2>1, <2>2
  <2> HIDE DEF y
  <2>4. /\ Good(u, {}) /\ Keeps(y, u, {}, {})
        /\ Present(y, c) => u.freedUse = y.freedUse
    BY <2>3, FedGood
  <2>5. Keeps(v, u, Char, {c, d} \cap Mob)
    BY <2>2, <2>4 DEF Keeps, y
  <2> QED
    BY <2>2, <2>4, <2>5 DEF Keeps, y
<1> QED
  BY <1>1, <1>2, <1>3 DEF Hit, Worlds

(* do_assist, and the friends who join in after a blow of c.               *)
LEMMA AssistGood ==
  ASSUME NEW v, NEW c \in Char, NEW d \in Char, Good(v, {}), Present(v, c),
         NEW u \in Assist(v, c, d)
  PROVE  /\ Good(u, {})
         /\ v.cursor = NoOne => u.cursor = NoOne
         /\ Mishap = {} /\ (c \in Player \/ Able(v, c)) => u.freedUse = v.freedUse
<1> DEFINE foes == IF v.fighting[d] # NoOne THEN {v.fighting[d]}
                   ELSE {x \in People(v, v.room[c]) : v.fighting[x] = d}
           own  == IF c \in Mob /\ "assist" \notin Mishap THEN {c} ELSE {}
<1>1. CASE u = v
  BY <1>1
<1>2. CASE \E x \in foes \ own : u \in Hit(v, c, x)
  <2>1. PICK x \in foes \ own : u \in Hit(v, c, x)
    BY <1>2
  <2>2. x \in Char /\ Present(v, x)
    <3>1. v.fighting[d] \in Char \cup {NoOne}
      BY DEF Good, Whole, World
    <3> QED
      BY <3>1 DEF Good, Whole, Facing, People, Present
  <2>3. Mishap = {} /\ (c \in Player \/ Able(v, c)) => Deals(v, c, x)
    BY Sorts DEF Deals
  <2>4. /\ Good(u, {}) /\ Keeps(v, u, Char, {c, x} \cap Mob)
        /\ Mishap = {} /\ Deals(v, c, x) => Present(u, c) /\ u.freedUse = v.freedUse
    BY <2>1, <2>2, HitGood
  <2> QED
    BY <2>3, <2>4 DEF Keeps
<1>3. u = v \/ \E x \in foes \ own : u \in Hit(v, c, x)
  BY DEF Assist
<1> QED
  BY <1>1, <1>2, <1>3

(* Auto-assist: those who come to the help of c, each in their own world.  *)
LEMMA JoinedGood ==
  ASSUME NEW v, NEW c, Good(v, {}), NEW u \in Joined(v, c)
  PROVE  /\ Good(u, {})
         /\ v.cursor = NoOne => u.cursor = NoOne
         /\ Mishap = {} => u.freedUse = v.freedUse
<1>1. u = v \/ \E p \in Player : c \in Player /\ Together(v, p, c) /\ u \in Assist(v, p, c)
  BY DEF Joined
<1>2. CASE \E p \in Player : c \in Player /\ Together(v, p, c) /\ u \in Assist(v, p, c)
  <2>1. PICK p \in Player : c \in Player /\ Together(v, p, c) /\ u \in Assist(v, p, c)
    BY <1>2
  <2>2. p \in Char /\ c \in Char /\ Present(v, p)
    BY <2>1 DEF Char, Together
  <2> QED
    BY <2>1, <2>2, AssistGood
<1> QED
  BY <1>1, <1>2

-----------------------------------------------------------------------------
(* Commands: one step, between two rounds.                                 *)
LEMMA IdleJob == Idle \in Job
BY Sorts DEF Idle, Job

(* A command finds the world good, the cursor NULL.                        *)
LEMMA CommandStart ==
  ASSUME Inv, Command
  PROVE  Good(w, {}) /\ w.cursor = NoOne /\ (Mishap = {} => ~w.freedUse)
BY DEF Inv, JobSound, Command, Idle, Good

(* A command may leave any good world in which the cursor is still NULL.   *)
LEMMA CommandSound ==
  ASSUME Inv, Command, Good(w', {}), w'.cursor = NoOne, Mishap = {} => ~w'.freedUse
  PROVE  Inv'
BY DEF Inv, JobSound, Command, Idle, Good

(* Whoever is not down has hit points left.                                *)
LEMMA UpIsAble ==
  ASSUME NEW v, Good(v, {}), NEW c \in Char, Mishap = {}, v.pos[c] > STUNNED
  PROVE  v.health[c] > STUNNED /\ (Present(v, c) => Able(v, c))
<1>1. v.pos[c] \in Int /\ v.health[c] \in Int
  BY DEF Good, Whole, World, Band
<1> QED
  BY <1>1 DEF Good, Whole, Down, Able, STUNNED

(* Getting up, sitting down, falling asleep.                               *)
LEMMA PostureGood ==
  ASSUME NEW v, Good(v, {}), NEW c \in Char, NEW p \in SLEEPING..STANDING,
         Mishap = {} => v.health[c] > STUNNED
  PROVE  LET u == [v EXCEPT !.pos[c] = p]
         IN  Good(u, {}) /\ Quiet(v, u, {}, {}) /\ u.room = v.room /\ SameFights(v, u)
<1> DEFINE u == [v EXCEPT !.pos[c] = p]
<1>1. v \in World /\ p \in DEAD..STANDING /\ p > STUNNED
  BY DEF Good, Whole, SLEEPING, DEAD, STANDING, STUNNED
<1>2. /\ u \in World /\ SameFights(v, u)
      /\ \A x \in Char : u.pos[x] = IF x = c THEN p ELSE v.pos[x]
      /\ u.room = v.room /\ u.health = v.health /\ u.freedUse = v.freedUse
  BY <1>1 DEF World, SameFights
<1> HIDE DEF u
<1>3. Facing(u) /\ Calm(u)
  BY <1>2 DEF Good, Whole, Facing, Calm, Present, SameFights
<1>4. Mishap = {} => Down(u, {})
  <2>1. \A x \in Char : v.health[x] \in Int
    BY <1>1 DEF World, Band
  <2> QED
    BY <1>1, <1>2, <2>1 DEF Good, Whole, Down, SameFights, STUNNED
<1>5. Good(u, {})
  BY <1>2, <1>3, <1>4, GoodFrame DEF SameFights
<1>6. Quiet(v, u, {}, {})
  BY <1>1, <1>2 DEF Quiet, Keeps, Able, Alive, Present, SameFights, STUNNED, DEAD
<1> QED
  BY <1>2, <1>5, <1>6 DEF u

(* do_hit, with the friends who join in.                                   *)
LEMMA DoHitSound ==
  ASSUME Inv, NEW c \in Char, NEW d \in Char, DoHit(c, d)
  PROVE  Inv'
<1>1. /\ Command /\ c # d /\ Present(w, c) /\ Present(w, d)
      /\ w.pos[c] = STANDING
  BY DEF DoHit, Together, Present
<1>2. Good(w, {}) /\ w.cursor = NoOne /\ (Mishap = {} => ~w.freedUse)
  BY <1>1, CommandStart
<1>3. PICK u \in Hit(w, c, d) : w' \in Joined(u, c)
  BY DEF DoHit
<1>4. Mishap = {} => Deals(w, c, d)
  BY <1>1, <1>2, UpIsAble DEF Deals, STANDING, STUNNED
<1>5. /\ Good(u, {}) /\ Keeps(w, u, Char, {c, d} \cap Mob)
      /\ Mishap = {} /\ Deals(w, c, d) => Present(u, c) /\ u.freedUse = w.freedUse
  BY <1>1, <1>2, HitGood
<1>6. /\ Good(w', {})
      /\ u.cursor = NoOne => w'.cursor = NoOne
      /\ Mishap = {} => w'.freedUse = u.freedUse
  BY <1>3, <1>5, JoinedGood
<1> QED
  BY <1>1, <1>2, <1>4, <1>5, <1>6, CommandSound DEF Keeps

(* do_assist, by somebody on his feet.                                     *)
LEMMA DoAssistSound ==
  ASSUME Inv, NEW c \in Char, NEW d \in Char, DoAssist(c, d)
  PROVE  Inv'
<1>1. Command /\ Present(w, c) /\ w.pos[c] >= FIGHTING /\ w' \in Assist(w, c, d)
  BY DEF DoAssist, Together
<1>2. Good(w, {}) /\ w.cursor = NoOne /\ (Mishap = {} => ~w.freedUse)
  BY <1>1, CommandStart
<1>3. Mishap = {} => Able(w, c)
  <2>1. w.pos[c] \in Int
    BY <1>2 DEF Good, Whole, World
  <2>2. w.pos[c] > STUNNED
    BY <1>1, <2>1 DEF FIGHTING, STUNNED
  <2> QED
    BY <1>1, <1>2, <2>2, UpIsAble
<1>4. /\ Good(w', {})
      /\ w.cursor = NoOne => w'.cursor = NoOne
      /\ Mishap = {} /\ (c \in Player \/ Able(w, c)) => w'.freedUse = w.freedUse
  BY <1>1, <1>2, AssistGood
<1> QED
  BY <1>1, <1>2, <1>3, <1>4, CommandSound

(* One attack without a shield: do_kick, do_backstab, the blow of do_bash. *)
LEMMA AttackGood ==
  ASSUME NEW v, Good(v, {}), NEW c \in Char, NEW d \in Char, c # d, Together(v, c, d),
         v.cursor = NoOne, Mishap = {} => ~v.freedUse,
         NEW u \in Worlds(Spell(v, c, d))
  PROVE  Good(u, {}) /\ u.cursor = NoOne /\ (Mishap = {} => ~u.freedUse)
<1>1. PICK x \in Spell(v, c, d) : u = x.world
  BY DEF Worlds
<1>2. Present(v, c) /\ Present(v, d)
  BY DEF Together, Present
<1>3. /\ Good(x.world, {}) /\ Keeps(v, x.world, Char, {c, d} \cap Mob)
      /\ Mishap = {} /\ Present(v, c) /\ (c # d \/ c \in Player) =>
           Present(x.world, c) /\ x.world.freedUse = v.freedUse
  BY <1>2, SpellGood
<1> QED
  BY <1>1, <1>2, <1>3 DEF Keeps

(* do_kick and the spells of mag_damage.                                   *)
LEMMA DoKickSound ==
  ASSUME Inv, NEW c \in Char, NEW d \in Char, DoKick(c, d)
  PROVE  Inv'
<1>1. Command /\ c # d /\ Together(w, c, d) /\ w' \in Worlds(Spell(w, c, d))
  BY DEF DoKick
<1>2. Good(w, {}) /\ w.cursor = NoOne /\ (Mishap = {} => ~w.freedUse)
  BY <1>1, CommandStart
<1>3. Good(w', {}) /\ w'.cursor = NoOne /\ (Mishap = {} => ~w'.freedUse)
  BY <1>1, <1>2, AttackGood
<1> QED
  BY <1>1, <1>3, CommandSound

(* do_backstab, and the aware mob that strikes first.                      *)
LEMMA DoBackstabSound ==
  ASSUME Inv, NEW c \in Char, NEW d \in Char, DoBackstab(c, d)
  PROVE  Inv'
<1>1. Command /\ c # d /\ Together(w, c, d)
  BY DEF DoBackstab
<1>2. Good(w, {}) /\ w.cursor = NoOne /\ (Mishap = {} => ~w.freedUse)
  BY <1>1, CommandStart
<1>3. CASE w' = w
  BY <1>1, <1>2, <1>3, CommandSound
<1>4. CASE w' \in Worlds(Spell(w, c, d))
  <2>1. Good(w', {}) /\ w'.cursor = NoOne /\ (Mishap = {} => ~w'.freedUse)
    BY <1>1, <1>2, <1>4, AttackGood
  <2> QED
    BY <1>1, <2>1, CommandSound
<1>5. CASE (w.pos[d] > STUNNED \/ "stunned" \in Mishap) /\ w' \in Hit(w, d, c)
  <2>1. Present(w, c) /\ Present(w, d)
    BY <1>1 DEF Together, Present
  <2>2. Mishap = {} => Deals(w, d, c)
    BY <1>1, <1>2, <1>5, <2>1, UpIsAble DEF Deals
  <2>3. /\ Good(w', {}) /\ Keeps(w, w', Char, {d, c} \cap Mob)
        /\ Mishap = {} /\ Deals(w, d, c) => Present(w', d) /\ w'.freedUse = w.freedUse
    BY <1>2, <1>5, <2>1, HitGood
  <2> QED
    BY <1>1, <1>2, <2>2, <2>3, CommandSound DEF Keeps
<1> QED
  BY <1>3, <1>4, <1>5 DEF DoBackstab

(* do_bash: whoever is seated has hit points left.                         *)
LEMMA DoBashSound ==
  ASSUME Inv, NEW c \in Char, NEW d \in Char, DoBash(c, d)
  PROVE  Inv'
<1>1. Command /\ c # d /\ Together(w, c, d)
  BY DEF DoBash
<1>2. Good(w, {}) /\ w.cursor = NoOne /\ (Mishap = {} => ~w.freedUse)
  BY <1>1, CommandStart
<1>3. SITTING \in SLEEPING..STANDING
  BY DEF SITTING, SLEEPING, STANDING
<1>4. ASSUME NEW u \in Worlds(Spell(w, c, d)), NEW x \in Char, Bashable(u, x), w' = Seated(u, x)
      PROVE  Inv'
  <2>1. Good(u, {}) /\ u.cursor = NoOne /\ (Mishap = {} => ~u.freedUse)
    BY <1>1, <1>2, AttackGood
  <2>2. Mishap = {} => u.health[x] > STUNNED
    BY <1>4 DEF Bashable
  <2>3. Good(w', {}) /\ Quiet(u, w', {}, {})
    BY <1>3, <1>4, <2>1, <2>2, PostureGood DEF Seated
  <2> QED
    BY <1>1, <2>1, <2>3, CommandSound DEF Quiet, Keeps
<1>5. CASE \E u \in Worlds(Spell(w, c, d)) : Bashable(u, c) /\ w' = Seated(u, c)
  BY <1>4, <1>5
<1>6. CASE \E o \in Spell(w, c, d) :
             /\ o.ret > 0 => Bashable(o.world, d)
             /\ w' = BashOutcome(o, d)
  <2>1. PICK o \in Spell(w, c, d) : /\ o.ret > 0 => Bashable(o.world, d)
                                    /\ w' = BashOutcome(o, d)
    BY <1>6
  <2>2. o.world \in Worlds(Spell(w, c, d))
    BY DEF Worlds
  <2>3. CASE o.ret > 0
    BY <1>4, <2>1, <2>2, <2>3 DEF BashOutcome
  <2>4. CASE ~(o.ret > 0)
    <3>1. w' = o.world
      BY <2>1, <2>4 DEF BashOutcome
    <3>2. Good(w', {}) /\ w'.cursor = NoOne /\ (Mishap = {} => ~w'.freedUse)
      BY <1>1, <1>2, <2>2, <3>1, AttackGood
    <3> QED
      BY <1>1, <3>2, CommandSound
  <2> QED
    BY <2>3, <2>4
<1> QED
  BY <1>5, <1>6 DEF DoBash

(* do_decapitate and the implementor's do_kill.                            *)
LEMMA KillSound ==
  ASSUME Inv, Command, NEW d \in Char, w' = RawKill(w, d)
  PROVE  Inv'
<1>1. Good(w, {}) /\ w.cursor = NoOne /\ (Mishap = {} => ~w.freedUse)
  BY CommandStart
<1>2. Good(w', {}) /\ Quiet(w, w', {d}, {d} \cap Mob)
  BY <1>1, RawKillGood
<1> QED
  BY <1>1, <1>2, CommandSound DEF Quiet, Keeps

(* do_purge and do_quit.                                                   *)
LEMMA ExtractSound ==
  ASSUME Inv, Command, NEW c \in Char, w' = ExtractChar(w, c)
  PROVE  Inv'
<1>1. Good(w, {}) /\ w.cursor = NoOne /\ (Mishap = {} => ~w.freedUse)
  BY CommandStart
<1>2. Good(w', {}) /\ Quiet(w, w', {c}, {c})
  BY <1>1, ExtractCharGood
<1> QED
  BY <1>1, <1>2, CommandSound DEF Quiet, Keeps

(* fire_missile, and the mob that charges.                                 *)
LEMMA ShootSound ==
  ASSUME Inv, NEW c \in Char, NEW d \in Char, Shoot(c, d)
  PROVE  Inv'
<1>1. Command /\ Present(w, c) /\ Present(w, d)
  BY DEF Shoot
<1>2. Good(w, {}) /\ w.cursor = NoOne /\ (Mishap = {} => ~w.freedUse)
  BY <1>1, CommandStart
<1>3. PICK u \in {w} \cup {Touch(x, d) : x \in Worlds(Spell(w, c, d))} :
        /\ u.freedUse => w.freedUse \/ "missile" \in Mishap
        /\ w' \in Reactions(u, c, d)
  BY DEF Shoot
<1>4. Mishap = {} => ~u.freedUse
  BY <1>2, <1>3
<1>5. Good(u, {}) /\ u.cursor = NoOne
  <2>1. CASE u = w
    BY <1>2, <2>1
  <2>2. CASE \E x \in Spell(w, c, d) : u = Touch(x.world, d)
    <3>1. PICK x \in Spell(w, c, d) : u = Touch(x.world, d)
      BY <2>2
    <3>2. Good(x.world, {}) /\ Keeps(w, x.world, Char, {c, d} \cap Mob)
      BY <1>1, <1>2, SpellGood
    <3> DEFINE y == x.world
    <3>3. Good(y, {}) /\ y.cursor = NoOne
      BY <1>2, <3>2 DEF Keeps
    <3> HIDE DEF y
    <3>4. Good(Touch(y, d), {}) /\ Keeps(y, Touch(y, d), {}, {})
      BY <3>3, TouchGood
    <3> QED
      BY <3>1, <3>3, <3>4 DEF Keeps, y
  <2> QED
    BY <1>3, <2>1, <2>2 DEF Worlds
<1>6. CASE w' = u
  BY <1>1, <1>4, <1>5, <1>6, CommandSound
<1>7. CASE u.pos[d] > STUNNED /\ w' = [u EXCEPT !.pos[d] = STANDING]
  <2>1. Mishap = {} => u.health[d] > STUNNED
    BY <1>5, <1>7, UpIsAble
  <2>2. STANDING \in SLEEPING..STANDING
    BY DEF STANDING, SLEEPING
  <2>3. Good(w', {}) /\ Quiet(u, w', {}, {})
    BY <1>5, <1>7, <2>1, <2>2, PostureGood
  <2> QED
    BY <1>1, <1>4, <1>5, <2>3, CommandSound DEF Quiet, Keeps
<1>8. CASE w' \in Steps(u, d)
  <2>1. Good(w', {}) /\ Quiet(u, w', {}, {})
    BY <1>5, <1>8, StepsGood
  <2> QED
    BY <1>1, <1>4, <1>5, <2>1, CommandSound DEF Quiet, Keeps
<1>9. u.pos[d] \in Int
  BY <1>5 DEF Good, Whole, World
<1> QED
  BY <1>3, <1>6, <1>7, <1>8, <1>9 DEF Reactions, STUNNED

(* do_rescue: both who are left can stand, and share a room that is not    *)
(* peaceful.                                                               *)
LEMMA DoRescueSound ==
  ASSUME Inv, NEW c \in Char, NEW d \in Char, NEW t \in Char, DoRescue(c, d, t)
  PROVE  Inv'
<1>1. /\ Command /\ w.pos[c] >= FIGHTING /\ Together(w, c, t) /\ w.fighting[t] = d
      /\ w' = Rescued(w, c, d, t)
  BY DEF DoRescue
<1>2. Good(w, {}) /\ w.cursor = NoOne /\ (Mishap = {} => ~w.freedUse)
  BY <1>1, CommandStart
<1>3. /\ Present(w, c) /\ Present(w, t) /\ w.room[c] \notin Peaceful /\ w.room[t] \notin Peaceful
  BY <1>1, <1>2, Sorts DEF Together, Present, Good, Whole, Calm
<1>4. Mishap = {} => w.health[c] > STUNNED /\ w.health[t] > STUNNED
  <2>1. w.pos[c] \in Int /\ w.pos[t] \in Int
    BY <1>2 DEF Good, Whole, World
  <2>2. w.pos[c] > STUNNED
    BY <1>1, <2>1 DEF FIGHTING, STUNNED
  <2>3. Mishap = {} => w.pos[t] > STUNNED
    BY <1>1, <1>2, Sorts DEF Good, Whole, Down
  <2> QED
    BY <1>2, <2>2, <2>3, UpIsAble
<1> DEFINE a == IF w.fighting[d] = t THEN StopFighting(w, d) ELSE w
           b == StopIfFighting(a, t)
           e == StopIfFighting(b, c)
           f == SetFighting(e, c, t)
           Same(u) == /\ Good(u, {}) /\ u.cursor = NoOne /\ u.freedUse = w.freedUse
                      /\ u.room = w.room /\ u.health = w.health
<1>5. \A x \in Char : {} \ {x} = {} /\ {x} \in SUBSET Char
  OBVIOUS
<1>6. Same(a)
  <2>1. /\ Good(StopAll(w, {d}), {}) /\ Quiet(w, StopAll(w, {d}), {}, {})
        /\ Parted(w, StopAll(w, {d}), {d})
    BY <1>2, <1>5, StopAllGood
  <2> QED
    BY <1>2, <2>1 DEF StopFighting, Quiet, Keeps, Parted
<1> HIDE DEF a
<1>7. Same(b)
  <2>1. Good(b, {}) /\ Quiet(a, b, {}, {}) /\ Parted(a, b, {t})
    BY <1>5, <1>6, StopIfFightingGood
  <2> QED
    BY <1>6, <2>1 DEF Quiet, Keeps, Parted
<1> HIDE DEF b
<1>8. Same(e)
  <2>1. Good(e, {}) /\ Quiet(b, e, {}, {}) /\ Parted(b, e, {c})
    BY <1>5, <1>7, StopIfFightingGood
  <2> QED
    BY <1>7, <2>1 DEF Quiet, Keeps, Parted
<1> HIDE DEF e
<1>9. Same(f)
  <2>1. Good(f, {}) /\ Quiet(e, f, {}, {}) /\ Turns(e, f, c, t)
    BY <1>3, <1>4, <1>8, SetFightingGood DEF Present
  <2> QED
    BY <1>8, <2>1 DEF Quiet, Keeps, Turns
<1> HIDE DEF f
<1>10. Same(SetFighting(f, t, c))
  <2>1. /\ Good(SetFighting(f, t, c), {}) /\ Quiet(f, SetFighting(f, t, c), {}, {})
        /\ Turns(f, SetFighting(f, t, c), t, c)
    BY <1>3, <1>4, <1>9, SetFightingGood DEF Present
  <2> QED
    BY <1>9, <2>1 DEF Quiet, Keeps, Turns
<1>11. w' = SetFighting(f, t, c)
  BY <1>1 DEF Rescued, a, b, e, f
<1> QED
  BY <1>1, <1>2, <1>10, <1>11, CommandSound

(* do_flee.                                                                *)
LEMMA DoFleeSound ==
  ASSUME Inv, NEW c \in Char, DoFlee(c)
  PROVE  Inv'
<1>1. Command /\ w' \in Flee(w, c)
  BY DEF DoFlee
<1>2. Good(w, {}) /\ w.cursor = NoOne /\ (Mishap = {} => ~w.freedUse)
  BY <1>1, CommandStart
<1>3. Good(w', {}) /\ Quiet(w, w', {}, {})
  BY <1>1, <1>2, FleeGood
<1> QED
  BY <1>1, <1>2, <1>3, CommandSound DEF Quiet, Keeps

(* do_retreat, which ends both fights.                                     *)
LEMMA DoRetreatSound ==
  ASSUME Inv, NEW c \in Char, DoRetreat(c)
  PROVE  Inv'
<1>1. Command /\ \E u \in {w} \cup Steps(w, c) : w' = Disengaged(u, c)
  BY DEF DoRetreat
<1>2. Good(w, {}) /\ w.cursor = NoOne /\ (Mishap = {} => ~w.freedUse)
  BY <1>1, CommandStart
<1>3. PICK u \in {w} \cup Steps(w, c) : w' = Disengaged(u, c)
  BY <1>1
<1>4. Good(u, {}) /\ Quiet(w, u, {}, {})
  BY <1>2, StepsGood, KeepsItself
<1> DEFINE d == u.fighting[c]
           a == IF d # NoOne /\ u.fighting[d] = c THEN StopFighting(u, d) ELSE u
<1>5. Good(a, {}) /\ Quiet(u, a, {}, {})
  <2>1. CASE d # NoOne
    <3>1. d \in Char
      BY <1>4, <2>1 DEF Good, Whole, World
    <3>2. {d} \in SUBSET Char /\ {} \ {d} = {}
      BY <3>1
    <3> HIDE DEF d
    <3>3. Good(StopAll(u, {d}), {}) /\ Quiet(u, StopAll(u, {d}), {}, {})
      BY <1>4, <3>2, StopAllGood
    <3> QED
      BY <1>4, <3>3, KeepsItself DEF StopFighting
  <2>2. CASE d = NoOne
    BY <1>4, <2>2, KeepsItself
  <2> QED
    BY <2>1, <2>2
<1>6. w' = StopAll(a, {c})
  BY <1>3 DEF Disengaged, StopFighting
<1> HIDE DEF a
<1>7. Good(w', {}) /\ Quiet(a, w', {}, {})
  <2>1. {c} \in SUBSET Char /\ {} \ {c} = {}
    OBVIOUS
  <2> QED
    BY <1>5, <1>6, <2>1, StopAllGood
<1> QED
  BY <1>1, <1>2, <1>4, <1>5, <1>7, CommandSound DEF Quiet, Keeps

(* do_stand, do_sit, do_sleep, do_wake: who can change position is not     *)
(* stunned.                                                                *)
LEMMA DoPositionSound ==
  ASSUME Inv, NEW c \in Char, DoPosition(c)
  PROVE  Inv'
<1>1. Command
  BY DEF DoPosition
<1>2. Good(w, {}) /\ w.cursor = NoOne /\ (Mishap = {} => ~w.freedUse)
  BY <1>1, CommandStart
<1>3. PICK p \in SLEEPING..STANDING : w' = [w EXCEPT !.pos[c] = p] /\ w.pos[c] > STUNNED
  BY DEF DoPosition, SITTING, STANDING, SLEEPING, STUNNED
<1>4. Mishap = {} => w.health[c] > STUNNED
  BY <1>2, <1>3, UpIsAble
<1>5. Good(w', {}) /\ Quiet(w, w', {}, {})
  BY <1>2, <1>3, <1>4, PostureGood
<1> QED
  BY <1>1, <1>2, <1>5, CommandSound DEF Quiet, Keeps

(* Hit points and position are set together, whether or not update_pos is  *)
(* called.                                                                 *)
LEMMA ConditionIs ==
  ASSUME NEW v \in World, NEW c \in Char, NEW h \in Band
  PROVE  /\ UpdatePos([v EXCEPT !.health[c] = h], c)
              = Condition(v, c, h, UpdatedPos(h, v.pos[c]))
         /\ [v EXCEPT !.health[c] = h] = Condition(v, c, h, v.pos[c])
         /\ [v EXCEPT !.health[c] = h].pos = v.pos
BY DEF UpdatePos, Condition, World

(* point_update: who is up keeps his feet, whoever is not gets update_pos. *)
LEMMA DrainedGood ==
  ASSUME NEW v, Good(v, {}), NEW c \in Char, NEW floor, NEW d \in Drained(v, c, floor),
         NEW u, u = IF d.pos[c] <= STUNNED THEN UpdatePos(d, c) ELSE d
  PROVE  Good(u, {}) /\ Quiet(v, u, {c}, {})
<1>1. PICK h \in Worse(v, c) : /\ d = [v EXCEPT !.health[c] = h]
                               /\ v.health[c] > STUNNED => h > STUNNED \/ "drown" \in Mishap
  BY DEF Drained
<1>2. v \in World /\ v.health[c] \in Int /\ v.pos[c] \in DEAD..STANDING /\ v.pos[c] \in Int
  BY DEF Good, Whole, World, Band
<1>3. h \in Band /\ h \in Int
  BY <1>2, BlowsHurt DEF Band
<1>4. /\ UpdatePos(d, c) = Condition(v, c, h, UpdatedPos(h, v.pos[c]))
      /\ d = Condition(v, c, h, v.pos[c]) /\ d.pos[c] = v.pos[c]
  BY <1>1, <1>2, <1>3, ConditionIs
<1>5. {} \subseteq {} \cup {c}
  OBVIOUS
<1>6. CASE v.pos[c] <= STUNNED
  <2> DEFINE p == UpdatedPos(h, v.pos[c])
  <2>1. p \in DEAD..STANDING /\ (h <= STUNNED => p = h)
    BY <1>2, <1>3, UpdatedPosFacts
  <2>2. Mishap = {} => v.fighting[c] = NoOne
    BY <1>2, <1>6 DEF Good, Whole, Down, STUNNED
  <2>3. u = Condition(v, c, h, p)
    BY <1>4, <1>6
  <2> HIDE DEF p
  <2>4. h <= STUNNED => p <= STUNNED
    BY <2>1, <1>3
  <2> QED
    BY <1>3, <1>5, <2>1, <2>2, <2>3, <2>4, ConditionGood
<1>7. CASE ~(v.pos[c] <= STUNNED)
  <2>1. u = Condition(v, c, h, v.pos[c])
    BY <1>4, <1>7
  <2>2. v.pos[c] > STUNNED
    BY <1>2, <1>7 DEF STUNNED
  <2>3. Mishap = {} => h > STUNNED
    BY <1>1, <2>2, UpIsAble
  <2>4. Mishap = {} => (h <= STUNNED => v.pos[c] <= STUNNED)
    BY <1>3, <2>3 DEF STUNNED
  <2> QED
    BY <1>2, <1>3, <1>5, <2>1, <2>2, <2>4, ConditionGood
<1> QED
  BY <1>6, <1>7

(* point_update: who gains, is afflicted and drained may be gone halfway.  *)
LEMMA PointUpdateSound ==
  ASSUME Inv, NEW c \in Char, PointUpdate(c)
  PROVE  Inv'
<1>1. Command /\ Present(w, c)
  BY DEF PointUpdate
<1>2. Good(w, {}) /\ w.cursor = NoOne /\ (Mishap = {} => ~w.freedUse)
  BY <1>1, CommandStart
<1>3. PICK g \in Gained(w, c) : \E a \in Afflicted(g, c) :
        IF ~Present(a, c) THEN w' = a
        ELSE \E d \in Drained(a, c, Floor(w, c)) :
               w' = IF d.pos[c] <= STUNNED THEN UpdatePos(d, c) ELSE d
  BY DEF PointUpdate
<1>4. PICK a \in Afflicted(g, c) :
        IF ~Present(a, c) THEN w' = a
        ELSE \E d \in Drained(a, c, Floor(w, c)) :
               w' = IF d.pos[c] <= STUNNED THEN UpdatePos(d, c) ELSE d
  BY <1>3
<1>5. Good(g, {}) /\ Quiet(w, g, {}, {})
  <2>1. PICK h \in Better(w, c) : g = [w EXCEPT !.health[c] = h]
    BY DEF Gained
  <2>2. h \in Band /\ h >= w.health[c]
    BY <1>2, BlowsHurt DEF Good, Whole
  <2> QED
    BY <1>2, <2>1, <2>2, RaisedGood
<1>6. g.cursor = NoOne /\ (Mishap = {} => ~g.freedUse) /\ Present(g, c)
  BY <1>1, <1>2, <1>5 DEF Quiet, Keeps
<1>7. Good(a, {}) /\ a.cursor = NoOne /\ (Mishap = {} => ~a.freedUse)
  <2>1. CASE a = g
    BY <1>5, <1>6, <2>1
  <2>2. CASE /\ a \in Worlds(Spell(g, c, c))
             /\ a.freedUse => g.freedUse \/ "affliction" \in Mishap
    <3>1. PICK x \in Spell(g, c, c) : a = x.world
      BY <2>2 DEF Worlds
    <3>2. Good(x.world, {}) /\ Keeps(g, x.world, Char, {c, c} \cap Mob)
      BY <1>5, <1>6, SpellGood
    <3> QED
      BY <1>6, <2>2, <3>1, <3>2 DEF Keeps
  <2> QED
    BY <2>1, <2>2 DEF Afflicted
<1>8. CASE w' = a
  BY <1>1, <1>7, <1>8, CommandSound
<1>9. CASE \E d \in Drained(a, c, Floor(w, c)) :
             w' = IF d.pos[c] <= STUNNED THEN UpdatePos(d, c) ELSE d
  <2>1. PICK d \in Drained(a, c, Floor(w, c)) :
          w' = IF d.pos[c] <= STUNNED THEN UpdatePos(d, c) ELSE d
    BY <1>9
  <2>2. Good(w', {}) /\ Quiet(a, w', {c}, {})
    BY <1>7, <2>1, DrainedGood
  <2> QED
    BY <1>1, <1>7, <2>2, CommandSound DEF Quiet, Keeps
<1> QED
  BY <1>4, <1>8, <1>9

(* do_move: pets that do not fight follow, and a mob may pounce.           *)
LEMMA LedGood ==
  ASSUME NEW v, Good(v, {}), NEW c \in Char, NEW r \in Room
  PROVE  Good(Led(v, c, r), {}) /\ Quiet(v, Led(v, c, r), {}, {})
<1> DEFINE a == MoveTo(v, c, r)
           B == Pets(v, c, v.room[c])
           R == [x \in Char |-> IF x \in B THEN r ELSE a.room[x]]
           u == [a EXCEPT !.room = R]
<1>1. Good(a, {} \ {c}) /\ Quiet(v, a, {}, {}) /\ Moved(v, a, c, r) /\ {} \ {c} = {}
  BY MoveToGood
<1>2. \A x \in B : a.fighting[x] = NoOne
  BY <1>1 DEF Pets, Moved, Char
<1>3. Led(v, c, r) = u
  BY DEF Led
<1> HIDE DEF a, B
<1>4. a \in World /\ r \in Room \cup {Nowhere} /\ r # Nowhere
  BY <1>1, Sorts DEF Good, Whole
<1>5. R \in [Char -> Room \cup {Nowhere}] /\ \A x \in Char : R[x] = IF x \in B THEN r ELSE a.room[x]
  BY <1>4 DEF World
<1> HIDE DEF R
<1>6. /\ u \in World /\ SameFights(a, u) /\ u.room = R
      /\ u.health = a.health /\ u.pos = a.pos /\ u.freedUse = a.freedUse
  BY <1>4, <1>5 DEF World, SameFights
<1> HIDE DEF u
<1>7. \A x \in Char : Present(a, x) => Present(u, x)
  BY <1>4, <1>5, <1>6 DEF Present
<1>8. Facing(u)
  <2>1. ASSUME NEW x \in Char, u.fighting[x] # NoOne
        PROVE  Present(u, x) /\ Present(u, u.fighting[x])
    <3>1. a.fighting[x] \in Char /\ Present(a, x) /\ Present(a, a.fighting[x])
          /\ u.fighting[x] = a.fighting[x]
      BY <2>1, <1>1, <1>4, <1>6 DEF Good, Whole, Facing, World, SameFights
    <3> QED
      BY <3>1, <1>7
  <2> QED
    BY <2>1 DEF Facing
<1>9. Calm(u)
  BY <1>1, <1>2, <1>5, <1>6 DEF Good, Whole, Calm, SameFights
<1>10. Mishap = {} => Down(u, {})
  BY <1>1, <1>6 DEF Good, Whole, Down, SameFights
<1>11. Good(u, {})
  BY <1>1, <1>6, <1>8, <1>9, <1>10, GoodFrame DEF SameFights
<1>12. Quiet(v, u, {}, {})
  BY <1>1, <1>6, <1>7 DEF Quiet, Keeps, Able, Alive, SameFights
<1> QED
  BY <1>3, <1>11, <1>12

(* perform_move, with the pets that follow and the mob that pounces.       *)
LEMMA WalkSound ==
  ASSUME Inv, NEW c \in Char, NEW r \in Room, Walk(c, r)
  PROVE  Inv'
<1>1. /\ Command
      /\ w' \in IF c \in Player THEN Pounced(Led(w, c, r), r) ELSE {MoveTo(w, c, r)}
  BY DEF Walk
<1>2. Good(w, {}) /\ w.cursor = NoOne /\ (Mishap = {} => ~w.freedUse)
  BY <1>1, CommandStart
<1>3. CASE w' = MoveTo(w, c, r)
  <2>1. Good(w', {} \ {c}) /\ Quiet(w, w', {}, {}) /\ {} \ {c} = {}
    BY <1>2, <1>3, MoveToGood
  <2> QED
    BY <1>1, <1>2, <2>1, CommandSound DEF Quiet, Keeps
<1>4. CASE w' \in Pounced(Led(w, c, r), r)
  <2> DEFINE v == Led(w, c, r)
  <2>1. Good(v, {}) /\ v.cursor = NoOne /\ (Mishap = {} => ~v.freedUse)
    BY <1>2, LedGood DEF Quiet, Keeps
  <2> HIDE DEF v
  <2>2. CASE w' = v
    BY <1>1, <2>1, <2>2, CommandSound
  <2>3. CASE \E m \in Mob \cap People(v, r), p \in Player \cap People(v, r) :
               (v.pos[m] > STUNNED \/ "stunned" \in Mishap) /\ w' \in Hit(v, m, p)
    <3>1. PICK m \in Mob \cap People(v, r), p \in Player \cap People(v, r) :
            (v.pos[m] > STUNNED \/ "stunned" \in Mishap) /\ w' \in Hit(v, m, p)
      BY <2>3
    <3>2. m \in Char /\ p \in Char /\ m # p /\ Present(v, m) /\ Present(v, p)
      BY <3>1, Sorts DEF People, Present
    <3>3. Mishap = {} => Deals(v, m, p)
      BY <2>1, <3>1, <3>2, UpIsAble DEF Deals
    <3>4. /\ Good(w', {}) /\ Keeps(v, w', Char, {m, p} \cap Mob)
          /\ Mishap = {} /\ Deals(v, m, p) => Present(w', m) /\ w'.freedUse = v.freedUse
      BY <2>1, <3>1, <3>2, HitGood
    <3> QED
      BY <1>1, <2>1, <3>3, <3>4, CommandSound DEF Keeps
  <2>4. w' \in Pounced(v, r)
    BY <1>4 DEF v
  <2> QED
    BY <2>2, <2>3, <2>4 DEF Pounced
<1> QED
  BY <1>1, <1>3, <1>4

(* A character enters the game, fighting nobody.                           *)
LEMMA EnterSound ==
  ASSUME Inv, NEW c \in Char, NEW r \in Room, Enter(c, r)
  PROVE  Inv'
<1>1. Command /\ ~Present(w, c) /\ w' = CharToRoom(w, c, r)
  BY DEF Enter
<1>2. Good(w, {}) /\ w.cursor = NoOne /\ (Mishap = {} => ~w.freedUse)
  BY <1>1, CommandStart
<1>3. w.fighting[c] = NoOne
  BY <1>1, <1>2 DEF Good, Whole, Facing
<1>4. w' = [w EXCEPT !.room[c] = r]
  <2> DEFINE u == [w EXCEPT !.room[c] = r]
  <2>1. u.fighting[c] = NoOne
    BY <1>2, <1>3 DEF Good, Whole, World
  <2> HIDE DEF u
  <2> QED
    BY <1>1, <2>1 DEF CharToRoom, u
<1>5. Good(w', {}) /\ Quiet(w, w', {}, {})
  BY <1>2, <1>3, <1>4, PutGood, Sorts
<1> QED
  BY <1>1, <1>2, <1>5, CommandSound DEF Quiet, Keeps

(* SPELL_SLEEP: the sleeper is not stunned and may go on fighting.         *)
LEMMA CastSleepSound ==
  ASSUME Inv, NEW c \in Char, NEW d \in Char, CastSleep(c, d)
  PROVE  Inv'
<1>1. Command /\ w.pos[d] > SLEEPING /\ w' = [w EXCEPT !.pos[d] = SLEEPING]
  BY DEF CastSleep
<1>2. Good(w, {}) /\ w.cursor = NoOne /\ (Mishap = {} => ~w.freedUse)
  BY <1>1, CommandStart
<1>3. w.pos[d] > STUNNED /\ SLEEPING \in SLEEPING..STANDING
  <2>1. w.pos[d] \in Int
    BY <1>2 DEF Good, Whole, World
  <2> QED
    BY <1>1, <2>1 DEF SLEEPING, STUNNED, STANDING
<1>4. Mishap = {} => w.health[d] > STUNNED
  BY <1>2, <1>3, UpIsAble
<1>5. Good(w', {}) /\ Quiet(w, w', {}, {})
  BY <1>1, <1>2, <1>3, <1>4, PostureGood
<1> QED
  BY <1>1, <1>2, <1>5, CommandSound DEF Quiet, Keeps

(* mag_points.                                                             *)
LEMMA CastHealSound ==
  ASSUME Inv, NEW c \in Char, NEW d \in Char, CastHeal(c, d)
  PROVE  Inv'
<1>1. Command /\ \E h \in Better(w, d) : w' = Healed(w, d, h)
  BY DEF CastHeal
<1>2. Good(w, {}) /\ w.cursor = NoOne /\ (Mishap = {} => ~w.freedUse)
  BY <1>1, CommandStart
<1>3. PICK h \in Better(w, d) : w' = Healed(w, d, h)
  BY <1>1
<1>4. w \in World /\ h \in Band /\ w.health[d] \in Int /\ h >= w.health[d]
      /\ w.pos[d] \in DEAD..STANDING /\ w.pos[d] \in Int
  BY <1>2, BlowsHurt DEF Good, Whole, World, Band
<1> DEFINE p == UpdatedPos(h, w.pos[d])
<1>5. p \in DEAD..STANDING /\ (h <= STUNNED => p = h) /\ (h > STUNNED => p > STUNNED)
  BY <1>4, UpdatedPosFacts
<1>6. w' = Condition(w, d, h, p)
  BY <1>3, <1>4, ConditionIs DEF Healed
<1> HIDE DEF p
<1>7. Mishap = {} => w.fighting[d] = NoOne \/ p > STUNNED
  <2>1. ASSUME Mishap = {}, w.fighting[d] # NoOne
        PROVE  p > STUNNED
    <3>1. w.health[d] > STUNNED
      BY <1>2, <2>1, UpIsAble DEF Good, Whole, Down
    <3>2. h > STUNNED
      BY <1>4, <3>1 DEF Band, STUNNED
    <3> QED
      BY <1>5, <3>2
  <2> QED
    BY <2>1
<1>8. {} \subseteq {} \cup {d} /\ (h <= STUNNED => p <= STUNNED)
  BY <1>4, <1>5
<1>9. Good(w', {}) /\ Quiet(w, w', {d}, {})
  BY <1>2, <1>4, <1>5, <1>6, <1>7, <1>8, ConditionGood
<1> QED
  BY <1>1, <1>2, <1>9, CommandSound DEF Quiet, Keeps

(* Recall, the idle player's void, the way back from it, divine forces.    *)
LEMMA CarriedSound ==
  ASSUME Inv, Command, NEW v, Good(v, {}), v.cursor = NoOne, v.freedUse = w.freedUse,
         NEW c \in Char, NEW r \in Room, w' = MoveTo(v, c, r)
  PROVE  Inv'
<1>1. Good(w, {}) /\ w.cursor = NoOne /\ (Mishap = {} => ~w.freedUse)
  BY CommandStart
<1>2. Good(w', {} \ {c}) /\ Quiet(v, w', {}, {}) /\ {} \ {c} = {}
  BY MoveToGood
<1> QED
  BY <1>1, <1>2, CommandSound DEF Quiet, Keeps

(* check_idling: both fights end, then the player is moved.                *)
LEMMA IdleVoidSound ==
  ASSUME Inv, NEW p \in Player, IdleVoid(p)
  PROVE  Inv'
<1> DEFINE d == w.fighting[p]
           a == IF d # NoOne THEN StopFighting(StopFighting(w, d), p) ELSE w
<1>1. Command /\ w' = MoveTo(a, p, VoidRoom) /\ p \in Char
  BY DEF IdleVoid, Char
<1>2. Good(w, {}) /\ w.cursor = NoOne /\ (Mishap = {} => ~w.freedUse)
  BY <1>1, CommandStart
<1>3. Good(a, {}) /\ Quiet(w, a, {}, {})
  <2>1. CASE d = NoOne
    BY <1>2, <2>1, KeepsItself
  <2>2. CASE d # NoOne
    <3>1. d \in Char
      BY <1>2, <1>1, <2>2 DEF Good, Whole, World
    <3> HIDE DEF d
    <3> DEFINE b == StopAll(w, {d})
    <3>2. {d} \in SUBSET Char /\ {} \ {d} = {} /\ {p} \in SUBSET Char /\ {} \ {p} = {}
      BY <1>1, <3>1
    <3>3. Good(b, {}) /\ Quiet(w, b, {}, {})
      BY <1>2, <3>2, StopAllGood
    <3> HIDE DEF b
    <3>4. Good(StopAll(b, {p}), {}) /\ Quiet(b, StopAll(b, {p}), {}, {})
      BY <3>2, <3>3, StopAllGood
    <3>5. a = StopAll(b, {p})
      BY <2>2 DEF StopFighting, b
    <3> HIDE DEF a
    <3> QED
      BY <3>3, <3>4, <3>5 DEF Quiet, Keeps
  <2> QED
    BY <2>1, <2>2
<1> HIDE DEF a
<1>4. a.cursor = NoOne /\ a.freedUse = w.freedUse
  BY <1>2, <1>3 DEF Quiet, Keeps
<1> QED
  BY <1>1, <1>3, <1>4, CarriedSound, Sorts

(* Charming, setting free, losing a link: no fight is touched.             *)
LEMMA MasterSound ==
  ASSUME Inv, Command, NEW m \in Mob, NEW p \in Player \cup {NoOne},
         w' = [w EXCEPT !.master[m] = p]
  PROVE  Inv'
<1>1. Good(w, {}) /\ w.cursor = NoOne /\ (Mishap = {} => ~w.freedUse)
  BY CommandStart
<1> DEFINE f == [w.master EXCEPT ![m] = p]
<1>2. f \in [Mob -> Player \cup {NoOne}] /\ w' = [w EXCEPT !.master = f]
  BY <1>1 DEF Good, Whole, World
<1> HIDE DEF f
<1>3. Good(w', {}) /\ Quiet(w, w', {}, {})
  BY <1>1, <1>2, MasterGood
<1> QED
  BY <1>1, <1>3, CommandSound DEF Quiet, Keeps

(* A link is lost or taken up.                                             *)
LEMMA LinkChangesSound ==
  ASSUME Inv, NEW p \in Player, LinkChanges(p)
  PROVE  Inv'
<1>1. Command
  BY DEF LinkChanges
<1>2. Good(w, {}) /\ w.cursor = NoOne /\ (Mishap = {} => ~w.freedUse)
  BY <1>1, CommandStart
<1>3. /\ w' \in World /\ SameFights(w, w')
      /\ w'.room = w.room /\ w'.health = w.health /\ w'.pos = w.pos /\ w'.freedUse = w.freedUse
  BY <1>2 DEF LinkChanges, Good, Whole, World, SameFights
<1>4. Good(w', {}) /\ Keeps(w, w', {}, {})
  BY <1>2, <1>3, AsideGood
<1> QED
  BY <1>1, <1>2, <1>3, <1>4, CommandSound DEF Keeps

(* mobile_activity: the mob is awake, and strikes who is here or whom an   *)
(* ally fights.                                                            *)
LEMMA MobileActivitySound ==
  ASSUME Inv, NEW m \in Mob, MobileActivity(m)
  PROVE  Inv'
<1>1. Command /\ Present(w, m) /\ w.pos[m] > SLEEPING /\ m \in Char
  BY DEF MobileActivity, Char
<1>2. Good(w, {}) /\ w.cursor = NoOne /\ (Mishap = {} => ~w.freedUse)
  BY <1>1, CommandStart
<1>3. PICK d \in (Player \cap People(w, w.room[m])) \cup AllysFoes(w, m) : w' \in Hit(w, m, d)
  BY DEF MobileActivity
<1>4. d \in Player /\ d \in Char /\ Present(w, d) /\ d # m
  <2>1. d \in Player
    BY <1>3 DEF AllysFoes
  <2>2. d \in People(w, w.room[m]) => Present(w, d)
    BY <1>1 DEF People, Present
  <2>3. d \in AllysFoes(w, m) => Present(w, d)
    <3> SUFFICES ASSUME d \in AllysFoes(w, m)
                 PROVE  Present(w, d)
      OBVIOUS
    <3>1. PICK x \in Mob : w.fighting[x] = d /\ x \in Char
      BY DEF AllysFoes, Char
    <3> QED
      BY <2>1, <3>1, <1>2, Sorts DEF Good, Whole, Facing, Char
  <2> QED
    BY <1>3, <2>1, <2>2, <2>3, Sorts DEF Char
<1>5. Mishap = {} => Deals(w, m, d)
  <2>1. w.pos[m] \in Int
    BY <1>1, <1>2 DEF Good, Whole, World
  <2>2. w.pos[m] > STUNNED
    BY <1>1, <2>1 DEF SLEEPING, STUNNED
  <2> QED
    BY <1>1, <1>2, <1>4, <2>2, UpIsAble DEF Deals
<1>6. /\ Good(w', {}) /\ Keeps(w, w', Char, {m, d} \cap Mob)
      /\ Mishap = {} /\ Deals(w, m, d) => Present(w', m) /\ w'.freedUse = w.freedUse
  BY <1>1, <1>2, <1>3, <1>4, HitGood
<1> QED
  BY <1>1, <1>2, <1>5, <1>6, CommandSound DEF Keeps

(* do_peace.                                                               *)
LEMMA DoPeaceSound ==
  ASSUME Inv, NEW r \in Room, DoPeace(r)
  PROVE  Inv'
<1>1. Command /\ \E S \in SUBSET Char : w' = StopAll(w, S)
  BY DEF DoPeace, People
<1>2. Good(w, {}) /\ w.cursor = NoOne /\ (Mishap = {} => ~w.freedUse)
  BY <1>1, CommandStart
<1>3. PICK S \in SUBSET Char : w' = StopAll(w, S)
  BY <1>1
<1>4. Good(w', {} \ S) /\ Quiet(w, w', {}, {}) /\ {} \ S = {}
  BY <1>2, <1>3, StopAllGood
<1> QED
  BY <1>1, <1>2, <1>4, CommandSound DEF Quiet, Keeps

(* Commands of two and more characters.                                    *)
LEMMA FightsSound ==
  ASSUME Inv, Fights
  PROVE  Inv'
<1>1. PICK c \in Char, d \in Char :
        \/ DoHit(c, d) \/ DoAssist(c, d) \/ DoKick(c, d) \/ DoBackstab(c, d)
        \/ DoBash(c, d) \/ DoDecapitate(c, d) \/ Shoot(c, d)
        \/ \E t \in Char : DoRescue(c, d, t)
  BY DEF Fights
<1>2. CASE DoDecapitate(c, d)
  BY <1>2, KillSound DEF DoDecapitate
<1>3. CASE \E t \in Char : DoRescue(c, d, t)
  BY <1>3, DoRescueSound
<1> QED
  BY <1>1, <1>2, <1>3, DoHitSound, DoAssistSound, DoKickSound, DoBackstabSound, DoBashSound,
     ShootSound

(* Coming, going and getting up.                                           *)
LEMMA MovesSound ==
  ASSUME Inv, Moves
  PROVE  Inv'
BY DoFleeSound, DoRetreatSound, DoPositionSound, PointUpdateSound, WalkSound, EnterSound
   DEF Moves

(* Spells without a blow.                                                  *)
LEMMA MagicSound ==
  ASSUME Inv, Magic, ~\E c \in Char : CastArea(c)
  PROVE  Inv'
<1>1. CASE \E c, d \in Char : CastSleep(c, d) \/ CastHeal(c, d)
  BY <1>1, CastSleepSound, CastHealSound
<1>2. CASE \E c \in Char, p \in Player : CastRecall(c, p)
  <2>1. PICK p \in Player : Command /\ w' = MoveTo(w, p, StartRoom)
    BY <1>2 DEF CastRecall
  <2> QED
    BY <2>1, CommandStart, CarriedSound, Sorts DEF Char
<1>3. CASE \E m \in Mob : Uncharm(m) \/ \E p \in Player : Charm(p, m)
  BY <1>3, MasterSound DEF Uncharm, Charm
<1> QED
  BY <1>1, <1>2, <1>3 DEF Magic

(* Players, gods and mobs.                                                 *)
LEMMA OthersSound ==
  ASSUME Inv, Others, ~\E r \in Room : TickGrenade(r)
  PROVE  Inv'
<1>1. CASE \E p \in Player : DoRecall(p)
  BY <1>1, CommandStart, CarriedSound, Sorts DEF DoRecall, Char
<1>2. CASE \E p \in Player : DoQuit(p)
  BY <1>2, KillSound, ExtractSound DEF DoQuit, Char
<1>3. CASE \E p \in Player : LinkChanges(p) \/ IdleVoid(p)
  BY <1>3, LinkChangesSound, IdleVoidSound
<1>4. CASE \E p \in Player : ReturnFromVoid(p)
  <2>1. PICK p \in Player, r \in Room : Command /\ w' = MoveTo(w, p, r)
    BY <1>4 DEF ReturnFromVoid
  <2> QED
    BY <2>1, CommandStart, CarriedSound DEF Char
<1>5. CASE \E m \in Mob : MobileActivity(m) \/ Purge(m)
  BY <1>5, MobileActivitySound, ExtractSound DEF Purge, Char
<1>6. CASE \E c \in Char : Slay(c)
  BY <1>6, KillSound DEF Slay
<1>7. CASE \E r \in Room : DoPeace(r)
  BY <1>7, DoPeaceSound
<1> QED
  BY <1>1, <1>2, <1>3, <1>4, <1>5, <1>6, <1>7 DEF Others

-----------------------------------------------------------------------------
(* Jobs: the loops of several steps.                                       *)
LEMMA WorldOfJob ==
  ASSUME Inv, job.op # "turn"
  PROVE  Good(w, {}) /\ job \in Job /\ (Mishap = {} => ~w.freedUse)
BY DEF Inv, JobSound, Good

(* The loop of mag_areas begins: everyone in it is in the room of the      *)
(* caster.                                                                 *)
LEMMA CastAreaSound ==
  ASSUME Inv, NEW c \in Char, CastArea(c)
  PROVE  Inv'
<1>1. job = Idle /\ w' = w /\ Present(w, c)
  BY DEF CastArea
<1>2. PICK n \in People(w, w.room[c]) :
        job' = [Idle EXCEPT !.op = "area", !.who = c, !.next = n, !.room = w.room[c],
                            !.rest = People(w, w.room[c]) \ {n}]
  BY DEF CastArea
<1>3. /\ job.op = "idle" /\ Whole(w, {}) /\ OnTurn(w) /\ w.cursor = NoOne
      /\ Mishap = {} => ~w.freedUse
  BY <1>1 DEF Inv, JobSound, Idle
<1>4. /\ job'.op = "area" /\ job'.who = c /\ job'.next = n /\ job'.room = w.room[c]
      /\ job'.rest = People(w, w.room[c]) \ {n} /\ job'.left = 0
      /\ job' = [op |-> "area", who |-> c, next |-> n, room |-> w.room[c], left |-> 0,
                 rest |-> People(w, w.room[c]) \ {n}]
  BY <1>2 DEF Idle
<1>5. /\ n \in Char /\ Present(w, n) /\ People(w, w.room[c]) \subseteq Char
      /\ \A x \in People(w, w.room[c]) : Present(w, x)
      /\ w.room[c] \in Room \cup {Nowhere}
  BY <1>1, <1>3 DEF People, Present, Whole, World
<1>6. job' \in Job
  BY <1>4, <1>5, Sorts DEF Job
<1>7. JobSound'
  BY <1>1, <1>3, <1>4, <1>5, <1>6 DEF JobSound
<1> QED
  BY <1>1, <1>3, <1>7 DEF Inv

(* The loop of tick_grenade begins.                                        *)
LEMMA TickGrenadeSound ==
  ASSUME Inv, NEW r \in Room, TickGrenade(r)
  PROVE  Inv'
<1>1. /\ job = Idle /\ w' = w
      /\ "grenade" \in Mishap \/ \A c \in People(w, r) : w.fighting[c] = NoOne
      /\ job' = [Idle EXCEPT !.op = "blast", !.room = r, !.rest = People(w, r)]
  BY DEF TickGrenade
<1>2. /\ Whole(w, {}) /\ OnTurn(w) /\ w.cursor = NoOne
      /\ Mishap = {} => ~w.freedUse
  BY <1>1 DEF Inv, JobSound, Idle
<1>3. /\ job'.op = "blast" /\ job'.rest = People(w, r)
      /\ job' = [op |-> "blast", who |-> NoOne, next |-> NoOne, room |-> r, left |-> 0,
                 rest |-> People(w, r)]
  BY <1>1 DEF Idle
<1>4. People(w, r) \subseteq Char
  BY DEF People
<1>5. job' \in Job
  BY <1>3, <1>4, Sorts DEF Job
<1>6. JobSound'
  BY <1>1, <1>2, <1>3, <1>5 DEF JobSound
<1> QED
  BY <1>1, <1>2, <1>6 DEF Inv

(* The loop of mag_areas: everyone it has not reached is in the game, and  *)
(* so is the caster.                                                       *)
LEMMA AreaHitSound ==
  ASSUME Inv, AreaHit
  PROVE  Inv'
<1> DEFINE c == job.who
           d == job.next
           rest == AreaRest(w, d)
           t == Touch(w, d)
<1>1. /\ job.op = "area"
      /\ job' \in IF rest = {} THEN {Idle}
                  ELSE {[job EXCEPT !.next = n, !.room = w.room[d], !.rest = rest \ {n}] :
                          n \in rest}
      /\ \/ Spared(w, c, d) /\ w' = w
         \/ /\ ~Spared(w, c, d)
            /\ w' \in {Touch(u, c) : u \in Worlds(Spell(t, c, d))}
  BY DEF AreaHit
<1>2. Good(w, {}) /\ job \in Job /\ (Mishap = {} => ~w.freedUse)
  BY <1>1, WorldOfJob
<1>3. /\ c \in Char /\ d \in Char /\ d \notin job.rest /\ w.cursor = NoOne
      /\ \A x \in job.rest \cup {d} : x # c => Present(w, x)
      /\ Mishap = {} => Present(w, c)
  BY <1>1 DEF Inv, JobSound
<1>4. d \notin rest /\ rest \in SUBSET Char /\ \A x \in rest : Present(w, x)
  BY <1>2, <1>3 DEF AreaRest, People, Present, Job
<1>5. w.room[d] \in Room \cup {Nowhere}
  BY <1>2, <1>3 DEF Good, Whole, World
<1> HIDE DEF rest
<1>6. /\ Good(w', {}) /\ w'.cursor = NoOne /\ (Mishap = {} => ~w'.freedUse)
      /\ \A x \in rest : x # c => Present(w', x)
      /\ Mishap = {} => Present(w', c)
  <2>1. CASE w' = w
    BY <2>1, <1>2, <1>3, <1>4
  <2>2. CASE ~Spared(w, c, d) /\ w' \in {Touch(u, c) : u \in Worlds(Spell(t, c, d))}
    <3>1. c # d /\ Present(w, d)
      BY <1>3, <2>2 DEF Spared
    <3>2. Good(t, {}) /\ Keeps(w, t, {}, {}) /\ t.freedUse = w.freedUse
      BY <1>2, <1>3, <3>1, TouchGood
    <3> HIDE DEF t, c, d
    <3>3. PICK y \in Worlds(Spell(t, c, d)) : w' = Touch(y, c)
      BY <2>2
    <3>4. Present(t, d) /\ (Mishap = {} => Present(t, c))
      BY <1>3, <3>1, <3>2 DEF Keeps
    <3>5. /\ Good(y, {}) /\ Keeps(t, y, Char, {c, d} \cap Mob)
          /\ Mishap = {} => Present(y, c) /\ y.freedUse = t.freedUse
      BY <1>3, <3>1, <3>2, <3>3, <3>4, SpellKeeps
    <3>9. /\ Good(w', {}) /\ Keeps(y, w', {}, {})
          /\ c \in Player \/ Present(y, c) => w'.freedUse = y.freedUse
      BY <1>3, <3>3, <3>5, TouchGood
    <3>10. \A x1 \in rest : x1 # c => Present(w', x1)
      BY <1>4, <3>2, <3>5, <3>9 DEF Keeps
    <3> QED
      BY <1>2, <1>3, <3>2, <3>5, <3>9, <3>10 DEF Keeps
  <2> QED
    BY <1>1, <2>1, <2>2
<1> HIDE DEF c, d
<1>7. CASE job' = Idle
  <2>1. JobSound'
    BY <1>6, <1>7, IdleJob DEF JobSound, Good, Idle
  <2> QED
    BY <1>6, <2>1 DEF Inv, Good
<1>8. CASE \E n \in rest : job' = [job EXCEPT !.next = n, !.room = w.room[d], !.rest = rest \ {n}]
  <2>1. PICK n \in rest : job' = [job EXCEPT !.next = n, !.room = w.room[d], !.rest = rest \ {n}]
    BY <1>8
  <2>2. /\ job' \in Job /\ job'.op = "area" /\ job'.who = c /\ job'.next = n
        /\ job'.rest = rest \ {n}
    BY <1>1, <1>2, <1>4, <1>5, <2>1 DEF Job, c
  <2>3. n \in Char /\ job'.rest \cup {n} = rest
    BY <1>4, <2>2
  <2>4. JobSound'
    BY <1>3, <1>6, <2>2, <2>3 DEF JobSound, Good
  <2> QED
    BY <1>6, <2>4 DEF Inv, Good
<1> QED
  BY <1>1, <1>7, <1>8

(* tick_grenade: only those who fight nobody stand in the blast.           *)
LEMMA BlastHitSound ==
  ASSUME Inv, BlastHit
  PROVE  Inv'
<1>1. PICK c \in job.rest :
        /\ job.op = "blast"
        /\ IF w.pos[c] = DEAD THEN job' = Idle /\ UNCHANGED w
           ELSE /\ job' = IF job.rest = {c} THEN Idle ELSE [job EXCEPT !.rest = @ \ {c}]
                /\ \E h \in Worse(w, c) :
                     w' = Blasted([w EXCEPT !.health[c] = h], c)
  BY DEF BlastHit
<1>2. Good(w, {}) /\ job \in Job /\ (Mishap = {} => ~w.freedUse)
  BY <1>1, WorldOfJob
<1>3. /\ w.cursor = NoOne /\ c \in Char
      /\ Mishap = {} => \A x \in job.rest : w.fighting[x] = NoOne
  BY <1>1, <1>2 DEF Inv, JobSound, Job
<1>4. /\ Good(w', {}) /\ w'.cursor = NoOne /\ (Mishap = {} => ~w'.freedUse)
      /\ Mishap = {} => \A x \in job.rest : w'.fighting[x] = NoOne
  <2>1. CASE w' = w
    BY <1>2, <1>3, <2>1
  <2>2. CASE \E h \in Worse(w, c) : w' = Blasted([w EXCEPT !.health[c] = h], c)
    <3>1. PICK h \in Worse(w, c) : w' = Blasted([w EXCEPT !.health[c] = h], c)
      BY <2>2
    <3>2. w \in World /\ h \in Band /\ w.pos[c] \in DEAD..STANDING
      BY <1>2, <1>3, BlowsHurt DEF Good, Whole, World
    <3> DEFINE p == UpdatedPos(h, w.pos[c])
               u == Condition(w, c, h, p)
    <3>3. UpdatePos([w EXCEPT !.health[c] = h], c) = u
      BY <1>3, <3>2, ConditionIs
    <3>4. p \in DEAD..STANDING /\ (h <= STUNNED => p = h)
      BY <3>2, UpdatedPosFacts
    <3> HIDE DEF p
    <3>5. {} \subseteq {} \cup {c} /\ (h <= STUNNED => p <= STUNNED)
      BY <3>2, <3>4
    <3>6. Good(u, {}) /\ Quiet(w, u, {c}, {})
      BY <1>2, <1>3, <3>2, <3>4, <3>5, ConditionGood
    <3>7. SameFights(w, u)
      BY <1>3, <3>2, <3>4, ConditionFields
    <3>8. w' = u \/ w' = ExtractChar(u, c)
      BY <3>1, <3>3 DEF Blasted
    <3> HIDE DEF u
    <3>9. CASE w' = u
      BY <1>2, <1>3, <3>6, <3>7, <3>9 DEF Quiet, Keeps, SameFights
    <3>10. CASE w' = ExtractChar(u, c)
      <4>1. Good(w', {}) /\ Quiet(u, w', {c}, {c}) /\ Gone(u, w', c)
        BY <1>3, <3>6, <3>10, ExtractCharGood
      <4>2. \A x \in job.rest : x \in Char
        BY <1>2 DEF Job
      <4> QED
        BY <1>2, <1>3, <3>6, <3>7, <4>1, <4>2 DEF Quiet, Keeps, SameFights, Gone
    <3> QED
      BY <3>8, <3>9, <3>10
  <2> QED
    BY <1>1, <2>1, <2>2
<1>5. CASE job' = Idle
  <2>1. JobSound'
    BY <1>4, <1>5, IdleJob DEF JobSound, Good, Idle
  <2> QED
    BY <1>4, <2>1 DEF Inv, Good
<1>6. CASE job' = [job EXCEPT !.rest = @ \ {c}]
  <2>1. job' \in Job /\ job'.op = "blast" /\ job'.rest \subseteq job.rest
    BY <1>1, <1>2, <1>6 DEF Job
  <2>2. JobSound'
    BY <1>4, <2>1 DEF JobSound, Good
  <2> QED
    BY <1>4, <2>2 DEF Inv, Good
<1> QED
  BY <1>1, <1>5, <1>6

-----------------------------------------------------------------------------
(* perform_violence.                                                       *)

(* The successor of a fighter is a fighter, or NULL, and those behind the  *)
(* fighter are the successor and those behind it: the loop skips nobody.   *)
LEMMA NextOnTurn ==
  ASSUME NEW v, Lined(v), v.listed \subseteq Char, NEW c \in v.listed
  PROVE  LET n == NextFighting(v, c)
         IN  /\ n \in v.listed \cup {NoOne}
             /\ Behind(v, c) = IF n = NoOne THEN {} ELSE {n} \cup Behind(v, n)
<1> DEFINE B == Behind(v, c)
           n == FirstOf(v, B)
<1>1. NextFighting(v, c) = n
  BY DEF NextFighting
<1>2. B \in SUBSET v.listed
  BY DEF Behind
<1>3. CASE B = {}
  BY <1>1, <1>3, FirstOfNone
<1>4. CASE B # {}
  <2> HIDE DEF B
  <2>1. n \in B /\ B \ {n} \subseteq Behind(v, n)
    BY <1>2, <1>4, FirstOfListed
  <2>2. n \in v.listed /\ n # NoOne
    BY <1>2, <2>1, Sorts
  <2> HIDE DEF n
  <2>3. Behind(v, n) \subseteq B
    BY <2>1, BehindFacts DEF B
  <2> QED
    BY <1>1, <2>1, <2>2, <2>3 DEF B
<1> QED
  BY <1>3, <1>4

(* A turn is over: the loop goes on with next_combat_list.                 *)
LEMMA NextTurnSound ==
  ASSUME Good(w', {}), Mishap = {} => ~w'.freedUse, job' = NextTurn(w')
  PROVE  Inv'
<1>1. Whole(w', {}) /\ OnTurn(w') /\ w'.cursor \in Char \cup {NoOne}
  BY DEF Good, OnTurn, Whole, World
<1>2. CASE w'.cursor = NoOne
  <2>1. job' = Idle
    BY <1>2 DEF NextTurn
  <2>2. JobSound'
    BY <1>1, <1>2, <2>1, IdleJob DEF JobSound, Idle
  <2> QED
    BY <1>1, <2>2 DEF Inv
<1>3. CASE w'.cursor # NoOne
  <2>1. job' = [Idle EXCEPT !.op = "turn", !.who = w'.cursor]
    BY <1>3 DEF NextTurn
  <2>2. job' \in Job /\ job'.op = "turn" /\ job'.who = w'.cursor
    BY <1>1, <2>1, IdleJob DEF Job, Idle
  <2>3. w'.cursor \in w'.listed /\ w'.due = {w'.cursor} \cup Behind(w', w'.cursor)
    BY <1>1, <1>3 DEF OnTurn
  <2>4. JobSound'
    BY <1>1, <2>2, <2>3 DEF JobSound
  <2> QED
    BY <1>1, <2>4 DEF Inv
<1> QED
  BY <1>2, <1>3

(* The round begins at the head of the list: everyone on it is due a turn. *)
LEMMA StartRoundSound ==
  ASSUME Inv, StartRound
  PROVE  Inv'
<1> DEFINE n == FirstOf(w, w.listed)
<1>1. /\ job = Idle /\ w.listed # {} /\ w' = [w EXCEPT !.due = w.listed]
      /\ job' = [Idle EXCEPT !.op = "turn", !.who = n]
  BY DEF StartRound
<1>2. /\ Whole(w, {}) /\ w \in World /\ Lined(w) /\ w.cursor = NoOne
      /\ Mishap = {} => ~w.freedUse
  BY <1>1 DEF Inv, JobSound, Idle, Whole
<1>3. w.listed \subseteq Char
  BY <1>2 DEF World
<1>4. w.listed \in SUBSET w.listed
  OBVIOUS
<1>5. n \in w.listed /\ w.listed \ {n} \subseteq Behind(w, n)
  BY <1>1, <1>2, <1>4, FirstOfListed
<1> HIDE DEF n
<1>6. w.listed = {n} \cup Behind(w, n)
  BY <1>5 DEF Behind
<1>7. /\ w' \in World /\ w'.due = w.listed
      /\ w'.listed = w.listed /\ w'.ahead = w.ahead /\ w'.fighting = w.fighting
      /\ w'.room = w.room /\ w'.health = w.health /\ w'.pos = w.pos
      /\ w'.cursor = w.cursor /\ w'.freedUse = w.freedUse
  BY <1>1, <1>2 DEF World
<1>8. \A x : Behind(w', x) = Behind(w, x)
  BY <1>7 DEF Behind
<1>9. Whole(w', {})
  BY <1>2, <1>7, <1>8 DEF Whole, Lined, Facing, Calm, Down, Present
<1>10. job' \in Job /\ job'.op = "turn" /\ job'.who = n
  BY <1>1, <1>3, <1>5, IdleJob DEF Job, Idle
<1>11. JobSound'
  BY <1>2, <1>5, <1>6, <1>7, <1>8, <1>10 DEF JobSound
<1> QED
  BY <1>9, <1>11 DEF Inv

(* The turn of the fighter that is due: whatever it comes to, the cursor   *)
(* is on the next one and the fighter is due no longer.                    *)
LEMMA TakeTurnSound ==
  ASSUME Inv, TakeTurn
  PROVE  Inv'
<1> DEFINE c == job.who
           n == NextFighting(w, c)
           u == [w EXCEPT !.cursor = n, !.due = @ \ {c}]
           v == Scrambled(u, c)
<1>1. /\ job.op = "turn"
      /\ \/ w' = StopFighting(u, c) /\ job' = NextTurn(w')
         \/ w' = u /\ job' = NextTurn(w')
         \/ /\ ~Stale(u, c) /\ w' = v
            /\ \/ job' = NextTurn(w')
               \/ \E k \in 0..MaxAttacks : job' = [job EXCEPT !.op = "strikes", !.left = k]
  BY DEF TakeTurn
<1>2. /\ Whole(w, {}) /\ w \in World /\ Lined(w) /\ w.listed \subseteq Char
      /\ c \in w.listed /\ w.due = {c} \cup Behind(w, c)
      /\ Mishap = {} => ~w.freedUse
  BY <1>1 DEF Inv, JobSound, Whole, World
<1>3. /\ n \in w.listed \cup {NoOne}
      /\ Behind(w, c) = IF n = NoOne THEN {} ELSE {n} \cup Behind(w, n)
  BY <1>2, NextOnTurn
<1>4. c \in Char /\ c \notin Behind(w, c) /\ job \in Job
  BY <1>1, <1>2, BehindFacts DEF Inv, JobSound
<1> HIDE DEF n
<1>5. /\ u \in World /\ u.cursor = n /\ u.due = Behind(w, c)
      /\ u.listed = w.listed /\ u.ahead = w.ahead /\ u.fighting = w.fighting
      /\ u.room = w.room /\ u.health = w.health /\ u.pos = w.pos
      /\ u.freedUse = w.freedUse
  BY <1>2, <1>3, <1>4 DEF World
<1> HIDE DEF u, c
<1>6. \A x : Behind(u, x) = Behind(w, x)
  BY <1>5 DEF Behind
<1>7. Good(u, {})
  <2>1. Whole(u, {})
    BY <1>2, <1>5, <1>6 DEF Whole, Lined, Facing, Calm, Down, Present
  <2>2. OnTurn(u)
    BY <1>3, <1>5, <1>6 DEF OnTurn
  <2> QED
    BY <2>1, <2>2 DEF Good
<1>8. CASE w' = StopFighting(u, c) /\ job' = NextTurn(w')
  <2>1. {} \ {c} = {} /\ {c} \in SUBSET Char
    BY <1>4
  <2>2. Good(w', {}) /\ w'.freedUse = u.freedUse
    BY <1>7, <1>8, <2>1, StopAllGood DEF StopFighting, Quiet
  <2> QED
    BY <1>2, <1>5, <1>8, <2>2, NextTurnSound
<1>9. CASE w' = u /\ job' = NextTurn(w')
  BY <1>2, <1>5, <1>7, <1>9, NextTurnSound
<1>10. ASSUME ~Stale(u, c), w' = v
       PROVE  Good(w', {}) /\ w'.freedUse = u.freedUse
  <2>1. CASE v = u
    BY <1>7, <1>10, <2>1
  <2>2. CASE v = [u EXCEPT !.pos[c] = FIGHTING]
    <3>1. u.fighting[c] # NoOne
      BY <1>2, <1>4, <1>5 DEF Lined
    <3>2. Mishap = {} => u.pos[c] > STUNNED
      BY <1>4, <1>7, <3>1 DEF Good, Whole, Down
    <3>3. Mishap = {} => u.health[c] > STUNNED
      BY <1>4, <1>7, <3>2, UpIsAble
    <3>4. FIGHTING \in SLEEPING..STANDING
      BY DEF FIGHTING, SLEEPING, STANDING
    <3> QED
      BY <1>4, <1>7, <1>10, <2>2, <3>3, <3>4, PostureGood DEF Quiet
  <2> QED
    BY <2>1, <2>2 DEF Scrambled
<1>11. CASE ~Stale(u, c) /\ w' = v /\ job' = NextTurn(w')
  BY <1>2, <1>5, <1>10, <1>11, NextTurnSound
<1>12. CASE /\ ~Stale(u, c) /\ w' = v
            /\ \E k \in 0..MaxAttacks : job' = [job EXCEPT !.op = "strikes", !.left = k]
  <2>1. PICK k \in 0..MaxAttacks : job' = [job EXCEPT !.op = "strikes", !.left = k]
    BY <1>12
  <2>2. job' \in Job /\ job'.op = "strikes" /\ job'.who = c
    BY <1>4, <2>1 DEF Job, c
  <2>3. JobSound'
    BY <1>2, <1>4, <1>5, <1>10, <1>12, <2>2 DEF JobSound, Good
  <2> QED
    BY <1>10, <1>12, <2>3 DEF Inv, Good
<1> QED
  BY <1>1, <1>8, <1>9, <1>11, <1>12

(* One attack on an opponent who may have gone elsewhere, or have died and *)
(* come back: the attacker can stand, or he would not be fighting.         *)
LEMMA AttackSound ==
  ASSUME Inv, Attack
  PROVE  Inv'
<1> DEFINE c == job.who
           d == w.fighting[c]
<1>1. /\ job.op = "strikes" /\ job.left > 0 /\ d # NoOne
      /\ \E u \in Hit(w, c, d) \cup Worlds(Spell(w, c, d)) \cup {w} : w' = Touch(u, c)
      /\ job' = [job EXCEPT !.left = @ - 1]
  BY DEF Attack
<1>2. Good(w, {}) /\ job \in Job /\ (Mishap = {} => ~w.freedUse)
  BY <1>1, WorldOfJob
<1>3. c \in Char
  BY <1>1 DEF Inv, JobSound
<1>4. d \in Char /\ c # d /\ Present(w, c) /\ Present(w, d)
  BY <1>1, <1>2, <1>3 DEF Good, Whole, Lined, Facing, World
<1>5. Mishap = {} => Deals(w, c, d)
  <2>1. Mishap = {} => w.pos[c] > STUNNED
    BY <1>1, <1>2, <1>3 DEF Good, Whole, Down
  <2> QED
    BY <1>2, <1>3, <1>4, <2>1, UpIsAble DEF Deals
<1>6. /\ job' \in Job /\ job'.op = "strikes" /\ job'.who = c
  <2>1. job.left \in 0..MaxAttacks /\ MaxAttacks \in Nat
    BY <1>2, Sorts DEF Job
  <2>2. job.left - 1 \in 0..MaxAttacks
    BY <1>1, <2>1
  <2> QED
    BY <1>1, <1>2, <2>2 DEF Job
<1> HIDE DEF c, d
<1>7. PICK u \in Hit(w, c, d) \cup Worlds(Spell(w, c, d)) \cup {w} : w' = Touch(u, c)
  BY <1>1
<1>8. Good(u, {}) /\ (Mishap = {} => Present(u, c) /\ u.freedUse = w.freedUse)
  <2>1. CASE u = w
    BY <1>2, <1>4, <2>1
  <2>2. CASE u \in Hit(w, c, d)
    BY <1>2, <1>3, <1>4, <1>5, <2>2, HitGood
  <2>3. CASE u \in Worlds(Spell(w, c, d))
    BY <1>2, <1>3, <1>4, <2>3, SpellKeeps
  <2> QED
    BY <1>7, <2>1, <2>2, <2>3
<1>9. Good(w', {}) /\ (Mishap = {} => ~w'.freedUse)
  BY <1>2, <1>3, <1>7, <1>8, TouchGood
<1>10. JobSound'
  BY <1>3, <1>6, <1>9 DEF JobSound, Good
<1> QED
  BY <1>9, <1>10 DEF Inv, Good

(* The last attack is over, or there is nobody left to strike.             *)
LEMMA EndTurnSound ==
  ASSUME Inv, EndTurn
  PROVE  Inv'
<1> DEFINE c == job.who
           d == w.fighting[c]
<1>1. /\ job.op = "strikes" /\ job' = NextTurn(w')
      /\ w' = w \/ (d # NoOne /\ w' \in Worlds(Spell(w, c, d)))
  BY DEF EndTurn
<1>2. Good(w, {}) /\ (Mishap = {} => ~w.freedUse)
  BY <1>1, WorldOfJob
<1>3. c \in Char
  BY <1>1 DEF Inv, JobSound
<1>4. Good(w', {}) /\ (Mishap = {} => ~w'.freedUse)
  <2>1. CASE w' = w
    BY <1>2, <2>1
  <2>2. CASE d # NoOne /\ w' \in Worlds(Spell(w, c, d))
    <3>1. d \in Char /\ c # d /\ Present(w, c) /\ Present(w, d)
      BY <1>2, <1>3, <2>2 DEF Good, Whole, Lined, Facing, World
    <3> HIDE DEF c, d
    <3> QED
      BY <1>2, <1>3, <2>2, <3>1, SpellKeeps
  <2> QED
    BY <1>1, <2>1, <2>2
<1> QED
  BY <1>1, <1>4, NextTurnSound

-----------------------------------------------------------------------------
(* The invariant, and what it says of fighting.                            *)

(* Nobody is in the game and nobody fights.                                *)
LEMMA InitSound == Init => Inv
<1> SUFFICES ASSUME Init PROVE Inv
  OBVIOUS
<1>1. /\ w.room = [c \in Char |-> Nowhere] /\ w.health = [c \in Char |-> Hale]
      /\ w.pos = [c \in Char |-> STANDING] /\ w.fighting = [c \in Char |-> NoOne]
      /\ w.listed = {} /\ w.ahead = {} /\ w.cursor = NoOne
      /\ w.master = [m \in Mob |-> NoOne] /\ w.linkless = {} /\ w.due = {}
      /\ w.freedUse = FALSE /\ job = Idle
  BY DEF Init
<1>2. Hale \in Band /\ STANDING \in DEAD..STANDING /\ STUNNED < Hale
  BY DEF Hale, Band, STANDING, DEAD, STUNNED
<1>3. w \in World
  BY <1>2 DEF Init, World
<1>4. Lined(w) /\ Facing(w) /\ Calm(w) /\ Down(w, {})
  BY <1>1, <1>2, Sorts DEF Lined, Facing, Calm, Down, Hale, STUNNED
<1>5. OnTurn(w)
  BY <1>1 DEF OnTurn
<1>6. JobSound
  BY <1>1, <1>5, IdleJob DEF JobSound, Idle
<1> QED
  BY <1>3, <1>4, <1>6 DEF Inv, Whole

(* Every command, blow, turn and tick.                                     *)
LEMMA NextSound ==
  ASSUME Inv, [Next]_vars
  PROVE  Inv'
<1>1. CASE Fights
  BY <1>1, FightsSound
<1>2. CASE Moves
  BY <1>2, MovesSound
<1>3. CASE Magic
  BY <1>3, MagicSound, CastAreaSound
<1>4. CASE Others
  BY <1>4, OthersSound, TickGrenadeSound
<1>5. CASE AreaHit
  BY <1>5, AreaHitSound
<1>6. CASE BlastHit
  BY <1>6, BlastHitSound
<1>7. CASE StartRound
  BY <1>7, StartRoundSound
<1>8. CASE TakeTurn
  BY <1>8, TakeTurnSound
<1>9. CASE Attack
  BY <1>9, AttackSound
<1>10. CASE EndTurn
  BY <1>10, EndTurnSound
<1>11. CASE UNCHANGED vars
  <2>1. w' = w /\ job' = job
    BY <1>11 DEF vars
  <2> QED
    BY <2>1 DEF Inv, JobSound
<1> QED
  BY <1>1, <1>2, <1>3, <1>4, <1>5, <1>6, <1>7, <1>8, <1>9, <1>10, <1>11 DEF Next

(* The inductive invariant: combat_list is one line of those who fight, the *)
(* cursor is on the next who is due a turn, whoever fights is in the game   *)
(* and not in a peaceful room, and without the known defects can stand.     *)
THEOREM InvHolds == Spec => []Inv
<1>1. Init => Inv
  BY InitSound
<1>2. Inv /\ [Next]_vars => Inv'
  BY NextSound
<1> QED
  BY <1>1, <1>2, PTL DEF Spec

(* The world and the job under way have the shape the code gives them.     *)
THEOREM Typing == Spec => []TypeOK
<1>1. Inv => TypeOK
  BY DEF Inv, Whole, JobSound, TypeOK
<1> QED
  BY <1>1, InvHolds, PTL

(* combat_list holds exactly those with a FIGHTING pointer, in one line,   *)
(* they and their opponents are in the game, and next_combat_list is one   *)
(* of them, in the middle of every round and whatever blows, deaths and    *)
(* flights have changed (set_fighting, stop_fighting, extract_char).       *)
LEMMA InvListSound == Inv => ListSound
<1> SUFFICES ASSUME Inv PROVE ListSound
  OBVIOUS
<1>1. Whole(w, {}) /\ w.listed \subseteq Char
  BY DEF Inv, Whole, World
<1>2. ListIsFighters
  <2>1. ASSUME NEW c \in w.listed, NEW d \in w.listed, c # d
        PROVE  <<c, d>> \in w.ahead <=> <<d, c>> \notin w.ahead
    BY <1>1, <2>1, BehindFacts DEF Whole, Lined, Behind
  <2> QED
    BY <1>1, <2>1 DEF Whole, Lined, ListIsFighters
<1>3. FoesInGame
  BY <1>1 DEF Whole, Facing, FoesInGame
<1>4. CursorListed
  <2>1. w.cursor \in w.listed \cup {NoOne}
    BY DEF Inv, JobSound, OnTurn
  <2>2. job.op \notin {"turn", "strikes"} => w.cursor = NoOne
    BY DEF Inv, JobSound, Job
  <2> QED
    BY <2>1, <2>2 DEF CursorListed
<1> QED
  BY <1>2, <1>3, <1>4 DEF ListSound

(* combat_list, FIGHTING pointers and next_combat_list agree in the middle *)
(* of every round (perform_violence, fight.c 1380-1410).                   *)
THEOREM ListStaysSound == Spec => []ListSound
BY InvListSound, InvHolds, PTL

(* perform_violence gives everyone who fights from the beginning of the    *)
(* round on one turn: those the loop still reaches are those still due one.*)
THEOREM EveryoneHasATurn == Spec => []TurnsFair
<1>1. Inv => TurnsFair
  <2> SUFFICES ASSUME Inv PROVE TurnsFair
    OBVIOUS
  <2>1. CASE job.op = "turn"
    <3>1. job.who \in w.listed /\ w.due = {job.who} \cup Behind(w, job.who)
      BY <2>1 DEF Inv, JobSound
    <3>2. job.who # NoOne
      BY <3>1, Sorts DEF Inv, Whole, World
    <3> QED
      BY <2>1, <3>1, <3>2 DEF TurnsFair
  <2>2. CASE job.op # "turn"
    BY <2>2 DEF Inv, JobSound, OnTurn, TurnsFair
  <2> QED
    BY <2>1, <2>2
<1> QED
  BY <1>1, InvHolds, PTL

(* No command, blow, flight or rescue starts or carries a fight into a     *)
(* peaceful room: nobody fights who stands in one with his opponent.       *)
LEMMA InvPeaceKept == Inv => PeaceKept
BY DEF Inv, Whole, Calm, PeaceKept, InPeace

(* Whoever fights does not share a peaceful room with his opponent         *)
(* (fight.c 963-966).                                                      *)
THEOREM PeaceIsKept == Spec => []PeaceKept
BY InvPeaceKept, InvHolds, PTL

(* Without the known defects the stunned and worse lie down and are off    *)
(* combat_list, and no handler goes on with a mob its blow has freed,      *)
(* whatever fire shields, redirected blows and area spells come to.        *)
LEMMA InvFallenSound ==
  ASSUME Mishap = {}
  PROVE  Inv => FallenSound
<1> SUFFICES ASSUME Inv PROVE FallenSound
  OBVIOUS
<1>1. w \in World /\ Down(w, {})
  BY DEF Inv, Whole
<1>2. \A c \in Char : w.pos[c] <= STUNNED => ~(w.pos[c] > STUNNED)
  BY <1>1 DEF World, DEAD, STANDING, STUNNED
<1>3. FallenLieDown
  BY <1>1, <1>2 DEF Down, FallenLieDown
<1>4. NobodyUsedAfterFree
  BY DEF Inv, JobSound, NobodyUsedAfterFree
<1> QED
  BY <1>3, <1>4 DEF FallenSound

(* Whichever way somebody falls, he lies down and fights nobody, and no    *)
(* freed mob is used (fight.c 1145-1159).                                  *)
THEOREM TheFallenDoNotFight ==
  ASSUME Mishap = {}
  PROVE  Spec => []FallenSound
BY InvFallenSound, InvHolds, PTL

(* All of it together, for players and mobs in any number.                 *)
THEOREM PartiesAreSound ==
  ASSUME Mishap = {}
  PROVE  Spec => []PartySound
<1>1. Inv => PartySound
  BY InvListSound, InvFallenSound, InvPeaceKept DEF PartySound
<1> QED
  BY <1>1, InvHolds, PTL


=============================================================================
