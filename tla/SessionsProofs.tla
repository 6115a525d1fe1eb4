--------------------------- MODULE SessionsProofs ---------------------------
(***************************************************************************)
(* The links between connections and bodies for all connections, players   *)
(* and bodies, as long as nobody switches into the body of another player  *)
(* (two implementors may, and break them) and close_socket cleans up after *)
(* every editor in use (gedit is forgotten, and breaks them).              *)
(*                                                                         *)
(* LinksSound is not inductive.  What has to be added is what the handlers *)
(* know of connections outside of the game: at the password prompt and at  *)
(* the menu a connection holds a player's body that is not in the world    *)
(* (Waiting), a switched one plays a mobile and has left a body without a  *)
(* link behind (Away), and nobody at the menu is in the world as well      *)
(* (MenuAlone).  Each operator of Sessions has a lemma; extract_char is    *)
(* the hard one, because do_return runs in the middle of it.               *)
(***************************************************************************)
EXTENDS Sessions, TLAPS

(* What the passing run has: one immortal, who switches into mobiles only, *)
(* and no editor that close_socket forgets.                                *)
NobodyPossessesPlayers == \A p \in Player : Rank[p] < 2
EditorsCleanedUp == Editor \subseteq CleanedUp

Bodiless(v) ==
    \A d \in Desc : v.conn[d] \in {"free", "name"} =>
        v.character[d] = None /\ v.original[d] = None

Embodied(v) ==
    \A d \in Desc : v.conn[d] \in {"password", "menu"} \union InGame =>
        v.character[d] # None

Played(v) ==
    \A d \in Desc : v.character[d] # None =>
        v.desc[v.character[d]] = d /\ v.character[d] \in v.alive

Linked(v) ==
    \A b \in v.alive : v.desc[b] # None =>
        v.desc[b] \in Desc /\ v.character[v.desc[b]] = b

Away(v) ==
    \A d \in Desc : v.original[d] # None =>
        /\ v.original[d] \in PcBody
        /\ v.original[d] \in v.listed
        /\ v.desc[v.original[d]] = None
        /\ v.character[d] \in MobBody

AtHome(v) ==
    \A d \in Desc : v.original[d] = None => v.character[d] \in PcBody \union {None}

OneAway(v) ==
    \A d, e \in Desc : v.original[d] # None /\ v.original[d] = v.original[e] => d = e

InWorld(v) == \A d \in Desc : v.conn[d] \in InGame => v.character[d] \in v.listed

Waiting(v) ==
    \A d \in Desc :
        v.conn[d] \in {"password", "menu", "close"} /\ v.character[d] # None =>
            v.character[d] \in PcBody /\ v.character[d] \notin v.listed

FreedUnlinked(v) == \A m \in MobBody : m \notin v.alive => v.desc[m] = None

OneBody(v) ==
    \A a, b \in v.listed \intersect PcBody : v.owner[a] = v.owner[b] => a = b

MenuAlone(v) ==
    \A d \in Desc : v.conn[d] = "menu" =>
        /\ \A b \in v.listed \intersect PcBody : v.owner[b] # v.owner[v.character[d]]
        /\ \A e \in Desc : v.conn[e] = "menu" /\ v.owner[v.character[e]] = v.owner[v.character[d]]
                             => e = d

Sound(v) ==
    /\ v \in State
    /\ Bodiless(v) /\ Embodied(v) /\ Played(v) /\ Linked(v) /\ Away(v) /\ AtHome(v)
    /\ OneAway(v) /\ InWorld(v) /\ Waiting(v) /\ FreedUnlinked(v)
    /\ OneBody(v) /\ MenuAlone(v)
    /\ v.listed \subseteq v.alive

Inv ==
    /\ Sound(s)
    /\ file \in [Player -> 0 .. MaxVersion]
    /\ lastQuit \in [Player -> 0 .. MaxVersion]
    /\ phase \in {"input", "command", "output", "heartbeat"}
    /\ todo \subseteq Desc

(* The fields that say who controls whom.                                  *)
SameLinks(u, v) ==
    u.conn = v.conn /\ u.character = v.character /\ u.original = v.original /\ u.desc = v.desc

SameWorld(u, v) == u.owner = v.owner /\ u.alive = v.alive /\ u.listed = v.listed

-----------------------------------------------------------------------------
LEMMA Names ==
    ASSUME EditorsCleanedUp
    PROVE  /\ \A e \in Editor : e \notin {"free", "name", "password", "menu", "playing",
                                          "close", "disconnect"}
           /\ "playing" \in InGame
           /\ \A c \in ConState : c \notin InGame =>
                 c \in {"free", "name", "password", "menu", "close", "disconnect"}
           /\ {"free", "name", "password", "menu", "close", "disconnect"} \intersect InGame = {}
           /\ Editor \subseteq InGame
BY DEF EditorsCleanedUp, CleanedUp, InGame, ConState

(* Versions and hosts do not matter to the links.                          *)
LEMMA SameLinksSound ==
    ASSUME NEW u, NEW v, Sound(v), u \in State, SameLinks(u, v), SameWorld(u, v)
    PROVE  Sound(u)
BY DEF Sound, Bodiless, Embodied, Played, Linked, Away, AtHome, OneAway, InWorld,
       Waiting, FreedUnlinked, OneBody, MenuAlone, SameLinks, SameWorld

(* A body nobody controls and nobody has left can be freed.                *)
LEMMA RemovalSound ==
    ASSUME NEW u, NEW v, NEW b \in Body, Sound(v), u \in State, SameLinks(u, v),
           u.owner = v.owner, u.alive = v.alive \ {b}, u.listed = v.listed \ {b},
           v.desc[b] = None, \A d \in Desc : v.original[d] # b
    PROVE  Sound(u)
<1>1. None \notin Desc /\ None \notin Body
  BY BodyAssumption DEF Body
<1>2. \A d \in Desc : v.character[d] # b
  BY <1>1 DEF Sound, Played
<1>3. Bodiless(u) /\ Embodied(u) /\ Linked(u) /\ AtHome(u) /\ OneAway(u)
  BY DEF Sound, SameLinks, Bodiless, Embodied, Linked, AtHome, OneAway
<1>4. Played(u) /\ InWorld(u) /\ Away(u)
  BY <1>2 DEF Sound, SameLinks, Played, InWorld, Away
<1>5. Waiting(u) /\ FreedUnlinked(u) /\ OneBody(u) /\ MenuAlone(u) /\ u.listed \subseteq u.alive
  BY DEF Sound, SameLinks, Waiting, FreedUnlinked, OneBody, MenuAlone
<1> QED
  BY <1>3, <1>4, <1>5 DEF Sound

-----------------------------------------------------------------------------
(* do_return with nobody in the body that is returned to.                  *)
LEMMA HomeAgainFields ==
    ASSUME NEW v \in State, NEW c \in Body, v.desc[c] # None,
           v.original[v.desc[c]] # None, v.desc[v.original[v.desc[c]]] = None
    PROVE  LET d == v.desc[c]
               u == HomeAgain(v, c)
           IN  /\ u \in State
               /\ u.conn = v.conn
               /\ u.character = [v.character EXCEPT ![d] = v.original[d]]
               /\ u.original = [v.original EXCEPT ![d] = None]
               /\ u.desc = [[v.desc EXCEPT ![v.original[d]] = d] EXCEPT ![c] = None]
               /\ SameWorld(u, v) /\ u.hosts = v.hosts /\ u.version = v.version
               /\ u.halted = v.halted
<1> DEFINE d == v.desc[c]
           o == v.original[d]
           X == [v.character EXCEPT ![d] = o]
           O == [v.original EXCEPT ![d] = None]
           D == [[v.desc EXCEPT ![o] = d] EXCEPT ![c] = None]
           u == [v EXCEPT !.conn = v.conn, !.character = X, !.original = O, !.desc = D]
<1>1. None \notin Desc /\ d \in Desc /\ o \in Body
  BY BodyAssumption DEF State
<1>2. [e \in Desc |-> IF e = None THEN "disconnect" ELSE v.conn[e]] = v.conn
  BY <1>1 DEF State
<1>3. HomeAgain(v, c) = u
  BY <1>1, <1>2 DEF HomeAgain, State
<1>4. /\ X \in [Desc -> Body \union {None}]
      /\ O \in [Desc -> Body \union {None}]
      /\ D \in [Body -> Desc \union {None}]
  BY <1>1 DEF State
<1> HIDE DEF X, O, D
<1>5. /\ u \in State
      /\ u.conn = v.conn /\ u.character = X /\ u.original = O /\ u.desc = D
      /\ SameWorld(u, v) /\ u.hosts = v.hosts /\ u.version = v.version /\ u.halted = v.halted
  BY <1>4 DEF State, SameWorld
<1> QED
  BY <1>3, <1>5 DEF X, O, D

(* do_return takes a controller from a mobile home, in a sound world.      *)
LEMMA HomeAgainSound ==
    ASSUME EditorsCleanedUp, NEW v, NEW c \in Body, Sound(v), c \in v.alive, v.desc[c] # None,
           v.original[v.desc[c]] # None
    PROVE  LET u == HomeAgain(v, c)
           IN  /\ Sound(u) /\ SameWorld(u, v) /\ u.version = v.version
               /\ c \in MobBody /\ u.desc[c] = None
               /\ \A e \in Desc : u.original[e] = IF e = v.desc[c] THEN None
                                                  ELSE v.original[e]
<1> DEFINE d == v.desc[c]
           o == v.original[d]
           u == HomeAgain(v, c)
<1>1. None \notin Desc /\ None \notin Body /\ PcBody \intersect MobBody = {}
  BY BodyAssumption DEF Body
<1>2. v \in State /\ d \in Desc /\ v.character[d] = c
  BY DEF Sound, Linked, State
<1>3. /\ o \in PcBody /\ o \in v.listed /\ v.desc[o] = None
      /\ c \in MobBody /\ o \in v.alive /\ o # c
  BY <1>1, <1>2 DEF Sound, Away
<1>4. /\ u \in State
      /\ u.conn = v.conn
      /\ u.character = [v.character EXCEPT ![d] = o]
      /\ u.original = [v.original EXCEPT ![d] = None]
      /\ u.desc = [[v.desc EXCEPT ![o] = d] EXCEPT ![c] = None]
      /\ SameWorld(u, v) /\ u.hosts = v.hosts /\ u.version = v.version /\ u.halted = v.halted
  BY <1>2, <1>3, HomeAgainFields
<1> HIDE DEF u
<1>5. /\ \A e \in Desc : u.character[e] = IF e = d THEN o ELSE v.character[e]
      /\ \A e \in Desc : u.original[e] = IF e = d THEN None ELSE v.original[e]
      /\ \A b \in Body : u.desc[b] = IF b = c THEN None ELSE IF b = o THEN d ELSE v.desc[b]
  BY <1>2, <1>3, <1>4 DEF State, Body
<1>6. v.conn[d] \notin {"free", "name", "password", "menu", "close"}
  BY <1>1, <1>2, <1>3 DEF Sound, Bodiless, Waiting, Embodied
<1>7. Bodiless(u) /\ Embodied(u) /\ AtHome(u)
  BY <1>1, <1>3, <1>4, <1>5, <1>6, Names DEF Sound, Bodiless, Embodied, AtHome, Body
<1>8. Played(u)
  <2> SUFFICES ASSUME NEW e \in Desc, u.character[e] # None
               PROVE  u.desc[u.character[e]] = e /\ u.character[e] \in u.alive
    BY DEF Played
  <2>1. CASE e = d
    BY <2>1, <1>3, <1>4, <1>5 DEF SameWorld, Body
  <2>2. CASE e # d
    <3>1. v.character[e] \in Body /\ v.desc[v.character[e]] = e /\ v.character[e] \in v.alive
      BY <2>2, <1>2, <1>5 DEF Sound, Played, State
    <3> QED
      BY <3>1, <2>2, <1>1, <1>3, <1>4, <1>5 DEF SameWorld
  <2> QED
    BY <2>1, <2>2
<1>9. Linked(u)
  <2> SUFFICES ASSUME NEW b \in u.alive, u.desc[b] # None
               PROVE  u.desc[b] \in Desc /\ u.character[u.desc[b]] = b
    BY DEF Linked
  <2>1. b \in Body /\ b \in v.alive /\ b # c
    BY <1>4, <1>5 DEF SameWorld, State
  <2>2. CASE b = o
    BY <2>1, <2>2, <1>2, <1>5
  <2>3. CASE b # o
    BY <2>1, <2>3, <1>2, <1>5 DEF Sound, Linked
  <2> QED
    BY <2>2, <2>3
<1>10. Away(u) /\ OneAway(u)
  <2>1. \A e \in Desc : e # d /\ v.original[e] # None => v.original[e] # o
    BY <1>2 DEF Sound, OneAway
  <2>2. \A e \in Desc : v.original[e] # None => v.original[e] # c
    BY <1>1, <1>3 DEF Sound, Away
  <2> QED
    BY <2>1, <2>2, <1>4, <1>5 DEF Sound, Away, OneAway, SameWorld, Body
<1>11. InWorld(u) /\ Waiting(u) /\ FreedUnlinked(u)
  BY <1>1, <1>3, <1>4, <1>5, <1>6 DEF Sound, InWorld, Waiting, FreedUnlinked, SameWorld, Body
<1>12. OneBody(u) /\ MenuAlone(u) /\ u.listed \subseteq u.alive
  BY <1>4, <1>5, <1>6 DEF Sound, OneBody, MenuAlone, SameWorld
<1> QED
  BY <1>3, <1>4, <1>5, <1>7, <1>8, <1>9, <1>10, <1>11, <1>12 DEF Sound, u

LEMMA FreedSound ==
    ASSUME NEW v, NEW b \in Body, Sound(v), v.desc[b] = None, \A d \in Desc : v.original[d] # b
    PROVE  /\ Sound(Freed(v, b)) /\ SameLinks(Freed(v, b), v)
           /\ Freed(v, b).owner = v.owner /\ Freed(v, b).version = v.version
           /\ Freed(v, b).listed = v.listed \ {b}
<1> DEFINE u == Freed(v, b)
<1>1. v \in State
  BY DEF Sound
<1>2. /\ u \in State /\ SameLinks(u, v) /\ u.owner = v.owner /\ u.version = v.version
      /\ u.alive = v.alive \ {b} /\ u.listed = v.listed \ {b}
  BY <1>1 DEF Freed, State, SameLinks
<1> HIDE DEF u
<1>3. Sound(u)
  BY <1>2, RemovalSound
<1> QED
  BY <1>2, <1>3 DEF u

(* do_return, with the death of an animated corpse: only a mobile can go,  *)
(* and only the controller of c is no longer away.                         *)
LEMMA ReturnedSound ==
    ASSUME EditorsCleanedUp, NEW v, NEW c \in Body, Sound(v), c \in v.alive
    PROVE  LET u == Returned(v, c)
           IN  /\ Sound(u) /\ u.owner = v.owner /\ u.version = v.version
               /\ u.listed \intersect PcBody = v.listed \intersect PcBody
               /\ \A e \in Desc : u.original[e] = IF e = v.desc[c] THEN None
                                                  ELSE v.original[e]
<1> DEFINE u == Returned(v, c)
           h == HomeAgain(v, c)
<1>1. None \notin Desc /\ None \notin Body /\ PcBody \intersect MobBody = {}
  BY BodyAssumption DEF Body
<1>2. v \in State
  BY DEF Sound
<1>3. CASE v.desc[c] = None
  <2>1. u = v
    BY <1>3 DEF Returned
  <2> HIDE DEF u
  <2> QED
    BY <1>1, <1>3, <2>1 DEF u
<1>4. CASE v.desc[c] # None /\ v.original[v.desc[c]] = None
  <2>1. u = v
    BY <1>4 DEF Returned
  <2> HIDE DEF u
  <2> QED
    BY <1>4, <2>1 DEF u
<1>5. CASE v.desc[c] # None /\ v.original[v.desc[c]] # None
  <2>1. /\ Sound(h) /\ SameWorld(h, v) /\ h.version = v.version
        /\ c \in MobBody /\ h.desc[c] = None
        /\ \A e \in Desc : h.original[e] = IF e = v.desc[c] THEN None ELSE v.original[e]
    BY <1>5, HomeAgainSound
  <2> HIDE DEF h
  <2>2. \A e \in Desc : h.original[e] # c
    BY <1>1, <2>1 DEF Sound, Away, Body
  <2>3. CASE c \notin v.hosts
    <3>1. u = h
      BY <1>5, <2>3 DEF Returned, h
    <3> HIDE DEF u
    <3> QED
      BY <2>1, <3>1 DEF u, SameWorld
  <2>4. CASE c \in v.hosts
    <3>1. u = Freed(h, c)
      BY <1>5, <2>4 DEF Returned, h
    <3>2. /\ Sound(u) /\ SameLinks(u, h) /\ u.owner = h.owner /\ u.version = h.version
          /\ u.listed = h.listed \ {c}
      BY <2>1, <2>2, <3>1, FreedSound
    <3> HIDE DEF u
    <3> QED
      BY <1>1, <2>1, <3>2 DEF u, SameLinks, SameWorld
  <2> QED
    BY <2>3, <2>4
<1> QED
  BY <1>3, <1>4, <1>5

-----------------------------------------------------------------------------
(* extract_char's first step: whoever has left the body b is called back.  *)
Called(w, b) ==
    LET away == {d \in Desc : w.original[d] = b}
    IN  IF IsPlayer(b) /\ w.desc[b] = None /\ away # {}
        THEN Returned(w, w.character[CHOOSE d \in away : TRUE])
        ELSE w

LEMMA TakenOutInSteps ==
    ASSUME NEW w, NEW b
    PROVE  TakenOut(w, b) = Returned([Called(w, b) EXCEPT !.listed = @ \ {b}], b)
BY DEF TakenOut, Called

(* After it nobody is away from b, and b is still in the world.            *)
LEMMA CalledSound ==
    ASSUME EditorsCleanedUp, NEW w, NEW b \in Body, Sound(w), b \in w.listed
    PROVE  LET u == Called(w, b)
           IN  /\ Sound(u) /\ u.owner = w.owner /\ u.version = w.version
               /\ b \in u.listed
               /\ \A d \in Desc : u.original[d] # b
<1> DEFINE away == {d \in Desc : w.original[d] = b}
           u == Called(w, b)
<1>1. None \notin Desc /\ None \notin Body /\ PcBody \intersect MobBody = {}
  BY BodyAssumption DEF Body
<1>2. CASE away = {}
  <2>1. u = w
    BY <1>2 DEF Called
  <2> HIDE DEF u
  <2> QED
    BY <1>2, <2>1 DEF u
<1>3. CASE away # {}
  <2> DEFINE d == CHOOSE e \in away : TRUE
  <2>1. d \in Desc /\ w.original[d] = b
    BY <1>3
  <2> HIDE DEF d
  <2>2. /\ b \in PcBody /\ w.desc[b] = None
        /\ w.character[d] \in MobBody /\ w.original[d] # None
    BY <1>1, <2>1 DEF Sound, Away
  <2>3. u = Returned(w, w.character[d])
    BY <1>3, <2>2 DEF Called, IsPlayer, d
  <2>4. w.character[d] \in Body /\ w.character[d] \in w.alive /\ w.desc[w.character[d]] = d
    BY <1>1, <2>1, <2>2 DEF Sound, Played, Body
  <2>5. /\ Sound(u) /\ u.owner = w.owner /\ u.version = w.version
        /\ u.listed \intersect PcBody = w.listed \intersect PcBody
        /\ \A e \in Desc : u.original[e] = IF e = d THEN None ELSE w.original[e]
    BY <2>3, <2>4, ReturnedSound
  <2>6. \A e \in Desc : e # d => w.original[e] # b
    BY <2>1, <2>2 DEF Sound, OneAway
  <2> HIDE DEF u
  <2> QED
    BY <1>1, <2>2, <2>5, <2>6 DEF u
<1> QED
  BY <1>2, <1>3

(* extract_char of a player with a link: the body stays with the           *)
(* connection, which goes to the menu.                                     *)
LEMMA ToMenuSound ==
    ASSUME EditorsCleanedUp, NEW u, NEW v, NEW b \in PcBody, Sound(v), b \in v.listed,
           v.desc[b] # None, u \in State,
           u.conn = [v.conn EXCEPT ![v.desc[b]] = "menu"],
           u.character = v.character, u.original = v.original, u.desc = v.desc,
           u.owner = v.owner, u.alive = v.alive, u.listed = v.listed \ {b},
           \A d \in Desc : v.original[d] # b
    PROVE  Sound(u)
<1> DEFINE d == v.desc[b]
<1>1. None \notin Desc /\ None \notin Body /\ PcBody \intersect MobBody = {} /\ b \in Body
  BY BodyAssumption DEF Body
<1>2. v \in State /\ b \in v.alive /\ d \in Desc /\ v.character[d] = b
  BY <1>1 DEF Sound, Linked
<1>3. \A e \in Desc : u.conn[e] = IF e = d THEN "menu" ELSE v.conn[e]
  BY <1>2 DEF State
<1>4. v.original[d] = None
  BY <1>1, <1>2 DEF Sound, Away
<1>5. \A e \in Desc : e # d => v.character[e] # b
  BY <1>1, <1>2 DEF Sound, Played
<1>6. Bodiless(u) /\ Embodied(u) /\ AtHome(u) /\ Played(u) /\ Linked(u)
  BY <1>1, <1>2, <1>3 DEF Sound, Bodiless, Embodied, AtHome, Played, Linked
<1>7. Away(u) /\ OneAway(u) /\ InWorld(u) /\ FreedUnlinked(u)
  BY <1>2, <1>3, <1>5, Names DEF Sound, Away, OneAway, InWorld, FreedUnlinked
<1>8. Waiting(u) /\ OneBody(u) /\ u.listed \subseteq u.alive
  BY <1>2, <1>3 DEF Sound, Waiting, OneBody
<1>9. \A a \in v.listed \intersect PcBody : a # b => v.owner[a] # v.owner[b]
  BY DEF Sound, OneBody
<1>10. MenuAlone(u)
  BY <1>2, <1>3, <1>9 DEF Sound, MenuAlone
<1> QED
  BY <1>6, <1>7, <1>8, <1>10 DEF Sound

(* extract_char keeps the links sound, wherever the controllers of the     *)
(* body and of whoever has left it go; the record it saves is the body's.  *)
LEMMA ExtractedSound ==
    ASSUME EditorsCleanedUp, NEW w, NEW b \in Body, Sound(w), b \in w.listed
    PROVE  /\ Sound(Extracted(w, b))
           /\ TakenOut(w, b).owner = w.owner /\ TakenOut(w, b).version = w.version
<1> DEFINE w1 == Called(w, b)
           w2 == [w1 EXCEPT !.listed = @ \ {b}]
           w3 == Returned(w2, b)
           u  == Extracted(w, b)
<1>1. None \notin Desc /\ None \notin Body /\ PcBody \intersect MobBody = {}
  BY BodyAssumption DEF Body
<1>2. /\ Sound(w1) /\ w1.owner = w.owner /\ w1.version = w.version /\ b \in w1.listed
      /\ \A d \in Desc : w1.original[d] # b
  BY CalledSound
<1>3. TakenOut(w, b) = w3
  BY TakenOutInSteps
<1>4. u = IF IsPlayer(b) /\ w3.desc[b] # None
          THEN [w3 EXCEPT !.conn[w3.desc[b]] = "menu"]
          ELSE [w3 EXCEPT !.alive = @ \ {b}, !.hosts = @ \ {b}]
  BY <1>3 DEF Extracted
<1> HIDE DEF w1, u
<1>5. w1 \in State /\ b \in w1.alive
  BY <1>2 DEF Sound
<1>6. /\ w2 \in State /\ SameLinks(w2, w1) /\ w2.owner = w1.owner /\ w2.alive = w1.alive
      /\ w2.version = w1.version /\ w2.hosts = w1.hosts /\ w2.halted = w1.halted
      /\ w2.listed = w1.listed \ {b}
  BY <1>5 DEF State, SameLinks
<1> HIDE DEF w2
<1>7. CASE w1.desc[b] = None
  <2>1. w3 = w2
    BY <1>6, <1>7 DEF Returned, SameLinks
  <2> HIDE DEF w3
  <2>2. u = [w2 EXCEPT !.alive = @ \ {b}, !.hosts = @ \ {b}]
    BY <1>4, <1>6, <1>7, <2>1 DEF SameLinks
  <2>3. /\ u \in State /\ SameLinks(u, w2) /\ u.owner = w2.owner
        /\ u.alive = w2.alive \ {b} /\ u.listed = w2.listed
    BY <1>6, <2>2 DEF State, SameLinks
  <2>4. /\ SameLinks(u, w1) /\ u.owner = w1.owner
        /\ u.alive = w1.alive \ {b} /\ u.listed = w1.listed \ {b}
    BY <1>6, <2>3 DEF SameLinks
  <2>5. Sound(u)
    BY <1>2, <1>7, <2>3, <2>4, RemovalSound
  <2> QED
    BY <1>2, <1>3, <1>6, <2>1, <2>5 DEF u
<1>8. CASE w1.desc[b] # None /\ w1.original[w1.desc[b]] = None
  <2>1. w3 = w2
    BY <1>6, <1>8 DEF Returned, SameLinks
  <2> HIDE DEF w3
  <2>2. w1.desc[b] \in Desc /\ b \in PcBody
    BY <1>1, <1>2, <1>5, <1>8 DEF Sound, Linked, AtHome
  <2>3. u = [w2 EXCEPT !.conn[w1.desc[b]] = "menu"]
    BY <1>4, <1>6, <1>8, <2>1, <2>2 DEF SameLinks, IsPlayer
  <2>4. "menu" \in ConState
    BY DEF ConState
  <2>5. /\ u \in State
        /\ u.conn = [w1.conn EXCEPT ![w1.desc[b]] = "menu"]
        /\ u.character = w1.character /\ u.original = w1.original /\ u.desc = w1.desc
        /\ u.owner = w1.owner /\ u.alive = w1.alive /\ u.listed = w1.listed \ {b}
    <3> DEFINE C == [w2.conn EXCEPT ![w1.desc[b]] = "menu"]
    <3>1. C \in [Desc -> ConState]
      BY <1>6, <2>4 DEF State
    <3>2. u = [w2 EXCEPT !.conn = C]
      BY <1>6, <2>3 DEF State
    <3>3. C = [w1.conn EXCEPT ![w1.desc[b]] = "menu"]
      BY <1>6 DEF SameLinks
    <3> HIDE DEF C
    <3>4. u \in State /\ u.conn = C
      BY <1>6, <3>1, <3>2 DEF State
    <3>5. /\ u.character = w1.character /\ u.original = w1.original /\ u.desc = w1.desc
          /\ u.owner = w1.owner /\ u.alive = w1.alive /\ u.listed = w1.listed \ {b}
      BY <1>6, <3>2 DEF State, SameLinks
    <3> QED
      BY <3>3, <3>4, <3>5
  <2>6. Sound(u)
    BY <1>2, <1>8, <2>2, <2>5, ToMenuSound
  <2> QED
    BY <1>2, <1>3, <1>6, <2>1, <2>6 DEF u
<1>9. CASE w1.desc[b] # None /\ w1.original[w1.desc[b]] # None
  <2> DEFINE d  == w1.desc[b]
             h1 == HomeAgain(w1, b)
             h2 == HomeAgain(w2, b)
  <2>1. d \in Desc /\ w1.desc[w1.original[d]] = None
    BY <1>2, <1>5, <1>9 DEF Sound, Linked, Away
  <2>2. /\ Sound(h1) /\ b \in MobBody /\ h1.desc[b] = None
        /\ \A e \in Desc : h1.original[e] = IF e = d THEN None ELSE w1.original[e]
    BY <1>2, <1>5, <1>9, HomeAgainSound
  <2>3. \A e \in Desc : h1.original[e] # b
    BY <1>1, <1>2, <2>2
  <2>4. SameLinks(h2, h1) /\ SameWorld(h1, w1) /\ SameWorld(h2, w2) /\ h2 \in State
        /\ h2.version = w2.version
    <3>1. /\ h1.conn = w1.conn
          /\ h1.character = [w1.character EXCEPT ![d] = w1.original[d]]
          /\ h1.original = [w1.original EXCEPT ![d] = None]
          /\ h1.desc = [[w1.desc EXCEPT ![w1.original[d]] = d] EXCEPT ![b] = None]
          /\ SameWorld(h1, w1)
      BY <1>5, <1>9, <2>1, HomeAgainFields
    <3>2. w2.desc[b] = d /\ w2.original[d] = w1.original[d] /\ w2.desc[w2.original[d]] = None
      BY <1>6, <2>1 DEF SameLinks
    <3>3. /\ h2 \in State
          /\ h2.conn = w2.conn
          /\ h2.character = [w2.character EXCEPT ![d] = w2.original[d]]
          /\ h2.original = [w2.original EXCEPT ![d] = None]
          /\ h2.desc = [[w2.desc EXCEPT ![w2.original[d]] = d] EXCEPT ![b] = None]
          /\ SameWorld(h2, w2) /\ h2.version = w2.version
      BY <1>6, <1>9, <3>2, HomeAgainFields
    <3> HIDE DEF h1, h2, d
    <3> QED
      BY <1>6, <3>1, <3>3 DEF SameLinks
  <2> HIDE DEF h1
  <2>5. /\ u \in State /\ SameLinks(u, h2) /\ u.owner = h2.owner
        /\ u.alive = h2.alive \ {b} /\ u.listed = h2.listed \ {b}
        /\ w3.owner = h2.owner /\ w3.version = h2.version
    <3>1. w3 = IF b \in w2.hosts THEN Freed(h2, b) ELSE h2
      BY <1>6, <1>9 DEF Returned, SameLinks
    <3>2. u = [w3 EXCEPT !.alive = @ \ {b}, !.hosts = @ \ {b}]
      BY <1>1, <1>4, <2>2 DEF IsPlayer
    <3>3. b \notin h2.listed
      BY <1>6, <2>4 DEF SameWorld
    <3> HIDE DEF h2, w3
    <3> QED
      BY <2>4, <3>1, <3>2, <3>3 DEF State, SameLinks, Freed
  <2> HIDE DEF h2, w3
  <2>6. /\ SameLinks(u, h1) /\ u.owner = h1.owner
        /\ u.alive = h1.alive \ {b} /\ u.listed = h1.listed \ {b}
    BY <1>6, <2>4, <2>5 DEF SameLinks, SameWorld
  <2>7. Sound(u)
    BY <2>2, <2>3, <2>5, <2>6, RemovalSound
  <2>8. w3.owner = w.owner /\ w3.version = w.version
    BY <1>2, <1>6, <2>4, <2>5 DEF SameWorld
  <2> QED
    BY <1>3, <2>7, <2>8 DEF u, w3
<1> QED
  BY <1>7, <1>8, <1>9

-----------------------------------------------------------------------------
(* Memory that nothing reaches matters to nobody.                          *)
LEMMA ReclaimedSound ==
    ASSUME NEW v, Sound(v)
    PROVE  Sound(Reclaimed(v))
<1> DEFINE held == {v.character[d] : d \in Desc} \union {v.original[d] : d \in Desc}
           A == v.alive \intersect (v.listed \union held \union MobBody)
           u == [v EXCEPT !.alive = A]
<1>0. v \in State
  BY DEF Sound
<1>1. Reclaimed(v) = u
  BY DEF Reclaimed, Sound, State
<1>2. /\ A \subseteq v.alive /\ A \in SUBSET Body
      /\ \A x \in v.alive : x \in v.listed \/ x \in MobBody => x \in A
      /\ \A d \in Desc : v.character[d] \in v.alive => v.character[d] \in A
  BY DEF Sound, State
<1> HIDE DEF A
<1>3. u \in State /\ SameLinks(u, v) /\ u.owner = v.owner /\ u.listed = v.listed /\ u.alive = A
  BY <1>0, <1>2 DEF State, SameLinks
<1> HIDE DEF u
<1>4. /\ Bodiless(u) /\ Embodied(u) /\ Played(u) /\ Linked(u) /\ Away(u) /\ AtHome(u)
      /\ OneAway(u) /\ InWorld(u) /\ Waiting(u)
  BY <1>2, <1>3 DEF Sound, SameLinks, Bodiless, Embodied, Played, Linked, Away, AtHome, OneAway,
     InWorld, Waiting
<1>5. FreedUnlinked(u) /\ OneBody(u) /\ MenuAlone(u) /\ u.listed \subseteq u.alive
  BY <1>2, <1>3 DEF Sound, SameLinks, FreedUnlinked, OneBody, MenuAlone
<1> QED
  BY <1>1, <1>3, <1>4, <1>5 DEF Sound

(* close_socket never frees a body that is in the world: in the game, with *)
(* an editor open, it only takes the link away.                            *)
LEMMA ClosedSound ==
    ASSUME EditorsCleanedUp, NEW v, NEW d \in Desc, Sound(v)
    PROVE  Sound(Closed(v, d))
<1> DEFINE c == v.character[d]
           o == v.original[d]
           N == [v.conn EXCEPT ![d] = "free"]
           X == [v.character EXCEPT ![d] = None]
           O == [v.original EXCEPT ![d] = None]
           D == [b \in Body |-> IF b # None /\ b \in {c, o} THEN None ELSE v.desc[b]]
           A == IF c # None /\ ~ KeepsBody(v, d) THEN v.alive \ {c} ELSE v.alive
           u == [v EXCEPT !.conn = N, !.character = X, !.original = O, !.desc = D, !.alive = A]
<1>1. None \notin Desc /\ None \notin Body /\ PcBody \intersect MobBody = {}
  BY BodyAssumption DEF Body
<1>2. v \in State
  BY DEF Sound
<1>3. Closed(v, d) = Reclaimed(u)
  BY <1>2 DEF Closed, State
<1>4. /\ N \in [Desc -> ConState]
      /\ X \in [Desc -> Body \union {None}] /\ O \in [Desc -> Body \union {None}]
      /\ D \in [Body -> Desc \union {None}]
      /\ A \in SUBSET Body
  BY <1>2 DEF State, ConState
<1>5. /\ \A e \in Desc : N[e] = IF e = d THEN "free" ELSE v.conn[e]
      /\ \A e \in Desc : X[e] = IF e = d THEN None ELSE v.character[e]
      /\ \A e \in Desc : O[e] = IF e = d THEN None ELSE v.original[e]
      /\ \A b \in Body : D[b] = IF b = c \/ b = o THEN None ELSE v.desc[b]
  BY <1>1, <1>2 DEF State
<1>6. c # None /\ ~ KeepsBody(v, d) => c \in PcBody /\ c \notin v.listed
  <2>1. v.conn[d] \in ConState
    BY <1>2 DEF State
  <2>2. c # None /\ ~ KeepsBody(v, d) => v.conn[d] \notin InGame \union {"disconnect"}
    BY DEF KeepsBody, AfterCleanUp, InGame, EditorsCleanedUp, CleanedUp
  <2>3. c # None /\ ~ KeepsBody(v, d) => v.conn[d] \in {"password", "menu", "close"}
    BY <2>1, <2>2, Names DEF Sound, Bodiless
  <2> QED
    BY <2>3 DEF Sound, Waiting
<1>7. /\ A \subseteq v.alive
      /\ \A x \in v.alive : x \in v.listed \/ x \in MobBody \/ x # c => x \in A
  BY <1>1, <1>6
<1> HIDE DEF N, X, O, D, A
<1>8. /\ u \in State /\ u.conn = N /\ u.character = X /\ u.original = O /\ u.desc = D
      /\ u.alive = A /\ u.owner = v.owner /\ u.listed = v.listed
  BY <1>2, <1>4 DEF State
<1> HIDE DEF u
<1>9. Bodiless(u) /\ Embodied(u) /\ AtHome(u) /\ InWorld(u) /\ Waiting(u)
  BY <1>1, <1>5, <1>8, Names DEF Sound, Bodiless, Embodied, AtHome, InWorld, Waiting
<1>10. o # None => v.desc[o] = None /\ o \in PcBody
  BY DEF Sound, Away
<1>11. Played(u)
  <2> SUFFICES ASSUME NEW e \in Desc, u.character[e] # None
               PROVE  u.desc[u.character[e]] = e /\ u.character[e] \in u.alive
    BY DEF Played
  <2>1. e # d /\ u.character[e] = v.character[e] /\ v.character[e] \in Body
    BY <1>2, <1>5, <1>8 DEF State
  <2>2. v.desc[v.character[e]] = e /\ v.character[e] \in v.alive
    BY <2>1, <1>1, <1>8 DEF Sound, Played
  <2>3. v.character[e] # c
    BY <2>1, <2>2, <1>1 DEF Sound, Played
  <2>4. v.character[e] # o
    BY <2>1, <2>2, <1>1, <1>10
  <2> QED
    BY <2>1, <2>2, <2>3, <2>4, <1>5, <1>7, <1>8
<1>12. Linked(u)
  <2> SUFFICES ASSUME NEW b \in u.alive, u.desc[b] # None
               PROVE  u.desc[b] \in Desc /\ u.character[u.desc[b]] = b
    BY DEF Linked
  <2>1. b \in Body /\ b \in v.alive
    BY <1>4, <1>7, <1>8
  <2>2. b # c /\ u.desc[b] = v.desc[b]
    BY <2>1, <1>5, <1>8
  <2> QED
    BY <2>1, <2>2, <1>5, <1>8 DEF Sound, Linked
<1>13. Away(u) /\ OneAway(u)
  BY <1>1, <1>2, <1>5, <1>8 DEF Sound, Away, OneAway, State, Body
<1>14. FreedUnlinked(u) /\ OneBody(u) /\ MenuAlone(u) /\ u.listed \subseteq u.alive
  BY <1>1, <1>5, <1>6, <1>7, <1>8 DEF Sound, FreedUnlinked, OneBody, MenuAlone, Body
<1>15. Sound(u)
  BY <1>8, <1>9, <1>11, <1>12, <1>13, <1>14 DEF Sound
<1> QED
  BY <1>3, <1>15, ReclaimedSound

-----------------------------------------------------------------------------
(* perform_dupe_check, first loop: whoever is cut off has nothing left.    *)
LEMMA CutOffFields ==
    ASSUME NEW v \in State, NEW ks \in SUBSET Desc
    PROVE  LET u == CutOff(v, ks)
           IN  /\ u \in State /\ SameWorld(u, v)
               /\ \A e \in Desc : u.conn[e] = IF e \in ks THEN "close" ELSE v.conn[e]
               /\ \A e \in Desc : u.character[e] = IF e \in ks THEN None ELSE v.character[e]
               /\ \A e \in Desc : u.original[e] = IF e \in ks THEN None ELSE v.original[e]
               /\ \A b \in Body : u.desc[b] = IF \E k \in ks : b = v.character[k]
                                              THEN None ELSE v.desc[b]
<1> DEFINE N == [k \in Desc |-> IF k \in ks THEN "close" ELSE v.conn[k]]
           X == [k \in Desc |-> IF k \in ks THEN None ELSE v.character[k]]
           O == [k \in Desc |-> IF k \in ks THEN None ELSE v.original[k]]
           D == [b \in Body |-> IF \E k \in ks : b = v.character[k] THEN None ELSE v.desc[b]]
           u == [v EXCEPT !.conn = N, !.character = X, !.original = O, !.desc = D]
<1>1. CutOff(v, ks) = u
  BY DEF CutOff
<1>2. /\ N \in [Desc -> ConState]
      /\ X \in [Desc -> Body \union {None}] /\ O \in [Desc -> Body \union {None}]
      /\ D \in [Body -> Desc \union {None}]
  BY DEF State, ConState
<1>3. /\ \A e \in Desc : N[e] = IF e \in ks THEN "close" ELSE v.conn[e]
      /\ \A e \in Desc : X[e] = IF e \in ks THEN None ELSE v.character[e]
      /\ \A e \in Desc : O[e] = IF e \in ks THEN None ELSE v.original[e]
      /\ \A b \in Body : D[b] = IF \E k \in ks : b = v.character[k] THEN None ELSE v.desc[b]
  OBVIOUS
<1> HIDE DEF N, X, O, D
<1>4. /\ u \in State /\ SameWorld(u, v)
      /\ u.conn = N /\ u.character = X /\ u.original = O /\ u.desc = D
  BY <1>2 DEF State, SameWorld
<1> HIDE DEF u
<1> QED
  BY <1>1, <1>3, <1>4

LEMMA CutOffSound ==
    ASSUME EditorsCleanedUp, NEW v, NEW ks \in SUBSET Desc, Sound(v)
    PROVE  Sound(CutOff(v, ks))
<1> DEFINE u == CutOff(v, ks)
<1>1. None \notin Desc /\ None \notin Body /\ PcBody \intersect MobBody = {}
  BY BodyAssumption DEF Body
<1>2. v \in State
  BY DEF Sound
<1>3. /\ u \in State /\ SameWorld(u, v)
      /\ \A e \in Desc : u.conn[e] = IF e \in ks THEN "close" ELSE v.conn[e]
      /\ \A e \in Desc : u.character[e] = IF e \in ks THEN None ELSE v.character[e]
      /\ \A e \in Desc : u.original[e] = IF e \in ks THEN None ELSE v.original[e]
      /\ \A b \in Body : u.desc[b] = IF \E k \in ks : b = v.character[k]
                                     THEN None ELSE v.desc[b]
  BY <1>2, CutOffFields
<1> HIDE DEF u
<1>4. Bodiless(u) /\ Embodied(u) /\ AtHome(u) /\ InWorld(u) /\ Waiting(u)
  BY <1>1, <1>3, Names DEF Sound, Bodiless, Embodied, AtHome, InWorld, Waiting, SameWorld
<1>5. Played(u)
  <2> SUFFICES ASSUME NEW e \in Desc, u.character[e] # None
               PROVE  u.desc[u.character[e]] = e /\ u.character[e] \in u.alive
    BY DEF Played
  <2>1. e \notin ks /\ u.character[e] = v.character[e] /\ v.character[e] \in Body
    BY <1>2, <1>3 DEF State
  <2>2. v.desc[v.character[e]] = e /\ v.character[e] \in v.alive
    BY <2>1, <1>1 DEF Sound, Played
  <2>3. \A k \in ks : v.character[k] # v.character[e]
    BY <2>1, <2>2, <1>1 DEF Sound, Played
  <2> QED
    BY <2>1, <2>2, <2>3, <1>3 DEF SameWorld
<1>6. Linked(u)
  <2> SUFFICES ASSUME NEW b \in u.alive, u.desc[b] # None
               PROVE  u.desc[b] \in Desc /\ u.character[u.desc[b]] = b
    BY DEF Linked
  <2>1. b \in Body /\ b \in v.alive
    BY <1>2, <1>3 DEF SameWorld, State
  <2>2. u.desc[b] = v.desc[b] /\ \A k \in ks : v.character[k] # b
    BY <2>1, <1>3
  <2> QED
    BY <2>1, <2>2, <1>3 DEF Sound, Linked
<1>7. Away(u) /\ OneAway(u) /\ FreedUnlinked(u)
  BY <1>1, <1>3 DEF Sound, Away, OneAway, FreedUnlinked, SameWorld, Body
<1>8. OneBody(u) /\ MenuAlone(u) /\ u.listed \subseteq u.alive
  BY <1>3 DEF Sound, OneBody, MenuAlone, SameWorld
<1> QED
  BY <1>3, <1>4, <1>5, <1>6, <1>7, <1>8 DEF Sound, u

-----------------------------------------------------------------------------
(* A connection may change its state when the new one demands no more than *)
(* what it has.                                                            *)
LEMMA ConnSound ==
    ASSUME EditorsCleanedUp, NEW v, NEW d \in Desc, NEW x \in ConState, Sound(v),
           x \in {"free", "name"} => v.character[d] = None /\ v.original[d] = None,
           x \in {"password", "menu"} => v.character[d] # None,
           x \in InGame => v.character[d] # None /\ v.character[d] \in v.listed,
           x \in {"password", "menu", "close"} /\ v.character[d] # None =>
               v.character[d] \in PcBody /\ v.character[d] \notin v.listed,
           x = "menu" =>
               /\ \A b \in v.listed \intersect PcBody :
                      v.owner[b] # v.owner[v.character[d]]
               /\ \A e \in Desc : e # d /\ v.conn[e] = "menu" =>
                      v.owner[v.character[e]] # v.owner[v.character[d]]
    PROVE  Sound([v EXCEPT !.conn[d] = x])
<1> DEFINE N == [v.conn EXCEPT ![d] = x]
           u == [v EXCEPT !.conn = N]
<1>1. v \in State
  BY DEF Sound
<1>2. [v EXCEPT !.conn[d] = x] = u
  BY <1>1 DEF State
<1>3. N \in [Desc -> ConState] /\ \A e \in Desc : N[e] = IF e = d THEN x ELSE v.conn[e]
  BY <1>1 DEF State
<1> HIDE DEF N
<1>4. /\ u \in State /\ u.conn = N /\ u.character = v.character /\ u.original = v.original
      /\ u.desc = v.desc /\ SameWorld(u, v)
  BY <1>1, <1>3 DEF State, SameWorld
<1> HIDE DEF u
<1>5. Bodiless(u) /\ Embodied(u) /\ AtHome(u)
  BY <1>3, <1>4 DEF Sound, Bodiless, Embodied, AtHome
<1>6. InWorld(u) /\ Waiting(u)
  BY <1>3, <1>4 DEF Sound, InWorld, Waiting, SameWorld
<1>7. Played(u) /\ Linked(u) /\ Away(u) /\ OneAway(u) /\ FreedUnlinked(u)
  BY <1>4 DEF Sound, Played, Linked, Away, OneAway, FreedUnlinked, SameWorld
<1>8. OneBody(u) /\ u.listed \subseteq u.alive
  BY <1>4 DEF Sound, OneBody, SameWorld
<1>9. MenuAlone(u)
  BY <1>3, <1>4 DEF Sound, MenuAlone, SameWorld
<1> QED
  BY <1>2, <1>4, <1>5, <1>6, <1>7, <1>8, <1>9 DEF Sound

(* perform_dupe_check: the body that was just loaded is freed, and the     *)
(* connection goes on with one that nobody else has.                       *)
LEMMA TakenOverSound ==
    ASSUME EditorsCleanedUp, NEW v, NEW d \in Desc, NEW t \in PcBody, Sound(v),
           v.conn[d] = "password", t \in v.listed, v.desc[t] = None,
           \A e \in Desc : v.original[e] # t,
           \A e \in Desc : v.conn[e] = "menu" => v.owner[v.character[e]] # v.owner[t]
    PROVE  Sound(TakenOver(v, d, t))
<1> DEFINE c == v.character[d]
           N == [v.conn EXCEPT ![d] = "playing"]
           X == [v.character EXCEPT ![d] = t]
           O == [v.original EXCEPT ![d] = None]
           D == [v.desc EXCEPT ![t] = d]
           A == v.alive \ {c}
           u == [v EXCEPT !.conn = N, !.character = X, !.original = O, !.desc = D, !.alive = A]
<1>1. None \notin Desc /\ None \notin Body /\ PcBody \intersect MobBody = {} /\ t \in Body
  BY BodyAssumption DEF Body
<1>2. v \in State
  BY DEF Sound
<1>3. /\ c \in PcBody /\ c \notin v.listed /\ v.desc[c] = d /\ c \in v.alive
      /\ t \in v.alive /\ c # t
  BY <1>1 DEF Sound, Embodied, Waiting, Played
<1>4. TakenOver(v, d, t) = u
  BY <1>2 DEF TakenOver, State
<1>5. /\ N \in [Desc -> ConState]
      /\ X \in [Desc -> Body \union {None}] /\ O \in [Desc -> Body \union {None}]
      /\ D \in [Body -> Desc \union {None}]
      /\ A \in SUBSET Body
  BY <1>1, <1>2 DEF State, ConState
<1>6. /\ \A e \in Desc : N[e] = IF e = d THEN "playing" ELSE v.conn[e]
      /\ \A e \in Desc : X[e] = IF e = d THEN t ELSE v.character[e]
      /\ \A e \in Desc : O[e] = IF e = d THEN None ELSE v.original[e]
      /\ \A b \in Body : D[b] = IF b = t THEN d ELSE v.desc[b]
      /\ \A x \in Body : x \in A <=> x \in v.alive /\ x # c
  BY <1>1, <1>2 DEF State
<1> HIDE DEF N, X, O, D, A
<1>7. /\ u \in State /\ u.conn = N /\ u.character = X /\ u.original = O /\ u.desc = D
      /\ u.alive = A /\ u.owner = v.owner /\ u.listed = v.listed
  BY <1>2, <1>5 DEF State
<1> HIDE DEF u
<1>8. Bodiless(u) /\ Embodied(u) /\ AtHome(u) /\ InWorld(u) /\ Waiting(u)
  BY <1>1, <1>6, <1>7, Names DEF Sound, Bodiless, Embodied, AtHome, InWorld, Waiting
<1>9. Played(u)
  <2> SUFFICES ASSUME NEW e \in Desc, u.character[e] # None
               PROVE  u.desc[u.character[e]] = e /\ u.character[e] \in u.alive
    BY DEF Played
  <2>1. CASE e = d
    BY <2>1, <1>1, <1>3, <1>6, <1>7
  <2>2. CASE e # d
    <3>1. u.character[e] = v.character[e] /\ v.character[e] \in Body
      BY <2>2, <1>2, <1>6, <1>7 DEF State
    <3>2. v.desc[v.character[e]] = e /\ v.character[e] \in v.alive
      BY <3>1, <1>1 DEF Sound, Played
    <3>3. v.character[e] # c /\ v.character[e] # t
      BY <2>2, <3>2, <1>1, <1>3
    <3> QED
      BY <3>1, <3>2, <3>3, <1>6, <1>7
  <2> QED
    BY <2>1, <2>2
<1>10. Linked(u)
  <2> SUFFICES ASSUME NEW b \in u.alive, u.desc[b] # None
               PROVE  u.desc[b] \in Desc /\ u.character[u.desc[b]] = b
    BY DEF Linked
  <2>1. b \in Body /\ b \in v.alive /\ b # c
    BY <1>5, <1>6, <1>7
  <2>2. CASE b = t
    BY <2>1, <2>2, <1>6, <1>7
  <2>3. CASE b # t
    BY <2>1, <2>3, <1>3, <1>6, <1>7 DEF Sound, Linked
  <2> QED
    BY <2>2, <2>3
<1>11. Away(u) /\ OneAway(u)
  BY <1>1, <1>2, <1>6, <1>7 DEF Sound, Away, OneAway, State, Body
<1>12. FreedUnlinked(u) /\ OneBody(u) /\ u.listed \subseteq u.alive
  BY <1>1, <1>2, <1>3, <1>6, <1>7 DEF Sound, FreedUnlinked, OneBody, Body, State
<1>13. MenuAlone(u)
  BY <1>6, <1>7 DEF Sound, MenuAlone
<1> QED
  BY <1>4, <1>7, <1>8, <1>9, <1>10, <1>11, <1>12, <1>13 DEF Sound

(* The whole of perform_dupe_check: after the other connections of the     *)
(* player are cut off, the player's body in the world, if there is one,    *)
(* has no link, so that it can be taken over and no second one remains.    *)
LEMMA LoggedInSound ==
    ASSUME EditorsCleanedUp, NEW v, NEW d \in Desc, Sound(v), v.conn[d] = "password",
           NEW u \in LoggedIn(v, d)
    PROVE  Sound(u)
<1> DEFINE c  == v.character[d]
           p  == v.owner[c]
           ks == Others(v, d, p)
           w1 == CutOff(v, ks)
           ts == IF Candidates(v, d, p) # {} THEN Candidates(v, d, p) ELSE Linkless(w1, p)
<1>1. None \notin Desc /\ None \notin Body /\ PcBody \intersect MobBody = {}
  BY BodyAssumption DEF Body
<1>2. v \in State
  BY DEF Sound
<1>3. c \in PcBody /\ c \notin v.listed /\ v.original[d] = None
  BY <1>1 DEF Sound, Embodied, Waiting, Away
<1>4. ks \in SUBSET Desc /\ d \notin ks
  BY DEF Others, Connected
<1>5. /\ Sound(w1)
      /\ w1 \in State /\ SameWorld(w1, v)
      /\ \A e \in Desc : w1.conn[e] = IF e \in ks THEN "close" ELSE v.conn[e]
      /\ \A e \in Desc : w1.character[e] = IF e \in ks THEN None ELSE v.character[e]
      /\ \A e \in Desc : w1.original[e] = IF e \in ks THEN None ELSE v.original[e]
      /\ \A b \in Body : w1.desc[b] = IF \E k \in ks : b = v.character[k]
                                      THEN None ELSE v.desc[b]
  BY <1>2, <1>4, CutOffFields, CutOffSound
<1> HIDE DEF w1
<1>6. w1.conn[d] = "password" /\ w1.character[d] = c
  BY <1>4, <1>5
<1>7. \A e \in Desc : e # d /\ e \notin ks =>
          /\ v.character[e] \in PcBody => v.owner[v.character[e]] # p
          /\ v.original[e] # None => v.owner[v.original[e]] # p
  <2> SUFFICES ASSUME NEW e \in Desc, e # d, e \notin ks
               PROVE  /\ v.character[e] \in PcBody => v.owner[v.character[e]] # p
                      /\ v.original[e] # None => v.owner[v.original[e]] # p
    OBVIOUS
  <2>1. e \in Connected(v) => ~ IsOf(v, v.original[e], p) /\ ~ IsOf(v, v.character[e], p)
    BY DEF Others
  <2>2. CASE v.character[e] \in PcBody
    <3>1. v.character[e] # None
      BY <2>2, <1>1 DEF Body
    <3>2. e \in Connected(v) /\ v.character[e] \in v.alive
      BY <3>1 DEF Sound, Bodiless, Connected, Played
    <3>3. v.owner[v.character[e]] # p
      BY <2>1, <2>2, <3>2 DEF IsOf
    <3>4. v.original[e] = None
      BY <2>2, <1>1 DEF Sound, Away
    <3> QED
      BY <3>3, <3>4
  <2>3. CASE v.character[e] \notin PcBody
    <3>1. ASSUME v.original[e] # None PROVE v.owner[v.original[e]] # p
      <4>1. e \in Connected(v)
        BY <3>1 DEF Sound, Bodiless, Connected
      <4>2. v.original[e] \in PcBody /\ v.original[e] \in v.alive
        BY <3>1 DEF Sound, Away
      <4> QED
        BY <2>1, <4>1, <4>2 DEF IsOf
    <3> QED
      BY <2>3, <3>1
  <2> QED
    BY <2>2, <2>3
<1> HIDE DEF ks
<1>8. \A e \in Desc : e # d /\ w1.conn[e] = "menu" => w1.owner[w1.character[e]] # p
  <2> SUFFICES ASSUME NEW e \in Desc, e # d, w1.conn[e] = "menu"
               PROVE  w1.owner[w1.character[e]] # p
    OBVIOUS
  <2>1. e \notin ks /\ v.character[e] = w1.character[e]
    BY <1>5
  <2>2. v.character[e] \in PcBody
    BY <2>1, <1>5 DEF Sound, Embodied, Waiting
  <2> QED
    BY <2>1, <2>2, <1>5, <1>7 DEF SameWorld
<1>9. CASE ts = {}
  <2>1. u = Reclaimed([w1 EXCEPT !.conn[d] = "menu"])
    BY <1>9 DEF LoggedIn, w1, ks
  <2>2. \A b \in w1.listed \intersect PcBody : w1.owner[b] # p
    <3> SUFFICES ASSUME NEW b \in w1.listed \intersect PcBody, w1.owner[b] = p
                 PROVE  FALSE
      OBVIOUS
    <3>1. b \in w1.alive /\ b \in Body
      BY <1>5 DEF Sound, Body
    <3>2. Linkless(w1, p) = {}
      BY <1>9
    <3>3. w1.desc[b] # None
      BY <3>1, <3>2 DEF Linkless, IsOf
    <3> DEFINE e == w1.desc[b]
    <3>4. e \in Desc /\ w1.character[e] = b
      BY <3>1, <3>3, <1>5 DEF Sound, Linked
    <3>5. e # d
      BY <3>4, <1>3, <1>5, <1>6 DEF SameWorld
    <3>6. e \notin ks /\ v.character[e] = b
      BY <3>4, <1>1, <1>5, <3>1
    <3> QED
      BY <3>4, <3>5, <3>6, <1>5, <1>7 DEF SameWorld
  <2>3. "menu" \in ConState /\ "menu" \notin InGame
    BY Names DEF ConState
  <2>4. c # None /\ c \notin w1.listed
    BY <1>1, <1>3, <1>5 DEF SameWorld, Body
  <2>5. Sound([w1 EXCEPT !.conn[d] = "menu"])
    BY <1>3, <1>5, <1>6, <1>8, <2>2, <2>3, <2>4, ConnSound DEF SameWorld
  <2> QED
    BY <2>1, <2>5, ReclaimedSound
<1>10. CASE ts # {}
  <2>1. PICK t \in ts :
          u = Reclaimed(TakenOver(Discarded(w1, Linkless(w1, p) \ {t}), d, t))
    BY <1>10 DEF LoggedIn, w1, ks
  <2>2. t \in PcBody /\ t \in v.listed /\ v.owner[t] = p /\ w1.desc[t] = None
    <3>1. CASE t \in Candidates(v, d, p)
      <4>1. PICK k \in ks :
              \/ t = v.original[k] /\ IsOf(v, t, p)
              \/ t = v.character[k] /\ v.conn[k] = "playing"
                   /\ (IsOf(v, v.original[k], p) \/ IsOf(v, v.character[k], p))
                   /\ ~ IsOf(v, v.original[k], p)
        BY <3>1 DEF Candidates, Others, ks
      <4>2. k \in Desc
        BY <1>4
      <4>3. CASE t = v.original[k] /\ IsOf(v, t, p)
        <5>1. t # None /\ t \in Body
          BY <4>3, <1>1 DEF IsOf, Body
        <5> QED
          BY <4>2, <4>3, <5>1, <1>5 DEF IsOf, Sound, Away
      <4>4. CASE t = v.character[k] /\ v.conn[k] = "playing" /\ IsOf(v, t, p)
        <5>1. t \in v.listed /\ t \in Body
          BY <4>2, <4>4, Names DEF Sound, InWorld, IsOf, Body
        <5> QED
          BY <4>4, <5>1, <1>5 DEF IsOf
      <4> QED
        BY <4>1, <4>3, <4>4
    <3>2. CASE t \in Linkless(w1, p)
      BY <3>2, <1>5 DEF Linkless, IsOf, SameWorld
    <3> QED
      BY <3>1, <3>2
  <2>3. t \in w1.listed /\ w1.owner[t] = p
    BY <2>2, <1>5 DEF SameWorld
  <2>4. Linkless(w1, p) \ {t} = {}
    BY <2>2, <2>3, <1>5 DEF Linkless, IsOf, Sound, OneBody
  <2>5. Discarded(w1, Linkless(w1, p) \ {t}) = w1
    <3>1. w1.listed \ {} = w1.listed /\ w1.alive \ {} = w1.alive
      OBVIOUS
    <3> QED
      BY <2>4, <3>1, <1>5 DEF Discarded, State
  <2>6. \A e \in Desc : w1.original[e] # t
    <3> SUFFICES ASSUME NEW e \in Desc, w1.original[e] = t PROVE FALSE
      OBVIOUS
    <3>1. t # None
      BY <2>2, <1>1 DEF Body
    <3>2. e \notin ks /\ v.original[e] = t
      BY <3>1, <1>5
    <3> QED
      BY <2>2, <3>1, <3>2, <1>3, <1>7
  <2>7. \A e \in Desc : w1.conn[e] = "menu" => w1.owner[w1.character[e]] # w1.owner[t]
    BY <2>3, <1>6, <1>8
  <2>8. Sound(TakenOver(w1, d, t))
    BY <1>5, <1>6, <2>2, <2>3, <2>6, <2>7, TakenOverSound
  <2> QED
    BY <2>1, <2>5, <2>8, ReclaimedSound
<1> QED
  BY <1>9, <1>10

-----------------------------------------------------------------------------
LEMMA SavedTyped ==
    ASSUME NEW w, NEW f \in [Player -> 0 .. MaxVersion], NEW b,
           w.owner \in [PcBody -> Player], w.version \in [PcBody -> 0 .. MaxVersion]
    PROVE  Saved(w, f, b) \in [Player -> 0 .. MaxVersion]
BY DEF Saved

LEMMA InitSound == ASSUME EditorsCleanedUp, Init PROVE Inv
<1>1. None \notin Desc /\ None \notin Body /\ None \notin PcBody
  BY BodyAssumption DEF Body
<1>2. 0 \in 0 .. MaxVersion /\ (CHOOSE p \in Player : TRUE) \in Player
  BY VersionAssumption, PlayerAssumption
<1>3. s \in State
  BY <1>2 DEF Init, State, ConState, Body
<1>4. /\ \A d \in Desc : s.conn[d] = "free" /\ s.character[d] = None /\ s.original[d] = None
      /\ \A b \in Body : s.desc[b] = None
      /\ s.listed = s.alive /\ s.listed \intersect PcBody = {} /\ s.alive \subseteq Body
  BY BodyAssumption DEF Init, Body
<1>5. "free" \notin InGame
  BY Names
<1>6. Bodiless(s) /\ Embodied(s) /\ Played(s) /\ Linked(s) /\ Away(s) /\ AtHome(s) /\ OneAway(s)
  BY <1>4, <1>5 DEF Bodiless, Embodied, Played, Linked, Away, AtHome, OneAway
<1>7. InWorld(s) /\ Waiting(s) /\ FreedUnlinked(s) /\ OneBody(s) /\ MenuAlone(s)
      /\ s.listed \subseteq s.alive
  BY <1>4, <1>5 DEF InWorld, Waiting, FreedUnlinked, OneBody, MenuAlone, Body
<1> QED
  BY <1>2, <1>3, <1>6, <1>7 DEF Sound, Inv, Init

(* What a command leaves to show, once its effect on the links is known.   *)
LEMMA TurnKeeps ==
    ASSUME Inv, NEW d \in Desc, Turn(d), Sound(s'), file' \in [Player -> 0 .. MaxVersion],
           lastQuit' \in [Player -> 0 .. MaxVersion]
    PROVE  Inv'
BY DEF Inv, Turn

(* A command that changes nothing but the state of the connection e, to    *)
(* one of the marks or to one that the body it has is fit for.             *)
LEMMA MarkedSound ==
    ASSUME EditorsCleanedUp, Inv, NEW e \in Desc
    PROVE  /\ Sound([s EXCEPT !.conn[e] = "disconnect"])
           /\ s.conn[e] \in {"name", "password", "menu"} => Sound([s EXCEPT !.conn[e] = "close"])
<1>1. Sound(s)
  BY DEF Inv
<1>2. /\ "disconnect" \in ConState \ InGame /\ "close" \in ConState \ InGame
  BY Names DEF ConState
<1>3. Sound([s EXCEPT !.conn[e] = "disconnect"])
  BY <1>1, <1>2, ConnSound
<1>4. ASSUME s.conn[e] \in {"name", "password", "menu"}
      PROVE  Sound([s EXCEPT !.conn[e] = "close"])
  <2>1. s.character[e] # None => s.character[e] \in PcBody /\ s.character[e] \notin s.listed
    BY <1>1, <1>4 DEF Sound, Bodiless, Waiting
  <2> QED
    BY <1>1, <1>2, <2>1, ConnSound
<1> QED
  BY <1>3, <1>4

-----------------------------------------------------------------------------
(* The handlers of nanny.                                                  *)
LEMMA EnterNameKeeps ==
    ASSUME EditorsCleanedUp, Inv, NEW d \in Desc, NEW p \in Player, NEW b \in PcBody,
           EnterName(d, p, b)
    PROVE  Inv'
<1> DEFINE N == [s.conn EXCEPT ![d] = "password"]
           X == [s.character EXCEPT ![d] = b]
           D == [s.desc EXCEPT ![b] = d]
           W == [s.owner EXCEPT ![b] = p]
           V == [s.version EXCEPT ![b] = file[p]]
           A == s.alive \union {b}
           u == [s EXCEPT !.conn = N, !.character = X, !.desc = D, !.owner = W,
                          !.version = V, !.alive = A]
<1>1. None \notin Desc /\ None \notin Body /\ PcBody \intersect MobBody = {} /\ b \in Body
  BY BodyAssumption DEF Body
<1>2. Sound(s) /\ s \in State /\ file[p] \in 0 .. MaxVersion
  BY DEF Inv, Sound
<1>3. s.conn[d] = "name" /\ b \notin s.alive /\ Turn(d) /\ UNCHANGED <<file, lastQuit>>
  BY DEF EnterName
<1>4. s' = u
  BY <1>2 DEF EnterName, State
<1>5. /\ N \in [Desc -> ConState] /\ X \in [Desc -> Body \union {None}]
      /\ D \in [Body -> Desc \union {None}] /\ W \in [PcBody -> Player]
      /\ V \in [PcBody -> 0 .. MaxVersion] /\ A \in SUBSET Body
  BY <1>1, <1>2 DEF State, ConState
<1>6. /\ \A e \in Desc : N[e] = IF e = d THEN "password" ELSE s.conn[e]
      /\ \A e \in Desc : X[e] = IF e = d THEN b ELSE s.character[e]
      /\ \A x \in Body : D[x] = IF x = b THEN d ELSE s.desc[x]
      /\ \A x \in PcBody : W[x] = IF x = b THEN p ELSE s.owner[x]
      /\ \A x \in Body : x \in A <=> x \in s.alive \/ x = b
  BY <1>1, <1>2 DEF State
<1> HIDE DEF N, X, D, W, V, A
<1>7. /\ u \in State /\ u.conn = N /\ u.character = X /\ u.original = s.original /\ u.desc = D
      /\ u.owner = W /\ u.alive = A /\ u.listed = s.listed
  BY <1>2, <1>5 DEF State
<1> HIDE DEF u
<1>8. b \notin s.listed /\ \A e \in Desc : s.character[e] # b /\ s.original[e] # b
  BY <1>1, <1>2, <1>3 DEF Sound, Played, Away
<1>9. s.original[d] = None /\ s.character[d] = None
  BY <1>2, <1>3 DEF Sound, Bodiless
<1>10. Bodiless(u) /\ Embodied(u) /\ AtHome(u) /\ InWorld(u) /\ Waiting(u)
  BY <1>1, <1>2, <1>6, <1>7, <1>8, Names DEF Sound, Bodiless, Embodied, AtHome, InWorld, Waiting
<1>11. Played(u) /\ Linked(u)
  <2>1. \A e \in Desc : e # d /\ s.character[e] # None =>
            s.character[e] \in Body /\ s.character[e] # b
    BY <1>2, <1>8 DEF State
  <2>2. Played(u)
    BY <1>1, <1>2, <1>6, <1>7, <2>1 DEF Sound, Played
  <2>3. \A x \in s.alive : x # b /\ s.desc[x] # None => s.desc[x] # d
    BY <1>1, <1>2, <1>9 DEF Sound, Linked, State
  <2>4. Linked(u)
    BY <1>1, <1>2, <1>3, <1>6, <1>7, <2>3 DEF Sound, Linked, State
  <2> QED
    BY <2>2, <2>4
<1>12. Away(u) /\ OneAway(u) /\ FreedUnlinked(u)
  BY <1>1, <1>2, <1>6, <1>7, <1>8, <1>9 DEF Sound, Away, OneAway, FreedUnlinked, Body
<1>13. OneBody(u) /\ u.listed \subseteq u.alive
  BY <1>1, <1>2, <1>6, <1>7, <1>8 DEF Sound, OneBody, State
<1>14. MenuAlone(u)
  <2>1. \A e \in Desc : u.conn[e] = "menu" =>
           /\ e # d /\ s.conn[e] = "menu" /\ u.character[e] = s.character[e]
           /\ s.character[e] \in PcBody /\ u.owner[s.character[e]] = s.owner[s.character[e]]
    BY <1>2, <1>6, <1>7, <1>8 DEF Sound, Embodied, Waiting
  <2>2. \A x \in s.listed \intersect PcBody : u.owner[x] = s.owner[x]
    BY <1>6, <1>7, <1>8
  <2> QED
    BY <1>2, <1>7, <2>1, <2>2 DEF Sound, MenuAlone
<1>15. Sound(s')
  BY <1>4, <1>7, <1>10, <1>11, <1>12, <1>13, <1>14 DEF Sound
<1> QED
  BY <1>3, <1>15, TurnKeeps DEF Inv

LEMMA EnterGameKeeps ==
    ASSUME EditorsCleanedUp, Inv, NEW d \in Desc, EnterGame(d)
    PROVE  Inv'
<1> DEFINE c == s.character[d]
           N == [s.conn EXCEPT ![d] = "playing"]
           L == s.listed \union {c}
           u == [s EXCEPT !.conn = N, !.listed = L]
<1>1. None \notin Desc /\ None \notin Body /\ PcBody \intersect MobBody = {}
  BY BodyAssumption DEF Body
<1>2. Sound(s) /\ s \in State
  BY DEF Inv, Sound
<1>3. Turn(d) /\ s.conn[d] = "menu" /\ UNCHANGED lastQuit /\ file' = Saved(s, file, c)
  BY DEF EnterGame, Menu
<1>4. /\ c \in PcBody /\ c \notin s.listed /\ c \in s.alive /\ c \in Body /\ s.desc[c] = d
      /\ s.original[d] = None
  BY <1>1, <1>2, <1>3 DEF Sound, Embodied, Waiting, Played, Away, Body
<1>5. s' = u
  BY <1>2 DEF EnterGame, State
<1>6. /\ N \in [Desc -> ConState] /\ L \in SUBSET Body
      /\ \A e \in Desc : N[e] = IF e = d THEN "playing" ELSE s.conn[e]
      /\ \A x \in Body : x \in L <=> x \in s.listed \/ x = c
  BY <1>2, <1>4 DEF State, ConState
<1> HIDE DEF N, L
<1>7. /\ u \in State /\ u.conn = N /\ u.listed = L /\ u.character = s.character
      /\ u.original = s.original /\ u.desc = s.desc /\ u.owner = s.owner /\ u.alive = s.alive
  BY <1>2, <1>6 DEF State
<1> HIDE DEF u
<1>8. \A e \in Desc : e # d => s.character[e] # c
  BY <1>1, <1>2, <1>4 DEF Sound, Played
<1>9. Bodiless(u) /\ Embodied(u) /\ AtHome(u) /\ InWorld(u) /\ Waiting(u)
  BY <1>1, <1>2, <1>4, <1>6, <1>7, <1>8, Names
     DEF Sound, Bodiless, Embodied, AtHome, InWorld, Waiting, State
<1>10. Played(u) /\ Linked(u) /\ Away(u) /\ OneAway(u) /\ FreedUnlinked(u)
  BY <1>2, <1>6, <1>7 DEF Sound, Played, Linked, Away, OneAway, FreedUnlinked, Body
<1>11. \A x \in s.listed \intersect PcBody : s.owner[x] # s.owner[c]
  BY <1>2, <1>3 DEF Sound, MenuAlone
<1>12. OneBody(u) /\ u.listed \subseteq u.alive
  BY <1>2, <1>4, <1>6, <1>7, <1>11 DEF Sound, OneBody, State, Body
<1>13. \A e \in Desc : e # d /\ s.conn[e] = "menu" => s.owner[s.character[e]] # s.owner[c]
  BY <1>2, <1>3 DEF Sound, MenuAlone
<1>14. MenuAlone(u)
  BY <1>2, <1>6, <1>7, <1>13 DEF Sound, MenuAlone, Body
<1>15. Sound(s')
  BY <1>5, <1>7, <1>9, <1>10, <1>12, <1>14 DEF Sound
<1>16. file' \in [Player -> 0 .. MaxVersion]
  BY <1>2, <1>3, SavedTyped DEF Inv, State
<1> QED
  BY <1>3, <1>15, <1>16, TurnKeeps DEF Inv

LEMMA LoginKeeps ==
    ASSUME EditorsCleanedUp, Inv, NEW d \in Desc, Login(d)
    PROVE  Inv'
<1>1. Sound(s) /\ s \in State
  BY DEF Inv, Sound
<1>2. CASE NewDescriptor(d)
  <2>1. s.conn[d] = "free" /\ s' = [s EXCEPT !.conn[d] = "name"]
    BY <1>2 DEF NewDescriptor
  <2>2. s.character[d] = None /\ s.original[d] = None
    BY <1>1, <2>1 DEF Sound, Bodiless
  <2>3. "name" \in ConState /\ "name" \notin InGame
    BY Names DEF ConState
  <2>4. Sound(s')
    BY <1>1, <2>1, <2>2, <2>3, ConnSound
  <2> QED
    BY <1>2, <2>4 DEF NewDescriptor, Inv
<1>3. CASE GiveUp(d)
  <2>1. Sound(s')
    BY <1>3, MarkedSound DEF GiveUp
  <2> QED
    BY <1>3, <2>1, TurnKeeps DEF GiveUp, Inv
<1>4. CASE BadPassword(d)
  <2>1. Turn(d) /\ s.conn[d] = "password" /\ UNCHANGED lastQuit
        /\ file' = Saved(s, file, s.character[d])
    BY <1>4 DEF BadPassword
  <2>2. [s EXCEPT !.conn[d] = "password"] = s
    BY <1>1, <2>1 DEF State
  <2>3. Sound(s')
    <3>1. CASE s' = [s EXCEPT !.conn[d] = "password"]
      BY <1>1, <2>2, <3>1
    <3>2. CASE s' = [s EXCEPT !.conn[d] = "close"]
      BY <2>1, <3>2, MarkedSound
    <3> QED
      BY <1>4, <3>1, <3>2 DEF BadPassword
  <2>4. file' \in [Player -> 0 .. MaxVersion]
    BY <1>1, <2>1, SavedTyped DEF Inv, State
  <2> QED
    BY <2>1, <2>3, <2>4, TurnKeeps DEF Inv
<1>5. CASE GoodPassword(d)
  <2>1. Sound(s')
    BY <1>1, <1>5, LoggedInSound, MarkedSound DEF GoodPassword
  <2> QED
    BY <1>5, <2>1, TurnKeeps DEF GoodPassword, Inv
<1>6. CASE LeaveMenu(d)
  <2>1. Turn(d) /\ s.conn[d] = "menu" /\ UNCHANGED lastQuit
        /\ file' = Saved(s, file, s.character[d])
    BY <1>6 DEF LeaveMenu, Menu
  <2>2. Sound(s')
    BY <1>6, <2>1, MarkedSound DEF LeaveMenu
  <2>3. file' \in [Player -> 0 .. MaxVersion]
    BY <1>1, <2>1, SavedTyped DEF Inv, State
  <2> QED
    BY <2>1, <2>2, <2>3, TurnKeeps DEF Inv
<1>7. CASE EnterGame(d)
  BY <1>7, EnterGameKeeps
<1>8. CASE StrayInput(d)
  <2>1. Sound(s')
    BY <1>8, MarkedSound DEF StrayInput
  <2> QED
    BY <1>8, <2>1, TurnKeeps DEF StrayInput, Inv
<1>9. CASE \E p \in Player, b \in PcBody : EnterName(d, p, b)
  BY <1>9, EnterNameKeeps
<1> QED
  BY <1>2, <1>3, <1>4, <1>5, <1>6, <1>7, <1>8, <1>9 DEF Login

-----------------------------------------------------------------------------
(* A mobile that comes into the world is nobody's.                         *)
LEMMA BornSound ==
    ASSUME NEW u, NEW v, NEW m \in MobBody, Sound(v), u \in State, SameLinks(u, v),
           m \notin v.alive, u.owner = v.owner, u.alive = v.alive \union {m},
           u.listed = v.listed \union {m}
    PROVE  Sound(u)
<1>1. None \notin Desc /\ None \notin Body /\ PcBody \intersect MobBody = {} /\ m \in Body
  BY BodyAssumption DEF Body
<1>2. v.desc[m] = None
  BY DEF Sound, FreedUnlinked
<1>3. Bodiless(u) /\ Embodied(u) /\ AtHome(u) /\ InWorld(u) /\ Waiting(u)
  BY <1>1 DEF Sound, Bodiless, Embodied, AtHome, InWorld, Waiting, SameLinks
<1>4. Played(u) /\ Linked(u) /\ Away(u) /\ OneAway(u) /\ FreedUnlinked(u)
  BY <1>2 DEF Sound, Played, Linked, Away, OneAway, FreedUnlinked, SameLinks
<1>5. OneBody(u) /\ MenuAlone(u) /\ u.listed \subseteq u.alive
  BY <1>1 DEF Sound, OneBody, MenuAlone, SameLinks
<1> QED
  BY <1>3, <1>4, <1>5 DEF Sound

(* A player leaves the own body for a mobile that nobody plays.            *)
Left(v, d, m) ==
    [v EXCEPT !.character[d] = m, !.original[d] = v.character[d],
              !.desc = [@ EXCEPT ![m] = d, ![v.character[d]] = None]]

LEMMA LeftSound ==
    ASSUME EditorsCleanedUp, NEW v, NEW d \in Desc, NEW m \in MobBody, Sound(v),
           m \in v.listed, v.desc[m] = None, v.conn[d] = "playing", v.character[d] \in PcBody
    PROVE  Sound(Left(v, d, m))
<1> DEFINE c == v.character[d]
           X == [v.character EXCEPT ![d] = m]
           O == [v.original EXCEPT ![d] = c]
           D == [[v.desc EXCEPT ![m] = d] EXCEPT ![c] = None]
           u == [v EXCEPT !.character = X, !.original = O, !.desc = D]
<1>1. None \notin Desc /\ None \notin Body /\ PcBody \intersect MobBody = {} /\ m \in Body
  BY BodyAssumption DEF Body
<1>2. v \in State
  BY DEF Sound
<1>3. c \in v.listed /\ c \in v.alive /\ v.desc[c] = d /\ c \in Body /\ c # m /\ m \in v.alive
  BY <1>1, Names DEF Sound, InWorld, Played, Body
<1>4. Left(v, d, m) = u
  BY <1>2 DEF Left, State
<1>5. /\ X \in [Desc -> Body \union {None}] /\ O \in [Desc -> Body \union {None}]
      /\ D \in [Body -> Desc \union {None}]
      /\ \A e \in Desc : X[e] = IF e = d THEN m ELSE v.character[e]
      /\ \A e \in Desc : O[e] = IF e = d THEN c ELSE v.original[e]
      /\ \A b \in Body : D[b] = IF b = c THEN None ELSE IF b = m THEN d ELSE v.desc[b]
  BY <1>1, <1>2, <1>3 DEF State
<1> HIDE DEF X, O, D
<1>6. /\ u \in State /\ u.conn = v.conn /\ u.character = X /\ u.original = O /\ u.desc = D
      /\ SameWorld(u, v)
  BY <1>2, <1>5 DEF State, SameWorld
<1> HIDE DEF u
<1>7. Bodiless(u) /\ Embodied(u) /\ AtHome(u) /\ InWorld(u) /\ Waiting(u)
  BY <1>1, <1>3, <1>5, <1>6, Names DEF Sound, Bodiless, Embodied, AtHome, InWorld, Waiting, SameWorld
<1>8. \A e \in Desc : e # d => v.character[e] # m /\ v.character[e] # c /\ v.original[e] # c
  BY <1>1, <1>3 DEF Sound, Played, Away
<1>9. Played(u)
  BY <1>1, <1>2, <1>3, <1>5, <1>6, <1>8 DEF Sound, Played, SameWorld, State
<1>10. Linked(u)
  <2> SUFFICES ASSUME NEW b \in u.alive, u.desc[b] # None
               PROVE  u.desc[b] \in Desc /\ u.character[u.desc[b]] = b
    BY DEF Linked
  <2>1. b \in Body /\ b \in v.alive /\ b # c
    BY <1>2, <1>5, <1>6 DEF SameWorld, State
  <2>2. CASE b = m
    BY <2>1, <2>2, <1>5, <1>6
  <2>3. CASE b # m
    BY <2>1, <2>3, <1>5, <1>6 DEF Sound, Linked
  <2> QED
    BY <2>2, <2>3
<1>11. Away(u) /\ OneAway(u) /\ FreedUnlinked(u)
  BY <1>1, <1>3, <1>5, <1>6, <1>8 DEF Sound, Away, OneAway, FreedUnlinked, SameWorld, Body
<1>12. OneBody(u) /\ u.listed \subseteq u.alive
  BY <1>6 DEF Sound, OneBody, SameWorld
<1>13. MenuAlone(u)
  BY <1>5, <1>6 DEF Sound, MenuAlone, SameWorld
<1> QED
  BY <1>4, <1>6, <1>7, <1>9, <1>10, <1>11, <1>12, <1>13 DEF Sound

(* Any connections may be marked for closing.                              *)
LEMMA DisconnectedSound ==
    ASSUME EditorsCleanedUp, NEW u, NEW v, Sound(v), u \in State,
           \A e \in Desc : u.conn[e] \in {v.conn[e], "disconnect"},
           u.character = v.character, u.original = v.original, u.desc = v.desc, SameWorld(u, v)
    PROVE  Sound(u)
<1>1. "disconnect" \notin InGame
  BY Names
<1>2. Bodiless(u) /\ Embodied(u) /\ AtHome(u) /\ InWorld(u) /\ Waiting(u)
  BY <1>1 DEF Sound, Bodiless, Embodied, AtHome, InWorld, Waiting, SameWorld
<1>3. Played(u) /\ Linked(u) /\ Away(u) /\ OneAway(u) /\ FreedUnlinked(u)
  BY DEF Sound, Played, Linked, Away, OneAway, FreedUnlinked, SameWorld
<1>4. OneBody(u) /\ MenuAlone(u) /\ u.listed \subseteq u.alive
  BY DEF Sound, OneBody, MenuAlone, SameWorld
<1> QED
  BY <1>2, <1>3, <1>4 DEF Sound

(* Whoever plays something is in the world with it.                        *)
LEMMA InTheWorld ==
    ASSUME EditorsCleanedUp, Inv, NEW d \in Desc, Plays(d)
    PROVE  /\ Sound(s) /\ s \in State /\ s.conn[d] = "playing" /\ Turn(d)
           /\ s.character[d] \in s.listed /\ s.character[d] \in Body
           /\ s.character[d] \in s.alive
<1>1. Sound(s) /\ s \in State /\ s.conn[d] = "playing" /\ Turn(d)
  BY DEF Inv, Sound, Plays
<1>2. s.character[d] \in s.listed
  BY <1>1, Names DEF Sound, InWorld
<1> QED
  BY <1>1, <1>2 DEF Sound, State

LEMMA SaveKeeps ==
    ASSUME EditorsCleanedUp, Inv, NEW d \in Desc, DoSave(d)
    PROVE  Inv'
<1>1. Sound(s) /\ s \in State /\ Turn(d)
  BY InTheWorld DEF DoSave
<1>2. s' \in Gained(s, s.character[d]) /\ file' = Saved(s', file, s.character[d])
      /\ UNCHANGED lastQuit
  BY DEF DoSave
<1>3. Sound(s')
  <2>1. CASE s' = s
    BY <1>1, <2>1
  <2>2. CASE s' # s
    <3>1. PICK v \in s.version[s.character[d]] .. MaxVersion :
            s' = [s EXCEPT !.version[s.character[d]] = v] /\ s.character[d] \in PcBody
      BY <1>2, <2>2 DEF Gained
    <3> DEFINE V == [s.version EXCEPT ![s.character[d]] = v]
    <3>2. s.version[s.character[d]] \in Nat
      BY <1>1, <3>1 DEF State
    <3>3. v \in 0 .. MaxVersion
      BY <3>2, VersionAssumption
    <3>4. V \in [PcBody -> 0 .. MaxVersion] /\ s' = [s EXCEPT !.version = V]
      BY <1>1, <3>1, <3>3 DEF State
    <3> HIDE DEF V
    <3>5. s' \in State /\ SameLinks(s', s) /\ SameWorld(s', s)
      BY <1>1, <3>4 DEF State, SameLinks, SameWorld
    <3> QED
      BY <1>1, <3>5, SameLinksSound
  <2> QED
    BY <2>1, <2>2
<1>4. file' \in [Player -> 0 .. MaxVersion]
  BY <1>2, <1>3, SavedTyped DEF Inv, Sound, State
<1> QED
  BY <1>1, <1>2, <1>3, <1>4, TurnKeeps DEF Inv

LEMMA QuitKeeps ==
    ASSUME EditorsCleanedUp, Inv, NEW d \in Desc, DoQuit(d)
    PROVE  Inv'
<1> DEFINE b == s.character[d]
           p == s.owner[b]
           N == [e \in Desc |-> IF e # d /\ IsOf(s, s.character[e], p) THEN "disconnect"
                                ELSE s.conn[e]]
           w == [s EXCEPT !.conn = N]
<1>1. /\ Sound(s) /\ s \in State /\ Turn(d)
      /\ b \in s.listed /\ b \in Body /\ b \in PcBody
  BY InTheWorld DEF DoQuit
<1>2. /\ s' = Extracted(w, b) /\ file' = ExtractedFile(w, file, b)
      /\ lastQuit' = IF s.original[d] = None
                     THEN [lastQuit EXCEPT ![p] = s.version[b]] ELSE lastQuit
  BY DEF DoQuit
<1>3. N \in [Desc -> ConState] /\ \A e \in Desc : N[e] \in {s.conn[e], "disconnect"}
  BY <1>1 DEF State, ConState
<1> HIDE DEF N
<1>4. /\ w \in State /\ w.conn = N /\ w.character = s.character /\ w.original = s.original
      /\ w.desc = s.desc /\ SameWorld(w, s) /\ w.version = s.version
  BY <1>1, <1>3 DEF State, SameWorld
<1> HIDE DEF w
<1>5. Sound(w)
  BY <1>1, <1>3, <1>4, DisconnectedSound
<1>6. /\ Sound(s') /\ TakenOut(w, b).owner = s.owner /\ TakenOut(w, b).version = s.version
  BY <1>1, <1>2, <1>4, <1>5, ExtractedSound DEF SameWorld
<1>7. file' \in [Player -> 0 .. MaxVersion]
  BY <1>1, <1>2, <1>6, SavedTyped DEF ExtractedFile, Inv, State
<1>8. lastQuit' \in [Player -> 0 .. MaxVersion]
  BY <1>1, <1>2 DEF Inv, State
<1> QED
  BY <1>1, <1>6, <1>7, <1>8, TurnKeeps

LEMMA SwitchKeeps ==
    ASSUME EditorsCleanedUp, NobodyPossessesPlayers, Inv, NEW d \in Desc, NEW v \in Body,
           DoSwitch(d, v)
    PROVE  Inv'
<1>1. /\ Sound(s) /\ s \in State /\ Turn(d) /\ s.conn[d] = "playing"
  BY InTheWorld DEF DoSwitch
<1>2. /\ s.character[d] \in PcBody /\ v \in s.listed /\ s.desc[v] = None
      /\ s' = Left(s, d, v) /\ UNCHANGED <<file, lastQuit>>
  BY DEF DoSwitch, Unswitched, Left
<1>3. v \in MobBody
  <2>1. RankOf(s.character[d]) = Rank[s.owner[s.character[d]]] /\ s.owner[s.character[d]] \in Player
    BY <1>1, <1>2 DEF RankOf, State
  <2>2. RankOf(s.character[d]) < 2 /\ RankOf(s.character[d]) \in 0 .. 2
    BY <2>1, RankAssumption DEF NobodyPossessesPlayers
  <2>3. ~ (RankOf(s.character[d]) >= 2)
    BY <2>2
  <2> QED
    BY <2>3 DEF DoSwitch, Body
<1>4. Sound(s')
  BY <1>1, <1>2, <1>3, LeftSound
<1> QED
  BY <1>1, <1>2, <1>4, TurnKeeps DEF Inv

LEMMA CorpseHostKeeps ==
    ASSUME EditorsCleanedUp, Inv, NEW d \in Desc, NEW z \in Body, CorpseHost(d, z)
    PROVE  Inv'
<1> DEFINE w == [s EXCEPT !.alive = @ \union {z}, !.listed = @ \union {z}, !.hosts = @ \union {z}]
<1>1. /\ Sound(s) /\ s \in State /\ Turn(d) /\ s.conn[d] = "playing"
  BY InTheWorld DEF CorpseHost
<1>2. /\ s.character[d] \in PcBody /\ z \in MobBody /\ z \notin s.alive /\ UNCHANGED <<file, lastQuit>>
  BY BodyAssumption DEF CorpseHost
<1>3. /\ w \in State /\ SameLinks(w, s) /\ w.owner = s.owner /\ w.alive = s.alive \union {z}
      /\ w.listed = s.listed \union {z}
  BY <1>1, <1>2 DEF State, SameLinks
<1>4. s' = Left(w, d, z)
  BY <1>1 DEF CorpseHost, Left, State
<1> HIDE DEF w
<1>5. Sound(w)
  BY <1>1, <1>2, <1>3, BornSound
<1>6. w.desc[z] = None /\ w.conn[d] = "playing" /\ w.character[d] \in PcBody /\ z \in w.listed
  BY <1>1, <1>2, <1>3 DEF Sound, FreedUnlinked, SameLinks
<1>7. Sound(s')
  BY <1>2, <1>4, <1>5, <1>6, LeftSound
<1> QED
  BY <1>1, <1>2, <1>7, TurnKeeps DEF Inv

(* do_purge cuts off the connection of a player before the body goes.      *)
LEMMA PurgeKeeps ==
    ASSUME EditorsCleanedUp, Inv, NEW d \in Desc, NEW v \in Body, DoPurge(d, v)
    PROVE  Inv'
<1> DEFINE e == s.desc[v]
           w1 == IF e # None /\ v \in PcBody
                 THEN [s EXCEPT !.conn[e] = "close", !.character[e] = None, !.desc[v] = None]
                 ELSE s
<1>1. /\ Sound(s) /\ s \in State /\ Turn(d)
  BY InTheWorld DEF DoPurge
<1>2. /\ v \in s.listed /\ v \in Body /\ lastQuit' = lastQuit
      /\ s' = Extracted(w1, v) /\ file' = ExtractedFile(w1, file, v)
  BY DEF DoPurge
<1>3. None \notin Desc /\ None \notin Body /\ PcBody \intersect MobBody = {}
  BY BodyAssumption DEF Body
<1> HIDE DEF w1
<1>4. Sound(w1) /\ v \in w1.listed
  <2>1. CASE e # None /\ v \in PcBody
    <3> DEFINE N == [s.conn EXCEPT ![e] = "close"]
               X == [s.character EXCEPT ![e] = None]
               D == [s.desc EXCEPT ![v] = None]
               u == [s EXCEPT !.conn = N, !.character = X, !.desc = D]
    <3>1. e \in Desc /\ s.character[e] = v /\ s.original[e] = None
      BY <1>1, <1>2, <1>3, <2>1 DEF Sound, Linked, Away
    <3>2. w1 = u
      BY <1>1, <2>1 DEF w1, State
    <3>3. /\ N \in [Desc -> ConState] /\ X \in [Desc -> Body \union {None}]
          /\ D \in [Body -> Desc \union {None}]
          /\ \A f \in Desc : N[f] = IF f = e THEN "close" ELSE s.conn[f]
          /\ \A f \in Desc : X[f] = IF f = e THEN None ELSE s.character[f]
          /\ \A b \in Body : D[b] = IF b = v THEN None ELSE s.desc[b]
      BY <1>1, <3>1 DEF State, ConState
    <3> HIDE DEF N, X, D
    <3>4. /\ u \in State /\ u.conn = N /\ u.character = X /\ u.original = s.original
          /\ u.desc = D /\ SameWorld(u, s)
      BY <1>1, <3>3 DEF State, SameWorld
    <3> HIDE DEF u, e
    <3>5. \A f \in Desc : f # e => s.character[f] # v
      BY <1>1, <1>3, <3>1 DEF Sound, Played, e
    <3>6. Bodiless(u) /\ Embodied(u) /\ AtHome(u) /\ InWorld(u) /\ Waiting(u)
      BY <1>1, <1>3, <3>1, <3>3, <3>4, Names
         DEF Sound, Bodiless, Embodied, AtHome, InWorld, Waiting, SameWorld
    <3>7. Played(u)
      BY <1>1, <1>3, <3>3, <3>4, <3>5 DEF Sound, Played, SameWorld, State
    <3>8. Linked(u)
      BY <1>1, <3>1, <3>3, <3>4, <3>5 DEF Sound, Linked, SameWorld, State
    <3>9. Away(u) /\ OneAway(u) /\ FreedUnlinked(u)
      BY <1>1, <1>3, <3>1, <3>3, <3>4 DEF Sound, Away, OneAway, FreedUnlinked, SameWorld, Body
    <3>10. OneBody(u) /\ MenuAlone(u) /\ u.listed \subseteq u.alive
      BY <1>1, <3>3, <3>4 DEF Sound, OneBody, MenuAlone, SameWorld
    <3> QED
      BY <1>2, <3>2, <3>4, <3>6, <3>7, <3>8, <3>9, <3>10 DEF Sound, SameWorld
  <2>2. CASE ~ (e # None /\ v \in PcBody)
    BY <1>1, <1>2, <2>2 DEF w1
  <2> QED
    BY <2>1, <2>2
<1>5. Sound(s') /\ TakenOut(w1, v).owner = w1.owner /\ TakenOut(w1, v).version = w1.version
  BY <1>2, <1>4, ExtractedSound
<1>6. file' \in [Player -> 0 .. MaxVersion]
  <2>1. w1 \in State
    BY <1>4 DEF Sound
  <2>2. QED
    BY <1>2, <1>5, <2>1, SavedTyped DEF ExtractedFile, Inv, State
<1> QED
  BY <1>1, <1>2, <1>5, <1>6, TurnKeeps DEF Inv

LEMMA CommandKeeps ==
    ASSUME EditorsCleanedUp, NobodyPossessesPlayers, Inv, NEW d \in Desc, Command(d)
    PROVE  Inv'
<1>1. Sound(s) /\ s \in State
  BY DEF Inv, Sound
<1>2. CASE DoReturn(d)
  <2>1. s.character[d] \in Body /\ s.character[d] \in s.alive /\ Turn(d)
    BY <1>2, InTheWorld DEF DoReturn
  <2>2. Sound(s')
    BY <1>1, <1>2, <2>1, ReturnedSound DEF DoReturn
  <2> QED
    BY <1>2, <2>1, <2>2, TurnKeeps DEF DoReturn, Inv
<1>3. CASE LeaveEditor(d)
  <2>1. s.conn[d] \in InGame /\ "playing" \in ConState /\ Turn(d)
        /\ "playing" \notin {"free", "name", "password", "menu", "close"}
    BY <1>3, Names DEF LeaveEditor, ConState
  <2>2. s.character[d] # None /\ s.character[d] \in s.listed
    BY <1>1, <2>1 DEF Sound, Embodied, InWorld
  <2>3. Sound(s')
    BY <1>1, <1>3, <2>1, <2>2, ConnSound DEF LeaveEditor
  <2> QED
    BY <1>3, <2>1, <2>3, TurnKeeps DEF LeaveEditor, Inv
<1>4. ASSUME NEW e \in Editor, OpenEditor(d, e) PROVE Inv'
  <2>1. s.character[d] \in Body /\ s.character[d] \in s.listed /\ Turn(d)
    BY <1>4, InTheWorld DEF OpenEditor
  <2>2. s.character[d] # None
    BY <2>1, BodyAssumption DEF Body
  <2>3. e \in ConState /\ e \notin {"free", "name", "password", "menu", "close"}
    BY Names DEF ConState
  <2>4. Sound(s')
    BY <1>1, <1>4, <2>1, <2>2, <2>3, ConnSound DEF OpenEditor
  <2> QED
    BY <1>4, <2>1, <2>4, TurnKeeps DEF OpenEditor, Inv
<1>5. ASSUME NEW e \in Desc, DoDc(d, e) PROVE Inv'
  <2>1. Sound(s') /\ Turn(d)
    BY <1>5, MarkedSound DEF DoDc, Plays
  <2> QED
    BY <1>5, <2>1, TurnKeeps DEF DoDc, Inv
<1> QED
  BY <1>2, <1>3, <1>4, <1>5, SaveKeeps, QuitKeeps, SwitchKeeps, PurgeKeeps, CorpseHostKeeps
     DEF Command

(* close_socket, for a broken connection or a marked one.                  *)
LEMMA CloseKeeps ==
    ASSUME EditorsCleanedUp, Inv, NEW d \in Desc, LinkLost(d) \/ CloseMarked(d)
    PROVE  Inv'
<1>1. Sound(s) /\ s \in State
  BY DEF Inv, Sound
<1>2. /\ s' = Closed(s, d) /\ file' = ClosedFile(s, file, d)
      /\ UNCHANGED <<lastQuit, phase, todo>>
  BY DEF LinkLost, CloseMarked
<1>3. Sound(s')
  BY <1>1, <1>2, ClosedSound
<1>4. file' \in [Player -> 0 .. MaxVersion]
  <2>1. CASE file' = file
    BY <2>1 DEF Inv
  <2>2. CASE file' = Saved(s, file, s.character[d])
    BY <1>1, <2>2, SavedTyped DEF Inv, State
  <2> QED
    BY <1>2, <2>1, <2>2 DEF ClosedFile
<1> QED
  BY <1>2, <1>3, <1>4 DEF Inv

LEMMA WorldKeeps ==
    ASSUME EditorsCleanedUp, Inv, World
    PROVE  Inv'
<1>1. Sound(s) /\ s \in State
  BY DEF Inv, Sound
<1>2. ASSUME NEW m \in Body, MobDies(m) PROVE Inv'
  <2> DEFINE w == [s EXCEPT !.hosts = @ \ {m}]
  <2>1. w \in State /\ SameLinks(w, s) /\ SameWorld(w, s)
    BY <1>1 DEF State, SameLinks, SameWorld
  <2>2. s' = Extracted(w, m) /\ UNCHANGED <<file, lastQuit, phase, todo>> /\ m \in s.listed
    BY <1>2 DEF MobDies
  <2> HIDE DEF w
  <2>3. Sound(w) /\ m \in w.listed
    BY <1>1, <2>1, <2>2, SameLinksSound DEF SameWorld
  <2>4. Sound(s')
    BY <2>2, <2>3, ExtractedSound
  <2> QED
    BY <2>2, <2>4 DEF Inv
<1>3. ASSUME NEW b \in Body, DeathTrap(b) PROVE Inv'
  <2>1. /\ s' = Extracted(s, b) /\ file' = ExtractedFile(s, file, b) /\ b \in s.listed
        /\ UNCHANGED <<lastQuit, phase, todo>>
    BY <1>3 DEF DeathTrap
  <2>2. Sound(s') /\ TakenOut(s, b).owner = s.owner /\ TakenOut(s, b).version = s.version
    BY <1>1, <2>1, ExtractedSound
  <2>3. file' \in [Player -> 0 .. MaxVersion]
    BY <1>1, <2>1, <2>2, SavedTyped DEF ExtractedFile, Inv, State
  <2> QED
    BY <2>1, <2>2, <2>3 DEF Inv
<1>4. ASSUME NEW m \in Body, MobLoad(m) PROVE Inv'
  <2>1. /\ s' = [s EXCEPT !.alive = @ \union {m}, !.listed = @ \union {m}]
        /\ m \in MobBody /\ m \notin s.alive /\ UNCHANGED <<file, lastQuit, phase, todo>>
    BY <1>4 DEF MobLoad
  <2>2. /\ s' \in State /\ SameLinks(s', s) /\ s'.owner = s.owner
        /\ s'.alive = s.alive \union {m} /\ s'.listed = s.listed \union {m}
    BY <1>1, <2>1 DEF State, SameLinks, Body
  <2>3. Sound(s')
    BY <1>1, <2>1, <2>2, BornSound
  <2> QED
    BY <2>1, <2>3 DEF Inv
<1>5. ASSUME NEW d \in Desc, PasswordTimeout(d) PROVE Inv'
  <2>1. Sound(s')
    BY <1>5, MarkedSound DEF PasswordTimeout
  <2> QED
    BY <1>5, <2>1 DEF PasswordTimeout, Inv
<1> QED
  BY <1>2, <1>3, <1>4, <1>5 DEF World

LEMMA StepKeeps ==
    ASSUME EditorsCleanedUp, NobodyPossessesPlayers, Inv, [Next]_vars
    PROVE  Inv'
<1>1. CASE UNCHANGED vars
  BY <1>1 DEF vars, Inv
<1>2. ASSUME NEW d \in Desc, CloseMarked(d) PROVE Inv'
  BY <1>2, CloseKeeps
<1>3. CASE EndInput \/ EndCommands \/ EndOutput \/ EndHeartbeat
  BY <1>3 DEF EndInput, EndCommands, EndOutput, EndHeartbeat, Inv, Connected
<1>4. CASE Pass
  BY <1>2, <1>3, <1>4 DEF Pass
<1> QED
  BY <1>1, <1>4, LoginKeeps, CommandKeeps, CloseKeeps, WorldKeeps DEF Next

-----------------------------------------------------------------------------
(* What the invariant says of the properties that the runs check.          *)
LEMMA InvGivesLinks ==
    ASSUME EditorsCleanedUp, Inv
    PROVE  LinksSound /\ OneBodyPerPlayer /\ TypeOK
<1>1. None \notin Desc /\ None \notin Body
  BY BodyAssumption DEF Body
<1>2. Sound(s) /\ s \in State
  BY DEF Inv, Sound
<1>3. LinkSymmetric
  BY <1>1, <1>2 DEF LinkSymmetric, Sound, Embodied, Played, Linked
<1>4. NoDangling
  BY <1>2 DEF NoDangling, Sound, Played, Away
<1>5. PlayedIsListed
  BY <1>2 DEF PlayedIsListed, Sound, InWorld, Away
<1>6. OneBodyPerPlayer /\ TypeOK
  BY <1>2 DEF OneBodyPerPlayer, TypeOK, Sound, OneBody, Inv
<1> QED
  BY <1>3, <1>4, <1>5, <1>6 DEF LinksSound

(* The inductive invariant holds throughout, whoever logs in, switches,    *)
(* quits, dies, is purged or loses the link, in any order.                 *)
THEOREM SessionsInvariant ==
    ASSUME EditorsCleanedUp, NobodyPossessesPlayers
    PROVE  Spec => []Inv
<1>1. Init => Inv
  BY InitSound
<1>2. Inv /\ [Next]_vars => Inv'
  BY StepKeeps
<1> QED
  BY <1>1, <1>2, PTL DEF Spec

(* Connections, bodies and the list of the world agree (descriptor_data's  *)
(* character and original, char_data's desc, character_list): commands go  *)
(* to the body that is played, and no pointer leads to freed memory.       *)
THEOREM LinksAlwaysSound ==
    ASSUME EditorsCleanedUp, NobodyPossessesPlayers
    PROVE  Spec => []LinksSound
<1>1. Inv => LinksSound
  BY InvGivesLinks
<1> QED
  BY <1>1, SessionsInvariant, PTL

(* perform_dupe_check leaves no player in the world twice, whatever state  *)
(* the earlier connections and bodies of the player are in.                *)
THEOREM OneBodyAlways ==
    ASSUME EditorsCleanedUp, NobodyPossessesPlayers
    PROVE  Spec => []OneBodyPerPlayer
<1>1. Inv => OneBodyPerPlayer
  BY InvGivesLinks
<1> QED
  BY <1>1, SessionsInvariant, PTL

(* The state of Sessions keeps its type (comm.c, interpreter.c).           *)
THEOREM SessionsTypeOK ==
    ASSUME EditorsCleanedUp, NobodyPossessesPlayers
    PROVE  Spec => []TypeOK
<1>1. Inv => TypeOK
  BY InvGivesLinks
<1> QED
  BY <1>1, SessionsInvariant, PTL

(* No step frees a body and leaves it on character_list; close_socket does *)
(* when a connection with the guild editor open is lost, which is why      *)
(* EditorsCleanedUp is assumed.                                            *)
THEOREM NeverFreesListedAlways ==
    ASSUME EditorsCleanedUp, NobodyPossessesPlayers
    PROVE  Spec => NeverFreesListed
<1>1. Inv' => [\A b \in s.listed : b \in s'.alive \/ b \notin s'.listed]_vars
  BY DEF Inv, Sound
<1>2. Spec => []Inv
  BY SessionsInvariant
<1> QED
  BY <1>1, <1>2, PTL DEF NeverFreesListed
=============================================================================
