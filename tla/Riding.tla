------------------------------- MODULE Riding -------------------------------
(***************************************************************************)
(* Mounts (act.movement.c, handler.c): who rides whom is kept on both      *)
(* sides, in char_data of the rider and of the mount, and is to end with   *)
(* either of them.  Whether a move is refused for want of a boat, flight,  *)
(* move points or permission is left open; doors are in Zones, followers   *)
(* and fights in Combat.                                                   *)
(***************************************************************************)
EXTENDS Naturals, FiniteSets

CONSTANTS
  Riders,         \* players
  RidingGods,     \* those of LVL_IMMORT and more
  Steeds,         \* mobiles with MOB_MOUNTABLE
  Pastures,       \* rooms
  Trails,         \* Trails[r]: the rooms that the exits of r lead to
  DeathTraps, Tunnels     \* rooms with ROOM_DEATH, ROOM_TUNNEL

VARIABLES
  rides_in,       \* rides_in[c]: the room of c, or Elsewhere
  riding, ridden_by,      \* RIDING(c), RIDDEN_BY(c)
  tamed,          \* who has AFF_TAMED
  ride_down       \* the program read through a null pointer and is down

rideVars == <<rides_in, riding, ridden_by, tamed, ride_down>>

Elsewhere == "elsewhere"
NoMount == "nobody"
RideChars == Riders \union Steeds
RidesHere(c) == rides_in[c] # Elsewhere
Mortal(c) == c \notin RidingGods

\* No character and no room is mistaken for none.
ASSUME RidingAssumption == NoMount \notin RideChars /\ Elsewhere \notin Pastures

RidingInit ==
  /\ rides_in \in {f \in [RideChars -> Pastures \union {Elsewhere}] :
                     \A c \in RideChars : f[c] \notin DeathTraps}
  /\ riding = [c \in RideChars |-> NoMount] /\ ridden_by = [c \in RideChars |-> NoMount]
  /\ tamed = {} /\ ride_down = FALSE

\* The pointers after dismount_char(c), given those before.
dismount_char(c, on, under) ==
  LET u1 == IF on[c] # NoMount THEN [under EXCEPT ![on[c]] = NoMount] ELSE under
      o1 == IF on[c] # NoMount THEN [on EXCEPT ![c] = NoMount] ELSE on
  IN IF u1[c] # NoMount
     THEN [on |-> [o1 EXCEPT ![u1[c]] = NoMount], under |-> [u1 EXCEPT ![c] = NoMount]]
     ELSE [on |-> o1, under |-> u1]
Dismounted(c, on, under) ==
  LET d == dismount_char(c, on, under) IN riding' = d.on /\ ridden_by' = d.under

\* bug: the links are cleared only if c is the rider.
ExtractRiderOnly(c) ==
  /\ IF riding[c] # NoMount THEN Dismounted(c, riding, ridden_by) ELSE UNCHANGED <<riding, ridden_by>>
  /\ rides_in' = [rides_in EXCEPT ![c] = Elsewhere]
  /\ tamed' = IF c \in Steeds THEN tamed \ {c} ELSE tamed
\* c is out of the game: killed, purged, or a player who quits.
ExtractRider(c) ==
  /\ Dismounted(c, riding, ridden_by)
  /\ rides_in' = [rides_in EXCEPT ![c] = Elsewhere]
  /\ tamed' = IF c \in Steeds THEN tamed \ {c} ELSE tamed
LeaveRiding(c) == RidesHere(c) /\ ExtractRider(c) /\ UNCHANGED ride_down
\* c is hurt: a mortal may die of it; whoever survives is thrown off.
HurtAndThrown(c) ==
  /\ \/ Mortal(c) /\ ExtractRider(c)
     \/ Dismounted(c, riding, ridden_by) /\ UNCHANGED <<rides_in, tamed>>
  /\ UNCHANGED ride_down

\* A player enters the game, a mobile is loaded.
EnterRiding(c, r) ==
  /\ ~RidesHere(c) /\ r \notin DeathTraps
  /\ rides_in' = [rides_in EXCEPT ![c] = r]
  /\ UNCHANGED <<riding, ridden_by, tamed, ride_down>>
\* Teleported, summoned or recalled: alone, and still linked.
Relocated(c, r) ==
  /\ RidesHere(c) /\ r \notin DeathTraps
  /\ rides_in' = [rides_in EXCEPT ![c] = r]
  /\ UNCHANGED <<riding, ridden_by, tamed, ride_down>>

-----------------------------------------------------------------------------
TogetherWith(c) ==
  {x \in {riding[c], ridden_by[c]} \ {NoMount} : rides_in[x] = rides_in[c]}
\* riding is looked at first; the other is asked for only if c does not ride.
Partner(c) == IF riding[c] # NoMount THEN riding[c] ELSE ridden_by[c]
\* On a player's arrival in a death trap the player himself is extracted if he,
\* or his partner, is mortal.  The partner's level is read through a pointer
\* that the extraction of the player has cleared.
Trapped(c, p, along, to) ==
  /\ Dismounted(c, riding, ridden_by) /\ UNCHANGED tamed
  /\ rides_in' = [x \in RideChars |->
                    IF x = c THEN Elsewhere ELSE IF x \in along THEN to ELSE rides_in[x]]
  /\ ride_down' = (Mortal(c) /\ p # NoMount)
ride_simple_move(c, to) ==
  LET p == Partner(c)
      along == IF p \in TogetherWith(c) THEN {c, p} ELSE {c}
  IN
  /\ RidesHere(c) /\ to \in Trails[rides_in[c]]
  /\ ~(p # NoMount /\ riding[c] = NoMount /\ p \in TogetherWith(c) /\ c \in tamed)
  /\ \/ riding[c] # NoMount /\ HurtAndThrown(c)
     \/ /\ to \in Tunnels => p = NoMount
        /\ IF c \in Riders /\ to \in DeathTraps /\ (Mortal(c) \/ (p # NoMount /\ Mortal(p)))
           THEN Trapped(c, p, along, to)
           ELSE /\ rides_in' = [x \in RideChars |-> IF x \in along THEN to ELSE rides_in[x]]
                /\ UNCHANGED <<riding, ridden_by, tamed, ride_down>>

mount_char(c, v) ==
  riding' = [riding EXCEPT ![c] = v] /\ ridden_by' = [ridden_by EXCEPT ![v] = c]
\* Only players have the skill.  A god may mount players, himself too.
do_mount(c, v) ==
  /\ RidesHere(c) /\ rides_in[v] = rides_in[c]
  /\ v \in Riders => c \in RidingGods
  /\ riding[c] = NoMount /\ ridden_by[c] = NoMount
  /\ riding[v] = NoMount /\ ridden_by[v] = NoMount
  /\ \/ Mortal(c) /\ ExtractRider(c)                     \* fell off, and died of it
     \/ mount_char(c, v) /\ UNCHANGED <<rides_in, tamed>>
     \/ v \in Steeds /\ v \notin tamed /\ Mortal(c) /\ ExtractRider(c)  \* bucked at once
  /\ UNCHANGED ride_down
do_dismount(c) ==
  /\ RidesHere(c) /\ riding[c] # NoMount
  /\ Dismounted(c, riding, ridden_by) /\ UNCHANGED <<rides_in, tamed, ride_down>>
\* The mount throws its rider, wherever he is.
do_buck(c) ==
  /\ RidesHere(c) /\ ridden_by[c] # NoMount /\ c \notin tamed
  /\ HurtAndThrown(ridden_by[c])
do_tame(c, v) ==
  /\ c \in Riders /\ RidesHere(c) /\ rides_in[v] = rides_in[c]
  /\ v \in Riders => c \in RidingGods
  /\ tamed' = tamed \union {v}
  /\ UNCHANGED <<rides_in, riding, ridden_by, ride_down>>
TameWearsOff(c) ==
  /\ RidesHere(c) /\ c \in tamed
  /\ tamed' = tamed \ {c}
  /\ UNCHANGED <<rides_in, riding, ridden_by, ride_down>>

RidingNext ==
  /\ ~ride_down
  /\ \E c \in RideChars :
       \/ LeaveRiding(c) \/ do_dismount(c) \/ do_buck(c) \/ TameWearsOff(c)
       \/ \E r \in Pastures : EnterRiding(c, r) \/ Relocated(c, r) \/ ride_simple_move(c, r)
       \/ \E v \in RideChars : do_tame(c, v) \/ (c \in Riders /\ do_mount(c, v))
RidingSpec == RidingInit /\ [][RidingNext]_rideVars

-----------------------------------------------------------------------------
RidingTypeOK ==
  /\ rides_in \in [RideChars -> Pastures \union {Elsewhere}]
  /\ riding \in [RideChars -> RideChars \union {NoMount}]
  /\ ridden_by \in [RideChars -> RideChars \union {NoMount}]
  /\ tamed \subseteq RideChars /\ ride_down \in BOOLEAN

\* Rider and mount know each other, both are in the game, and no rider is
\* himself ridden by another: after a fall, a death, a purge or a quit of either
\* no pointer to a character that is gone stays behind (dismount_char of
\* extract_char, do_mount).
RidesPaired ==
  \A c \in RideChars :
    /\ riding[c] # NoMount =>
         /\ ridden_by[riding[c]] = c /\ RidesHere(c) /\ RidesHere(riding[c])
         /\ riding[riding[c]] \in {NoMount, c} /\ ridden_by[c] \in {NoMount, c}
    /\ ridden_by[c] # NoMount => riding[ridden_by[c]] = c
=============================================================================
