-------------------------------- MODULE Zones --------------------------------
(***************************************************************************)
(* Zones (db.c): their ages and the queue of resets, the table of reset    *)
(* commands, the descriptions of rooms, which are dropped from memory with *)
(* a deserted zone and read back from the file, and the doors that players *)
(* work (act.movement.c) and resets put back.  Of mobiles and objects only *)
(* how many there are of a kind, and where, is kept; ObjWorld has the rest.*)
(***************************************************************************)
EXTENDS Integers, Sequences, FiniteSets, SequencesExt, FiniteSetsExt

CONSTANTS
  ZoneNumbers,    \* the zones, 1..n: the order of zone_table
  ZoneOf,         \* ZoneOf[r]: the zone of room r
  Lifespan, ResetMode,    \* of each zone
  ResetCmds,      \* ResetCmds[z]: [command, if_flag, arg1, arg2, arg3] in order
  Exits,          \* Exits[<<r, dir>>]: [to_room, isdoor, key, pickproof]
  RevDir,         \* RevDir[dir]: the opposite direction
  Walkers,        \* players
  HasKey,         \* pairs of a player and a key that he carries; gods open all
  Builders,       \* those of them who use the room editor
  PULSE_ZONE,     \* seconds between two calls of zone_update
  Kinds,          \* kinds of mobiles and objects
  MaxQueued       \* bound on the length of the queue of resets

VARIABLES
  zone_age, reset_q, zone_timer,
  walker_in,      \* walker_in[p]: the room, or NotPlaying
  doors,          \* doors[<<r, dir>>]: [closed, locked], of exit_info
  population,     \* population[<<k, place>>]: how many of kind k are there
  room_descs,     \* room_descs[z]: [unloaded, locked, edited], of zone_table
  redit_copy      \* redit_copy[p]: the copy of a room in the editor

zoneVars == <<zone_age, reset_q, zone_timer, walker_in, doors, population, room_descs, redit_copy>>

ZO_DEAD == 999
NotPlaying == "not playing"
NoCopy == [room |-> NotPlaying, doors |-> <<>>]
WorldRooms == DOMAIN ZoneOf
Open == [closed |-> FALSE, locked |-> FALSE]
DirsOf(r) == {e[2] : e \in {x \in DOMAIN Exits : x[1] = r}}
Held == "held"    \* carried, worn or contained

\* The lifespan is at most 240 in zedit; other commands than these are disabled
\* ('*'); rev_dir is its own inverse.
ASSUME ZonesAssumption ==
  /\ IsFiniteSet(ZoneNumbers) /\ ZoneNumbers = 1..Cardinality(ZoneNumbers)
  /\ \A r \in DOMAIN ZoneOf : ZoneOf[r] \in ZoneNumbers /\ r # NotPlaying
  /\ \A z \in ZoneNumbers : Lifespan[z] \in 0..(ZO_DEAD - 1)
  /\ \A z \in ZoneNumbers :
       /\ Len(ResetCmds[z]) \in Nat /\ DOMAIN ResetCmds[z] = 1..Len(ResetCmds[z])
       /\ \A i \in DOMAIN ResetCmds[z] : ResetCmds[z][i].command \in {"M", "O", "P", "G", "E", "R", "D"}
  /\ DOMAIN Exits \subseteq (DOMAIN ZoneOf) \X (DOMAIN RevDir)
  /\ \A e \in DOMAIN Exits : Exits[e].to_room \in DOMAIN ZoneOf
  /\ Builders \subseteq Walkers
  /\ \A d \in DOMAIN RevDir : RevDir[d] \in DOMAIN RevDir /\ RevDir[RevDir[d]] = d

-----------------------------------------------------------------------------
\* Descriptors in the editor are not CON_PLAYING.
Playing(p) == walker_in[p] # NotPlaying /\ (p \in Builders => redit_copy[p] = NoCopy)
is_empty(z) == \A p \in Walkers : Playing(p) => ZoneOf[walker_in[p]] # z

\* The effect of the reset commands on the doors and the population.  "last"
\* is last_cmd, "mob" says that some mobile was loaded by this reset.
PopulationOf(pop, k) == SumFunction([x \in WorldRooms \union {Held} |-> pop[<<k, x>>]])
Loaded(st, c, place) == [st EXCEPT !.pop[<<c.arg1, place>>] = @ + 1, !.last = TRUE]
RefusedCmd(st) == [st EXCEPT !.last = FALSE]
DoorState(n) == CASE n = 0 -> Open
                  [] n = 1 -> [closed |-> TRUE, locked |-> FALSE]
                  [] n = 2 -> [closed |-> TRUE, locked |-> TRUE]
SetsDoor(c) == c.command = "D" /\ c.arg3 \in 0..2     \* other states are ignored
ResetCmd(c, st) ==
  LET room == PopulationOf(st.pop, c.arg1) < c.arg2 IN
  IF c.if_flag /\ ~st.last THEN st
  ELSE CASE c.command = "M" ->
              IF room THEN [Loaded(st, c, c.arg3) EXCEPT !.mob = TRUE] ELSE RefusedCmd(st)
         [] c.command = "O" -> IF room THEN Loaded(st, c, c.arg3) ELSE RefusedCmd(st)
         [] c.command = "P" ->
              IF ~room THEN RefusedCmd(st)
              ELSE [Loaded(st, c, Held) EXCEPT !.last = PopulationOf(st.pop, c.arg3) > 0]
         [] c.command \in {"G", "E"} ->
              IF st.mob /\ room THEN Loaded(st, c, Held) ELSE RefusedCmd(st)
         [] c.command = "R" ->
              [st EXCEPT !.last = TRUE,
                         !.pop[<<c.arg2, c.arg1>>] = IF @ > 0 THEN @ - 1 ELSE 0]
         [] c.command = "D" ->
              [st EXCEPT !.last = TRUE,
                         !.doors = IF SetsDoor(c) THEN [@ EXCEPT ![<<c.arg1, c.arg2>>] = DoorState(c.arg3)]
                                   ELSE @]
reset_zone(z, st) ==
  FoldLeft(LAMBDA s, c : ResetCmd(c, s), [st EXCEPT !.last = FALSE, !.mob = FALSE], ResetCmds[z])
ResetStart == [doors |-> doors, pop |-> population, last |-> FALSE, mob |-> FALSE]
ResetDone(st) == doors' = st.doors /\ population' = st.pop

\* boot_db resets every zone.
ZoneOrder == [z \in 1..Cardinality(ZoneNumbers) |-> z]
ResetWorld(st) ==
  FoldLeft(LAMBDA s, z : reset_zone(z, s), st, ZoneOrder)
AtFirst == [doors |-> [e \in DOMAIN Exits |-> Open],
            pop |-> [x \in Kinds \X (WorldRooms \union {Held}) |-> 0], last |-> FALSE, mob |-> FALSE]
ZonesInit ==
  /\ zone_age = [z \in ZoneNumbers |-> 0] /\ reset_q = <<>> /\ zone_timer = 0
  /\ walker_in \in [Walkers -> WorldRooms]
  /\ doors = ResetWorld(AtFirst).doors /\ population = ResetWorld(AtFirst).pop
  /\ room_descs = [z \in ZoneNumbers |-> [unloaded |-> FALSE, locked |-> FALSE, edited |-> "no"]]
  /\ redit_copy = [p \in Builders |-> NoCopy]

unload_room_descs(z) ==
  room_descs' = IF room_descs[z].unloaded \/ room_descs[z].locked THEN room_descs
                ELSE [room_descs EXCEPT ![z].unloaded = TRUE]

\* The minute's ageing; a zone that was old enough joins the queue.
Aged(z) ==
  IF zone_age[z] < Lifespan[z] /\ ResetMode[z] # 0 THEN zone_age[z] + 1 ELSE zone_age[z]
IsDue(z, age) == age[z] >= Lifespan[z] /\ age[z] < ZO_DEAD /\ ResetMode[z] # 0
Queued(age) ==
  FoldLeft(LAMBDA q, z : IF IsDue(z, age) THEN Append(q, z) ELSE q, reset_q, ZoneOrder)
\* Only the head of the queue is looked at: each branch of the loop breaks.
zone_update ==
  LET minute == (zone_timer + 1) * PULSE_ZONE >= 60
      older == [z \in ZoneNumbers |-> Aged(z)]
      dead == IF minute THEN [z \in ZoneNumbers |-> IF IsDue(z, older) THEN ZO_DEAD ELSE older[z]]
              ELSE zone_age
      q == IF minute THEN Queued(older) ELSE reset_q
  IN /\ zone_timer' = IF minute THEN 0 ELSE zone_timer + 1
     /\ IF q = <<>>
        THEN zone_age' = dead /\ UNCHANGED <<reset_q, room_descs, doors, population>>
        ELSE LET z == Head(q) IN
             /\ IF is_empty(z) THEN unload_room_descs(z) ELSE UNCHANGED room_descs
             /\ IF ResetMode[z] = 2 \/ is_empty(z)
                THEN /\ ResetDone(reset_zone(z, ResetStart))
                     /\ zone_age' = [dead EXCEPT ![z] = 0]
                     /\ reset_q' = Tail(q)
                ELSE zone_age' = dead /\ reset_q' = q /\ UNCHANGED <<doors, population>>
     /\ UNCHANGED <<walker_in, redit_copy>>

\* An immortal resets a zone; the queue is not looked at, and if the zone
\* waits there it may get into it again.  Bound: MaxQueued.
do_zreset(z) ==
  /\ Len(reset_q) < MaxQueued
  /\ ResetDone(reset_zone(z, ResetStart))
  /\ zone_age' = [zone_age EXCEPT ![z] = 0]
  /\ IF is_empty(z) THEN unload_room_descs(z) ELSE UNCHANGED room_descs
  /\ UNCHANGED <<reset_q, zone_timer, walker_in, redit_copy>>
\* "zreset *": no descriptions are dropped but those of the entry after the last.
do_zreset_all ==
  /\ Len(reset_q) < MaxQueued
  /\ ResetDone(ResetWorld(ResetStart))
  /\ zone_age' = [z \in ZoneNumbers |-> 0]
  /\ UNCHANGED <<reset_q, zone_timer, walker_in, room_descs, redit_copy>>

-----------------------------------------------------------------------------
\* Descriptions are read from the file when somebody looks at a room.
Reloaded(z, lock) ==
  IF room_descs[z].locked THEN room_descs
  ELSE [room_descs EXCEPT ![z].unloaded = FALSE, ![z].locked = lock]
\* look_at_room follows each arrival; it shows no description in brief mode.
Arrive(p, r) ==
  /\ walker_in' = [walker_in EXCEPT ![p] = r]
  /\ room_descs' \in {room_descs, IF room_descs[ZoneOf[r]].unloaded
                                  THEN Reloaded(ZoneOf[r], FALSE) ELSE room_descs}
  /\ UNCHANGED <<zone_age, reset_q, zone_timer, doors, population, redit_copy>>
Walk_zones(p, dir) ==
  /\ Playing(p) /\ <<walker_in[p], dir>> \in DOMAIN Exits
  /\ ~doors[<<walker_in[p], dir>>].closed
  /\ Arrive(p, Exits[<<walker_in[p], dir>>].to_room)
EnterWorld(p, r) == walker_in[p] = NotPlaying /\ Arrive(p, r)
LeaveWorld(p) ==
  /\ Playing(p)
  /\ walker_in' = [walker_in EXCEPT ![p] = NotPlaying]
  /\ UNCHANGED <<zone_age, reset_q, zone_timer, doors, population, room_descs, redit_copy>>

\* A mobile dies, an object is junked.
Vanish(k, x) ==
  /\ population[<<k, x>>] > 0
  /\ population' = [population EXCEPT ![<<k, x>>] = @ - 1]
  /\ UNCHANGED <<zone_age, reset_q, zone_timer, walker_in, doors, room_descs, redit_copy>>

\* The other side, if that leads back to this room.
Back(e) ==
  LET b == <<Exits[e].to_room, RevDir[e[2]]>>
  IN IF b \in DOMAIN Exits /\ Exits[b].to_room = e[1] THEN {b} ELSE {}
flags_door(cmd, d) ==
  CASE cmd = "open" -> d.closed /\ ~d.locked
    [] cmd = "close" -> ~d.closed
    [] cmd \in {"unlock", "pick"} -> d.closed /\ d.locked
    [] cmd = "lock" -> d.closed /\ ~d.locked
\* Both sides are toggled, whatever their states were.
\* bug: the other side is left alone when the lock is worked.
do_doorcmdHere(e, cmd) ==
  doors' = [x \in DOMAIN doors |->
              CASE cmd \in {"open", "close"} /\ x \in {e} \union Back(e) -> [doors[x] EXCEPT !.closed = ~@]
                [] cmd \notin {"open", "close"} /\ x = e -> [doors[x] EXCEPT !.locked = ~@]
                [] OTHER -> doors[x]]
do_doorcmd(e, cmd) ==
  LET Toggled(d) == IF cmd \in {"open", "close"} THEN [d EXCEPT !.closed = ~@]
                    ELSE [d EXCEPT !.locked = ~@]
  IN doors' = [x \in DOMAIN doors |-> IF x \in {e} \union Back(e) THEN Toggled(doors[x]) ELSE doors[x]]
ok_pick(e) == Exits[e].key >= 0 /\ ~Exits[e].pickproof     \* and the skill sufficed
do_gen_door(p, dir, cmd) ==
  LET e == <<walker_in[p], dir>> IN
  /\ Playing(p) /\ e \in DOMAIN Exits
  /\ Exits[e].isdoor /\ flags_door(cmd, doors[e])
  /\ cmd \in {"lock", "unlock"} => <<p, Exits[e].key>> \in HasKey
  /\ cmd = "pick" => ok_pick(e)
  /\ do_doorcmd(e, cmd)
  /\ UNCHANGED <<zone_age, reset_q, zone_timer, walker_in, population, room_descs, redit_copy>>

-----------------------------------------------------------------------------
\* The room editor: a copy of the room with the state of its doors, put back
\* when the builder keeps it.  From then on the zone's descriptions are locked
\* in memory until they are on disk.
redit_setup_existing(p) ==
  LET r == walker_in[p] IN
  /\ Playing(p)
  /\ redit_copy' = [redit_copy EXCEPT ![p] = [room |-> r, doors |-> [d \in DirsOf(r) |-> doors[<<r, d>>]]]]
  /\ room_descs' = IF room_descs[ZoneOf[r]].unloaded THEN Reloaded(ZoneOf[r], FALSE) ELSE room_descs
  /\ UNCHANGED <<zone_age, reset_q, zone_timer, walker_in, doors, population>>
\* bug: the zone is read back without its lock.
redit_save_internallyUnlocked(p) ==
  LET r == redit_copy[p].room IN
  /\ redit_copy[p] # NoCopy
  /\ room_descs' = [Reloaded(ZoneOf[r], FALSE) EXCEPT ![ZoneOf[r]].edited = "olc"]
  /\ doors' = [e \in DOMAIN doors |-> IF e[1] = r THEN redit_copy[p].doors[e[2]] ELSE doors[e]]
  /\ redit_copy' = [redit_copy EXCEPT ![p] = NoCopy]
  /\ UNCHANGED <<zone_age, reset_q, zone_timer, walker_in, population>>
redit_save_internally(p) ==
  LET r == redit_copy[p].room IN
  /\ redit_copy[p] # NoCopy
  /\ room_descs' = [Reloaded(ZoneOf[r], TRUE) EXCEPT ![ZoneOf[r]].edited = "olc"]
  /\ doors' = [e \in DOMAIN doors |-> IF e[1] = r THEN redit_copy[p].doors[e[2]] ELSE doors[e]]
  /\ redit_copy' = [redit_copy EXCEPT ![p] = NoCopy]
  /\ UNCHANGED <<zone_age, reset_q, zone_timer, walker_in, population>>
redit_quit(p) ==
  /\ redit_copy[p] # NoCopy
  /\ redit_copy' = [redit_copy EXCEPT ![p] = NoCopy]
  /\ UNCHANGED <<zone_age, reset_q, zone_timer, walker_in, doors, population, room_descs>>
\* Written from what is in memory, be it loaded or not.
redit_save_to_disk(z) ==
  /\ room_descs' = [room_descs EXCEPT ![z].locked = FALSE, ![z].edited = "no"]
  /\ UNCHANGED <<zone_age, reset_q, zone_timer, walker_in, doors, population, redit_copy>>
\* The description of this room is copied to one of zone z.
do_copyto(p, z) ==
  /\ Playing(p)
  /\ room_descs' = [room_descs EXCEPT ![z].edited = IF @ = "olc" THEN @ ELSE "copy"]
  /\ UNCHANGED <<zone_age, reset_q, zone_timer, walker_in, doors, population, redit_copy>>

ZonesNext ==
  \/ zone_update
  \/ do_zreset_all
  \/ \E z \in ZoneNumbers : do_zreset(z) \/ redit_save_to_disk(z)
  \/ \E k \in Kinds, x \in WorldRooms \union {Held} : Vanish(k, x)
  \/ \E p \in Walkers :
       \/ LeaveWorld(p)
       \/ \E r \in WorldRooms : EnterWorld(p, r)
       \/ \E dir \in DOMAIN RevDir : Walk_zones(p, dir)
       \/ \E dir \in DOMAIN RevDir, cmd \in {"open", "close", "lock", "unlock", "pick"} :
            do_gen_door(p, dir, cmd)
  \/ \E p \in Builders :
       \/ redit_setup_existing(p) \/ redit_save_internally(p) \/ redit_quit(p)
       \/ \E z \in ZoneNumbers : do_copyto(p, z)
ZonesSpec == ZonesInit /\ [][ZonesNext]_zoneVars

-----------------------------------------------------------------------------
ZonesTypeOK ==
  /\ zone_age \in [ZoneNumbers -> 0..ZO_DEAD] /\ reset_q \in Seq(ZoneNumbers)
  /\ zone_timer \in 0..(60 \div PULSE_ZONE)
  /\ walker_in \in [Walkers -> WorldRooms \union {NotPlaying}]
  /\ doors \in [DOMAIN Exits -> [closed : BOOLEAN, locked : BOOLEAN]]
  /\ population \in [Kinds \X (WorldRooms \union {Held}) -> Nat]
  /\ room_descs \in [ZoneNumbers -> [unloaded : BOOLEAN, locked : BOOLEAN, edited : {"no", "olc", "copy"}]]

\* A zone that is marked as waiting for its reset waits in the queue, so that
\* it is reset one day (zone_update, and do_zreset past the queue); and what
\* a builder keeps in the room editor is not dropped with the descriptions of
\* a deserted zone before it is in the file (reload_room_descs with its lock,
\* unload_room_descs, redit_save_to_disk).
ZonesSound ==
  /\ \A z \in ZoneNumbers : zone_age[z] = ZO_DEAD => \E i \in DOMAIN reset_q : reset_q[i] = z
  /\ \A z \in ZoneNumbers : room_descs[z].edited = "olc" => ~room_descs[z].unloaded

\* Two sides of a door that agree go on to agree under each command on doors
\* and each reset (do_doorcmd toggles, reset_zone sets); only a kept room
\* brings the state of its doors from an earlier time.
SidesKeepAgreeing ==
  [][redit_copy' = redit_copy =>
       \A e \in DOMAIN Exits : \A b \in Back(e) : doors[e] = doors[b] => doors'[e] = doors'[b]]_zoneVars
\* That asks of the tables, which only builders see to, that no door command
\* depends on whether a mobile or object was loaded, and that the last one for
\* each side says the same.
DoorCmd(z, i, e) ==
  SetsDoor(ResetCmds[z][i]) /\ <<ResetCmds[z][i].arg1, ResetCmds[z][i].arg2>> = e
LastDoorCmd(z, i, e) ==
  DoorCmd(z, i, e) /\ \A j \in DOMAIN ResetCmds[z] : j > i => ~DoorCmd(z, j, e)
Succeeds(c) == c.command \in {"R", "D"} /\ ~c.if_flag
PairedResets ==
  \A z \in ZoneNumbers : \A i \in DOMAIN ResetCmds[z] :
    /\ ResetCmds[z][i].command = "D" =>
         ~ResetCmds[z][i].if_flag \/ (i > 1 /\ Succeeds(ResetCmds[z][i - 1]))
    /\ \A e \in DOMAIN Exits : \A b \in Back(e) : LastDoorCmd(z, i, e) =>
         \E j \in DOMAIN ResetCmds[z] : LastDoorCmd(z, j, b) /\ ResetCmds[z][j].arg3 = ResetCmds[z][i].arg3
\* Resets, doors and builders at work on the same rooms leave each other whole.
ZonesSafe == []ZonesSound /\ SidesKeepAgreeing
=============================================================================
