------------------------------- MODULE Houses -------------------------------
(***************************************************************************)
(* The control records of houses (house.c): which rooms are houses, through*)
(* which room each is entered, who owns it and who may enter.  The records *)
(* are in memory and in a file that is written after each change; what the *)
(* game looks at are flags of the rooms, which are set when a house is     *)
(* built or read and taken away when it is destroyed.                      *)
(***************************************************************************)
EXTENDS Integers, Sequences, FiniteSets, SequencesExt

CONSTANTS
  HouseRooms,    \* rooms that can be houses
  AtriumOf,      \* AtriumOf[r]: the room behind the exit of r
  HousePlayers,  \* players by their idnum
  MAX_HOUSES, MAX_GUESTS

VARIABLES
  house_control, \* the records, in order: [vnum, owner, guests]
  control_file,  \* HCONTROL_FILE
  room_house,    \* rooms with ROOM_HOUSE (and ROOM_PRIVATE)
  room_atrium,   \* rooms with ROOM_ATRIUM
  known_players  \* players that are in the player table

houseVars == <<house_control, control_file, room_house, room_atrium, known_players>>

\* find_house
HouseIndices(r) == {i \in DOMAIN house_control : house_control[i].vnum = r}
AtriumsOf(records) == {AtriumOf[records[i].vnum] : i \in DOMAIN records}

HousesInit ==
  /\ house_control = <<>> /\ control_file = <<>>
  /\ room_house = {} /\ room_atrium = {}
  /\ known_players = HousePlayers

House_save_control == control_file' = house_control'

\* "hcontrol build": the house is saved, then the records.
hcontrol_build_house(r, owner) ==
  /\ Len(house_control) < MAX_HOUSES /\ HouseIndices(r) = {} /\ owner \in known_players
  /\ house_control' = Append(house_control, [vnum |-> r, owner |-> owner, guests |-> <<>>])
  /\ room_house' = room_house \cup {r}
  /\ room_atrium' = room_atrium \cup {AtriumOf[r]}
  /\ House_save_control
  /\ UNCHANGED known_players

\* "hcontrol destroy": the flag of the atrium goes, and comes back when another
\* house has the same atrium.
\* bug: the flags of the houses that remain are not set again.
hcontrol_destroy_houseAlone(i) ==
  /\ i \in DOMAIN house_control
  /\ house_control' = RemoveAt(house_control, i)
  /\ room_house' = room_house \ {house_control[i].vnum}
  /\ room_atrium' = room_atrium \ {AtriumOf[house_control[i].vnum]}
  /\ House_save_control
  /\ UNCHANGED known_players
hcontrol_destroy_house(i) ==
  /\ i \in DOMAIN house_control
  /\ house_control' = RemoveAt(house_control, i)
  /\ room_house' = room_house \ {house_control[i].vnum}
  /\ room_atrium' = (room_atrium \ {AtriumOf[house_control[i].vnum]})
                      \cup AtriumsOf(house_control')
  /\ House_save_control
  /\ UNCHANGED known_players

\* "house <player>": the first guest of that id leaves the list, or a new one
\* joins its end.
do_house(i, id) ==
  /\ i \in DOMAIN house_control /\ id \in known_players
  /\ house_control[i].owner \in known_players /\ id # house_control[i].owner
  /\ LET guests == house_control[i].guests
     IN house_control' = [house_control EXCEPT ![i].guests =
          IF id \in ToSet(guests)
          THEN RemoveAt(guests, CHOOSE j \in DOMAIN guests : guests[j] = id)
          ELSE IF Len(guests) = MAX_GUESTS THEN guests ELSE Append(guests, id)]
  /\ House_save_control
  /\ UNCHANGED <<room_house, room_atrium, known_players>>

\* House_can_enter, for those below LVL_GRGOD.
House_can_enter(id, r) ==
  \/ HouseIndices(r) = {}
  \/ \E i \in HouseIndices(r) :
       id = house_control[i].owner \/ id \in ToSet(house_control[i].guests)

\* A player deletes himself; his houses stay until the next boot.
PlayerDeleted(id) ==
  /\ id \in known_players
  /\ known_players' = known_players \ {id}
  /\ UNCHANGED <<house_control, control_file, room_house, room_atrium>>

\* House_boot reads record after record, but those without an owner or of a room
\* that is a house already, sets their flags and writes the file again.
House_boot ==
  LET Keeps(houses, h) == /\ Len(houses) < MAX_HOUSES /\ h.owner \in known_players
                          /\ \A i \in DOMAIN houses : houses[i].vnum # h.vnum
      Read[n \in 0..Len(control_file)] ==
        IF n = 0 THEN <<>>
        ELSE IF Keeps(Read[n - 1], control_file[n]) THEN Append(Read[n - 1], control_file[n])
        ELSE Read[n - 1]
  IN
  /\ house_control' = Read[Len(control_file)]
  /\ room_house' = {house_control'[i].vnum : i \in DOMAIN house_control'}
  /\ room_atrium' = AtriumsOf(house_control')
  /\ House_save_control
  /\ UNCHANGED known_players

HousesNext ==
  \/ \E r \in HouseRooms, owner \in HousePlayers : hcontrol_build_house(r, owner)
  \/ \E i \in 1..MAX_HOUSES : \/ hcontrol_destroy_house(i)
                              \/ \E id \in HousePlayers : do_house(i, id)
  \/ \E id \in HousePlayers : PlayerDeleted(id)
  \/ House_boot

HousesSpec == HousesInit /\ [][HousesNext]_houseVars

-----------------------------------------------------------------------------
HousesTypeOK ==
  /\ Len(house_control) <= MAX_HOUSES /\ room_house \subseteq HouseRooms
  /\ room_atrium \subseteq {AtriumOf[r] : r \in HouseRooms}
  /\ known_players \subseteq HousePlayers
  /\ \A i \in DOMAIN house_control : Len(house_control[i].guests) <= MAX_GUESTS

\* The rooms that are marked as houses are those of which there is one record,
\* the rooms that are marked as atriums are those in front of one, the file says
\* what the memory says, nobody is a guest twice or of himself, and a private
\* house lets in its owner and his guests only (house.c 251-299, 358-488, 531-606).
HouseFlagsAgree ==
  /\ room_house = {house_control[i].vnum : i \in DOMAIN house_control}
  /\ room_atrium = AtriumsOf(house_control)
  /\ control_file = house_control
  /\ \A r \in room_house : Cardinality(HouseIndices(r)) = 1
  /\ \A i \in DOMAIN house_control :
       LET h == house_control[i]
       IN /\ Cardinality(ToSet(h.guests)) = Len(h.guests)
          /\ h.owner \notin ToSet(h.guests)
          /\ {id \in HousePlayers : House_can_enter(id, h.vnum)} = {h.owner} \cup ToSet(h.guests)
=============================================================================
