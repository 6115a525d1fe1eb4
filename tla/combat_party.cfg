\* Two players and a mob: area spells, grenades, rescues, peace and help from friends.
SPECIFICATION Spec
CONSTANTS
  p1 = p1
  p2 = p2
  m1 = m1
  m2 = m2
  field = field
  haven = haven
  NoOne = NoOne
  Nowhere = Nowhere
  Player <- TwoPlayers
  Mob <- OneMob
  Room <- Rooms
  Peaceful <- Haven
  Exit <- Doors
  SpiritRoom = haven
  VoidRoom = haven
  LimboRoom = haven
  StartRoom = haven
  Keeper <- NoKeeper
  Level <- Levels
  Blow <- Blows
  MaxAttacks = 2
  Skill <- Party
  Enemy <- Foes
  Grenades <- Rooms
  Mishap <- NoMishap
INVARIANTS
  PartySound
