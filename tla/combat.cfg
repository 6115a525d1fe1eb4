\* One player and two mobs: every blow, shot, flight, fall and death, in every order.
SPECIFICATION Spec
CONSTANTS
  p1 = p1
  p2 = p2
  m1 = m1
  m2 = m2
  field = field
  haven = haven
  NoOne = NoOne
  Nowhere = Nowhere
  Player <- OnePlayer
  Mob <- TwoMobs
  Room <- Rooms
  Peaceful = {}
  Exit <- Doors
  SpiritRoom = haven
  VoidRoom = haven
  LimboRoom = haven
  StartRoom = haven
  Keeper <- NoKeeper
  Level <- Levels
  Blow <- HeavyBlows
  MaxAttacks = 2
  Skill <- Fighter
  Enemy = {}
  Grenades = {}
  Mishap <- NoMishap
INVARIANTS
  TypeOK
  ListSound
  TurnsFair
  FallenSound
SYMMETRY MobSymmetry
