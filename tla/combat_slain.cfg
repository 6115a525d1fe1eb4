\* A player whom damage() fells at POS_DEAD without die().
SPECIFICATION Spec
CONSTANTS
  p1 = p1
  p2 = p2
  m1 = m1
  m2 = m2
  field = field
  haven = haven
  NoOne = NoOne
  Nowhere = Nowhere
  Player <- OnePlayer
  Mob <- TwoMobs
  Room <- Rooms
  Peaceful <- Haven
  Exit <- Doors
  SpiritRoom = haven
  VoidRoom = haven
  LimboRoom = haven
  StartRoom = haven
  Keeper <- NoKeeper
  Level <- Levels
  Blow <- Blows
  MaxAttacks = 2
  Skill <- Fighter
  Enemy = {}
  Grenades = {}
  Mishap <- NoMishap
INVARIANT NobodyLeftDead
SYMMETRY MobSymmetry
