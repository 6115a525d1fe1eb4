SPECIFICATION RealmSpec
CONSTANTS
  Parts = {"mail", "boards", "belongings", "houses", "clans", "editor", "tracking", "zones", "riding", "tables", "menus", "shops", "keywords", "programs", "affects", "commands", "lines", "ranks", "files", "casting", "walks", "copyover"}
  Addressees = {"ann", "bob"}
  MaxLetters = 2
  MaxParts = 3
  BoardList <- BoardOrder
  Posters = {"god", "ann"}
  PosterLevel <- LevelsHere
  WriteLevel <- GodsWrite
  RemoveLevel <- GodsRemove
  MAX_BOARD_MESSAGES = 3
  INDEX_SIZE = 3
  MaxPosts = 3
  Owners = {"ann", "bob"}
  Things = {"bag", "gem"}
  Bags = {"bag"}
  NoRents = {"gem"}
  Wearable = {"bag"}
  Given <- GivenThings
  MaxHandlings = 2
  MaxRestarts = 1
  HouseRooms = {"villa", "cottage", "attic"}
  AtriumOf <- Atriums
  HousePlayers = {"ann", "bob", "cyd"}
  MAX_HOUSES = 2
  MAX_GUESTS = 1
  Clansmen = {"ann", "god"}
  ClanLevel <- ClanLevels
  LVL_GRGOD = 106
  CLAN_EDIT_GOD_LEVEL = 108
  ClanNumbers = {3, 5}
  FirstClan <- ClanAtFirst
  Amounts <- GiveOrTake
  MaxWealth = 1
  MaxDeeds = 5
  Editors = {"e1"}
  EditKinds <- TextKinds
  max_str = 9
  LineSizes = {0, 4}
  PAGES = 2
  MaxLines = 2
  TrackRooms = {"a", "b", "c"}
  NUM_OF_DIRS = 2
  TrackWorlds <- Mazes
  ZoneNumbers = {1, 2}
  ZoneOf <- ZonesOfRooms
  Lifespan <- Lifespans
  ResetMode <- ResetModes
  ResetCmds <- Resets
  Exits <- OneDoor
  RevDir <- Opposite
  Walkers = {"bob"}
  HasKey <- KeyRings
  Builders = {"bob"}
  PULSE_ZONE = 60
  Kinds = {"orc", "axe"}
  MaxQueued = 2
  Riders = {"ann", "god"}
  RidingGods = {"god"}
  Steeds = {"horse"}
  Pastures = {"field", "cave", "pit"}
  Trails <- Paths
  DeathTraps = {"pit"}
  Tunnels = {"cave"}
  FirstTable <- Numbers
  NewNumbers <- Additions
  FirstRefs <- References
  ZoneSize = 10
  MaxEdits = 3
  OlcEditors = {"redit", "medit", "oedit", "zedit", "sedit", "gedit"}
  MaxDescs = 3
  MaxCmds = 2
  Customers = {"ann", "god"}
  ShopGods = {"god"}
  Unwelcome = {}
  Wares = {"lamp", "gem", "dud"}
  Produced = {"lamp"}
  BuyTypes = {"lamp", "gem"}
  BuyPrice <- PricesAsked
  SellPrice <- PricesPaid
  CarryLimit = 2
  ShopHours = {12}
  FirstWares <- OnTheShelf
  FirstGold = 1
  UsesBank = TRUE
  MIN_OUTSIDE_BANK = 1
  MAX_OUTSIDE_BANK = 2
  MaxMixups = 1
  KeywordNames = {"a", "b"}
  Expressions <- Combined
  Programs <- Scripts
  Checks = {"c", "d"}
  MAX_PROG_QUEUE = 2
  MaxTriggers = 3
  Spells <- SpellBook
  Gear <- RingOnly
  Redone = {2}
  Innate = {"prot"}
  SByte = 4
  MAX_AFFECT = 2
  MAX_ABILITY = 2
  MaxDur = 2
  MaxEvents = 4
  Verbs <- Words
  CmdLevels = {0, 1}
  MaxCommands = 3
  Typed <- TypedLines
  HISTORY_SIZE = 3
  EditWord = "edit"
  MaxTyped = 3
  MAX_MORT_LEVEL = 3
  LVL_IMMORT = 4
  LVL_GOD_ADVANCE = 5
  LVL_IMPL = 5
  LevelExp <- Costs
  KillsFor <- Duels
  MAX_QPOINTS = 1
  MAX_LEGEND_LEVELS = 2
  RankClasses = {"druid"}
  FirstClass = "paladin"
  ExpGains <- WinOrLose
  ExpLimit = 6
  TOP_LEVEL = 9
  MAX_CMD = 4
  MaxChanges = 2
  MaxBoots = 2
  Mages = {"ann", "bob"}
  Gods = {"wiz"}
  Beasts = {"orc"}
  Imps = {"imp"}
  CastRooms = {"hall", "yard"}
  NoMagic = {}
  Peaceful = {"yard"}
  FirstPlaces <- Standing
  Leader <- Following
  CastCost = 2
  MaxMana = 3
  MaxHealth = 1
  FogTicks = 2
  Rods <- MagicThings
  MaxCasts = 2
  Stones = {"urn", "fan", "key"}
  Unseen = {"key"}
  Hands = {"ann", "bob"}
  Switchers = {"ann"}
  Puppets = {"puff", "the orc"}
  Worded <- WordsOfName
  HandRooms = {"temple", "new", "cell"}
  UnsavedRooms = {"new"}
  StartRoom = "temple"
  FrozenRoom = "cell"
  FrozenHands = {"bob"}
  MaxProgress = 1
INVARIANTS
  RealmTypeOK
  FirstStepIsShortest
  RidesPaired
  EditorsSound
  CommandsSound
  RanksSound
PROPERTIES
  MailSound
  BoardsSound
  ClansSafe
  OverrunsAreKnown
  ZonesSafe
  ShopsSound
  AffectsSound
  FilesKeep
  CastingSound
  RestartsSound
  ListsSound
CHECK_DEADLOCK FALSE
