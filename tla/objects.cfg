SPECIFICATION Spec
CONSTANTS
    Obj = {"bag", "torch", "bread", "corpse"}
    Char = {"hero", "orc"}
    Mob = {"orc"}
    Room = {"square", "road"}
    Donation = "square"
    Water = {}
    NoSink = {}
    NoDrop = {}
    NoTake = {}
    Pos = {"light", "hold"}
    LightPos = "light"
    None = None
    Kind <- KindOf
    Fits <- FitsOf
    Empty <- EmptyOf
    Capacity <- CapacityOf
    Units <- UnitsOf
    Home <- HomeOf
    CarryN <- Two
    CarryW <- Five
    BodyWeight = 1
    MaxGulp = 2
    Quenched = {}
    WaterMage = {}
    Destroyer = {}
    Wand = {}
INVARIANTS
    TypeOK
    OnePlace
    SumsAddUp
    SuccessorLives
PROPERTY
    NothingIsLost
