SPECIFICATION Spec
CONSTANTS
    Obj = {"sword", "corpse"}
    Char = {"hero", "orc"}
    Mob = {"orc"}
    Room = {"square", "river"}
    Donation = "square"
    Water = {"river"}
    NoSink = {}
    NoDrop = {}
    NoTake = {}
    Pos = {"light", "hold"}
    LightPos = "light"
    None = None
    Kind <- KindOf
    Fits <- FitsOf
    Empty <- EmptyOf
    Capacity <- CapacityOf
    Units <- UnitsOf
    Home <- HomeOf
    CarryN <- Two
    CarryW <- Five
    BodyWeight = 1
    MaxGulp = 2
    Quenched = {}
    WaterMage = {}
    Destroyer = {}
    Wand = {}
INVARIANT SuccessorLives
