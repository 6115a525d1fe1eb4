SPECIFICATION Spec
CONSTANTS
    Obj = {"bag", "sack", "skin", "well"}
    Char = {"hero", "orc"}
    Mob = {"orc"}
    Room = {"square", "river"}
    Donation = "square"
    Water = {"river"}
    NoSink = {"sack"}
    NoDrop = {}
    NoTake = {}
    Pos = {"light", "hold"}
    LightPos = "light"
    None = None
    Kind <- KindOf
    Fits <- FitsOf
    Empty <- EmptyOf
    Capacity <- CapacityOf
    Units <- UnitsOf
    Home <- HomeOf
    CarryN <- Two
    CarryW <- Five
    BodyWeight = 1
    MaxGulp = 2
    Quenched = {}
    WaterMage = {"hero"}
    Destroyer = {"hero"}
    Wand = {"hero"}
INVARIANTS
    NoContainerLoop
    LiquidsWeighed
