SPECIFICATION FairSpec
CONSTANTS
    d1 = d1
    d2 = d2
    d3 = d3
    p1 = p1
    p2 = p2
    b1 = b1
    b2 = b2
    b3 = b3
    m1 = m1
    m2 = m2
    None = None
    Desc = {d1, d2}
    Player = {p1}
    PcBody = {b1, b2}
    MobBody = {}
    Rank <- OneMortal
    Editor = {"redit"}
    Zombie = {}
    MaxVersion = 1
INVARIANT
    QuitRecordKept
CHECK_DEADLOCK FALSE
