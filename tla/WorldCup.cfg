SPECIFICATION MCSpec
CONSTANTS
    home = home
    away = away
    guest = guest
    none = none
    NoTeam = none
    Slug <- MCSlug
    Half <- MCHalf
    GameOf <- MCGameOf
    TeamsOf <- MCTeamsOf
    Games <- MCGames
    MaxGoals = 3
    Bound = {1, 2, 3, 4}
    MaxRanges = 2
    AllPairs = FALSE
    MaxLegs = 12
    One = 100
    Near = 103
    Price = {33, 68}
    Depth = 2
    Buffer = 0
    MinEdge = 1
    MinTrade = 20
    MaxTrade = 210
    EventCap = 220
    TeamCap = 205
    RelationCap = 220
    TotalCap = 330
    MaxScans = 3
INVARIANT CapsHold
INVARIANT PropsNeverLose
INVARIANT SpecsPay
CHECK_DEADLOCK FALSE
