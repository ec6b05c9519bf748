SPECIFICATION FairSpec
CONSTANTS
    Players = {alice}
    Calls = {keeper, k1, k2}
    Keeper = keeper
    TTL = 2
    MaxIDs = 2
    MaxBans = 2
INVARIANTS
    TypeOK
    UniqueIDs
PROPERTIES
    UnbanLetsIn
    UnbanIsNoticed
    BanIsNoticed
