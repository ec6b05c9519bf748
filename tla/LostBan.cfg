SPECIFICATION Spec
CONSTANTS
    Players = {alice}
    Calls = {keeper, k1, k2}
    Keeper = keeper
    TTL = 2
    MaxIDs = 2
    MaxBans = 2
PROPERTIES
    BanRecordsPreserved
