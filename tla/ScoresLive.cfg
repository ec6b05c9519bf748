SPECIFICATION FairSpec
CONSTANTS
    alice = alice
    bob = bob
    Players = {alice}
    Bands <- MCSolo
    Songs = {song}
    Points = {1}
    SongPoints = {1}
    Calls = {k1}
    Racing = {song}
    Bannable = {alice}
    MaxBattles = 2
    MaxScores = 2
PROPERTIES
    BattlesAreDeleted
    BannedScoresRemoved
