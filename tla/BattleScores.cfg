SPECIFICATION Spec
CONSTANTS
    alice = alice
    bob = bob
    Players = {alice}
    Bands <- MCSolo
    Songs = {song}
    Points = {1}
    SongPoints = {1}
    Calls = {k1, k2}
    Racing = {song}
    Bannable = {}
    MaxBattles = 1
    MaxScores = 1
PROPERTIES
    ExpiredBattleScoresDeleted
