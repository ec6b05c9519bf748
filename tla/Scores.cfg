SPECIFICATION Spec
CONSTANTS
    alice = alice
    bob = bob
    Players = {alice, bob}
    Bands <- MCDuo
    Songs = {song}
    Points = {0, 1, 2}
    SongPoints = {0, 1}
    Calls = {k1, k2}
    Racing = {song}
    Bannable = {}
    MaxBattles = 1
    MaxScores = 3
SYMMETRY CallSymmetry
INVARIANTS
    TypeOK
    BattleIDsAreNew
PROPERTIES
    HigherOnlyInTurn
    SongScoreKept
