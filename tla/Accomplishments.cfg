SPECIFICATION FairSpec
CONSTANTS
    c1 = c1
    c2 = c2
    metascore = metascore
    goal = goal
    Consoles = {c1, c2}
    Players = {1, 2}
    Valid <- MCValid
    Goals = {metascore, goal}
    Metascore = metascore
    Requests <- MCRequests
    Bannable <- MCBannable
    MaxFailures = 1
INVARIANTS
    TypeOK
    ArraysAgree
PROPERTIES
    OthersKept
    BannedAreRemoved
