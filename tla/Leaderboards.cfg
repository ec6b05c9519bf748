SPECIFICATION FairSpec
CONSTANTS
    c1 = c1
    c2 = c2
    s1 = s1
    s2 = s2
    b = b
    g = g
    unserved = unserved
    wii = wii
    ps3 = ps3
    NoType = NoType
    Consoles = {c1, c2}
    Players = {1, 2, 3}
    Valid <- MCValid
    Songs = {s1, s2}
    RB3Songs = {s1}
    Battles = {b}
    Goals = {g, unserved}
    Served = {g}
    Types = {wii, ps3}
    MaxPoints = 3
    Window = 2
    AccWindow = 2
    Requests <- MCRequests
    InitialScores <- MCInitialScores
    InitialTypes <- MCInitialTypes
    Recordings <- MCRecordings
    Friendships <- MCFriendships
    TypeChanges <- MCTypeChanges
    MaxChanges = 1
PROPERTIES
    RanksAgree
    PlayerOnPage
    CacheCatchesUp
