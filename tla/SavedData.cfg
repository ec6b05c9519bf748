SPECIFICATION Spec
CONSTANTS
    c1 = c1
    c2 = c2
    alice = alice
    ALICE = ALICE
    bob = bob
    master = master
    g = g
    h = h
    Consoles = {c1, c2}
    Players = {1, 2, 3}
    Names = {alice, ALICE, bob, master}
    Name <- MCName
    Anonymous = Anonymous
    Sessions <- MCSessions
    Services <- MCServices
    Guids = {g, h}
    NoGuid = NoGuid
    Racing = {h}
    Admins = {2}
    Saved <- MCSaved
    MaxIDs = 3
INVARIANTS
    TypeOK
    SavedOnce
    
PROPERTIES
    OwnSetlistsOnly
