SPECIFICATION FairSpec
CONSTANTS
    ps3 = ps3
    wii = wii
    alice = alice
    ALICE = ALICE
    bob = bob
    NoName = NoName
    NoCode = NoCode
    Consoles = {ps3, wii}
    Wiis = {wii}
    Verified = {ps3}
    Stated <- MCStated
    Players = {alice, bob, NoName}
    Names = {alice, ALICE, NoName}
    Player <- MCPlayer
    Typed <- MCTyped
    Banned = {}
    Racing = {}
    MaxStack = 2
    MaxPIDs = 2
    MaxMachines = 2
    MaxRestarts = 1
INVARIANTS
    TypeOK
    CurrentPIDIsValid
    RefusedStaysOut
PROPERTIES
    RegisteredAsLoggedIn
    ImplementsRegistry
    NewWiiRegisters
