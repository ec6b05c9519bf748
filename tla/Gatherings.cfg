SPECIFICATION FairSpec
CONSTANTS
    wii = wii
    ps3 = ps3
    rpcs3 = rpcs3
    alice = alice
    bob = bob
    BOB = BOB
    carol = carol
    NoMachine = NoMachine
    Consoles = {wii, ps3, rpcs3}
    Wii = {wii}
    Platform <- MCPlatform
    Accounts = {alice, bob, carol}
    AccountsOf <- MCAccountsOf
    Spellings <- MCSpellings
    Calls = {k1, k2}
    Overlap = FALSE
    SessionStates = {0, 2}
    SampleSize = 10
    MaxGatherings = 2
INVARIANTS
    TypeOK
    OneGatheringEach
    OwnerPassesCheck
PROPERTIES
    OnlyItsConsoleWrites
    AbandonedIsPruned
