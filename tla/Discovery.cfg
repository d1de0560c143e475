CONSTANTS
    old = old
    twin = twin
    high = high
    typo = typo
    Relays = {old, twin, high, typo}
    here = here
    there = there
    Hosts = {here, there}
    AnyHost = AnyHost
    Host <- MCHost
    ScanHost = here
    LoadHost = there
    Client = Client
    Builds <- MCBuilds
    ListenAddr <- MCListenAddr
    RelayId <- MCRelayId
    Config <- MCConfig
    PortMax = 9
    Offset = 4
    Addresses <- MCAddresses
    InitialFiles <- MCInitialFiles
    Absent = Absent
    Truncated = Truncated
    NoPeer = NoPeer
    Gone = Gone
    MaxStarts = 3
    MaxFaults = 2
SPECIFICATION FairSpec
INVARIANTS
    TypeOK
    EveryAddressAccounted
    PollsWhereAnswered
PROPERTIES
    LoadsWhole
    ScanEnds
