CONSTANTS
    h1 = h1
    h2 = h2
    Handles <- MCHandles
    Positions <- MCPositions
    RequestPositions <- MCRequestPositions
    EntityTicking = 4
    GenerationRadius = 1
    ViewDistances = {0, 4}
    SimulationDistance = 3
    RequestLevels = {6, 7}
    PortalRadius = 3
    PearlRadius = 2
    PortalTimeout = 1
    PearlTimeout = 0
    NoLevel = NoLevel
    NoView = NoView
    NoRequest = NoRequest
    MaxOperations = 3
SYMMETRY Symmetry
SPECIFICATION TicketSpec
INVARIANTS
    StrongestTicketWins
    HoldersFollowManager
    TicketsBalance
    PlayerAreaLoaded
