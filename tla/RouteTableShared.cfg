CONSTANTS
    sa = sa  sx = sx  sv = sv  sb = sb  g0 = g0  g1 = g1  g2 = g2
    Subnets = {sa, sx}
    Mode <- MCModeOverlay
    AutoNat <- MCAutoNatOverlay
    Gateway <- MCGatewayOverlay
    Gws = {g0}
    NoGw = NoGw
    Blocks = {}
    StaleDsts = {d1}
    DefaultDst = DefaultDst
    ForeignDst = ForeignDst
    NoSrc = NoSrc
    GatewayInCidr = {}
    LocalSubnets = {}
    HostDirectRoute = {}
    HostDefaultGw <- MCHostDefaultGw
    StaleTable <- MCStaleTableOverlay
    StalePrio <- MCStalePrioOverlay
    ForeignTables = {10}
    MinRouteTableNum = 10
    MaxRouteTableNum = 14
    MaxRulePriority = 7
    NodeLocalTableNum = 255
    LocalRulePrio = 0
    MaxFailures = 0
INIT Init
NEXT Next
INVARIANT TableExclusive
