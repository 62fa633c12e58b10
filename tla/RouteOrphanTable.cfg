CONSTANTS
    sa = sa  sx = sx  sv = sv  sb = sb  g0 = g0  g1 = g1  g2 = g2
    Subnets = {sa, sx, sv, sb}
    Mode <- MCMode
    AutoNat <- MCAutoNat
    Gateway <- MCGateway
    Gws = {g0, g1, g2}
    NoGw = NoGw
    Blocks = {b1}
    StaleDsts = {d1}
    DefaultDst = DefaultDst
    ForeignDst = ForeignDst
    NoSrc = NoSrc
    GatewayInCidr = {sv}
    LocalSubnets = {sv}
    HostDirectRoute = {sv}
    HostDefaultGw <- MCHostDefaultGw
    StaleTable <- MCStaleTable
    StalePrio <- MCStalePrio
    ForeignTables = {10}
    MinRouteTableNum = 10
    MaxRouteTableNum = 16
    MaxRulePriority = 7
    NodeLocalTableNum = 255
    LocalRulePrio = 0
    MaxFailures = 1
INIT Init
NEXT Next
INVARIANT NoOrphanTable
