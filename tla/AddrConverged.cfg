CONSTANTS
    l1 = l1
    l2 = l2
    s1 = s1
    s2 = s2
    p1 = p1
    p2 = p2
    p3 = p3
    h1 = h1
    Links = {l1, l2}
    Subnets = {s1, s2}
    PodIPs = {p1, p2, p3}
    HostIPs = {h1}
    SubnetOf <- MCSubnetOf
    ForwardIf <- MCForwardIf
    InitAddrs <- MCInitAddrsSingle
    Local = Local
    Other = Other
    MaxFailures = 1
    MaxMoves = 2
SPECIFICATION Spec
INVARIANT
    CleanPassConverged
