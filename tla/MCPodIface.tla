----------------------------- MODULE MCPodIface -----------------------------
(* IPAM results for checking PodIface with TLC.                            *)
EXTENDS PodIface

A4(x) == [fam |-> 4, a |-> x]
A6(x) == [fam |-> 6, a |-> x]
IP(if, v, addr, gw) == [iface |-> if, ver |-> v, addr |-> addr, gw |-> gw]
Rt(dst, gw) == [dst |-> dst, gw |-> gw]

Default4 == Prefix(4, 0, AddrMax)
Default6 == Prefix(6, 0, AddrMax)
Service4 == Prefix(4, 4, 7)

\* An IPv4 pod: one address, its gateway, a default route through it; an
\* IP the result gives no interface.
V4 == [ifaces |-> <<"if">>,
       ips |-> <<IP(1, 4, A4(5), A4(1)), IP(None, 4, A4(6), A4(1))>>,
       routes |-> <<Rt(Default4, None)>>]

\* A dual-stack pod with default routes of both families, the v4 one given
\* twice.
Dual == [ifaces |-> <<"if">>,
         ips |-> <<IP(1, 4, A4(5), A4(1)), IP(1, 6, A6(5), A6(1))>>,
         routes |-> <<Rt(Default4, None), Rt(Default6, None), Rt(Default4, A4(1))>>]

\* An IPv6-only pod whose route names its gateway.
V6 == [ifaces |-> <<"if">>,
       ips |-> <<IP(1, 6, A6(5), A6(1))>>,
       routes |-> <<Rt(Default6, A6(1))>>]

\* Results ConfigureIface must refuse: no interface, an IP for an interface
\* that is not ifName, the same address twice.
NoIface == [ifaces |-> << >>, ips |-> << >>, routes |-> << >>]
Other == [ifaces |-> <<"eth9">>, ips |-> <<IP(1, 4, A4(5), A4(1))>>, routes |-> << >>]
Twice == [ifaces |-> <<"if">>,
          ips |-> <<IP(1, 4, A4(5), A4(1)), IP(1, 4, A4(5), A4(1))>>,
          routes |-> << >>]

\* A second gateway inside the default route: a route to a service range
\* through another on-link router.  The default route is listed with a nil
\* Dst, so gateway 2 gets a direct route of its own.
TwoGateways == [ifaces |-> <<"if">>,
                ips |-> <<IP(1, 4, A4(5), A4(1))>>,
                routes |-> <<Rt(Default4, None), Rt(Service4, A4(2))>>]

\* The default route given twice with different gateways: the second is
\* passed over on EEXIST, after its gateway got a direct route.
TwoDefaults == [ifaces |-> <<"if">>,
                ips |-> <<IP(1, 4, A4(5), A4(1))>>,
                routes |-> <<Rt(Default4, None), Rt(Default4, A4(2))>>]

MCResults == {V4, Dual, V6, NoIface, Other, Twice, TwoGateways, TwoDefaults}
=============================================================================
