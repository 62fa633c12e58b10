---------------------------- MODULE MCAddrManager ----------------------------
(* Model values and address lists for checking AddrManager with TLC.       *)
EXTENDS AddrManager

CONSTANTS l1, l2, s1, s2, p1, p2, p3, h1

\* p1 and p2 are pod IPs of s1, p3 of s2; h1 is a host address in s2.
MCSubnetOf == (p1 :> s1) @@ (p2 :> s1) @@ (p3 :> s2) @@ (h1 :> s2)

\* Both subnets are forwarded through l1; l2 forwards none.
MCForwardIf == (s1 :> l1) @@ (s2 :> l1)

E(ip) == [ip |-> ip, enhanced |-> TRUE]
M(ip) == [ip |-> ip, enhanced |-> FALSE]

\* What a link may hold when the daemon starts: nothing, a manual address,
\* enhanced addresses from an earlier run (two of one subnet among them).
MCInitAddrs ==
    {<< >>, <<M(h1)>>, <<E(p1)>>, <<M(h1), E(p3)>>, <<E(p2), E(p1)>>, <<E(p3)>>}

\* The same without a link that starts with two enhanced addresses of one
\* subnet: such a pair then only comes from the daemon's own steps.
MCInitAddrsSingle == {q \in MCInitAddrs : q # <<E(p2), E(p1)>>}
=============================================================================
