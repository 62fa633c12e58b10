--------------------------- MODULE AddrLocalSubnet ---------------------------
(***************************************************************************)
(* The address manager seen by the policy-route manager.                   *)
(* ensureRoutesForVlanSubnet (src/pkg/daemon/route/utils.go) decides       *)
(* whether a vlan subnet is local from every address of the host, the      *)
(* enhanced addresses the address manager adds and deletes included; it   *)
(* passes over those by their IFA_F_NOPREFIXROUTE flag, which the address *)
(* manager sets on every address it adds (part_002, AddrAdd).  Manual     *)
(* addresses are the host's own, with their prefix route.                  *)
(***************************************************************************)
EXTENDS AddrManager

\* The flag of an address: the address manager adds enhanced addresses with
\* IFA_F_NOPREFIXROUTE; a manual address has its prefix route.
NoPrefixRoute(a) == a.enhanced

\* Mutant: every address of the subnet makes it local, the flag unchecked.
isLocalSubnetAnyAddr(s) ==
    \E l \in Links : \E a \in ToSet(addrs[l]) : SubnetOf[a.ip] = s

\* isLocalSubnet: some local address in the subnet's cidr without
\* IFA_F_NOPREFIXROUTE.
isLocalSubnet(s) ==
    \E l \in Links : \E a \in ToSet(addrs[l]) :
        SubnetOf[a.ip] = s /\ ~NoPrefixRoute(a)

\* No step of the address manager, of its driver or of the cluster --
\* adding, replacing or deleting enhanced addresses, at any point of a pass
\* and after any failure -- changes which subnets the route manager takes
\* for local, so the two managers may run in either order.
LocalSubnetStable ==
    [][\A s \in Subnets : isLocalSubnet(s)' = isLocalSubnet(s)]_vars
=============================================================================
