--------------------------- MODULE PodIfaceProofs ---------------------------
(***************************************************************************)
(* Proofs about ConfigureIface (PodIface.tla) for every set of IPAM        *)
(* results that PodIfaceAssumption allows and every failure budget.        *)
(***************************************************************************)
EXTENDS PodIface, TLAPS

\* A result ConfigureIface is given has the shape PodIfaceAssumption states.
LEMMA ResultShape ==
    ASSUME NEW r \in Results
    PROVE  /\ r.ips \in Seq(IPConfig) /\ r.routes \in Seq(ResRoute)
BY PodIfaceAssumption

\* The failure budget is a natural number.
LEMMA BudgetNat == MaxFailures \in Nat
BY PodIfaceAssumption

\* The gateway a route is added via is an address or nil.
LEMMA RouteGwType ==
    ASSUME NEW r \in ResRoute, v4gw \in Addr \cup {None}, v6gw \in Addr \cup {None}
    PROVE  RouteGw(r) \in Addr \cup {None}
BY DEF RouteGw, ResRoute

\* AddRoute only adds link routes with no gateway and universe routes via
\* its gw.
LEMMA AddRouteType ==
    ASSUME NEW dst, NEW gw \in Addr \cup {None}, NEW fails,
           \A rt \in routes : rt.scope \in {"link", "universe"} /\ rt.gw \in Addr \cup {None}
    PROVE  LET out == AddRoute(dst, gw, fails)
           IN  /\ \A rt \in out.routes : rt.scope \in {"link", "universe"} /\ rt.gw \in Addr \cup {None}
               /\ out.err \in {"gwfail", "unreachable", "exist", "kernel", "none"}
BY DEF AddRoute

\* The initial states are well typed.
LEMMA InitTypeOK == Init => TypeOK
<1> SUFFICES ASSUME Init PROVE TypeOK
    OBVIOUS
<1>1. res.ips \in Seq(IPConfig) /\ res.routes \in Seq(ResRoute)
    BY ResultShape DEF Init
<1>2. i \in 1 .. Len(res.ips) + 1 /\ j \in 1 .. Len(res.routes) + 1
    BY <1>1 DEF Init
<1>3. failures \in 0 .. MaxFailures
    BY BudgetNat DEF Init
<1>4. None \in Addr \cup {None}
    OBVIOUS
<1>5. /\ res \in Results /\ up \in BOOLEAN /\ addrs \subseteq Addr
      /\ \A rt \in routes : rt.scope \in {"link", "universe"} /\ rt.gw \in Addr \cup {None}
      /\ disabled \in [{"lo", "if"} -> BOOLEAN]
    BY DEF Init
<1>6. pc \in {"start", "ips", "sysctl", "settle", "routes", "ok", "err"} /\ sx \in 1 .. 3
    BY DEF Init
<1>7. v4gw \in Addr \cup {None} /\ v6gw \in Addr \cup {None} /\ hasEnabledIPv6 \in BOOLEAN
    BY <1>4 DEF Init
<1>. QED
    BY <1>2, <1>3, <1>5, <1>6, <1>7 DEF TypeOK

\* Every step keeps the type invariant.
LEMMA NextTypeOK == TypeOK /\ [Next]_vars => TypeOK'
<1> SUFFICES ASSUME TypeOK, [Next]_vars PROVE TypeOK'
    OBVIOUS
<1>0. res.ips \in Seq(IPConfig) /\ res.routes \in Seq(ResRoute) /\ MaxFailures \in Nat
    BY ResultShape, BudgetNat DEF TypeOK
<1>1. CASE Start
    <2>1. \/ pc' = "err" /\ err' = "noiface" /\ UNCHANGED <<up, failures>>
          \/ CanFail /\ pc' = "err" /\ err' = "kernel" /\ up' = FALSE /\ failures' = failures + 1
          \/ up' = TRUE /\ pc' = "ips" /\ UNCHANGED <<err, failures>>
        BY <1>1 DEF Start, Fail
    <2>2. UNCHANGED <<res, addrs, routes, disabled, i, sx, j, v4gw, v6gw, hasEnabledIPv6>>
        BY <1>1 DEF Start
    <2>3. failures' \in 0 .. MaxFailures
        BY <1>0, <2>1 DEF CanFail, TypeOK
    <2>4. up' \in BOOLEAN /\ pc' \in {"start", "ips", "sysctl", "settle", "routes", "ok", "err"}
        BY <2>1 DEF TypeOK
    <2>5. i' \in 1 .. Len(res'.ips) + 1 /\ j' \in 1 .. Len(res'.routes) + 1
        BY <2>2 DEF TypeOK
    <2>. QED
        BY <2>2, <2>3, <2>4, <2>5 DEF TypeOK
<1>2. CASE AddIP
    <2>. DEFINE ipc == res.ips[i]
    <2>1. ipc \in IPConfig /\ i \in 1 .. Len(res.ips)
        BY <1>0, <1>2 DEF AddIP, TypeOK
    <2>2. \/ i' = i + 1 /\ UNCHANGED <<pc, err, addrs, v4gw, v6gw, failures>>
          \/ pc' \in {"err", "sysctl"} /\ UNCHANGED <<i, addrs, v4gw, v6gw, failures>>
          \/ CanFail /\ pc' = "err" /\ failures' = failures + 1
             /\ UNCHANGED <<i, addrs, v4gw, v6gw>>
          \/ /\ addrs' = addrs \cup {ipc.addr} /\ i' = i + 1
             /\ v4gw' \in {v4gw, ipc.gw} /\ v6gw' \in {v6gw, ipc.gw}
             /\ UNCHANGED <<pc, err, failures>>
        BY <1>2 DEF AddIP, Fail
    <2>3. UNCHANGED <<res, up, routes, disabled, sx, j, hasEnabledIPv6>>
        BY <1>2 DEF AddIP
    <2>4. ipc.addr \in Addr /\ ipc.gw \in Addr \cup {None}
        BY <2>1 DEF IPConfig
    <2>. QED
        BY <1>0, <2>1, <2>2, <2>3, <2>4 DEF CanFail, TypeOK
<1>3. CASE EnableIPv6
    <2>1. sx \in 1 .. 2 /\ Ifaces[sx] \in {"lo", "if"}
        BY <1>3 DEF EnableIPv6, Ifaces
    <2>2. disabled' \in [{"lo", "if"} -> BOOLEAN]
        BY <1>3, <2>1 DEF EnableIPv6, TypeOK
    <2>3. /\ sx' = sx + 1 \/ sx' = sx
          /\ hasEnabledIPv6' = TRUE \/ hasEnabledIPv6' = hasEnabledIPv6
        BY <1>3 DEF EnableIPv6
    <2>4. pc' \in {"start", "ips", "sysctl", "settle", "routes", "ok", "err"}
        BY <1>3 DEF EnableIPv6, Fail, TypeOK
    <2>5. failures' \in 0 .. MaxFailures
        BY <1>0, <1>3 DEF EnableIPv6, CanFail, TypeOK
    <2>6. UNCHANGED <<res, up, addrs, routes, i, j, v4gw, v6gw>>
        BY <1>3 DEF EnableIPv6
    <2>7. i' \in 1 .. Len(res'.ips) + 1 /\ j' \in 1 .. Len(res'.routes) + 1
        BY <2>6 DEF TypeOK
    <2>8. sx' \in 1 .. 3
        BY <2>1, <2>3 DEF TypeOK
    <2>9. hasEnabledIPv6' \in BOOLEAN
        BY <2>3, Zenon DEF TypeOK
    <2>. QED
        BY <2>2, <2>4, <2>5, <2>6, <2>7, <2>8, <2>9 DEF TypeOK
<1>4. CASE EndIPs
    BY <1>0, <1>4 DEF EndIPs, TypeOK
<1>5. CASE Settle
    BY <1>0, <1>5 DEF Settle, Fail, CanFail, TypeOK
<1>6. CASE AddResRoute
    <2>1. j \in 1 .. Len(res.routes) /\ res.routes[j] \in ResRoute
        BY <1>0, <1>6 DEF AddResRoute, TypeOK
    <2>2. RouteGw(res.routes[j]) \in Addr \cup {None}
        BY <2>1, RouteGwType DEF TypeOK
    <2>3. PICK fails \in {{}} \cup (IF CanFail THEN {{"direct"}, {"route"}} ELSE {}) :
            LET out == AddRoute(res.routes[j].dst, RouteGw(res.routes[j]), fails)
                spent == IF out.err \in {"gwfail", "kernel"} THEN 1 ELSE 0
            IN
            /\ fails = {} \/ spent = 1
            /\ failures' = failures + spent
            /\ routes' = out.routes
            /\ IF out.err \in {"none", "exist"}
               THEN j' = j + 1 /\ UNCHANGED <<pc, err>>
               ELSE Fail(out.err) /\ UNCHANGED j
        BY <1>6 DEF AddResRoute
    <2>. DEFINE out == AddRoute(res.routes[j].dst, RouteGw(res.routes[j]), fails)
    <2>4. /\ \A rt \in out.routes : rt.scope \in {"link", "universe"} /\ rt.gw \in Addr \cup {None}
          /\ out.err \in {"gwfail", "unreachable", "exist", "kernel", "none"}
        BY <2>2, AddRouteType DEF TypeOK
    <2>5. failures' \in 0 .. MaxFailures
        <3>1. fails = {} => out.err \notin {"gwfail", "kernel"}
            BY DEF AddRoute
        <3>. QED
            BY <1>0, <2>3, <3>1 DEF CanFail, TypeOK
    <2>. QED
        BY <1>0, <1>6, <2>1, <2>3, <2>4, <2>5 DEF AddResRoute, Fail, TypeOK
<1>7. CASE Done
    BY <1>0, <1>7 DEF Done, TypeOK
<1>8. CASE UNCHANGED vars
    BY <1>8 DEF vars, TypeOK
<1>. QED
    BY <1>1, <1>2, <1>3, <1>4, <1>5, <1>6, <1>7, <1>8 DEF Next

\* ConfigureIface keeps its loop indices within the result's lists and
\* spends no more failures than the budget (the claim TypeOK of the
\* podiface_configure run), for every result.
THEOREM PodIfaceTypeCorrect == Spec => []TypeOK
BY InitTypeOK, NextTypeOK, PTL DEF Spec
-----------------------------------------------------------------------------
(* A nil return means every address of the result is on the interface.    *)

\* The IPs of the result that the loop has passed are on the interface
\* (with IPv6 enabled on it for an IPv6 one) when they are meant for it.
IPsDone(n) ==
    \A k \in 1 .. n - 1 : res.ips[k].iface # None =>
        /\ res.ips[k].addr \in addrs
        /\ res.ips[k].ver = 6 => ~disabled["if"]

\* The inductive invariant: the link is up once Start has passed, the IPs
\* before i are done, and the loop over the IPs is over once
\* ConfigureIface has moved on to settling or to the routes.
AddrInv ==
    /\ TypeOK
    /\ pc \in {"ips", "sysctl", "settle", "routes", "ok"} => up
    /\ IPsDone(i)
    /\ pc \in {"settle", "routes", "ok"} => i = Len(res.ips) + 1

\* The initial states satisfy AddrInv: no IP has been passed yet.
LEMMA InitAddrInv == Init => AddrInv
BY InitTypeOK DEF Init, AddrInv, IPsDone

\* A step that leaves the addresses, the sysctls, the result and the index
\* alone keeps the IPs before i done.
LEMMA DoneUnchanged ==
    ASSUME IPsDone(i), UNCHANGED <<res, addrs, disabled, i>>
    PROVE  IPsDone(i)'
BY DEF IPsDone

\* Every step keeps AddrInv.
LEMMA NextAddrInv == AddrInv /\ [Next]_vars => AddrInv'
<1> SUFFICES ASSUME AddrInv, [Next]_vars PROVE AddrInv'
    OBVIOUS
<1>0. TypeOK' /\ res.ips \in Seq(IPConfig)
    BY NextTypeOK, ResultShape DEF AddrInv, TypeOK
<1>1. CASE Start
    <2>1. /\ pc' \in {"err", "ips"} /\ (pc' = "ips" => up')
          /\ UNCHANGED <<res, addrs, disabled, i>>
        BY <1>1 DEF Start, Fail
    <2>. QED
        BY <1>0, <2>1, DoneUnchanged DEF AddrInv
<1>2. CASE AddIP
    <2>. DEFINE ipc == res.ips[i]
    <2>1. pc = "ips" /\ i \in 1 .. Len(res.ips) /\ UNCHANGED <<res, up, disabled>>
        BY <1>2 DEF AddIP, AddrInv, TypeOK
    <2>2. \/ ipc.iface = None /\ i' = i + 1 /\ UNCHANGED <<pc, addrs>>
          \/ pc' \in {"err", "sysctl"} /\ UNCHANGED <<i, addrs>>
          \/ /\ ~(ipc.ver = 6 /\ disabled["if"])
             /\ addrs' = addrs \cup {ipc.addr} /\ i' = i + 1 /\ UNCHANGED pc
        BY <1>2 DEF AddIP, Fail
    <2>3. up
        BY <2>1 DEF AddrInv
    <2>4. CASE ipc.iface = None /\ i' = i + 1 /\ UNCHANGED <<pc, addrs>>
        <3>1. IPsDone(i)'
            BY <2>1, <2>4 DEF AddrInv, IPsDone
        <3>. QED
            BY <1>0, <2>1, <2>3, <2>4, <3>1 DEF AddrInv
    <2>5. CASE pc' \in {"err", "sysctl"} /\ UNCHANGED <<i, addrs>>
        BY <1>0, <2>1, <2>3, <2>5, DoneUnchanged DEF AddrInv
    <2>6. CASE /\ ~(ipc.ver = 6 /\ disabled["if"])
               /\ addrs' = addrs \cup {ipc.addr} /\ i' = i + 1 /\ UNCHANGED pc
        <3>1. IPsDone(i)'
            BY <2>1, <2>6 DEF AddrInv, IPsDone
        <3>. QED
            BY <1>0, <2>1, <2>3, <2>6, <3>1 DEF AddrInv
    <2>. QED
        BY <2>2, <2>4, <2>5, <2>6
<1>3. CASE EnableIPv6
    <2>1. /\ pc = "sysctl" /\ pc' \in {"sysctl", "ips", "err"}
          /\ UNCHANGED <<res, up, addrs, i>>
          /\ disabled' = disabled \/ \E x \in {"lo", "if"} : disabled' = [disabled EXCEPT ![x] = FALSE]
        BY <1>3 DEF EnableIPv6, Fail, Ifaces
    <2>2. ~disabled["if"] => ~disabled'["if"]
        BY <2>1 DEF AddrInv, TypeOK
    <2>3. IPsDone(i)'
        BY <2>1, <2>2 DEF AddrInv, IPsDone
    <2>. QED
        BY <1>0, <2>1, <2>3 DEF AddrInv
<1>4. CASE EndIPs
    <2>1. /\ pc = "ips" /\ i > Len(res.ips) /\ pc' \in {"routes", "settle"}
          /\ UNCHANGED <<res, up, addrs, disabled, i>>
        BY <1>4 DEF EndIPs
    <2>2. i = Len(res.ips) + 1
        BY <2>1 DEF AddrInv, TypeOK
    <2>. QED
        BY <1>0, <2>1, <2>2, DoneUnchanged DEF AddrInv
<1>5. CASE Settle
    <2>1. /\ pc = "settle" /\ pc' \in {"routes", "err"}
          /\ UNCHANGED <<res, up, addrs, disabled, i>>
        BY <1>5 DEF Settle, Fail
    <2>. QED
        BY <1>0, <2>1, DoneUnchanged DEF AddrInv
<1>6. CASE AddResRoute
    <2>1. /\ pc = "routes" /\ pc' \in {"routes", "err"}
          /\ UNCHANGED <<res, up, addrs, disabled, i>>
        BY <1>6 DEF AddResRoute, Fail
    <2>. QED
        BY <1>0, <2>1, DoneUnchanged DEF AddrInv
<1>7. CASE Done
    <2>1. pc = "routes" /\ pc' = "ok" /\ UNCHANGED <<res, up, addrs, disabled, i>>
        BY <1>7 DEF Done
    <2>. QED
        BY <1>0, <2>1, DoneUnchanged DEF AddrInv
<1>8. CASE UNCHANGED vars
    <2>1. UNCHANGED <<res, up, addrs, disabled, i, pc>>
        BY <1>8 DEF vars
    <2>. QED
        BY <1>0, <2>1, DoneUnchanged DEF AddrInv
<1>. QED
    BY <1>1, <1>2, <1>3, <1>4, <1>5, <1>6, <1>7, <1>8 DEF Next

\* When ConfigureIface returns nil, the interface is up and every address of
\* the result meant for it is on it, IPv6 enabled on it for an IPv6 one,
\* whatever the IPAM result and whichever netlink or sysctl calls fail.
THEOREM SuccessAddrsHolds == Spec => []SuccessAddrs
<1>1. AddrInv => SuccessAddrs
    <2> SUFFICES ASSUME AddrInv, pc = "ok" PROVE SuccessAddrs
        BY DEF SuccessAddrs
    <2>1. res.ips \in Seq(IPConfig) /\ i = Len(res.ips) + 1
        BY ResultShape DEF AddrInv, TypeOK
    <2>. QED
        BY <2>1 DEF AddrInv, IPsDone, SuccessAddrs
<1>. QED
    BY <1>1, InitAddrInv, NextAddrInv, PTL DEF Spec

=============================================================================
