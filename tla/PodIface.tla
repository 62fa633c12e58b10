------------------------------ MODULE PodIface ------------------------------
(***************************************************************************)
(* ConfigureIface and AddRoute (src/pkg/daemon/utils/network.go): apply an *)
(* IPAM result -- addresses with gateways, routes -- to one interface.     *)
(*                                                                         *)
(* The state is the interface's kernel state (up, addresses, routes, the   *)
(* disable_ipv6 sysctls of lo and of the interface) and the function's    *)
(* locals (loop indices, v4gw, v6gw, hasEnabledIPv6).  Each action is one  *)
(* iteration of a loop of ConfigureIface, with every netlink and sysctl    *)
(* call it makes; any call may fail, up to MaxFailures times.             *)
(*                                                                         *)
(* An address is [fam, a] with a in 0..AddrMax; a route destination is a  *)
(* prefix [fam, lo, hi] holding the addresses lo..hi, the default route    *)
(* 0..AddrMax.  The kernel refuses a route via a gateway that no           *)
(* link-scope route of the interface reaches, checking that before         *)
(* it looks for an existing route to the same destination (EEXIST), and    *)
(* refuses an IPv6 address while disable_ipv6 is 1.                        *)
(***************************************************************************)
EXTENDS Integers, Sequences

CONSTANTS
    Results,      \* the IPAM results ConfigureIface may be given
    MaxFailures,  \* bound on injected netlink and sysctl failures
    AddrMax,      \* the highest address of either family
    None          \* a nil pointer or IP

Ifaces == <<"lo", "if">>    \* the interfaces whose disable_ipv6 is written
Prefix(f, l, h) == [fam |-> f, lo |-> l, hi |-> h]
Host(g) == Prefix(g.fam, g.a, g.a)
Contains(p, g) == p.fam = g.fam /\ p.lo <= g.a /\ g.a <= p.hi

\* An IP address of either family.
Addr == [fam : {4, 6}, a : Int]

\* The fields of an IPConfig and of a Route that ConfigureIface reads.
IPConfig == [iface : Int \cup {None}, ver : {4, 6}, addr : Addr, gw : Addr \cup {None}]
ResRoute == [dst : [fam : {4, 6}, lo : Int, hi : Int], gw : Addr \cup {None}]

ASSUME PodIfaceAssumption ==
    /\ MaxFailures \in Nat
    /\ AddrMax \in Nat
    /\ \A res \in Results :
          /\ DOMAIN res = {"ifaces", "ips", "routes"}
          /\ res.ifaces \in Seq(STRING)
          /\ res.ips \in Seq(IPConfig) /\ res.routes \in Seq(ResRoute)
          /\ \A k \in DOMAIN res.routes :
                res.routes[k].gw = None =>
                   \E m \in DOMAIN res.ips : /\ res.ips[m].iface # None
                                            /\ res.ips[m].gw # None
                                            /\ res.ips[m].gw.fam = res.routes[k].dst.fam

VARIABLES
    res,       \* the IPAM result of this call
    up,        \* the interface is up
    addrs,     \* the addresses on the interface
    routes,    \* its routes: [dst, gw, scope]
    disabled,  \* disabled[x]: net.ipv6.conf.<x>.disable_ipv6 is 1
    pc,        \* "start", "ips", "settle", "routes", "ok" or "err"
    err,       \* why ConfigureIface failed
    i,         \* the index into res.ips
    sx,        \* the index into Ifaces in the disable_ipv6 loop
    j,         \* the index into res.routes
    v4gw, v6gw, hasEnabledIPv6,
    failures   \* injected failures so far

vars == <<res, up, addrs, routes, disabled, pc, err, i, sx, j, v4gw, v6gw,
          hasEnabledIPv6, failures>>

\* A netlink or sysctl call fails for a reason outside the code: allowed
\* while the failure budget lasts.
CanFail == failures < MaxFailures

Init ==
    /\ res \in Results
    /\ up = FALSE /\ addrs = {} /\ routes = {}
    /\ disabled \in [{"lo", "if"} -> BOOLEAN]
    /\ pc = "start" /\ err = "none"
    /\ i = 1 /\ sx = 1 /\ j = 1
    /\ v4gw = None /\ v6gw = None /\ hasEnabledIPv6 = FALSE
    /\ failures = 0

Fail(why) == pc' = "err" /\ err' = why

-----------------------------------------------------------------------------
\* No interfaces in the result; LinkByName or LinkSetUp fails; or the link
\* is set up.
Start ==
    /\ pc = "start"
    /\ CASE res.ifaces = << >> ->
              Fail("noiface") /\ UNCHANGED <<up, failures>>
         [] CanFail ->
              \/ Fail("kernel") /\ up' = FALSE /\ failures' = failures + 1
              \/ up' = TRUE /\ pc' = "ips" /\ UNCHANGED <<err, failures>>
         [] OTHER -> up' = TRUE /\ pc' = "ips" /\ UNCHANGED <<err, failures>>
    /\ UNCHANGED <<res, addrs, routes, disabled, i, sx, j, v4gw, v6gw, hasEnabledIPv6>>

\* The IPv6 sysctls must be written before res.ips[i] is added.
NeedsIPv6 == ~hasEnabledIPv6 /\ res.ips[i].ver = 6

\* Mutant: an IP for another interface passed over instead of refused.
AddIPSkipOther ==
    /\ pc = "ips" /\ i <= Len(res.ips)
    /\ LET ipc == res.ips[i]
           gwIsV4 == ipc.gw # None /\ ipc.gw.fam = 4
       IN
       CASE ipc.iface = None \/ ipc.iface \notin 1 .. Len(res.ifaces) \/ res.ifaces[ipc.iface] # "if" ->
              i' = i + 1 /\ UNCHANGED <<pc, err, addrs, v4gw, v6gw, failures>>
         [] NeedsIPv6 ->
              pc' = "sysctl" /\ UNCHANGED <<err, i, addrs, v4gw, v6gw, failures>>
         [] ipc.addr \in addrs ->
              Fail("exist") /\ UNCHANGED <<i, addrs, v4gw, v6gw, failures>>
         [] ipc.ver = 6 /\ disabled["if"] ->
              Fail("eacces") /\ UNCHANGED <<i, addrs, v4gw, v6gw, failures>>
         [] OTHER ->
              \/ /\ CanFail /\ Fail("kernel") /\ failures' = failures + 1
                 /\ UNCHANGED <<i, addrs, v4gw, v6gw>>
              \/ /\ addrs' = addrs \cup {ipc.addr} /\ i' = i + 1
                 /\ v4gw' = IF gwIsV4 /\ v4gw = None THEN ipc.gw ELSE v4gw
                 /\ v6gw' = IF ~gwIsV4 /\ v6gw = None THEN ipc.gw ELSE v6gw
                 /\ UNCHANGED <<pc, err, failures>>
    /\ UNCHANGED <<res, up, routes, disabled, sx, j, hasEnabledIPv6>>

\* One IP of the result: skipped without an interface; an error on an index
\* that is not ifName's; else AddrAdd with IFA_F_NOPREFIXROUTE, and the
\* first v4 and v6 gateways are recorded.
AddIP ==
    /\ pc = "ips" /\ i <= Len(res.ips)
    /\ LET ipc == res.ips[i]
           gwIsV4 == ipc.gw # None /\ ipc.gw.fam = 4
       IN
       CASE ipc.iface = None ->
              i' = i + 1 /\ UNCHANGED <<pc, err, addrs, v4gw, v6gw, failures>>
         [] ipc.iface \notin 1 .. Len(res.ifaces) \/ res.ifaces[ipc.iface] # "if" ->
              Fail("badindex") /\ UNCHANGED <<i, addrs, v4gw, v6gw, failures>>
         [] NeedsIPv6 ->
              pc' = "sysctl" /\ UNCHANGED <<err, i, addrs, v4gw, v6gw, failures>>
         [] ipc.addr \in addrs ->
              Fail("exist") /\ UNCHANGED <<i, addrs, v4gw, v6gw, failures>>
         [] ipc.ver = 6 /\ disabled["if"] ->
              Fail("eacces") /\ UNCHANGED <<i, addrs, v4gw, v6gw, failures>>
         [] OTHER ->
              \/ /\ CanFail /\ Fail("kernel") /\ failures' = failures + 1
                 /\ UNCHANGED <<i, addrs, v4gw, v6gw>>
              \/ /\ addrs' = addrs \cup {ipc.addr} /\ i' = i + 1
                 /\ v4gw' = IF gwIsV4 /\ v4gw = None THEN ipc.gw ELSE v4gw
                 /\ v6gw' = IF ~gwIsV4 /\ v6gw = None THEN ipc.gw ELSE v6gw
                 /\ UNCHANGED <<pc, err, failures>>
    /\ UNCHANGED <<res, up, routes, disabled, sx, j, hasEnabledIPv6>>

\* Mutant: the loop enables IPv6 on lo only.
EnableIPv6LoOnly ==
    /\ pc = "sysctl" /\ sx \in 1 .. 2
    /\ LET x == Ifaces[sx]
           Advance == pc' = "ips" /\ hasEnabledIPv6' = TRUE /\ UNCHANGED sx
       IN
       \/ CanFail /\ failures' = failures + 1 /\ Advance /\ UNCHANGED <<disabled, err>>
       \/ ~disabled[x] /\ Advance /\ UNCHANGED <<disabled, err, failures>>
       \/ /\ disabled[x] /\ disabled' = [disabled EXCEPT ![x] = FALSE]
          /\ Advance /\ UNCHANGED <<err, failures>>
       \/ /\ disabled[x] /\ CanFail /\ failures' = failures + 1
          /\ Fail("kernel") /\ UNCHANGED <<sx, disabled, hasEnabledIPv6>>
    /\ UNCHANGED <<res, up, addrs, routes, i, j, v4gw, v6gw>>

\* One iteration of the loop over lo and ifName before the first IPv6
\* address: a failed read or a value of 0 is passed over; else 0 is
\* written, and a failed write ends ConfigureIface.  After ifName the
\* loop is done and the IP is added next.
EnableIPv6 ==
    /\ pc = "sysctl" /\ sx \in 1 .. 2
    /\ LET x == Ifaces[sx]
           Advance == /\ sx' = sx + 1
                   /\ IF sx = 2 THEN pc' = "ips" /\ hasEnabledIPv6' = TRUE
                                ELSE UNCHANGED <<pc, hasEnabledIPv6>>
       IN
       \/ CanFail /\ failures' = failures + 1 /\ Advance /\ UNCHANGED <<disabled, err>>
       \/ ~disabled[x] /\ Advance /\ UNCHANGED <<disabled, err, failures>>
       \/ /\ disabled[x] /\ disabled' = [disabled EXCEPT ![x] = FALSE]
          /\ Advance /\ UNCHANGED <<err, failures>>
       \/ /\ disabled[x] /\ CanFail /\ failures' = failures + 1
          /\ Fail("kernel") /\ UNCHANGED <<sx, disabled, hasEnabledIPv6>>
    /\ UNCHANGED <<res, up, addrs, routes, i, j, v4gw, v6gw>>

\* After the IPs: SettleAddresses when there is an IPv6 gateway.
EndIPs ==
    /\ pc = "ips" /\ i > Len(res.ips)
    /\ \/ v6gw = None /\ pc' = "routes" /\ UNCHANGED <<err, failures>>
       \/ v6gw # None /\ pc' = "settle" /\ UNCHANGED <<err, failures>>
    /\ UNCHANGED <<res, up, addrs, routes, disabled, i, sx, j, v4gw, v6gw, hasEnabledIPv6>>

\* SettleAddresses waits for duplicate address detection, up to 10 s.
Settle ==
    /\ pc = "settle"
    /\ \/ pc' = "routes" /\ UNCHANGED <<err, failures>>
       \/ CanFail /\ Fail("kernel") /\ failures' = failures + 1
    /\ UNCHANGED <<res, up, addrs, routes, disabled, i, sx, j, v4gw, v6gw, hasEnabledIPv6>>
-----------------------------------------------------------------------------
(* AddRoute(dst, gw, dev).                                                 *)

\* The gateway a route of the result is added via: its own, or else the
\* first gateway of its family among the IPs.
RouteGw(r) ==
    CASE r.gw # None -> r.gw
      [] r.dst.fam = 4 /\ v4gw # None -> v4gw
      [] r.dst.fam = 6 /\ v6gw # None -> v6gw
      [] OTHER -> None

\* The default route of a family: netlink lists it with a nil Dst.
IsDefault(p) == p.lo = 0 /\ p.hi = AddrMax

\* RouteList(dev, family of gw) has a route, of any scope, whose Dst is not
\* nil and contains gw.
containsGW(gw) == \E rt \in routes : ~IsDefault(rt.dst) /\ Contains(rt.dst, gw)

\* The kernel accepts a route via gw when a link-scope route reaches gw.
OnLink(rts, gw) == \E rt \in rts : rt.scope = "link" /\ Contains(rt.dst, gw)

\* A route with destination dst is already on the interface.
HasDst(rts, dst) == \E rt \in rts : rt.dst = dst

\* The outcome of AddRoute(dst, gw) on the routes rts: the routes after it
\* and its error.  "gwfail" is the wrapped error of the direct route for gw,
\* "exist" the bare EEXIST of the route itself; fails is the set of calls
\* that fail for an outside reason.  gw is never nil: every route of the
\* results has a gateway or one of its family among the IPs
\* (PodIfaceAssumption).
AddRoute(dst, gw, fails) ==
    LET direct == [dst |-> Host(gw), gw |-> None, scope |-> "link"]
        rts1 == IF containsGW(gw) THEN routes ELSE routes \cup {direct}
    IN
    CASE ~containsGW(gw) /\ "direct" \in fails -> [routes |-> routes, err |-> "gwfail"]
      [] ~OnLink(rts1, gw) -> [routes |-> rts1, err |-> "unreachable"]
      [] HasDst(rts1, dst) -> [routes |-> rts1, err |-> "exist"]
      [] "route" \in fails -> [routes |-> rts1, err |-> "kernel"]
      [] OTHER ->
           [routes |-> rts1 \cup {[dst |-> dst, gw |-> gw, scope |-> "universe"]},
            err |-> "none"]

\* Mutant: every error of AddRoute passed over, not only EEXIST.
AddResRouteSkipAll ==
    /\ pc = "routes" /\ j <= Len(res.routes)
    /\ \E fails \in {{}} \cup (IF CanFail THEN {{"direct"}, {"route"}} ELSE {}) :
          LET out == AddRoute(res.routes[j].dst, RouteGw(res.routes[j]), fails)
              spent == IF out.err \in {"gwfail", "kernel"} THEN 1 ELSE 0
          IN
          /\ fails = {} \/ spent = 1
          /\ failures' = failures + spent
          /\ routes' = out.routes
          /\ j' = j + 1 /\ UNCHANGED <<pc, err>>
    /\ UNCHANGED <<res, up, addrs, disabled, i, sx, v4gw, v6gw, hasEnabledIPv6>>

\* Mutant: a passed-over EEXIST advances the loop twice.
AddResRouteSkipNext ==
    /\ pc = "routes" /\ j <= Len(res.routes)
    /\ \E fails \in {{}} \cup (IF CanFail THEN {{"direct"}, {"route"}} ELSE {}) :
          LET out == AddRoute(res.routes[j].dst, RouteGw(res.routes[j]), fails)
              spent == IF out.err \in {"gwfail", "kernel"} THEN 1 ELSE 0
          IN
          /\ fails = {} \/ spent = 1
          /\ failures' = failures + spent
          /\ routes' = out.routes
          /\ CASE out.err = "none" -> j' = j + 1 /\ UNCHANGED <<pc, err>>
               [] out.err = "exist" -> j' = j + 2 /\ UNCHANGED <<pc, err>>
               [] OTHER -> Fail(out.err) /\ UNCHANGED j
    /\ UNCHANGED <<res, up, addrs, disabled, i, sx, v4gw, v6gw, hasEnabledIPv6>>

\* One route of the result: AddRoute, a bare EEXIST passed over ("we assume
\* the first one wins"), any other error ends ConfigureIface.
AddResRoute ==
    /\ pc = "routes" /\ j <= Len(res.routes)
    /\ \E fails \in {{}} \cup (IF CanFail THEN {{"direct"}, {"route"}} ELSE {}) :
          LET out == AddRoute(res.routes[j].dst, RouteGw(res.routes[j]), fails)
              spent == IF out.err \in {"gwfail", "kernel"} THEN 1 ELSE 0
          IN
          /\ fails = {} \/ spent = 1
          /\ failures' = failures + spent
          /\ routes' = out.routes
          /\ IF out.err \in {"none", "exist"}
             THEN j' = j + 1 /\ UNCHANGED <<pc, err>>
             ELSE Fail(out.err) /\ UNCHANGED j
    /\ UNCHANGED <<res, up, addrs, disabled, i, sx, v4gw, v6gw, hasEnabledIPv6>>

\* All routes added: ConfigureIface returns nil.
Done ==
    /\ pc = "routes" /\ j > Len(res.routes)
    /\ pc' = "ok"
    /\ UNCHANGED <<res, up, addrs, routes, disabled, err, i, sx, j, v4gw, v6gw,
                   hasEnabledIPv6, failures>>

Next == Start \/ AddIP \/ EnableIPv6 \/ EndIPs \/ Settle \/ AddResRoute \/ Done

Spec == Init /\ [][Next]_vars

-----------------------------------------------------------------------------
(* Properties.                                                             *)

TypeOK ==
    /\ res \in Results
    /\ up \in BOOLEAN
    /\ addrs \subseteq Addr
    /\ \A rt \in routes : rt.scope \in {"link", "universe"} /\ rt.gw \in Addr \cup {None}
    /\ disabled \in [{"lo", "if"} -> BOOLEAN]
    /\ pc \in {"start", "ips", "sysctl", "settle", "routes", "ok", "err"}
    /\ i \in 1 .. Len(res.ips) + 1 /\ sx \in 1 .. 3 /\ j \in 1 .. Len(res.routes) + 1
    /\ v4gw \in Addr \cup {None} /\ v6gw \in Addr \cup {None}
    /\ hasEnabledIPv6 \in BOOLEAN
    /\ failures \in 0 .. MaxFailures

\* The first route of the result with destination dst.
FirstRoute(dst) ==
    res.routes[CHOOSE k \in DOMAIN res.routes :
                  res.routes[k].dst = dst /\ \A m \in 1 .. k - 1 : res.routes[m].dst # dst]

\* When ConfigureIface returns nil the interface is up and holds every
\* address of the result meant for it, with IPv6 enabled on it when one is
\* IPv6.
SuccessAddrs ==
    pc = "ok" =>
      /\ up
      /\ \A k \in DOMAIN res.ips : res.ips[k].iface # None =>
            /\ res.ips[k].addr \in addrs
            /\ res.ips[k].ver = 6 => ~disabled["if"]

\* When ConfigureIface returns nil the interface has for every destination
\* of the result a universe route via the gateway of the first route to it
\* ("the first one wins"), that gateway reachable through a link-scope
\* route.
SuccessRoutes ==
    pc = "ok" =>
      \A k \in DOMAIN res.routes :
         LET gw == RouteGw(FirstRoute(res.routes[k].dst))
         IN  /\ [dst |-> res.routes[k].dst, gw |-> gw, scope |-> "universe"] \in routes
             /\ OnLink(routes, gw)

\* ConfigureIface fails only on a result it cannot apply (no interface, an
\* IP for another interface, an address given twice) or when a netlink or
\* sysctl call fails for an outside reason; the comment on AddRoute says
\* a gateway no direct route contains gets a route of its own.
NoSpuriousFailure ==
    pc = "err" => failures > 0 \/ err \in {"noiface", "badindex", "exist"}
=============================================================================
