---------------------------- MODULE RouteManager ----------------------------
(***************************************************************************)
(* The policy-route manager of the node daemon (pkg/daemon/route/utils.go) *)
(* for one address family.  The kernel's policy rules and the route        *)
(* tables of the pool [MinRouteTableNum, MaxRouteTableNum) are the state;  *)
(* ensureFromPodSubnetRuleAndRoutes is one action per subnet, run by a     *)
(* synchronisation driver that visits every subnet once per pass.  Any     *)
(* kernel call of the handler may fail, which aborts the handler and       *)
(* leaves the calls made before it in place.                               *)
(***************************************************************************)
EXTENDS Integers

CONSTANTS
    Subnets,            \* CIDRs of the managed subnets (model values)
    Mode,               \* Mode[s] \in Modes
    AutoNat,            \* AutoNat[s]: autoNatOutgoing of a VXLAN subnet
    Gateway,            \* Gateway[s]: the subnet gateway
    Gws,                \* every gateway address, old ones included
    NoGw,               \* no gateway on a route
    Blocks,             \* exclusion blocks of the underlay subnets (findExcludeIPBlockMap)
    StaleDsts,          \* destinations used by an earlier configuration only
    DefaultDst,         \* 0.0.0.0/0
    ForeignDst,         \* destination of a route another program keeps in a pool table
    NoSrc,              \* source of a rule that has none (local, main, default)
    GatewayInCidr,      \* subnets whose gateway lies inside their cidr
    LocalSubnets,       \* subnets with a non-enhanced local address (isLocalSubnet)
    HostDirectRoute,    \* subnets with a direct route on the forward interface
    HostDefaultGw,      \* HostDefaultGw[s]: gateway of the host default route on s's
                        \* forward interface, NoGw when there is none
    StaleTable,         \* StaleTable[s]: table a previous daemon gave s
    StalePrio,          \* StalePrio[s]: priority of the rule it gave s
    ForeignTables,      \* pool tables another program holds routes in
    MinRouteTableNum, MaxRouteTableNum,
    MaxRulePriority, NodeLocalTableNum, LocalRulePrio,
    MaxFailures         \* bound on injected kernel-call failures

Modes == {"Vxlan", "Vlan", "BGP", "GlobalBGP"}
UnderlayModes == {"Vlan", "BGP", "GlobalBGP"}
Pool == MinRouteTableNum .. (MaxRouteTableNum - 1)
Prios == 0 .. MaxRulePriority

ASSUME ConstantsAssumption ==
    /\ Mode \in [Subnets -> Modes]
    /\ AutoNat \in [Subnets -> BOOLEAN]
    /\ Gateway \in [Subnets -> Gws]
    /\ NoGw \notin Gws
    /\ HostDefaultGw \in [Subnets -> Gws \cup {NoGw}]
    /\ GatewayInCidr \subseteq Subnets
    /\ LocalSubnets \subseteq Subnets
    /\ HostDirectRoute \subseteq Subnets
    /\ NoSrc \notin Subnets
    /\ MinRouteTableNum \in Nat /\ MaxRouteTableNum \in Nat
    /\ NodeLocalTableNum \in Nat \ Pool
    /\ MaxRulePriority \in Nat /\ LocalRulePrio \in Nat
    /\ LocalRulePrio + 2 < MaxRulePriority
    /\ MaxFailures \in Nat
    /\ StaleTable \in [Subnets -> Pool \ ForeignTables]
    /\ StalePrio \in [Subnets -> (LocalRulePrio + 1) .. (MaxRulePriority - 2)]
    /\ ForeignTables \subseteq Pool
    /\ \A x, y \in Subnets : x # y => StaleTable[x] # StaleTable[y]

\* Route destinations of different kinds are different prefixes: an
\* exclusion block is a proper part of an underlay subnet's cidr, and the
\* cluster checker keeps subnet cidrs disjoint.
ASSUME DstsAssumption ==
    /\ Blocks \cap Subnets = {}
    /\ DefaultDst \notin Subnets \cup Blocks
    /\ ForeignDst \notin Subnets \cup Blocks \cup StaleDsts \cup {DefaultDst}

\* The underlay subnet map handed to every VXLAN subnet's reconciliation.
Underlay == {s \in Subnets : Mode[s] \in UnderlayModes}

Dsts == Subnets \cup Blocks \cup StaleDsts \cup {DefaultDst, ForeignDst}
Route == [dst : Dsts, type : {"unicast", "throw"}, gw : Gws \cup {NoGw}]
Rule == [src : Subnets \cup {NoSrc}, table : Nat, prio : Prios]

VARIABLES
    rules,      \* the kernel's policy rules of this family
    routes,     \* routes[t]: the routes of pool table t
    pending,    \* subnets the current pass has still to reconcile
    result,     \* result[s]: outcome of s's reconciliation in this pass
    lastOk,     \* subnet of the last step if it was a successful
                \* reconciliation, NoSrc otherwise
    failures    \* kernel-call failures injected so far

vars == <<rules, routes, pending, result, lastOk, failures>>

-----------------------------------------------------------------------------
(* Kernel operations.                                                      *)

\* netlink.RouteReplace of a set of routes: a route replaces the one of the
\* same destination.
Replace(tbl, R) == {x \in tbl : \A r \in R : x.dst # r.dst} \cup R

\* A phase of the handler: a loop of RouteReplace or of RouteDel calls whose
\* order (Go map or kernel list order) the code does not fix.
Rep(R) == [kind |-> "replace", rts |-> R]
Del(R) == [kind |-> "delete", rts |-> R]
Apply(tbl, ph) == IF ph.kind = "replace" THEN Replace(tbl, ph.rts) ELSE tbl \ ph.rts

\* netlink reports priority 0 as -1 (unset); realRulePriority maps it back.
Listed(p) == IF p = 0 THEN -1 ELSE p
realRulePriorityIdentity(p) == p
realRulePriority(p) == IF p = -1 THEN 0 ELSE p

-----------------------------------------------------------------------------
(* Routes of each network mode.                                            *)

VxlanDefaultRoute == [dst |-> DefaultDst, type |-> "unicast", gw |-> NoGw]
GwDefaultRoute(s) == [dst |-> DefaultDst, type |-> "unicast", gw |-> Gateway[s]]
DirectRoute(s) == [dst |-> s, type |-> "unicast", gw |-> NoGw]
UnderlayRoutes == {[dst |-> u, type |-> "unicast", gw |-> NoGw] : u \in Underlay}
ThrowRoutes == {[dst |-> b, type |-> "throw", gw |-> NoGw] : b \in Blocks}

NPhases(s) ==
    CASE Mode[s] = "Vxlan" /\ ~AutoNat[s] -> 2
      [] Mode[s] = "Vxlan" /\ AutoNat[s]  -> 4
      [] Mode[s] = "Vlan"                 -> 2
      [] OTHER                            -> 1

\* The phases of each mode; t0 is the table listed when the handler starts
\* (routeList), tbl the table as it is when the phase starts.
\* ensureRoutesForVxlanSubnet, autoNatOutgoing false: replace the default
\* route, then delete every listed route that has a destination.
VxlanDelAllPhases(t0, tbl) == << Rep({VxlanDefaultRoute}), Del(t0) >>
VxlanPhases(t0, tbl) ==
    << Rep({VxlanDefaultRoute}), Del({r \in t0 : r.dst # DefaultDst}) >>

\* ensureRoutesForVxlanSubnet, autoNatOutgoing true: delete the listed
\* non-throw routes to non-underlay destinations, route every underlay
\* subnet, then ensureExcludedIPBlockRoutes lists the throw routes again,
\* deletes those of no current block and replaces one per block.
VxlanNatKeepStaleThrowPhases(t0, tbl) ==
    << Del({r \in t0 : r.type # "throw" /\ r.dst \notin Underlay}),
       Rep(UnderlayRoutes),
       Del({r \in tbl : r.type = "throw" /\ r.dst \in Blocks}),
       Rep(ThrowRoutes) >>
VxlanNatPhases(t0, tbl) ==
    << Del({r \in t0 : r.type # "throw" /\ r.dst \notin Underlay}),
       Rep(UnderlayRoutes),
       Del({r \in tbl : r.type = "throw" /\ r.dst \notin Blocks}),
       Rep(ThrowRoutes) >>

\* ensureRoutesForVlanSubnet: the link-scope direct route, then the default
\* route through the gateway.
VlanPhases(s) == << Rep({DirectRoute(s)}), Rep({GwDefaultRoute(s)}) >>

\* ensureRoutesForBGPSubnet: the default route through the gateway.
BGPPhases(s) == << Rep({GwDefaultRoute(s)}) >>

\* The switch on the network mode of ensureFromPodSubnetRuleAndRoutes.
PhaseOf(s, i, t0, tbl) ==
    CASE Mode[s] = "Vxlan" /\ ~AutoNat[s] -> VxlanPhases(t0, tbl)[i]
      [] Mode[s] = "Vxlan" /\ AutoNat[s]  -> VxlanNatPhases(t0, tbl)[i]
      [] Mode[s] = "Vlan"                 -> VlanPhases(s)[i]
      [] OTHER                            -> BGPPhases(s)[i]

\* Phase i of s's handler applied to the table as it stands.
Step(s, i, t0, tbl) == Apply(tbl, PhaseOf(s, i, t0, tbl))

\* RunTo(s, t0)[i]: the table after the first i phases (at most four).
RunTo(s, t0) ==
    LET r1 == Step(s, 1, t0, t0)
        r2 == Step(s, 2, t0, r1)
        r3 == Step(s, 3, t0, r2)
        r4 == Step(s, 4, t0, r3)
    IN  [i \in 0 .. NPhases(s) |->
            CASE i = 0 -> t0 [] i = 1 -> r1 [] i = 2 -> r2 [] i = 3 -> r3 [] i = 4 -> r4]

\* The routes every reconciliation of s leaves in its table.
ModeRoutes(s) ==
    CASE Mode[s] = "Vxlan" /\ ~AutoNat[s] -> {VxlanDefaultRoute}
      [] Mode[s] = "Vxlan" /\ AutoNat[s]  -> UnderlayRoutes \cup ThrowRoutes
      [] Mode[s] = "Vlan"                 -> {DirectRoute(s), GwDefaultRoute(s)}
      [] OTHER                            -> {GwDefaultRoute(s)}

-----------------------------------------------------------------------------
(* Lookups the handler makes before it changes anything.                   *)

\* checkIfRuleExist(cidr, -1): a rule whose source is the subnet, any table;
\* the kernel lists rules by priority and the first match is returned.
SrcRules(s) == {r \in rules : r.src = s}
ruleExist(s) == SrcRules(s) # {}
existRule(s) == CHOOSE r \in SrcRules(s) : \A o \in SrcRules(s) : r.prio <= o.prio

\* findEmptyRouteTable: the first pool table holding no route.
EmptyTables == {t \in Pool : routes[t] = {}}
findEmptyRouteTable == CHOOSE t \in EmptyTables : \A o \in EmptyTables : t <= o

\* The table the handler works on.
TableOf(s) == IF ruleExist(s) THEN existRule(s).table ELSE findEmptyRouteTable

\* findHighestUnusedRulePriority: the first unused priority above the
\* priority of the (last listed) rule of the node-local table.
LocalPrios == {realRulePriority(Listed(r.prio)) : r \in {o \in rules : o.table = NodeLocalTableNum}}
nodeLocalRulePrio ==
    IF LocalPrios = {} THEN 0 ELSE CHOOSE p \in LocalPrios : \A q \in LocalPrios : q <= p
UsedPrios == {realRulePriority(Listed(r.prio)) : r \in rules}
FreePriosPastMax == {p \in 0 .. (MaxRulePriority + 1) : p \notin UsedPrios /\ p > nodeLocalRulePrio}
FreePrios == {p \in Prios : p \notin UsedPrios /\ p > nodeLocalRulePrio}
findHighestUnusedRulePriority == CHOOSE p \in FreePrios : \A q \in FreePrios : p <= q

\* appendHighestUnusedPriorityRuleIfNotExist: the rule from s to table t
\* at the first free priority.
NewRule(s, t) == [src |-> s, table |-> t, prio |-> findHighestUnusedRulePriority]

\* ensureRoutesForVlanSubnet's checks, made before any route is written.
VlanChecks(s) ==
    /\ s \in GatewayInCidr
    /\ s \in LocalSubnets => /\ HostDefaultGw[s] \in {NoGw, Gateway[s]}
                             /\ s \in HostDirectRoute

\* Every check the handler makes before its first kernel write.
Prechecks(s) ==
    /\ ruleExist(s) \/ EmptyTables # {}
    /\ Mode[s] = "Vlan" => VlanChecks(s)

-----------------------------------------------------------------------------
(* Initial kernel state: the node-local, main and default rules; rules and *)
(* tables a previous daemon left for some subnets (from a configuration    *)
(* with another gateway, underlay set or NAT setting); pool tables that    *)
(* another program holds.                                                  *)

ExternalRules ==
    { [src |-> NoSrc, table |-> NodeLocalTableNum, prio |-> LocalRulePrio],
      [src |-> NoSrc, table |-> NodeLocalTableNum + 1, prio |-> MaxRulePriority - 1],
      [src |-> NoSrc, table |-> NodeLocalTableNum + 2, prio |-> MaxRulePriority] }

StaleRouteSets(s) ==
    CASE Mode[s] = "Vxlan" ->
            { {VxlanDefaultRoute},
              {[dst |-> d, type |-> ty, gw |-> NoGw] : d \in StaleDsts, ty \in {"unicast", "throw"}} }
      [] Mode[s] = "Vlan" ->
            { {DirectRoute(s)},
              {DirectRoute(s)} \cup {[dst |-> DefaultDst, type |-> "unicast", gw |-> g] : g \in Gws \ {Gateway[s]}} }
      [] OTHER ->
            { {[dst |-> DefaultDst, type |-> "unicast", gw |-> g] : g \in Gws \ {Gateway[s]}} }

ForeignRoute == [dst |-> ForeignDst, type |-> "unicast", gw |-> NoGw]

Init ==
    /\ \E S0 \in {S \in SUBSET Subnets : \A x, y \in S : x # y => StalePrio[x] # StalePrio[y]} :
       \E old \in [S0 -> UNION {StaleRouteSets(x) : x \in S0}] :
          /\ \A x \in S0 : old[x] \in StaleRouteSets(x)
          /\ rules = ExternalRules \cup
                     {[src |-> x, table |-> StaleTable[x], prio |-> StalePrio[x]] : x \in S0}
          /\ routes = [t \in Pool |->
                         IF \E x \in S0 : StaleTable[x] = t
                         THEN old[CHOOSE x \in S0 : StaleTable[x] = t]
                         ELSE IF t \in ForeignTables THEN {ForeignRoute} ELSE {}]
    /\ pending = Subnets
    /\ result = [s \in Subnets |-> "none"]
    /\ lastOk = NoSrc
    /\ failures = 0

-----------------------------------------------------------------------------
(* Actions.                                                                *)

\* ensureFromPodSubnetRuleAndRoutes(s) with every kernel call succeeding:
\* a failed check returns an error before any write; otherwise the routes of
\* the mode are written, and then, if s had no rule, the rule is added at
\* the first free priority (an error when there is none).
EnsureSubnet(s) ==
    /\ s \in pending
    /\ pending' = pending \ {s}
    /\ UNCHANGED failures
    /\ IF ~Prechecks(s)
       THEN /\ result' = [result EXCEPT ![s] = "error"]
            /\ lastOk' = NoSrc
            /\ UNCHANGED <<rules, routes>>
       ELSE LET t == TableOf(s)
                ok == ruleExist(s) \/ FreePrios # {}
            IN  /\ routes' = [routes EXCEPT ![t] = RunTo(s, routes[t])[NPhases(s)]]
                /\ rules' = IF ruleExist(s) \/ ~ok THEN rules
                            ELSE rules \cup {NewRule(s, t)}
                /\ result' = [result EXCEPT ![s] = IF ok THEN "ok" ELSE "error"]
                /\ lastOk' = IF ok THEN s ELSE NoSrc

\* The tables phase i can leave when one of its calls fails: the calls made
\* before it are a proper part of the phase.
Interrupted(s, run, i) ==
    LET ph == PhaseOf(s, i, run[0], run[i - 1])
    IN  {Apply(run[i - 1], [ph EXCEPT !.rts = part]) : part \in (SUBSET ph.rts) \ {ph.rts}}

\* (mutant) the rule is added before the routes are written.
EnsureSubnetFailsRuleFirst(s) ==
    /\ s \in pending
    /\ failures < MaxFailures
    /\ Prechecks(s)
    /\ LET t == TableOf(s)
           run == RunTo(s, routes[t])
       IN  /\ \E i \in 1 .. NPhases(s) : \E tbl \in Interrupted(s, run, i) :
                 routes' = [routes EXCEPT ![t] = tbl]
           /\ rules' = IF ruleExist(s) \/ FreePrios = {} THEN rules
                       ELSE rules \cup {NewRule(s, t)}
    /\ pending' = pending \ {s}
    /\ result' = [result EXCEPT ![s] = "error"]
    /\ lastOk' = NoSrc
    /\ failures' = failures + 1

\* The same handler when one kernel call fails: the phases before it are
\* done, the failing loop has done a proper part of its calls, and nothing
\* after it happens; a failing RuleAdd leaves all the routes and no rule.
EnsureSubnetFails(s) ==
    /\ s \in pending
    /\ failures < MaxFailures
    /\ Prechecks(s)
    /\ LET t == TableOf(s)
           run == RunTo(s, routes[t])
           cut == UNION {Interrupted(s, run, i) : i \in 1 .. NPhases(s)}
           outcomes == IF ruleExist(s) THEN cut ELSE cut \cup {run[NPhases(s)]}
       IN  \E tbl \in outcomes : routes' = [routes EXCEPT ![t] = tbl]
    /\ pending' = pending \ {s}
    /\ result' = [result EXCEPT ![s] = "error"]
    /\ lastOk' = NoSrc
    /\ failures' = failures + 1
    /\ UNCHANGED rules

\* The synchronisation driver starts the next pass once every subnet of
\* the current one has been reconciled.
NewPass ==
    /\ pending = {}
    /\ pending' = Subnets
    /\ result' = [s \in Subnets |-> "none"]
    /\ UNCHANGED <<rules, routes, lastOk, failures>>

Next ==
    \/ \E s \in Subnets : EnsureSubnet(s) \/ EnsureSubnetFails(s)
    \/ NewPass

Spec == Init /\ [][Next]_vars

-----------------------------------------------------------------------------
(* Properties.                                                             *)

TypeOK ==
    /\ rules \subseteq Rule
    /\ routes \in [Pool -> SUBSET Route]
    /\ pending \subseteq Subnets
    /\ result \in [Subnets -> {"none", "ok", "error"}]
    /\ lastOk \in Subnets \cup {NoSrc}
    /\ failures \in 0 .. MaxFailures

\* No two rules share a priority, and every subnet rule lies after the
\* node-local rule (findHighestUnusedRulePriority with realRulePriority's
\* translation of the kernel's priority 0).
RulePriorityOK ==
    \A r1, r2 \in rules :
        /\ r1 # r2 => r1.prio # r2.prio
        /\ r1.src \in Subnets => r1.prio > LocalRulePrio

\* A subnet rule appears only in a step that leaves the routes of the
\* subnet's mode in its table: ensureFromPodSubnetRuleAndRoutes adds the
\* rule last, so a failing route call never leaves a rule to a table that
\* would black-hole the subnet's traffic.
RuleAfterRoutes ==
    [][\A r \in rules' \ rules :
          r.src \in Subnets => ModeRoutes(r.src) \subseteq routes'[r.table]]_vars

\* Reconciling a subnet twice in a row, both times successfully, leaves the
\* kernel as the first call left it (idempotent replace-or-delete calls).
Idempotent ==
    [][\A s \in Subnets : lastOk = s /\ lastOk' = s => UNCHANGED <<rules, routes>>]_vars

\* At the end of a pass, every subnet reconciled successfully in it has a
\* rule whose table holds exactly the routes of its mode.
Converged(s) ==
    \E r \in SrcRules(s) : r.table \in Pool /\ routes[r.table] = ModeRoutes(s)
PassConverged ==
    pending = {} => \A s \in Subnets : result[s] = "ok" => Converged(s)

\* Distinct subnets' rules point at distinct tables (spec section 5: route
\* tables are disjoint per subnet).
TableExclusive ==
    \A r1, r2 \in rules :
        r1.src \in Subnets /\ r2.src \in Subnets /\ r1.src # r2.src => r1.table # r2.table

\* After a pass in which every reconciliation succeeded, no pool table holds
\* routes of the daemon without a subnet rule pointing at it (spec 4.2: a
\* failed pass leaves partial routes that the next pass re-converges).
NoOrphanTable ==
    (pending = {} /\ \A s \in Subnets : result[s] = "ok") =>
        \A t \in Pool : (\E x \in routes[t] : x.dst # ForeignDst) =>
                            \E r \in rules : r.src \in Subnets /\ r.table = t
=============================================================================
