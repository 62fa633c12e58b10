------------------------- MODULE RouteManagerProofs -------------------------
(***************************************************************************)
(* Proofs about the policy-route manager (RouteManager): the type         *)
(* invariant, and the rule-priority invariant that                         *)
(* findHighestUnusedRulePriority is meant to keep, for every value of the  *)
(* constants that satisfies ConstantsAssumption and DstsAssumption.        *)
(***************************************************************************)
EXTENDS RouteManager, NatLemmas, TLAPS

-----------------------------------------------------------------------------
(* Lemmas about the operators of the model.                                *)

\* realRulePriority undoes the kernel's report of priority 0 as -1.
LEMMA ListedRoundTrip ==
    ASSUME NEW p \in Nat
    PROVE  realRulePriority(Listed(p)) = p
BY DEF realRulePriority, Listed

\* A phase whose routes are routes leaves a table of routes.
LEMMA ApplyType ==
    ASSUME NEW tbl \in SUBSET Route, NEW ph, ph.rts \in SUBSET Route
    PROVE  Apply(tbl, ph) \in SUBSET Route
BY DEF Apply, Replace

PhaseType == [kind : {"replace", "delete"}, rts : SUBSET Route]

\* The routes each mode writes are routes.
LEMMA ModeRoutesType ==
    ASSUME NEW s \in Subnets
    PROVE  /\ VxlanDefaultRoute \in Route
           /\ GwDefaultRoute(s) \in Route
           /\ DirectRoute(s) \in Route
           /\ UnderlayRoutes \subseteq Route
           /\ ThrowRoutes \subseteq Route
BY ConstantsAssumption
DEF VxlanDefaultRoute, GwDefaultRoute, DirectRoute, UnderlayRoutes,
    ThrowRoutes, Underlay, Route, Dsts

\* Every phase of the handler is a replace or delete loop over routes.
LEMMA PhaseOfType ==
    ASSUME NEW s \in Subnets, NEW i \in 1 .. NPhases(s),
           NEW t0 \in SUBSET Route, NEW tbl \in SUBSET Route
    PROVE  PhaseOf(s, i, t0, tbl) \in PhaseType
<1>. USE ModeRoutesType
<1>1. CASE Mode[s] = "Vxlan" /\ ~AutoNat[s]
    <2>1. i \in 1 .. 2
        BY <1>1 DEF NPhases
    <2>. QED
        BY <1>1, <2>1 DEF PhaseOf, VxlanPhases, Rep, Del, PhaseType
<1>2. CASE Mode[s] = "Vxlan" /\ AutoNat[s]
    <2>1. i \in 1 .. 4
        BY <1>2 DEF NPhases
    <2>. QED
        BY <1>2, <2>1 DEF PhaseOf, VxlanNatPhases, Rep, Del, PhaseType
<1>3. CASE Mode[s] = "Vlan"
    <2>1. i \in 1 .. 2
        BY <1>3 DEF NPhases
    <2>. QED
        BY <1>3, <2>1 DEF PhaseOf, VlanPhases, Rep, PhaseType
<1>4. CASE Mode[s] \notin {"Vxlan", "Vlan"}
    <2>1. i = 1
        BY <1>4 DEF NPhases
    <2>. QED
        BY <1>4, <2>1 DEF PhaseOf, BGPPhases, Rep, PhaseType
<1>. QED
    BY <1>1, <1>2, <1>3, <1>4

\* A phase applied to a table of routes leaves a table of routes.
LEMMA StepType ==
    ASSUME NEW s \in Subnets, NEW i \in 1 .. NPhases(s),
           NEW t0 \in SUBSET Route, NEW tbl \in SUBSET Route
    PROVE  Step(s, i, t0, tbl) \in SUBSET Route
BY PhaseOfType, ApplyType DEF Step, PhaseType

\* Every intermediate table of a reconciliation is a table of routes.
LEMMA RunToType ==
    ASSUME NEW s \in Subnets, NEW t0 \in SUBSET Route
    PROVE  /\ RunTo(s, t0) \in [0 .. NPhases(s) -> SUBSET Route]
           /\ NPhases(s) \in 1 .. 4
<1>1. NPhases(s) \in 1 .. 4
    BY DEF NPhases
<1>. DEFINE r1 == Step(s, 1, t0, t0)
            r2 == Step(s, 2, t0, r1)
            r3 == Step(s, 3, t0, r2)
            r4 == Step(s, 4, t0, r3)
<1>2. r1 \in SUBSET Route
    BY <1>1, StepType
<1>3. NPhases(s) >= 2 => r2 \in SUBSET Route
    BY <1>1, <1>2, StepType
<1>4. NPhases(s) >= 3 => r3 \in SUBSET Route
    BY <1>1, <1>3, StepType
<1>5. NPhases(s) >= 4 => r4 \in SUBSET Route
    BY <1>1, <1>4, StepType
<1>. QED
    BY <1>1, <1>2, <1>3, <1>4, <1>5 DEF RunTo

\* Interrupting phase i of a reconciliation leaves a table of routes.
LEMMA InterruptedType ==
    ASSUME NEW s \in Subnets, NEW t0 \in SUBSET Route, NEW i \in 1 .. NPhases(s)
    PROVE  Interrupted(s, RunTo(s, t0), i) \subseteq SUBSET Route
<1>. DEFINE run == RunTo(s, t0)
            ph == PhaseOf(s, i, run[0], run[i - 1])
<1>1. run \in [0 .. NPhases(s) -> SUBSET Route] /\ NPhases(s) \in 1 .. 4
    BY RunToType
<1>2. run[0] \in SUBSET Route /\ run[i - 1] \in SUBSET Route
    BY <1>1
<1>3. ph \in PhaseType
    BY <1>2, PhaseOfType
<1>4. ASSUME NEW part \in SUBSET ph.rts
      PROVE  Apply(run[i - 1], [ph EXCEPT !.rts = part]) \in SUBSET Route
    <2>1. [ph EXCEPT !.rts = part].rts \in SUBSET Route
        BY <1>3, <1>4 DEF PhaseType
    <2>. QED
        BY <1>2, <2>1, ApplyType
<1>. QED
    BY <1>4 DEF Interrupted

\* The tables a previous daemon left hold routes.
LEMMA StaleRouteSetsType ==
    ASSUME NEW s \in Subnets
    PROVE  StaleRouteSets(s) \subseteq SUBSET Route
<1>. USE ConstantsAssumption DEF Route, Dsts
<1>1. CASE Mode[s] = "Vxlan"
    BY <1>1, ModeRoutesType DEF StaleRouteSets
<1>2. CASE Mode[s] = "Vlan"
    BY <1>2, ModeRoutesType DEF StaleRouteSets
<1>3. CASE Mode[s] \notin {"Vxlan", "Vlan"}
    BY <1>3, DstsAssumption DEF StaleRouteSets
<1>. QED
    BY <1>1, <1>2, <1>3

\* findEmptyRouteTable returns the first empty pool table when there is one.
LEMMA FirstEmptyTable ==
    ASSUME EmptyTables # {}
    PROVE  /\ findEmptyRouteTable \in EmptyTables
           /\ \A o \in EmptyTables : findEmptyRouteTable <= o
<1>1. EmptyTables \in SUBSET Nat
    BY ConstantsAssumption DEF EmptyTables, Pool
<1>2. \E x \in EmptyTables : \A y \in EmptyTables : x <= y
    BY <1>1, NatMin
<1>. QED
    BY <1>2 DEF findEmptyRouteTable

\* findHighestUnusedRulePriority returns the first free priority when
\* there is one.
LEMMA FirstFreePrio ==
    ASSUME FreePrios # {}
    PROVE  /\ findHighestUnusedRulePriority \in FreePrios
           /\ \A q \in FreePrios : findHighestUnusedRulePriority <= q
<1>1. FreePrios \in SUBSET Nat
    BY ConstantsAssumption DEF FreePrios, Prios
<1>2. \E x \in FreePrios : \A y \in FreePrios : x <= y
    BY <1>1, NatMin
<1>. QED
    BY <1>2 DEF findHighestUnusedRulePriority

-----------------------------------------------------------------------------
(* Type correctness.                                                       *)

\* The kernel state the daemon starts from is well typed.
LEMMA InitTypeOK == Init => TypeOK
<1>. SUFFICES ASSUME Init PROVE TypeOK
    OBVIOUS
<1>1. PICK S0 \in SUBSET Subnets :
        \E old \in [S0 -> UNION {StaleRouteSets(x) : x \in S0}] :
          /\ \A x \in S0 : old[x] \in StaleRouteSets(x)
          /\ rules = ExternalRules \cup
                     {[src |-> x, table |-> StaleTable[x], prio |-> StalePrio[x]] : x \in S0}
          /\ routes = [t \in Pool |->
                         IF \E x \in S0 : StaleTable[x] = t
                         THEN old[CHOOSE x \in S0 : StaleTable[x] = t]
                         ELSE IF t \in ForeignTables THEN {ForeignRoute} ELSE {}]
    BY DEF Init
<1>2. PICK old \in [S0 -> UNION {StaleRouteSets(x) : x \in S0}] :
          /\ \A x \in S0 : old[x] \in StaleRouteSets(x)
          /\ rules = ExternalRules \cup
                     {[src |-> x, table |-> StaleTable[x], prio |-> StalePrio[x]] : x \in S0}
          /\ routes = [t \in Pool |->
                         IF \E x \in S0 : StaleTable[x] = t
                         THEN old[CHOOSE x \in S0 : StaleTable[x] = t]
                         ELSE IF t \in ForeignTables THEN {ForeignRoute} ELSE {}]
    BY <1>1
<1>3. rules \subseteq Rule
    <2>1. ExternalRules \subseteq Rule
        BY ConstantsAssumption DEF ExternalRules, Rule, Prios
    <2>2. ASSUME NEW x \in S0
          PROVE  [src |-> x, table |-> StaleTable[x], prio |-> StalePrio[x]] \in Rule
        <3>1. StaleTable[x] \in Nat /\ StalePrio[x] \in Prios
            BY ConstantsAssumption DEF Pool, Prios
        <3>. QED
            BY <3>1 DEF Rule
    <2>. QED
        BY <1>2, <2>1, <2>2
<1>4. ASSUME NEW t \in Pool, \E x \in S0 : StaleTable[x] = t
      PROVE  old[CHOOSE x \in S0 : StaleTable[x] = t] \in SUBSET Route
    <2>1. PICK x \in S0 : x = CHOOSE y \in S0 : StaleTable[y] = t
        BY <1>4
    <2>. QED
        BY <1>2, <2>1, StaleRouteSetsType
<1>5. ForeignRoute \in Route
    BY DstsAssumption DEF ForeignRoute, Route, Dsts
<1>6. routes \in [Pool -> SUBSET Route]
    <2>1. ASSUME NEW t \in Pool
          PROVE  (IF \E x \in S0 : StaleTable[x] = t
                  THEN old[CHOOSE x \in S0 : StaleTable[x] = t]
                  ELSE IF t \in ForeignTables THEN {ForeignRoute} ELSE {}) \in SUBSET Route
        BY <1>4, <1>5
    <2>. QED
        BY <1>2, <2>1
<1>7. /\ pending = Subnets /\ result = [s \in Subnets |-> "none"]
      /\ lastOk = NoSrc /\ failures = 0
    BY DEF Init
<1>. QED
    BY <1>3, <1>6, <1>7, ConstantsAssumption DEF TypeOK

\* A successful or precheck-failing reconciliation keeps the types: the
\* table it writes is the first empty one or the one its rule names, and
\* the rule it adds has the first free priority.
LEMMA EnsureSubnetTypeOK ==
    ASSUME NEW s \in Subnets, TypeOK, EnsureSubnet(s)
    PROVE  TypeOK'
<1>1. pending' \subseteq Subnets /\ UNCHANGED failures
    BY DEF EnsureSubnet, TypeOK
<1>2. CASE ~Prechecks(s)
    BY <1>1, <1>2 DEF EnsureSubnet, TypeOK
<1>3. CASE Prechecks(s)
    <2>. DEFINE t == TableOf(s)
                ok == ruleExist(s) \/ FreePrios # {}
    <2>1. /\ routes' = [routes EXCEPT ![t] = RunTo(s, routes[t])[NPhases(s)]]
          /\ rules' = IF ruleExist(s) \/ ~ok THEN rules
                      ELSE rules \cup {NewRule(s, t)}
          /\ result' = [result EXCEPT ![s] = IF ok THEN "ok" ELSE "error"]
          /\ lastOk' = IF ok THEN s ELSE NoSrc
        BY <1>3 DEF EnsureSubnet
    <2>2. routes' \in [Pool -> SUBSET Route]
        <3>1. CASE t \in Pool
            <4>1. RunTo(s, routes[t]) \in [0 .. NPhases(s) -> SUBSET Route]
                  /\ NPhases(s) \in 1 .. 4
                BY <3>1, RunToType DEF TypeOK
            <4>2. RunTo(s, routes[t])[NPhases(s)] \in SUBSET Route
                BY <4>1
            <4>. QED
                BY <2>1, <4>2 DEF TypeOK
        <3>2. CASE t \notin Pool
            BY <2>1, <3>2 DEF TypeOK
        <3>. QED
            BY <3>1, <3>2
    <2>3. rules' \subseteq Rule
        <3>1. CASE ruleExist(s) \/ ~ok
            BY <2>1, <3>1 DEF TypeOK
        <3>2. CASE ~ruleExist(s) /\ FreePrios # {}
            <4>1. t = findEmptyRouteTable /\ EmptyTables # {}
                BY <1>3, <3>2 DEF TableOf, Prechecks
            <4>2. t \in Nat
                BY <4>1, FirstEmptyTable, ConstantsAssumption DEF EmptyTables, Pool
            <4>3. findHighestUnusedRulePriority \in Prios
                BY <3>2, FirstFreePrio DEF FreePrios
            <4>. QED
                BY <2>1, <3>2, <4>2, <4>3 DEF TypeOK, Rule, NewRule
        <3>. QED
            BY <3>1, <3>2
    <2>. QED
        BY <1>1, <2>1, <2>2, <2>3 DEF TypeOK
<1>. QED
    BY <1>2, <1>3

\* A reconciliation cut short by a failing kernel call keeps the types:
\* the table it leaves holds the routes of the calls made before the failure.
LEMMA EnsureSubnetFailsTypeOK ==
    ASSUME NEW s \in Subnets, TypeOK, EnsureSubnetFails(s)
    PROVE  TypeOK'
<1>. DEFINE t == TableOf(s)
            run == RunTo(s, routes[t])
            cut == UNION {Interrupted(s, run, i) : i \in 1 .. NPhases(s)}
            outcomes == IF ruleExist(s) THEN cut ELSE cut \cup {run[NPhases(s)]}
<1>1. PICK tbl \in outcomes : routes' = [routes EXCEPT ![t] = tbl]
    BY DEF EnsureSubnetFails
<1>2. t \in Pool => tbl \in SUBSET Route
    <2>. SUFFICES ASSUME t \in Pool PROVE tbl \in SUBSET Route
        OBVIOUS
    <2>1. routes[t] \in SUBSET Route
        BY DEF TypeOK
    <2>2. run \in [0 .. NPhases(s) -> SUBSET Route] /\ NPhases(s) \in 1 .. 4
        BY <2>1, RunToType
    <2>3. cut \subseteq SUBSET Route
        BY <2>1, InterruptedType
    <2>. QED
        BY <2>2, <2>3
<1>2a. routes' \in [Pool -> SUBSET Route]
    BY <1>1, <1>2 DEF TypeOK
<1>3. /\ pending' = pending \ {s}
      /\ result' = [result EXCEPT ![s] = "error"]
      /\ lastOk' = NoSrc
      /\ failures < MaxFailures /\ failures' = failures + 1
      /\ UNCHANGED rules
    BY DEF EnsureSubnetFails
<1>4. failures' \in 0 .. MaxFailures
    BY <1>3, ConstantsAssumption DEF TypeOK
<1>5. rules' \subseteq Rule /\ pending' \subseteq Subnets /\ lastOk' \in Subnets \cup {NoSrc}
    BY <1>3 DEF TypeOK
<1>6. result' \in [Subnets -> {"none", "ok", "error"}]
    BY <1>3 DEF TypeOK
<1>. QED
    BY <1>2a, <1>4, <1>5, <1>6 DEF TypeOK

\* Starting a pass keeps the types.
LEMMA NewPassTypeOK ==
    ASSUME TypeOK, NewPass
    PROVE  TypeOK'
BY DEF NewPass, TypeOK

\* Every step of the daemon keeps the types.
LEMMA NextTypeOK == TypeOK /\ [Next]_vars => TypeOK'
<1>. SUFFICES ASSUME TypeOK, [Next]_vars PROVE TypeOK'
    OBVIOUS
<1>1. CASE \E s \in Subnets : EnsureSubnet(s)
    BY <1>1, EnsureSubnetTypeOK
<1>2. CASE \E s \in Subnets : EnsureSubnetFails(s)
    BY <1>2, EnsureSubnetFailsTypeOK
<1>3. CASE NewPass
    BY <1>3, NewPassTypeOK
<1>4. CASE UNCHANGED vars
    BY <1>4 DEF vars, TypeOK
<1>. QED
    BY <1>1, <1>2, <1>3, <1>4 DEF Next

\* The kernel state the daemon keeps -- its rules, route tables and pass
\* bookkeeping -- is well typed in every reachable state.
THEOREM TypeCorrect == Spec => []TypeOK
BY InitTypeOK, NextTypeOK, PTL DEF Spec

-----------------------------------------------------------------------------
(* Rule priorities.                                                        *)

\* The shape of the rule list that findHighestUnusedRulePriority relies
\* on: the only rules without a source are the node-local, main and
\* default rules, and every subnet rule points into the pool, so the rule
\* of the node-local table is the one at LocalRulePrio.
RuleShape ==
    /\ {r \in rules : r.src = NoSrc} = ExternalRules
    /\ \A r \in rules : r.src \in Subnets => r.table \in Pool

\* The inductive invariant behind RulePriorityOK.
PrioInv == TypeOK /\ RuleShape /\ RulePriorityOK

\* The priorities the handler reads back through realRulePriority are the
\* priorities of the rules.
LEMMA UsedPriosAreRulePrios ==
    ASSUME TypeOK
    PROVE  UsedPrios = {r.prio : r \in rules}
<1>1. \A r \in rules : realRulePriority(Listed(r.prio)) = r.prio
    BY ListedRoundTrip DEF TypeOK, Rule, Prios
<1>. QED
    BY <1>1 DEF UsedPrios

\* With that shape, the priority findHighestUnusedRulePriority starts
\* above is the node-local rule's priority.
LEMMA NodeLocalPrio ==
    ASSUME TypeOK, RuleShape
    PROVE  nodeLocalRulePrio = LocalRulePrio
<1>. DEFINE loc == [src |-> NoSrc, table |-> NodeLocalTableNum, prio |-> LocalRulePrio]
<1>1. loc \in rules
    BY DEF RuleShape, ExternalRules
<1>2. ASSUME NEW o \in rules, o.table = NodeLocalTableNum
      PROVE  o = loc
    <2>1. o.src \notin Subnets
        BY <1>2, ConstantsAssumption DEF RuleShape
    <2>2. o \in ExternalRules
        BY <2>1 DEF TypeOK, Rule, RuleShape
    <2>. QED
        BY <1>2, <2>2, ConstantsAssumption DEF ExternalRules
<1>3. {o \in rules : o.table = NodeLocalTableNum} = {loc}
    BY <1>1, <1>2
<1>4. LocalPrios = {LocalRulePrio}
    <2>1. realRulePriority(Listed(LocalRulePrio)) = LocalRulePrio
        BY ListedRoundTrip, ConstantsAssumption
    <2>2. LocalPrios = {realRulePriority(Listed(r.prio)) : r \in {loc}}
        BY <1>3 DEF LocalPrios
    <2>. QED
        BY <2>1, <2>2
<1>5. \E p \in LocalPrios : \A q \in LocalPrios : q <= p
    BY <1>4, ConstantsAssumption
<1>. QED
    BY <1>4, <1>5 DEF nodeLocalRulePrio

LEMMA InitPrioInv == Init => PrioInv
<1>. SUFFICES ASSUME Init PROVE PrioInv
    OBVIOUS
<1>. USE ConstantsAssumption
<1>1. PICK S0 \in {S \in SUBSET Subnets : \A x, y \in S : x # y => StalePrio[x] # StalePrio[y]} :
        rules = ExternalRules \cup
                {[src |-> x, table |-> StaleTable[x], prio |-> StalePrio[x]] : x \in S0}
    BY DEF Init
<1>. DEFINE Stale == {[src |-> x, table |-> StaleTable[x], prio |-> StalePrio[x]] : x \in S0}
<1>2. \A r \in Stale : r.src \in Subnets /\ r.table \in Pool
                       /\ r.prio \in (LocalRulePrio + 1) .. (MaxRulePriority - 2)
    BY <1>1
<1>3. \A r \in ExternalRules : r.src = NoSrc /\ r.prio \notin (LocalRulePrio + 1) .. (MaxRulePriority - 2)
    BY DEF ExternalRules
<1>4. RuleShape
    BY <1>1, <1>2, <1>3 DEF RuleShape, ExternalRules
<1>5. \A r1, r2 \in Stale : r1 # r2 => r1.prio # r2.prio
    BY <1>1
<1>6. \A r1, r2 \in ExternalRules : r1 # r2 => r1.prio # r2.prio
    BY DEF ExternalRules
<1>7. RulePriorityOK
    BY <1>1, <1>2, <1>3, <1>5, <1>6 DEF RulePriorityOK
<1>. QED
    BY <1>4, <1>7, InitTypeOK DEF PrioInv

\* A reconciliation that adds a rule gives it a priority no rule has, above
\* the node-local rule, and a pool table.
LEMMA EnsureSubnetPrioInv ==
    ASSUME NEW s \in Subnets, PrioInv, EnsureSubnet(s)
    PROVE  RuleShape' /\ RulePriorityOK'
<1>1. CASE rules' = rules
    BY <1>1 DEF RuleShape, RulePriorityOK, PrioInv
<1>2. CASE rules' # rules
    <2>. DEFINE p == findHighestUnusedRulePriority
                new == [src |-> s, table |-> TableOf(s), prio |-> p]
    <2>1. /\ Prechecks(s) /\ ~ruleExist(s) /\ FreePrios # {}
          /\ rules' = rules \cup {new}
        BY <1>2 DEF EnsureSubnet, NewRule
    <2>2. TableOf(s) \in Pool
        BY <2>1, FirstEmptyTable DEF TableOf, Prechecks, EmptyTables
    <2>3. p \in FreePrios
        BY <2>1, FirstFreePrio
    <2>4. \A r \in rules : p # r.prio
        BY <2>3, UsedPriosAreRulePrios DEF FreePrios, PrioInv
    <2>5. p > LocalRulePrio
        BY <2>3, NodeLocalPrio DEF FreePrios, PrioInv
    <2>6. RuleShape'
        BY <2>1, <2>2, ConstantsAssumption DEF RuleShape, PrioInv
    <2>7. RulePriorityOK'
        BY <2>1, <2>4, <2>5 DEF RulePriorityOK, PrioInv
    <2>. QED
        BY <2>6, <2>7
<1>. QED
    BY <1>1, <1>2

\* Every step keeps the priority invariant.
LEMMA NextPrioInv == PrioInv /\ [Next]_vars => PrioInv'
<1>. SUFFICES ASSUME PrioInv, [Next]_vars PROVE PrioInv'
    OBVIOUS
<1>1. TypeOK'
    BY NextTypeOK DEF PrioInv
<1>2. CASE \E s \in Subnets : EnsureSubnet(s)
    BY <1>1, <1>2, EnsureSubnetPrioInv DEF PrioInv
<1>3. CASE UNCHANGED rules
    BY <1>1, <1>3 DEF PrioInv, RuleShape, RulePriorityOK
<1>. QED
    BY <1>2, <1>3 DEF Next, EnsureSubnetFails, NewPass, vars

\* findHighestUnusedRulePriority, with realRulePriority's translation of
\* the kernel's priority 0, never gives two rules one priority nor puts a
\* subnet rule before the node-local rule, for every pool, priority range
\* and starting rule list the assumptions allow.
THEOREM RulePriorityCorrect == Spec => []RulePriorityOK
<1>1. Spec => []PrioInv
    BY InitPrioInv, NextPrioInv, PTL DEF Spec
<1>. QED
    BY <1>1, PTL DEF PrioInv

-----------------------------------------------------------------------------
(* Routes before the rule.                                                 *)

\* The four phases of a VXLAN subnet with NAT, applied to any table.
LEMMA NatPhases ==
    ASSUME NEW s \in Subnets, Mode[s] = "Vxlan", AutoNat[s], NEW t0, NEW tbl
    PROVE  /\ Step(s, 1, t0, tbl) = tbl \ {r \in t0 : r.type # "throw" /\ r.dst \notin Underlay}
           /\ Step(s, 2, t0, tbl) = Replace(tbl, UnderlayRoutes)
           /\ Step(s, 3, t0, tbl) = tbl \ {r \in tbl : r.type = "throw" /\ r.dst \notin Blocks}
           /\ Step(s, 4, t0, tbl) = Replace(tbl, ThrowRoutes)
BY DEF Step, PhaseOf, VxlanNatPhases, Apply, Rep, Del

\* Whatever table a reconciliation starts from, the table its phases leave
\* holds every route of the subnet's mode: no later phase of the handler
\* deletes or replaces a route an earlier one wrote for the mode.
LEMMA ModeRoutesWritten ==
    ASSUME NEW s \in Subnets, NEW t0 \in SUBSET Route
    PROVE  ModeRoutes(s) \subseteq RunTo(s, t0)[NPhases(s)]
<1>. DEFINE r1 == Step(s, 1, t0, t0)
            r2 == Step(s, 2, t0, r1)
            r3 == Step(s, 3, t0, r2)
            r4 == Step(s, 4, t0, r3)
<1>. USE ConstantsAssumption, DstsAssumption
<1>1. CASE Mode[s] = "Vxlan" /\ ~AutoNat[s]
    <2>1. NPhases(s) = 2 /\ RunTo(s, t0)[NPhases(s)] = r2
        BY <1>1 DEF NPhases, RunTo
    <2>2. r1 = Replace(t0, {VxlanDefaultRoute})
        BY <1>1 DEF Step, PhaseOf, VxlanPhases, Apply, Rep
    <2>3. r2 = r1 \ {r \in t0 : r.dst # DefaultDst}
        BY <1>1 DEF Step, PhaseOf, VxlanPhases, Apply, Del
    <2>4. VxlanDefaultRoute \in r2
        BY <2>2, <2>3 DEF Replace, VxlanDefaultRoute
    <2>. QED
        BY <1>1, <2>1, <2>4 DEF ModeRoutes
<1>2. CASE Mode[s] = "Vxlan" /\ AutoNat[s]
    <2>1. NPhases(s) = 4 /\ RunTo(s, t0)[NPhases(s)] = r4
        BY <1>2 DEF NPhases, RunTo
    <2>2. r2 = Replace(r1, UnderlayRoutes)
        BY <1>2, NatPhases
    <2>3. r3 = r2 \ {r \in r2 : r.type = "throw" /\ r.dst \notin Blocks}
        BY <1>2, NatPhases
    <2>4. r4 = Replace(r3, ThrowRoutes)
        BY <1>2, NatPhases
    <2>5. UnderlayRoutes \subseteq r3
        BY <2>2, <2>3 DEF Replace, UnderlayRoutes
    <2>6. \A u \in UnderlayRoutes, b \in ThrowRoutes : u.dst # b.dst
        BY DEF UnderlayRoutes, ThrowRoutes, Underlay
    <2>7. UnderlayRoutes \cup ThrowRoutes \subseteq r4
        BY <2>4, <2>5, <2>6 DEF Replace
    <2>. QED
        BY <1>2, <2>1, <2>7 DEF ModeRoutes
<1>3. CASE Mode[s] = "Vlan"
    <2>1. NPhases(s) = 2 /\ RunTo(s, t0)[NPhases(s)] = r2
        BY <1>3 DEF NPhases, RunTo
    <2>2. r1 = Replace(t0, {DirectRoute(s)})
        BY <1>3 DEF Step, PhaseOf, VlanPhases, Apply, Rep
    <2>3. r2 = Replace(r1, {GwDefaultRoute(s)})
        BY <1>3 DEF Step, PhaseOf, VlanPhases, Apply, Rep
    <2>4. DirectRoute(s).dst # GwDefaultRoute(s).dst
        BY DEF DirectRoute, GwDefaultRoute
    <2>5. {DirectRoute(s), GwDefaultRoute(s)} \subseteq r2
        BY <2>2, <2>3, <2>4 DEF Replace
    <2>. QED
        BY <1>3, <2>1, <2>5 DEF ModeRoutes
<1>4. CASE Mode[s] \notin {"Vxlan", "Vlan"}
    <2>1. NPhases(s) = 1 /\ RunTo(s, t0)[NPhases(s)] = r1
        BY <1>4 DEF NPhases, RunTo
    <2>2. r1 = Replace(t0, {GwDefaultRoute(s)})
        BY <1>4 DEF Step, PhaseOf, BGPPhases, Apply, Rep
    <2>3. GwDefaultRoute(s) \in r1
        BY <2>2 DEF Replace
    <2>. QED
        BY <1>4, <2>1, <2>3 DEF ModeRoutes
<1>. QED
    BY <1>1, <1>2, <1>3, <1>4

\* ensureFromPodSubnetRuleAndRoutes adds the subnet's rule only after all
\* the route calls of its mode succeeded, and a failing call returns before
\* the rule: in every behaviour, a step that adds a subnet rule leaves the
\* routes of the subnet's mode in the table the rule points at.
THEOREM RuleAfterRoutesHolds == Spec => RuleAfterRoutes
<1>1. ASSUME TypeOK, [Next]_vars
      PROVE  \A r \in rules' \ rules :
                 r.src \in Subnets => ModeRoutes(r.src) \subseteq routes'[r.table]
    <2>1. CASE \E s \in Subnets : EnsureSubnet(s)
        <3>1. PICK s \in Subnets : EnsureSubnet(s)
            BY <2>1
        <3>2. CASE rules' = rules
            BY <3>2
        <3>3. CASE rules' # rules
            <4>. DEFINE t == TableOf(s)
            <4>1. /\ Prechecks(s) /\ ~ruleExist(s) /\ FreePrios # {}
                  /\ rules' = rules \cup {NewRule(s, t)}
                  /\ routes' = [routes EXCEPT ![t] = RunTo(s, routes[t])[NPhases(s)]]
                BY <3>1, <3>3 DEF EnsureSubnet
            <4>2. t \in Pool
                BY <4>1, FirstEmptyTable DEF TableOf, Prechecks, EmptyTables
            <4>3. routes'[t] = RunTo(s, routes[t])[NPhases(s)] /\ routes[t] \in SUBSET Route
                BY <1>1, <4>1, <4>2 DEF TypeOK
            <4>4. ModeRoutes(s) \subseteq routes'[t]
                BY <4>3, ModeRoutesWritten
            <4>5. \A r \in rules' \ rules : r = NewRule(s, t)
                BY <4>1
            <4>. QED
                BY <4>4, <4>5 DEF NewRule
        <3>. QED
            BY <3>2, <3>3
    <2>2. CASE UNCHANGED rules
        BY <2>2
    <2>. QED
        BY <1>1, <2>1, <2>2 DEF Next, EnsureSubnetFails, NewPass, vars
<1>. QED
    BY <1>1, TypeCorrect, PTL DEF RuleAfterRoutes, Spec

-----------------------------------------------------------------------------
(* Idempotent reconciliation.                                              *)

\* The table the phases of s's handler leave, started on t0.
Result(s, t0) == RunTo(s, t0)[NPhases(s)]

\* After a successful reconciliation of s and until the next step that
\* reports otherwise, s has a rule, its table is a pool table, and that
\* table is what the handler's phases leave.
LastOkInv ==
    lastOk # NoSrc =>
        /\ ruleExist(lastOk)
        /\ TableOf(lastOk) \in Pool
        /\ \E X \in SUBSET Route : routes[TableOf(lastOk)] = Result(lastOk, X)

\* Replacing a route that is already the table's only route to its
\* destination changes nothing.
LEMMA ReplaceFixed ==
    ASSUME NEW T, NEW r \in T, \A x \in T : x.dst = r.dst => x = r
    PROVE  Replace(T, {r}) = T
BY DEF Replace

\* What each mode's handler leaves: the VXLAN handlers leave exactly the
\* mode's routes, whatever the table held; the VLAN and BGP handlers
\* replace their routes and keep the rest.
LEMMA ResultForm ==
    ASSUME NEW s \in Subnets, NEW X
    PROVE  Result(s, X) =
             CASE Mode[s] = "Vxlan" /\ ~AutoNat[s] -> {VxlanDefaultRoute}
               [] Mode[s] = "Vxlan" /\ AutoNat[s]  -> UnderlayRoutes \cup ThrowRoutes
               [] Mode[s] = "Vlan" -> Replace(Replace(X, {DirectRoute(s)}), {GwDefaultRoute(s)})
               [] OTHER -> Replace(X, {GwDefaultRoute(s)})
<1>. DEFINE r1 == Step(s, 1, X, X)
            r2 == Step(s, 2, X, r1)
            r3 == Step(s, 3, X, r2)
            r4 == Step(s, 4, X, r3)
<1>. USE ConstantsAssumption, DstsAssumption
<1>1. CASE Mode[s] = "Vxlan" /\ ~AutoNat[s]
    <2>1. Result(s, X) = r2
        BY <1>1 DEF Result, NPhases, RunTo
    <2>2. r1 = Replace(X, {VxlanDefaultRoute})
        BY <1>1 DEF Step, PhaseOf, VxlanPhases, Apply, Rep
    <2>3. r2 = r1 \ {r \in X : r.dst # DefaultDst}
        BY <1>1 DEF Step, PhaseOf, VxlanPhases, Apply, Del
    <2>4. r2 = {VxlanDefaultRoute}
        BY <2>2, <2>3 DEF Replace, VxlanDefaultRoute
    <2>. QED
        BY <1>1, <2>1, <2>4
<1>2. CASE Mode[s] = "Vxlan" /\ AutoNat[s]
    <2>1. Result(s, X) = r4
        BY <1>2 DEF Result, NPhases, RunTo
    <2>0. r1 = X \ {r \in X : r.type # "throw" /\ r.dst \notin Underlay}
        BY <1>2, NatPhases
    <2>2. r2 = Replace(r1, UnderlayRoutes)
        BY <1>2, NatPhases
    <2>3. r3 = r2 \ {r \in r2 : r.type = "throw" /\ r.dst \notin Blocks}
        BY <1>2, NatPhases
    <2>4. r4 = Replace(r3, ThrowRoutes)
        BY <1>2, NatPhases
    <2>5. UnderlayRoutes \cup ThrowRoutes \subseteq r4
        BY <2>2, <2>3, <2>4 DEF Replace, UnderlayRoutes, ThrowRoutes, Underlay
    <2>6. ASSUME NEW x \in r4, x \notin UnderlayRoutes \cup ThrowRoutes PROVE FALSE
        <3>1. x \in r3 /\ \A y \in ThrowRoutes : x.dst # y.dst
            BY <2>4, <2>6 DEF Replace
        <3>2. x.dst \notin Blocks
            <4> SUFFICES ASSUME x.dst \in Blocks PROVE FALSE
                OBVIOUS
            <4> DEFINE y == [dst |-> x.dst, type |-> "throw", gw |-> NoGw]
            <4>1. y \in ThrowRoutes /\ y.dst = x.dst
                BY DEF ThrowRoutes
            <4>. QED
                BY <3>1, <4>1
        <3>3. x \in r1 /\ \A y \in UnderlayRoutes : x.dst # y.dst
            BY <2>2, <2>3, <2>6, <3>1 DEF Replace
        <3>4. x.dst \notin Underlay
            <4> SUFFICES ASSUME x.dst \in Underlay PROVE FALSE
                OBVIOUS
            <4> DEFINE y == [dst |-> x.dst, type |-> "unicast", gw |-> NoGw]
            <4>1. y \in UnderlayRoutes /\ y.dst = x.dst
                BY DEF UnderlayRoutes
            <4>. QED
                BY <3>3, <4>1
        <3>5. x.type = "throw"
            BY <2>0, <3>3, <3>4
        <3>. QED
            BY <2>3, <3>1, <3>2, <3>5
    <2>. QED
        BY <1>2, <2>1, <2>5, <2>6
<1>3. CASE Mode[s] = "Vlan"
    <2>1. Result(s, X) = r2
        BY <1>3 DEF Result, NPhases, RunTo
    <2>2. r1 = Replace(X, {DirectRoute(s)})
        BY <1>3 DEF Step, PhaseOf, VlanPhases, Apply, Rep
    <2>3. r2 = Replace(r1, {GwDefaultRoute(s)})
        BY <1>3 DEF Step, PhaseOf, VlanPhases, Apply, Rep
    <2>. QED
        BY <1>3, <2>1, <2>2, <2>3
<1>4. CASE Mode[s] \notin {"Vxlan", "Vlan"}
    <2>1. Result(s, X) = r1
        BY <1>4 DEF Result, NPhases, RunTo
    <2>2. r1 = Replace(X, {GwDefaultRoute(s)})
        BY <1>4 DEF Step, PhaseOf, BGPPhases, Apply, Rep
    <2>. QED
        BY <1>4, <2>1, <2>2
<1>. QED
    BY <1>1, <1>2, <1>3, <1>4

\* Running the handler's phases on the table they left changes nothing:
\* the VXLAN results do not depend on the table, and the VLAN and BGP
\* results already hold the one route of each destination they replace.
LEMMA ResultIdempotent ==
    ASSUME NEW s \in Subnets, NEW X
    PROVE  Result(s, Result(s, X)) = Result(s, X)
<1>. USE ConstantsAssumption, DstsAssumption
<1>. DEFINE D == DirectRoute(s)
            G == GwDefaultRoute(s)
<1>1. D.dst # G.dst
    BY DEF DirectRoute, GwDefaultRoute
<1>2. CASE Mode[s] = "Vxlan"
    BY <1>2, ResultForm
<1>3. CASE Mode[s] = "Vlan"
    <2>. DEFINE A == Replace(Replace(X, {D}), {G})
    <2>1. Result(s, X) = A /\ Result(s, A) = Replace(Replace(A, {D}), {G})
        BY <1>3, ResultForm
    <2>2. Replace(A, {D}) = A
        <3>1. D \in A /\ \A x \in A : x.dst = D.dst => x = D
            BY <1>1 DEF Replace
        <3>. QED
            BY <3>1, ReplaceFixed
    <2>3. Replace(A, {G}) = A
        <3>1. G \in A /\ \A x \in A : x.dst = G.dst => x = G
            BY DEF Replace
        <3>. QED
            BY <3>1, ReplaceFixed
    <2>. QED
        BY <2>1, <2>2, <2>3
<1>4. CASE Mode[s] \notin {"Vxlan", "Vlan"}
    <2>. DEFINE A == Replace(X, {G})
    <2>1. Result(s, X) = A /\ Result(s, A) = Replace(A, {G})
        BY <1>4, ResultForm
    <2>2. G \in A /\ \A x \in A : x.dst = G.dst => x = G
        BY DEF Replace
    <2>. QED
        BY <2>1, <2>2, ReplaceFixed
<1>. QED
    BY <1>2, <1>3, <1>4

\* The rule checkIfRuleExist returns is one of the subnet's rules.
LEMMA ExistRuleIn ==
    ASSUME TypeOK, NEW s \in Subnets, ruleExist(s)
    PROVE  existRule(s) \in SrcRules(s)
<1>. DEFINE P == {r.prio : r \in SrcRules(s)}
<1>1. P \in SUBSET Nat /\ P # {}
    BY ConstantsAssumption DEF TypeOK, Rule, Prios, ruleExist, SrcRules
<1>2. PICK p \in P : \A q \in P : p <= q
    BY <1>1, NatMin
<1>3. PICK r \in SrcRules(s) : r.prio = p
    BY <1>2
<1>4. \A o \in SrcRules(s) : r.prio <= o.prio
    BY <1>2, <1>3
<1>. QED
    BY <1>4 DEF existRule

\* Nothing has been reconciled when the daemon starts.
LEMMA InitLastOkInv == Init => LastOkInv
BY DEF Init, LastOkInv

\* Every step keeps LastOkInv: a successful reconciliation of s leaves s a
\* rule whose pool table holds what the phases leave; every other step
\* resets lastOk or leaves rules, routes and lastOk alone.
LEMMA NextLastOkInv == PrioInv /\ LastOkInv /\ [Next]_vars => LastOkInv'
<1>. SUFFICES ASSUME PrioInv, LastOkInv, [Next]_vars PROVE LastOkInv'
    OBVIOUS
<1>1. ASSUME NEW s \in Subnets, EnsureSubnet(s) PROVE LastOkInv'
    <2>. DEFINE t == TableOf(s)
                ok == ruleExist(s) \/ FreePrios # {}
    <2>1. CASE ~Prechecks(s) \/ ~ok
        BY <1>1, <2>1 DEF EnsureSubnet, LastOkInv
    <2>2. CASE Prechecks(s) /\ ruleExist(s)
        <3>1. /\ rules' = rules /\ lastOk' = s
              /\ routes' = [routes EXCEPT ![t] = Result(s, routes[t])]
            BY <1>1, <2>2 DEF EnsureSubnet, Result
        <3>2. existRule(s) \in SrcRules(s)
            BY <2>2, ExistRuleIn DEF PrioInv
        <3>3. t = existRule(s).table /\ t \in Pool
            BY <2>2, <3>2 DEF TableOf, PrioInv, RuleShape, SrcRules
        <3>4. ruleExist(s)' /\ TableOf(s)' = t
            BY <2>2, <3>1 DEF TableOf, ruleExist, existRule, SrcRules
        <3>5. routes[t] \in SUBSET Route /\ routes'[t] = Result(s, routes[t])
            BY <3>1, <3>3 DEF PrioInv, TypeOK
        <3>. QED
            BY <3>1, <3>3, <3>4, <3>5 DEF LastOkInv
    <2>3. CASE Prechecks(s) /\ ~ruleExist(s) /\ FreePrios # {}
        <3>. DEFINE nr == NewRule(s, t)
        <3>1. /\ rules' = rules \cup {nr} /\ lastOk' = s
              /\ routes' = [routes EXCEPT ![t] = Result(s, routes[t])]
            BY <1>1, <2>3 DEF EnsureSubnet, Result
        <3>2. t = findEmptyRouteTable /\ t \in Pool
            BY <2>3, FirstEmptyTable DEF TableOf, Prechecks, EmptyTables
        <3>3. nr.prio \in Nat
            BY <2>3, FirstFreePrio, ConstantsAssumption DEF NewRule, FreePrios, Prios
        <3>4. SrcRules(s)' = {nr}
            BY <2>3, <3>1 DEF SrcRules, ruleExist, NewRule
        <3>5. ruleExist(s)' /\ existRule(s)' = nr
            BY <3>3, <3>4 DEF ruleExist, existRule
        <3>6. TableOf(s)' = t
            BY <3>5 DEF TableOf, NewRule
        <3>7. routes[t] \in SUBSET Route /\ routes'[t] = Result(s, routes[t])
            BY <3>1, <3>2 DEF PrioInv, TypeOK
        <3>. QED
            BY <3>1, <3>2, <3>6, <3>5, <3>7 DEF LastOkInv
    <2>. QED
        BY <2>1, <2>2, <2>3
<1>2. ASSUME NEW s \in Subnets, EnsureSubnetFails(s) PROVE LastOkInv'
    BY <1>2 DEF EnsureSubnetFails, LastOkInv
<1>3. CASE UNCHANGED <<rules, routes, lastOk>>
    BY <1>3 DEF LastOkInv, TableOf, ruleExist, existRule, SrcRules, findEmptyRouteTable,
                EmptyTables
<1>. QED
    BY <1>1, <1>2, <1>3 DEF Next, NewPass, vars

\* The invariants the idempotence argument rests on hold in every state.
LEMMA LastOkInvariant == Spec => [](PrioInv /\ LastOkInv)
<1>1. Init => PrioInv /\ LastOkInv
    BY InitPrioInv, InitLastOkInv
<1>2. PrioInv /\ LastOkInv /\ [Next]_vars => PrioInv' /\ LastOkInv'
    BY NextPrioInv, NextLastOkInv
<1>. QED
    BY <1>1, <1>2, PTL DEF Spec

\* The route and rule calls of ensureFromPodSubnetRuleAndRoutes are
\* replace-or-delete calls and the rule is added only when missing:
\* reconciling a subnet twice in a row, both times successfully (with at
\* most the start of a new pass between them), leaves the kernel's rules and
\* route tables as the first reconciliation left them.
THEOREM IdempotentHolds == Spec => Idempotent
<1>1. ASSUME PrioInv, LastOkInv, [Next]_vars
      PROVE  \A s \in Subnets : lastOk = s /\ lastOk' = s => UNCHANGED <<rules, routes>>
    <2> SUFFICES ASSUME NEW s \in Subnets, lastOk = s, lastOk' = s
                 PROVE  UNCHANGED <<rules, routes>>
        OBVIOUS
    <2>1. CASE \E s2 \in Subnets : EnsureSubnet(s2)
        <3>1. PICK s2 \in Subnets : EnsureSubnet(s2)
            BY <2>1
        <3>2. s2 = s /\ Prechecks(s) /\ (ruleExist(s) \/ FreePrios # {})
            BY <3>1, ConstantsAssumption DEF EnsureSubnet
        <3>. DEFINE t == TableOf(s)
        <3>3. ruleExist(s) /\ t \in Pool
            BY <1>1, ConstantsAssumption DEF LastOkInv
        <3>4. PICK X \in SUBSET Route : routes[t] = Result(s, X)
            BY <1>1, ConstantsAssumption DEF LastOkInv
        <3>5. rules' = rules /\ routes' = [routes EXCEPT ![t] = Result(s, routes[t])]
            BY <3>1, <3>2, <3>3 DEF EnsureSubnet, Result
        <3>6. Result(s, routes[t]) = routes[t]
            BY <3>4, ResultIdempotent
        <3>. QED
            BY <1>1, <3>3, <3>5, <3>6 DEF PrioInv, TypeOK
    <2>2. CASE \E s2 \in Subnets : EnsureSubnetFails(s2)
        BY <1>1, <2>2, ConstantsAssumption DEF EnsureSubnetFails
    <2>3. CASE NewPass \/ UNCHANGED vars
        BY <2>3 DEF NewPass, vars
    <2>. QED
        BY <1>1, <2>1, <2>2, <2>3 DEF Next
<1>. QED
    BY <1>1, LastOkInvariant, PTL DEF Idempotent, Spec
=============================================================================
