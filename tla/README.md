# TLA+ models of the hybridnet node daemon's reconciliation engine

This directory holds TLA+ models of the node daemon's reconciliation engine
(spec.md sections 1-5), and of two pieces of code next to it: the pod
interface set-up in `network.go` and the RemoteSubnet admission webhook. The
engine has three parts:

* **Policy-route manager** (`src/pkg/daemon/route/utils.go`). For every
  managed subnet it picks a route table from the pool
  `[MinRouteTableNum, MaxRouteTableNum)`. It then writes the routes of the
  subnet's network mode into that table. Last, it adds a source rule to the
  table at the first free priority above the node-local rule.
* **CIDR-range calculator** (`src/unnamed/part_003`). It turns a subnet's
  included ranges, gateway and excluded IPs into CIDR blocks. The VXLAN NAT
  writer installs these blocks as throw routes.
* **Address manager** (`src/unnamed/part_002`). It keeps one link-scope,
  no-prefix-route "enhanced" address per (forward interface, subnet) with a
  local pod. It asks the cluster (`getIPInstanceByAddress`,
  `src/unnamed/part_001`) whether an existing enhanced address still belongs
  to this node.

A synchronisation driver sits outside `src/`. For each address family it
calls the route manager once per subnet and then the address manager. The
kernel (rules, route tables, interface addresses) is the only shared state.
The parts interact only through that state. The VLAN writer's "is this
subnet local" test ignores addresses that carry the no-prefix-route flag,
which are exactly the enhanced addresses the address manager adds.

Two further pieces are modelled on their own:

* **Pod interface set-up** (`ConfigureIface` and `AddRoute` in
  `src/pkg/daemon/utils/network.go`). It applies an IPAM result to an
  interface: the addresses, the IPv6 sysctls, and routes through the
  result's gateways.
* **RemoteSubnet admission webhook**
  (`src/pkg/webhook/validating/remotesubnet.go`). It denies a RemoteSubnet
  whose range overlaps a local subnet or a remote subnet in its client's
  cache. It keeps the subnets the engine receives disjoint, which spec
  section 3 takes as a precondition.

## Inventory

`PROJECT.json` lists every source file. It records whether each is modelled
and why not when it is not.

* Modelled: the policy-route manager, the CIDR-range calculator and the
  address manager, with the owner lookup `getIPInstanceByAddress`. Also the
  composition of the address manager with the VLAN local-subnet test
  (`AddrLocalSubnet.tla`) and the RemoteSubnet webhook.
* Partly modelled: `network.go`. `ConfigureIface` and `AddRoute` are
  modelled.
  * The bodies of `GenerateVlanNetIfName`, `GenerateVxlanNetIfName` and
    `EnsureVlanIf` (lines 43-115) are empty in this source tree, so there
    is nothing to translate.
  * The rest of the file is read-only lookups (`GetDefaultRoute`, the
    `Check*` functions, `ListAllAddress`) or single sysctl and route
    writes (`EnsureNeighGCThresh`, `EnsureIPv6RouteGCParameters`,
    `EnsureIPReachable`). None of them makes a decision that another
    modelled component depends on.
* Not modelled:
  * the multi-cluster controllers (`part_000`, `part_006`, `part_007`) and
    the cluster checker (`part_005`), which spec section 1 puts out of
    scope;
  * the generated fake client (`part_004`);
  * the IPAM transforms, which are field copies;
  * `policyinit.sh`;
  * `collectGlobalNetworkInfoAndInit` (`part_001`), which turns API objects
    into inputs. Its unchecked `BGPPeers[0]` (line 319) is listed as a
    hazard without a property.

The hazards this code is exposed to are listed in `PROJECT.json` under
"hazards". Each one names the properties that cover it, or carries a note
saying why nothing covers it yet.

## RouteManager.tla: the policy-route manager

The model covers one address family. Its state is:

| Variable | What it holds |
|---|---|
| `rules` | the policy rules, as records `[src, table, prio]` |
| `routes` | `routes[t]` is the route set of pool table `t`, with records `[dst, type, gw]` |
| `pending` | the subnets the current pass has still to reconcile |
| `result` | each subnet's outcome in this pass |
| `lastOk` | the subnet of the last successful reconciliation (for the idempotence check) |
| `failures` | the number of injected kernel-call failures |

Routes are abstracted to destination, type (unicast or throw) and gateway.
Link index, scope and source are not modelled, because no property tells
them apart. `RouteReplace` replaces the route with the same destination;
`RouteDel` removes a listed route.

### Actions

**`EnsureSubnet(s)`** is `ensureFromPodSubnetRuleAndRoutes` with every
kernel call succeeding.

* `checkIfRuleExist(cidr, -1)` is `ruleExist`/`existRule`: any rule whose
  source is the subnet, on any table.
* Otherwise a table comes from `findEmptyRouteTable`: the first pool table
  with no route.
* The precheck errors return before any write. These are the VLAN checks and
  the case where no table is free.
* The mode's writers run as a sequence of *phases* (`PhaseOf`, `RunTo`). Each
  phase is one loop of `RouteReplace` or `RouteDel` calls:
  * VXLAN without NAT: replace the default route, then delete the listed
    routes that have a destination.
  * VXLAN with NAT: delete the listed non-throw routes to non-underlay
    destinations, then replace the underlay routes, then (re-listing) delete
    throw routes of no current block, then replace one throw route per
    block.
  * VLAN: the direct route, then the gateway default route.
  * BGP/GlobalBGP: the gateway default route.
* The rule is added last, at `findHighestUnusedRulePriority`. That is the
  first unused priority, read back through `realRulePriority`, above the
  priority of the table-255 rule. When no priority is free, the result is an
  error.

**`EnsureSubnetFails(s)`** is the same handler when one kernel call fails.

* The phases before the failing one are done. The failing loop has done a
  proper subset of its calls: Go map order and kernel list order fix no
  order, so any subset is possible.
* Nothing after the failing call happens.
* A failing `RuleAdd` leaves every route and no rule.

**`NewPass`** is the driver starting the next pass.

### Initial state

The initial states include:

* the node-local, main and default rules;
* rules and tables that an earlier daemon left for some subnets, from a
  configuration with another gateway, another underlay set or other NAT
  setting;
* pool tables that another program holds.

### Runs

| Run | Expect | What it shows |
|---|---|---|
| `route_safety` (`RouteSafety.cfg`) | pass | `TypeOK`, `RulePriorityOK`, `RuleAfterRoutes` and `Idempotent` hold with four subnets of every mode and one injected failure. |
| `route_converge` (`RouteConverge.cfg`) | pass | `PassConverged` holds without failures: every subnet whose reconciliation reports success ends the pass with its rule and exactly its mode's routes. |
| `route_table_shared` (`RouteTableShared.cfg`) | violation | `TableExclusive` fails: two subnets' rules share a table. |
| `route_orphan_table` (`RouteOrphanTable.cfg`) | violation | `NoOrphanTable` fails: a table holds routes and no rule points at it. |

`route_converge` also reaches these cases:

* an exhausted priority pool (a subnet reports an error);
* a failing VLAN precheck (the local subnet has no host direct route).

`route_safety` has no such check, so the failure injection and stale
states are what it exercises.

### Bounds and why they are enough

* Four subnets, one of each behaviour: VXLAN with NAT, VXLAN without NAT,
  VLAN, BGP.
* Three gateways, so that stale default routes go through an old gateway.
* One exclusion block and one stale destination.
* A pool of six tables with one foreign table.
* Priorities `0..5` with the external rules at 0, 4 and 5. That leaves three
  free priorities for four subnets, so exhaustion happens. Stale rules take
  priorities that collide between a stale subnet and a new one.
* One injected failure.

Every action and every phase of every mode is taken. Among them: a subnet
with a stale rule and table, a subnet whose stale table still holds an old
gateway route, a failure in each phase, and a failing `RuleAdd`.

### Findings

1. **Two subnets can share a table** (`route_table_shared`).
   * A VXLAN subnet with `autoNatOutgoing` and an empty underlay map writes
     no route into its table, but its rule is added.
   * The table stays empty, so `findEmptyRouteTable` gives it to the next
     subnet.
   * The NAT subnet's later passes then delete that subnet's default route.
     Spec section 5 says route tables are disjoint per subnet.
2. **A table can leak** (`route_orphan_table`).
   * A failing `RuleAdd`, an exhausted priority pool, or a failing route
     call for a subnet without a rule leaves routes in a table no rule
     points at.
   * The next pass allocates a fresh table, because the old one is not
     empty, and nothing ever clears the old one.
   * Spec section 4.2 claims that the next pass re-converges partial
     routes.

### Mutants

Each property of a passing run is broken by a plausible code bug:

| Mutant | Breaks |
|---|---|
| A priority scan one past `MaxRulePriority` | `TypeOK` |
| `realRulePriority` as the identity | `RulePriorityOK` |
| The rule added before the routes | `RuleAfterRoutes` |
| The non-NAT writer deleting the default route too | `Idempotent` |
| Stale throw routes kept | `PassConverged` |

## IPRange.tla: the CIDR-range calculator

One behaviour is one call of `FindSubnetExcludeIPBlocks`. `Init` picks the
call's inputs: `includedRanges`, `excludeIPs` and `gateway` (or `Nil`).
Each step is one iteration of one of the function's loops. `pc` names the
running loop, or the return that was taken.

| Action | Code |
|---|---|
| `RangeOutOfCidr`, `RangesOverlapped` | the two error returns of the range loop |
| `AddGaps` | one iteration of the range loop: `Gaps(i)` is the gap before the first range and the gap up to the next range or the cidr's end, each built by `CreateIPRange`, which drops an empty one |
| `FoldIntoRange`, `FoldNewRange` | one iteration of `Loop2`: the first range whose `TryAddIP` succeeds takes the address, or a singleton range is appended |
| `SplitRange` | one `findTheFirstLargestCidr` call of `splitIPRangeToIPBlocks` |
| `RangesDone`, `FoldDone`, `SplitDone` | the loop exits |

Addresses are numbers in `0 .. 2^W - 1`. `Mask` and `LastIP` are
`net.IP.Mask` and the cursor's last address. `calculateIPLastZeroBits` is
the loop for the least prefix length whose mask keeps the address.
`LargestFrom` is the prefix-growing loop of `findTheFirstLargestCidr`.
`PrevIP` and `NextIP` come from `pkg/utils`, outside `src/`; they are
modelled from the spec as the address one below and one above. Each block
carries `rng`, the index of the exclusion range it came from. The code
drops that link; the properties use it. The module uses `RECURSIVE`, so it
is checked by TLC only.

### Runs

| Run | Expect | What it shows |
|---|---|---|
| `iprange_exact` (`IPRange.cfg`) | pass | `SplitExact`: every exclusion range is covered exactly by aligned, disjoint blocks. `SplitMinimal`: their number is `MinBlocks`, a reference that tries every aligned first block. `ExclusionExact`: with a nonempty included list the blocks route exactly the cidr outside the included ranges plus the excluded IPs and the gateway. |
| `iprange_empty_included` (`IPRangeEmptyIncluded.cfg`) | violation | `EmptyIncludedExcludesCidr` fails. |
| `iprange_overlap` (`IPRangeOverlap.cfg`) | violation | `BlocksDisjoint` fails. |

Bounds: `W = 4`, cidr `0 .. 7`, range ends in `{0, 2, 3, 5, 7, 8}`, and
excluded addresses and the gateway from `{3, 4, 6}`. There are up to two
included ranges and three excluded IPs: 74080 calls and 299749 states.

* The end 8 lies outside the cidr, so that error return is taken.
* The ends give overlapping, touching, nested and separated pairs of
  ranges, and gaps of length 0 to 3.
* The excluded addresses fall inside gaps, next to them, and inside
  included ranges, and repeat.

Mutants: the gateway appended without its nil check breaks `TypeOK`. A
zero-bit count one too high breaks `SplitExact`. Falling back to a host
block breaks `SplitMinimal`. A gap ending at the next range's start breaks
`ExclusionExact`.

### Findings

3. **An empty included list excludes nothing of the cidr**
   (`iprange_empty_included`). The gap loop runs once per included range.
   With none, only the excluded IPs and the gateway become blocks. Spec
   section 4.1 says the whole cidr minus those points is then exclusion
   territory. The only caller, the VXLAN NAT writer
   (`route/utils.go:499`), passes the subnet's `includedIPRanges` as they
   are.
4. **Blocks can overlap** (`iprange_overlap`). Take cidr `0..7`, included
   `[3,3]`, `excludeIPs = [3]` and gateway 4. The address 3 extends the gap
   `[0,2]` to `[0,3]`. The gateway then extends it again to `[0,4]`,
   although the gap `[4,7]` already holds 4. The result holds `4` twice.
   Spec section 8 says the blocks do not overlap. Spec section 8 also says
   no block meets an included range; that claim is contradicted by the
   spec's own `excludeIPs`, which lie inside included ranges. So
   `ExclusionExact` takes the excluded IPs and the gateway as part of the
   reference set.

## AddrManager.tla: the address manager

The model covers one address family, together with the driver that feeds
the manager and the cluster that the owner lookup reads.
`MCAddrManager.tla` gives the constants.

| Variable | What it holds |
|---|---|
| `addrs` | `addrs[l]`: link `l`'s addresses in listing order; an added address comes last |
| `owner` | the node of each pod IP's `IPInstance`, or `None` |
| `tracked` | `interfaceToSubnetMap` |
| `snapEnh`, `snapMan` | `existEnhancedAddrMap` and `existManualAddrSubnetMap` |
| `todo` | the pairs the running loop has still to do |
| `pc`, `result` | the driver's and `SyncAddresses`'s position, and its last return |
| `stable`, `failures`, `moves` | no pod moved since the pass began, and the two bounds |

### Actions

* **The driver** (outside `src/`, from spec sections 1 and 9):
  `ResetInfos`, then `TryAddPodInfo(ip)` for each local pod. The first pod
  of a subnet on its forward interface wins.
* **`SyncAddresses`** runs in steps:
  * `ListAddrs`: the listing keeps the *last* enhanced address of each
    (link, subnet) (`LastEnhanced`), because the map entry is overwritten.
  * `CleanupDel`: one `AddrDel` of the first loop per step.
  * `EnsureKept` and `EnsureAdded`: one pair of the second loop per step.
    The pair is skipped when a manual address covers the subnet, when the
    listed address is the pod IP, or when `getIPInstanceByAddress` still
    places it on this node (`KeepExisting`). Otherwise
    `ensureSubnetEnhancedAddr` adds the pod IP and then removes the listed
    address.
  * `ListFails`, `CleanupFails` and `EnsureFails`: any call fails and the
    function returns. A failing removal leaves the new address added
    (`EnsureFailOutcomes`).
* **`MovePod`**: the cluster gives a pod IP to another node, or releases
  it, at any time.

`checkIfEnhancedAddr` and `ensureSubnetEnhancedAddr` are outside `src/`.
They are modelled from spec section 4.3: an enhanced address carries link
scope and the no-prefix-route flag, and the new address is added before
the superseded one is removed. Container links are left out. The code
skips them before it reads anything.

### Runs

| Run | Expect | What it shows |
|---|---|---|
| `addr_safety` (`AddrSafety.cfg`) | pass | `PassEnsuresEnhanced`: after a pass that returned nil while no pod moved, every tracked (link, subnet) without a manual address has an enhanced address that is its pod IP or an IP still on this node. `AddBeforeDelete`: no step, failing or not, takes the last enhanced address from such a pair. |
| `addr_stale_duplicate` (`AddrConverged.cfg`) | violation | `CleanPassConverged` fails. |

Bounds:

* two links, one of which forwards no subnet, so its addresses are all
  cleanup work;
* two subnets, one with a manual address;
* three pod IPs, two of them in one subnet, so a pair's pod can change;
* one injected failure and two pod moves.

The initial lists include enhanced addresses from an earlier run, among
them two of one subnet on one link. The run reaches 725832 states.

Mutants:

* the listing keyed by link alone breaks `TypeOK`;
* keeping any listed address without the owner lookup breaks
  `PassEnsuresEnhanced`;
* removing the old address before adding the new one breaks
  `AddBeforeDelete`.

### Findings

5. **A stale enhanced address can stay forever** (`addr_stale_duplicate`).
   The run starts from lists with at most one enhanced address per subnet.
   The trace:
   * `p1` is enhanced on `l1` and belongs to another node's pod, and the
     local pod `p2` is tracked instead.
   * `SyncAddresses` adds `p2`, and the removal of `p1` fails.
   * On every later pass the listing keeps only `p2` for the subnet, since
     it is listed last. The pass keeps `p2` and returns nil.
   * `p1`, now another node's pod IP, stays on the link.

   Spec sections 3 and 4.3 say such an address is removed.

## AddrLocalSubnet.tla: the address manager seen by the VLAN test

`ensureRoutesForVlanSubnet` (route/utils.go 333-342) takes a subnet for
local when some address of the host lies in it without
`IFA_F_NOPREFIXROUTE`. The address manager adds and deletes addresses on the
same links at any time, always with that flag (part_002 line 227). The
module extends `AddrManager` and translates the test as `isLocalSubnet`.

**Checked in run `addr_safety`.** That run uses the module
`MCAddrLocalSubnet`, on the instance of `MCAddrManager` (725832 states). It
checks the action property `LocalSubnetStable`: no step of the
address manager, its driver or the cluster changes `isLocalSubnet`. This
holds at every point of a pass and after any failure. So the route manager
may run before, after or during an address pass, and `RouteManager` rightly
takes `LocalSubnets` as a constant.

**Mutant.** Drop the flag test and the property fails as soon as an
enhanced address is added.

**Proved.** `LocalSubnetStableHolds` in `AddrManagerProofs.tla` proves the
same property for every instance.

## PodIface.tla: ConfigureIface and AddRoute

### State

* **Kernel state** of the interface:
  * `up`;
  * `addrs`;
  * `routes`, each a record `[dst, gw, scope]`;
  * `disabled`, the `disable_ipv6` sysctls of `lo` and of the interface.
* **Locals of the function:**
  * `i` and `j`, the loop indices;
  * `sx`, the index in the `disable_ipv6` loop;
  * `v4gw`, `v6gw` and `hasEnabledIPv6`.
* **`res`**, the IPAM result, chosen at the start from `Results`.

### Data

An address is `[fam, a]` with `a` in `0 .. AddrMax`. A route destination
is a prefix `[fam, lo, hi]`, and `Contains` is `route.Dst.Contains`. The
default route, `0 .. AddrMax`, is listed by netlink with a nil `Dst`
(`IsDefault`), as `route/utils.go` (lines 274, 292-293) also relies on, so
`containsGW` skips it (line 289).

### Actions

There is one action per iteration of each loop:

* `Start` (lines 439-450);
* `AddIP` (454-503): skip an IP without an interface, refuse a foreign
  index, add the address, record the first gateway of each family;
* `EnableIPv6` (466-486), one iteration over `lo` and then `ifName`: a
  failed read or a value of 0 is passed over, and a failed write ends the
  call;
* `EndIPs` and `Settle` (505-509);
* `AddResRoute` (511-527), which evaluates `AddRoute` (274-314):
  * it resolves the gateway (`RouteGw`);
  * it adds the direct /32 route unless `containsGW`: some listed route
    other than the default one contains the gateway;
  * it adds the route itself;
  * it passes over a bare EEXIST only;
* `Done`.

Any one netlink or sysctl call may fail (`MaxFailures = 1`).

### The kernel

The kernel is modelled only in what the code relies on:

* an existing address is refused with EEXIST;
* an IPv6 address is refused while `disable_ipv6` is 1;
* a route via a gateway is refused unless a link-scope route of the
  interface contains the gateway. The kernel checks this before it looks
  for an existing route to the same destination.

### Inputs

The inputs are:

* IPv4 (with an IP that has no interface), IPv6 and dual-stack results;
  the dual-stack one repeats the IPv4 default route;
* a second gateway inside the default route, with a route to a service
  range through it;
* the default route given twice, with different gateways;
* three results the code must refuse: no interface, an IP for another
  interface, the same address twice.

Both `disable_ipv6` values are tried for each interface.

### Runs

**Run `podiface_configure`** (306 states, every action fires). It checks:

* `SuccessAddrs`: when `ConfigureIface` returns nil, the interface is up
  and holds every address meant for it, with IPv6 enabled when one is IPv6;
* `SuccessRoutes`: when it returns nil, the interface routes every
  destination of the result via the gateway of the first route to it, and
  that gateway is reachable on-link;
* `NoSpuriousFailure`: the call fails only on a malformed result or on a
  failed call.

The second gateway gets a direct route of its own, because the default
route does not count for `containsGW`, so its route is accepted. The
second default route is passed over on EEXIST after its gateway got a
direct route, and the first one wins.

### Mutants

* Passing over every error of `AddRoute` breaks `SuccessRoutes`.
* Passing over an IP meant for another interface, instead of refusing it,
  breaks `SuccessAddrs`.
* Enabling IPv6 on `lo` only breaks `NoSpuriousFailure`.

### Not modelled

Only single calls are modelled. `ConfigureIface` has no rollback, but the
caller that would call it again is not under `src/`.

## RemoteSubnetWebhook.tla: the RemoteSubnet admission webhook

### The create handler

Every create request runs `RemoteSubnetCreateValidation` in a goroutine of
its own:

* `Lock`: `rsLock.Lock`;
* `Decode`;
* `ListLocal`: deny on a local subnet that the range intersects;
* `ListRemote`: deny on a remote subnet in the **cache** that the range
  intersects, otherwise allow.

Decode and either List may fail (`CallFails`). Every return releases the
lock (`Return`, the deferred `Unlock`).

### Outside the handler

* Update and delete are allowed at once (`Send`).
* The API server (`Store`, `StoreFails`) stores an allowed object after
  the handler has returned.
* The informer (`Sync`) brings one object of the cache up to date per step.

These three are modelled from their documented behaviour: they are outside
this repository.

### Fairness

* `SF` on `Lock`: Go's `sync.Mutex` hands the lock to a goroutine that has
  waited over 1 ms (starvation mode), so a handler that is repeatedly able
  to lock gets it.
* `WF` on the other steps of each handler, on the API server and on the
  informer.

### Runs

**Run `webhook_live`** (5931 states). It checks:

* `CreateExclusive`: no two create handlers are between `rsLock.Lock` and
  their return at once, so none decides while another lists or decides.
* `RequestsAnswered`: every request is answered.
* `ImplementsAdmission`: the handler implements `AdmissionAbstract`, fairness
  included. `AdmissionAbstract` decides each create in one step against the
  local subnets and the cached remote subnets.
  * The refinement mapping maps the handler locations `lock`, `decode`,
    `local` and `remote` to `pending`.
  * The returning step is the decision.

**Mutants.**

* Locking a copy of the mutex (a value receiver), so that a handler never
  waits, breaks `CreateExclusive`.
* A return path that keeps the lock breaks both liveness properties.
* A second loop that lists the local subnets again breaks the refinement.

**What the refinement says about overlaps.** The handler is a one-step
check against the cache, and nothing more. Two consequences follow, and
neither is a violation of anything the code promises:

* Race. A second overlapping create that lists RemoteSubnets before the
  informer has seen the first is admitted too. `rsLock` does not prevent
  this: it is released before the API server stores the object, and the
  list comes from the cache.
* Update. An update is allowed unchecked, so it can move a range into
  another's.

So no invariant "stored remote subnets do not overlap" holds, and none is
checked. PROJECT.json lists both as hazards (`remotesubnet.go:48`, `:70`,
`:84`). Spec section 3 takes disjoint subnets as a precondition that is
enforced upstream; this model shows that the webhook alone does not enforce
it.

## Proofs (RouteManagerProofs.tla)

The proofs are checked by `tlapm` for every value of the constants that
satisfies `ConstantsAssumption` and `DstsAssumption`.

* **`TypeCorrect`: `Spec => []TypeOK`.** `TypeOK` is inductive as it stands.
  The proof rests on these lemmas:
  * every phase of every mode is a replace or delete over routes
    (`PhaseOfType`);
  * applying one keeps a table of routes (`ApplyType`, `StepType`,
    `RunToType`, `InterruptedType`);
  * the "first" lookups `findEmptyRouteTable` and
    `findHighestUnusedRulePriority` are defined when their set is nonempty
    (`NatMin`, in `NatLemmas.tla`). `NatMin` follows from the
    well-foundedness of `<` on `Nat` (`WellFoundedInduction`).
* **`RulePriorityCorrect`: `Spec => []RulePriorityOK`.** `RulePriorityOK`
  alone is not inductive: the allocator reads the node-local rule's priority
  from the rule list. The inductive invariant `PrioInv` adds `RuleShape`:
  * the source-less rules are exactly the node-local, main and default
    rules;
  * every subnet rule points into the pool.

  From that, `nodeLocalRulePrio = LocalRulePrio` (`NodeLocalPrio`), and
  `UsedPrios` is the set of rule priorities because
  `realRulePriority(Listed(p)) = p` (`ListedRoundTrip`,
  `UsedPriosAreRulePrios`). A new rule's priority therefore differs from
  every existing one and lies above `LocalRulePrio`. `PrioInv` was checked
  with TLC on the `route_safety` configuration (30116 states) before it was
  proved.
* **`RuleAfterRoutesHolds`: `Spec => RuleAfterRoutes`.** The lemma
  `ModeRoutesWritten` shows that the table left by the whole phase
  sequence (`RunTo(s, t0)[NPhases(s)]`) holds every route of the subnet's
  mode, whatever the table held before. It goes one case per mode through
  the phases. A step that adds a subnet rule is a successful
  `EnsureSubnet`, which writes that table first. A failing step adds no
  rule, and the other actions do not touch the rules.
* **`IdempotentHolds`: `Spec => Idempotent`.** It rests on the invariant
  `LastOkInv`: after a success for `s`, `s` still has its rule, the rule's
  table is a pool table, and that table equals `Result(s, X)` for some
  earlier table `X`. `LastOkInv` is inductive together with `PrioInv`
  (`NextLastOkInv`). The priority invariant is needed because the rule
  must stay the subnet's only one. The lemma `ResultForm` gives the
  closed form of each mode's result. Two VXLAN cases do not depend on the
  table. The VLAN and BGP cases are `Replace`s of one route per
  destination. From that, `ResultIdempotent` shows
  `Result(s, Result(s, X)) = Result(s, X)`, and `ReplaceFixed` gives the
  `Replace` step. So a second success finds the rule (no new one) and
  rewrites the table with itself. `PrioInv /\ LastOkInv` was checked with
  TLC on the `route_safety` configuration (30116 states) before the proof.

## Proofs (AddrManagerProofs.tla)

These proofs hold for every value of the constants that satisfies
`AddrManagerAssumption`. Among other things, that assumption says the
kernel's initial lists hold each address once, and that an enhanced
address left by an earlier run is a pod IP.

* **`AddrTypeCorrect`: `Spec => []TypeOK`.** This is the claim checked by
  `addr_safety`: no link's list repeats an address, and the address that
  `existEnhancedAddrMap` lists for a subnet is a pod IP of that subnet.
* **`AddBeforeDeleteHolds`: `Spec => AddBeforeDelete`.** No step removes the
  last enhanced address of a tracked (link, subnet).
* **`LocalSubnetStableHolds`: `Spec => LocalSubnetStable`.** No step changes
  the VLAN local-subnet test of `AddrLocalSubnet`. The lemma
  `StepKeepsManual` shows that every step keeps `ManualAddrs`, the addresses
  of each link without the enhanced flag. It does this per action:
  `DelKeepsManual` and `AddKeepsManual` cover the two list operations.
  `isLocalSubnet` reads only those addresses.

Both rest on the inductive invariant `IInv`. It adds four facts to
`TypeOK`:

* every enhanced address is a pod IP, which `LastEnhanced` needs to list a
  pod IP;
* a tracked pod IP lies in its subnet, so the address that
  `ensureSubnetEnhancedAddr` adds is of the pair's subnet;
* while the first loop runs, every pending pair is untracked;
* while the second loop runs, every pending pair is tracked.

The last two are what make a delete safe. The first loop deletes only for
an untracked pair. The second adds a tracked pod IP of the subnet before it
removes the old address, and `~KeepExisting` makes the old address differ
from the new one.

The lemmas about the list operations are:

* `AppendAddr`, `RemoveAddrProps`, `AddEnhancedProps` and
  `DelEnhancedProps`: what adding and deleting keep and change;
* `LastEnhancedType`: the listing's pick is well defined, through `NatMax`
  in `NatLemmas.tla`.

`IInv` was checked with TLC on the `addr_safety` configuration (725832
states) before it was proved.

* **`PassEnsuresEnhancedHolds`: `Spec => []PassEnsuresEnhanced`.** The
  claim of `addr_safety` holds for every instance. `IInv` is not enough,
  because the claim is about what a pass achieves. The strengthening
  `PassInv` adds what `SyncAddresses` knows of its own progress:
  * `SnapManCurrent`: the manual subnets listed at the start of the pass
    are still the link's. No step changes them (`ManualStable`).
  * `ListedPresent` and `PendingPresent`: an enhanced address that
    `existEnhancedAddrMap` listed is still on the link while its pair waits.
    The first loop deletes only for untracked pairs, and a delete for one
    subnet leaves the other subnets alone (`DelOtherSubnet`).
  * `EnsuredGood`: in a pass where no pod moved, every tracked pair the
    second loop has done is `Good`. A manual address covers it, or one of
    its enhanced addresses is wanted. Later steps of the pass keep that
    (`GoodUnchanged`, `GoodByWitness`).
  * `CleanGood`: after a clean pass every tracked pair is `Good`. That
    implies `PassEnsuresEnhanced`.

  `NextPassInv` has one case per action. `PassInv` was checked with TLC on
  the `addr_safety` configuration (725832 states) before it was proved.

## Proofs (RemoteSubnetWebhookProofs.tla)

The assumption `WebhookAssumption` says:

* ranges are integer intervals;
* requests are records over the names and ranges;
* `None` is neither a range nor a request.

The inductive invariant `IInv` holds:

* `TypeOK`;
* the lock is held by a handler exactly while it is in `decode`, `local` or
  `remote`;
* only creates are in those locations;
* a create in `remote` passed the local check.

Why these conjuncts:

* The lock conjunct is the mutual exclusion `rsLock` gives: at most one
  handler is between `Lock` and its return. It is inductive only with
  `None \notin Reqs`.
* The last conjunct is what makes the `ListRemote` step equal to the
  abstract decision: that decision checks the local subnets too.

`IInv` was checked with TLC on the `webhook_live` instance and on an instance with two
overlapping creates before the proof.

Proved:

* `WebhookTypeCorrect`: `Spec => []TypeOK`.
* `CreateExclusiveHolds`: `Spec => []CreateExclusive`, the claim of
  `webhook_live`: no two create handlers are between `rsLock.Lock` and
  their return at once. It follows from the lock conjunct of `IInv`.
* `ImplementsAdmissionSafety`: `Spec => Abstract!AInit /\ [][Abstract!ANext]_Abstract!avars`.
  There is one step per action:
  * `Lock`, `Decode` and a passing `ListLocal` are abstract stutters;
  * `CallFails`, a denying `ListLocal` and `ListRemote` are `ADecide`;
  * `Store` and `StoreFails` are `AStore`;
  * `Sync` is `ASync`.

## Proofs (PodIfaceProofs.tla)

`PodIfaceAssumption` gives the IPAM results the shape of `current.Result`:
* a list of interface names;
* a list of IP configs (`IPConfig`: interface index or nil, version,
  address, gateway or nil);
* a list of routes (`ResRoute`: destination prefix, gateway or nil).

These are the Go types the code reads. Proved for every such set of
results and every failure budget:

* **`PodIfaceTypeCorrect`: `Spec => []TypeOK`.** This is the claim of
  `podiface_configure`. The loop indices stay in `1 .. Len + 1` of their
  lists, and `sx` stays in `1 .. 3`. The failures spent stay within the
  budget: `AddResRoute` spends one only when a call was made to fail.
  `AddRouteType` shows that `AddRoute` adds only link routes without a
  gateway and universe routes via an address.
* **`SuccessAddrsHolds`: `Spec => []SuccessAddrs`.** The inductive invariant
  `AddrInv` adds three facts to `TypeOK`:
  * the link is up once `Start` has passed;
  * every IP before `i` that is meant for the interface is on it, with
    `disable_ipv6` of the interface 0 when it is IPv6 (`IPsDone(i)`);
  * the IP loop is over (`i = Len(res.ips) + 1`) once the call has moved on
    to settling or to the routes.

  `AddIP` adds the IP at `i` only when the kernel accepts it, so never an
  IPv6 one while `disable_ipv6` is 1. No step sets `disable_ipv6` back to
  1 or removes an address. `AddrInv` was checked with TLC on the
  `podiface_configure` configuration (306 states) before it was proved.

## What is only model-checked

Only model-checked, and why:

* `PassConverged` does not hold for every instance. `route_table_shared`
  shows that two subnets can be given the same table. When they are, one
  subnet's pass can rewrite the routes that the other's success left. The
  property needs conditions on the instance, such as no failures
  (`MaxFailures = 0`) and pool tables that no two subnets end up sharing.
  These are not assumptions for every value of the constants, so it stays a
  TLC check of `route_converge`'s instance.
* The violations are found by TLC.
* The calculator: `IPRange.tla` is recursive (`LargestFrom`, `MinBlocks`),
  and what a recursive definition computes for every input is out of the
  prover's reach.
* Liveness: `RequestsAnswered`, and the fairness part of
  `ImplementsAdmission`, are checked by TLC only. The engine's modules state
  no liveness property, because their driver is an external periodic loop.
* `SuccessRoutes` and `NoSpuriousFailure` of the pod-interface model do
  not hold for every IPAM result, so they are checked on the eight results
  of `podiface_configure` only.
  * A gateway that lies inside a non-default route added earlier through
    another gateway gets no direct route (`containsGW` takes a route of any
    scope), and the kernel refuses the route via it. This breaks
    `NoSpuriousFailure`.
  * A result with a /32 route to its own gateway breaks `SuccessRoutes`.
    `AddRoute` first adds the direct route to the gateway, and the route
    itself is then refused with EEXIST. `ConfigureIface` passes over that
    error and returns nil without the universe route. TLC finds this on
    that one result.

## Plan for the following work

1. An abstract "per-subnet table and rule" specification with the route
   manager shown to refine it where the findings allow.
2. A statement of `SuccessRoutes` with the condition on the result under
   which it holds (no route of the result to a gateway's own address, no
   gateway inside another route), proved for every such result.
