----------------------------- MODULE AddrManager -----------------------------
(***************************************************************************)
(* The address manager (src/unnamed/part_002) for one address family,      *)
(* with the synchronisation driver that feeds it and the cluster that      *)
(* getIPInstanceByAddress (src/unnamed/part_001) reads.                    *)
(*                                                                         *)
(* The driver calls ResetInfos, then TryAddPodInfo once per local pod,     *)
(* then SyncAddresses.  SyncAddresses lists every link's addresses, then   *)
(* deletes the enhanced addresses nobody needs (one AddrDel per step), and *)
(* then ensures one enhanced address per tracked (link, subnet) (one pair  *)
(* per step).  Go map iteration fixes no order, so the pair a step takes   *)
(* is any pending one.  Every kernel call and every lookup may fail, and   *)
(* a failure returns from SyncAddresses at once.  The cluster moves pod    *)
(* IPs between nodes at any time, in the middle of a pass too.             *)
(*                                                                         *)
(* A link's addresses are a sequence in the kernel's listing order: an     *)
(* added address comes last.  An address is [ip, enhanced]: an enhanced   *)
(* address is the link-scope, no-prefix-route kind this manager adds      *)
(* (checkIfEnhancedAddr), any other is manual.                             *)
(***************************************************************************)
EXTENDS Integers, Sequences, SequencesExt

CONSTANTS
    Links,        \* the host links (container links are skipped by the code)
    Subnets,      \* the subnets' cidrs
    PodIPs,       \* addresses the cluster hands to pods
    HostIPs,      \* addresses configured on links by others (manual)
    SubnetOf,     \* ip.Network of an address: [PodIPs \cup HostIPs -> Subnets]
    ForwardIf,    \* the forward interface of each subnet: [Subnets -> Links]
    Local,        \* this node
    Other,        \* some other node
    InitAddrs,    \* the address lists a link may hold when the daemon starts
    MaxFailures,  \* bound on injected kernel-call and lookup failures
    MaxMoves      \* bound on pod IPs changing node

None == "none"
Nodes == {Local, Other}
IP == PodIPs \cup HostIPs
Addr == [ip : IP, enhanced : BOOLEAN]

ASSUME AddrManagerAssumption ==
    /\ SubnetOf \in [IP -> Subnets] /\ ForwardIf \in [Subnets -> Links]
    /\ PodIPs \cap HostIPs = {} /\ None \notin IP \cup Nodes /\ Local # Other
    /\ InitAddrs \subseteq Seq(Addr) /\ \A q \in InitAddrs : IsInjective(q)
    /\ \A q \in InitAddrs : \A a \in ToSet(q) : a.enhanced => a.ip \in PodIPs
    /\ MaxFailures \in Nat /\ MaxMoves \in Nat

VARIABLES
    addrs,     \* addrs[l]: the addresses of link l, in listing order
    owner,     \* owner[ip]: the node whose IPInstance holds ip, or None
    tracked,   \* interfaceToSubnetMap: tracked[l][s] is a pod IP or None
    pc,        \* "idle", "collect" (driver), "cleanup", "ensure" (SyncAddresses)
    snapEnh,   \* existEnhancedAddrMap: snapEnh[l][s] is an IP or None
    snapMan,   \* existManualAddrSubnetMap: snapMan[l] is a set of subnets
    todo,      \* the (link, subnet) pairs the running loop has still to do
    result,    \* what the last SyncAddresses returned: "none" yet, "ok", "failed"
    stable,    \* no pod IP changed node since the pass began
    failures,  \* failures injected so far
    moves      \* pod IPs moved so far

vars == <<addrs, owner, tracked, pc, snapEnh, snapMan, todo, result, stable, failures, moves>>
syncVars == <<snapEnh, snapMan, todo>>

NoPods == [l \in Links |-> [s \in Subnets |-> None]]

IsTracked(l) == \E s \in Subnets : tracked[l][s] # None

Enhanced(l, s) == {a.ip : a \in {a \in ToSet(addrs[l]) : a.enhanced /\ SubnetOf[a.ip] = s}}
Manual(l) == {SubnetOf[a.ip] : a \in {a \in ToSet(addrs[l]) : ~a.enhanced}}

Init ==
    /\ addrs \in [Links -> InitAddrs]
    /\ owner \in [PodIPs -> Nodes \cup {None}]
    /\ tracked = NoPods
    /\ pc = "idle"
    /\ snapEnh = NoPods
    /\ snapMan = [l \in Links |-> {}]
    /\ todo = {}
    /\ result = "none"
    /\ stable = TRUE
    /\ failures = 0
    /\ moves = 0

-----------------------------------------------------------------------------
(* The driver.                                                             *)

\* Manager.ResetInfos: a new pass forgets every tracked pod.
ResetInfos ==
    /\ pc = "idle"
    /\ tracked' = NoPods
    /\ pc' = "collect"
    /\ stable' = TRUE
    /\ UNCHANGED <<addrs, owner, syncVars, result, failures, moves>>

\* Manager.TryAddPodInfo for a local pod: the first pod of a subnet on its
\* forward interface is kept.
TryAddPodInfo(ip) ==
    LET l == ForwardIf[SubnetOf[ip]]
        s == SubnetOf[ip]
    IN  /\ pc = "collect"
        /\ owner[ip] = Local
        /\ tracked[l][s] = None
        /\ tracked' = [tracked EXCEPT ![l][s] = ip]
        /\ UNCHANGED <<addrs, owner, pc, syncVars, result, stable, failures, moves>>

\* The driver calls SyncAddresses once every local pod has been offered.
Collected ==
    \A ip \in PodIPs :
        owner[ip] = Local => tracked[ForwardIf[SubnetOf[ip]]][SubnetOf[ip]] # None

-----------------------------------------------------------------------------
(* SyncAddresses.                                                          *)

\* The list q without its element at the first index holding a.
RemoveAddr(q, a) ==
    LET k == CHOOSE i \in DOMAIN q : q[i] = a
    IN  [i \in 1 .. Len(q) - 1 |-> IF i < k THEN q[i] ELSE q[i + 1]]

\* AddrDel of the enhanced address ip (nothing when the link lacks it).
DelEnhanced(q, ip) ==
    IF [ip |-> ip, enhanced |-> TRUE] \in ToSet(q)
    THEN RemoveAddr(q, [ip |-> ip, enhanced |-> TRUE]) ELSE q

\* Mutant: the listing keyed by link alone, so any enhanced address of the
\* link stands for every subnet.
LastEnhancedAnySubnet(l, s) ==
    LET k == SelectLastInSeq(addrs[l], LAMBDA a : a.enhanced)
    IN  IF k = 0 THEN None ELSE addrs[l][k].ip

\* existEnhancedAddrMap[l][s]: the listing overwrites the entry, so the last
\* enhanced address of the subnet in the link's list is the one kept.
LastEnhanced(l, s) ==
    LET k == SelectLastInSeq(addrs[l], LAMBDA a : a.enhanced /\ SubnetOf[a.ip] = s)
    IN  IF k = 0 THEN None ELSE addrs[l][k].ip

\* The pairs the first loop deletes the listed enhanced address of: the link
\* is not tracked, or the subnet is not tracked on it.
CleanupPairs(snap) ==
    {p \in Links \X Subnets :
        snap[p[1]][p[2]] # None /\ (~IsTracked(p[1]) \/ tracked[p[1]][p[2]] = None)}

\* Listing the links and their addresses (LinkList, AddrList,
\* checkIfEnhancedAddr) and building the maps.
ListAddrs ==
    LET snap == [l \in Links |-> [s \in Subnets |-> LastEnhanced(l, s)]]
    IN  /\ pc = "collect" /\ Collected
        /\ snapEnh' = snap
        /\ snapMan' = [l \in Links |-> Manual(l)]
        /\ todo' = CleanupPairs(snap)
        /\ pc' = "cleanup"
        /\ UNCHANGED <<addrs, owner, tracked, result, stable, failures, moves>>

\* One of the listing calls fails: nothing has changed.
ListFails ==
    /\ pc = "collect" /\ Collected /\ failures < MaxFailures
    /\ pc' = "idle" /\ result' = "failed" /\ failures' = failures + 1
    /\ UNCHANGED <<addrs, owner, tracked, syncVars, stable, moves>>

\* One AddrDel of the first loop.
CleanupDel(l, s) ==
    /\ pc = "cleanup" /\ <<l, s>> \in todo
    /\ addrs' = [addrs EXCEPT ![l] = DelEnhanced(@, snapEnh[l][s])]
    /\ todo' = todo \ {<<l, s>>}
    /\ UNCHANGED <<owner, tracked, pc, snapEnh, snapMan, result, stable, failures, moves>>

\* That AddrDel fails: SyncAddresses returns.
CleanupFails(l, s) ==
    /\ pc = "cleanup" /\ <<l, s>> \in todo /\ failures < MaxFailures
    /\ pc' = "idle" /\ result' = "failed" /\ failures' = failures + 1 /\ todo' = {}
    /\ UNCHANGED <<addrs, owner, tracked, snapEnh, snapMan, stable, moves>>

CleanupDone ==
    /\ pc = "cleanup" /\ todo = {}
    /\ pc' = "ensure"
    /\ todo' = {p \in Links \X Subnets : tracked[p[1]][p[2]] # None}
    /\ UNCHANGED <<addrs, owner, tracked, snapEnh, snapMan, result, stable, failures, moves>>

\* getIPInstanceByAddress: the node of the one IPInstance indexed by the
\* address, or None when there is none (its error returns are the lookup
\* failure of EnsureFailOutcomes).
getIPInstanceByAddress(ip) == owner[ip]

\* Mutant: any listed enhanced address is kept, without the owner lookup.
KeepAnyExisting(l, s) ==
    \/ s \in snapMan[l]
    \/ snapEnh[l][s] # None

\* The pair keeps what it has: a manual address covers the subnet, or the
\* listed enhanced address is the pod IP, or getIPInstanceByAddress still
\* places it on this node.
KeepExisting(l, s) ==
    \/ s \in snapMan[l]
    \/ /\ snapEnh[l][s] # None
       /\ \/ snapEnh[l][s] = tracked[l][s]
          \/ getIPInstanceByAddress(snapEnh[l][s]) = Local

\* Adding an enhanced address that the link already has changes nothing.
AddEnhanced(q, ip) ==
    IF [ip |-> ip, enhanced |-> TRUE] \in ToSet(q) THEN q
    ELSE Append(q, [ip |-> ip, enhanced |-> TRUE])


\* ensureSubnetEnhancedAddr (pkg/daemon/addr, outside src/): add the new
\* address, then remove the out-of-date one.
ensureSubnetEnhancedAddr(q, new, old) == DelEnhanced(AddEnhanced(q, new), old)

\* Mutant: the out-of-date address removed before the new one is added.
DeleteFirstFailOutcomes(l, s) ==
    {addrs[l]} \cup IF snapEnh[l][s] # None
                    THEN {DelEnhanced(addrs[l], snapEnh[l][s])} ELSE {}

\* What a failing call of the pair leaves on the link: LinkByName,
\* getIPInstanceByAddress or AddrAdd failing leave it as it was; the
\* removal of the out-of-date address failing leaves the new one added.
EnsureFailOutcomes(l, s) ==
    {addrs[l]} \cup IF ~KeepExisting(l, s) /\ snapEnh[l][s] # None
                    THEN {AddEnhanced(addrs[l], tracked[l][s])} ELSE {}

EnsureKept(l, s) ==
    /\ pc = "ensure" /\ <<l, s>> \in todo
    /\ KeepExisting(l, s)
    /\ todo' = todo \ {<<l, s>>}
    /\ UNCHANGED <<addrs, owner, tracked, pc, snapEnh, snapMan, result, stable, failures, moves>>

EnsureAdded(l, s) ==
    /\ pc = "ensure" /\ <<l, s>> \in todo
    /\ ~KeepExisting(l, s)
    /\ addrs' = [addrs EXCEPT ![l] = ensureSubnetEnhancedAddr(@, tracked[l][s], snapEnh[l][s])]
    /\ todo' = todo \ {<<l, s>>}
    /\ UNCHANGED <<owner, tracked, pc, snapEnh, snapMan, result, stable, failures, moves>>

EnsureFails(l, s) ==
    /\ pc = "ensure" /\ <<l, s>> \in todo /\ failures < MaxFailures
    /\ \E q \in EnsureFailOutcomes(l, s) : addrs' = [addrs EXCEPT ![l] = q]
    /\ pc' = "idle" /\ result' = "failed" /\ failures' = failures + 1 /\ todo' = {}
    /\ UNCHANGED <<owner, tracked, snapEnh, snapMan, stable, moves>>

EnsureDone ==
    /\ pc = "ensure" /\ todo = {}
    /\ pc' = "idle" /\ result' = "ok"
    /\ UNCHANGED <<addrs, owner, tracked, syncVars, stable, failures, moves>>

-----------------------------------------------------------------------------
(* The cluster: a pod IP is released, or handed to a pod of some node.     *)

MovePod(ip, n) ==
    /\ moves < MaxMoves /\ owner[ip] # n
    /\ owner' = [owner EXCEPT ![ip] = n]
    /\ moves' = moves + 1 /\ stable' = FALSE
    /\ UNCHANGED <<addrs, tracked, pc, syncVars, result, failures>>

Next ==
    \/ ResetInfos
    \/ \E ip \in PodIPs : TryAddPodInfo(ip)
    \/ ListAddrs \/ ListFails
    \/ \E l \in Links, s \in Subnets :
           CleanupDel(l, s) \/ CleanupFails(l, s)
           \/ EnsureKept(l, s) \/ EnsureAdded(l, s) \/ EnsureFails(l, s)
    \/ CleanupDone \/ EnsureDone
    \/ \E ip \in PodIPs, n \in Nodes \cup {None} : MovePod(ip, n)

Spec == Init /\ [][Next]_vars

-----------------------------------------------------------------------------
(* Properties.                                                             *)

\* A pass that returned nil while no pod moved: the state its result is
\* about.
CleanPass == pc = "idle" /\ result = "ok" /\ stable

\* The enhanced address ip of link l is wanted: its subnet is tracked on l,
\* and it is the tracked pod IP or an IP still held on this node.
Wanted(l, ip) ==
    LET s == SubnetOf[ip]
    IN  tracked[l][s] # None /\ (ip = tracked[l][s] \/ owner[ip] = Local)

\* The link's addresses never repeat one, and the address listed for a
\* subnet lies in that subnet.
TypeOK ==
    /\ addrs \in [Links -> Seq(Addr)] /\ \A l \in Links : IsInjective(addrs[l])
    /\ owner \in [PodIPs -> Nodes \cup {None}]
    /\ tracked \in [Links -> [Subnets -> PodIPs \cup {None}]]
    /\ pc \in {"idle", "collect", "cleanup", "ensure"}
    /\ \A l \in Links, s \in Subnets :
           snapEnh[l][s] \in {None} \cup {ip \in PodIPs : SubnetOf[ip] = s}
    /\ todo \subseteq Links \X Subnets
    /\ result \in {"none", "ok", "failed"}
    /\ stable \in BOOLEAN /\ failures \in 0 .. MaxFailures /\ moves \in 0 .. MaxMoves

\* SyncAddresses with getIPInstanceByAddress: after a clean pass every
\* tracked (link, subnet) without a manual address has an enhanced address
\* that is the tracked pod IP or an IP still held on this node, so ARP has
\* a sender address in the subnet.
PassEnsuresEnhanced ==
    CleanPass =>
        \A l \in Links, s \in Subnets :
            tracked[l][s] # None /\ s \notin Manual(l) =>
                \E ip \in Enhanced(l, s) : Wanted(l, ip)

\* ensureSubnetEnhancedAddr adds the new address before it removes the
\* out-of-date one: no step, failing or not, takes the last enhanced address
\* away from a tracked (link, subnet) without a manual address.
AddBeforeDelete ==
    [][\A l \in Links, s \in Subnets :
          tracked[l][s] # None /\ s \notin Manual(l) /\ Enhanced(l, s) # {}
              => Enhanced(l, s)' # {}]_vars

\* Spec sections 3 and 4.3: an enhanced address is removed when its pair is
\* no longer tracked or its IP no longer belongs to a pod of this node.  So
\* after a clean pass every enhanced address outside manual subnets is
\* wanted.
CleanPassConverged ==
    CleanPass =>
        \A l \in Links : \A s \in Subnets \ Manual(l) :
            \A ip \in Enhanced(l, s) : Wanted(l, ip)

=============================================================================
