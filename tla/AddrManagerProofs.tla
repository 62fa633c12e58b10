------------------------- MODULE AddrManagerProofs -------------------------
(***************************************************************************)
(* Proofs about the address manager (AddrManager): its type invariant,     *)
(* that no step takes the last enhanced address away from a tracked        *)
(* (link, subnet), and that no step changes the policy-route manager's    *)
(* VLAN local-subnet test (AddrLocalSubnet), for every value of the        *)
(* constants that satisfies AddrManagerAssumption.                         *)
(***************************************************************************)
EXTENDS AddrLocalSubnet, NatLemmas, TLAPS

USE AddrManagerAssumption

-----------------------------------------------------------------------------
(* Lemmas about the link address lists.                                    *)

\* Appending an address to a link's list (AddrAdd) adds exactly it.
LEMMA AppendAddr ==
    ASSUME NEW q \in Seq(Addr), NEW a \in Addr
    PROVE  /\ Append(q, a) \in Seq(Addr)
           /\ ToSet(Append(q, a)) = ToSet(q) \cup {a}
           /\ IsInjective(q) /\ a \notin ToSet(q) => IsInjective(Append(q, a))
<1>1. Append(q, a) \in Seq(Addr)
    OBVIOUS
<1>2. ToSet(Append(q, a)) = ToSet(q) \cup {a}
    <2>1. /\ DOMAIN Append(q, a) = 1 .. Len(q) + 1
          /\ \A i \in 1 .. Len(q) : Append(q, a)[i] = q[i]
          /\ Append(q, a)[Len(q) + 1] = a
        OBVIOUS
    <2>2. ToSet(Append(q, a)) \subseteq ToSet(q) \cup {a}
        BY <2>1 DEF ToSet
    <2>3. ToSet(q) \cup {a} \subseteq ToSet(Append(q, a))
        BY <2>1 DEF ToSet
    <2>. QED
        BY <2>2, <2>3
<1>3. ASSUME IsInjective(q), a \notin ToSet(q) PROVE IsInjective(Append(q, a))
    <2>1. \A i \in 1 .. Len(q) : q[i] # a
        BY <1>3 DEF ToSet
    <2>. QED
        BY <1>3, <2>1 DEF IsInjective
<1>. QED
    BY <1>1, <1>2, <1>3

\* Removing an address (AddrDel) keeps a list of addresses without
\* repetitions, loses nothing else, and adds nothing.
LEMMA RemoveAddrProps ==
    ASSUME NEW q \in Seq(Addr), NEW a \in ToSet(q)
    PROVE  /\ RemoveAddr(q, a) \in Seq(Addr)
           /\ ToSet(RemoveAddr(q, a)) \subseteq ToSet(q)
           /\ \A b \in ToSet(q) : b # a => b \in ToSet(RemoveAddr(q, a))
           /\ IsInjective(q) => IsInjective(RemoveAddr(q, a))
<1> DEFINE k == CHOOSE i \in DOMAIN q : q[i] = a
<1> DEFINE r == [i \in 1 .. Len(q) - 1 |-> IF i < k THEN q[i] ELSE q[i + 1]]
<1>1. k \in 1 .. Len(q) /\ q[k] = a
    BY DEF ToSet
<1>2. RemoveAddr(q, a) = r
    BY DEF RemoveAddr
<1>3. r \in Seq(Addr)
    BY <1>1
<1>4. ToSet(r) \subseteq ToSet(q)
    BY <1>1 DEF ToSet
<1>5. ASSUME NEW b \in ToSet(q), b # a PROVE b \in ToSet(r)
    <2>1. PICK j \in 1 .. Len(q) : q[j] = b
        BY DEF ToSet
    <2>2. j # k
        BY <1>1, <2>1, <1>5
    <2>3. CASE j < k
        <3>1. j \in 1 .. Len(q) - 1 /\ r[j] = q[j]
            BY <1>1, <2>1, <2>3
        <3>. QED
            BY <2>1, <3>1 DEF ToSet
    <2>4. CASE j > k
        <3>1. j - 1 \in 1 .. Len(q) - 1 /\ ~(j - 1 < k) /\ r[j - 1] = q[j]
            BY <1>1, <2>1, <2>4
        <3>. QED
            BY <2>1, <3>1 DEF ToSet
    <2>. QED
        BY <2>2, <2>3, <2>4, <1>1
<1>6. IsInjective(q) => IsInjective(r)
    BY <1>1 DEF IsInjective
<1>. QED
    BY <1>2, <1>3, <1>4, <1>5, <1>6

\* AddrDel of an enhanced address keeps the list a list of addresses without
\* repetitions and takes away that address alone.
LEMMA DelEnhancedProps ==
    ASSUME NEW q \in Seq(Addr), IsInjective(q), NEW ip
    PROVE  /\ DelEnhanced(q, ip) \in Seq(Addr)
           /\ IsInjective(DelEnhanced(q, ip))
           /\ ToSet(DelEnhanced(q, ip)) \subseteq ToSet(q)
           /\ \A b \in ToSet(q) :
                  b # [ip |-> ip, enhanced |-> TRUE] => b \in ToSet(DelEnhanced(q, ip))
<1>1. CASE [ip |-> ip, enhanced |-> TRUE] \in ToSet(q)
    BY <1>1, RemoveAddrProps DEF DelEnhanced
<1>2. CASE [ip |-> ip, enhanced |-> TRUE] \notin ToSet(q)
    BY <1>2 DEF DelEnhanced
<1>. QED
    BY <1>1, <1>2

\* Adding an enhanced address of a pod IP (AddrAdd, skipped when present)
\* keeps the list without repetitions and adds that address alone.
LEMMA AddEnhancedProps ==
    ASSUME NEW q \in Seq(Addr), IsInjective(q), NEW ip \in IP
    PROVE  /\ AddEnhanced(q, ip) \in Seq(Addr)
           /\ IsInjective(AddEnhanced(q, ip))
           /\ ToSet(AddEnhanced(q, ip)) = ToSet(q) \cup {[ip |-> ip, enhanced |-> TRUE]}
<1>1. [ip |-> ip, enhanced |-> TRUE] \in Addr
    BY DEF Addr
<1>2. CASE [ip |-> ip, enhanced |-> TRUE] \in ToSet(q)
    BY <1>2 DEF AddEnhanced
<1>3. CASE [ip |-> ip, enhanced |-> TRUE] \notin ToSet(q)
    BY <1>1, <1>3, AppendAddr DEF AddEnhanced
<1>. QED
    BY <1>2, <1>3

\* The enhanced address of ip, as AddrAdd puts it on a link.
EA(ip) == [ip |-> ip, enhanced |-> TRUE]

\* An enhanced entry of a list of addresses is the enhanced address of its
\* IP.
LEMMA EnhancedEntry ==
    ASSUME NEW q \in Seq(Addr), NEW k \in 1 .. Len(q), q[k].enhanced
    PROVE  q[k] = EA(q[k].ip)
<1>1. q[k] \in Addr
    OBVIOUS
<1>. QED
    BY <1>1 DEF Addr, EA

\* The address existEnhancedAddrMap keeps for a subnet (the last enhanced
\* address of the subnet in the listing) is a pod IP of that subnet whose
\* enhanced address is on the link.
LEMMA LastEnhancedType ==
    ASSUME NEW l \in Links, NEW s \in Subnets, addrs[l] \in Seq(Addr),
           \A a \in ToSet(addrs[l]) : a.enhanced => a.ip \in PodIPs
    PROVE  /\ LastEnhanced(l, s) \in {None} \cup {ip \in PodIPs : SubnetOf[ip] = s}
           /\ LastEnhanced(l, s) # None => EA(LastEnhanced(l, s)) \in ToSet(addrs[l])
<1> DEFINE q == addrs[l]
<1> DEFINE I == {i \in 1 .. Len(q) : q[i].enhanced /\ SubnetOf[q[i].ip] = s}
<1>1. CASE I = {}
    BY <1>1 DEF LastEnhanced, SelectLastInSeq, I, q
<1>2. CASE I # {}
    <2>0. Len(q) \in Nat /\ I \in SUBSET (1 .. Len(q))
        BY DEF I, q
    <2>1. \E x \in I : \A y \in I : y <= x
        BY <1>2, <2>0, NatMax
    <2>2. Max(I) \in I
        BY <2>1 DEF Max
    <2>3. SelectLastInSeq(q, LAMBDA a : a.enhanced /\ SubnetOf[a.ip] = s) = Max(I)
        BY <1>2, Zenon DEF SelectLastInSeq, I
    <2>4. Max(I) \in 1 .. Len(q)
        BY <2>0, <2>2, Zenon
    <2>5. Max(I) # 0
        BY <2>4
    <2>6. LastEnhanced(l, s) = q[Max(I)].ip
        BY <2>3, <2>5, Zenon DEF LastEnhanced, q
    <2>7. Max(I) \in DOMAIN q
        BY <2>4 DEF q
    <2>8. q[Max(I)] \in ToSet(q)
        BY <2>7, Zenon DEF ToSet
    <2>9. q[Max(I)] = EA(q[Max(I)].ip)
        <3>1. q[Max(I)].enhanced
            BY <2>2, Zenon DEF I
        <3>. QED
            BY <2>4, <3>1, EnhancedEntry DEF q
    <2>. QED
        BY <2>2, <2>6, <2>8, <2>9 DEF I, q
<1>. QED
    BY <1>1, <1>2

-----------------------------------------------------------------------------
(* The inductive invariant.                                                *)

\* TypeOK strengthened: enhanced addresses are pod IPs, a tracked pod IP
\* lies in its subnet, the first loop only deletes for untracked pairs, and
\* the second loop only works on tracked ones.
IInv ==
    /\ TypeOK
    /\ \A l \in Links : \A a \in ToSet(addrs[l]) : a.enhanced => a.ip \in PodIPs
    /\ \A l \in Links, s \in Subnets :
           tracked[l][s] = None \/ SubnetOf[tracked[l][s]] = s
    /\ pc = "cleanup" => \A p \in todo : tracked[p[1]][p[2]] = None
    /\ pc = "ensure" => \A p \in todo : tracked[p[1]][p[2]] # None

\* The initial state satisfies the inductive invariant.
THEOREM InitIInv == Init => IInv
<1> SUFFICES ASSUME Init PROVE IInv
    OBVIOUS
<1>1. addrs \in [Links -> Seq(Addr)] /\ \A l \in Links : IsInjective(addrs[l])
    BY DEF Init
<1>2. /\ owner \in [PodIPs -> Nodes \cup {None}]
      /\ tracked \in [Links -> [Subnets -> PodIPs \cup {None}]]
      /\ pc \in {"idle", "collect", "cleanup", "ensure"}
      /\ \A l \in Links, s \in Subnets :
             snapEnh[l][s] \in {None} \cup {ip \in PodIPs : SubnetOf[ip] = s}
      /\ todo \subseteq Links \X Subnets
      /\ result \in {"none", "ok", "failed"}
      /\ stable \in BOOLEAN /\ failures \in 0 .. MaxFailures /\ moves \in 0 .. MaxMoves
    BY DEF Init, NoPods
<1>3. \A l \in Links : \A a \in ToSet(addrs[l]) : a.enhanced => a.ip \in PodIPs
    BY DEF Init
<1>4. \A l \in Links, s \in Subnets : tracked[l][s] = None \/ SubnetOf[tracked[l][s]] = s
    BY DEF Init, NoPods
<1>5. pc = "idle"
    BY DEF Init
<1>. QED
    BY <1>1, <1>2, <1>3, <1>4, <1>5 DEF IInv, TypeOK

\* A step that replaces link l's list by q keeps the address conjuncts of
\* IInv when q is a list of addresses without repetitions whose enhanced
\* addresses are pod IPs.
LEMMA NewList ==
    ASSUME IInv, NEW l \in Links, NEW q \in Seq(Addr), IsInjective(q),
           \A a \in ToSet(q) : a.enhanced => a.ip \in PodIPs,
           addrs' = [addrs EXCEPT ![l] = q]
    PROVE  /\ addrs' \in [Links -> Seq(Addr)] /\ \A m \in Links : IsInjective(addrs'[m])
           /\ \A m \in Links : \A a \in ToSet(addrs'[m]) : a.enhanced => a.ip \in PodIPs
BY DEF IInv, TypeOK

\* A pair the second loop has still to do is tracked, by a pod IP of its
\* subnet.
LEMMA TrackedOf ==
    ASSUME IInv, NEW l \in Links, NEW s \in Subnets, pc = "ensure", <<l, s>> \in todo
    PROVE  /\ tracked[l][s] \in PodIPs /\ tracked[l][s] \in IP
           /\ SubnetOf[tracked[l][s]] = s
<1>1. tracked[l][s] # None
    BY DEF IInv
<1>2. tracked[l][s] \in PodIPs \cup {None}
    BY DEF IInv, TypeOK
<1>3. tracked[l][s] = None \/ SubnetOf[tracked[l][s]] = s
    BY DEF IInv
<1>. QED
    BY <1>1, <1>2, <1>3 DEF IP

\* Replacing the list of one link leaves the other links' lists alone.
LEMMA OtherLink ==
    ASSUME IInv, NEW l0 \in Links, NEW l \in Links, l0 # l, NEW q,
           addrs' = [addrs EXCEPT ![l0] = q]
    PROVE  addrs'[l] = addrs[l]
BY DEF IInv, TypeOK

\* A step of the second loop that puts a good list on one link and only
\* takes pairs from todo keeps IInv.
LEMMA EnsureStep ==
    ASSUME IInv, NEW l \in Links, NEW q \in Seq(Addr), IsInjective(q),
           \A a \in ToSet(q) : a.enhanced => a.ip \in PodIPs,
           addrs' = [addrs EXCEPT ![l] = q], todo' \subseteq todo,
           UNCHANGED <<owner, tracked, pc, snapEnh, snapMan, result, stable, failures, moves>>
    PROVE  IInv'
<1>1. /\ addrs' \in [Links -> Seq(Addr)] /\ \A m \in Links : IsInjective(addrs'[m])
      /\ \A m \in Links : \A a \in ToSet(addrs'[m]) : a.enhanced => a.ip \in PodIPs
    BY NewList
<1>. QED
    BY <1>1 DEF IInv, TypeOK

\* Every step keeps the inductive invariant.
THEOREM NextIInv == IInv /\ [Next]_vars => IInv'
<1> SUFFICES ASSUME IInv, [Next]_vars PROVE IInv'
    OBVIOUS
<1>1. CASE ResetInfos
    BY <1>1 DEF ResetInfos, syncVars, NoPods, IInv, TypeOK
<1>2. ASSUME NEW ip \in PodIPs, TryAddPodInfo(ip) PROVE IInv'
    <2> DEFINE s == SubnetOf[ip]
    <2> DEFINE l == ForwardIf[s]
    <2>1. s \in Subnets /\ l \in Links
        BY DEF IP
    <2>2. tracked' = [tracked EXCEPT ![l][s] = ip]
        BY <1>2 DEF TryAddPodInfo
    <2>3. UNCHANGED <<addrs, owner, pc, snapEnh, snapMan, todo, result, stable, failures, moves>>
        BY <1>2 DEF TryAddPodInfo, syncVars
    <2>4. tracked' \in [Links -> [Subnets -> PodIPs \cup {None}]]
        BY <2>1, <2>2 DEF IInv, TypeOK
    <2>5. \A m \in Links, t \in Subnets : tracked'[m][t] = None \/ SubnetOf[tracked'[m][t]] = t
        BY <2>1, <2>2 DEF IInv, TypeOK
    <2>6. pc = "collect"
        BY <1>2 DEF TryAddPodInfo
    <2>. QED
        BY <2>3, <2>4, <2>5, <2>6 DEF IInv, TypeOK
<1>3. CASE ListAddrs
    <2>1. \A l \in Links, s \in Subnets :
              snapEnh'[l][s] \in {None} \cup {ip \in PodIPs : SubnetOf[ip] = s}
        BY <1>3, LastEnhancedType DEF ListAddrs, IInv, TypeOK
    <2>2. /\ todo' \subseteq Links \X Subnets
          /\ \A p \in todo' : tracked'[p[1]][p[2]] = None
        BY <1>3 DEF ListAddrs, CleanupPairs, IsTracked
    <2>. QED
        BY <1>3, <2>1, <2>2 DEF ListAddrs, IInv, TypeOK
<1>4. CASE ListFails
    BY <1>4 DEF ListFails, syncVars, IInv, TypeOK
<1>5. ASSUME NEW l \in Links, NEW s \in Subnets, CleanupDel(l, s) PROVE IInv'
    <2>1. /\ DelEnhanced(addrs[l], snapEnh[l][s]) \in Seq(Addr)
          /\ IsInjective(DelEnhanced(addrs[l], snapEnh[l][s]))
          /\ ToSet(DelEnhanced(addrs[l], snapEnh[l][s])) \subseteq ToSet(addrs[l])
        BY DelEnhancedProps DEF IInv, TypeOK
    <2>2. addrs' = [addrs EXCEPT ![l] = DelEnhanced(addrs[l], snapEnh[l][s])]
        BY <1>5 DEF CleanupDel
    <2>3. \A a \in ToSet(DelEnhanced(addrs[l], snapEnh[l][s])) :
              a.enhanced => a.ip \in PodIPs
        BY <2>1 DEF IInv
    <2>. QED
        BY <1>5, <2>1, <2>2, <2>3, NewList DEF CleanupDel, IInv, TypeOK
<1>6. ASSUME NEW l \in Links, NEW s \in Subnets, CleanupFails(l, s) PROVE IInv'
    BY <1>6 DEF CleanupFails, IInv, TypeOK
<1>7. CASE CleanupDone
    BY <1>7 DEF CleanupDone, IInv, TypeOK
<1>8. ASSUME NEW l \in Links, NEW s \in Subnets, EnsureKept(l, s) PROVE IInv'
    BY <1>8 DEF EnsureKept, IInv, TypeOK
<1>9. ASSUME NEW l \in Links, NEW s \in Subnets, EnsureAdded(l, s) PROVE IInv'
    <2> DEFINE q1 == AddEnhanced(addrs[l], tracked[l][s])
    <2> DEFINE q2 == DelEnhanced(q1, snapEnh[l][s])
    <2>1. tracked[l][s] \in PodIPs
        BY <1>9, TrackedOf DEF EnsureAdded
    <2>2. /\ q1 \in Seq(Addr) /\ IsInjective(q1)
          /\ ToSet(q1) = ToSet(addrs[l]) \cup {[ip |-> tracked[l][s], enhanced |-> TRUE]}
        BY <2>1, AddEnhancedProps DEF IInv, TypeOK, IP, q1
    <2>3. q2 \in Seq(Addr) /\ IsInjective(q2) /\ ToSet(q2) \subseteq ToSet(q1)
        BY <2>2, DelEnhancedProps DEF q2
    <2>4. \A a \in ToSet(q2) : a.enhanced => a.ip \in PodIPs
        BY <2>1, <2>2, <2>3 DEF IInv
    <2>5. addrs' = [addrs EXCEPT ![l] = q2]
        BY <1>9 DEF EnsureAdded, ensureSubnetEnhancedAddr, q1, q2
    <2>6. todo' \subseteq todo
          /\ UNCHANGED <<owner, tracked, pc, snapEnh, snapMan, result, stable, failures, moves>>
        BY <1>9 DEF EnsureAdded
    <2>. QED
        BY <2>3, <2>4, <2>5, <2>6, EnsureStep
<1>10. ASSUME NEW l \in Links, NEW s \in Subnets, EnsureFails(l, s) PROVE IInv'
    <2>1. PICK q \in EnsureFailOutcomes(l, s) : addrs' = [addrs EXCEPT ![l] = q]
        BY <1>10 DEF EnsureFails
    <2>2. tracked[l][s] \in PodIPs
        BY <1>10, TrackedOf DEF EnsureFails
    <2>3. /\ q \in Seq(Addr) /\ IsInjective(q)
          /\ \A a \in ToSet(q) : a.enhanced => a.ip \in PodIPs
        <3>1. CASE q = addrs[l]
            BY <3>1 DEF IInv, TypeOK
        <3>2. CASE q = AddEnhanced(addrs[l], tracked[l][s])
            <4>1. /\ q \in Seq(Addr) /\ IsInjective(q)
                  /\ ToSet(q) = ToSet(addrs[l]) \cup {[ip |-> tracked[l][s], enhanced |-> TRUE]}
                BY <2>2, <3>2, AddEnhancedProps DEF IInv, TypeOK, IP
            <4>. QED
                BY <2>2, <4>1 DEF IInv
        <3>. QED
            BY <2>1, <3>1, <3>2 DEF EnsureFailOutcomes
    <2>4. /\ addrs' \in [Links -> Seq(Addr)] /\ \A m \in Links : IsInjective(addrs'[m])
          /\ \A m \in Links : \A a \in ToSet(addrs'[m]) : a.enhanced => a.ip \in PodIPs
        BY <2>1, <2>3, NewList
    <2>5. /\ pc' = "idle" /\ result' = "failed" /\ failures' = failures + 1 /\ todo' = {}
          /\ failures < MaxFailures
          /\ UNCHANGED <<owner, tracked, snapEnh, snapMan, stable, moves>>
        BY <1>10 DEF EnsureFails
    <2>. QED
        BY <2>4, <2>5 DEF IInv, TypeOK
<1>11. CASE EnsureDone
    BY <1>11 DEF EnsureDone, syncVars, IInv, TypeOK
<1>12. ASSUME NEW ip \in PodIPs, NEW n \in Nodes \cup {None}, MovePod(ip, n) PROVE IInv'
    <2>1. UNCHANGED <<addrs, tracked, pc, snapEnh, snapMan, todo, result, failures>>
        BY <1>12 DEF MovePod, syncVars
    <2>4. owner \in [PodIPs -> Nodes \cup {None}]
        BY DEF IInv, TypeOK
    <2>5. owner' = [owner EXCEPT ![ip] = n]
        BY <1>12 DEF MovePod
    <2>2. owner' \in [PodIPs -> Nodes \cup {None}]
        BY <2>4, <2>5, Zenon
    <2>6. moves \in 0 .. MaxMoves
        BY DEF IInv, TypeOK
    <2>7. moves < MaxMoves /\ moves' = moves + 1 /\ stable' = FALSE
        BY <1>12 DEF MovePod
    <2>3. moves' \in 0 .. MaxMoves
        BY <2>6, <2>7
    <2>8. stable' \in BOOLEAN
        BY <2>7, Zenon
    <2>. QED
        BY <2>1, <2>2, <2>3, <2>8 DEF IInv, TypeOK
<1>13. CASE UNCHANGED vars
    BY <1>13 DEF vars, IInv, TypeOK
<1>. QED
    BY <1>1, <1>2, <1>3, <1>4, <1>5, <1>6, <1>7, <1>8, <1>9, <1>10, <1>11,
       <1>12, <1>13 DEF Next

-----------------------------------------------------------------------------
(* Add before delete.                                                      *)

\* List q holds an enhanced address of subnet s.
HasEnhanced(q, s) == \E a \in ToSet(q) : a.enhanced /\ SubnetOf[a.ip] = s

\* No step of the daemon or the cluster takes the last enhanced address
\* away from a tracked (link, subnet): the first loop of SyncAddresses only
\* deletes for untracked pairs, and ensureSubnetEnhancedAddr removes the old
\* address only after the new one, of the same subnet, is in.
LEMMA StepKeepsEnhanced ==
    ASSUME IInv, [Next]_vars, NEW l \in Links, NEW s \in Subnets,
           tracked[l][s] # None, HasEnhanced(addrs[l], s)
    PROVE  HasEnhanced(addrs'[l], s)
<1>1. PICK a \in ToSet(addrs[l]) : a.enhanced /\ SubnetOf[a.ip] = s
    BY DEF HasEnhanced
<1>2. addrs[l] \in Seq(Addr)
    BY DEF IInv, TypeOK
<1>3. a \in Addr
    BY <1>1, <1>2 DEF ToSet
<1>4. a \in Addr /\ a.ip \in IP
    BY <1>3, Zenon DEF Addr
<1>5. CASE addrs'[l] = addrs[l]
    BY <1>1, <1>5 DEF HasEnhanced
<1>6. ASSUME NEW l0 \in Links, NEW s0 \in Subnets, CleanupDel(l0, s0)
      PROVE  HasEnhanced(addrs'[l], s)
    <2>1. CASE l0 # l
        BY <1>5, <1>6, <2>1 DEF CleanupDel
    <2>2. CASE l0 = l
        <3>1. addrs'[l] = DelEnhanced(addrs[l], snapEnh[l][s0])
            BY <1>6, <2>2 DEF CleanupDel, IInv, TypeOK
        <3>2. CASE snapEnh[l][s0] = a.ip
            <4>1. a.ip # None /\ SubnetOf[a.ip] = s0
                BY <1>4, <3>2 DEF IInv, TypeOK
            <4>2. s0 = s
                BY <1>1, <4>1
            <4>3. tracked[l][s] = None
                BY <1>6, <2>2, <4>2 DEF CleanupDel, IInv
            <4>. QED
                BY <4>3
        <3>3. CASE snapEnh[l][s0] # a.ip
            <4>1. a # [ip |-> snapEnh[l][s0], enhanced |-> TRUE]
                BY <3>3
            <4>2. a \in ToSet(addrs'[l])
                BY <3>1, <4>1, DelEnhancedProps DEF IInv, TypeOK
            <4>. QED
                BY <1>1, <4>2 DEF HasEnhanced
        <3>. QED
            BY <3>2, <3>3
    <2>. QED
        BY <2>1, <2>2
<1>7. ASSUME NEW l0 \in Links, NEW s0 \in Subnets, EnsureAdded(l0, s0)
      PROVE  HasEnhanced(addrs'[l], s)
    <2>1. CASE l0 # l
        <3>1. addrs'[l] = addrs[l]
            BY <1>7, <2>1, OtherLink DEF EnsureAdded
        <3>. QED
            BY <1>5, <3>1
    <2>2. CASE l0 = l
        <3> DEFINE t == tracked[l][s0]
        <3> DEFINE o == snapEnh[l][s0]
        <3> DEFINE q1 == AddEnhanced(addrs[l], t)
        <3>1. t \in PodIPs /\ SubnetOf[t] = s0
            BY <1>7, <2>2, TrackedOf DEF EnsureAdded
        <3>2. /\ q1 \in Seq(Addr) /\ IsInjective(q1)
              /\ ToSet(q1) = ToSet(addrs[l]) \cup {[ip |-> t, enhanced |-> TRUE]}
            BY <3>1, AddEnhancedProps DEF IInv, TypeOK, IP, q1
        <3>3. addrs'[l] = DelEnhanced(q1, o)
            BY <1>7, <2>2 DEF EnsureAdded, ensureSubnetEnhancedAddr, IInv, TypeOK, q1, t, o
        <3>4. \A b \in ToSet(q1) :
                  b # [ip |-> o, enhanced |-> TRUE] => b \in ToSet(addrs'[l])
            BY <3>2, <3>3, DelEnhancedProps
        <3>5. CASE a.ip # o
            BY <1>1, <3>2, <3>4, <3>5 DEF HasEnhanced
        <3>6. CASE a.ip = o
            <4>1. o # None /\ SubnetOf[o] = s0
                BY <1>4, <3>6 DEF IInv, TypeOK, o
            <4>2. s0 = s
                BY <1>1, <3>6, <4>1
            <4>3. o # t
                BY <1>7, <2>2, <4>1 DEF EnsureAdded, KeepExisting, o, t
            <4>4. [ip |-> t, enhanced |-> TRUE] \in ToSet(addrs'[l])
                BY <3>2, <3>4, <4>3
            <4>. QED
                BY <3>1, <4>2, <4>4 DEF HasEnhanced
        <3>. QED
            BY <3>5, <3>6
    <2>. QED
        BY <2>1, <2>2
<1>8. ASSUME NEW l0 \in Links, NEW s0 \in Subnets, EnsureFails(l0, s0)
      PROVE  HasEnhanced(addrs'[l], s)
    <2>1. PICK q \in EnsureFailOutcomes(l0, s0) : addrs' = [addrs EXCEPT ![l0] = q]
        BY <1>8 DEF EnsureFails
    <2>2. CASE l0 # l
        BY <1>5, <2>1, <2>2
    <2>3. CASE l0 = l
        <3>1. tracked[l][s0] \in PodIPs
            BY <1>8, <2>3 DEF EnsureFails, IInv, TypeOK
        <3>2. ToSet(addrs[l]) \subseteq ToSet(q)
            <4>1. CASE q = addrs[l]
                BY <4>1
            <4>2. CASE q = AddEnhanced(addrs[l], tracked[l][s0])
                BY <3>1, <4>2, AddEnhancedProps DEF IInv, TypeOK, IP
            <4>. QED
                BY <2>1, <2>3, <4>1, <4>2 DEF EnsureFailOutcomes
        <3>3. addrs'[l] = q
            BY <2>1, <2>3 DEF IInv, TypeOK
        <3>. QED
            BY <1>1, <3>2, <3>3 DEF HasEnhanced
    <2>. QED
        BY <2>2, <2>3
<1>9. CASE ~\E l0 \in Links, s0 \in Subnets :
              CleanupDel(l0, s0) \/ EnsureAdded(l0, s0) \/ EnsureFails(l0, s0)
    <2>1. addrs' = addrs
        BY <1>9 DEF Next, vars, ResetInfos, TryAddPodInfo, ListAddrs, ListFails,
                    CleanupFails, CleanupDone, EnsureKept, EnsureDone, MovePod
    <2>. QED
        BY <1>5, <2>1
<1>. QED
    BY <1>6, <1>7, <1>8, <1>9

-----------------------------------------------------------------------------
(* The theorems.                                                           *)

\* IInv holds in every state of every behaviour.
THEOREM IInvInvariant == Spec => []IInv
BY InitIInv, NextIInv, PTL DEF Spec

\* Type correctness of the address manager: a link's addresses never repeat
\* one (AddrAdd is skipped for a present address, AddrDel removes one), and
\* the enhanced address existEnhancedAddrMap lists for a subnet is a pod IP
\* of that subnet.
THEOREM AddrTypeCorrect == Spec => []TypeOK
<1>1. IInv => TypeOK
    BY DEF IInv
<1>. QED
    BY <1>1, IInvInvariant, PTL

\* ensureSubnetEnhancedAddr adds the new address before it removes the
\* out-of-date one, and the first loop of SyncAddresses deletes only for
\* untracked pairs: no step, failing or not, takes the last enhanced address
\* away from a tracked (link, subnet) without a manual address.
THEOREM AddBeforeDeleteHolds == Spec => AddBeforeDelete
<1>1. ASSUME IInv, [Next]_vars
      PROVE  \A l \in Links, s \in Subnets :
                 tracked[l][s] # None /\ s \notin Manual(l) /\ Enhanced(l, s) # {}
                     => Enhanced(l, s)' # {}
    <2> SUFFICES ASSUME NEW l \in Links, NEW s \in Subnets,
                        tracked[l][s] # None, Enhanced(l, s) # {}
                 PROVE  Enhanced(l, s)' # {}
        OBVIOUS
    <2>1. HasEnhanced(addrs[l], s)
        BY DEF Enhanced, HasEnhanced
    <2>2. HasEnhanced(addrs'[l], s)
        BY <1>1, <2>1, StepKeepsEnhanced
    <2>3. PICK a \in ToSet(addrs'[l]) : a.enhanced /\ SubnetOf[a.ip] = s
        BY <2>2 DEF HasEnhanced
    <2>4. a.ip \in Enhanced(l, s)'
        BY <2>3, Zenon DEF Enhanced
    <2>. QED
        BY <2>4
<1>. QED
    BY <1>1, IInvInvariant, PTL DEF AddBeforeDelete, Spec

-----------------------------------------------------------------------------
(* The manual addresses, and the VLAN local-subnet test.                   *)

\* The addresses of a list that the address manager did not add.
ManualAddrs(q) == {a \in ToSet(q) : ~a.enhanced}

\* AddrDel of an enhanced address leaves the manual addresses alone.
LEMMA DelKeepsManual ==
    ASSUME NEW q \in Seq(Addr), IsInjective(q), NEW ip
    PROVE  ManualAddrs(DelEnhanced(q, ip)) = ManualAddrs(q)
<1>1. ToSet(DelEnhanced(q, ip)) \subseteq ToSet(q)
    BY DelEnhancedProps
<1>2. \A b \in ToSet(q) : ~b.enhanced => b \in ToSet(DelEnhanced(q, ip))
    <2> SUFFICES ASSUME NEW b \in ToSet(q), ~b.enhanced
                 PROVE  b \in ToSet(DelEnhanced(q, ip))
        OBVIOUS
    <2>1. b # [ip |-> ip, enhanced |-> TRUE]
        OBVIOUS
    <2>. QED
        BY <2>1, DelEnhancedProps
<1>. QED
    BY <1>1, <1>2 DEF ManualAddrs

\* AddrAdd of an enhanced address leaves the manual addresses alone.
LEMMA AddKeepsManual ==
    ASSUME NEW q \in Seq(Addr), IsInjective(q), NEW ip \in IP
    PROVE  ManualAddrs(AddEnhanced(q, ip)) = ManualAddrs(q)
BY AddEnhancedProps DEF ManualAddrs

\* No step of the address manager, its driver or the cluster changes the
\* manual addresses of a link.
LEMMA StepKeepsManual ==
    ASSUME IInv, [Next]_vars, NEW l \in Links
    PROVE  ManualAddrs(addrs'[l]) = ManualAddrs(addrs[l])
<1>0. addrs[l] \in Seq(Addr) /\ IsInjective(addrs[l])
    BY DEF IInv, TypeOK
<1>1. CASE addrs'[l] = addrs[l]
    BY <1>1
<1>2. ASSUME NEW l0 \in Links, NEW s0 \in Subnets, CleanupDel(l0, s0)
      PROVE  ManualAddrs(addrs'[l]) = ManualAddrs(addrs[l])
    <2>1. CASE l0 # l
        BY <1>1, <1>2, <2>1 DEF CleanupDel
    <2>2. CASE l0 = l
        <3>1. addrs'[l] = DelEnhanced(addrs[l], snapEnh[l][s0])
            BY <1>2, <2>2 DEF CleanupDel, IInv, TypeOK
        <3>. QED
            BY <1>0, <3>1, DelKeepsManual
    <2>. QED
        BY <2>1, <2>2
<1>3. ASSUME NEW l0 \in Links, NEW s0 \in Subnets, EnsureAdded(l0, s0)
      PROVE  ManualAddrs(addrs'[l]) = ManualAddrs(addrs[l])
    <2>1. CASE l0 # l
        BY <1>1, <1>3, <2>1 DEF EnsureAdded
    <2>2. CASE l0 = l
        <3> DEFINE t == tracked[l][s0]
        <3> DEFINE q1 == AddEnhanced(addrs[l], t)
        <3>1. t \in IP
            BY <1>0, <1>3, <2>2, TrackedOf DEF EnsureAdded
        <3>2. q1 \in Seq(Addr) /\ IsInjective(q1) /\ ManualAddrs(q1) = ManualAddrs(addrs[l])
            BY <1>0, <3>1, AddEnhancedProps, AddKeepsManual DEF q1
        <3>3. addrs'[l] = DelEnhanced(q1, snapEnh[l][s0])
            BY <1>3, <2>2 DEF EnsureAdded, ensureSubnetEnhancedAddr, IInv, TypeOK, q1, t
        <3>. QED
            BY <3>2, <3>3, DelKeepsManual
    <2>. QED
        BY <2>1, <2>2
<1>4. ASSUME NEW l0 \in Links, NEW s0 \in Subnets, EnsureFails(l0, s0)
      PROVE  ManualAddrs(addrs'[l]) = ManualAddrs(addrs[l])
    <2>1. PICK q \in EnsureFailOutcomes(l0, s0) : addrs' = [addrs EXCEPT ![l0] = q]
        BY <1>4 DEF EnsureFails
    <2>2. CASE l0 # l
        BY <1>1, <2>1, <2>2
    <2>3. CASE l0 = l
        <3>1. tracked[l][s0] \in IP
            BY <1>0, <1>4, <2>3, TrackedOf DEF EnsureFails
        <3>2. addrs'[l] = q
            BY <2>1, <2>3 DEF IInv, TypeOK
        <3>3. CASE q = addrs[l]
            BY <3>2, <3>3
        <3>4. CASE q = AddEnhanced(addrs[l], tracked[l][s0])
            BY <1>0, <3>1, <3>2, <3>4, AddKeepsManual
        <3>. QED
            BY <2>1, <2>3, <3>3, <3>4 DEF EnsureFailOutcomes
    <2>. QED
        BY <2>2, <2>3
<1>5. CASE ~\E l0 \in Links, s0 \in Subnets :
              CleanupDel(l0, s0) \/ EnsureAdded(l0, s0) \/ EnsureFails(l0, s0)
    <2>1. addrs' = addrs
        BY <1>5 DEF Next, vars, ResetInfos, TryAddPodInfo, ListAddrs, ListFails,
                    CleanupFails, CleanupDone, EnsureKept, EnsureDone, MovePod
    <2>. QED
        BY <1>1, <2>1
<1>. QED
    BY <1>2, <1>3, <1>4, <1>5

\* The VLAN test of ensureRoutesForVlanSubnet passes over the addresses with
\* IFA_F_NOPREFIXROUTE, which are exactly those the address manager adds
\* and deletes: no step of the address manager, its driver or the cluster
\* changes which subnets the policy-route manager takes for local.
THEOREM LocalSubnetStableHolds == Spec => LocalSubnetStable
<1>1. ASSUME IInv, [Next]_vars
      PROVE  \A s \in Subnets : isLocalSubnet(s)' = isLocalSubnet(s)
    <2> SUFFICES ASSUME NEW s \in Subnets
                 PROVE  isLocalSubnet(s)' = isLocalSubnet(s)
        OBVIOUS
    <2>1. \A l \in Links : ManualAddrs(addrs'[l]) = ManualAddrs(addrs[l])
        BY <1>1, StepKeepsManual
    <2>2. isLocalSubnet(s) = \E l \in Links : \E a \in ManualAddrs(addrs[l]) : SubnetOf[a.ip] = s
        BY DEF isLocalSubnet, NoPrefixRoute, ManualAddrs
    <2>3. isLocalSubnet(s)' = \E l \in Links : \E a \in ManualAddrs(addrs'[l]) : SubnetOf[a.ip] = s
        BY DEF isLocalSubnet, NoPrefixRoute, ManualAddrs
    <2>. QED
        BY <2>1, <2>2, <2>3
<1>. QED
    BY <1>1, IInvInvariant, PTL DEF LocalSubnetStable, Spec

-----------------------------------------------------------------------------
(* A clean pass leaves an enhanced address for every tracked pair.        *)

\* The enhanced address existEnhancedAddrMap listed for a pair, if any, is
\* a pod IP of the pair's subnet, and so is its EA entry's ip.
LEMMA SnapEnhRange ==
    ASSUME IInv, NEW l \in Links, NEW s \in Subnets
    PROVE  /\ snapEnh[l][s] \in {None} \cup {x \in PodIPs : SubnetOf[x] = s}
           /\ snapEnh[l][s] # None => SubnetOf[EA(snapEnh[l][s]).ip] = s
<1>1. snapEnh[l][s] \in {None} \cup {x \in PodIPs : SubnetOf[x] = s}
    BY DEF IInv, TypeOK
<1>. QED
    BY <1>1 DEF EA

\* The pair (l, s) has what PassEnsuresEnhanced asks of it: a manual
\* address covers the subnet, or one of its enhanced addresses is wanted.
Good(l, s) == s \in Manual(l) \/ \E ip \in Enhanced(l, s) : Wanted(l, ip)

\* The manual subnets SyncAddresses listed are still the link's.
SnapManCurrent ==
    pc \in {"cleanup", "ensure"} => \A l \in Links : snapMan[l] = Manual(l)

\* During the first loop, the enhanced address listed for a tracked pair is
\* still on the link.
ListedPresent ==
    pc = "cleanup" =>
        \A l \in Links, s \in Subnets :
            tracked[l][s] # None /\ snapEnh[l][s] # None =>
                EA(snapEnh[l][s]) \in ToSet(addrs[l])

\* During the second loop, the same for every pair still to do.
PendingPresent ==
    pc = "ensure" =>
        \A p \in todo : snapEnh[p[1]][p[2]] # None =>
            EA(snapEnh[p[1]][p[2]]) \in ToSet(addrs[p[1]])

\* In a pass where no pod moved, the pairs already ensured are Good.
EnsuredGood ==
    pc = "ensure" /\ stable =>
        \A l \in Links, s \in Subnets :
            tracked[l][s] # None /\ <<l, s>> \notin todo => Good(l, s)

\* After a clean pass every tracked pair is Good.
CleanGood == CleanPass => \A l \in Links, s \in Subnets : tracked[l][s] # None => Good(l, s)

\* IInv strengthened with what SyncAddresses knows of its own progress.
PassInv == IInv /\ SnapManCurrent /\ ListedPresent /\ PendingPresent /\ EnsuredGood /\ CleanGood

\* No step changes the manual subnets of a link.
LEMMA ManualStable ==
    ASSUME IInv, [Next]_vars, NEW l \in Links
    PROVE  Manual(l)' = Manual(l)
<1>1. ManualAddrs(addrs'[l]) = ManualAddrs(addrs[l])
    BY StepKeepsManual
<1>. QED
    BY <1>1 DEF Manual, ManualAddrs

\* AddrDel of an address of another subnet keeps every address of s.
LEMMA DelOtherSubnet ==
    ASSUME NEW q \in Seq(Addr), IsInjective(q), NEW s \in Subnets,
           NEW ip \in {None} \cup {x \in PodIPs : SubnetOf[x] # s},
           NEW b \in ToSet(q), SubnetOf[b.ip] = s
    PROVE  b \in ToSet(DelEnhanced(q, ip))
<1>1. b \in Addr
    BY DEF ToSet
<1>2. b # EA(ip)
    BY <1>1 DEF Addr, EA, IP
<1>. QED
    BY <1>2, DelEnhancedProps DEF EA

\* A wanted enhanced address of subnet s on link l makes (l, s) Good.
LEMMA GoodByWitness ==
    ASSUME NEW l \in Links, NEW s \in Subnets, NEW a \in ToSet(addrs[l]),
           a.enhanced, SubnetOf[a.ip] = s, tracked[l][s] # None,
           a.ip = tracked[l][s] \/ owner[a.ip] = Local
    PROVE  Good(l, s)
BY DEF Good, Enhanced, Wanted

\* The same in the state after a step.
LEMMA GoodByWitnessPrimed ==
    ASSUME NEW l \in Links, NEW s \in Subnets, NEW a \in ToSet(addrs'[l]),
           a.enhanced, SubnetOf[a.ip] = s, tracked'[l][s] # None,
           a.ip = tracked'[l][s] \/ owner'[a.ip] = Local
    PROVE  Good(l, s)'
BY DEF Good, Enhanced, Wanted

\* A Good pair without a manual address has such a witness.
LEMMA GoodWitness ==
    ASSUME NEW l \in Links, NEW s \in Subnets, Good(l, s), s \notin Manual(l)
    PROVE  \E a \in ToSet(addrs[l]) :
               /\ a.enhanced /\ SubnetOf[a.ip] = s /\ tracked[l][s] # None
               /\ a.ip = tracked[l][s] \/ owner[a.ip] = Local
BY DEF Good, Enhanced, Wanted

\* Good reads only the addresses, tracked and owner.
LEMMA GoodUnchanged ==
    ASSUME NEW l \in Links, NEW s \in Subnets,
           addrs' = addrs, tracked' = tracked, owner' = owner
    PROVE  Good(l, s)' = Good(l, s)
BY DEF Good, Manual, Enhanced, Wanted

\* The extra conjuncts of PassInv.
Progress == SnapManCurrent /\ ListedPresent /\ PendingPresent /\ EnsuredGood /\ CleanGood

\* The initial state satisfies PassInv: no pass has run yet.
LEMMA InitPassInv == Init => PassInv
<1>1. Init => pc = "idle" /\ result = "none"
    BY DEF Init
<1>. QED
    BY <1>1, InitIInv DEF PassInv, SnapManCurrent, ListedPresent, PendingPresent,
                          EnsuredGood, CleanGood, CleanPass

\* A step that ends outside the two loops and not with a clean pass keeps
\* the extra conjuncts trivially.
LEMMA NoPassProgress ==
    ASSUME pc' \in {"idle", "collect"}, pc' = "idle" => result' # "ok"
    PROVE  Progress'
BY DEF Progress, SnapManCurrent, ListedPresent, PendingPresent, EnsuredGood,
       CleanGood, CleanPass

\* Every step keeps PassInv.
LEMMA NextPassInv == PassInv /\ [Next]_vars => PassInv'
<1> SUFFICES ASSUME PassInv, [Next]_vars PROVE PassInv'
    OBVIOUS
<1>0. /\ IInv /\ IInv'
      /\ \A l \in Links : Manual(l)' = Manual(l)
    BY NextIInv, ManualStable DEF PassInv
<1> SUFFICES Progress'
    BY <1>0 DEF PassInv, Progress
<1>1. CASE ResetInfos
    BY <1>1, NoPassProgress DEF ResetInfos
<1>2. ASSUME NEW ip \in PodIPs, TryAddPodInfo(ip) PROVE Progress'
    BY <1>2, NoPassProgress DEF TryAddPodInfo
<1>3. CASE ListAddrs
    <2>1. pc' = "cleanup" /\ addrs' = addrs /\ tracked' = tracked
        BY <1>3 DEF ListAddrs
    <2>2. SnapManCurrent'
        BY <1>3, <2>1 DEF ListAddrs, SnapManCurrent, Manual
    <2>3. ListedPresent'
        <3> SUFFICES ASSUME NEW l \in Links, NEW s \in Subnets, snapEnh'[l][s] # None
                     PROVE  EA(snapEnh'[l][s]) \in ToSet(addrs'[l])
            BY <2>1 DEF ListedPresent
        <3>1. snapEnh'[l][s] = LastEnhanced(l, s)
            BY <1>3 DEF ListAddrs
        <3>. QED
            BY <1>0, <2>1, <3>1, LastEnhancedType DEF IInv, TypeOK
    <2>. QED
        BY <2>1, <2>2, <2>3 DEF Progress, PendingPresent, EnsuredGood, CleanGood, CleanPass
<1>4. CASE ListFails
    BY <1>4, NoPassProgress DEF ListFails
<1>5. ASSUME NEW l0 \in Links, NEW s0 \in Subnets, CleanupDel(l0, s0) PROVE Progress'
    <2>1. /\ pc = "cleanup" /\ pc' = "cleanup" /\ <<l0, s0>> \in todo
          /\ UNCHANGED <<tracked, snapEnh, snapMan>>
          /\ addrs' = [addrs EXCEPT ![l0] = DelEnhanced(@, snapEnh[l0][s0])]
        BY <1>5 DEF CleanupDel
    <2>2. SnapManCurrent'
        BY <1>0, <2>1 DEF PassInv, SnapManCurrent
    <2>3. ListedPresent'
        <3> SUFFICES ASSUME NEW l \in Links, NEW s \in Subnets,
                            tracked[l][s] # None, snapEnh[l][s] # None
                     PROVE  EA(snapEnh[l][s]) \in ToSet(addrs'[l])
            BY <2>1 DEF ListedPresent
        <3>1. EA(snapEnh[l][s]) \in ToSet(addrs[l])
            BY <2>1 DEF PassInv, ListedPresent
        <3>2. CASE l # l0
            BY <1>0, <2>1, <3>1, <3>2 DEF IInv, TypeOK
        <3>3. CASE l = l0
            <4>1. tracked[l0][s0] = None
                BY <1>0, <2>1 DEF IInv
            <4>2. s # s0
                BY <3>3, <4>1
            <4>3. snapEnh[l0][s0] \in {None} \cup {x \in PodIPs : SubnetOf[x] # s}
                BY <1>0, <4>2, SnapEnhRange DEF PassInv
            <4>4. SubnetOf[EA(snapEnh[l][s]).ip] = s
                BY <1>0, <3>1, SnapEnhRange DEF PassInv
            <4>5. EA(snapEnh[l][s]) \in ToSet(DelEnhanced(addrs[l0], snapEnh[l0][s0]))
                BY <1>0, <3>1, <3>3, <4>3, <4>4, DelOtherSubnet DEF IInv, TypeOK
            <4>. QED
                BY <1>0, <2>1, <3>3, <4>5 DEF IInv, TypeOK
        <3>. QED
            BY <3>2, <3>3
    <2>. QED
        BY <2>1, <2>2, <2>3 DEF Progress, PendingPresent, EnsuredGood, CleanGood, CleanPass
<1>6. ASSUME NEW l0 \in Links, NEW s0 \in Subnets, CleanupFails(l0, s0) PROVE Progress'
    BY <1>6, NoPassProgress DEF CleanupFails
<1>7. CASE CleanupDone
    <2>1. /\ pc = "cleanup" /\ pc' = "ensure"
          /\ UNCHANGED <<addrs, tracked, snapEnh, snapMan>>
          /\ todo' = {p \in Links \X Subnets : tracked[p[1]][p[2]] # None}
        BY <1>7 DEF CleanupDone
    <2>2. SnapManCurrent'
        BY <1>0, <2>1 DEF PassInv, SnapManCurrent
    <2>3. PendingPresent'
        BY <2>1 DEF PassInv, ListedPresent, PendingPresent
    <2>4. EnsuredGood'
        BY <2>1 DEF EnsuredGood
    <2>. QED
        BY <2>1, <2>2, <2>3, <2>4 DEF Progress, ListedPresent, CleanGood, CleanPass
<1>8. ASSUME NEW l0 \in Links, NEW s0 \in Subnets, EnsureKept(l0, s0) PROVE Progress'
    <2>1. /\ pc = "ensure" /\ pc' = "ensure" /\ <<l0, s0>> \in todo /\ KeepExisting(l0, s0)
          /\ UNCHANGED <<addrs, owner, tracked, snapEnh, snapMan, stable>>
          /\ todo' = todo \ {<<l0, s0>>}
        BY <1>8 DEF EnsureKept
    <2>2. SnapManCurrent'
        BY <1>0, <2>1 DEF PassInv, SnapManCurrent
    <2>3. PendingPresent'
        BY <2>1 DEF PassInv, PendingPresent
    <2>4. Good(l0, s0)
        <3>1. tracked[l0][s0] # None
            BY <1>0, <2>1 DEF IInv
        <3>2. CASE s0 \in snapMan[l0]
            BY <2>1, <3>2 DEF PassInv, SnapManCurrent, Good
        <3>3. CASE /\ snapEnh[l0][s0] # None
                   /\ \/ snapEnh[l0][s0] = tracked[l0][s0]
                      \/ getIPInstanceByAddress(snapEnh[l0][s0]) = Local
            <4>1. EA(snapEnh[l0][s0]) \in ToSet(addrs[l0])
                BY <2>1, <3>3 DEF PassInv, PendingPresent
            <4>2. SubnetOf[snapEnh[l0][s0]] = s0
                BY <1>0, <3>3, SnapEnhRange
            <4>. QED
                BY <3>1, <3>3, <4>1, <4>2, GoodByWitness DEF EA, getIPInstanceByAddress
        <3>. QED
            BY <2>1, <3>2, <3>3 DEF KeepExisting
    <2>5. EnsuredGood'
        <3> SUFFICES ASSUME stable, NEW l \in Links, NEW s \in Subnets,
                            tracked[l][s] # None, <<l, s>> \notin todo'
                     PROVE  Good(l, s)'
            BY <2>1 DEF EnsuredGood
        <3>1. Good(l, s)
            BY <2>1, <2>4 DEF PassInv, EnsuredGood
        <3>. QED
            BY <2>1, <3>1, GoodUnchanged
    <2>. QED
        BY <2>1, <2>2, <2>3, <2>5 DEF Progress, ListedPresent, CleanGood, CleanPass
<1>9. ASSUME NEW l0 \in Links, NEW s0 \in Subnets, EnsureAdded(l0, s0) PROVE Progress'
    <2> DEFINE t == tracked[l0][s0]
    <2> DEFINE old == snapEnh[l0][s0]
    <2> DEFINE q1 == AddEnhanced(addrs[l0], t)
    <2> DEFINE q2 == DelEnhanced(q1, old)
    <2>1. /\ pc = "ensure" /\ pc' = "ensure" /\ <<l0, s0>> \in todo /\ ~KeepExisting(l0, s0)
          /\ UNCHANGED <<owner, tracked, snapEnh, snapMan, stable>>
          /\ todo' = todo \ {<<l0, s0>>}
          /\ addrs' = [addrs EXCEPT ![l0] = q2]
        BY <1>9 DEF EnsureAdded, ensureSubnetEnhancedAddr
    <2>2. t \in PodIPs /\ SubnetOf[t] = s0
        BY <1>0, <2>1, TrackedOf
    <2>3. old \in {None} \cup {x \in PodIPs : SubnetOf[x] = s0} /\ old # t
        BY <1>0, <2>1, <2>2 DEF IInv, TypeOK, KeepExisting, IP
    <2>4. /\ q1 \in Seq(Addr) /\ IsInjective(q1)
          /\ ToSet(q1) = ToSet(addrs[l0]) \cup {EA(t)}
        BY <1>0, <2>2, AddEnhancedProps DEF IInv, TypeOK, IP, EA
    <2>5. EA(t) \in ToSet(q2)
        BY <2>3, <2>4, DelEnhancedProps DEF EA
    <2>6. ASSUME NEW s \in Subnets, s # s0, NEW b \in ToSet(addrs[l0]), SubnetOf[b.ip] = s
          PROVE  b \in ToSet(q2)
        <3>1. old \in {None} \cup {x \in PodIPs : SubnetOf[x] # s}
            BY <2>3, <2>6
        <3>. QED
            BY <2>4, <2>6, <3>1, DelOtherSubnet
    <2>7. \A l \in Links : l # l0 => addrs'[l] = addrs[l]
        BY <1>0, <2>1 DEF IInv, TypeOK
    <2>8. addrs'[l0] = q2
        BY <1>0, <2>1 DEF IInv, TypeOK
    <2>9. SnapManCurrent'
        BY <1>0, <2>1 DEF PassInv, SnapManCurrent
    <2>10. PendingPresent'
        <3> SUFFICES ASSUME NEW p \in todo', snapEnh[p[1]][p[2]] # None
                     PROVE  EA(snapEnh[p[1]][p[2]]) \in ToSet(addrs'[p[1]])
            BY <2>1 DEF PendingPresent
        <3>1. p \in todo /\ p # <<l0, s0>> /\ p \in Links \X Subnets
            BY <1>0, <2>1 DEF IInv, TypeOK
        <3>2. EA(snapEnh[p[1]][p[2]]) \in ToSet(addrs[p[1]])
            BY <2>1, <3>1 DEF PassInv, PendingPresent
        <3>3. CASE p[1] # l0
            BY <2>7, <3>1, <3>2, <3>3
        <3>4. CASE p[1] = l0
            <4>1. p[2] # s0
                <5>1. p = <<p[1], p[2]>>
                    BY <3>1
                <5>. QED
                    BY <3>1, <3>4, <5>1
            <4>2. SubnetOf[EA(snapEnh[p[1]][p[2]]).ip] = p[2]
                BY <1>0, <3>1, SnapEnhRange DEF PassInv
            <4>3. p[2] \in Subnets
                BY <3>1
            <4>4. EA(snapEnh[p[1]][p[2]]) \in ToSet(q2)
                BY <2>6, <3>2, <3>4, <4>1, <4>2, <4>3
            <4>. QED
                BY <2>8, <3>4, <4>4
        <3>. QED
            BY <3>3, <3>4
    <2>11. EnsuredGood'
        <3> SUFFICES ASSUME stable, NEW l \in Links, NEW s \in Subnets,
                            tracked[l][s] # None, <<l, s>> \notin todo'
                     PROVE  Good(l, s)'
            BY <2>1 DEF EnsuredGood
        <3>1. CASE <<l, s>> = <<l0, s0>>
            <4>1. EA(t) \in ToSet(addrs'[l]) /\ EA(t).enhanced /\ SubnetOf[EA(t).ip] = s
                BY <2>2, <2>5, <2>8, <3>1 DEF EA
            <4>2. tracked'[l][s] # None /\ EA(t).ip = tracked'[l][s]
                BY <2>1, <3>1 DEF EA
            <4>. QED
                BY <4>1, <4>2, GoodByWitnessPrimed
        <3>2. CASE <<l, s>> # <<l0, s0>>
            <4>1. Good(l, s)
                BY <2>1, <3>2 DEF PassInv, EnsuredGood
            <4>2. CASE l # l0
                <5>1. Good(l, s)' = Good(l, s)
                    BY <2>1, <2>7, <4>2 DEF Good, Manual, Enhanced, Wanted
                <5>. QED
                    BY <4>1, <5>1
            <4>3. CASE l = l0 /\ s \in Manual(l)
                BY <1>0, <4>3 DEF Good
            <4>4. CASE l = l0 /\ s \notin Manual(l)
                <5>1. PICK a \in ToSet(addrs[l]) :
                          /\ a.enhanced /\ SubnetOf[a.ip] = s /\ tracked[l][s] # None
                          /\ a.ip = tracked[l][s] \/ owner[a.ip] = Local
                    BY <4>1, <4>4, GoodWitness
                <5>2. s # s0
                    BY <3>2, <4>4
                <5>3. a \in ToSet(addrs'[l])
                    BY <2>6, <2>8, <4>4, <5>1, <5>2
                <5>. QED
                    BY <2>1, <5>1, <5>3, GoodByWitnessPrimed
            <4>. QED
                BY <4>2, <4>3, <4>4
        <3>. QED
            BY <3>1, <3>2
    <2>. QED
        BY <2>1, <2>9, <2>10, <2>11 DEF Progress, ListedPresent, CleanGood, CleanPass
<1>10. ASSUME NEW l0 \in Links, NEW s0 \in Subnets, EnsureFails(l0, s0) PROVE Progress'
    BY <1>10, NoPassProgress DEF EnsureFails
<1>11. CASE EnsureDone
    <2>1. /\ pc = "ensure" /\ pc' = "idle" /\ todo = {}
          /\ UNCHANGED <<addrs, owner, tracked, stable>>
        BY <1>11 DEF EnsureDone, syncVars
    <2>2. CleanGood'
        <3> SUFFICES ASSUME stable, NEW l \in Links, NEW s \in Subnets, tracked[l][s] # None
                     PROVE  Good(l, s)'
            BY <2>1 DEF CleanGood, CleanPass
        <3>1. Good(l, s)
            BY <2>1 DEF PassInv, EnsuredGood
        <3>. QED
            BY <2>1, <3>1, GoodUnchanged
    <2>. QED
        BY <2>1, <2>2 DEF Progress, SnapManCurrent, ListedPresent, PendingPresent, EnsuredGood
<1>12. ASSUME NEW ip \in PodIPs, NEW n \in Nodes \cup {None}, MovePod(ip, n) PROVE Progress'
    <2>1. /\ stable' = FALSE
          /\ UNCHANGED <<addrs, tracked, pc, snapEnh, snapMan, todo>>
        BY <1>12 DEF MovePod, syncVars
    <2>2. SnapManCurrent'
        BY <2>1 DEF PassInv, SnapManCurrent, Manual
    <2>. QED
        BY <2>1, <2>2 DEF PassInv, Progress, ListedPresent, PendingPresent, EnsuredGood,
                          CleanGood, CleanPass
<1>13. CASE UNCHANGED vars
    <2>1. UNCHANGED <<addrs, owner, tracked, pc, snapEnh, snapMan, todo, result, stable>>
        BY <1>13 DEF vars
    <2>2. \A l \in Links, s \in Subnets : Good(l, s)' = Good(l, s)
        BY <2>1, GoodUnchanged
    <2>3. \A l \in Links : Manual(l)' = Manual(l)
        BY <2>1 DEF Manual
    <2>. QED
        BY <2>1, <2>2, <2>3 DEF PassInv, Progress, SnapManCurrent, ListedPresent,
                                PendingPresent, EnsuredGood, CleanGood, CleanPass
<1>. QED
    BY <1>1, <1>2, <1>3, <1>4, <1>5, <1>6, <1>7, <1>8, <1>9, <1>10, <1>11,
       <1>12, <1>13 DEF Next

\* The address manager's main safety property: after a pass that returned
\* nil while no pod IP changed node, every tracked (link, subnet) without a
\* manual address has an enhanced address that is its pod IP or an IP
\* still held on this node, so the node answers ARP in every subnet it
\* serves.
THEOREM PassEnsuresEnhancedHolds == Spec => []PassEnsuresEnhanced
<1>1. PassInv => PassEnsuresEnhanced
    BY DEF PassInv, CleanGood, Good, PassEnsuresEnhanced
<1>. QED
    BY <1>1, InitPassInv, NextPassInv, PTL DEF Spec
=============================================================================
