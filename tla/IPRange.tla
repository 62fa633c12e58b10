------------------------------ MODULE IPRange ------------------------------
(***************************************************************************)
(* The CIDR-range calculator, FindSubnetExcludeIPBlocks and its helpers    *)
(* (src/unnamed/part_003).  One call of the function is one behaviour:     *)
(* Init picks the call's inputs, and every iteration of its three loops is *)
(* one step.                                                               *)
(*                                                                         *)
(*   "ranges"  the loop over the sorted included ranges, which checks each *)
(*             one and appends the gaps around it to excludeIPRanges;      *)
(*   "fold"    Loop2, which folds every excluded IP and the gateway into   *)
(*             an exclusion range or opens a singleton range for it;       *)
(*   "split"   the loop over excludeIPRanges with the inner loop of        *)
(*             splitIPRangeToIPBlocks, one findTheFirstLargestCidr call    *)
(*             per step;                                                   *)
(*   "done", "error"  the two returns.                                     *)
(*                                                                         *)
(* An address of a W-bit family is a number in 0 .. 2^W - 1; net.IP nil    *)
(* is Nil.  A block is [ip, plen] with rng, the index of the exclusion     *)
(* range it was split from (the code loses that link; the properties use   *)
(* it).                                                                    *)
(***************************************************************************)
EXTENDS Integers, Sequences, SequencesExt, FiniteSets, TLC

CONSTANTS
    W,            \* address width in bits
    CidrStart,    \* cidr.IP, the subnet's network address
    CidrPrefix,   \* the subnet's prefix length
    RangeEnds,    \* addresses an included range may start or end at
    ExcludeCands, \* addresses an excluded IP or the gateway may be
    MaxRanges,    \* bound on the number of included ranges of a call
    MaxExcluded   \* bound on the number of excluded IPs of a call

Nil == -1
Addr == 0 .. 2^W - 1
Size(plen) == 2^(W - plen)

\* ip.Mask(net.CIDRMask(plen, W)): clear the W - plen low bits.
Mask(ip, plen) == ip - (ip % Size(plen))

\* LastIP: the last address of the block of prefix plen holding ip.
LastIP(ip, plen) == Mask(ip, plen) + Size(plen) - 1

CidrEnd == LastIP(CidrStart, CidrPrefix)

ASSUME IPRangeAssumption ==
    /\ W \in Nat \ {0}
    /\ CidrPrefix \in 0 .. W
    /\ CidrStart \in Addr /\ Mask(CidrStart, CidrPrefix) = CidrStart
    /\ RangeEnds \subseteq Addr /\ ExcludeCands \subseteq CidrStart .. CidrEnd
    /\ MaxRanges \in Nat /\ MaxExcluded \in Nat

\* utils.PrevIP and utils.NextIP (pkg/utils, outside src/): the address
\* one below and one above.
PrevIP(a) == a - 1
NextIP(a) == a + 1

\* CreateIPRange: no range (an empty sequence here) when start > end.
CreateIPRange(start, end) ==
    IF start > end THEN << >> ELSE << [start |-> start, end |-> end] >>

\* IPRange.TryAddIP: whether ip joins range r, and the range it leaves.
TryAddIPOk(r, ip) ==
    \/ ip = PrevIP(r.start)
    \/ ip = NextIP(r.end)
    \/ r.start <= ip /\ ip <= r.end

TryAddIP(r, ip) ==
    CASE ip = PrevIP(r.start) -> [r EXCEPT !.start = ip]
      [] ip = NextIP(r.end)   -> [r EXCEPT !.end = ip]
      [] OTHER                -> r

\* Mutant: the zero-bit count one too high, so a block starts one prefix
\* length shorter than the start address's alignment allows.
LastZeroBitsOneMore(ip) ==
    W - (CHOOSE z \in 0 .. W : Mask(ip, z) = ip
                                /\ \A y \in 0 .. z - 1 : Mask(ip, y) # ip) + 1

\* calculateIPLastZeroBits: the loop raises a prefix length z from 0 until
\* the mask keeps ip, and returns W - z.
calculateIPLastZeroBits(ip) ==
    W - (CHOOSE z \in 0 .. W : Mask(ip, z) = ip
                                /\ \A y \in 0 .. z - 1 : Mask(ip, y) # ip)

\* Mutant: when the block overshoots the end, fall back to a host block.
RECURSIVE LargestFromHost(_, _, _)
LargestFromHost(start, end, p) ==
    LET blockEnd == LastIP(start, p)
    IN  CASE blockEnd = end -> [block |-> [ip |-> start, plen |-> p], next |-> Nil]
          [] Mask(end, p) = Mask(start, p) -> LargestFromHost(start, end, W)
          [] OTHER -> [block |-> [ip |-> start, plen |-> p], next |-> NextIP(blockEnd)]

\* The loop of findTheFirstLargestCidr from prefix length p: the block
\* [start, p], and the next start (Nil when the block ends at end).
RECURSIVE LargestFrom(_, _, _)
LargestFrom(start, end, p) ==
    LET blockEnd == LastIP(start, p)
    IN  CASE blockEnd = end -> [block |-> [ip |-> start, plen |-> p], next |-> Nil]
          [] Mask(end, p) = Mask(start, p) -> LargestFrom(start, end, p + 1)
          [] OTHER -> [block |-> [ip |-> start, plen |-> p], next |-> NextIP(blockEnd)]

findTheFirstLargestCidr(start, end) ==
    LargestFrom(start, end, W - calculateIPLastZeroBits(start))

VARIABLES
    includedRanges, \* input: the included ranges, in the caller's order
    excludeIPs,     \* input: the excluded IPs
    gateway,        \* input: the gateway, or Nil
    pc,             \* which loop runs, or which return was taken
    idx,            \* the index of the running loop
    excludeIPRanges,
    nextRangeStart, \* splitIPRangeToIPBlocks's cursor
    excludeIPBlocks

inputs == <<includedRanges, excludeIPs, gateway>>
vars == <<inputs, pc, idx, excludeIPRanges, nextRangeStart, excludeIPBlocks>>

IPRangeT == [start : Addr, end : Addr]

\* sort.Slice by start address.  Ties never reach a return that differs.
sorted == SortSeq(includedRanges, LAMBDA a, b : a.start < b.start)

\* Mutant: the gateway appended without the nil check.
allExcludedIPsAlwaysGateway == Append(excludeIPs, gateway)

\* excludeIPs with the gateway appended when it is not nil.
allExcludedIPs == IF gateway # Nil THEN Append(excludeIPs, gateway) ELSE excludeIPs

Init ==
    /\ includedRanges \in BoundedSeq({r \in [start : RangeEnds, end : RangeEnds] :
                                          r.start <= r.end}, MaxRanges)
    /\ excludeIPs \in BoundedSeq(ExcludeCands, MaxExcluded)
    /\ gateway \in ExcludeCands \cup {Nil}
    /\ pc = "ranges"
    /\ idx = 1
    /\ excludeIPRanges = << >>
    /\ nextRangeStart = Nil
    /\ excludeIPBlocks = << >>

-----------------------------------------------------------------------------
(* The loop over the sorted included ranges.                               *)

\* The range sticks out of the cidr: the call returns an error.
RangeOutOfCidr ==
    /\ pc = "ranges" /\ idx <= Len(sorted)
    /\ sorted[idx].start < CidrStart \/ sorted[idx].end > CidrEnd
    /\ pc' = "error"
    /\ UNCHANGED <<inputs, idx, excludeIPRanges, nextRangeStart, excludeIPBlocks>>

\* The range reaches the next one's start: the call returns an error.
RangesOverlapped ==
    /\ pc = "ranges" /\ idx < Len(sorted)
    /\ CidrStart <= sorted[idx].start /\ sorted[idx].end <= CidrEnd
    /\ sorted[idx].end >= sorted[idx + 1].start
    /\ pc' = "error"
    /\ UNCHANGED <<inputs, idx, excludeIPRanges, nextRangeStart, excludeIPBlocks>>

\* Mutant: the gap after a range ends at the next range's start.
GapsThroughNextStart(i) ==
    LET before == IF i = 1 THEN CreateIPRange(CidrStart, PrevIP(sorted[i].start))
                           ELSE << >>
        upTo   == IF i = Len(sorted) THEN CidrEnd ELSE sorted[i + 1].start
    IN  before \o CreateIPRange(NextIP(sorted[i].end), upTo)

\* The gaps that range i contributes: the one before it when it is the
\* first, and the one up to the next range or the cidr's end.
Gaps(i) ==
    LET before == IF i = 1 THEN CreateIPRange(CidrStart, PrevIP(sorted[i].start))
                           ELSE << >>
        upTo   == IF i = Len(sorted) THEN CidrEnd ELSE PrevIP(sorted[i + 1].start)
    IN  before \o CreateIPRange(NextIP(sorted[i].end), upTo)

AddGaps ==
    /\ pc = "ranges" /\ idx <= Len(sorted)
    /\ CidrStart <= sorted[idx].start /\ sorted[idx].end <= CidrEnd
    /\ idx < Len(sorted) => sorted[idx].end < sorted[idx + 1].start
    /\ excludeIPRanges' = excludeIPRanges \o Gaps(idx)
    /\ idx' = idx + 1
    /\ UNCHANGED <<inputs, pc, nextRangeStart, excludeIPBlocks>>

RangesDone ==
    /\ pc = "ranges" /\ idx > Len(sorted)
    /\ pc' = "fold" /\ idx' = 1
    /\ UNCHANGED <<inputs, excludeIPRanges, nextRangeStart, excludeIPBlocks>>

-----------------------------------------------------------------------------
(* Loop2: fold every excluded IP into the exclusion ranges.                *)

\* The first range whose TryAddIP succeeds takes the address.
FoldIntoRange ==
    /\ pc = "fold" /\ idx <= Len(allExcludedIPs)
    /\ LET ip == allExcludedIPs[idx]
           k  == SelectInSeq(excludeIPRanges, LAMBDA r : TryAddIPOk(r, ip))
       IN  /\ k # 0
           /\ excludeIPRanges' = [excludeIPRanges EXCEPT ![k] = TryAddIP(@, ip)]
    /\ idx' = idx + 1
    /\ UNCHANGED <<inputs, pc, nextRangeStart, excludeIPBlocks>>

\* No range takes it: a singleton range is appended.
FoldNewRange ==
    /\ pc = "fold" /\ idx <= Len(allExcludedIPs)
    /\ LET ip == allExcludedIPs[idx]
       IN  /\ \A k \in DOMAIN excludeIPRanges : ~TryAddIPOk(excludeIPRanges[k], ip)
           /\ excludeIPRanges' = excludeIPRanges \o CreateIPRange(ip, ip)
    /\ idx' = idx + 1
    /\ UNCHANGED <<inputs, pc, nextRangeStart, excludeIPBlocks>>

FoldDone ==
    /\ pc = "fold" /\ idx > Len(allExcludedIPs)
    /\ pc' = "split" /\ idx' = 1
    /\ nextRangeStart' = IF excludeIPRanges = << >> THEN Nil ELSE excludeIPRanges[1].start
    /\ UNCHANGED <<inputs, excludeIPRanges, excludeIPBlocks>>

-----------------------------------------------------------------------------
(* The split of every exclusion range into blocks.                         *)

\* One findTheFirstLargestCidr call; when it returns no next start, the
\* range is consumed and the loop moves to the next one.
SplitRange ==
    /\ pc = "split" /\ idx <= Len(excludeIPRanges)
    /\ LET f == findTheFirstLargestCidr(nextRangeStart, excludeIPRanges[idx].end)
       IN  /\ excludeIPBlocks' = Append(excludeIPBlocks, [ip |-> f.block.ip, plen |-> f.block.plen, rng |-> idx])
           /\ IF f.next # Nil
                THEN nextRangeStart' = f.next /\ idx' = idx
                ELSE /\ idx' = idx + 1
                     /\ nextRangeStart' = IF idx < Len(excludeIPRanges)
                                            THEN excludeIPRanges[idx + 1].start ELSE Nil
    /\ UNCHANGED <<inputs, pc, excludeIPRanges>>

SplitDone ==
    /\ pc = "split" /\ idx > Len(excludeIPRanges)
    /\ pc' = "done"
    /\ UNCHANGED <<inputs, idx, excludeIPRanges, nextRangeStart, excludeIPBlocks>>

Next ==
    \/ RangeOutOfCidr \/ RangesOverlapped \/ AddGaps \/ RangesDone
    \/ FoldIntoRange \/ FoldNewRange \/ FoldDone
    \/ SplitRange \/ SplitDone

Spec == Init /\ [][Next]_vars

-----------------------------------------------------------------------------
(* Properties.                                                             *)

\* The addresses a block routes: net.IPNet masks its IP, so a block whose
\* IP is not aligned still covers the whole aligned block around it.
BlockAddrs(b) == Mask(b.ip, b.plen) .. LastIP(b.ip, b.plen)

\* The blocks split from exclusion range k.
BlocksOf(k) == {j \in DOMAIN excludeIPBlocks : excludeIPBlocks[j].rng = k}

CoveredAddrs == UNION {BlockAddrs(excludeIPBlocks[j]) : j \in DOMAIN excludeIPBlocks}

IncludedAddrs == UNION {r.start .. r.end : r \in ToSet(includedRanges)}

\* Reference: the cidr outside the included ranges, and every excluded IP
\* and the gateway wherever they are.
ExcludedAddrs == ((CidrStart .. CidrEnd) \ IncludedAddrs) \cup ToSet(allExcludedIPs)

\* Reference: the fewest aligned blocks that cover [a, b] exactly, by
\* trying every aligned first block (not the greedy choice of the code).
RECURSIVE MinBlocks(_, _)
MinBlocks(a, b) ==
    IF a > b THEN 0
    ELSE 1 + Min({MinBlocks(LastIP(a, p) + 1, b) :
                    p \in {q \in 0 .. W : Mask(a, q) = a /\ LastIP(a, q) <= b}})

\* Every exclusion range is a range of addresses, and every block an
\* address with a prefix length, split from one of the ranges.
TypeOK ==
    /\ pc \in {"ranges", "fold", "split", "done", "error"}
    /\ idx \in Nat \ {0}
    /\ excludeIPRanges \in Seq({r \in IPRangeT : r.start <= r.end})
    /\ nextRangeStart \in Addr \cup {Nil}
    /\ excludeIPBlocks \in Seq([ip : Addr, plen : 0 .. W, rng : Nat \ {0}])

\* splitIPRangeToIPBlocks with findTheFirstLargestCidr: when the call
\* returns, the blocks of every exclusion range are aligned, pairwise
\* disjoint, and cover exactly that range.
SplitExact ==
    pc = "done" =>
        \A k \in DOMAIN excludeIPRanges :
            /\ \A j \in BlocksOf(k) :
                   Mask(excludeIPBlocks[j].ip, excludeIPBlocks[j].plen) = excludeIPBlocks[j].ip
            /\ \A i, j \in BlocksOf(k) :
                   i # j => BlockAddrs(excludeIPBlocks[i]) \cap BlockAddrs(excludeIPBlocks[j]) = {}
            /\ UNION {BlockAddrs(excludeIPBlocks[j]) : j \in BlocksOf(k)}
                 = excludeIPRanges[k].start .. excludeIPRanges[k].end

\* The greedy split of findTheFirstLargestCidr (largest block at the
\* current start that ends inside the range) uses the fewest blocks any
\* exact aligned cover of the range has.
SplitMinimal ==
    pc = "done" =>
        \A k \in DOMAIN excludeIPRanges :
            Cardinality(BlocksOf(k)) = MinBlocks(excludeIPRanges[k].start, excludeIPRanges[k].end)

\* FindSubnetExcludeIPBlocks as a whole: when it returns blocks for a
\* nonempty list of included ranges, they route exactly the cidr outside
\* those ranges plus every excluded IP and the gateway.
ExclusionExact ==
    pc = "done" /\ includedRanges # << >> => CoveredAddrs = ExcludedAddrs

\* Spec section 4.1 (edge cases): with no included range the whole cidr is
\* exclusion territory.  The code builds its gaps only around included
\* ranges, so it then returns blocks for the excluded IPs alone.
EmptyIncludedExcludesCidr ==
    pc = "done" /\ includedRanges = << >> => (CidrStart .. CidrEnd) \subseteq CoveredAddrs

\* Spec section 8: the returned blocks do not overlap.  Loop2 merges an
\* address into the first range TryAddIP accepts, so a range can grow onto
\* a singleton range opened earlier for the same address.
BlocksDisjoint ==
    pc = "done" =>
        \A i, j \in DOMAIN excludeIPBlocks :
            i # j => BlockAddrs(excludeIPBlocks[i]) \cap BlockAddrs(excludeIPBlocks[j]) = {}

=============================================================================
