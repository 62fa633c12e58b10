----------------------------- MODULE NatLemmas -----------------------------
(***************************************************************************)
(* Facts about least and greatest elements of sets of naturals, which the *)
(* models' "first free" and "last listed" lookups rest on.                 *)
(***************************************************************************)
EXTENDS Naturals, WellFoundedInduction, TLAPS

\* The lookups that take "the first" table, priority or rule
\* (findEmptyRouteTable, findHighestUnusedRulePriority, checkIfRuleExist)
\* are well defined: a nonempty set of naturals has a least element.
LEMMA NatMin ==
    ASSUME NEW T \in SUBSET Nat, T # {}
    PROVE  \E x \in T : \A y \in T : x <= y
<1>1. PICK x \in T : \A y \in T : ~(<<y, x>> \in OpToRel(<, Nat))
    BY NatLessThanWellFounded, WFMin
<1>2. ASSUME NEW y \in T PROVE x <= y
    <2>1. <<y, x>> \in Nat \X Nat /\ <<y, x>>[1] = y /\ <<y, x>>[2] = x
        OBVIOUS
    <2>2. y < x => <<y, x>> \in OpToRel(<, Nat)
        BY <2>1, Zenon DEF OpToRel
    <2>3. ~(y < x)
        BY <1>1, <2>2, Zenon
    <2>. QED
        BY <2>3
<1>. QED
    BY <1>2

\* The lookup of the last listed address (SelectLastInSeq in the address
\* manager) is well defined: a nonempty set of indices has a greatest one.
LEMMA NatMax ==
    ASSUME NEW n \in Nat, NEW S \in SUBSET (1 .. n), S # {}
    PROVE  \E x \in S : \A y \in S : y <= x
<1> DEFINE T == {n - y : y \in S}
<1>1. T \in SUBSET Nat /\ T # {}
    <2>1. \A y \in S : n - y \in Nat
        OBVIOUS
    <2>. QED
        BY <2>1 DEF T
<1>2. PICK t \in T : \A u \in T : t <= u
    BY <1>1, NatMin
<1>3. PICK x \in S : t = n - x
    BY <1>2 DEF T
<1>4. ASSUME NEW y \in S PROVE y <= x
    <2>1. n - y \in T
        BY DEF T
    <2>. QED
        BY <1>2, <1>3, <2>1
<1>. QED
    BY <1>3, <1>4
=============================================================================
