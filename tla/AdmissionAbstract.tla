-------------------------- MODULE AdmissionAbstract --------------------------
(***************************************************************************)
(* What the RemoteSubnet webhook promises the API server: each create is   *)
(* decided in one step, against the local subnets and the remote subnets   *)
(* in the informer cache at that instant, or answered with an error; every *)
(* request sent is answered.  Update and delete are allowed.  The API      *)
(* server and the informer are as in RemoteSubnetWebhook.                  *)
(***************************************************************************)
EXTENDS Integers

CONSTANTS Names, Ranges, LocalRanges, Reqs, MaxFailures, None

VARIABLES store, cache, apc, verdict, failures

avars == <<store, cache, apc, verdict, failures>>

Overlaps(a, b) == a.lo <= b.hi /\ b.lo <= a.hi

\* The admission check of a create at one instant.
Check(r) ==
    IF \/ \E l \in LocalRanges : Overlaps(r.range, l)
       \/ \E n \in Names : cache[n] # None /\ Overlaps(r.range, cache[n])
    THEN "denied" ELSE "allowed"

AInit ==
    /\ store = [n \in Names |-> None] /\ cache = store
    /\ apc = [r \in Reqs |-> "idle"] /\ verdict = [r \in Reqs |-> None]
    /\ failures = 0

ASend(r) ==
    /\ apc[r] = "idle"
    /\ IF r.op = "create"
       THEN apc' = [apc EXCEPT ![r] = "pending"] /\ UNCHANGED verdict
       ELSE /\ apc' = [apc EXCEPT ![r] = "store"]
            /\ verdict' = [verdict EXCEPT ![r] = "allowed"]
    /\ UNCHANGED <<store, cache, failures>>

\* A pending create is decided, or fails.
ADecide(r) ==
    /\ apc[r] = "pending"
    /\ \/ verdict' = [verdict EXCEPT ![r] = Check(r)] /\ UNCHANGED failures
       \/ /\ failures < MaxFailures /\ failures' = failures + 1
          /\ verdict' = [verdict EXCEPT ![r] = "errored"]
    /\ apc' = [apc EXCEPT ![r] = IF verdict'[r] = "allowed" THEN "store" ELSE "done"]
    /\ UNCHANGED <<store, cache>>

\* What the API server keeps under r.name when it stores request r over
\* cur: a create of a taken name and an update of a missing one fail.
Stored(r, cur) ==
    IF r.op = "delete" THEN None
    ELSE IF (r.op = "create") = (cur = None) THEN r.range ELSE cur

AStore(r) ==
    /\ apc[r] = "store"
    /\ apc' = [apc EXCEPT ![r] = "done"]
    /\ \/ /\ store' = [store EXCEPT ![r.name] = Stored(r, @)]
          /\ UNCHANGED failures
       \/ failures < MaxFailures /\ failures' = failures + 1 /\ UNCHANGED store
    /\ UNCHANGED <<cache, verdict>>

ASync(n) ==
    /\ cache[n] # store[n]
    /\ cache' = [cache EXCEPT ![n] = store[n]]
    /\ UNCHANGED <<store, apc, verdict, failures>>

ANext ==
    \/ \E r \in Reqs : ASend(r) \/ ADecide(r) \/ AStore(r)
    \/ \E n \in Names : ASync(n)

\* Every pending create is eventually decided; the API server and the
\* informer keep running.
ASpec ==
    /\ AInit /\ [][ANext]_avars
    /\ \A r \in Reqs : WF_avars(ADecide(r)) /\ WF_avars(AStore(r))
    /\ \A n \in Names : WF_avars(ASync(n))
=============================================================================
