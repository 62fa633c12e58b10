------------------------ MODULE RemoteSubnetWebhook ------------------------
(***************************************************************************)
(* The RemoteSubnet admission webhook (src/pkg/webhook/validating/          *)
(* remotesubnet.go) with the API server that stores what it admits and     *)
(* the informer cache its client lists from.                               *)
(*                                                                         *)
(* Every create request runs RemoteSubnetCreateValidation in a goroutine   *)
(* of its own.  The handler takes rsLock, decodes the object, lists the    *)
(* local subnets and then the remote subnets through the cached client,    *)
(* and denies the object when its range intersects one of them.  The lock *)
(* is released by the deferred Unlock when the handler returns; the API    *)
(* server stores an admitted object only after that.  Update and delete    *)
(* requests are allowed without a check.                                   *)
(*                                                                         *)
(* A range is an interval of addresses; Intersect is networkingv1.Intersect *)
(* (outside src/): two ranges share an address.                            *)
(***************************************************************************)
EXTENDS Integers, FiniteSets

CONSTANTS
    Names,        \* names of RemoteSubnet objects
    Ranges,       \* the address ranges objects may carry: records [lo, hi]
    LocalRanges,  \* the ranges of the cluster's local Subnets
    Reqs,         \* admission requests: records [op, name, range]
    MaxFailures,  \* bound on injected decode, list and storage failures
    None          \* no object, no holder, no response yet

Ops == {"create", "update", "delete"}

ASSUME WebhookAssumption ==
    /\ \A rg \in Ranges : rg = [lo |-> rg.lo, hi |-> rg.hi] /\ {rg.lo, rg.hi} \subseteq Int
    /\ LocalRanges \subseteq Ranges
    /\ \A r \in Reqs : r \in [op : Ops, name : Names, range : Ranges]
    /\ None \notin Ranges \cup Reqs
    /\ MaxFailures \in Nat

VARIABLES
    store,     \* store[n]: the range of RemoteSubnet n in the API server, or None
    cache,     \* cache[n]: the same as the informer cache last saw it
    lock,      \* rsLock: the request holding it, or None
    pc,        \* pc[r]: where request r is
    verdict,   \* verdict[r]: the admission response, or None before it
    failures   \* failures injected so far

vars == <<store, cache, lock, pc, verdict, failures>>

\* networkingv1.Intersect: the two ranges share an address.
Intersect(a, b) == a.lo <= b.hi /\ b.lo <= a.hi

Init ==
    /\ store = [n \in Names |-> None]
    /\ cache = store
    /\ lock = None
    /\ pc = [r \in Reqs |-> "idle"]
    /\ verdict = [r \in Reqs |-> None]
    /\ failures = 0

-----------------------------------------------------------------------------
(* The API server sends a request to the webhook.                          *)

\* A create request waits for rsLock; an update or delete is allowed at once
\* (RemoteSubnetUpdateValidation, RemoteSubnetDeleteValidation).
Send(r) ==
    /\ pc[r] = "idle"
    /\ IF r.op = "create"
       THEN /\ pc' = [pc EXCEPT ![r] = "lock"]
            /\ UNCHANGED verdict
       ELSE /\ pc' = [pc EXCEPT ![r] = "store"]
            /\ verdict' = [verdict EXCEPT ![r] = "allowed"]
    /\ UNCHANGED <<store, cache, lock, failures>>

-----------------------------------------------------------------------------
(* RemoteSubnetCreateValidation.                                           *)

\* Mutant: the handler locks a copy of the mutex (a value receiver), so
\* it never waits for another handler.
LockCopy(r) ==
    /\ pc[r] = "lock"
    /\ lock' = r
    /\ pc' = [pc EXCEPT ![r] = "decode"]
    /\ UNCHANGED <<store, cache, verdict, failures>>

\* rsLock.Lock().
Lock(r) ==
    /\ pc[r] = "lock" /\ lock = None
    /\ lock' = r
    /\ pc' = [pc EXCEPT ![r] = "decode"]
    /\ UNCHANGED <<store, cache, verdict, failures>>

\* Mutant: an early return that does not release rsLock (the Unlock not
\* deferred but written before the final return only).
ReturnKeepsLock(r, v) ==
    /\ lock' = IF v = "allowed" THEN None ELSE lock
    /\ verdict' = [verdict EXCEPT ![r] = v]
    /\ pc' = [pc EXCEPT ![r] = IF v = "allowed" THEN "store" ELSE "done"]

\* The handler returns: the deferred rsLock.Unlock() runs with the response.
Return(r, v) ==
    /\ lock' = None
    /\ verdict' = [verdict EXCEPT ![r] = v]
    /\ pc' = [pc EXCEPT ![r] = IF v = "allowed" THEN "store" ELSE "done"]

\* Decode, or one of the two List calls, fails: an errored response.
CallFails(r) ==
    /\ pc[r] \in {"decode", "local", "remote"} /\ failures < MaxFailures
    /\ Return(r, "errored")
    /\ failures' = failures + 1
    /\ UNCHANGED <<store, cache>>

Decode(r) ==
    /\ pc[r] = "decode"
    /\ pc' = [pc EXCEPT ![r] = "local"]
    /\ UNCHANGED <<store, cache, lock, verdict, failures>>

\* The local subnets: denied on the first one the range intersects.
ListLocal(r) ==
    /\ pc[r] = "local"
    /\ IF \E l \in LocalRanges : Intersect(r.range, l)
       THEN Return(r, "denied")
       ELSE /\ pc' = [pc EXCEPT ![r] = "remote"]
            /\ UNCHANGED <<lock, verdict>>
    /\ UNCHANGED <<store, cache, failures>>

\* Mutant: the second loop ranges over the local subnet list again.
ListRemoteLocalList(r) ==
    /\ pc[r] = "remote"
    /\ IF \E l \in LocalRanges : Intersect(r.range, l)
       THEN Return(r, "denied")
       ELSE Return(r, "allowed")
    /\ UNCHANGED <<store, cache, failures>>

\* The remote subnets in the cache: denied on the first one the range
\* intersects, else allowed.
ListRemote(r) ==
    /\ pc[r] = "remote"
    /\ IF \E n \in Names : cache[n] # None /\ Intersect(r.range, cache[n])
       THEN Return(r, "denied")
       ELSE Return(r, "allowed")
    /\ UNCHANGED <<store, cache, failures>>

-----------------------------------------------------------------------------
(* The API server and the informer (outside src/).                         *)

\* What the API server keeps under r.name when it stores request r over
\* cur: a create of a taken name and an update of a missing one fail.
Stored(r, cur) ==
    IF r.op = "delete" THEN None
    ELSE IF (r.op = "create") = (cur = None) THEN r.range ELSE cur

\* The API server stores an admitted request: a create of a new name, an
\* update or a delete of an existing one.
Store(r) ==
    /\ pc[r] = "store"
    /\ pc' = [pc EXCEPT ![r] = "done"]
    /\ store' = [store EXCEPT ![r.name] = Stored(r, @)]
    /\ UNCHANGED <<cache, lock, verdict, failures>>

\* The storage write fails after admission.
StoreFails(r) ==
    /\ pc[r] = "store" /\ failures < MaxFailures
    /\ pc' = [pc EXCEPT ![r] = "done"]
    /\ failures' = failures + 1
    /\ UNCHANGED <<store, cache, lock, verdict>>

\* The informer delivers the watch event of one object to the cache.
Sync(n) ==
    /\ cache[n] # store[n]
    /\ cache' = [cache EXCEPT ![n] = store[n]]
    /\ UNCHANGED <<store, lock, pc, verdict, failures>>

Next ==
    \/ \E r \in Reqs :
           \/ Send(r) \/ Lock(r) \/ CallFails(r) \/ Decode(r)
           \/ ListLocal(r) \/ ListRemote(r) \/ Store(r) \/ StoreFails(r)
    \/ \E n \in Names : Sync(n)

\* The handlers' goroutines, the API server and the informer keep running;
\* sync.Mutex hands the lock to a goroutine that waited long (starvation
\* mode), so a waiting handler that is intermittently able to lock does.
Fairness ==
    /\ \A r \in Reqs :
           /\ SF_vars(Lock(r))
           /\ WF_vars(CallFails(r) \/ Decode(r) \/ ListLocal(r) \/ ListRemote(r))
           /\ WF_vars(Store(r) \/ StoreFails(r))
    /\ \A n \in Names : WF_vars(Sync(n))

Spec == Init /\ [][Next]_vars /\ Fairness

-----------------------------------------------------------------------------
(* Properties.                                                             *)

TypeOK ==
    /\ store \in [Names -> Ranges \cup {None}]
    /\ cache \in [Names -> Ranges \cup {None}]
    /\ lock \in Reqs \cup {None}
    /\ pc \in [Reqs -> {"idle", "lock", "decode", "local", "remote", "store", "done"}]
    /\ verdict \in [Reqs -> {None, "allowed", "denied", "errored"}]
    /\ failures \in 0 .. MaxFailures

\* rsLock serializes the create handlers: at no time are two creates
\* between rsLock.Lock and the return of RemoteSubnetCreateValidation, so no
\* create decides while another one lists the subnets or decides.
CreateExclusive ==
    \A r1, r2 \in Reqs :
        pc[r1] \in {"decode", "local", "remote"} /\ pc[r2] \in {"decode", "local", "remote"}
            => r1 = r2

\* Every request the API server sends is answered and finished: a create
\* handler waiting on rsLock gets it, because every handler that holds it
\* returns and releases it on every path.
RequestsAnswered ==
    \A r \in Reqs : pc[r] # "idle" ~> (pc[r] = "done" /\ verdict[r] # None)

\* The create handler implements the one-step admission of
\* AdmissionAbstract: rsLock, Decode and the local check are stutters, the
\* step that returns is the decision, and every request is answered.
apcBar == [r \in Reqs |-> IF pc[r] \in {"lock", "decode", "local", "remote"}
                         THEN "pending" ELSE pc[r]]

Abstract == INSTANCE AdmissionAbstract WITH apc <- apcBar

ImplementsAdmission == Abstract!ASpec

=============================================================================
