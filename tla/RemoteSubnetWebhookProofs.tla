----------------------- MODULE RemoteSubnetWebhookProofs -----------------------
(***************************************************************************)
(* Proofs about RemoteSubnetWebhook for every set of names, ranges and     *)
(* requests: the type invariant, and that every step of the webhook, the  *)
(* API server and the informer is a step of the one-step admission of     *)
(* AdmissionAbstract or leaves it unchanged.                               *)
(***************************************************************************)
EXTENDS RemoteSubnetWebhook, TLAPS

USE WebhookAssumption

Handling == {"lock", "decode", "local", "remote"}

\* The inductive invariant: the type invariant, the lock held exactly by a
\* handler between rsLock.Lock and its return, and a create that reached
\* the remote list has passed the local one (the range and the local
\* subnets never change).
IInv ==
    /\ TypeOK
    /\ \A r \in Reqs : pc[r] \in Handling \ {"lock"} => lock = r
    /\ \A r \in Reqs : pc[r] \in Handling => r.op = "create"
    /\ \A r \in Reqs : pc[r] = "remote" => ~\E l \in LocalRanges : Intersect(r.range, l)

LEMMA InitIInv == Init => IInv
BY DEF Init, IInv, TypeOK, Handling


\* Every step keeps IInv: one case per action of Next.
LEMMA NextIInv == IInv /\ [Next]_vars => IInv'
<1> SUFFICES ASSUME IInv, [Next]_vars PROVE IInv'
    OBVIOUS
<1>1. CASE \E r \in Reqs : Send(r)
    <2>1. PICK r \in Reqs : Send(r)
        BY <1>1
    <2>2. /\ pc[r] = "idle"
          /\ \/ pc' = [pc EXCEPT ![r] = "lock"] /\ UNCHANGED verdict /\ r.op = "create"
             \/ pc' = [pc EXCEPT ![r] = "store"] /\ verdict' = [verdict EXCEPT ![r] = "allowed"]
          /\ UNCHANGED <<store, cache, lock, failures>>
        BY <2>1 DEF Send
    <2>. QED
        BY <2>2 DEF IInv, TypeOK, Handling
<1>2. CASE \E r \in Reqs : Lock(r)
      BY <1>2 DEF Lock, IInv, TypeOK, Handling
<1>3. CASE \E r \in Reqs : CallFails(r)
      BY <1>3 DEF CallFails, Return, IInv, TypeOK, Handling
<1>4. CASE \E r \in Reqs : Decode(r)
      BY <1>4 DEF Decode, IInv, TypeOK, Handling
<1>5. CASE \E r \in Reqs : ListLocal(r)
      BY <1>5 DEF ListLocal, Return, IInv, TypeOK, Handling
<1>6. CASE \E r \in Reqs : ListRemote(r)
      BY <1>6 DEF ListRemote, Return, IInv, TypeOK, Handling
<1>7. CASE \E r \in Reqs : Store(r)
      BY <1>7 DEF Store, Stored, IInv, TypeOK, Handling
<1>8. CASE \E r \in Reqs : StoreFails(r)
      BY <1>8 DEF StoreFails, IInv, TypeOK, Handling
<1>9. CASE \E n \in Names : Sync(n)
      BY <1>9 DEF Sync, IInv, TypeOK, Handling
<1>10. CASE UNCHANGED vars
      BY <1>10 DEF vars, IInv, TypeOK, Handling
<1>11. QED
      BY <1>1, <1>2, <1>3, <1>4, <1>5, <1>6, <1>7, <1>8, <1>9, <1>10 DEF Next

\* The type invariant holds in every reachable state.
THEOREM WebhookTypeCorrect == Spec => []TypeOK
<1>1. Init => IInv
      BY InitIInv
<1>2. IInv /\ [Next]_vars => IInv'
      BY NextIInv
<1>3. IInv => TypeOK
      BY DEF IInv
<1>4. QED
      BY <1>1, <1>2, <1>3, PTL DEF Spec

\* rsLock serializes the create handlers (the property CreateExclusive of
\* the webhook_live run): two handlers between Lock and return would both
\* be the holder of the lock that IInv names.
THEOREM CreateExclusiveHolds == Spec => []CreateExclusive
<1>1. IInv => CreateExclusive
      BY DEF IInv, CreateExclusive, Handling
<1>2. QED
      BY <1>1, InitIInv, NextIInv, PTL DEF Spec

-----------------------------------------------------------------------------
(* Refinement: the concrete steps map to steps of AdmissionAbstract.       *)

LEMMA InitRefines == Init => Abstract!AInit
BY DEF Init, Abstract!AInit, apcBar

\* The step that returns from the handler is the abstract decision.
LEMMA StepRefines == IInv /\ [Next]_vars => [Abstract!ANext]_Abstract!avars
<1> SUFFICES ASSUME IInv, [Next]_vars PROVE [Abstract!ANext]_Abstract!avars
    OBVIOUS
<1>1. CASE \E r \in Reqs : Send(r)
      <2> PICK r \in Reqs : Send(r)
          BY <1>1
      <2> Abstract!ASend(r)
          BY DEF Send, Abstract!ASend, apcBar, IInv, TypeOK
      <2> QED
          BY DEF Abstract!ANext
<1>2. CASE \E r \in Reqs : Lock(r) \/ Decode(r)
      BY <1>2 DEF Lock, Decode, Abstract!avars, apcBar, IInv, TypeOK
<1>3. CASE \E r \in Reqs : CallFails(r)
      <2> PICK r \in Reqs : CallFails(r)
          BY <1>3
      <2> Abstract!ADecide(r)
          BY DEF CallFails, Return, Abstract!ADecide, apcBar, IInv, TypeOK
      <2> QED
          BY DEF Abstract!ANext
<1>4. CASE \E r \in Reqs : ListLocal(r)
      <2> PICK r \in Reqs : ListLocal(r)
          BY <1>4
      <2>1. CASE \E l \in LocalRanges : Intersect(r.range, l)
            <3> Abstract!ADecide(r)
                BY <2>1 DEF ListLocal, Return, Abstract!ADecide, Abstract!Check,
                   Abstract!Overlaps, Intersect, apcBar, IInv, TypeOK
            <3> QED
                BY DEF Abstract!ANext
      <2>2. CASE ~\E l \in LocalRanges : Intersect(r.range, l)
            BY <2>2 DEF ListLocal, Abstract!avars, apcBar, IInv, TypeOK
      <2> QED
          BY <2>1, <2>2
<1>5. CASE \E r \in Reqs : ListRemote(r)
      <2> PICK r \in Reqs : ListRemote(r)
          BY <1>5
      <2> Abstract!ADecide(r)
          BY DEF ListRemote, Return, Abstract!ADecide, Abstract!Check,
             Abstract!Overlaps, Intersect, apcBar, IInv, TypeOK
      <2> QED
          BY DEF Abstract!ANext
<1>6. CASE \E r \in Reqs : Store(r) \/ StoreFails(r)
      <2> PICK r \in Reqs : Store(r) \/ StoreFails(r)
          BY <1>6
      <2> Abstract!AStore(r)
          BY DEF Store, StoreFails, Stored, Abstract!AStore, Abstract!Stored,
             apcBar, IInv, TypeOK
      <2> QED
          BY DEF Abstract!ANext
<1>7. CASE \E n \in Names : Sync(n)
      <2> PICK n \in Names : Sync(n)
          BY <1>7
      <2> Abstract!ASync(n)
          BY DEF Sync, Abstract!ASync, apcBar
      <2> QED
          BY DEF Abstract!ANext
<1>8. CASE UNCHANGED vars
      BY <1>8 DEF vars, Abstract!avars, apcBar
<1>9. QED
      BY <1>1, <1>2, <1>3, <1>4, <1>5, <1>6, <1>7, <1>8 DEF Next

\* The webhook with the API server and the informer implements the safety
\* part of the one-step admission: every create handler's response is the
\* check of its range against the local subnets and the cached remote
\* subnets at the instant of the handler's List of RemoteSubnets (or of its
\* local-subnet denial), and rsLock, Decode and the local check change
\* nothing the API server sees.
THEOREM ImplementsAdmissionSafety ==
    Spec => Abstract!AInit /\ [][Abstract!ANext]_Abstract!avars
<1>1. Init => IInv
      BY InitIInv
<1>2. IInv /\ [Next]_vars => IInv'
      BY NextIInv
<1>3. IInv /\ [Next]_vars => [Abstract!ANext]_Abstract!avars
      BY StepRefines
<1>4. QED
      BY <1>1, <1>2, <1>3, InitRefines, PTL DEF Spec
=============================================================================
