----------------------- MODULE IdempotentEngineProofs -----------------------
(***************************************************************************)
(* Proofs about IdempotentEngine for every set of requests, keys, nodes    *)
(* and bodies, every lease, ttl and clock skew, both kinds of store.       *)
(***************************************************************************)
EXTENDS IdempotentEngine, TLAPS

\* The field updates the store's operations make keep a record a record.
LEMMA RecordUpdates ==
    ASSUME NEW rec \in ClaimRecord, NEW o \in Requests, NEW b \in Body,
           NEW l \in Nat, NEW t \in Nat
    PROVE  /\ [rec EXCEPT !.owner = o, !.lease = l, !.ttl = t] \in ClaimRecord
           /\ [rec EXCEPT !.lifecycle = "submitting", !.ref = o,
                          !.lease = l, !.ttl = t] \in ClaimRecord
           /\ [rec EXCEPT !.lifecycle = "completed", !.response = b,
                          !.ttl = t] \in ClaimRecord
           /\ [rec EXCEPT !.lease = l, !.ttl = t] \in ClaimRecord
<1>1. [rec EXCEPT !.owner = o, !.lease = l, !.ttl = t] \in ClaimRecord
  BY DEF ClaimRecord
<1>2. [rec EXCEPT !.lifecycle = "submitting", !.ref = o,
                  !.lease = l, !.ttl = t] \in ClaimRecord
  BY DEF ClaimRecord, Lifecycle
<1>3. [rec EXCEPT !.lifecycle = "completed", !.response = b,
                  !.ttl = t] \in ClaimRecord
  BY DEF ClaimRecord, Lifecycle
<1>4. [rec EXCEPT !.lease = l, !.ttl = t] \in ClaimRecord
  BY DEF ClaimRecord
<1> QED
  BY <1>1, <1>2, <1>3, <1>4

LEMMA FreshTTLType == FreshTTL \in Nat
  BY ClaimStoreAssumption DEF FreshTTL

\* A claim leaves a fresh record, the old one under a new owner, or the old
\* one; it replaces the owner of a claim in flight only.
LEMMA ClaimCases ==
    ASSUME NEW rec \in ClaimRecord \cup {None}, NEW f \in Fingerprints,
           NEW o \in Requests, NEW skew \in Nat
    PROVE  \/ /\ Outcome(rec, f, skew) = "claimed"
              /\ rec = None
              /\ AfterClaim(rec, f, o, skew) = NewInFlight(f, o, skew)
           \/ /\ Outcome(rec, f, skew) = "took_over"
              /\ rec \in ClaimRecord
              /\ rec.lifecycle = "in_flight"
              /\ AfterClaim(rec, f, o, skew) =
                   [rec EXCEPT !.owner = o, !.lease = Lease + skew,
                               !.ttl = FreshTTL]
           \/ /\ Outcome(rec, f, skew) \in
                   {"mismatch", "replay", "awaiting", "in_flight"}
              /\ rec \in ClaimRecord
              /\ AfterClaim(rec, f, o, skew) = rec
<1>1. CASE rec = None
  <2>1. Outcome(rec, f, skew) = "claimed"
    BY <1>1 DEF Outcome
  <2> QED
    BY <1>1, <2>1 DEF AfterClaim
<1>2. CASE rec # None
  <2>1. rec \in ClaimRecord
    BY <1>2
  <2>2. rec.lifecycle \in {"in_flight", "submitting", "completed"}
    BY <2>1 DEF ClaimRecord, Lifecycle
  <2>3. \/ Outcome(rec, f, skew) \in {"mismatch", "replay", "awaiting", "in_flight"}
        \/ Outcome(rec, f, skew) = "took_over" /\ rec.lifecycle = "in_flight"
    BY <1>2, <2>2 DEF Outcome
  <2>4. CASE Outcome(rec, f, skew) \in {"mismatch", "replay", "awaiting", "in_flight"}
    BY <2>1, <2>4 DEF AfterClaim
  <2>5. CASE Outcome(rec, f, skew) = "took_over"
    BY <2>1, <2>3, <2>5 DEF AfterClaim
  <2> QED
    BY <2>3, <2>4, <2>5
<1> QED
  BY <1>1, <1>2

LEMMA NewInFlightType ==
    ASSUME NEW f \in Fingerprints, NEW o \in Requests, NEW skew \in Nat
    PROVE  NewInFlight(f, o, skew) \in ClaimRecord
<1>1. FreshTTL \in Nat /\ Lease + skew \in Nat
  BY FreshTTLType, ClaimStoreAssumption
<1> QED
  BY <1>1 DEF NewInFlight, ClaimRecord, Lifecycle

\* The record a claim, a checkpoint or a completion leaves behind is
\* a claim record (or no record) again.
LEMMA StoreTypes ==
    ASSUME NEW rec \in ClaimRecord \cup {None}, NEW f \in Fingerprints,
           NEW o \in Requests, NEW b \in Body, NEW skew \in Nat
    PROVE  /\ AfterClaim(rec, f, o, skew) \in ClaimRecord
           /\ AfterMark(rec, o, o, skew) \in ClaimRecord \cup {None}
           /\ AfterComplete(rec, o, b) \in ClaimRecord \cup {None}
<1>1. FreshTTL \in Nat /\ Lease + skew \in Nat
  BY FreshTTLType, ClaimStoreAssumption
<1>2. AfterClaim(rec, f, o, skew) \in ClaimRecord
  <2>1. CASE rec = None
    <3>1. AfterClaim(rec, f, o, skew) = NewInFlight(f, o, skew)
      BY <2>1 DEF AfterClaim, Outcome
    <3> QED
      BY <3>1, NewInFlightType
  <2>2. CASE rec \in ClaimRecord
    <3>1. [rec EXCEPT !.owner = o, !.lease = Lease + skew, !.ttl = FreshTTL]
            \in ClaimRecord
      BY <1>1, <2>2, RecordUpdates
    <3>2. NewInFlight(f, o, skew) \in ClaimRecord
      BY NewInFlightType
    <3> QED
      BY <2>2, <3>1, <3>2 DEF AfterClaim
  <2> QED
    BY <2>1, <2>2
<1>3. AfterMark(rec, o, o, skew) \in ClaimRecord \cup {None}
  BY <1>1, RecordUpdates DEF AfterMark, WriteOutcome
<1>4. AfterComplete(rec, o, b) \in ClaimRecord \cup {None}
  BY <1>1, RecordUpdates DEF AfterComplete, WriteOutcome
<1> QED
  BY <1>2, <1>3, <1>4
-----------------------------------------------------------------------------
\* What each operation does to the fields the invariants speak of.
LEMMA NewEffect ==
    ASSUME NEW f \in Fingerprints, NEW o \in Requests, NEW skew \in Nat
    PROVE  /\ NewInFlight(f, o, skew).fingerprint = f
           /\ NewInFlight(f, o, skew).owner = o
           /\ NewInFlight(f, o, skew).lifecycle = "in_flight"
  BY DEF NewInFlight

LEMMA TakeoverEffect ==
    ASSUME NEW rec \in ClaimRecord, NEW f \in Fingerprints,
           NEW o \in Requests, NEW skew \in Nat,
           Outcome(rec, f, skew) = "took_over"
    PROVE  /\ rec.lifecycle = "in_flight"
           /\ AfterClaim(rec, f, o, skew).fingerprint = rec.fingerprint
           /\ AfterClaim(rec, f, o, skew).owner = o
           /\ AfterClaim(rec, f, o, skew).lifecycle = "in_flight"
<1>1. rec.lifecycle = "in_flight"
  BY ClaimCases
<1>2. AfterClaim(rec, f, o, skew) =
         [rec EXCEPT !.owner = o, !.lease = Lease + skew, !.ttl = FreshTTL]
  BY DEF AfterClaim
<1> QED
  BY <1>1, <1>2 DEF ClaimRecord

LEMMA NoClaimEffect ==
    ASSUME NEW rec \in ClaimRecord \cup {None}, NEW f \in Fingerprints,
           NEW o \in Requests, NEW skew \in Nat,
           Outcome(rec, f, skew) \notin {"claimed", "took_over"}
    PROVE  AfterClaim(rec, f, o, skew) = rec /\ rec # None
  BY DEF AfterClaim, Outcome

LEMMA FreshClaimEffect ==
    ASSUME NEW rec \in ClaimRecord \cup {None}, NEW f \in Fingerprints,
           NEW o \in Requests, NEW skew \in Nat,
           Outcome(rec, f, skew) = "claimed"
    PROVE  AfterClaim(rec, f, o, skew) = NewInFlight(f, o, skew) /\ rec = None
  BY ClaimCases DEF AfterClaim

LEMMA MarkEffect ==
    ASSUME NEW rec \in ClaimRecord \cup {None}, NEW o \in Requests,
           NEW skew \in Nat, WriteOutcome(rec, o) = "ok"
    PROVE  /\ rec \in ClaimRecord
           /\ rec.owner = o
           /\ AfterMark(rec, o, o, skew) \in ClaimRecord
           /\ AfterMark(rec, o, o, skew).fingerprint = rec.fingerprint
           /\ AfterMark(rec, o, o, skew).owner = o
           /\ AfterMark(rec, o, o, skew).lifecycle = "submitting"
           /\ AfterMark(rec, o, o, skew).ref = o
<1>1. rec \in ClaimRecord /\ rec.owner = o
  BY DEF WriteOutcome
<1>2. AfterMark(rec, o, o, skew) =
        [rec EXCEPT !.lifecycle = "submitting", !.ref = o,
                    !.lease = Lease + skew, !.ttl = FreshTTL]
  BY DEF AfterMark
<1>3. Lease + skew \in Nat /\ FreshTTL \in Nat
  BY FreshTTLType, ClaimStoreAssumption
<1>4. AfterMark(rec, o, o, skew) \in ClaimRecord
  BY <1>1, <1>2, <1>3 DEF ClaimRecord, Lifecycle
<1> QED
  BY <1>1, <1>2, <1>4 DEF ClaimRecord

LEMMA CompleteEffect ==
    ASSUME NEW rec \in ClaimRecord \cup {None}, NEW o \in Requests,
           NEW b \in Body, WriteOutcome(rec, o) = "ok"
    PROVE  /\ rec \in ClaimRecord
           /\ rec.owner = o
           /\ AfterComplete(rec, o, b) \in ClaimRecord
           /\ AfterComplete(rec, o, b).fingerprint = rec.fingerprint
           /\ AfterComplete(rec, o, b).owner = o
           /\ AfterComplete(rec, o, b).lifecycle = "completed"
           /\ AfterComplete(rec, o, b).ref = rec.ref
           /\ AfterComplete(rec, o, b).response = b
<1>1. rec \in ClaimRecord /\ rec.owner = o
  BY DEF WriteOutcome
<1>2. AfterComplete(rec, o, b) =
        [rec EXCEPT !.lifecycle = "completed", !.response = b,
                    !.ttl = FreshTTL]
  BY DEF AfterComplete
<1>3. AfterComplete(rec, o, b) \in ClaimRecord
  BY <1>1, <1>2, FreshTTLType DEF ClaimRecord, Lifecycle
<1> QED
  BY <1>1, <1>2, <1>3 DEF ClaimRecord

LEMMA RefusedWrite ==
    ASSUME NEW rec, NEW o, NEW b, NEW skew, WriteOutcome(rec, o) # "ok"
    PROVE  AfterMark(rec, o, o, skew) = rec /\ AfterComplete(rec, o, b) = rec
  BY DEF AfterMark, AfterComplete

LEMMA AgeEffect ==
    ASSUME NEW rec \in ClaimRecord, Age(rec) # None
    PROVE  /\ Age(rec).fingerprint = rec.fingerprint
           /\ Age(rec).owner = rec.owner
           /\ Age(rec).lifecycle = rec.lifecycle
           /\ Age(rec).ref = rec.ref
           /\ Age(rec).response = rec.response
<1>1. Age(rec) = [rec EXCEPT !.lease = Dec(rec.lease), !.ttl = Dec(rec.ttl)]
  BY DEF Age, ClaimRecord
<1> QED
  BY <1>1 DEF ClaimRecord

LEMMA AgeType ==
    ASSUME NEW rec \in ClaimRecord \cup {None}
    PROVE  Age(rec) \in ClaimRecord \cup {None}
<1>1. CASE rec = None
  BY <1>1 DEF Age
<1>2. CASE rec \in ClaimRecord
  <2>1. Dec(rec.lease) \in Nat /\ Dec(rec.ttl) \in Nat
    BY <1>2 DEF ClaimRecord, Dec
  <2>2. [rec EXCEPT !.lease = Dec(rec.lease), !.ttl = Dec(rec.ttl)]
          \in ClaimRecord
    BY <1>2, <2>1 DEF ClaimRecord
  <2> QED
    BY <1>2, <2>2 DEF Age
<1> QED
  BY <1>1, <1>2

LEMMA AgeNone == Age(None) = None
  BY DEF Age
-----------------------------------------------------------------------------
\* Typing of what a step of r reads and writes.
LEMMA StepTypes ==
    ASSUME TypeOK, RequestInv, OwnerInv, NEW r \in Requests
    PROVE  /\ SkewOf(r) \in Nat
           /\ pc[r] \in {"claim", "mark", "complete"} =>
                /\ key[r] \in Keys
                /\ Found(r) \in ClaimRecord \cup {None}
                /\ AfterClaim(Found(r), fp[r], r, SkewOf(r)) \in ClaimRecord
                /\ AfterMark(Found(r), r, r, SkewOf(r)) \in ClaimRecord \cup {None}
           /\ pc[r] = "complete" =>
                /\ Result(r) \in Body
                /\ AfterComplete(Found(r), r, Result(r)) \in ClaimRecord \cup {None}
<1>1. SkewOf(r) \in Nat
  BY EngineAssumption DEF SkewOf, TypeOK
<1>2. ASSUME pc[r] \in {"claim", "mark", "complete"}
      PROVE  key[r] \in Keys /\ Found(r) \in ClaimRecord \cup {None}
  BY <1>2 DEF TypeOK, RequestInv, Found
<1>3. ASSUME pc[r] = "complete"
      PROVE  Result(r) \in Body
  BY <1>3 DEF RequestInv, Result, Body
<1>4. Body # {}
  <2>1. [payment |-> r, status |-> "failed"] \in Body
    BY DEF Body
  <2> QED
    BY <2>1
<1>5. fp[r] \in Fingerprints
  BY DEF TypeOK
<1>6. ASSUME pc[r] \in {"claim", "mark", "complete"}
      PROVE  /\ AfterClaim(Found(r), fp[r], r, SkewOf(r)) \in ClaimRecord
             /\ AfterMark(Found(r), r, r, SkewOf(r)) \in ClaimRecord \cup {None}
  BY <1>1, <1>2, <1>4, <1>5, <1>6, StoreTypes
<1>7. ASSUME pc[r] = "complete"
      PROVE  AfterComplete(Found(r), r, Result(r)) \in ClaimRecord \cup {None}
  BY <1>1, <1>2, <1>3, <1>5, <1>7, StoreTypes
<1> QED
  BY <1>1, <1>2, <1>3, <1>6, <1>7

\* Effect of the claim script on the typed variables.
LEMMA RunClaimTypes ==
    ASSUME TypeOK, RequestInv, OwnerInv, NEW r \in Requests,
           pc[r] = "claim", RunClaim(r)
    PROVE  /\ records' \in [Keys -> ClaimRecord \cup {None}]
           /\ epoch' \in [Keys -> Nat]
           /\ ep' \in [Requests -> Nat]
  BY StepTypes DEF RunClaim, TypeOK

LEMMA ReplyTypes ==
    /\ \A b \in Body \cup {None} : Answer(b) \in Reply
    /\ \A c \in {"invalid", "conflict", "precondition", "internal"} :
          Error(c) \in Reply
  BY DEF Answer, Error, Reply

LEMMA TypeInit == Init => TypeOK
  BY DEF Init, TypeOK, PC, Payments, Reply, NoReply

LEMMA TypeStep ==
    ASSUME TypeOK, RequestInv, OwnerInv, [Next]_vars
    PROVE  TypeOK'
<1>1. ASSUME NEW r \in Requests, NEW k \in Keys, Begin(r, k)
      PROVE  TypeOK'
  BY <1>1 DEF Begin, Go, TypeOK, PC
<1>2. ASSUME NEW r \in Requests, BeginPlain(r)
      PROVE  TypeOK'
  BY <1>2 DEF BeginPlain, Go, TypeOK, PC, request
<1>3. ASSUME NEW r \in Requests, ClaimGranted(r)
      PROVE  TypeOK'
  BY <1>3, ReplyTypes, RunClaimTypes, StepTypes
  DEF ClaimGranted, Go, Return, TypeOK, PC, request
<1>4. ASSUME NEW r \in Requests, ClaimReplays(r)
      PROVE  TypeOK'
  <2>1. Found(r) \in ClaimRecord
    BY <1>4, StepTypes DEF ClaimReplays, ClaimSays, Outcome
  <2>2. Found(r).response \in Body \cup {None}
    BY <2>1 DEF ClaimRecord
  <2> QED
    BY <1>4, <2>2, ReplyTypes, RunClaimTypes
    DEF ClaimReplays, Go, Return, TypeOK, PC, request
<1>5. ASSUME NEW r \in Requests, ClaimRefused(r)
      PROVE  TypeOK'
  BY <1>5, ReplyTypes, RunClaimTypes, StepTypes
  DEF ClaimRefused, Go, Return, TypeOK, PC, request
<1>6. ASSUME NEW r \in Requests, ClaimAwaits(r)
      PROVE  TypeOK'
  <2>1. Found(r) \in ClaimRecord
    BY <1>6, StepTypes DEF ClaimAwaits, ClaimSays, Outcome
  <2>2. Found(r).ref \in Requests \cup {None}
    BY <2>1 DEF ClaimRecord
  <2> QED
    BY <1>6, <2>2, ReplyTypes, RunClaimTypes
    DEF ClaimAwaits, Go, Return, TypeOK, PC, request
<1>7. ASSUME NEW r \in Requests, ClaimFault(r)
      PROVE  TypeOK'
  BY <1>7, ReplyTypes, RunClaimTypes, StepTypes
  DEF ClaimFault, Go, Return, TypeOK, PC, request
<1>8. ASSUME NEW r \in Requests, Reconcile(r)
      PROVE  TypeOK'
  BY <1>8, ReplyTypes
  DEF Reconcile, Go, Return, TypeOK, PC, request, RequestInv, Terminal, Body
<1>9. ASSUME NEW r \in Requests, Invalid(r)
      PROVE  TypeOK'
  BY <1>9, ReplyTypes DEF Invalid, Go, Return, TypeOK, PC, request
<1>10. ASSUME NEW r \in Requests, RouteFails(r)
      PROVE  TypeOK'
  BY <1>10, ReplyTypes
  DEF RouteFails, Go, Return, TypeOK, PC, request, Settle, Body, Payments
<1>11. ASSUME NEW r \in Requests, RouteFound(r)
      PROVE  TypeOK'
  BY <1>11, ReplyTypes
  DEF RouteFound, Go, Return, TypeOK, PC, request, Payments
<1>12. ASSUME NEW r \in Requests, MarkOk(r)
      PROVE  TypeOK'
  BY <1>12, ReplyTypes, StepTypes
  DEF MarkOk, Go, Return, TypeOK, PC, request, RunMark
<1>13. ASSUME NEW r \in Requests, MarkRefused(r)
      PROVE  TypeOK'
  BY <1>13, ReplyTypes, StepTypes
  DEF MarkRefused, Go, Return, TypeOK, PC, request, RunMark, WriteError
<1>14. ASSUME NEW r \in Requests, MarkFault(r)
      PROVE  TypeOK'
  BY <1>14, ReplyTypes, StepTypes
  DEF MarkFault, Go, Return, TypeOK, PC, request, RunMark
<1>15. ASSUME NEW r \in Requests, SubmitSend(r)
      PROVE  TypeOK'
  BY <1>15, ReplyTypes DEF SubmitSend, Go, Return, TypeOK, PC, request
<1>16. ASSUME NEW r \in Requests, SubmitOk(r)
      PROVE  TypeOK'
  BY <1>16, ReplyTypes
  DEF SubmitOk, Go, Return, TypeOK, PC, request, Settle, Body, Payments
<1>17. ASSUME NEW r \in Requests, SubmitRetries(r)
      PROVE  TypeOK'
  BY <1>17, ReplyTypes DEF SubmitRetries, Go, Return, TypeOK, PC, request
<1>18. ASSUME NEW r \in Requests, SubmitGivesUp(r)
      PROVE  TypeOK'
  BY <1>18, ReplyTypes
  DEF SubmitGivesUp, Go, Return, TypeOK, PC, request, Settle, Body, Payments
<1>19. ASSUME NEW r \in Requests, CompleteOk(r)
      PROVE  TypeOK'
  BY <1>19, ReplyTypes, StepTypes
  DEF CompleteOk, Go, Return, TypeOK, PC, request, RunComplete
<1>20. ASSUME NEW r \in Requests, CompleteRefused(r)
      PROVE  TypeOK'
  BY <1>20, ReplyTypes, StepTypes
  DEF CompleteRefused, Go, Return, TypeOK, PC, request, RunComplete,
      WriteError
<1>21. ASSUME NEW r \in Requests, CompleteFault(r)
      PROVE  TypeOK'
  BY <1>21, ReplyTypes, StepTypes
  DEF CompleteFault, Go, Return, TypeOK, PC, request, RunComplete
<1>22. ASSUME NEW n \in Nodes, Crash(n)
      PROVE  TypeOK'
  BY <1>22 DEF Crash, TypeOK, PC, Payments, request
<1>23. ASSUME Tick
      PROVE  TypeOK'
  BY <1>23, AgeType DEF Tick, TypeOK, request
<1>24. CASE UNCHANGED vars
  BY <1>24 DEF vars, TypeOK
<1>25. ASSUME NEW r \in Requests, Abandon(r)
      PROVE  TypeOK'
  BY <1>25, ReplyTypes DEF Abandon, Go, Return, TypeOK, PC, request
<1> QED
  BY <1>1, <1>2, <1>3, <1>4, <1>5, <1>6, <1>7, <1>8, <1>9, <1>10, <1>11,
     <1>12, <1>13, <1>14, <1>15, <1>16, <1>17, <1>18, <1>19, <1>20, <1>21,
     <1>22, <1>23, <1>24, <1>25
  DEF Next, Step
\* A claim never lowers an epoch and sets its caller's to the current one.
LEMMA RunClaimEpoch ==
    ASSUME TypeOK, RequestInv, OwnerInv, NEW r \in Requests,
           pc[r] = "claim", RunClaim(r)
    PROVE  /\ \A k \in Keys : epoch[k] <= epoch'[k]
           /\ \A k \in Keys : epoch'[k] # epoch[k] => records[k] = None /\ k = key[r]
           /\ ep'[r] = epoch'[key[r]]
           /\ \A s \in Requests \ {r} : ep'[s] = ep[s]
<1>1. key[r] \in Keys /\ Found(r) \in ClaimRecord \cup {None}
  BY StepTypes
<1>2. ClaimSays(r) = "claimed" => Found(r) = None
  BY DEF ClaimSays, Outcome
<1> QED
  BY <1>1, <1>2 DEF RunClaim, TypeOK, Found

\* Every step keeps what a handler's position says about its request.
LEMMA RequestStep ==
    ASSUME TypeOK, RequestInv, OwnerInv, [Next]_vars
    PROVE  RequestInv'
<1>1. ASSUME NEW r \in Requests, NEW k \in Keys, Begin(r, k)
      PROVE  RequestInv'
  BY <1>1, EngineAssumption DEF Begin, Go, RequestInv, TypeOK
<1>2. ASSUME NEW r \in Requests, BeginPlain(r)
      PROVE  RequestInv'
  BY <1>2 DEF BeginPlain, Go, request, RequestInv, TypeOK
<1>3. ASSUME NEW r \in Requests, ClaimGranted(r)
      PROVE  RequestInv'
  BY <1>3 DEF ClaimGranted, Go, request, RequestInv, TypeOK, RunClaim
<1>4. ASSUME NEW r \in Requests, ClaimReplays(r)
      PROVE  RequestInv'
  BY <1>4 DEF ClaimReplays, Go, Return, request, RequestInv, TypeOK, RunClaim
<1>5. ASSUME NEW r \in Requests, ClaimRefused(r)
      PROVE  RequestInv'
  BY <1>5 DEF ClaimRefused, Go, Return, request, RequestInv, TypeOK, RunClaim
<1>6. ASSUME NEW r \in Requests, ClaimAwaits(r)
      PROVE  RequestInv'
  <2>1. Found(r) \in ClaimRecord /\ Found(r).lifecycle = "submitting"
    BY <1>6, StepTypes DEF ClaimAwaits, ClaimSays, Outcome
  <2>2. Found(r).ref \in Requests
    BY <1>6, <2>1, StepTypes, NoneAssumption
    DEF ClaimAwaits, OwnerInv, OwnerOK, Found, ClaimRecord
  <2> QED
    BY <1>6, <2>2 DEF RunClaim,  ClaimAwaits, Go, request, RequestInv, TypeOK
<1>7. ASSUME NEW r \in Requests, ClaimFault(r)
      PROVE  RequestInv'
  BY <1>7 DEF ClaimFault, Go, Return, request, RequestInv, TypeOK, RunClaim
<1>8. ASSUME NEW r \in Requests, Reconcile(r)
      PROVE  RequestInv'
  BY <1>8 DEF Reconcile, Go, Return, request, RequestInv, TypeOK
<1>9. ASSUME NEW r \in Requests, Invalid(r)
      PROVE  RequestInv'
  BY <1>9 DEF Invalid, Go, Return, request, RequestInv, TypeOK
<1>10. ASSUME NEW r \in Requests, RouteFails(r)
      PROVE  RequestInv'
  BY <1>10 DEF RouteFails, Go, Settle, Return, request, RequestInv, TypeOK
<1>11. ASSUME NEW r \in Requests, RouteFound(r)
      PROVE  RequestInv'
  BY <1>11 DEF RouteFound, Go, request, RequestInv, TypeOK
<1>12. ASSUME NEW r \in Requests, MarkOk(r)
      PROVE  RequestInv'
  BY <1>12 DEF MarkOk, Go, request, RequestInv, TypeOK
<1>13. ASSUME NEW r \in Requests, MarkRefused(r)
      PROVE  RequestInv'
  BY <1>13 DEF MarkRefused, Go, Return, request, RequestInv, TypeOK
<1>14. ASSUME NEW r \in Requests, MarkFault(r)
      PROVE  RequestInv'
  BY <1>14 DEF MarkFault, Go, Return, request, RequestInv, TypeOK
<1>15. ASSUME NEW r \in Requests, SubmitSend(r)
      PROVE  RequestInv'
  BY <1>15 DEF SubmitSend, Go, request, RequestInv, TypeOK
<1>16. ASSUME NEW r \in Requests, SubmitOk(r)
      PROVE  RequestInv'
  BY <1>16 DEF SubmitOk, Go, Settle, Return, request, RequestInv, TypeOK
<1>17. ASSUME NEW r \in Requests, SubmitRetries(r)
      PROVE  RequestInv'
  BY <1>17 DEF SubmitRetries, Go, request, RequestInv, TypeOK
<1>18. ASSUME NEW r \in Requests, SubmitGivesUp(r)
      PROVE  RequestInv'
  BY <1>18 DEF SubmitGivesUp, Go, Settle, Return, request, RequestInv, TypeOK
<1>19. ASSUME NEW r \in Requests, CompleteOk(r)
      PROVE  RequestInv'
  BY <1>19 DEF CompleteOk, Go, Return, request, RequestInv, TypeOK
<1>20. ASSUME NEW r \in Requests, CompleteRefused(r)
      PROVE  RequestInv'
  BY <1>20 DEF CompleteRefused, Go, Return, request, RequestInv, TypeOK
<1>21. ASSUME NEW r \in Requests, CompleteFault(r)
      PROVE  RequestInv'
  BY <1>21 DEF CompleteFault, Go, Return, request, RequestInv, TypeOK
<1>22. ASSUME NEW n \in Nodes, Crash(n)
      PROVE  RequestInv'
  BY <1>22 DEF Crash, request, RequestInv, TypeOK
<1>23. ASSUME Tick
      PROVE  RequestInv'
  BY <1>23 DEF Tick, request, RequestInv, TypeOK
<1>24. CASE UNCHANGED vars
  BY <1>24 DEF vars, RequestInv, TypeOK
<1>25. ASSUME NEW r \in Requests, Abandon(r)
      PROVE  RequestInv'
  BY <1>25 DEF Abandon, Go, Return, request, RequestInv, TypeOK
<1> QED
  BY <1>1, <1>2, <1>3, <1>4, <1>5, <1>6, <1>7, <1>8, <1>9, <1>10, <1>11,
     <1>12, <1>13, <1>14, <1>15, <1>16, <1>17, <1>18, <1>19, <1>20, <1>21,
     <1>22, <1>23, <1>24, <1>25
  DEF Next, Step

LEMMA RunClaimKeepsEpochs ==
    ASSUME TypeOK, RequestInv, EpochInv, OwnerInv, NEW r \in Requests,
           pc[r] = "claim", RunClaim(r), key' = key,
           NEW l \in PC \ {"idle", "claim"}, pc' = [pc EXCEPT ![r] = l]
    PROVE  EpochInv'
<1> SUFFICES ASSUME NEW s \in Requests
             PROVE  /\ pc'[s] \in {"idle", "claim"} => ep'[s] = 0
                    /\ key'[s] # None => ep'[s] <= epoch'[key'[s]]
  BY DEF EpochInv
<1>1. /\ epoch \in [Keys -> Nat] /\ epoch' \in [Keys -> Nat]
      /\ ep \in [Requests -> Nat] /\ ep' \in [Requests -> Nat]
  BY RunClaimTypes DEF TypeOK
<1>2. key[r] \in Keys /\ (key[s] # None => key[s] \in Keys)
  BY StepTypes DEF TypeOK
<1>3. CASE s = r
  BY <1>1, <1>2, <1>3, RunClaimEpoch DEF TypeOK
<1>4. CASE s # r
  <2>1. ep'[s] = ep[s] /\ pc'[s] = pc[s]
    BY <1>4, RunClaimEpoch DEF TypeOK
  <2>2. key[s] # None => ep[s] <= epoch[key[s]] /\ epoch[key[s]] <= epoch'[key[s]]
    BY <1>2, RunClaimEpoch DEF EpochInv
  <2> QED
    BY <1>1, <1>2, <2>1, <2>2 DEF EpochInv
<1> QED
  BY <1>3, <1>4

\* Every step keeps requests at or behind the epoch of their key.
LEMMA EpochStep ==
    ASSUME TypeOK, RequestInv, EpochInv, OwnerInv, [Next]_vars
    PROVE  EpochInv'
<1>1. ASSUME NEW r \in Requests, NEW k \in Keys, Begin(r, k)
      PROVE  EpochInv'
  BY <1>1 DEF Begin, Go, EpochInv, TypeOK
<1>2. ASSUME NEW r \in Requests, BeginPlain(r)
      PROVE  EpochInv'
  BY <1>2 DEF BeginPlain, Go, request, EpochInv, TypeOK
<1>3. ASSUME NEW r \in Requests, ClaimGranted(r)
      PROVE  EpochInv'
  BY <1>3, RunClaimKeepsEpochs DEF ClaimGranted, Go, request, PC
<1>4. ASSUME NEW r \in Requests, ClaimReplays(r)
      PROVE  EpochInv'
  BY <1>4, RunClaimKeepsEpochs DEF ClaimReplays, Go, Return, request, PC
<1>5. ASSUME NEW r \in Requests, ClaimRefused(r)
      PROVE  EpochInv'
  BY <1>5, RunClaimKeepsEpochs DEF ClaimRefused, Go, Return, request, PC
<1>6. ASSUME NEW r \in Requests, ClaimAwaits(r)
      PROVE  EpochInv'
  BY <1>6, RunClaimKeepsEpochs DEF ClaimAwaits, Go, request, PC
<1>7. ASSUME NEW r \in Requests, ClaimFault(r)
      PROVE  EpochInv'
  <2>1. CASE RunClaim(r)
    BY <1>7, <2>1, RunClaimKeepsEpochs DEF ClaimFault, Go, Return, request, PC
  <2>2. CASE UNCHANGED <<records, epoch, ep>>
    BY <1>7, <2>2 DEF ClaimFault, Go, Return, request, EpochInv, TypeOK
  <2> QED
    BY <1>7, <2>1, <2>2 DEF ClaimFault
<1>8. ASSUME NEW r \in Requests, Reconcile(r)
      PROVE  EpochInv'
  BY <1>8 DEF Reconcile, Go, Return, request, EpochInv, TypeOK
<1>9. ASSUME NEW r \in Requests, Invalid(r)
      PROVE  EpochInv'
  BY <1>9 DEF Invalid, Go, Return, request, EpochInv, TypeOK
<1>10. ASSUME NEW r \in Requests, RouteFails(r)
      PROVE  EpochInv'
  BY <1>10 DEF RouteFails, Go, Settle, Return, request, EpochInv, TypeOK
<1>11. ASSUME NEW r \in Requests, RouteFound(r)
      PROVE  EpochInv'
  BY <1>11 DEF RouteFound, Go, request, EpochInv, TypeOK
<1>12. ASSUME NEW r \in Requests, MarkOk(r)
      PROVE  EpochInv'
  BY <1>12 DEF MarkOk, Go, request, EpochInv, TypeOK
<1>13. ASSUME NEW r \in Requests, MarkRefused(r)
      PROVE  EpochInv'
  BY <1>13 DEF MarkRefused, Go, Return, request, EpochInv, TypeOK
<1>14. ASSUME NEW r \in Requests, MarkFault(r)
      PROVE  EpochInv'
  BY <1>14 DEF MarkFault, Go, Return, request, EpochInv, TypeOK
<1>15. ASSUME NEW r \in Requests, SubmitSend(r)
      PROVE  EpochInv'
  BY <1>15 DEF SubmitSend, Go, request, EpochInv, TypeOK
<1>16. ASSUME NEW r \in Requests, SubmitOk(r)
      PROVE  EpochInv'
  BY <1>16 DEF SubmitOk, Go, Settle, Return, request, EpochInv, TypeOK
<1>17. ASSUME NEW r \in Requests, SubmitRetries(r)
      PROVE  EpochInv'
  BY <1>17 DEF SubmitRetries, Go, request, EpochInv, TypeOK
<1>18. ASSUME NEW r \in Requests, SubmitGivesUp(r)
      PROVE  EpochInv'
  BY <1>18 DEF SubmitGivesUp, Go, Settle, Return, request, EpochInv, TypeOK
<1>19. ASSUME NEW r \in Requests, CompleteOk(r)
      PROVE  EpochInv'
  BY <1>19 DEF CompleteOk, Go, Return, request, EpochInv, TypeOK
<1>20. ASSUME NEW r \in Requests, CompleteRefused(r)
      PROVE  EpochInv'
  BY <1>20 DEF CompleteRefused, Go, Return, request, EpochInv, TypeOK
<1>21. ASSUME NEW r \in Requests, CompleteFault(r)
      PROVE  EpochInv'
  BY <1>21 DEF CompleteFault, Go, Return, request, EpochInv, TypeOK
<1>22. ASSUME NEW n \in Nodes, Crash(n)
      PROVE  EpochInv'
  BY <1>22 DEF Crash, request, EpochInv, TypeOK
<1>23. ASSUME Tick
      PROVE  EpochInv'
  BY <1>23 DEF Tick, request, EpochInv, TypeOK
<1>24. CASE UNCHANGED vars
  BY <1>24 DEF vars, EpochInv, TypeOK
<1>25. ASSUME NEW r \in Requests, Abandon(r)
      PROVE  EpochInv'
  BY <1>25 DEF Abandon, Go, Return, request, EpochInv, TypeOK
<1> QED
  BY <1>1, <1>2, <1>3, <1>4, <1>5, <1>6, <1>7, <1>8, <1>9, <1>10, <1>11,
     <1>12, <1>13, <1>14, <1>15, <1>16, <1>17, <1>18, <1>19, <1>20, <1>21,
     <1>22, <1>23, <1>24, <1>25
  DEF Next, Step

\* A claim that is not granted leaves the records and the epochs alone.
LEMMA RunClaimRefused ==
    ASSUME TypeOK, RequestInv, OwnerInv, NEW r \in Requests,
           pc[r] = "claim", RunClaim(r),
           ClaimSays(r) \notin {"claimed", "took_over"}
    PROVE  records' = records /\ epoch' = epoch /\ Found(r) # None
<1>1. /\ key[r] \in Keys /\ Found(r) \in ClaimRecord \cup {None}
      /\ fp[r] \in Fingerprints /\ SkewOf(r) \in Nat
  BY StepTypes DEF TypeOK
<1>2. AfterClaim(Found(r), fp[r], r, SkewOf(r)) = Found(r) /\ Found(r) # None
  BY <1>1, NoClaimEffect DEF ClaimSays
<1> QED
  BY <1>1, <1>2 DEF RunClaim, TypeOK, Found

\* A granted claim leaves a record of the caller, in flight; it touches no
\* other key, and it takes a record only from a claim in flight.
LEMMA RunClaimGranted ==
    ASSUME TypeOK, RequestInv, OwnerInv, NEW r \in Requests,
           pc[r] = "claim", RunClaim(r),
           ClaimSays(r) \in {"claimed", "took_over"}
    PROVE  /\ records'[key[r]] \in ClaimRecord
           /\ records'[key[r]].owner = r
           /\ records'[key[r]].lifecycle = "in_flight"
           /\ \A k \in Keys \ {key[r]} : records'[k] = records[k]
           /\ \/ Found(r) = None
              \/ /\ Found(r) \in ClaimRecord
                 /\ Found(r).lifecycle = "in_flight"
                 /\ records'[key[r]].fingerprint = Found(r).fingerprint
           /\ Found(r) = None => epoch'[key[r]] = epoch[key[r]] + 1
           /\ Found(r) # None => epoch' = epoch
<1>1. /\ key[r] \in Keys /\ Found(r) \in ClaimRecord \cup {None}
      /\ fp[r] \in Fingerprints /\ SkewOf(r) \in Nat
  BY StepTypes DEF TypeOK
<1> DEFINE new == AfterClaim(Found(r), fp[r], r, SkewOf(r))
<1>2. /\ records'[key[r]] = new
      /\ \A k \in Keys \ {key[r]} : records'[k] = records[k]
  BY <1>1 DEF RunClaim, TypeOK
<1>3. new \in ClaimRecord
  BY StepTypes
<1>4. CASE ClaimSays(r) = "claimed"
  <2>1. new = NewInFlight(fp[r], r, SkewOf(r)) /\ Found(r) = None
    BY <1>1, <1>4, FreshClaimEffect DEF ClaimSays
  <2>2. new.owner = r /\ new.lifecycle = "in_flight"
    BY <1>1, <2>1, NewEffect
  <2>3. epoch'[key[r]] = epoch[key[r]] + 1
    BY <1>1, <1>4 DEF RunClaim, TypeOK
  <2> QED
    BY <1>2, <1>3, <2>1, <2>2, <2>3
<1>5. CASE ClaimSays(r) = "took_over"
  <2>1. Found(r) # None
    BY <1>5 DEF ClaimSays, Outcome
  <2>2. Found(r) \in ClaimRecord
    BY <1>1, <2>1
  <2>3. /\ Found(r).lifecycle = "in_flight"
        /\ new.owner = r /\ new.lifecycle = "in_flight"
        /\ new.fingerprint = Found(r).fingerprint
    BY <1>1, <1>5, <2>2, TakeoverEffect DEF ClaimSays
  <2>4. epoch' = epoch
    BY <1>1, <1>5 DEF RunClaim, TypeOK
  <2> HIDE DEF new
  <2> QED
    BY <1>2, <1>3, <2>1, <2>2, <2>3, <2>4
<1> QED
  BY <1>4, <1>5

LEMMA GrantKeepsOwners ==
    ASSUME TypeOK, RequestInv, EpochInv, OwnerInv, NEW r \in Requests,
           pc[r] = "claim", RunClaim(r), key' = key,
           ClaimSays(r) \in {"claimed", "took_over"},
           NEW l \in {"route", "done"}, pc' = [pc EXCEPT ![r] = l]
    PROVE  OwnerInv'
<1> SUFFICES ASSUME NEW k \in Keys, records'[k] # None
             PROVE  OwnerOK(k)'
  BY DEF OwnerInv
<1>1. key[r] \in Keys /\ ep'[r] = epoch'[key[r]]
  BY StepTypes, RunClaimEpoch
<1>2. CASE k = key[r]
  <2>1. records'[k].owner = r /\ records'[k].lifecycle = "in_flight"
    BY <1>2, RunClaimGranted
  <2> QED
    BY <1>1, <1>2, <2>1 DEF OwnerOK, TypeOK
<1>3. CASE k # key[r]
  <2>1. records'[k] = records[k] /\ epoch'[k] = epoch[k]
    BY <1>1, <1>3, RunClaimGranted, RunClaimEpoch
  <2>2. OwnerOK(k)
    BY <2>1 DEF OwnerInv
  <2>3. records[k].owner \in Requests
    BY <2>1 DEF TypeOK, ClaimRecord
  <2>4. records[k].owner # r
    BY <2>2 DEF OwnerOK
  <2>5. /\ ep'[records[k].owner] = ep[records[k].owner]
        /\ pc'[records[k].owner] = pc[records[k].owner]
    BY <2>3, <2>4, RunClaimEpoch DEF TypeOK
  <2> QED
    BY <2>1, <2>2, <2>5 DEF OwnerOK
<1> QED
  BY <1>2, <1>3

LEMMA RefusalKeepsOwners ==
    ASSUME TypeOK, RequestInv, EpochInv, OwnerInv, NEW r \in Requests,
           pc[r] = "claim", RunClaim(r), key' = key,
           ClaimSays(r) \notin {"claimed", "took_over"},
           NEW l \in PC, pc' = [pc EXCEPT ![r] = l]
    PROVE  OwnerInv'
<1> SUFFICES ASSUME NEW k \in Keys, records'[k] # None
             PROVE  OwnerOK(k)'
  BY DEF OwnerInv
<1>1. records' = records /\ epoch' = epoch
  BY RunClaimRefused
<1>2. OwnerOK(k)
  BY <1>1 DEF OwnerInv
<1>3. records[k].owner \in Requests /\ records[k].owner # r
  BY <1>1, <1>2 DEF OwnerOK, TypeOK, ClaimRecord
<1>4. /\ ep'[records[k].owner] = ep[records[k].owner]
      /\ pc'[records[k].owner] = pc[records[k].owner]
  BY <1>3, RunClaimEpoch DEF TypeOK
<1> QED
  BY <1>1, <1>2, <1>4 DEF OwnerOK

\* A write by r changes no record but its own, and that only while r owns it.
LEMMA RunMarkEffect ==
    ASSUME TypeOK, RequestInv, OwnerInv, NEW r \in Requests,
           pc[r] = "mark", RunMark(r)
    PROVE  /\ \A k \in Keys \ {key[r]} : records'[k] = records[k]
           /\ \/ records' = records /\ WriteOutcome(Found(r), r) # "ok"
              \/ /\ Found(r) \in ClaimRecord
                 /\ WriteOutcome(Found(r), r) = "ok"
                 /\ Found(r).owner = r
                 /\ records'[key[r]] \in ClaimRecord
                 /\ records'[key[r]].fingerprint = Found(r).fingerprint
                 /\ records'[key[r]].owner = r
                 /\ records'[key[r]].lifecycle = "submitting"
                 /\ records'[key[r]].ref = r
<1>1. /\ key[r] \in Keys /\ Found(r) \in ClaimRecord \cup {None}
      /\ SkewOf(r) \in Nat
  BY StepTypes DEF TypeOK
<1> DEFINE new == AfterMark(Found(r), r, r, SkewOf(r))
<1>2. /\ records'[key[r]] = new
      /\ \A k \in Keys \ {key[r]} : records'[k] = records[k]
  BY <1>1 DEF RunMark, TypeOK
<1>3. CASE WriteOutcome(Found(r), r) = "ok"
  <2>1. /\ Found(r) \in ClaimRecord /\ Found(r).owner = r
        /\ new.fingerprint = Found(r).fingerprint /\ new.owner = r
        /\ new.lifecycle = "submitting" /\ new.ref = r
        /\ new \in ClaimRecord
    BY <1>1, <1>3, MarkEffect
  <2> HIDE DEF new
  <2> QED
    BY <1>2, <1>3, <2>1
<1>4. CASE WriteOutcome(Found(r), r) # "ok"
  <2>1. new = Found(r)
    BY <1>4, RefusedWrite
  <2>2. records' = records
    BY <1>1, <2>1 DEF RunMark, TypeOK, Found
  <2> QED
    BY <1>2, <1>4, <2>2
<1> QED
  BY <1>3, <1>4

LEMMA RunCompleteEffect ==
    ASSUME TypeOK, RequestInv, OwnerInv, NEW r \in Requests,
           pc[r] = "complete", RunComplete(r)
    PROVE  /\ \A k \in Keys \ {key[r]} : records'[k] = records[k]
           /\ \/ records' = records /\ WriteOutcome(Found(r), r) # "ok"
              \/ /\ Found(r) \in ClaimRecord
                 /\ WriteOutcome(Found(r), r) = "ok"
                 /\ Found(r).owner = r
                 /\ records'[key[r]] \in ClaimRecord
                 /\ records'[key[r]].fingerprint = Found(r).fingerprint
                 /\ records'[key[r]].owner = r
                 /\ records'[key[r]].lifecycle = "completed"
                 /\ records'[key[r]].ref = Found(r).ref
                 /\ records'[key[r]].response = Result(r)
<1>1. /\ key[r] \in Keys /\ Found(r) \in ClaimRecord \cup {None}
      /\ Result(r) \in Body
  BY StepTypes DEF TypeOK
<1> DEFINE new == AfterComplete(Found(r), r, Result(r))
<1>2. /\ records'[key[r]] = new
      /\ \A k \in Keys \ {key[r]} : records'[k] = records[k]
  BY <1>1 DEF RunComplete, TypeOK
<1>3. CASE WriteOutcome(Found(r), r) = "ok"
  <2>1. /\ Found(r) \in ClaimRecord /\ Found(r).owner = r
        /\ new.fingerprint = Found(r).fingerprint /\ new.owner = r
        /\ new.lifecycle = "completed" /\ new.ref = Found(r).ref
        /\ new.response = Result(r)
        /\ new \in ClaimRecord
    BY <1>1, <1>3, CompleteEffect
  <2> HIDE DEF new
  <2> QED
    BY <1>2, <1>3, <2>1
<1>4. CASE WriteOutcome(Found(r), r) # "ok"
  <2>1. new = Found(r)
    BY <1>4, RefusedWrite
  <2>2. records' = records
    BY <1>1, <2>1 DEF RunComplete, TypeOK, Found
  <2> QED
    BY <1>2, <1>4, <2>2
<1> QED
  BY <1>3, <1>4

\* A write by r, landing or not, keeps every record in step with its owner.
LEMMA WriteKeepsOwners ==
    ASSUME TypeOK, OwnerInv, NEW r \in Requests, key[r] \in Keys,
           key' = key, ep' = ep, epoch' = epoch,
           NEW l \in PC, pc' = [pc EXCEPT ![r] = l],
           pc[r] \in {"mark", "complete"},
           \A k \in Keys \ {key[r]} : records'[k] = records[k],
           \/ records'[key[r]] = records[key[r]] /\ l = "done"
           \/ /\ records[key[r]] # None
              /\ records[key[r]].owner = r
              /\ records'[key[r]].owner = r
              /\ records'[key[r]].lifecycle = "submitting" =>
                    records'[key[r]].ref = r
              /\ \/ l = "submit" /\ records'[key[r]].lifecycle = "submitting"
                 \/ l = "done"
    PROVE  OwnerInv'
<1> SUFFICES ASSUME NEW k \in Keys, records'[k] # None
             PROVE  OwnerOK(k)'
  BY DEF OwnerInv
<1>1. CASE records'[k] = records[k] /\ (records[k].owner = r => l = "done")
  <2>1. OwnerOK(k)
    BY <1>1 DEF OwnerInv
  <2>2. records[k].owner \in Requests
    BY <1>1 DEF TypeOK, ClaimRecord
  <2>3. \/ pc'[records[k].owner] = pc[records[k].owner]
        \/ pc'[records[k].owner] = "done"
    BY <1>1, <2>2 DEF TypeOK
  <2> QED
    BY <1>1, <2>1, <2>3 DEF OwnerOK
<1>2. CASE k # key[r]
  <2>1. records'[k] = records[k]
    BY <1>2
  <2>2. records[k].owner # r
    BY <1>2, <2>1 DEF OwnerInv, OwnerOK
  <2> QED
    BY <1>1, <2>1, <2>2
<1>3. CASE k = key[r] /\ records[k] # None /\ records[k].owner = r
           /\ records'[k].owner = r
  <2>1. OwnerOK(k)
    BY <1>3 DEF OwnerInv
  <2>2. pc'[r] = l
    BY DEF TypeOK
  <2>3. key'[r] = k /\ ep'[r] = epoch'[k]
    BY <1>3, <2>1 DEF OwnerOK
  <2>4. records'[k].lifecycle = "submitting" => records'[k].ref = r
    BY <1>3, <2>1 DEF OwnerOK
  <2>5. l = "done" \/ (l = "submit" /\ records'[k].lifecycle = "submitting")
    BY <1>3
  <2> QED
    BY <1>3, <2>2, <2>3, <2>4, <2>5 DEF OwnerOK
<1> QED
  BY <1>1, <1>2, <1>3

\* Every step keeps each record in step with its owner.
LEMMA OwnerStep ==
    ASSUME TypeOK, RequestInv, EpochInv, OwnerInv, [Next]_vars
    PROVE  OwnerInv'
<1>1. ASSUME NEW r \in Requests, NEW k \in Keys, Begin(r, k)
      PROVE  OwnerInv'
  <2> SUFFICES ASSUME NEW k0 \in Keys, records'[k0] # None
               PROVE  OwnerOK(k0)'
    BY DEF OwnerInv
  <2>1. records[k0] \in ClaimRecord /\ OwnerOK(k0) /\ records'[k0] = records[k0]
    BY <1>1 DEF Begin, OwnerInv, TypeOK
  <2>2. records[k0].owner \in Requests
    BY <2>1 DEF ClaimRecord
  <2> QED
    BY <1>1, <2>1, <2>2 DEF Begin, Go, OwnerOK, TypeOK
<1>2. ASSUME NEW r \in Requests, BeginPlain(r)
      PROVE  OwnerInv'
  <2> SUFFICES ASSUME NEW k0 \in Keys, records'[k0] # None
               PROVE  OwnerOK(k0)'
    BY DEF OwnerInv
  <2>1. records[k0] \in ClaimRecord /\ OwnerOK(k0) /\ records'[k0] = records[k0]
    BY <1>2 DEF BeginPlain, OwnerInv, TypeOK
  <2>2. records[k0].owner \in Requests
    BY <2>1 DEF ClaimRecord
  <2> QED
    BY <1>2, <2>1, <2>2 DEF BeginPlain, Go, request, OwnerOK, TypeOK
<1>3. ASSUME NEW r \in Requests, ClaimGranted(r)
      PROVE  OwnerInv'
  BY <1>3, GrantKeepsOwners DEF ClaimGranted, Go, request
<1>4. ASSUME NEW r \in Requests, ClaimReplays(r)
      PROVE  OwnerInv'
  BY <1>4, RefusalKeepsOwners DEF ClaimReplays, Go, Return, request, PC
<1>5. ASSUME NEW r \in Requests, ClaimRefused(r)
      PROVE  OwnerInv'
  BY <1>5, RefusalKeepsOwners DEF ClaimRefused, Go, Return, request, PC
<1>6. ASSUME NEW r \in Requests, ClaimAwaits(r)
      PROVE  OwnerInv'
  BY <1>6, RefusalKeepsOwners DEF ClaimAwaits, Go, request, PC
<1>7. ASSUME NEW r \in Requests, ClaimFault(r)
      PROVE  OwnerInv'
  <2>1. CASE RunClaim(r) /\ ClaimSays(r) \in {"claimed", "took_over"}
    BY <1>7, <2>1, GrantKeepsOwners DEF ClaimFault, Go, Return, request
  <2>2. CASE RunClaim(r) /\ ClaimSays(r) \notin {"claimed", "took_over"}
    BY <1>7, <2>2, RefusalKeepsOwners DEF ClaimFault, Go, Return, request, PC
  <2>3. CASE UNCHANGED <<records, epoch, ep>>
    BY <1>7, <2>3
    DEF ClaimFault, Go, Return, request, OwnerInv, OwnerOK, TypeOK
  <2> QED
    BY <1>7, <2>1, <2>2, <2>3 DEF ClaimFault
<1>8. ASSUME NEW r \in Requests, Reconcile(r)
      PROVE  OwnerInv'
  <2> SUFFICES ASSUME NEW k0 \in Keys, records'[k0] # None
               PROVE  OwnerOK(k0)'
    BY DEF OwnerInv
  <2>1. records[k0] \in ClaimRecord /\ OwnerOK(k0) /\ records'[k0] = records[k0]
    BY <1>8 DEF Reconcile, OwnerInv, TypeOK
  <2>2. records[k0].owner \in Requests
    BY <2>1 DEF ClaimRecord
  <2> QED
    BY <1>8, <2>1, <2>2 DEF Reconcile, Go, Return, request, OwnerOK, TypeOK
<1>9. ASSUME NEW r \in Requests, Invalid(r)
      PROVE  OwnerInv'
  <2> SUFFICES ASSUME NEW k0 \in Keys, records'[k0] # None
               PROVE  OwnerOK(k0)'
    BY DEF OwnerInv
  <2>1. records[k0] \in ClaimRecord /\ OwnerOK(k0) /\ records'[k0] = records[k0]
    BY <1>9 DEF Invalid, OwnerInv, TypeOK
  <2>2. records[k0].owner \in Requests
    BY <2>1 DEF ClaimRecord
  <2> QED
    BY <1>9, <2>1, <2>2 DEF Invalid, Go, Return, request, OwnerOK, TypeOK
<1>10. ASSUME NEW r \in Requests, RouteFails(r)
      PROVE  OwnerInv'
  <2> SUFFICES ASSUME NEW k0 \in Keys, records'[k0] # None
               PROVE  OwnerOK(k0)'
    BY DEF OwnerInv
  <2>1. records[k0] \in ClaimRecord /\ OwnerOK(k0) /\ records'[k0] = records[k0]
    BY <1>10 DEF RouteFails, OwnerInv, TypeOK
  <2>2. records[k0].owner \in Requests
    BY <2>1 DEF ClaimRecord
  <2> QED
    BY <1>10, <2>1, <2>2
    DEF RouteFails, Go, Settle, Return, request, OwnerOK, TypeOK
<1>11. ASSUME NEW r \in Requests, RouteFound(r)
      PROVE  OwnerInv'
  <2> SUFFICES ASSUME NEW k0 \in Keys, records'[k0] # None
               PROVE  OwnerOK(k0)'
    BY DEF OwnerInv
  <2>1. records[k0] \in ClaimRecord /\ OwnerOK(k0) /\ records'[k0] = records[k0]
    BY <1>11 DEF RouteFound, OwnerInv, TypeOK
  <2>2. records[k0].owner \in Requests
    BY <2>1 DEF ClaimRecord
  <2> QED
    BY <1>11, <2>1, <2>2, EngineAssumption
    DEF RouteFound, Go, request, OwnerOK, TypeOK
<1>12. ASSUME NEW r \in Requests, MarkOk(r)
      PROVE  OwnerInv'
  <2>1. key[r] \in Keys
    BY <1>12, StepTypes DEF MarkOk
  <2>2. CASE RunMark(r)
    BY <1>12, <2>1, <2>2, NoneAssumption, RunMarkEffect, WriteKeepsOwners
    DEF MarkOk, Go, request, PC, Found
  <2> QED
    BY <1>12, <2>2 DEF MarkOk
<1>13. ASSUME NEW r \in Requests, MarkRefused(r)
      PROVE  OwnerInv'
  <2> SUFFICES ASSUME NEW k0 \in Keys, records'[k0] # None
               PROVE  OwnerOK(k0)'
    BY DEF OwnerInv
  <2>1. records[k0] \in ClaimRecord /\ OwnerOK(k0) /\ records'[k0] = records[k0]
    BY <1>13 DEF MarkRefused, OwnerInv, TypeOK
  <2>2. records[k0].owner \in Requests
    BY <2>1 DEF ClaimRecord
  <2> QED
    BY <1>13, <2>1, <2>2 DEF MarkRefused, Go, Return, request, OwnerOK, TypeOK
<1>14. ASSUME NEW r \in Requests, MarkFault(r)
      PROVE  OwnerInv'
  <2>1. key[r] \in Keys
    BY <1>14, StepTypes DEF MarkFault
  <2>2. CASE RunMark(r)
    BY <1>14, <2>1, <2>2, NoneAssumption, RunMarkEffect, WriteKeepsOwners
    DEF MarkFault, Go, Return, request, PC, Found
  <2>3. CASE UNCHANGED records
    BY <1>14, <2>3
    DEF MarkFault, Go, Return, request, OwnerInv, OwnerOK, TypeOK
  <2> QED
    BY <1>14, <2>2, <2>3 DEF MarkFault
<1>15. ASSUME NEW r \in Requests, SubmitSend(r)
      PROVE  OwnerInv'
  <2> SUFFICES ASSUME NEW k0 \in Keys, records'[k0] # None
               PROVE  OwnerOK(k0)'
    BY DEF OwnerInv
  <2>1. records[k0] \in ClaimRecord /\ OwnerOK(k0) /\ records'[k0] = records[k0]
    BY <1>15 DEF SubmitSend, OwnerInv, TypeOK
  <2>2. records[k0].owner \in Requests
    BY <2>1 DEF ClaimRecord
  <2> QED
    BY <1>15, <2>1, <2>2 DEF SubmitSend, Go, request, OwnerOK, TypeOK
<1>16. ASSUME NEW r \in Requests, SubmitOk(r)
      PROVE  OwnerInv'
  <2> SUFFICES ASSUME NEW k0 \in Keys, records'[k0] # None
               PROVE  OwnerOK(k0)'
    BY DEF OwnerInv
  <2>1. records[k0] \in ClaimRecord /\ OwnerOK(k0) /\ records'[k0] = records[k0]
    BY <1>16 DEF SubmitOk, OwnerInv, TypeOK
  <2>2. records[k0].owner \in Requests
    BY <2>1 DEF ClaimRecord
  <2> QED
    BY <1>16, <2>1, <2>2
    DEF SubmitOk, Go, Settle, Return, request, OwnerOK, TypeOK
<1>17. ASSUME NEW r \in Requests, SubmitRetries(r)
      PROVE  OwnerInv'
  <2> SUFFICES ASSUME NEW k0 \in Keys, records'[k0] # None
               PROVE  OwnerOK(k0)'
    BY DEF OwnerInv
  <2>1. records[k0] \in ClaimRecord /\ OwnerOK(k0) /\ records'[k0] = records[k0]
    BY <1>17 DEF SubmitRetries, OwnerInv, TypeOK
  <2>2. records[k0].owner \in Requests
    BY <2>1 DEF ClaimRecord
  <2> QED
    BY <1>17, <2>1, <2>2 DEF SubmitRetries, Go, request, OwnerOK, TypeOK
<1>18. ASSUME NEW r \in Requests, SubmitGivesUp(r)
      PROVE  OwnerInv'
  <2> SUFFICES ASSUME NEW k0 \in Keys, records'[k0] # None
               PROVE  OwnerOK(k0)'
    BY DEF OwnerInv
  <2>1. records[k0] \in ClaimRecord /\ OwnerOK(k0) /\ records'[k0] = records[k0]
    BY <1>18 DEF SubmitGivesUp, OwnerInv, TypeOK
  <2>2. records[k0].owner \in Requests
    BY <2>1 DEF ClaimRecord
  <2> QED
    BY <1>18, <2>1, <2>2
    DEF SubmitGivesUp, Go, Settle, Return, request, OwnerOK, TypeOK
<1>19. ASSUME NEW r \in Requests, CompleteOk(r)
      PROVE  OwnerInv'
  <2>1. key[r] \in Keys
    BY <1>19, StepTypes DEF CompleteOk
  <2>2. CASE RunComplete(r)
    BY <1>19, <2>1, <2>2, NoneAssumption, RunCompleteEffect, WriteKeepsOwners
    DEF CompleteOk, Go, Return, request, PC, Found
  <2> QED
    BY <1>19, <2>2 DEF CompleteOk
<1>20. ASSUME NEW r \in Requests, CompleteRefused(r)
      PROVE  OwnerInv'
  <2> SUFFICES ASSUME NEW k0 \in Keys, records'[k0] # None
               PROVE  OwnerOK(k0)'
    BY DEF OwnerInv
  <2>1. records[k0] \in ClaimRecord /\ OwnerOK(k0) /\ records'[k0] = records[k0]
    BY <1>20 DEF CompleteRefused, OwnerInv, TypeOK
  <2>2. records[k0].owner \in Requests
    BY <2>1 DEF ClaimRecord
  <2> QED
    BY <1>20, <2>1, <2>2
    DEF CompleteRefused, Go, Return, request, OwnerOK, TypeOK
<1>21. ASSUME NEW r \in Requests, CompleteFault(r)
      PROVE  OwnerInv'
  <2>1. key[r] \in Keys
    BY <1>21, StepTypes DEF CompleteFault
  <2>2. CASE RunComplete(r)
    BY <1>21, <2>1, <2>2, NoneAssumption, RunCompleteEffect, WriteKeepsOwners
    DEF CompleteFault, Go, Return, request, PC, Found
  <2>3. CASE UNCHANGED records
    BY <1>21, <2>3
    DEF CompleteFault, Go, Return, request, OwnerInv, OwnerOK, TypeOK
  <2> QED
    BY <1>21, <2>2, <2>3 DEF CompleteFault
<1>22. ASSUME NEW n \in Nodes, Crash(n)
      PROVE  OwnerInv'
  <2> SUFFICES ASSUME NEW k0 \in Keys, records'[k0] # None
               PROVE  OwnerOK(k0)'
    BY DEF OwnerInv
  <2>1. records[k0] \in ClaimRecord /\ OwnerOK(k0) /\ records'[k0] = records[k0]
    BY <1>22 DEF Crash, OwnerInv, TypeOK
  <2>2. records[k0].owner \in Requests
    BY <2>1 DEF ClaimRecord
  <2> QED
    BY <1>22, <2>1, <2>2 DEF Crash, request, OwnerOK, TypeOK
<1>23. ASSUME Tick
      PROVE  OwnerInv'
  <2> SUFFICES ASSUME NEW k \in Keys, records'[k] # None
               PROVE  OwnerOK(k)'
    BY DEF OwnerInv
  <2>1. records'[k] = Age(records[k]) /\ records[k] \in ClaimRecord
    BY <1>23, AgeNone DEF Tick, TypeOK
  <2>2. /\ records'[k].owner = records[k].owner
        /\ records'[k].lifecycle = records[k].lifecycle
        /\ records'[k].ref = records[k].ref
    BY <2>1, AgeEffect
  <2>3. OwnerOK(k)
    BY <2>1, NoneAssumption DEF OwnerInv
  <2> QED
    BY <1>23, <2>2, <2>3 DEF Tick, OwnerOK, request
<1>24. CASE UNCHANGED vars
  <2> SUFFICES ASSUME NEW k0 \in Keys, records'[k0] # None
               PROVE  OwnerOK(k0)'
    BY DEF OwnerInv
  <2>1. records[k0] \in ClaimRecord /\ OwnerOK(k0) /\ records'[k0] = records[k0]
    BY <1>24 DEF vars, OwnerInv, TypeOK
  <2>2. records[k0].owner \in Requests
    BY <2>1 DEF ClaimRecord
  <2> QED
    BY <1>24, <2>1, <2>2 DEF vars, OwnerOK, TypeOK
<1>25. ASSUME NEW r \in Requests, Abandon(r)
      PROVE  OwnerInv'
  <2> SUFFICES ASSUME NEW k0 \in Keys, records'[k0] # None
               PROVE  OwnerOK(k0)'
    BY DEF OwnerInv
  <2>1. records[k0] \in ClaimRecord /\ OwnerOK(k0) /\ records'[k0] = records[k0]
    BY <1>25 DEF Abandon, OwnerInv, TypeOK
  <2>2. records[k0].owner \in Requests
    BY <2>1 DEF ClaimRecord
  <2> QED
    BY <1>25, <2>1, <2>2 DEF Abandon, Go, Return, request, OwnerOK, TypeOK
<1> QED
  BY <1>1, <1>2, <1>3, <1>4, <1>5, <1>6, <1>7, <1>8, <1>9, <1>10, <1>11,
     <1>12, <1>13, <1>14, <1>15, <1>16, <1>17, <1>18, <1>19, <1>20, <1>21,
     <1>22, <1>23, <1>24, <1>25
  DEF Next, Step

\* A step that marks no request and lets records only expire or advance
\* keeps both facts about marked requests.
LEMMA MarkedKept ==
    ASSUME TypeOK, MarkedInv, UniqueMarked,
           key' = key \/ (\A s \in Requests : Marked(s) => key'[s] = key[s]),
           ep' = ep, epoch' = epoch,
           \A s \in Requests : Marked(s)' => Marked(s) /\ key'[s] = key[s],
           \A k \in Keys :
              \/ records'[k] = None
              \/ records'[k] = records[k]
              \/ /\ records[k] # None
                 /\ records'[k].owner = records[k].owner
                 /\ records[k].lifecycle # "in_flight" =>
                        records'[k].lifecycle # "in_flight"
    PROVE  MarkedInv' /\ UniqueMarked'
<1>1. ASSUME NEW s \in Requests, Marked(s)
      PROVE  key[s] \in Keys
  BY <1>1 DEF Marked, TypeOK
<1>2. MarkedInv'
  <2> SUFFICES ASSUME NEW s \in Requests, Marked(s)'
               PROVE  (\/ records[key[s]] = None
                       \/ ep[s] < epoch[key[s]]
                       \/ /\ records[key[s]].owner = s
                          /\ records[key[s]].lifecycle # "in_flight")'
    BY DEF MarkedInv
  <2>1. Marked(s) /\ key'[s] = key[s] /\ key[s] \in Keys
    BY <1>1
  <2>2. \/ records[key[s]] = None
        \/ ep[s] < epoch[key[s]]
        \/ records[key[s]].owner = s /\ records[key[s]].lifecycle # "in_flight"
    BY <2>1 DEF MarkedInv
  <2> QED
    BY <2>1, <2>2
<1>3. UniqueMarked'
  BY DEF UniqueMarked, Rivals
<1> QED
  BY <1>2, <1>3

\* A granted claim cannot take a marked request's claim away within its epoch.
LEMMA GrantKeepsMarked ==
    ASSUME TypeOK, RequestInv, EpochInv, OwnerInv, MarkedInv, UniqueMarked,
           NEW r \in Requests, pc[r] = "claim", RunClaim(r),
           ClaimSays(r) \in {"claimed", "took_over"},
           key' = key, attempts' = attempts,
           NEW l \in {"route", "done"}, pc' = [pc EXCEPT ![r] = l]
    PROVE  MarkedInv' /\ UniqueMarked'
<1>1. ~Marked(r)'
  BY DEF Marked, RequestInv, TypeOK
<1>2. \A s \in Requests : Marked(s)' => s # r /\ Marked(s) /\ ep'[s] = ep[s]
                                        /\ key[s] \in Keys
  BY <1>1, RunClaimEpoch DEF Marked, TypeOK
<1>3. key[r] \in Keys
  BY StepTypes
<1>4. MarkedInv'
  <2> SUFFICES ASSUME NEW s \in Requests, Marked(s)'
               PROVE  (\/ records[key[s]] = None
                       \/ ep[s] < epoch[key[s]]
                       \/ /\ records[key[s]].owner = s
                          /\ records[key[s]].lifecycle # "in_flight")'
    BY DEF MarkedInv
  <2>1. /\ s # r /\ Marked(s) /\ ep'[s] = ep[s] /\ key[s] \in Keys
        /\ key'[s] = key[s]
    BY <1>2
  <2>2. \/ records[key[s]] = None
        \/ ep[s] < epoch[key[s]]
        \/ records[key[s]].owner = s /\ records[key[s]].lifecycle # "in_flight"
    BY <2>1 DEF MarkedInv
  <2>3. CASE key[s] # key[r]
    <3>1. records'[key[s]] = records[key[s]] /\ epoch'[key[s]] = epoch[key[s]]
      BY <2>1, <2>3, RunClaimGranted, RunClaimEpoch
    <3> QED
      BY <2>1, <2>2, <3>1
  <2>4. CASE key[s] = key[r] /\ Found(r) = None
    <3>1. epoch'[key[s]] = epoch[key[s]] + 1
      BY <2>4, RunClaimGranted
    <3>2. ep[s] <= epoch[key[s]] /\ ep[s] \in Nat /\ epoch[key[s]] \in Nat
      BY <2>1, NoneAssumption, EngineAssumption DEF EpochInv, TypeOK
    <3> QED
      BY <2>1, <3>1, <3>2
  <2>5. CASE key[s] = key[r] /\ Found(r) # None
    <3>1. Found(r).lifecycle = "in_flight" /\ epoch' = epoch
      BY <2>5, RunClaimGranted
    <3>2. ep[s] < epoch[key[s]]
      BY <2>2, <2>5, <3>1 DEF Found
    <3> QED
      BY <2>1, <3>1, <3>2
  <2> QED
    BY <2>3, <2>4, <2>5
<1>5. UniqueMarked'
  BY <1>2 DEF UniqueMarked, Rivals
<1> QED
  BY <1>4, <1>5

\* A successful checkpoint marks its request; the owner check makes sure no
\* other request is marked in the same epoch.
LEMMA MarkOkMarks ==
    ASSUME TypeOK, RequestInv, EpochInv, OwnerInv, MarkedInv, UniqueMarked,
           NEW r \in Requests, MarkOk(r)
    PROVE  MarkedInv' /\ UniqueMarked'
<1>1. pc[r] = "mark" /\ RunMark(r) /\ WriteOutcome(Found(r), r) = "ok"
  BY DEF MarkOk
<1>2. key[r] \in Keys
  BY <1>1, StepTypes
<1>3. /\ Found(r) # None /\ Found(r).owner = r
      /\ records'[key[r]].owner = r
      /\ records'[key[r]].lifecycle = "submitting"
      /\ \A k \in Keys \ {key[r]} : records'[k] = records[k]
  BY <1>1, RunMarkEffect, NoneAssumption
<1>4. ep[r] = epoch[key[r]]
  BY <1>2, <1>3 DEF OwnerInv, OwnerOK, Found
<1>5. \A s \in Requests \ {r} : Marked(s)' => Marked(s)
  BY DEF MarkOk, Go, Marked, TypeOK, request
<1>6. /\ key' = key /\ ep' = ep /\ epoch' = epoch
      /\ \A s \in Requests : key[s] # None => key[s] \in Keys
  BY DEF MarkOk, request, TypeOK
<1>7. \A s \in Requests \ {r} : Marked(s) /\ key[s] = key[r] => ep[s] < epoch[key[r]]
  BY <1>3 DEF MarkedInv, Found
<1>8. MarkedInv'
  <2> SUFFICES ASSUME NEW s \in Requests, Marked(s)'
               PROVE  (\/ records[key[s]] = None
                       \/ ep[s] < epoch[key[s]]
                       \/ /\ records[key[s]].owner = s
                          /\ records[key[s]].lifecycle # "in_flight")'
    BY DEF MarkedInv
  <2>1. CASE s = r
    BY <1>3, <1>6, <2>1
  <2>2. CASE s # r /\ key[s] = key[r]
    BY <1>5, <1>6, <1>7, <2>2
  <2>3. CASE s # r /\ key[s] # key[r]
    <3>1. Marked(s) /\ key[s] \in Keys
      BY <1>5, <1>6, <2>3 DEF Marked
    <3>2. records'[key[s]] = records[key[s]]
      BY <1>3, <2>3, <3>1
    <3> QED
      BY <1>6, <3>1, <3>2 DEF MarkedInv
  <2> QED
    BY <2>1, <2>2, <2>3
<1>9. UniqueMarked'
  <2> SUFFICES ASSUME NEW s \in Requests, NEW t \in Requests,
                      Marked(s)', Marked(t)', Rivals(s, t)', s # t
               PROVE  FALSE
    BY DEF UniqueMarked
  <2>1. Rivals(s, t)
    BY <1>6 DEF Rivals
  <2>2. CASE s # r /\ t # r
    BY <1>5, <2>1, <2>2 DEF UniqueMarked
  <2>3. \A u \in Requests \ {r} : Marked(u) /\ key[u] = key[r] => ep[u] # ep[r]
    BY <1>2, <1>4, <1>7 DEF TypeOK
  <2>4. CASE s = r \/ t = r
    BY <1>5, <2>1, <2>3, <2>4 DEF Rivals
  <2> QED
    BY <2>2, <2>4
<1> QED
  BY <1>8, <1>9

\* Every step keeps the facts about requests past their checkpoint.
LEMMA MarkedStep ==
    ASSUME TypeOK, RequestInv, EpochInv, OwnerInv, MarkedInv, UniqueMarked, [Next]_vars
    PROVE  (MarkedInv /\ UniqueMarked)'
<1>1. ASSUME NEW r \in Requests, NEW k \in Keys, Begin(r, k)
      PROVE  (MarkedInv /\ UniqueMarked)'
  BY <1>1, MarkedKept DEF Begin, Go, Marked, TypeOK, RequestInv
<1>2. ASSUME NEW r \in Requests, BeginPlain(r)
      PROVE  (MarkedInv /\ UniqueMarked)'
  BY <1>2, MarkedKept DEF BeginPlain, Go, request, Marked, TypeOK, RequestInv
<1>3. ASSUME NEW r \in Requests, ClaimGranted(r)
      PROVE  (MarkedInv /\ UniqueMarked)'
  BY <1>3, GrantKeepsMarked DEF ClaimGranted, Go, request
<1>4. ASSUME NEW r \in Requests, ClaimReplays(r)
      PROVE  (MarkedInv /\ UniqueMarked)'
  <2>1. records' = records /\ epoch' = epoch
    BY <1>4, RunClaimRefused DEF ClaimReplays
  <2>2. \A s \in Requests : Marked(s)' => Marked(s) /\ s # r
    BY <1>4 DEF ClaimReplays, Go, Return, request, Marked, RequestInv, TypeOK
  <2>3. \A s \in Requests : s # r => ep'[s] = ep[s]
    BY <1>4, RunClaimEpoch DEF ClaimReplays
  <2> QED
    BY <1>4, <2>1, <2>2, <2>3
    DEF ClaimReplays, MarkedInv, UniqueMarked, Rivals, request
<1>5. ASSUME NEW r \in Requests, ClaimRefused(r)
      PROVE  (MarkedInv /\ UniqueMarked)'
  <2>1. records' = records /\ epoch' = epoch
    BY <1>5, RunClaimRefused DEF ClaimRefused
  <2>2. \A s \in Requests : Marked(s)' => Marked(s) /\ s # r
    BY <1>5 DEF ClaimRefused, Go, Return, request, Marked, RequestInv, TypeOK
  <2>3. \A s \in Requests : s # r => ep'[s] = ep[s]
    BY <1>5, RunClaimEpoch DEF ClaimRefused
  <2> QED
    BY <1>5, <2>1, <2>2, <2>3
    DEF ClaimRefused, MarkedInv, UniqueMarked, Rivals, request
<1>6. ASSUME NEW r \in Requests, ClaimAwaits(r)
      PROVE  (MarkedInv /\ UniqueMarked)'
  <2>1. records' = records /\ epoch' = epoch
    BY <1>6, RunClaimRefused DEF ClaimAwaits
  <2>2. \A s \in Requests : Marked(s)' => Marked(s) /\ s # r
    BY <1>6 DEF ClaimAwaits, Go, request, Marked, RequestInv, TypeOK
  <2>3. \A s \in Requests : s # r => ep'[s] = ep[s]
    BY <1>6, RunClaimEpoch DEF ClaimAwaits
  <2> QED
    BY <1>6, <2>1, <2>2, <2>3
    DEF ClaimAwaits, MarkedInv, UniqueMarked, Rivals, request
<1>7. ASSUME NEW r \in Requests, ClaimFault(r)
      PROVE  (MarkedInv /\ UniqueMarked)'
  <2>1. CASE RunClaim(r) /\ ClaimSays(r) \in {"claimed", "took_over"}
    BY <1>7, <2>1, GrantKeepsMarked DEF ClaimFault, Go, Return, request
  <2>2. CASE RunClaim(r) /\ ClaimSays(r) \notin {"claimed", "took_over"}
    <3>1. records' = records /\ epoch' = epoch
      BY <1>7, <2>2, RunClaimRefused DEF ClaimFault
    <3>2. \A s \in Requests : Marked(s)' => Marked(s) /\ s # r
      BY <1>7 DEF ClaimFault, Go, Return, request, Marked, RequestInv, TypeOK
    <3>3. \A s \in Requests : s # r => ep'[s] = ep[s]
      BY <1>7, <2>2, RunClaimEpoch DEF ClaimFault
    <3> QED
      BY <1>7, <3>1, <3>2, <3>3
      DEF ClaimFault, MarkedInv, UniqueMarked, Rivals, request
  <2>3. CASE UNCHANGED <<records, epoch, ep>>
    BY <1>7, <2>3, MarkedKept
    DEF ClaimFault, Go, Return, request, Marked, TypeOK
  <2> QED
    BY <1>7, <2>1, <2>2, <2>3 DEF ClaimFault
<1>8. ASSUME NEW r \in Requests, Reconcile(r)
      PROVE  (MarkedInv /\ UniqueMarked)'
  BY <1>8, MarkedKept DEF Reconcile, Go, Return, request, Marked, TypeOK
<1>9. ASSUME NEW r \in Requests, Invalid(r)
      PROVE  (MarkedInv /\ UniqueMarked)'
  BY <1>9, MarkedKept DEF Invalid, Go, Return, request, Marked, TypeOK
<1>10. ASSUME NEW r \in Requests, RouteFails(r)
      PROVE  (MarkedInv /\ UniqueMarked)'
  BY <1>10, MarkedKept
  DEF RouteFails, Go, Settle, Return, request, Marked, TypeOK
<1>11. ASSUME NEW r \in Requests, RouteFound(r)
      PROVE  (MarkedInv /\ UniqueMarked)'
  BY <1>11, MarkedKept DEF RouteFound, Go, request, Marked, TypeOK
<1>12. ASSUME NEW r \in Requests, MarkOk(r)
      PROVE  (MarkedInv /\ UniqueMarked)'
  BY <1>12, MarkOkMarks
<1>13. ASSUME NEW r \in Requests, MarkRefused(r)
      PROVE  (MarkedInv /\ UniqueMarked)'
  BY <1>13, MarkedKept DEF MarkRefused, Go, Return, request, Marked, TypeOK
<1>14. ASSUME NEW r \in Requests, MarkFault(r)
      PROVE  (MarkedInv /\ UniqueMarked)'
  <2>1. \A s \in Requests : Marked(s)' => Marked(s)
    BY <1>14 DEF MarkFault, Go, Return, request, Marked, TypeOK
  <2>2. \A k \in Keys :
          \/ records'[k] = records[k]
          \/ /\ records[k] # None
             /\ records'[k].owner = records[k].owner
             /\ records'[k].lifecycle # "in_flight"
    BY <1>14, StepTypes, NoneAssumption, RunMarkEffect DEF MarkFault, Found
  <2> QED
    BY <1>14, <2>1, <2>2, MarkedKept DEF MarkFault, request
<1>15. ASSUME NEW r \in Requests, SubmitSend(r)
      PROVE  (MarkedInv /\ UniqueMarked)'
  BY <1>15, MarkedKept DEF SubmitSend, Go, request, Marked, TypeOK
<1>16. ASSUME NEW r \in Requests, SubmitOk(r)
      PROVE  (MarkedInv /\ UniqueMarked)'
  BY <1>16, MarkedKept
  DEF SubmitOk, Go, Settle, Return, request, Marked, TypeOK
<1>17. ASSUME NEW r \in Requests, SubmitRetries(r)
      PROVE  (MarkedInv /\ UniqueMarked)'
  BY <1>17, MarkedKept DEF SubmitRetries, Go, request, Marked, TypeOK
<1>18. ASSUME NEW r \in Requests, SubmitGivesUp(r)
      PROVE  (MarkedInv /\ UniqueMarked)'
  BY <1>18, MarkedKept
  DEF SubmitGivesUp, Go, Settle, Return, request, Marked, TypeOK
<1>19. ASSUME NEW r \in Requests, CompleteOk(r)
      PROVE  (MarkedInv /\ UniqueMarked)'
  <2>1. \A s \in Requests : Marked(s)' => Marked(s)
    BY <1>19 DEF CompleteOk, Go, Return, request, Marked, TypeOK
  <2>2. \A k \in Keys :
          \/ records'[k] = records[k]
          \/ /\ records[k] # None
             /\ records'[k].owner = records[k].owner
             /\ records'[k].lifecycle # "in_flight"
    BY <1>19, StepTypes, NoneAssumption, RunCompleteEffect
    DEF CompleteOk, Found
  <2> QED
    BY <1>19, <2>1, <2>2, MarkedKept DEF CompleteOk, request
<1>20. ASSUME NEW r \in Requests, CompleteRefused(r)
      PROVE  (MarkedInv /\ UniqueMarked)'
  BY <1>20, MarkedKept DEF CompleteRefused, Go, Return, request, Marked, TypeOK
<1>21. ASSUME NEW r \in Requests, CompleteFault(r)
      PROVE  (MarkedInv /\ UniqueMarked)'
  <2>1. \A s \in Requests : Marked(s)' => Marked(s)
    BY <1>21 DEF CompleteFault, Go, Return, request, Marked, TypeOK
  <2>2. \A k \in Keys :
          \/ records'[k] = records[k]
          \/ /\ records[k] # None
             /\ records'[k].owner = records[k].owner
             /\ records'[k].lifecycle # "in_flight"
    BY <1>21, StepTypes, NoneAssumption, RunCompleteEffect
    DEF CompleteFault, Found
  <2> QED
    BY <1>21, <2>1, <2>2, MarkedKept DEF CompleteFault, request
<1>22. ASSUME NEW n \in Nodes, Crash(n)
      PROVE  (MarkedInv /\ UniqueMarked)'
  BY <1>22, MarkedKept DEF Crash, request, Marked, TypeOK
<1>23. ASSUME Tick
      PROVE  (MarkedInv /\ UniqueMarked)'
  <2>1. ASSUME NEW k \in Keys, records'[k] # None
        PROVE  /\ records[k] # None
               /\ records'[k].owner = records[k].owner
               /\ records'[k].lifecycle = records[k].lifecycle
    <3>1. records'[k] = Age(records[k])
      BY <1>23 DEF Tick
    <3>2. records[k] # None
      BY <2>1, <3>1, AgeNone
    <3>3. records[k] \in ClaimRecord
      BY <3>2 DEF TypeOK
    <3> QED
      BY <2>1, <3>1, <3>2, <3>3, AgeEffect
  <2> QED
    BY <1>23, <2>1, MarkedKept DEF Tick, Marked, request
<1>24. CASE UNCHANGED vars
  BY <1>24, MarkedKept DEF vars, Marked, TypeOK
<1>25. ASSUME NEW r \in Requests, Abandon(r)
      PROVE  (MarkedInv /\ UniqueMarked)'
  BY <1>25, MarkedKept DEF Abandon, Go, Return, request, Marked, TypeOK
<1> QED
  BY <1>1, <1>2, <1>3, <1>4, <1>5, <1>6, <1>7, <1>8, <1>9, <1>10, <1>11,
     <1>12, <1>13, <1>14, <1>15, <1>16, <1>17, <1>18, <1>19, <1>20, <1>21,
     <1>22, <1>23, <1>24, <1>25
  DEF Next, Step

-----------------------------------------------------------------------------
LEMMA InvInit == Init => IInv
<1> SUFFICES ASSUME Init PROVE IInv
  OBVIOUS
<1>1. TypeOK
  BY TypeInit
<1>2. \A r \in Requests : /\ pc[r] = "idle" /\ key[r] = None
                          /\ attempts[r] = 0 /\ ep[r] = 0
  BY DEF Init
<1>3. \A k \in Keys : records[k] = None
  BY DEF Init
<1> QED
  BY <1>1, <1>2, <1>3
  DEF IInv, RequestInv, EpochInv, OwnerInv, MarkedInv, UniqueMarked, Marked

LEMMA InvStep == IInv /\ [Next]_vars => IInv'
  BY TypeStep, RequestStep, EpochStep, OwnerStep, MarkedStep DEF IInv

\* The inductive invariant holds in every reachable state of the engine.
THEOREM Invariance == Spec => []IInv
<1>1. Init => IInv
  BY InvInit
<1>2. IInv /\ [Next]_vars => IInv'
  BY InvStep
<1> QED
  BY <1>1, <1>2, PTL DEF Spec

\* While a claim record lives, at most one request under its key ever calls
\* adapter.submit, whatever the lease, the ttl, the clock skew, the crashes
\* and the lost replies.
THEOREM SubmitOnce == Spec => []AtMostOneSubmitter
<1>1. IInv => AtMostOneSubmitter
  <2> SUFFICES ASSUME IInv, NEW r \in Requests, NEW s \in Requests,
                      Rivals(r, s), attempts[r] > 0, attempts[s] > 0
               PROVE  r = s
    BY DEF AtMostOneSubmitter
  <2>1. Marked(r) /\ Marked(s)
    BY DEF Marked, Rivals
  <2> QED
    BY <2>1 DEF IInv, UniqueMarked
<1> QED
  BY <1>1, Invariance, PTL
-----------------------------------------------------------------------------
\* A step that leaves a record alone moves it forward trivially.
LEMMA SameMoves ==
    ASSUME NEW rec \in ClaimRecord
    PROVE  ClaimMoves(rec, rec)
  BY DEF ClaimMoves, ClaimRecord

\* A granted claim changes a claim in flight only.
LEMMA GrantMoves ==
    ASSUME IInv, NEW r \in Requests, pc[r] = "claim", RunClaim(r),
           NEW k \in Keys, records[k] # None
    PROVE  ClaimMoves(records[k], records'[k])
<1>1. records[k] \in ClaimRecord
  BY DEF IInv, TypeOK
<1>2. CASE ClaimSays(r) \notin {"claimed", "took_over"}
  BY <1>1, <1>2, RunClaimRefused, SameMoves DEF IInv
<1>3. CASE ClaimSays(r) \in {"claimed", "took_over"} /\ k # key[r]
  <2>1. records'[k] = records[k]
    BY <1>3, RunClaimGranted DEF IInv
  <2> QED
    BY <1>1, <2>1, SameMoves
<1>4. CASE ClaimSays(r) \in {"claimed", "took_over"} /\ k = key[r]
  <2>1. /\ Found(r) = records[k]
        /\ records'[k].lifecycle = "in_flight"
        /\ records[k].lifecycle = "in_flight"
        /\ records'[k].fingerprint = records[k].fingerprint
    BY <1>4, RunClaimGranted DEF IInv, Found
  <2> QED
    BY <2>1 DEF ClaimMoves
<1> QED
  BY <1>2, <1>3, <1>4

\* The checkpoint is the owner's own step from in flight to submitting.
LEMMA MarkMoves ==
    ASSUME IInv, NEW r \in Requests, pc[r] = "mark", RunMark(r),
           NEW k \in Keys, records[k] # None
    PROVE  ClaimMoves(records[k], records'[k])
<1>1. records[k] \in ClaimRecord
  BY DEF IInv, TypeOK
<1>2. CASE records'[k] = records[k]
  BY <1>1, <1>2, SameMoves
<1>3. CASE records'[k] # records[k]
  <2>1. k = key[r] /\ records[k].owner = r /\ records'[k].owner = r
        /\ records'[k].fingerprint = records[k].fingerprint
    BY <1>3, RunMarkEffect DEF IInv, Found
  <2>2. records[k].lifecycle = "in_flight"
    BY <2>1 DEF IInv, OwnerInv, OwnerOK
  <2> QED
    BY <2>1, <2>2 DEF ClaimMoves
<1> QED
  BY <1>2, <1>3

\* Completion is the owner's own and only step to completed.
LEMMA CompleteMoves ==
    ASSUME IInv, NEW r \in Requests, pc[r] = "complete", RunComplete(r),
           NEW k \in Keys, records[k] # None
    PROVE  ClaimMoves(records[k], records'[k])
<1>1. records[k] \in ClaimRecord
  BY DEF IInv, TypeOK
<1>2. CASE records'[k] = records[k]
  BY <1>1, <1>2, SameMoves
<1>3. CASE records'[k] # records[k]
  <2>1. /\ k = key[r] /\ records[k].owner = r /\ records'[k].owner = r
        /\ records'[k].fingerprint = records[k].fingerprint
        /\ records'[k].lifecycle = "completed"
        /\ records'[k].ref = records[k].ref
    BY <1>3, RunCompleteEffect DEF IInv, Found
  <2>2. records[k].lifecycle # "completed"
    BY <2>1 DEF IInv, OwnerInv, OwnerOK
  <2> QED
    BY <2>1, <2>2 DEF ClaimMoves
<1> QED
  BY <1>2, <1>3

\* Whatever a step does to the record of a key, it moves it forward.
LEMMA StepMoves ==
    ASSUME IInv, Next, NEW k \in Keys, records[k] # None
    PROVE  ClaimMoves(records[k], records'[k])
<1>1. records[k] \in ClaimRecord
  BY DEF IInv, TypeOK
<1>2. CASE records'[k] = records[k]
  BY <1>1, <1>2, SameMoves
<1>3. CASE Tick
  <2>1. records'[k] = Age(records[k])
    BY <1>3 DEF Tick
  <2>2. CASE Age(records[k]) = None
    BY <2>1, <2>2 DEF ClaimMoves
  <2>3. CASE Age(records[k]) # None
    BY <1>1, <2>1, <2>3, AgeEffect DEF ClaimMoves, ClaimRecord
  <2> QED
    BY <2>2, <2>3
<1>4. ASSUME NEW n \in Nodes, Crash(n)
      PROVE  ClaimMoves(records[k], records'[k])
  BY <1>2, <1>4 DEF Crash, ClaimMoves
<1>5. ASSUME NEW r \in Requests, pc[r] = "claim", RunClaim(r)
      PROVE  ClaimMoves(records[k], records'[k])
  BY <1>5, GrantMoves
<1>6. ASSUME NEW r \in Requests, pc[r] = "mark", RunMark(r)
      PROVE  ClaimMoves(records[k], records'[k])
  BY <1>6, MarkMoves
<1>7. ASSUME NEW r \in Requests, pc[r] = "complete", RunComplete(r)
      PROVE  ClaimMoves(records[k], records'[k])
  BY <1>7, CompleteMoves
<1>8. ASSUME NEW r \in Requests, BeginPlain(r) \/ Step(r)
      PROVE  ClaimMoves(records[k], records'[k])
  BY <1>2, <1>5, <1>6, <1>7, <1>8
  DEF BeginPlain, Step, ClaimGranted, ClaimReplays, ClaimRefused,
      ClaimAwaits, ClaimFault, Reconcile, Invalid, RouteFails, RouteFound,
      MarkOk, MarkRefused, MarkFault, SubmitSend, SubmitOk, SubmitRetries,
      SubmitGivesUp, CompleteOk, CompleteRefused, CompleteFault
<1>9. ASSUME NEW r \in Requests, NEW j \in Keys, Begin(r, j)
      PROVE  ClaimMoves(records[k], records'[k])
  BY <1>2, <1>9 DEF Begin
<1>10. ASSUME NEW r \in Requests, Abandon(r)
       PROVE  ClaimMoves(records[k], records'[k])
  BY <1>2, <1>10 DEF Abandon
<1> QED
  BY <1>3, <1>4, <1>8, <1>9, <1>10 DEF Next

\* Claims only move forward, and a completed response is never overwritten.
THEOREM ForwardOnly == Spec => ClaimsMoveForward
<1>1. IInv /\ [Next]_vars =>
        [\A k \in Keys :
            records[k] # None => ClaimMoves(records[k], records'[k])]_vars
  BY StepMoves
<1> QED
  BY <1>1, Invariance, PTL DEF Spec, ClaimsMoveForward
-----------------------------------------------------------------------------
(***************************************************************************)
(* What the clients of an Idempotency-Key are told: all answers of one     *)
(* life of a key are the same and speak of the payment that was submitted, *)
(* and the engine implements OncePerKey.                                   *)
(***************************************************************************)

\* r acts on the belief that p is the payment of its key: r is p itself past
\* the checkpoint, reconciles with p, or has answered with p.
Vouches(r, p) ==
    /\ key[r] # None
    /\ \/ Marked(r) /\ p = r
       \/ pc[r] = "reconcile" /\ p = ref[r]
       \/ reply[r].code = "ok" /\ p = reply[r].body.payment

\* Beyond RequestInv: when a handler has answered, which epoch it can be in,
\* and what a status of its payment says about its attempts.
PositionInv ==
    \A r \in Requests :
        /\ pc[r] = "idle" => key[r] = None
        /\ pc[r] # "done" => reply[r] = NoReply
        /\ pc[r] \in {"route", "mark", "submit"} => ~Terminal(pay[r])
        /\ pc[r] = "sent" => attempts[r] > 0 /\ ~Terminal(pay[r])
        /\ pc[r] \in {"idle", "claim", "reconcile"} => pay[r] = "none"
        /\ pay[r] = "confirmed" => attempts[r] > 0
        /\ key[r] # None /\ pc[r] \notin {"claim", "done"} => ep[r] > 0
        /\ key[r] # None /\ (attempts[r] > 0 \/ reply[r].code = "ok") => ep[r] > 0
        /\ reply[r].code = "ok" => reply[r].body \in Body

\* b is what the payment of p came to, as far as its instance still knows.
Settled(p, b) ==
    /\ pc[p] \in {"complete", "done"}
    /\ pay[p] \in {b.status, "none"}
    /\ b.status = "confirmed" => attempts[p] > 0

\* A completed record holds the outcome of its owner's payment.
RecordInv ==
    \A k \in Keys : records[k] # None =>
        /\ epoch[k] > 0
        /\ records[k].lifecycle = "completed" =>
             /\ records[k].response \in Body
             /\ records[k].response.payment = records[k].owner
             /\ Settled(records[k].owner, records[k].response)

\* While the record lives, p owns it in a lifecycle that is never taken over.
Held(r, p) ==
    \/ records[key[r]] = None
    \/ ep[r] < epoch[key[r]]
    \/ records[key[r]].owner = p /\ records[key[r]].lifecycle # "in_flight"

VouchInv ==
    \A r, p \in Requests : Vouches(r, p) => key[p] = key[r] /\ ep[p] = ep[r] /\ Held(r, p)

\* All that vouch under one epoch of a key vouch for the same payment.
OnePayment ==
    \A r, s, p, q \in Requests :
        Vouches(r, p) /\ Vouches(s, q) /\ Rivals(r, s) => p = q

\* An answer is what its payment came to, and what a live record holds.
AnswerInv ==
    \A r \in Requests : key[r] # None /\ reply[r].code = "ok" =>
        /\ Settled(reply[r].body.payment, reply[r].body)
        /\ \/ records[key[r]] = None
           \/ ep[r] < epoch[key[r]]
           \/ records[key[r]].lifecycle # "completed"
           \/ records[key[r]].response = reply[r].body

\* The inductive invariant behind AnswersAgree, AnswerCoversSubmission and
\* the refinement of OncePerKey.
TruthInv ==
    /\ IInv /\ PositionInv /\ RecordInv
    /\ VouchInv /\ OnePayment /\ AnswerInv /\ AnswersAgree
-----------------------------------------------------------------------------
\* What any step does, whichever it is.

\* A request that has met its key keeps its key and its epoch.
LEMMA KeepsGroup ==
    ASSUME IInv, [Next]_vars, NEW r \in Requests, pc[r] \notin {"idle", "claim"}
    PROVE  key'[r] = key[r] /\ ep'[r] = ep[r] /\ pc'[r] \notin {"idle", "claim"}
<1> USE DEF IInv, TypeOK, Go, Return, Settle, request
<1>1. ASSUME NEW s \in Requests, pc[s] = "claim", RunClaim(s)
      PROVE  ep'[r] = ep[r]
  BY <1>1, RunClaimEpoch
<1>2. ASSUME NEW s \in Requests, NEW k \in Keys, Begin(s, k)
      PROVE  key'[r] = key[r] /\ ep'[r] = ep[r] /\ pc'[r] \notin {"idle", "claim"}
  BY <1>2 DEF Begin
<1>3. ASSUME NEW s \in Requests, BeginPlain(s) \/ Abandon(s)
      PROVE  key'[r] = key[r] /\ ep'[r] = ep[r] /\ pc'[r] \notin {"idle", "claim"}
  BY <1>3 DEF BeginPlain, Abandon
<1>4. ASSUME NEW s \in Requests, Step(s)
      PROVE  key'[r] = key[r] /\ ep'[r] = ep[r] /\ pc'[r] \notin {"idle", "claim"}
  BY <1>1, <1>4
  DEF Step, ClaimGranted, ClaimReplays, ClaimRefused, ClaimAwaits, ClaimFault,
      Reconcile, Invalid, RouteFails, RouteFound, MarkOk, MarkRefused, MarkFault,
      SubmitSend, SubmitOk, SubmitRetries, SubmitGivesUp, CompleteOk,
      CompleteRefused, CompleteFault
<1>5. ASSUME NEW n \in Nodes, Crash(n)
      PROVE  key'[r] = key[r] /\ ep'[r] = ep[r] /\ pc'[r] \notin {"idle", "claim"}
  BY <1>5 DEF Crash
<1>6. CASE Tick \/ UNCHANGED vars
  BY <1>6 DEF Tick, vars
<1> QED
  BY <1>2, <1>3, <1>4, <1>5, <1>6 DEF Next

\* Epochs never fall, and a key that gets a record gets a new epoch.
LEMMA EpochsGrow ==
    ASSUME IInv, [Next]_vars, NEW k \in Keys
    PROVE  /\ epoch[k] \in Nat /\ epoch'[k] \in Nat
           /\ epoch[k] <= epoch'[k]
           /\ records[k] = None /\ records'[k] # None => epoch[k] < epoch'[k]
<1> USE DEF IInv
<1>1. epoch[k] \in Nat /\ epoch'[k] \in Nat
  BY TypeStep DEF TypeOK
<1>2. ASSUME NEW r \in Requests, pc[r] = "claim", RunClaim(r)
      PROVE  /\ epoch[k] <= epoch'[k]
             /\ records[k] = None /\ records'[k] # None => epoch[k] < epoch'[k]
  <2>1. CASE ClaimSays(r) \in {"claimed", "took_over"}
    BY <1>1, <1>2, <2>1, RunClaimGranted, RunClaimEpoch DEF Found
  <2>2. CASE ClaimSays(r) \notin {"claimed", "took_over"}
    BY <1>1, <1>2, <2>2, RunClaimRefused
  <2> QED
    BY <2>1, <2>2
<1>3. ASSUME epoch' = epoch, records[k] = None => records'[k] = None
      PROVE  /\ epoch[k] <= epoch'[k]
             /\ records[k] = None /\ records'[k] # None => epoch[k] < epoch'[k]
  BY <1>1, <1>3
<1>4. ASSUME NEW r \in Requests, pc[r] = "mark", RunMark(r)
      PROVE  records[k] = None => records'[k] = None
  BY <1>4, RunMarkEffect, NoneAssumption DEF Found
<1>5. ASSUME NEW r \in Requests, pc[r] = "complete", RunComplete(r)
      PROVE  records[k] = None => records'[k] = None
  BY <1>5, RunCompleteEffect, NoneAssumption DEF Found
<1>6. ASSUME NEW r \in Requests, BeginPlain(r) \/ Abandon(r) \/ Step(r)
      PROVE  \/ pc[r] = "claim" /\ RunClaim(r)
             \/ epoch' = epoch /\ (records[k] = None => records'[k] = None)
  BY <1>4, <1>5, <1>6
  DEF BeginPlain, Abandon, Step, ClaimGranted, ClaimReplays, ClaimRefused, ClaimAwaits,
      ClaimFault, Reconcile, Invalid, RouteFails, RouteFound, MarkOk, MarkRefused,
      MarkFault, SubmitSend, SubmitOk, SubmitRetries, SubmitGivesUp, CompleteOk,
      CompleteRefused, CompleteFault
<1>7. ASSUME NEW r \in Requests, NEW j \in Keys, Begin(r, j)
      PROVE  epoch' = epoch /\ records' = records
  BY <1>7 DEF Begin
<1>8. ASSUME NEW n \in Nodes, Crash(n)
      PROVE  epoch' = epoch /\ (records[k] = None => records'[k] = None)
  BY <1>8 DEF Crash
<1>9. CASE Tick
  BY <1>3, <1>1, <1>9, AgeNone DEF Tick
<1>10. CASE UNCHANGED vars
  BY <1>1, <1>10 DEF vars
<1> QED
  BY <1>1, <1>2, <1>3, <1>6, <1>7, <1>8, <1>9, <1>10 DEF Next

\* A payment that is settled stays so, until its instance forgets it.
LEMMA KeepsPayment ==
    ASSUME IInv, [Next]_vars, NEW p \in Requests
    PROVE  /\ attempts[p] > 0 => attempts'[p] > 0
           /\ pc[p] \in {"complete", "done"} =>
                /\ pc'[p] \in {"complete", "done"}
                /\ pay'[p] \in {pay[p], "none"}
<1> USE DEF IInv, TypeOK, Go, Return, Settle, request
<1>1. ASSUME NEW s \in Requests, NEW k \in Keys, Begin(s, k)
      PROVE  /\ attempts'[p] = attempts[p] /\ pay'[p] = pay[p]
             /\ pc[p] \in {"complete", "done"} => pc'[p] \in {"complete", "done"}
  BY <1>1 DEF Begin
<1>2. ASSUME NEW s \in Requests, BeginPlain(s) \/ Abandon(s)
      PROVE  /\ attempts'[p] = attempts[p] /\ pay'[p] = pay[p]
             /\ pc[p] \in {"complete", "done"} => pc'[p] \in {"complete", "done"}
  BY <1>2 DEF BeginPlain, Abandon
<1>3. ASSUME NEW s \in Requests, Step(s)
      PROVE  /\ attempts'[p] = attempts[p] \/ attempts'[p] = attempts[p] + 1
             /\ pc[p] \in {"complete", "done"} =>
                  pc'[p] \in {"complete", "done"} /\ pay'[p] = pay[p]
  BY <1>3
  DEF Step, ClaimGranted, ClaimReplays, ClaimRefused, ClaimAwaits, ClaimFault,
      Reconcile, Invalid, RouteFails, RouteFound, MarkOk, MarkRefused, MarkFault,
      SubmitSend, SubmitOk, SubmitRetries, SubmitGivesUp, CompleteOk,
      CompleteRefused, CompleteFault
<1>4. ASSUME NEW n \in Nodes, Crash(n)
      PROVE  /\ attempts'[p] = attempts[p] /\ pay'[p] \in {pay[p], "none"}
             /\ pc[p] \in {"complete", "done"} => pc'[p] \in {"complete", "done"}
  BY <1>4 DEF Crash
<1>5. CASE Tick \/ UNCHANGED vars
  BY <1>5 DEF Tick, vars
<1> QED
  BY <1>1, <1>2, <1>3, <1>4, <1>5 DEF Next

LEMMA KeepsSettled ==
    ASSUME IInv, [Next]_vars, NEW p \in Requests, NEW b, Settled(p, b)
    PROVE  Settled(p, b)'
  BY KeepsPayment DEF Settled
-----------------------------------------------------------------------------
\* The record that a claim finds when it is told to replay or to reconcile.
LEMMA FoundRecord ==
    ASSUME IInv, RecordInv, NEW r \in Requests, pc[r] = "claim", RunClaim(r),
           ClaimSays(r) \in {"replay", "awaiting"}
    PROVE  /\ records' = records /\ epoch' = epoch
           /\ key[r] \in Keys /\ Found(r) \in ClaimRecord
           /\ ep'[r] = epoch[key[r]] /\ epoch[key[r]] > 0
           /\ ClaimSays(r) = "replay" => Found(r).lifecycle = "completed"
           /\ ClaimSays(r) = "awaiting" => Found(r).lifecycle = "submitting"
<1>1. key[r] \in Keys /\ records' = records /\ epoch' = epoch /\ Found(r) # None
  BY StepTypes, RunClaimRefused DEF IInv
<1>2. Found(r) \in ClaimRecord /\ epoch[key[r]] > 0
  BY <1>1 DEF IInv, TypeOK, Found, RecordInv
<1>3. ep'[r] = epoch[key[r]]
  BY <1>1, RunClaimEpoch DEF IInv
<1> QED
  BY <1>1, <1>2, <1>3 DEF ClaimSays, Outcome

LEMMA PositionStep ==
    ASSUME IInv, PositionInv, RecordInv, [Next]_vars
    PROVE  PositionInv'
<1> USE DEF IInv, TypeOK, PositionInv, Go, Return, Settle, request, NoReply, Error, Answer,
            Terminal
<1>1. ASSUME NEW r \in Requests, NEW k \in Keys, Begin(r, k)
      PROVE  PositionInv'
  BY <1>1, EngineAssumption DEF Begin, RequestInv, EpochInv
<1>2. ASSUME NEW r \in Requests, BeginPlain(r) \/ Abandon(r)
      PROVE  PositionInv'
  BY <1>2, EngineAssumption DEF BeginPlain, Abandon
<1>3. ASSUME NEW r \in Requests, ClaimGranted(r)
      PROVE  PositionInv'
  <2>1. pc[r] = "claim" /\ RunClaim(r) /\ key[r] \in Keys
    BY <1>3, StepTypes DEF ClaimGranted
  <2>2. ep'[r] > 0
    BY <1>3, <2>1, RunClaimGranted, RunClaimEpoch DEF ClaimGranted, RecordInv, Found
  <2>3. \A s \in Requests \ {r} : ep'[s] = ep[s]
    BY <2>1, RunClaimEpoch
  <2> QED
    BY <1>3, <2>2, <2>3 DEF ClaimGranted, RequestInv
<1>4. ASSUME NEW r \in Requests, ClaimAwaits(r)
      PROVE  PositionInv'
  BY <1>4, FoundRecord, RunClaimEpoch DEF ClaimAwaits
<1>5. ASSUME NEW r \in Requests, ClaimReplays(r)
      PROVE  PositionInv'
  <2>1. pc[r] = "claim" /\ RunClaim(r) /\ key[r] \in Keys
    BY <1>5, StepTypes DEF ClaimReplays
  <2>2. Found(r).response \in Body /\ ep'[r] > 0
    BY <1>5, <2>1, FoundRecord, NoneAssumption DEF ClaimReplays, RecordInv, Found
  <2>3. \A s \in Requests \ {r} : ep'[s] = ep[s]
    BY <2>1, RunClaimEpoch
  <2> QED
    BY <1>5, <2>2, <2>3 DEF ClaimReplays, RequestInv
<1>14. ASSUME NEW r \in Requests, ClaimRefused(r) \/ ClaimFault(r)
      PROVE  PositionInv'
  <2>1. pc[r] = "claim" /\ attempts[r] = 0 /\ pay[r] = "none"
    BY <1>14 DEF ClaimRefused, ClaimFault, RequestInv
  <2>2. \A s \in Requests \ {r} : ep'[s] = ep[s]
    BY <1>14, <2>1, RunClaimEpoch DEF ClaimRefused, ClaimFault
  <2> QED
    BY <1>14, <2>1, <2>2 DEF ClaimRefused, ClaimFault
<1>6. ASSUME NEW r \in Requests, Reconcile(r)
      PROVE  PositionInv'
  BY <1>6 DEF Reconcile, RequestInv, Body
<1>7. ASSUME NEW r \in Requests, Invalid(r) \/ RouteFails(r) \/ RouteFound(r)
      PROVE  PositionInv'
  BY <1>7 DEF Invalid, RouteFails, RouteFound, Body
<1>8. ASSUME NEW r \in Requests, MarkOk(r) \/ MarkRefused(r) \/ MarkFault(r)
      PROVE  PositionInv'
  BY <1>8 DEF MarkOk, MarkRefused, MarkFault, WriteError
<1>9. ASSUME NEW r \in Requests, SubmitSend(r) \/ SubmitRetries(r)
      PROVE  PositionInv'
  BY <1>9 DEF SubmitSend, SubmitRetries
<1>10. ASSUME NEW r \in Requests, SubmitOk(r) \/ SubmitGivesUp(r)
      PROVE  PositionInv'
  BY <1>10 DEF SubmitOk, SubmitGivesUp, Body
<1>11. ASSUME NEW r \in Requests, CompleteOk(r) \/ CompleteRefused(r) \/ CompleteFault(r)
      PROVE  PositionInv'
  BY <1>11, StepTypes DEF CompleteOk, CompleteRefused, CompleteFault, WriteError
<1>12. ASSUME NEW n \in Nodes, Crash(n)
      PROVE  PositionInv'
  BY <1>12 DEF Crash
<1>13. CASE Tick \/ UNCHANGED vars
  BY <1>13 DEF Tick, vars
<1> QED
  BY <1>1, <1>2, <1>3, <1>4, <1>5, <1>6, <1>7, <1>8, <1>9, <1>10, <1>11, <1>12, <1>13,
     <1>14
  DEF Next, Step
-----------------------------------------------------------------------------
\* A record becomes completed only by complete of its owner, with the owner's
\* payment as the response.
LEMMA NewlyCompleted ==
    ASSUME IInv, Next, NEW k \in Keys, records'[k] # None,
           records'[k].lifecycle = "completed",
           records[k] = None \/ records[k].lifecycle # "completed"
    PROVE  \E r \in Requests :
             /\ pc[r] = "complete" /\ pc'[r] = "done" /\ key[r] = k
             /\ records[k] # None /\ records[k].owner = r /\ records'[k].owner = r
             /\ records'[k].response = Result(r) /\ Result(r) \in Body
             /\ pay' = pay /\ attempts' = attempts
<1> DEFINE Goal == \E r \in Requests :
             /\ pc[r] = "complete" /\ pc'[r] = "done" /\ key[r] = k
             /\ records[k] # None /\ records[k].owner = r /\ records'[k].owner = r
             /\ records'[k].response = Result(r) /\ Result(r) \in Body
             /\ pay' = pay /\ attempts' = attempts
<1> HIDE DEF Goal
<1>0. records' # records /\ records[k] \in ClaimRecord \cup {None}
  BY DEF IInv, TypeOK
<1>1. ASSUME NEW r \in Requests, pc[r] = "claim", RunClaim(r)
      PROVE  FALSE
  BY <1>0, <1>1, RunClaimGranted, RunClaimRefused DEF IInv
<1>2. ASSUME NEW r \in Requests, pc[r] = "mark", RunMark(r)
      PROVE  FALSE
  BY <1>0, <1>2, RunMarkEffect DEF IInv
<1>3. ASSUME NEW r \in Requests, pc[r] = "complete", RunComplete(r), Go(r, "done"),
             pay' = pay, attempts' = attempts
      PROVE  Goal
  <2>1. key[r] = k /\ WriteOutcome(Found(r), r) = "ok"
    BY <1>0, <1>3, RunCompleteEffect DEF IInv
  <2>2. /\ records[k] # None /\ records[k].owner = r /\ records'[k].owner = r
        /\ records'[k].response = Result(r)
    BY <1>3, <2>1, RunCompleteEffect, NoneAssumption DEF IInv, Found
  <2>3. Result(r) \in Body
    BY <1>3, StepTypes DEF IInv
  <2>4. pc'[r] = "done"
    BY <1>3 DEF IInv, TypeOK, Go
  <2> QED
    BY <1>3, <2>1, <2>2, <2>3, <2>4 DEF Goal
<1>4. ASSUME Tick
      PROVE  Goal
  <2>1. records'[k] = Age(records[k]) /\ records[k] \in ClaimRecord
    BY <1>0, <1>4, AgeNone DEF Tick
  <2> QED
    BY <1>0, <2>1, AgeEffect, NoneAssumption
<1>5. ASSUME NEW n \in Nodes, Crash(n)
      PROVE  FALSE
  BY <1>0, <1>5 DEF Crash
<1>6. ASSUME NEW r \in Requests, BeginPlain(r) \/ Abandon(r) \/ Step(r)
      PROVE  Goal
  BY <1>0, <1>1, <1>2, <1>3, <1>6
  DEF BeginPlain, Abandon, Step, ClaimGranted, ClaimReplays, ClaimRefused, ClaimAwaits,
      ClaimFault, Reconcile, Invalid, RouteFails, RouteFound, MarkOk, MarkRefused,
      MarkFault, SubmitSend, SubmitOk, SubmitRetries, SubmitGivesUp, CompleteOk,
      CompleteRefused, CompleteFault, Return
<1>7. ASSUME NEW r \in Requests, NEW j \in Keys, Begin(r, j)
      PROVE  FALSE
  BY <1>0, <1>7 DEF Begin
<1>8. Goal
  BY <1>4, <1>5, <1>6, <1>7 DEF Next
<1> QED
  BY <1>8 DEF Goal

LEMMA RecordStep ==
    ASSUME IInv, PositionInv, RecordInv, [Next]_vars
    PROVE  RecordInv'
<1>1. CASE UNCHANGED vars
  BY <1>1 DEF vars, RecordInv, Settled
<1>2. CASE Next
  <2> SUFFICES ASSUME NEW k \in Keys, records'[k] # None
               PROVE  /\ epoch'[k] > 0
                      /\ records'[k].lifecycle = "completed" =>
                           /\ records'[k].response \in Body
                           /\ records'[k].response.payment = records'[k].owner
                           /\ Settled(records[k].owner, records[k].response)'
    BY DEF RecordInv
  <2>1. epoch'[k] > 0
    BY EpochsGrow DEF RecordInv
  <2>2. CASE records'[k].lifecycle = "completed" /\ records[k] # None
             /\ records[k].lifecycle = "completed"
    <3>1. /\ records'[k].owner = records[k].owner
          /\ records'[k].response = records[k].response
      BY <1>2, <2>2, StepMoves DEF ClaimMoves
    <3>2. records[k].owner \in Requests
      BY <2>2 DEF IInv, TypeOK, ClaimRecord
    <3>3. Settled(records[k].owner, records[k].response)
      BY <2>2 DEF RecordInv
    <3>4. /\ attempts[records[k].owner] > 0 => attempts'[records[k].owner] > 0
          /\ pc'[records[k].owner] \in {"complete", "done"}
          /\ pay'[records[k].owner] \in {pay[records[k].owner], "none"}
      BY <3>2, <3>3, KeepsPayment DEF Settled
    <3> QED
      BY <2>1, <2>2, <3>1, <3>3, <3>4 DEF RecordInv, Settled
  <2>3. CASE records'[k].lifecycle = "completed"
             /\ (records[k] = None \/ records[k].lifecycle # "completed")
    <3>1. PICK r \in Requests :
             /\ pc[r] = "complete" /\ pc'[r] = "done" /\ key[r] = k
             /\ records[k] # None /\ records[k].owner = r /\ records'[k].owner = r
             /\ records'[k].response = Result(r) /\ Result(r) \in Body
             /\ pay' = pay /\ attempts' = attempts
      BY <1>2, <2>3, NewlyCompleted
    <3>2. /\ records'[k].response.payment = r
          /\ records'[k].response.status = pay[r]
      BY <3>1 DEF Result
    <3>3. pay[r] = "confirmed" => attempts[r] > 0
      BY DEF PositionInv
    <3> QED
      BY <2>1, <3>1, <3>2, <3>3 DEF Settled
  <2> QED
    BY <2>1, <2>2, <2>3
<1> QED
  BY <1>1, <1>2
-----------------------------------------------------------------------------
\* Whoever vouches for a payment has met its key, and so has the payment.
LEMMA VouchMet ==
    ASSUME IInv, PositionInv, VouchInv, NEW r \in Requests, NEW p \in Requests,
           Vouches(r, p)
    PROVE  /\ key[r] \in Keys /\ ep[r] > 0
           /\ pc[r] \notin {"idle", "claim"} /\ pc[p] \notin {"idle", "claim"}
<1>1. pc[r] \notin {"idle", "claim"} /\ ep[r] > 0 /\ key[r] \in Keys
  BY DEF Vouches, Marked, IInv, RequestInv, TypeOK, PositionInv, NoReply
<1>2. ep[p] = ep[r]
  BY DEF VouchInv
<1> QED
  BY <1>1, <1>2 DEF IInv, EpochInv

\* A payment that somebody vouches for keeps its hold on the record.
LEMMA VouchKept ==
    ASSUME IInv, PositionInv, VouchInv, [Next]_vars,
           NEW r \in Requests, NEW p \in Requests, Vouches(r, p)
    PROVE  /\ key'[r] = key[r] /\ ep'[r] = ep[r]
           /\ key'[p] = key[p] /\ ep'[p] = ep[p]
           /\ Held(r, p)'
<1>1. key[r] \in Keys /\ Held(r, p)
  BY VouchMet DEF VouchInv
<1>2. /\ key'[r] = key[r] /\ ep'[r] = ep[r]
      /\ key'[p] = key[p] /\ ep'[p] = ep[p]
  BY VouchMet, KeepsGroup
<1>3. /\ ep[r] \in Nat /\ ep[r] <= epoch[key[r]]
      /\ epoch[key[r]] \in Nat /\ epoch'[key[r]] \in Nat
      /\ epoch[key[r]] <= epoch'[key[r]]
      /\ records[key[r]] = None /\ records'[key[r]] # None =>
            epoch[key[r]] < epoch'[key[r]]
  BY <1>1, EpochsGrow, EngineAssumption DEF IInv, TypeOK, EpochInv
<1>4. CASE records[key[r]] = None \/ ep[r] < epoch[key[r]]
  BY <1>2, <1>3, <1>4 DEF Held
<1>5. CASE /\ records[key[r]] # None
           /\ records[key[r]].owner = p /\ records[key[r]].lifecycle # "in_flight"
  <2>1. CASE UNCHANGED vars
    BY <1>1, <2>1 DEF vars, Held
  <2>2. CASE Next
    <3>1. ClaimMoves(records[key[r]], records'[key[r]])
      BY <1>1, <1>5, <2>2, StepMoves
    <3>2. records[key[r]].lifecycle \in {"submitting", "completed"}
      BY <1>1, <1>5 DEF IInv, TypeOK, ClaimRecord, Lifecycle
    <3> QED
      BY <1>2, <1>5, <3>1, <3>2 DEF ClaimMoves, Held
  <2> QED
    BY <2>1, <2>2
<1> QED
  BY <1>1, <1>4, <1>5 DEF Held

\* p holds the record of r's key, in the epoch that r has met.
Holds(r, p) ==
    /\ key[r] \in Keys /\ records[key[r]] # None
    /\ ep[r] = epoch[key[r]]
    /\ records[key[r]].owner = p /\ records[key[r]].lifecycle # "in_flight"
    /\ key[p] = key[r] /\ ep[p] = ep[r]

\* The claim that replays or reconciles finds a record that its payment holds.
LEMMA FoundHolds ==
    ASSUME IInv, RecordInv, NEW r \in Requests, pc[r] = "claim", RunClaim(r), key' = key,
           ClaimSays(r) \in {"replay", "awaiting"},
           NEW o \in Requests, o = Found(r).owner
    PROVE  Holds(r, o)'
<1>1. /\ records' = records /\ epoch' = epoch
      /\ key[r] \in Keys /\ Found(r) \in ClaimRecord
      /\ ep'[r] = epoch[key[r]]
      /\ Found(r).lifecycle # "in_flight"
  BY FoundRecord
<1>2. records[key[r]] # None /\ records[key[r]].owner = o
  BY <1>1, NoneAssumption DEF Found
<1>3. key[o] = key[r] /\ ep[o] = epoch[key[r]] /\ o # r
  BY <1>1, <1>2 DEF IInv, OwnerInv, OwnerOK
<1>4. ep'[o] = ep[o]
  BY <1>3, RunClaimEpoch DEF IInv
<1> QED
  BY <1>1, <1>2, <1>3, <1>4 DEF Holds, Found

\* Nobody begins to vouch for a payment that does not hold the record.
LEMMA VouchNew ==
    ASSUME IInv, PositionInv, RecordInv, [Next]_vars,
           NEW r \in Requests, NEW p \in Requests, Vouches(r, p)', ~Vouches(r, p)
    PROVE  Holds(r, p)'
<1> USE DEF IInv, TypeOK, Go, Return, Settle, request, Vouches, Marked, NoReply, Error, Answer
<1>1. ASSUME NEW s \in Requests, NEW k \in Keys, Begin(s, k)
      PROVE  FALSE
  BY <1>1 DEF Begin, RequestInv, PositionInv
<1>2. ASSUME NEW s \in Requests, BeginPlain(s) \/ Abandon(s)
      PROVE  FALSE
  BY <1>2 DEF BeginPlain, Abandon, RequestInv, PositionInv
<1>3. ASSUME NEW s \in Requests, ClaimGranted(s) \/ ClaimRefused(s) \/ ClaimFault(s)
      PROVE  FALSE
  BY <1>3 DEF ClaimGranted, ClaimRefused, ClaimFault, RequestInv, PositionInv
<1>4. ASSUME NEW s \in Requests, ClaimReplays(s)
      PROVE  Holds(r, p)'
  <2>1. r = s /\ p = Found(r).response.payment
    BY <1>4 DEF ClaimReplays, RequestInv, PositionInv
  <2>2. pc[r] = "claim" /\ RunClaim(r) /\ ClaimSays(r) = "replay" /\ key' = key
    BY <1>4, <2>1 DEF ClaimReplays
  <2>3. Found(r).response.payment = Found(r).owner
    BY <2>2, FoundRecord, NoneAssumption DEF RecordInv, Found
  <2> QED
    BY <2>1, <2>2, <2>3, FoundHolds
<1>5. ASSUME NEW s \in Requests, ClaimAwaits(s)
      PROVE  Holds(r, p)'
  <2>1. r = s /\ p = Found(r).ref
    BY <1>5 DEF ClaimAwaits, RequestInv, PositionInv
  <2>2. pc[r] = "claim" /\ RunClaim(r) /\ ClaimSays(r) = "awaiting" /\ key' = key
    BY <1>5, <2>1 DEF ClaimAwaits
  <2>3. Found(r).ref = Found(r).owner
    BY <2>2, FoundRecord, NoneAssumption DEF OwnerInv, OwnerOK, Found
  <2> QED
    BY <2>1, <2>2, <2>3, FoundHolds
<1>6. ASSUME NEW s \in Requests, Reconcile(s)
      PROVE  FALSE
  BY <1>6 DEF Reconcile, RequestInv, PositionInv
<1>7. ASSUME NEW s \in Requests, Invalid(s) \/ RouteFails(s) \/ RouteFound(s)
      PROVE  FALSE
  BY <1>7 DEF Invalid, RouteFails, RouteFound, RequestInv, PositionInv
<1>8. ASSUME NEW s \in Requests, MarkOk(s)
      PROVE  Holds(r, p)'
  <2>1. r = s /\ p = r
    BY <1>8 DEF MarkOk, RequestInv, PositionInv
  <2>2. pc[r] = "mark" /\ RunMark(r) /\ WriteOutcome(Found(r), r) = "ok"
    BY <1>8, <2>1 DEF MarkOk
  <2>3. /\ key[r] \in Keys /\ Found(r) # None /\ Found(r).owner = r
        /\ records'[key[r]] # None
        /\ records'[key[r]].owner = r /\ records'[key[r]].lifecycle = "submitting"
    BY <2>2, StepTypes, RunMarkEffect, NoneAssumption
  <2>4. ep[r] = epoch[key[r]]
    BY <2>3 DEF OwnerInv, OwnerOK, Found
  <2> QED
    BY <1>8, <2>1, <2>3, <2>4 DEF MarkOk, Holds
<1>9. ASSUME NEW s \in Requests, MarkRefused(s) \/ MarkFault(s)
      PROVE  FALSE
  BY <1>9 DEF MarkRefused, MarkFault, WriteError, RequestInv, PositionInv
<1>10. ASSUME NEW s \in Requests,
              SubmitSend(s) \/ SubmitOk(s) \/ SubmitRetries(s) \/ SubmitGivesUp(s)
       PROVE  FALSE
  BY <1>10 DEF SubmitSend, SubmitOk, SubmitRetries, SubmitGivesUp, PositionInv
<1>11. ASSUME NEW s \in Requests, CompleteOk(s)
       PROVE  Holds(r, p)'
  <2>1. r = s /\ p = r
    BY <1>11 DEF CompleteOk, Result, PositionInv
  <2>2. pc[r] = "complete" /\ RunComplete(r) /\ WriteOutcome(Found(r), r) = "ok"
    BY <1>11, <2>1 DEF CompleteOk
  <2>3. /\ key[r] \in Keys /\ Found(r) # None /\ Found(r).owner = r
        /\ records'[key[r]] # None
        /\ records'[key[r]].owner = r /\ records'[key[r]].lifecycle = "completed"
    BY <2>2, StepTypes, RunCompleteEffect, NoneAssumption
  <2>4. ep[r] = epoch[key[r]]
    BY <2>3 DEF OwnerInv, OwnerOK, Found
  <2> QED
    BY <1>11, <2>1, <2>3, <2>4 DEF CompleteOk, Holds
<1>12. ASSUME NEW s \in Requests, CompleteRefused(s) \/ CompleteFault(s)
       PROVE  FALSE
  BY <1>12 DEF CompleteRefused, CompleteFault, WriteError, PositionInv
<1>13. ASSUME NEW n \in Nodes, Crash(n)
       PROVE  FALSE
  BY <1>13 DEF Crash
<1>14. CASE Tick \/ UNCHANGED vars
  BY <1>14 DEF Tick, vars
<1> QED
  BY <1>1, <1>2, <1>3, <1>4, <1>5, <1>6, <1>7, <1>8, <1>9, <1>10, <1>11, <1>12, <1>13,
     <1>14
  DEF Next, Step

LEMMA VouchStep ==
    ASSUME IInv, PositionInv, RecordInv, VouchInv, OnePayment, [Next]_vars
    PROVE  VouchInv' /\ OnePayment'
<1>1. ASSUME NEW r \in Requests, NEW p \in Requests, Vouches(r, p)'
      PROVE  /\ Vouches(r, p) \/ Holds(r, p)'
             /\ key'[p] = key'[r] /\ ep'[p] = ep'[r] /\ Held(r, p)'
  <2>1. CASE Vouches(r, p)
    BY <2>1, VouchKept DEF VouchInv
  <2>2. CASE ~Vouches(r, p)
    <3>1. Holds(r, p)'
      BY <1>1, <2>2, VouchNew
    <3> QED
      BY <3>1 DEF Holds, Held
  <2> QED
    BY <2>1, <2>2
<1>2. VouchInv'
  BY <1>1 DEF VouchInv
<1>3. ASSUME NEW r \in Requests, NEW p \in Requests, NEW s \in Requests,
             NEW q \in Requests, Vouches(s, q)', Rivals(r, s)', Holds(r, p)'
      PROVE  p = q
  <2>1. Held(s, q)'
    BY <1>1, <1>3
  <2>2. epoch'[key'[r]] \in Nat
    BY <1>3, InvStep DEF IInv, TypeOK, Holds
  <2> QED
    BY <1>3, <2>1, <2>2 DEF Rivals, Held, Holds
<1>4. OnePayment'
  <2> SUFFICES ASSUME NEW r \in Requests, NEW s \in Requests, NEW p \in Requests,
                      NEW q \in Requests, Vouches(r, p)', Vouches(s, q)', Rivals(r, s)'
               PROVE  p = q
    BY DEF OnePayment
  <2>1. CASE Holds(r, p)'
    BY <1>3, <2>1
  <2>2. CASE Holds(s, q)'
    <3>1. Rivals(s, r)'
      BY DEF Rivals
    <3> QED
      BY <1>3, <2>2, <3>1
  <2>3. CASE Vouches(r, p) /\ Vouches(s, q)
    <3>1. Rivals(r, s)
      BY <2>3, VouchKept DEF Rivals
    <3> QED
      BY <2>3, <3>1 DEF OnePayment
  <2> QED
    BY <1>1, <2>1, <2>2, <2>3
<1> QED
  BY <1>2, <1>4
-----------------------------------------------------------------------------
\* An answer that was given stays.
LEMMA KeepsAnswer ==
    ASSUME IInv, PositionInv, [Next]_vars, NEW r \in Requests, reply[r].code = "ok"
    PROVE  reply'[r] = reply[r] /\ pc'[r] = "done"
<1>1. pc[r] = "done"
  BY DEF PositionInv, NoReply
<1> USE DEF IInv, TypeOK, Go, Return, Settle
<1>2. ASSUME NEW s \in Requests, NEW k \in Keys, Begin(s, k)
      PROVE  reply'[r] = reply[r] /\ pc'[r] = "done"
  BY <1>1, <1>2 DEF Begin
<1>3. ASSUME NEW s \in Requests, BeginPlain(s) \/ Abandon(s) \/ Step(s)
      PROVE  reply'[r] = reply[r] /\ pc'[r] = "done"
  BY <1>1, <1>3
  DEF BeginPlain, Abandon, Step, ClaimGranted, ClaimReplays, ClaimRefused, ClaimAwaits,
      ClaimFault, Reconcile, Invalid, RouteFails, RouteFound, MarkOk, MarkRefused,
      MarkFault, SubmitSend, SubmitOk, SubmitRetries, SubmitGivesUp, CompleteOk,
      CompleteRefused, CompleteFault
<1>4. ASSUME NEW n \in Nodes, Crash(n)
      PROVE  reply'[r] = reply[r] /\ pc'[r] = "done"
  BY <1>1, <1>4 DEF Crash
<1>5. CASE Tick \/ UNCHANGED vars
  BY <1>1, <1>5 DEF Tick, vars
<1> QED
  BY <1>2, <1>3, <1>4, <1>5 DEF Next

\* A keyed request answers by replaying a record, by reconciling with a
\* payment that its instance knows to be terminal, or by completing its own.
LEMMA NewAnswer ==
    ASSUME IInv, PositionInv, [Next]_vars, NEW r \in Requests, key'[r] # None,
           reply'[r].code = "ok", reply[r].code # "ok"
    PROVE  ClaimReplays(r) \/ Reconcile(r) \/ CompleteOk(r)
<1> USE DEF IInv, TypeOK, Go, Return, Settle, Answer, Error, NoReply, request
<1>1. ASSUME NEW s \in Requests, NEW k \in Keys, Begin(s, k)
      PROVE  FALSE
  BY <1>1 DEF Begin
<1>2. ASSUME NEW s \in Requests, BeginPlain(s) \/ Abandon(s)
      PROVE  FALSE
  BY <1>2 DEF BeginPlain, Abandon
<1>3. ASSUME NEW s \in Requests, Step(s)
      PROVE  ClaimReplays(r) \/ Reconcile(r) \/ CompleteOk(r)
  <2>1. CASE ClaimReplays(s) \/ Reconcile(s) \/ CompleteOk(s)
    <3>1. s = r
      BY <2>1 DEF ClaimReplays, Reconcile, CompleteOk
    <3> QED
      BY <2>1, <3>1
  <2>2. CASE ~(ClaimReplays(s) \/ Reconcile(s) \/ CompleteOk(s))
    BY <1>3, <2>2
    DEF Step, ClaimGranted, ClaimRefused, ClaimAwaits, ClaimFault, Invalid, RouteFails,
        RouteFound, MarkOk, MarkRefused, MarkFault, SubmitSend, SubmitOk, SubmitRetries,
        SubmitGivesUp, CompleteRefused, CompleteFault, WriteError
  <2> QED
    BY <2>1, <2>2
<1>4. ASSUME NEW n \in Nodes, Crash(n)
      PROVE  FALSE
  BY <1>4 DEF Crash
<1>5. CASE Tick \/ UNCHANGED vars
  BY <1>5 DEF Tick, vars
<1> QED
  BY <1>1, <1>2, <1>3, <1>4, <1>5 DEF Next

\* An answer that was given stays what its payment came to, and what a live
\* record holds.
LEMMA AnswerKept ==
    ASSUME IInv, PositionInv, RecordInv, VouchInv, AnswerInv, [Next]_vars,
           NEW r \in Requests, key[r] # None, reply[r].code = "ok",
           NEW b, b = reply[r].body
    PROVE  /\ Settled(b.payment, b)'
           /\ \/ records'[key[r]] = None
              \/ ep[r] < epoch'[key[r]]
              \/ records'[key[r]].lifecycle # "completed"
              \/ records'[key[r]].response = b
<1> DEFINE p == b.payment
<1>1. b \in Body /\ p \in Requests
  BY DEF PositionInv, Body
<1>2. Vouches(r, p) /\ key[r] \in Keys
  BY <1>1 DEF Vouches, IInv, TypeOK
<1>3. Settled(p, b)
  BY DEF AnswerInv
<1>4. Settled(p, b)'
  BY <1>1, <1>3, KeepsSettled
<1>5. /\ ep[r] \in Nat /\ ep[r] <= epoch[key[r]]
      /\ epoch[key[r]] \in Nat /\ epoch'[key[r]] \in Nat
      /\ epoch[key[r]] <= epoch'[key[r]]
      /\ records[key[r]] = None /\ records'[key[r]] # None =>
            epoch[key[r]] < epoch'[key[r]]
  BY <1>2, EpochsGrow DEF IInv, TypeOK, EpochInv
<1>6. CASE records[key[r]] = None \/ ep[r] < epoch[key[r]]
  BY <1>4, <1>5, <1>6
<1>7. CASE UNCHANGED vars
  BY <1>4, <1>7 DEF vars, AnswerInv
<1>8. CASE Next /\ records[key[r]] # None /\ ~(ep[r] < epoch[key[r]])
  <2>1. CASE records[key[r]].lifecycle = "completed"
    <3>1. ClaimMoves(records[key[r]], records'[key[r]])
      BY <1>2, <1>8, StepMoves
    <3>2. records[key[r]].response = b
      BY <1>8, <2>1 DEF AnswerInv
    <3> QED
      BY <1>4, <2>1, <3>1, <3>2 DEF ClaimMoves
  <2>2. CASE /\ records[key[r]].lifecycle # "completed"
             /\ records'[key[r]] # None /\ records'[key[r]].lifecycle = "completed"
    <3>1. PICK s \in Requests :
             /\ pc[s] = "complete" /\ records[key[r]].owner = s
             /\ records'[key[r]].response = Result(s)
      BY <1>2, <1>8, <2>2, NewlyCompleted
    <3>2. s = p
      BY <1>1, <1>2, <1>8, <3>1 DEF VouchInv, Held
    <3>3. pay[s] = b.status
      BY <1>3, <3>1, <3>2 DEF Settled, IInv, RequestInv
    <3>4. b = [payment |-> s, status |-> pay[s]]
      BY <1>1, <3>2, <3>3 DEF Body
    <3> QED
      BY <1>4, <3>1, <3>4 DEF Result
  <2> QED
    BY <1>4, <2>1, <2>2
<1> QED
  BY <1>6, <1>7, <1>8

\* A new answer is what its payment came to; its instance still knows the
\* status, or a live record says the same.
LEMMA AnswerNew ==
    ASSUME IInv, PositionInv, RecordInv, VouchInv, [Next]_vars, NEW r \in Requests,
           key'[r] # None, reply'[r].code = "ok", reply[r].code # "ok",
           NEW b, b = reply'[r].body
    PROVE  /\ Settled(b.payment, b)'
           /\ \/ records'[key'[r]] = None
              \/ ep'[r] < epoch'[key'[r]]
              \/ records'[key'[r]].lifecycle # "completed"
              \/ records'[key'[r]].response = b
           /\ \/ pay'[b.payment] = b.status
              \/ /\ records'[key'[r]] # None /\ ~(ep'[r] < epoch'[key'[r]])
                 /\ records'[key'[r]].lifecycle = "completed"
<1>1. ClaimReplays(r) \/ Reconcile(r) \/ CompleteOk(r)
  BY NewAnswer
<1>2. CASE ClaimReplays(r)
  <2>1. /\ pc[r] = "claim" /\ RunClaim(r) /\ ClaimSays(r) = "replay" /\ key' = key
        /\ b = Found(r).response
    BY <1>2 DEF ClaimReplays, request, Return, Answer, IInv, TypeOK
  <2>2. /\ records' = records /\ epoch' = epoch /\ key[r] \in Keys
        /\ Found(r) \in ClaimRecord /\ Found(r).lifecycle = "completed"
        /\ ep'[r] = epoch[key[r]] /\ epoch[key[r]] \in Nat
    BY <2>1, FoundRecord DEF IInv, TypeOK
  <2>3. b.payment = Found(r).owner /\ b.payment \in Requests /\ Settled(b.payment, b)
    BY <2>1, <2>2, NoneAssumption DEF RecordInv, Found, ClaimRecord
  <2>4. Settled(b.payment, b)'
    BY <2>3, KeepsSettled
  <2> QED
    BY <2>1, <2>2, <2>4, NoneAssumption DEF Found
<1>3. CASE Reconcile(r)
  <2> DEFINE p == ref[r]
  <2>1. /\ pc[r] = "reconcile" /\ p \in Requests /\ key' = key /\ ep' = ep
        /\ records' = records /\ epoch' = epoch /\ pay' = pay /\ attempts' = attempts
    BY <1>3 DEF Reconcile, request, IInv, RequestInv
  <2>2. b = [payment |-> p, status |-> pay[p]] /\ Terminal(pay[p])
    BY <1>3 DEF Reconcile, Return, Answer, Error, IInv, TypeOK
  <2>3. pc[p] \in {"complete", "done"} /\ (pay[p] = "confirmed" => attempts[p] > 0)
    BY <2>1, <2>2 DEF PositionInv, Terminal, IInv, TypeOK, PC
  <2>4. Settled(p, b)
    BY <2>2, <2>3 DEF Settled
  <2>5. Settled(b.payment, b)'
    BY <2>1, <2>2, <2>4, KeepsSettled
  <2>6. Vouches(r, p) /\ key[r] \in Keys
    BY <2>1 DEF Vouches, IInv, RequestInv, TypeOK
  <2>7. \/ records[key[r]] = None
        \/ ep[r] < epoch[key[r]]
        \/ records[key[r]].lifecycle # "completed"
        \/ records[key[r]].response = b
    <3> SUFFICES ASSUME records[key[r]] # None, ~(ep[r] < epoch[key[r]]),
                        records[key[r]].lifecycle = "completed"
                 PROVE  records[key[r]].response = b
      OBVIOUS
    <3>1. records[key[r]].owner = p
      BY <2>1, <2>6 DEF VouchInv, Held
    <3> DEFINE a == records[key[r]].response
    <3>2. a \in Body /\ a.payment = p /\ Settled(p, a)
      BY <2>6, <3>1 DEF RecordInv
    <3>3. a.status = pay[p]
      BY <2>2, <3>2 DEF Settled, Terminal
    <3>4. a = [payment |-> a.payment, status |-> a.status]
      BY <3>2 DEF Body
    <3> QED
      BY <2>2, <3>2, <3>3, <3>4
  <2> QED
    BY <2>1, <2>2, <2>5, <2>7
<1>4. CASE CompleteOk(r)
  <2>1. /\ pc[r] = "complete" /\ RunComplete(r) /\ WriteOutcome(Found(r), r) = "ok"
        /\ key' = key /\ ep' = ep /\ epoch' = epoch /\ pay' = pay /\ attempts' = attempts
        /\ b = Result(r) /\ pc'[r] = "done"
    BY <1>4 DEF CompleteOk, request, Return, Go, Answer, IInv, TypeOK
  <2>2. records'[key[r]].response = Result(r)
    BY <2>1, RunCompleteEffect DEF IInv
  <2>3. b.payment = r /\ b.status = pay[r]
    BY <2>1 DEF Result
  <2>4. Settled(b.payment, b)'
    BY <2>1, <2>3 DEF Settled, PositionInv
  <2> QED
    BY <2>1, <2>2, <2>3, <2>4
<1> QED
  BY <1>1, <1>2, <1>3, <1>4

LEMMA AnswerStep ==
    ASSUME TruthInv, [Next]_vars
    PROVE  AnswerInv' /\ AnswersAgree'
<1> USE DEF TruthInv
<1>1. IInv' /\ PositionInv' /\ OnePayment'
  BY InvStep, PositionStep, VouchStep
<1>2. ASSUME NEW r \in Requests, reply[r].code = "ok", key'[r] # None
      PROVE  /\ reply'[r] = reply[r] /\ key'[r] = key[r] /\ ep'[r] = ep[r]
  <2>1. pc[r] = "done" /\ reply'[r] = reply[r]
    BY <1>2, KeepsAnswer DEF PositionInv, NoReply
  <2> QED
    BY <2>1, KeepsGroup
<1>3. AnswerInv'
  <2> SUFFICES ASSUME NEW r \in Requests, key'[r] # None, reply'[r].code = "ok"
               PROVE  /\ Settled(reply[r].body.payment, reply[r].body)'
                      /\ \/ records'[key'[r]] = None
                         \/ ep'[r] < epoch'[key'[r]]
                         \/ records'[key'[r]].lifecycle # "completed"
                         \/ records'[key'[r]].response = reply'[r].body
    BY DEF AnswerInv
  <2>1. CASE reply[r].code = "ok"
    BY <1>2, <2>1, AnswerKept DEF Settled
  <2>2. CASE reply[r].code # "ok"
    BY <2>2, AnswerNew DEF Settled
  <2> QED
    BY <2>1, <2>2
<1>4. ASSUME NEW r \in Requests, NEW s \in Requests, Rivals(r, s)',
             reply'[r].code = "ok", reply'[s].code = "ok", reply[r].code # "ok"
      PROVE  reply'[r].body = reply'[s].body
  <2>0. PICK b, c : b = reply'[r].body /\ c = reply'[s].body
    OBVIOUS
  <2> USE <2>0
  <2>1. /\ b \in Body /\ c \in Body /\ key'[r] # None /\ key'[s] # None
        /\ key'[r] = key'[s] /\ ep'[r] = ep'[s]
    BY <1>1, <1>4 DEF PositionInv, Rivals
  <2>2. b.payment \in Requests /\ c.payment \in Requests
    BY <2>1 DEF Body
  <2>3. Vouches(r, b.payment)' /\ Vouches(s, c.payment)'
    BY <1>4, <2>1 DEF Vouches
  <2>4. b.payment = c.payment
    BY <1>1, <1>4, <2>2, <2>3 DEF OnePayment
  <2>5. CASE pay'[b.payment] = b.status
    <3>1. pay'[c.payment] \in {c.status, "none"}
      BY <1>3, <1>4, <2>1 DEF AnswerInv, Settled
    <3>2. b.status # "none"
      BY <2>1 DEF Body
    <3> QED
      BY <2>1, <2>4, <2>5, <3>1, <3>2 DEF Body
  <2>6. CASE /\ records'[key'[r]] # None /\ ~(ep'[r] < epoch'[key'[r]])
             /\ records'[key'[r]].lifecycle = "completed"
    BY <1>3, <1>4, <2>1, <2>6 DEF AnswerInv
  <2> QED
    BY <1>4, <2>1, <2>5, <2>6, AnswerNew
<1>5. AnswersAgree'
  <2> SUFFICES ASSUME NEW r \in Requests, NEW s \in Requests, Rivals(r, s)',
                      reply'[r].code = "ok", reply'[s].code = "ok"
               PROVE  reply'[r].body = reply'[s].body
    BY DEF AnswersAgree
  <2>1. key'[r] # None /\ key'[s] # None /\ Rivals(s, r)'
    BY DEF Rivals
  <2>2. CASE reply[r].code = "ok" /\ reply[s].code = "ok"
    BY <1>2, <2>1, <2>2 DEF AnswersAgree, Rivals
  <2> QED
    BY <1>4, <2>1, <2>2
<1> QED
  BY <1>3, <1>5
-----------------------------------------------------------------------------
LEMMA TruthInit == Init => TruthInv
<1> SUFFICES ASSUME Init PROVE TruthInv
  OBVIOUS
<1>1. IInv
  BY InvInit
<1>2. \A r \in Requests : /\ pc[r] = "idle" /\ key[r] = None /\ reply[r] = NoReply
                          /\ attempts[r] = 0 /\ pay[r] = "none"
  BY DEF Init
<1>3. \A k \in Keys : records[k] = None
  BY DEF Init
<1> QED
  BY <1>1, <1>2, <1>3
  DEF TruthInv, PositionInv, RecordInv, VouchInv, OnePayment, AnswerInv, AnswersAgree,
      Vouches, Rivals, NoReply, Terminal

LEMMA TruthStep == TruthInv /\ [Next]_vars => TruthInv'
  BY InvStep, PositionStep, RecordStep, VouchStep, AnswerStep DEF TruthInv

\* The inductive invariant about answers holds in every reachable state.
THEOREM Truth == Spec => []TruthInv
  BY TruthInit, TruthStep, PTL DEF Spec

\* All answers given under one life of a key, by executing, by replaying the
\* stored response or by reconciling with the local payment, are the same.
THEOREM OneAnswer == Spec => []AnswersAgree
<1>1. TruthInv => AnswersAgree
  BY DEF TruthInv
<1> QED
  BY <1>1, Truth, PTL

\* An answer is about the payment that was submitted, if one was.
THEOREM AnswersTheSubmission == Spec => []AnswerCoversSubmission
<1>1. TruthInv => AnswerCoversSubmission
  <2> SUFFICES ASSUME TruthInv, NEW r \in Requests, NEW s \in Requests, Rivals(r, s),
                      reply[r].code = "ok", attempts[s] > 0
               PROVE  reply[r].body.payment = s
    BY DEF AnswerCoversSubmission
  <2>1. key[r] # None /\ key[s] # None /\ reply[r].body.payment \in Requests
    BY DEF Rivals, TruthInv, PositionInv, Body
  <2>2. Vouches(r, reply[r].body.payment) /\ Vouches(s, s)
    BY <2>1 DEF Vouches, Marked
  <2> QED
    BY <2>1, <2>2 DEF TruthInv, OnePayment
<1> QED
  BY <1>1, Truth, PTL
-----------------------------------------------------------------------------
\* The engine implements OncePerKey.  What a client of OncePerKey sees:
Groups == (Keys \cup Requests) \X Nat
Told(r) == IF reply[r].code = "ok" THEN reply[r].body ELSE None

\* Nobody but r changes its group.
OnlyJoins(r) == \A s \in Requests : s # r => GroupOf(s)' = GroupOf(s)

\* Nobody but r is told something.
OnlyTells(r) == \A s \in Requests : s # r => Told(s)' = Told(s)

LEMMA MapsToJoin ==
    ASSUME NEW r \in Requests, GroupOf(r) = None, GroupOf(r)' \in Groups, OnlyJoins(r),
           attempts' = attempts, \A s \in Requests : Told(s)' = Told(s)
    PROVE  Promise!Join(r)
<1>1. Promise!Joins(r)
  BY DEF Promise!Joins, OnlyJoins, Groups
<1>2. [s \in Requests |-> Told(s)]' = [s \in Requests |-> Told(s)]
  OBVIOUS
<1> QED
  BY <1>1, <1>2 DEF Promise!Join, Told

LEMMA MapsToStutter ==
    ASSUME \A s \in Requests : GroupOf(s)' = GroupOf(s),
           attempts' = attempts, \A s \in Requests : Told(s)' = Told(s)
    PROVE  UNCHANGED Promise!vars
<1>1. [s \in Requests |-> Told(s)]' = [s \in Requests |-> Told(s)]
  OBVIOUS
<1>2. [s \in Requests |-> GroupOf(s)]' = [s \in Requests |-> GroupOf(s)]
  OBVIOUS
<1> QED
  BY <1>1, <1>2 DEF Promise!vars, Told

LEMMA MapsToMove ==
    ASSUME TypeOK, NEW r \in Requests, GroupOf(r) # None,
           attempts' = [attempts EXCEPT ![r] = @ + 1],
           \A s \in Requests : GroupOf(s) = GroupOf(r) =>
                Told(s) = None /\ (attempts[s] > 0 => s = r),
           \A s \in Requests : GroupOf(s)' = GroupOf(s) /\ Told(s)' = Told(s)
    PROVE  Promise!Move(r)
<1>1. [s \in Requests |-> Told(s)]' = [s \in Requests |-> Told(s)]
  OBVIOUS
<1>2. [s \in Requests |-> GroupOf(s)]' = [s \in Requests |-> GroupOf(s)]
  OBVIOUS
<1>3. {s \in Requests : attempts'[s] > 0} = {s \in Requests : attempts[s] > 0} \cup {r}
  BY DEF TypeOK
<1> QED
  BY <1>1, <1>2, <1>3 DEF Promise!Move, Promise!Peers, Told

LEMMA MapsToTell ==
    ASSUME NEW r \in Requests, Told(r) = None, Told(r)' \in Body, OnlyTells(r), 
           attempts' = attempts,
           \/ GroupOf(r) = None /\ GroupOf(r)' \in Groups
           \/ GroupOf(r) # None /\ GroupOf(r)' = GroupOf(r),
           OnlyJoins(r),
           NEW b, b = Told(r)',
           \A s \in Requests : GroupOf(s) = GroupOf(r)' =>
                Told(s) \in {None, b} /\ (attempts[s] > 0 => s = b.payment),
           b.status = "confirmed" => attempts[b.payment] > 0
    PROVE  Promise!Tell(r)
<1>1. [s \in Requests |-> Told(s)]' = [[s \in Requests |-> Told(s)] EXCEPT ![r] = b]
  BY DEF OnlyTells
<1>2. \/ Promise!Joins(r)
      \/ GroupOf(r) # None /\ [s \in Requests |-> GroupOf(s)]' = [s \in Requests |-> GroupOf(s)]
  BY DEF Promise!Joins, OnlyJoins, Groups
<1>3. b.payment \in Requests
  BY DEF Body
<1>4. Promise!Outcome(GroupOf(r)', b)
  BY <1>3 DEF Promise!Outcome, Promise!Peers, Told
<1> QED
  BY <1>1, <1>2, <1>4 DEF Promise!Tell, Told

\* Which requests share a group, and that None is no group.
LEMMA GroupMeaning ==
    ASSUME IInv, NEW r \in Requests, NEW s \in Requests
    PROVE  /\ GroupOf(r) \in Groups \cup {None}
           /\ None \notin Groups
           /\ GroupOf(r) # None /\ GroupOf(s) = GroupOf(r) =>
                \/ r = s /\ key[r] = None
                \/ Rivals(r, s) /\ ep[r] > 0
<1>1. None \notin Groups
  BY EngineAssumption DEF Groups
<1>2. GroupOf(r) \in Groups \cup {None}
  BY DEF Groups, GroupOf, IInv, TypeOK
<1>3. ep[r] \in Nat /\ ep[s] \in Nat
  BY DEF IInv, TypeOK
<1> QED
  BY <1>1, <1>2, <1>3 DEF GroupOf, Rivals

\* The step of one handler leaves the others alone.
LEMMA StepIsLocal ==
    ASSUME IInv, NEW r \in Requests, NEW s \in Requests, r # s,
           \/ Step(r) \/ BeginPlain(r) \/ Abandon(r)
           \/ \E k \in Keys : Begin(r, k)
    PROVE  key'[s] = key[s] /\ ep'[s] = ep[s] /\ pc'[s] = pc[s] /\ reply'[s] = reply[s]
<1> USE DEF IInv, TypeOK, Go, Return, Settle, request
<1>1. pc[r] = "claim" /\ RunClaim(r) => ep'[s] = ep[s]
  BY DEF RunClaim
<1>2. CASE Step(r)
  BY <1>1, <1>2
  DEF Step, ClaimGranted, ClaimReplays, ClaimRefused, ClaimAwaits, ClaimFault,
      Reconcile, Invalid, RouteFails, RouteFound, MarkOk, MarkRefused, MarkFault,
      SubmitSend, SubmitOk, SubmitRetries, SubmitGivesUp, CompleteOk,
      CompleteRefused, CompleteFault
<1>3. CASE BeginPlain(r) \/ Abandon(r)
  BY <1>3 DEF BeginPlain, Abandon
<1>4. CASE \E k \in Keys : Begin(r, k)
  BY <1>4 DEF Begin
<1> QED
  BY <1>2, <1>3, <1>4

LEMMA StepGroups ==
    ASSUME IInv, PositionInv, NEW r \in Requests,
           \/ Step(r) \/ BeginPlain(r) \/ Abandon(r)
           \/ \E k \in Keys : Begin(r, k)
    PROVE  /\ OnlyJoins(r) /\ OnlyTells(r)
           /\ pc[r] \notin {"idle", "claim"} => GroupOf(r)' = GroupOf(r)
           /\ pc[r] \notin {"idle", "claim", "done"} => GroupOf(r) # None
           /\ reply'[r] = reply[r] => \A s \in Requests : Told(s)' = Told(s)
<1>1. OnlyJoins(r) /\ OnlyTells(r)
  BY StepIsLocal DEF OnlyJoins, OnlyTells, GroupOf, Told
<1>2. Next
  BY DEF Next
<1>3. ASSUME pc[r] \notin {"idle", "claim"}
      PROVE  GroupOf(r)' = GroupOf(r)
  BY <1>2, <1>3, KeepsGroup DEF GroupOf
<1>4. ASSUME pc[r] \notin {"idle", "claim", "done"}
      PROVE  GroupOf(r) # None
  <2>1. key[r] # None => ep[r] # 0 /\ ep[r] \in Nat /\ key[r] \in Keys
    BY <1>4 DEF PositionInv, IInv, TypeOK
  <2>2. GroupOf(r) \in Groups
    BY <1>4, <2>1 DEF GroupOf, Groups
  <2> QED
    BY <2>2, EngineAssumption DEF Groups
<1> QED
  BY <1>1, <1>3, <1>4 DEF OnlyTells, Told

\* A claim's epoch is positive: fresh claims raise it, and a record that is
\* found was claimed before.
LEMMA ClaimJoins ==
    ASSUME IInv, RecordInv, NEW r \in Requests, pc[r] = "claim", RunClaim(r),
           key' = key
    PROVE  GroupOf(r) = None /\ GroupOf(r)' \in Groups
<1>1. key[r] \in Keys /\ ep[r] = 0 /\ epoch[key[r]] \in Nat /\ Found(r) \in ClaimRecord \cup {None}
  BY DEF IInv, TypeOK, RequestInv, EpochInv, Found
<1>2. key[r] # None
  BY <1>1, EngineAssumption
<1>3. ep'[r] \in Nat /\ ep'[r] > 0
  <2>1. CASE ClaimSays(r) = "claimed"
    BY <1>1, <2>1 DEF RunClaim, IInv, TypeOK
  <2>2. CASE ClaimSays(r) # "claimed"
    <3>1. Found(r) # None
      BY <2>2 DEF ClaimSays, Outcome
    <3>2. epoch[key[r]] > 0
      BY <1>1, <3>1 DEF RecordInv, Found
    <3> QED
      BY <1>1, <2>2, <3>2 DEF RunClaim, IInv, TypeOK
  <2> QED
    BY <2>1, <2>2
<1> QED
  BY <1>1, <1>2, <1>3 DEF GroupOf, Groups

\* A request with a key that is answered tells what its group may be told.
LEMMA KeyedTell ==
    ASSUME TruthInv, TruthInv', NEW r \in Requests,
           Told(r) = None, reply'[r].code = "ok", key'[r] # None, attempts' = attempts,
           OnlyJoins(r), OnlyTells(r), 
           GroupOf(r) = None \/ (GroupOf(r) # None /\ GroupOf(r)' = GroupOf(r))
    PROVE  Promise!Tell(r)
<1> USE DEF TruthInv
<1>1. PICK b : b = Told(r)'
  OBVIOUS
<1>2. b = reply'[r].body /\ b \in Body /\ b.payment \in Requests
  BY <1>1 DEF Told, PositionInv, Body
<1>3. GroupOf(r)' \in Groups
  BY DEF PositionInv, GroupOf, Groups, IInv, TypeOK
<1>4. b.status = "confirmed" => attempts[b.payment] > 0
  BY <1>2 DEF AnswerInv, Settled
<1>5. ASSUME NEW s \in Requests, GroupOf(s) = GroupOf(r)'
      PROVE  Told(s) \in {None, b} /\ (attempts[s] > 0 => s = b.payment)
  <2>1. GroupOf(s)' = GroupOf(r)'
    BY <1>5 DEF OnlyJoins
  <2>2. GroupOf(r)' # None
    BY <1>3, EngineAssumption DEF Groups
  <2>3. Rivals(r, s)'
    <3>1. ep'[r] > 0 /\ ep'[r] \in Nat /\ ep'[s] \in Nat
      BY DEF PositionInv, IInv, TypeOK
    <3> QED
      BY <2>1, <2>2, <3>1 DEF GroupOf, Rivals
  <2>4. Told(s) \in {None, b}
    <3>1. CASE s = r
      BY <3>1
    <3>2. CASE s # r
      BY <1>2, <2>3, <3>2 DEF OnlyTells, Told, AnswersAgree
    <3> QED
      BY <3>1, <3>2
  <2>5. ASSUME attempts[s] > 0 PROVE s = b.payment
    <3>1. key'[s] # None
      BY <2>3 DEF Rivals
    <3>2. Vouches(r, reply[r].body.payment)' /\ Vouches(s, s)'
      BY <2>5, <3>1 DEF Vouches, Marked
    <3>3. \A p, q \in Requests : Vouches(r, p)' /\ Vouches(s, q)' => p = q
      BY <2>3 DEF OnePayment
    <3> QED
      BY <1>2, <3>2, <3>3
  <2> QED
    BY <2>4, <2>5
<1> QED
  BY <1>1, <1>2, <1>3, <1>4, <1>5, MapsToTell

\* A request without a key is alone in its group.
LEMMA PlainTell ==
    ASSUME TruthInv, NEW r \in Requests, key[r] = None, pc[r] \notin {"idle", "done"},
           NEW b \in Body, b.payment = r, b.status = "confirmed" => attempts[r] > 0,
           reply' = [reply EXCEPT ![r] = Answer(b)], attempts' = attempts,
           OnlyJoins(r), OnlyTells(r), GroupOf(r)' = GroupOf(r)
    PROVE  Promise!Tell(r)
<1>1. Told(r) = None /\ Told(r)' = b
  BY DEF Told, TruthInv, PositionInv, NoReply, Answer, IInv, TypeOK
<1>2. GroupOf(r) = <<r, 0>> /\ GroupOf(r) # None
  BY EngineAssumption DEF GroupOf
<1>3. \A s \in Requests : GroupOf(s) = GroupOf(r)' => s = r
  BY <1>2, GroupMeaning DEF TruthInv, Rivals
<1> QED
  BY <1>1, <1>2, <1>3, MapsToTell

\* A submission under a key: nobody of the group has been told anything, and
\* nobody else of it has submitted.
LEMMA SendMoves ==
    ASSUME TruthInv, NEW r \in Requests, SubmitSend(r)
    PROVE  Promise!Move(r)
<1> USE DEF TruthInv
<1>1. GroupOf(r) # None /\ \A s \in Requests : GroupOf(s)' = GroupOf(s) /\ Told(s)' = Told(s)
  BY StepGroups DEF SubmitSend, Step, OnlyJoins, Told
<1>2. TypeOK /\ attempts' = [attempts EXCEPT ![r] = @ + 1] /\ pc[r] = "submit"
  BY DEF SubmitSend, IInv
<1>3. reply[r].code = "none"
  BY <1>2 DEF PositionInv, NoReply
<1>4. ASSUME NEW s \in Requests, GroupOf(s) = GroupOf(r)
      PROVE  Told(s) = None /\ (attempts[s] > 0 => s = r)
  <2>1. CASE s = r
    BY <1>3, <2>1 DEF Told
  <2>2. CASE s # r
    <3>1. Rivals(r, s)
      BY <1>1, <1>4, <2>2, GroupMeaning
    <3>2. key[r] # None /\ key[s] # None /\ Rivals(s, r) /\ Marked(r)
      BY <1>2, <3>1 DEF Rivals, Marked
    <3>3. reply[s].code # "ok"
      <4> SUFFICES ASSUME reply[s].code = "ok" PROVE FALSE
        OBVIOUS
      <4>1. reply[s].body.payment \in Requests
        BY DEF PositionInv, Body
      <4>2. Vouches(s, reply[s].body.payment) /\ Vouches(r, r)
        BY <3>2 DEF Vouches
      <4>3. reply[s].body.payment = r
        BY <3>1, <4>1, <4>2 DEF OnePayment
      <4> QED
        BY <1>2, <3>2, <4>3 DEF AnswerInv, Settled
    <3>4. attempts[s] > 0 => s = r
      BY <3>1, <3>2 DEF Marked, IInv, UniqueMarked
    <3> QED
      BY <3>3, <3>4 DEF Told
  <2> QED
    BY <2>1, <2>2
<1> QED
  BY <1>1, <1>2, <1>4, MapsToMove

\* run_initiation ends: a keyed request goes on unseen, a plain one answers.
LEMMA SettleTells ==
    ASSUME TruthInv, NEW r \in Requests, Step(r), pc[r] \in {"route", "sent"},
           NEW st \in {"confirmed", "failed"}, Settle(r, st),
           st = "confirmed" => attempts[r] > 0, attempts' = attempts
    PROVE  Promise!Tell(r) \/ UNCHANGED Promise!vars
<1> USE DEF TruthInv
<1>1. OnlyJoins(r) /\ OnlyTells(r) /\ GroupOf(r)' = GroupOf(r)
  BY StepGroups
<1>2. CASE key[r] = None
  <2> DEFINE b == [payment |-> r, status |-> st]
  <2>1. b \in Body /\ b.payment = r /\ b.status = st
    BY DEF Body
  <2>2. reply' = [reply EXCEPT ![r] = Answer(b)]
    BY <1>2 DEF Settle, Return
  <2> HIDE DEF b
  <2> QED
    BY <1>1, <1>2, <2>1, <2>2, PlainTell
<1>3. CASE key[r] # None
  <2>1. reply' = reply
    BY <1>3 DEF Settle
  <2> QED
    BY <1>1, <2>1, MapsToStutter DEF OnlyJoins, Told
<1> QED
  BY <1>2, <1>3

\* A step that leaves the requests' groups, attempts and answers alone.
LEMMA SilentStep ==
    ASSUME TruthInv, NEW r \in Requests, Step(r) \/ Abandon(r), pc[r] \notin {"idle", "claim"},
           attempts' = attempts, Told(r)' = Told(r)
    PROVE  UNCHANGED Promise!vars
<1>1. \A s \in Requests : GroupOf(s)' = GroupOf(s) /\ Told(s)' = Told(s)
  BY StepGroups DEF OnlyJoins, OnlyTells, TruthInv
<1> QED
  BY <1>1, MapsToStutter

\* The claim: its requester joins the group of the key's present life, and is
\* told the stored response if there is one.
LEMMA ClaimMaps ==
    ASSUME TruthInv, TruthInv', NEW r \in Requests,
           \/ ClaimGranted(r) \/ ClaimReplays(r) \/ ClaimRefused(r)
           \/ ClaimAwaits(r) \/ ClaimFault(r)
    PROVE  Promise!Join(r) \/ Promise!Tell(r) \/ UNCHANGED Promise!vars
<1> USE DEF TruthInv
<1>1. Step(r) /\ pc[r] = "claim" /\ key' = key /\ attempts' = attempts
  BY DEF Step, ClaimGranted, ClaimReplays, ClaimRefused, ClaimAwaits, ClaimFault, request
<1>2. OnlyJoins(r) /\ OnlyTells(r)
  BY <1>1, StepGroups
<1>3. key[r] # None /\ Told(r) = None
  BY <1>1 DEF IInv, RequestInv, PositionInv, NoReply, Told
<1>4. CASE RunClaim(r)
  <2>1. GroupOf(r) = None /\ GroupOf(r)' \in Groups
    BY <1>1, <1>4, ClaimJoins
  <2>2. CASE ClaimReplays(r)
    <3>1. reply'[r].code = "ok"
      BY <2>2 DEF ClaimReplays, Return, Answer, IInv, TypeOK
    <3> QED
      BY <1>1, <1>2, <1>3, <2>1, <3>1, KeyedTell
  <2>3. CASE ~ClaimReplays(r)
    <3>1. Told(r)' = None
      BY <1>3, <2>3
      DEF Told, ClaimGranted, ClaimRefused, ClaimAwaits, ClaimFault, Return, Error,
          IInv, TypeOK
    <3> QED
      BY <1>1, <1>2, <1>3, <2>1, <3>1, MapsToJoin DEF OnlyTells
  <2> QED
    BY <2>2, <2>3
<1>5. CASE ~RunClaim(r)
  <2>1. ep' = ep /\ reply' = [reply EXCEPT ![r] = Error("internal")]
    BY <1>5 DEF ClaimGranted, ClaimReplays, ClaimRefused, ClaimAwaits, ClaimFault, Return
  <2>2. Told(r)' = None
    BY <2>1 DEF Told, Error, IInv, TypeOK
  <2>3. GroupOf(r)' = GroupOf(r)
    BY <1>1, <1>3, <2>1 DEF GroupOf
  <2> QED
    BY <1>1, <1>2, <1>3, <2>2, <2>3, MapsToStutter DEF OnlyJoins, OnlyTells
<1> QED
  BY <1>4, <1>5

\* The answers that are given under a key without claiming: to who reconciles
\* with the payment of another, and to who completed its own.
LEMMA LateTell ==
    ASSUME TruthInv, TruthInv', NEW r \in Requests, Reconcile(r) \/ CompleteOk(r)
    PROVE  Promise!Tell(r) \/ UNCHANGED Promise!vars
<1> USE DEF TruthInv
<1>1. Step(r) /\ pc[r] \in {"reconcile", "complete"} /\ key' = key /\ attempts' = attempts
  BY DEF Step, Reconcile, CompleteOk, request
<1>2. /\ OnlyJoins(r) /\ OnlyTells(r) /\ GroupOf(r) # None
      /\ GroupOf(r)' = GroupOf(r)
  BY <1>1, StepGroups
<1>3. key[r] # None /\ Told(r) = None
  BY <1>1 DEF IInv, RequestInv, PositionInv, NoReply, Told
<1>4. CASE reply'[r].code = "ok"
  BY <1>1, <1>2, <1>3, <1>4, KeyedTell
<1>5. CASE reply'[r].code # "ok"
  BY <1>1, <1>3, <1>5, SilentStep DEF Told
<1> QED
  BY <1>4, <1>5

\* Every step of a handler after its arrival is a step of the promise.
LEMMA StepMaps ==
    ASSUME TruthInv, TruthInv', NEW r \in Requests, Step(r)
    PROVE  Promise!Join(r) \/ Promise!Move(r) \/ Promise!Tell(r) \/ UNCHANGED Promise!vars
<1> USE DEF TruthInv
<1>1. CASE \/ ClaimGranted(r) \/ ClaimReplays(r) \/ ClaimRefused(r)
           \/ ClaimAwaits(r) \/ ClaimFault(r)
  BY <1>1, ClaimMaps
<1>2. CASE Reconcile(r) \/ CompleteOk(r)
  BY <1>2, LateTell
<1>3. CASE RouteFails(r) \/ SubmitGivesUp(r)
  <2>1. pc[r] \in {"route", "sent"} /\ Settle(r, "failed") /\ attempts' = attempts
    BY <1>3 DEF RouteFails, SubmitGivesUp
  <2> QED
    BY <2>1, SettleTells
<1>4. CASE SubmitOk(r)
  <2>1. /\ pc[r] = "sent" /\ Settle(r, "confirmed") /\ attempts' = attempts
        /\ attempts[r] > 0
    BY <1>4 DEF SubmitOk, PositionInv
  <2> QED
    BY <2>1, SettleTells
<1>5. CASE SubmitSend(r)
  BY <1>5, SendMoves
<1>6. CASE RouteFound(r) \/ MarkOk(r) \/ SubmitRetries(r)
  <2>1. /\ pc[r] \in {"route", "mark", "sent"} /\ attempts' = attempts
        /\ reply' = reply
    BY <1>6 DEF RouteFound, MarkOk, SubmitRetries
  <2> QED
    BY <2>1, SilentStep DEF Told
<1>7. CASE \/ Invalid(r) \/ MarkRefused(r) \/ MarkFault(r)
           \/ CompleteRefused(r) \/ CompleteFault(r)
  <2>1. /\ pc[r] \in {"route", "mark", "complete"} /\ attempts' = attempts
        /\ \E c \in {"invalid", "precondition", "conflict", "internal"} :
              reply' = [reply EXCEPT ![r] = Error(c)]
    BY <1>7
    DEF Invalid, MarkRefused, MarkFault, CompleteRefused, CompleteFault, Return,
        WriteError
  <2>2. Told(r) = None /\ Told(r)' = None
    BY <2>1 DEF Told, Error, PositionInv, NoReply, IInv, TypeOK
  <2> QED
    BY <2>1, <2>2, SilentStep
<1> QED
  BY <1>1, <1>2, <1>3, <1>4, <1>5, <1>6, <1>7 DEF Step

LEMMA NextMaps ==
    ASSUME TruthInv, TruthInv', [Next]_vars
    PROVE  [Promise!Next]_(Promise!vars)
<1> USE DEF TruthInv
<1>1. ASSUME NEW r \in Requests, Step(r)
      PROVE  Promise!Next \/ UNCHANGED Promise!vars
  BY <1>1, StepMaps DEF Promise!Next
<1>2. ASSUME NEW r \in Requests, BeginPlain(r)
      PROVE  Promise!Next
  <2>1. /\ pc[r] = "idle" /\ pc'[r] = "route" /\ key' = key /\ attempts' = attempts
        /\ reply' = reply /\ key[r] = None
    BY <1>2 DEF BeginPlain, Go, PositionInv, IInv, TypeOK, request
  <2>2. OnlyJoins(r) /\ \A s \in Requests : Told(s)' = Told(s)
    BY <1>2, <2>1, StepGroups
  <2>3. GroupOf(r) = None /\ GroupOf(r)' \in Groups
    BY <2>1 DEF GroupOf, Groups
  <2>4. Promise!Join(r)
    BY <2>1, <2>2, <2>3, MapsToJoin
  <2> QED
    BY <2>4 DEF Promise!Next
<1>3. ASSUME NEW r \in Requests, NEW k \in Keys, Begin(r, k)
      PROVE  UNCHANGED Promise!vars
  <2>1. /\ pc[r] = "idle" /\ key'[r] = k /\ ep' = ep /\ attempts' = attempts
        /\ reply' = reply /\ key[r] = None /\ ep[r] = 0 /\ k # None
    BY <1>3, EngineAssumption DEF Begin, PositionInv, EpochInv, IInv, TypeOK
  <2>2. OnlyJoins(r) /\ \A s \in Requests : Told(s)' = Told(s)
    BY <1>3, <2>1, StepGroups
  <2>3. GroupOf(r) = None /\ GroupOf(r)' = None
    BY <2>1 DEF GroupOf
  <2> QED
    BY <2>1, <2>2, <2>3, MapsToStutter DEF OnlyJoins
<1>4. ASSUME NEW r \in Requests, Abandon(r)
      PROVE  UNCHANGED Promise!vars
  <2>1. pc[r] \notin {"idle", "done"} /\ key' = key /\ ep' = ep /\ attempts' = attempts
        /\ reply' = reply /\ pc'[r] = "done"
    BY <1>4 DEF Abandon, Go, IInv, TypeOK, request
  <2>2. OnlyJoins(r) /\ \A s \in Requests : Told(s)' = Told(s)
    BY <1>4, <2>1, StepGroups
  <2>3. GroupOf(r)' = GroupOf(r)
    BY <2>1 DEF GroupOf
  <2> QED
    BY <2>1, <2>2, <2>3, MapsToStutter DEF OnlyJoins
<1>5. ASSUME NEW n \in Nodes, Crash(n)
      PROVE  UNCHANGED Promise!vars
  <2>1. \A s \in Requests : GroupOf(s)' = GroupOf(s) /\ Told(s)' = Told(s)
    BY <1>5 DEF Crash, GroupOf, Told, request
  <2> QED
    BY <1>5, <2>1, MapsToStutter DEF Crash
<1>6. CASE Tick \/ UNCHANGED vars
  <2>1. \A s \in Requests : GroupOf(s)' = GroupOf(s) /\ Told(s)' = Told(s)
    BY <1>6 DEF Tick, vars, GroupOf, Told, request
  <2> QED
    BY <1>6, <2>1, MapsToStutter DEF Tick, vars
<1> QED
  BY <1>1, <1>2, <1>3, <1>4, <1>5, <1>6 DEF Next

\* Engine::initiate and initiate_idempotent implement OncePerKey for every
\* number of requests, keys and instances: through takeovers, crashes, lost
\* replies and clock skew, a life of a key moves money for one of its requests
\* at most, never after an outcome was told, and tells one outcome.
THEOREM Refinement == Spec => ImplementsPromise
<1>1. Init => Promise!Init
  BY DEF Init, Promise!Init, GroupOf, NoReply
<1>2. TruthInv /\ TruthInv' /\ [Next]_vars => [Promise!Next]_(Promise!vars)
  BY NextMaps
<1> QED
  BY <1>1, <1>2, Truth, PTL DEF Spec, ImplementsPromise, Promise!Spec
-----------------------------------------------------------------------------
\* The safety half of RequestsEnd and KeysAreFreed: how many steps a handler
\* has left, and what keeps a record alive.

\* An upper bound on the steps of a handler at x after n calls of adapter.submit:
\* two for each attempt left, and those around the retries.
Steps(x, n) ==
    CASE x = "idle"   -> 2 * MaxAttempts + 5
      [] x = "claim"  -> 2 * MaxAttempts + 4
      [] x = "route"  -> 2 * MaxAttempts + 3
      [] x = "mark"   -> 2 * MaxAttempts + 2
      [] x = "submit" -> 2 * (MaxAttempts - n) + 1
      [] x = "sent"   -> 2 * (MaxAttempts - n) + 2
      [] x \in {"complete", "reconcile"} -> 1
      [] OTHER -> 0

StepsLeft(r) == Steps(pc[r], attempts[r])

\* retry never sends more often than it may.
AttemptInv ==
    \A r \in Requests :
        /\ attempts[r] <= MaxAttempts
        /\ pc[r] = "submit" => attempts[r] < MaxAttempts

EndInv == IInv /\ AttemptInv

\* r stays where it is or comes nearer to its end.
Dwindles(r) ==
    \/ UNCHANGED <<pc[r], attempts[r]>>
    \/ StepsLeft(r)' < StepsLeft(r)

\* No step of the deployment, crashes and lost replies included, gives a handler
\* more steps to make.
RequestsDwindle == [][\A r \in Requests : Dwindles(r)]_vars

\* A handler makes at most 2 * MaxAttempts + 5 steps and calls adapter.submit at
\* most MaxAttempts times; it has no step left exactly when it is done.
RequestsBounded ==
    \A r \in Requests :
        /\ attempts[r] <= MaxAttempts
        /\ StepsLeft(r) \in 0..(2 * MaxAttempts + 5)
        /\ StepsLeft(r) = 0 <=> pc[r] = "done"

LEMMA StepsValue ==
    ASSUME NEW n
    PROVE  /\ Steps("idle", n) = 2 * MaxAttempts + 5
           /\ Steps("claim", n) = 2 * MaxAttempts + 4
           /\ Steps("route", n) = 2 * MaxAttempts + 3
           /\ Steps("mark", n) = 2 * MaxAttempts + 2
           /\ Steps("submit", n) = 2 * (MaxAttempts - n) + 1
           /\ Steps("sent", n) = 2 * (MaxAttempts - n) + 2
           /\ Steps("complete", n) = 1
           /\ Steps("reconcile", n) = 1
           /\ Steps("done", n) = 0
  BY DEF Steps

\* The ways a handler gets from one position to another.
Flow(x, n, y, m) ==
    \/ y = "done" /\ x # "idle" /\ x # "done" /\ m = n
    \/ x = "idle" /\ y \in {"claim", "route"} /\ m = n
    \/ x = "claim" /\ y \in {"route", "reconcile"} /\ m = n
    \/ x = "route" /\ y \in {"mark", "submit", "complete"} /\ m = n
    \/ x = "mark" /\ y = "submit" /\ m = n
    \/ x = "submit" /\ y = "sent" /\ m = n + 1
    \/ x = "sent" /\ y = "complete" /\ m = n
    \/ x = "sent" /\ y = "submit" /\ m = n /\ n < MaxAttempts

\* Every step of r's handler follows the flow and leaves the others alone.
LEMMA HandlerFlow ==
    ASSUME IInv, NEW r \in Requests,
           \/ Step(r) \/ BeginPlain(r) \/ Abandon(r)
           \/ \E k \in Keys : Begin(r, k)
    PROVE  /\ Flow(pc[r], attempts[r], pc'[r], attempts'[r])
           /\ \A s \in Requests \ {r} : pc'[s] = pc[s] /\ attempts'[s] = attempts[s]
<1> USE DEF IInv, TypeOK, Go, Return, Flow
<1>1. CASE BeginPlain(r) \/ Abandon(r) \/ \E k \in Keys : Begin(r, k)
  BY <1>1 DEF BeginPlain, Abandon, Begin
<1>2. CASE ClaimGranted(r) \/ ClaimReplays(r) \/ ClaimRefused(r)
           \/ ClaimAwaits(r) \/ ClaimFault(r) \/ Reconcile(r)
  BY <1>2 DEF ClaimGranted, ClaimReplays, ClaimRefused, ClaimAwaits, ClaimFault,
              Reconcile
<1>3. CASE Invalid(r) \/ RouteFails(r) \/ RouteFound(r)
  BY <1>3 DEF Invalid, RouteFails, RouteFound, Settle
<1>4. CASE MarkOk(r) \/ MarkRefused(r) \/ MarkFault(r)
  BY <1>4 DEF MarkOk, MarkRefused, MarkFault
<1>5. CASE SubmitSend(r) \/ SubmitRetries(r)
  BY <1>5 DEF SubmitSend, SubmitRetries
<1>6. CASE SubmitOk(r) \/ SubmitGivesUp(r)
  BY <1>6 DEF SubmitOk, SubmitGivesUp, Settle
<1>7. CASE CompleteOk(r) \/ CompleteRefused(r) \/ CompleteFault(r)
  BY <1>7 DEF CompleteOk, CompleteRefused, CompleteFault
<1> QED
  BY <1>1, <1>2, <1>3, <1>4, <1>5, <1>6, <1>7 DEF Step

\* Whatever follows the flow keeps within the attempts and loses a step.
LEMMA FlowDwindles ==
    ASSUME EndInv, NEW r \in Requests, NEW y, NEW m,
           Flow(pc[r], attempts[r], y, m)
    PROVE  /\ m <= MaxAttempts
           /\ y = "submit" => m < MaxAttempts
           /\ Steps(y, m) < StepsLeft(r)
<1>1. /\ attempts[r] \in Nat /\ MaxAttempts \in Nat /\ MaxAttempts >= 1
      /\ attempts[r] <= MaxAttempts
      /\ pc[r] = "submit" => attempts[r] < MaxAttempts
      /\ pc[r] \in {"idle", "claim", "route", "mark"} => attempts[r] = 0
      /\ pc[r] \in PC
  BY EngineAssumption DEF EndInv, AttemptInv, IInv, TypeOK, RequestInv
<1>2. m \in Nat /\ m <= MaxAttempts /\ (y = "submit" => m < MaxAttempts)
  BY <1>1 DEF Flow
<1>3. CASE pc[r] \in {"idle", "claim", "route", "mark"}
  BY <1>1, <1>2, <1>3, StepsValue DEF Flow, StepsLeft
<1>4. CASE pc[r] \in {"submit", "sent"}
  BY <1>1, <1>2, <1>4, StepsValue DEF Flow, StepsLeft
<1>5. CASE pc[r] \in {"complete", "reconcile", "done"}
  BY <1>1, <1>2, <1>5, StepsValue DEF Flow, StepsLeft
<1> QED
  BY <1>1, <1>2, <1>3, <1>4, <1>5 DEF PC

LEMMA EndStep ==
    ASSUME EndInv, [Next]_vars
    PROVE  EndInv' /\ \A s \in Requests : Dwindles(s)
<1>1. IInv'
  BY InvStep DEF EndInv
<1>2. ASSUME NEW r \in Requests,
             \/ Step(r) \/ BeginPlain(r) \/ Abandon(r)
             \/ \E k \in Keys : Begin(r, k)
      PROVE  AttemptInv' /\ \A s \in Requests : Dwindles(s)
  <2>1. /\ Flow(pc[r], attempts[r], pc'[r], attempts'[r])
        /\ \A s \in Requests \ {r} : pc'[s] = pc[s] /\ attempts'[s] = attempts[s]
    BY <1>2, HandlerFlow DEF EndInv
  <2>2. /\ attempts'[r] <= MaxAttempts
        /\ pc'[r] = "submit" => attempts'[r] < MaxAttempts
        /\ Steps(pc'[r], attempts'[r]) < StepsLeft(r)
    BY <2>1, FlowDwindles
  <2> QED
    BY <2>1, <2>2 DEF EndInv, AttemptInv, Dwindles, StepsLeft
<1>3. ASSUME NEW n \in Nodes, Crash(n)
      PROVE  AttemptInv' /\ \A s \in Requests : Dwindles(s)
  <2> SUFFICES ASSUME NEW s \in Requests
               PROVE  /\ attempts'[s] <= MaxAttempts
                      /\ pc'[s] = "submit" => attempts'[s] < MaxAttempts
                      /\ Dwindles(s)
    BY DEF AttemptInv
  <2>1. /\ attempts'[s] = attempts[s]
        /\ \/ pc'[s] = pc[s]
           \/ pc'[s] = "done" /\ pc[s] # "idle"
    BY <1>3 DEF Crash
  <2>2. CASE pc'[s] = pc[s]
    BY <2>1, <2>2 DEF EndInv, AttemptInv, Dwindles
  <2>3. CASE pc'[s] # pc[s]
    <3>1. Flow(pc[s], attempts[s], pc'[s], attempts'[s])
      BY <2>1, <2>3 DEF Flow
    <3>2. /\ attempts'[s] <= MaxAttempts
          /\ pc'[s] = "submit" => attempts'[s] < MaxAttempts
          /\ Steps(pc'[s], attempts'[s]) < StepsLeft(s)
      BY <3>1, FlowDwindles
    <3> QED
      BY <3>2 DEF Dwindles, StepsLeft
  <2> QED
    BY <2>2, <2>3
<1>4. CASE Tick \/ UNCHANGED vars
  BY <1>1, <1>4 DEF Tick, vars, EndInv, AttemptInv, Dwindles
<1> QED
  BY <1>1, <1>2, <1>3, <1>4 DEF Next, EndInv

LEMMA EndInit == Init => EndInv
  BY InvInit, EngineAssumption DEF Init, EndInv, AttemptInv

\* RequestsEnd but for fairness: whatever the store, the adapters, the clocks and
\* other requests do, a handler makes a bounded number of steps, sends its payment at
\* most MaxAttempts times, and no step of anyone sets it back.
THEOREM RequestsRunOut == Spec => []RequestsBounded /\ RequestsDwindle
<1>1. EndInv => RequestsBounded
  <2> SUFFICES ASSUME EndInv, NEW r \in Requests
               PROVE  /\ attempts[r] <= MaxAttempts
                      /\ StepsLeft(r) \in 0..(2 * MaxAttempts + 5)
                      /\ StepsLeft(r) = 0 <=> pc[r] = "done"
    BY DEF RequestsBounded
  <2>1. /\ attempts[r] \in Nat /\ MaxAttempts \in Nat
        /\ attempts[r] <= MaxAttempts /\ pc[r] \in PC
    BY EngineAssumption DEF EndInv, AttemptInv, IInv, TypeOK
  <2>2. CASE pc[r] \in {"submit", "sent"}
    BY <2>1, <2>2, StepsValue DEF StepsLeft
  <2>3. CASE pc[r] \in {"idle", "claim", "route", "mark"}
    BY <2>1, <2>3, StepsValue DEF StepsLeft
  <2>4. CASE pc[r] \in {"complete", "reconcile", "done"}
    BY <2>1, <2>4, StepsValue DEF StepsLeft
  <2> QED
    BY <2>1, <2>2, <2>3, <2>4 DEF PC
<1>2. Spec => []EndInv
  BY EndInit, EndStep, PTL DEF Spec
<1>3. EndInv /\ [Next]_vars => [\A r \in Requests : Dwindles(r)]_vars
  BY EndStep
<1> QED
  BY <1>1, <1>2, <1>3, PTL DEF Spec, RequestsDwindle

\* A record in Redis always has an expiry, at most TTL ticks away; one in memory
\* has none.
TtlInv ==
    \A k \in Keys : records[k] # None =>
        IF Durable THEN records[k].ttl \in 1..TTL ELSE records[k].ttl = 0

LifeInv == EndInv /\ TtlInv

\* What a step does to the time a record of Redis has left: a tick takes some or
\* all of it, and only a handler of the record's own key gives it more, with a
\* step that brings the handler nearer to its end.
Spends(k) ==
    Durable /\ records[k] # None =>
        /\ Tick => records'[k] = None \/ records'[k].ttl < records[k].ttl
        /\ \/ records'[k] = None
           \/ records'[k].ttl <= records[k].ttl
           \/ \E r \in Requests : key[r] = k /\ StepsLeft(r)' < StepsLeft(r)

RecordsSpendTime == [][\A k \in Keys : Spends(k)]_vars

\* The operations of the store leave a record alone or give it a fresh ttl.
LEMMA TtlEffect ==
    ASSUME NEW rec \in ClaimRecord \cup {None}, NEW f \in Fingerprints,
           NEW o \in Requests, NEW b \in Body, NEW skew \in Nat
    PROVE  /\ \/ AfterClaim(rec, f, o, skew) = rec
              \/ AfterClaim(rec, f, o, skew).ttl = FreshTTL
           /\ \/ AfterMark(rec, o, o, skew) = rec
              \/ AfterMark(rec, o, o, skew).ttl = FreshTTL
           /\ \/ AfterComplete(rec, o, b) = rec
              \/ AfterComplete(rec, o, b).ttl = FreshTTL
<1>1. \/ AfterClaim(rec, f, o, skew) = rec
      \/ AfterClaim(rec, f, o, skew).ttl = FreshTTL
  <2>1. NewInFlight(f, o, skew).ttl = FreshTTL
    BY DEF NewInFlight
  <2>2. rec \in ClaimRecord =>
          [rec EXCEPT !.owner = o, !.lease = Lease + skew, !.ttl = FreshTTL].ttl
            = FreshTTL
    BY DEF ClaimRecord
  <2>3. CASE Outcome(rec, f, skew) = "claimed"
    BY <2>1, <2>3, FreshClaimEffect
  <2>4. CASE Outcome(rec, f, skew) = "took_over"
    <3>1. rec \in ClaimRecord
      BY <2>4 DEF Outcome
    <3>2. AfterClaim(rec, f, o, skew) =
            [rec EXCEPT !.owner = o, !.lease = Lease + skew, !.ttl = FreshTTL]
      BY <2>4 DEF AfterClaim
    <3> QED
      BY <2>2, <3>1, <3>2
  <2>5. CASE Outcome(rec, f, skew) \notin {"claimed", "took_over"}
    BY <2>5, NoClaimEffect
  <2> QED
    BY <2>3, <2>4, <2>5
<1>2. \/ AfterMark(rec, o, o, skew) = rec
      \/ AfterMark(rec, o, o, skew).ttl = FreshTTL
  <2>1. rec \in ClaimRecord =>
          [rec EXCEPT !.lifecycle = "submitting", !.ref = o,
                      !.lease = Lease + skew, !.ttl = FreshTTL].ttl = FreshTTL
    BY DEF ClaimRecord
  <2> QED
    BY <2>1 DEF AfterMark, WriteOutcome
<1>3. \/ AfterComplete(rec, o, b) = rec
      \/ AfterComplete(rec, o, b).ttl = FreshTTL
  <2>1. rec \in ClaimRecord =>
          [rec EXCEPT !.lifecycle = "completed", !.response = b,
                      !.ttl = FreshTTL].ttl = FreshTTL
    BY DEF ClaimRecord
  <2> QED
    BY <2>1 DEF AfterComplete, WriteOutcome
<1> QED
  BY <1>1, <1>2, <1>3

\* A step of a handler touches the record of its own key at most.
LEMMA HandlerRenews ==
    ASSUME IInv, NEW r \in Requests,
           \/ Step(r) \/ BeginPlain(r) \/ Abandon(r)
           \/ \E k \in Keys : Begin(r, k),
           NEW k \in Keys
    PROVE  \/ records'[k] = records[k]
           \/ key[r] = k /\ records'[k].ttl = FreshTTL
<1> USE DEF IInv
<1>1. [payment |-> r, status |-> "failed"] \in Body
  BY DEF Body
<1>2. fp[r] \in Fingerprints /\ SkewOf(r) \in Nat
  BY StepTypes DEF TypeOK
<1>3. ASSUME pc[r] = "claim", RunClaim(r)
      PROVE  \/ records'[k] = records[k]
             \/ key[r] = k /\ records'[k].ttl = FreshTTL
  <2>1. key[r] \in Keys /\ Found(r) \in ClaimRecord \cup {None}
    BY <1>3, StepTypes
  <2>2. \/ AfterClaim(Found(r), fp[r], r, SkewOf(r)) = Found(r)
        \/ AfterClaim(Found(r), fp[r], r, SkewOf(r)).ttl = FreshTTL
    BY <1>1, <1>2, <2>1, TtlEffect
  <2> QED
    BY <1>3, <2>1, <2>2 DEF RunClaim, TypeOK, Found
<1>4. ASSUME pc[r] = "mark", RunMark(r)
      PROVE  \/ records'[k] = records[k]
             \/ key[r] = k /\ records'[k].ttl = FreshTTL
  <2>1. key[r] \in Keys /\ Found(r) \in ClaimRecord \cup {None}
    BY <1>4, StepTypes
  <2>2. \/ AfterMark(Found(r), r, r, SkewOf(r)) = Found(r)
        \/ AfterMark(Found(r), r, r, SkewOf(r)).ttl = FreshTTL
    BY <1>1, <1>2, <2>1, TtlEffect
  <2> QED
    BY <1>4, <2>1, <2>2 DEF RunMark, TypeOK, Found
<1>5. ASSUME pc[r] = "complete", RunComplete(r)
      PROVE  \/ records'[k] = records[k]
             \/ key[r] = k /\ records'[k].ttl = FreshTTL
  <2>1. key[r] \in Keys /\ Found(r) \in ClaimRecord \cup {None} /\ Result(r) \in Body
    BY <1>5, StepTypes
  <2>2. \/ AfterComplete(Found(r), r, Result(r)) = Found(r)
        \/ AfterComplete(Found(r), r, Result(r)).ttl = FreshTTL
    BY <1>2, <2>1, TtlEffect
  <2> QED
    BY <1>5, <2>1, <2>2 DEF RunComplete, TypeOK, Found
<1>6. CASE BeginPlain(r) \/ Abandon(r) \/ \E l \in Keys : Begin(r, l)
  BY <1>6 DEF BeginPlain, Abandon, Begin
<1>7. CASE Step(r)
  BY <1>3, <1>4, <1>5, <1>7
  DEF Step, ClaimGranted, ClaimReplays, ClaimRefused, ClaimAwaits, ClaimFault,
      Reconcile, Invalid, RouteFails, RouteFound, MarkOk, MarkRefused, MarkFault,
      SubmitSend, SubmitOk, SubmitRetries, SubmitGivesUp, CompleteOk,
      CompleteRefused, CompleteFault
<1> QED
  BY <1>6, <1>7

LEMMA LifeStep ==
    ASSUME LifeInv, [Next]_vars
    PROVE  LifeInv' /\ [\A k \in Keys : Spends(k)]_vars
<1>1. EndInv'
  BY EndStep DEF LifeInv
<1>2. TTL \in Nat /\ TTL >= 1 /\ Durable \in BOOLEAN
  BY ClaimStoreAssumption
<1>3. /\ \A k \in Keys : records[k] \in ClaimRecord \cup {None}
      /\ records' \in [Keys -> ClaimRecord \cup {None}]
  BY <1>1 DEF LifeInv, EndInv, IInv, TypeOK
<1>4. ASSUME NEW r \in Requests,
             \/ Step(r) \/ BeginPlain(r) \/ Abandon(r)
             \/ \E k \in Keys : Begin(r, k)
      PROVE  TtlInv' /\ ~Tick /\ \A k \in Keys : Spends(k)
  <2>1. Flow(pc[r], attempts[r], pc'[r], attempts'[r])
    BY <1>4, HandlerFlow DEF LifeInv, EndInv
  <2>2. StepsLeft(r)' < StepsLeft(r)
    BY <2>1, FlowDwindles DEF LifeInv, StepsLeft
  <2>3. pc'[r] # pc[r]
    BY <2>1 DEF Flow
  <2>4. ~Tick
    BY <2>3 DEF Tick
  <2>5. \A k \in Keys : \/ records'[k] = records[k]
                        \/ key[r] = k /\ records'[k].ttl = FreshTTL
    BY <1>4, HandlerRenews DEF LifeInv, EndInv
  <2>6. TtlInv'
    BY <1>2, <2>5 DEF LifeInv, TtlInv, FreshTTL
  <2>7. ASSUME NEW k \in Keys, Durable, records[k] # None
        PROVE  \/ records'[k].ttl <= records[k].ttl
               \/ \E s \in Requests : key[s] = k /\ StepsLeft(s)' < StepsLeft(s)
    <3>1. records[k].ttl \in Nat
      BY <1>3, <2>7 DEF ClaimRecord
    <3>2. CASE records'[k] = records[k]
      BY <3>1, <3>2
    <3>3. CASE key[r] = k
      BY <2>2, <3>3
    <3> QED
      BY <2>5, <3>2, <3>3
  <2> QED
    BY <2>4, <2>6, <2>7 DEF Spends
<1>5. ASSUME NEW n \in Nodes, Crash(n)
      PROVE  TtlInv' /\ (UNCHANGED vars \/ \A k \in Keys : Spends(k))
  <2>1. TtlInv'
    BY <1>5 DEF Crash, LifeInv, TtlInv
  <2>2. ASSUME NEW k \in Keys, Durable, records[k] # None, ~Tick
        PROVE  records'[k].ttl <= records[k].ttl
    BY <1>3, <1>5, <2>2 DEF Crash, ClaimRecord
  <2>3. Durable /\ Tick => \A k \in Keys : records[k] = None
    <3> SUFFICES ASSUME Durable, Tick, NEW k \in Keys, records[k] # None
                 PROVE  FALSE
      OBVIOUS
    <3>1. Age(records[k]) = records[k]
      BY <1>5 DEF Tick, Crash, LifeInv, EndInv, IInv, TypeOK
    <3>2. records[k] \in ClaimRecord /\ records[k].ttl \in 1..TTL
      BY <1>3 DEF LifeInv, TtlInv
    <3>3. records[k].ttl # 1
      BY <3>1, <3>2 DEF Age
    <3>4. Age(records[k]) =
            [records[k] EXCEPT !.lease = Dec(records[k].lease),
                               !.ttl = Dec(records[k].ttl)]
      BY <3>2, <3>3, <3>1 DEF Age
    <3>5. records[k].ttl = Dec(records[k].ttl)
      BY <3>1, <3>2, <3>4 DEF ClaimRecord
    <3> QED
      BY <1>2, <3>2, <3>5 DEF Dec
  <2> QED
    BY <2>1, <2>2, <2>3 DEF Spends
<1>6. ASSUME Tick
      PROVE  TtlInv' /\ \A k \in Keys : Spends(k)
  <2> SUFFICES ASSUME NEW k \in Keys, records'[k] # None
               PROVE  /\ IF Durable THEN records'[k].ttl \in 1..TTL
                         ELSE records'[k].ttl = 0
                      /\ Durable => records'[k].ttl < records[k].ttl
    <3>1. \A k \in Keys : Durable /\ records[k] # None /\ records'[k] # None =>
            records[k].ttl \in Nat /\ records'[k].ttl \in Nat
      BY <1>3 DEF ClaimRecord
    <3> QED
      BY <1>2, <3>1 DEF TtlInv, Spends
  <2>1. records'[k] = Age(records[k]) /\ records[k] # None /\ records[k].ttl # 1
    BY <1>6 DEF Tick, Age
  <2>2. records[k] \in ClaimRecord
    BY <1>3, <2>1
  <2>3. records'[k] = [records[k] EXCEPT !.lease = Dec(records[k].lease),
                                         !.ttl = Dec(records[k].ttl)]
    BY <2>1, <2>2 DEF Age
  <2>4. records'[k].ttl = Dec(records[k].ttl) /\ records[k].ttl \in Nat
    BY <2>2, <2>3 DEF ClaimRecord
  <2>5. IF Durable THEN records[k].ttl \in 1..TTL ELSE records[k].ttl = 0
    BY <2>1 DEF LifeInv, TtlInv
  <2> QED
    BY <1>2, <2>1, <2>4, <2>5 DEF Dec
<1>7. CASE UNCHANGED vars
  BY <1>1, <1>7 DEF vars, LifeInv, TtlInv
<1> QED
  BY <1>1, <1>4, <1>5, <1>6, <1>7 DEF Next, LifeInv

LEMMA LifeInit == Init => LifeInv
  BY EndInit DEF Init, LifeInv, TtlInv

\* KeysAreFreed but for fairness, with Redis: every record expires within TTL ticks
\* unless a handler of its key renews it, and each renewal costs a handler one of
\* its boundedly many steps; no crash, lost reply or refused request keeps a key
\* taken.
THEOREM RecordsRunOut == Spec => []TtlInv /\ RecordsSpendTime
<1>1. Spec => []LifeInv
  BY LifeInit, LifeStep, PTL DEF Spec
<1>2. LifeInv => TtlInv
  BY DEF LifeInv
<1>3. LifeInv /\ [Next]_vars => [\A k \in Keys : Spends(k)]_vars
  BY LifeStep
<1> QED
  BY <1>1, <1>2, <1>3, PTL DEF Spec, RecordsSpendTime
=============================================================================
