----------------------------- MODULE ClaimStore -----------------------------
(***************************************************************************)
(* The idempotency claim store of src/src/idempotency.rs as operators on   *)
(* one claim record.  Every operation is one indivisible read-decide-write *)
(* (a Lua script on Redis, a DashMap entry lock in memory), so it is a     *)
(* function from the record found under the key to an outcome and to the   *)
(* record left there.                                                      *)
(*                                                                         *)
(* Time is kept as countdowns: "lease" is what is left of the lease on the *)
(* slowest clock of the deployment, "ttl" what is left before Redis drops  *)
(* the key (0: the record has no expiry, as in the memory store).  An      *)
(* instance whose clock is skew ticks ahead writes leases that end skew    *)
(* ticks later and finds a lease expired skew ticks earlier.               *)
(***************************************************************************)
EXTENDS Naturals

CONSTANTS Requests,      \* one element per call: its owner uuid and payment id
          Fingerprints,  \* digests of request bodies
          Lease,         \* CLAIM_LEASE in ticks
          TTL,           \* record time to live in ticks
          Durable,       \* TRUE: RedisClaimStore; FALSE: MemoryClaimStore
          None

ASSUME ClaimStoreAssumption ==
    /\ Lease \in Nat
    /\ TTL \in Nat \ {0}
    /\ Durable \in BOOLEAN
    /\ None \notin Requests

\* The stored response: the payment it describes and the terminal status
\* that payment had.
Body == [payment : Requests, status : {"confirmed", "failed"}]

Lifecycle == {"in_flight", "submitting", "completed"}

ClaimRecord == [fingerprint : Fingerprints,
                owner       : Requests,
                lease       : Nat,
                ttl         : Nat,
                lifecycle   : Lifecycle,
                ref         : Requests \cup {None},
                response    : Body \cup {None}]

ASSUME NoneAssumption == None \notin ClaimRecord /\ None \notin Body

\* now_millis advances by a tick: what is left of a lease or a ttl.
Dec(n) == IF n = 0 THEN 0 ELSE n - 1

FreshTTL == IF Durable THEN TTL ELSE 0

NewInFlight(f, o, skew) ==
    [fingerprint |-> f, owner |-> o, lease |-> Lease + skew, ttl |-> FreshTTL,
     lifecycle |-> "in_flight", ref |-> None, response |-> None]

LeaseExpired(rec, skew) == rec.lease <= skew
-----------------------------------------------------------------------------
\* Plausible defects of the operations below, used to test the properties.
ClaimTakesOverSubmitting(rec, f, skew) ==
    IF rec = None THEN "claimed"
    ELSE IF rec.fingerprint # f THEN "mismatch"
    ELSE IF rec.lifecycle = "completed" THEN "replay"
    ELSE IF rec.lease > skew THEN "in_flight"
    ELSE "took_over"

WriteIgnoresOwner(rec, o) == IF rec = None THEN "gone" ELSE "ok"

MarkDropsExpiry(rec, o, ref, skew) ==
    IF rec # None /\ rec.owner = o
    THEN [rec EXCEPT !.lifecycle = "submitting", !.ref = ref,
                     !.lease = Lease + skew, !.ttl = 0]
    ELSE rec
-----------------------------------------------------------------------------
\* claim: what a caller with fingerprint f is told about the record it finds.
Outcome(rec, f, skew) ==
    IF rec = None THEN "claimed"
    ELSE IF rec.fingerprint # f THEN "mismatch"
    ELSE IF rec.lifecycle = "completed" THEN "replay"
    ELSE IF rec.lifecycle = "submitting" THEN "awaiting"
    ELSE IF ~LeaseExpired(rec, skew) THEN "in_flight"
    ELSE "took_over"

\* claim: the record it leaves.  A takeover keeps the fingerprint.
AfterClaim(rec, f, o, skew) ==
    CASE Outcome(rec, f, skew) = "claimed"   -> NewInFlight(f, o, skew)
      [] Outcome(rec, f, skew) = "took_over" ->
            [rec EXCEPT !.owner = o, !.lease = Lease + skew, !.ttl = FreshTTL]
      [] OTHER -> rec

\* What mark_submitting and complete tell the caller.
WriteOutcome(rec, o) ==
    IF rec = None THEN "gone"
    ELSE IF rec.owner # o THEN "conflict"
    ELSE "ok"

\* mark_submitting checks the owner only, never the lifecycle it overwrites.
AfterMark(rec, o, ref, skew) ==
    IF WriteOutcome(rec, o) = "ok"
    THEN [rec EXCEPT !.lifecycle = "submitting", !.ref = ref,
                     !.lease = Lease + skew, !.ttl = FreshTTL]
    ELSE rec

\* complete.  The execution reference a completed record keeps is never read.
AfterComplete(rec, o, body) ==
    IF WriteOutcome(rec, o) = "ok"
    THEN [rec EXCEPT !.lifecycle = "completed", !.response = body,
                     !.ttl = FreshTTL]
    ELSE rec

\* One tick of time: the lease runs down and Redis drops an expired key.
Age(rec) ==
    IF rec = None \/ rec.ttl = 1 THEN None
    ELSE [rec EXCEPT !.lease = Dec(@), !.ttl = Dec(@)]
=============================================================================
