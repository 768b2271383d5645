----------------------------- MODULE ReplayGuard -----------------------------
(***************************************************************************)
(* Signed-request authentication (require_scope, src/src/auth.rs) over the *)
(* nonce store (src/src/nonce_store.rs).  Copies of a signed message       *)
(* (retries, duplicates) are delivered to any instance at any time; each   *)
(* delivery is checked against the clock, then waits for its body, then    *)
(* spends its nonce.  Time is in seconds.                                  *)
(***************************************************************************)
EXTENDS Integers

CONSTANTS
    Messages,    \* signed messages: everything the signature covers
    Nonce,       \* Nonce[m]: the "key id:nonce" pair m spends
    Stamp,       \* Stamp[m]: X-Nodus-Timestamp
    Malformed,   \* messages the header, key, scope or network checks reject
    Forged,      \* messages whose signature does not verify
    Deliveries, Nodes,
    Offset,      \* how far each node's wall clock is ahead
    Shared,      \* TRUE: RedisNonceStore; FALSE: a MemoryNonceStore per node
    Skew,        \* auth_clock_skew_secs
    Window,      \* auth_replay_window_secs
    MaxDrift,    \* bound on Offset
    MaxTime      \* bound on the clock

Nonces == {Nonce[m] : m \in Messages}
Stores == IF Shared THEN {"redis"} ELSE Nodes
StoreOf(n) == IF Shared THEN "redis" ELSE n

ASSUME GuardAssumption ==
    /\ Stamp \in [Messages -> Nat]
    /\ Offset \in [Nodes -> 0..MaxDrift]
    /\ Skew \in Nat /\ Window \in Nat /\ MaxDrift \in Nat
    /\ MaxTime \in Nat /\ Shared \in BOOLEAN

VARIABLES now,
          at,        \* at[s][x]: when nonce x was stored in s, or Absent
          pc, msg, node,
          arrived,   \* when the delivery passed the clock check
          result,
          accepted,  \* accepted[s]: deliveries s let through since it started
          spent      \* history: when a delivery stored its nonce, or Absent

vars == <<now, at, pc, msg, node, arrived, result, accepted, spent>>

Absent == -1

Init ==
    /\ now = 0
    /\ at = [s \in Stores |-> [x \in Nonces |-> Absent]]
    /\ pc = [d \in Deliveries |-> "idle"]
    /\ msg \in [Deliveries -> Messages]
    /\ node \in [Deliveries -> Nodes]
    /\ arrived = [d \in Deliveries |-> 0]
    /\ result = [d \in Deliveries |-> "none"]
    /\ accepted = [s \in Stores |-> {}]
    /\ spent = [d \in Deliveries |-> Absent]

StoreAt(d) == StoreOf(node[d])
NonceOf(d) == Nonce[msg[d]]

Finish(d, r) ==
    /\ pc' = [pc EXCEPT ![d] = "done"]
    /\ result' = [result EXCEPT ![d] = r]
-----------------------------------------------------------------------------
ClockAcceptsFuture(m, n) == now + Offset[n] - Stamp[m] <= Skew

\* |now - timestamp| <= skew, by the clock of the instance.
ClockOk(m, n) ==
    /\ now + Offset[n] - Stamp[m] <= Skew
    /\ Stamp[m] - (now + Offset[n]) <= Skew

\* The header, key, scope and network checks and the clock check, all before
\* the body is read.
Reject(d) ==
    /\ pc[d] = "idle"
    /\ msg[d] \in Malformed \/ ~ClockOk(msg[d], node[d])
    /\ Finish(d, "rejected")
    /\ UNCHANGED <<now, at, msg, node, arrived, accepted, spent>>

Arrive(d) ==
    /\ pc[d] = "idle"
    /\ msg[d] \notin Malformed
    /\ ClockOk(msg[d], node[d])
    /\ pc' = [pc EXCEPT ![d] = "body"]
    /\ arrived' = [arrived EXCEPT ![d] = now]
    /\ UNCHANGED <<now, at, msg, node, result, accepted, spent>>

\* The body, which to_bytes awaits for as long as it takes (no timeout here
\* nor in the layers of main.rs), is too large or its signature does not verify.
BadBody(d) ==
    /\ pc[d] = "body"
    /\ \/ msg[d] \in Forged /\ Finish(d, "bad_signature")
       \/ Finish(d, "too_large")
    /\ UNCHANGED <<now, at, msg, node, arrived, accepted, spent>>

StoredOneShort(s, x) == at[s][x] # Absent /\ now - at[s][x] < Window - 1
VerifiedLate(d) == pc[d] = "body"

\* The nonce is in the store and younger than the window.
Stored(s, x) == at[s][x] # Absent /\ now - at[s][x] < Window

\* The nonce may be spent only once the signature verified.
Verified(d) == pc[d] = "body" /\ msg[d] \notin Forged

Burn(d) ==
    /\ at' = [at EXCEPT ![StoreAt(d)][NonceOf(d)] = now]
    /\ spent' = [spent EXCEPT ![d] = now]

\* check_and_set finds the nonce absent or expired: stored, and let through.
Accept(d) ==
    /\ Verified(d)
    /\ ~Stored(StoreAt(d), NonceOf(d))
    /\ Burn(d)
    /\ accepted' = [accepted EXCEPT ![StoreAt(d)] = @ \cup {d}]
    /\ Finish(d, "accepted")
    /\ UNCHANGED <<now, msg, node, arrived>>

Replayed(d) ==
    /\ Verified(d)
    /\ Stored(StoreAt(d), NonceOf(d))
    /\ Finish(d, "replayed")
    /\ UNCHANGED <<now, at, msg, node, arrived, accepted, spent>>

\* Redis fails; the SET NX may have been applied before the reply was lost.
StoreFault(d) ==
    /\ Shared
    /\ Verified(d)
    /\ \/ ~Stored(StoreAt(d), NonceOf(d)) /\ Burn(d)
       \/ UNCHANGED <<at, spent>>
    /\ Finish(d, "unavailable")
    /\ UNCHANGED <<now, msg, node, arrived, accepted>>
-----------------------------------------------------------------------------
ExpiredEarly(s, x) == at[s][x] # Absent /\ now - at[s][x] >= Window - 1

Expired(s, x) == at[s][x] # Absent /\ now - at[s][x] >= Window

\* The eviction task of the memory store, or Redis dropping expired keys.
Evict(s) ==
    /\ \E x \in Nonces : Expired(s, x)
    /\ at' = [at EXCEPT ![s] =
                [x \in Nonces |-> IF Expired(s, x) THEN Absent ELSE at[s][x]]]
    /\ UNCHANGED <<now, pc, msg, node, arrived, result, accepted, spent>>

\* An instance restarts: its deliveries are dropped and a memory store is
\* empty again ("replay protection reset on restart").
Restart(n) ==
    /\ pc' = [d \in Deliveries |->
                IF node[d] = n /\ pc[d] = "body" THEN "done" ELSE pc[d]]
    /\ at' = IF Shared THEN at
             ELSE [at EXCEPT ![n] = [x \in Nonces |-> Absent]]
    /\ accepted' = IF Shared THEN accepted ELSE [accepted EXCEPT ![n] = {}]
    /\ UNCHANGED <<now, msg, node, arrived, result, spent>>

Tick ==
    /\ now < MaxTime
    /\ now' = now + 1
    /\ UNCHANGED <<at, pc, msg, node, arrived, result, accepted, spent>>

Next ==
    \/ \E d \in Deliveries :
        \/ Reject(d) \/ Arrive(d) \/ BadBody(d)
        \/ Accept(d) \/ Replayed(d) \/ StoreFault(d)
    \/ \E s \in Stores : Evict(s)
    \/ \E n \in Nodes : Restart(n)
    \/ Tick

Spec == Init /\ [][Next]_vars
-----------------------------------------------------------------------------
\* The nonce stores, the deliveries and their results have their types.
TypeOK ==
    /\ now \in Nat
    /\ at \in [Stores -> [Nonces -> Nat \cup {Absent}]]
    /\ pc \in [Deliveries -> {"idle", "body", "done"}]
    /\ msg \in [Deliveries -> Messages]
    /\ node \in [Deliveries -> Nodes]
    /\ arrived \in [Deliveries -> Nat]
    /\ result \in [Deliveries -> {"none", "rejected", "bad_signature",
                                  "too_large", "accepted", "replayed",
                                  "unavailable"}]
    /\ accepted \in [Stores -> SUBSET Deliveries]
    /\ spent \in [Deliveries -> Nat \cup {Absent}]

\* A store lets each signed message through at most once ("a captured request
\* cannot be replayed", auth.rs:6-8).  The code does not keep this: see
\* ReplayNeedsLateBody for what it does keep.
AcceptedOnce ==
    \A s \in Stores : \A d, e \in accepted[s] : msg[d] = msg[e] => d = e

\* How long d was held up between its clock check and the store.
Held(d) == spent[d] - arrived[d]

\* A store lets two copies of a signed message through only if one of them held
\* back its body, after its clock check, for all that the replay window leaves
\* beyond twice the skew and the drift of the clocks: neither interleaving, nor
\* skew, nor expiry and eviction of the nonce are enough.
ReplayNeedsLateBody ==
    \A s \in Stores : \A d, e \in accepted[s] :
        (d # e /\ msg[d] = msg[e]) =>
            \E f \in {d, e} : Held(f) >= Window - 2 * Skew - MaxDrift

Burned == {d \in Deliveries : spent[d] # Absent}

\* A caller is told its nonce was replayed only when another delivery with a
\* valid signature spent that nonce: a garbage request cannot burn it.
ReplayJustified ==
    \A d \in Deliveries : result[d] = "replayed" =>
        \E e \in Burned \ {d} :
            NonceOf(e) = NonceOf(d) /\ msg[e] \notin Malformed \cup Forged
-----------------------------------------------------------------------------
\* The inductive invariant behind ReplayNeedsLateBody.

\* Between which times a copy of m can pass the clock check of some instance.
Earliest(m) == Stamp[m] - Skew - MaxDrift
Latest(m) == Stamp[m] + Skew

CheckedInv ==
    \A d \in Deliveries : (pc[d] = "body" \/ spent[d] # Absent) =>
        /\ Earliest(msg[d]) <= arrived[d] /\ arrived[d] <= Latest(msg[d])
        /\ arrived[d] <= now

\* A delivery that stored its nonce is done, and stored it after its check.
SpentInv ==
    \A d \in Deliveries : spent[d] # Absent =>
        pc[d] = "done" /\ arrived[d] <= spent[d] /\ spent[d] <= now

AcceptedInv == \A s \in Stores : \A d \in accepted[s] : spent[d] # Absent

PastInv == \A s \in Stores, x \in Nonces : at[s][x] <= now

\* An accepted message's nonce is still held, by its own or a later entry, or a
\* whole window has passed since it was stored.
HeldInv ==
    \A s \in Stores : \A d \in accepted[s] :
        \/ at[s][NonceOf(d)] # Absent /\ at[s][NonceOf(d)] >= spent[d]
        \/ now - spent[d] >= Window

\* Two copies of a message were let through a whole window apart.
ApartInv ==
    \A s \in Stores : \A d, e \in accepted[s] : (d # e /\ msg[d] = msg[e]) =>
        spent[d] - spent[e] >= Window \/ spent[e] - spent[d] >= Window

\* The whole inductive invariant: what a delivery waiting for its body and
\* what an accepted one imply about the clock and about the store's entry.
GuardInv ==
    /\ TypeOK /\ CheckedInv /\ SpentInv /\ AcceptedInv
    /\ PastInv /\ HeldInv /\ ApartInv
=============================================================================
