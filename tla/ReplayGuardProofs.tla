-------------------------- MODULE ReplayGuardProofs --------------------------
(***************************************************************************)
(* Proof that a nonce store lets a signed message through twice only if    *)
(* one of the copies held back its body, for every skew, drift and window, *)
(* any number of instances, messages and deliveries.                       *)
(***************************************************************************)
EXTENDS ReplayGuard, TLAPS

LEMMA StoreFacts ==
    ASSUME TypeOK, NEW d \in Deliveries
    PROVE  /\ StoreAt(d) \in Stores
           /\ NonceOf(d) \in Nonces
           /\ Stamp[msg[d]] \in Nat
           /\ Offset[node[d]] \in 0..MaxDrift
           /\ Earliest(msg[d]) \in Int /\ Latest(msg[d]) \in Int
<1> USE GuardAssumption
<1>1. msg[d] \in Messages /\ node[d] \in Nodes
  BY DEF TypeOK
<1>2. StoreAt(d) \in Stores
  BY <1>1 DEF StoreAt, StoreOf, Stores
<1>3. NonceOf(d) \in Nonces
  BY <1>1 DEF NonceOf, Nonces
<1>4. Stamp[msg[d]] \in Nat /\ Offset[node[d]] \in 0..MaxDrift
  BY <1>1
<1> QED
  BY <1>2, <1>3, <1>4 DEF Earliest, Latest

LEMMA GuardInit == Init => GuardInv
  BY GuardAssumption
  DEF Init, GuardInv, TypeOK, CheckedInv, SpentInv, AcceptedInv, PastInv,
      HeldInv, ApartInv, Absent

LEMMA BurnType ==
    ASSUME TypeOK, NEW d \in Deliveries, Burn(d)
    PROVE  /\ at' \in [Stores -> [Nonces -> Nat \cup {Absent}]]
           /\ spent' \in [Deliveries -> Nat \cup {Absent}]
           /\ spent'[d] = now /\ now \in Nat
           /\ \A e \in Deliveries : e # d => spent'[e] = spent[e]
           /\ at'[StoreAt(d)][NonceOf(d)] = now
           /\ \A s \in Stores, x \in Nonces :
                 at'[s][x] = at[s][x] \/ (s = StoreAt(d) /\ x = NonceOf(d))
  BY StoreFacts DEF Burn, TypeOK

LEMMA TypeStep ==
    ASSUME TypeOK, [Next]_vars
    PROVE  TypeOK'
<1> USE DEF TypeOK
<1>1. ASSUME NEW d \in Deliveries, Reject(d) \/ BadBody(d) \/ Replayed(d)
      PROVE  TypeOK'
  BY <1>1 DEF Reject, BadBody, Replayed, Finish
<1>2. ASSUME NEW d \in Deliveries, Arrive(d)
      PROVE  TypeOK'
  BY <1>2 DEF Arrive
<1>3. ASSUME NEW d \in Deliveries, Accept(d)
      PROVE  TypeOK'
  BY <1>3, StoreFacts, BurnType DEF Accept, Finish
<1>4. ASSUME NEW d \in Deliveries, StoreFault(d)
      PROVE  TypeOK'
  BY <1>4, BurnType DEF StoreFault, Finish
<1>5. ASSUME NEW s \in Stores, Evict(s)
      PROVE  TypeOK'
  BY <1>5 DEF Evict
<1>6. ASSUME NEW n \in Nodes, Restart(n)
      PROVE  TypeOK'
  BY <1>6, GuardAssumption DEF Restart, Stores
<1>7. ASSUME Tick
      PROVE  TypeOK'
  BY <1>7 DEF Tick
<1>8. CASE UNCHANGED vars
  BY <1>8 DEF vars
<1> QED
  BY <1>1, <1>2, <1>3, <1>4, <1>5, <1>6, <1>7, <1>8 DEF Next

LEMMA CheckedStep ==
    ASSUME TypeOK, CheckedInv, [Next]_vars
    PROVE  CheckedInv'
<1> USE GuardAssumption DEF CheckedInv, TypeOK
<1>1. ASSUME NEW d \in Deliveries, Reject(d) \/ BadBody(d) \/ Replayed(d)
      PROVE  CheckedInv'
  BY <1>1 DEF Reject, BadBody, Replayed, Finish
<1>2. ASSUME NEW d \in Deliveries, Arrive(d)
      PROVE  CheckedInv'
  <2>1. Earliest(msg[d]) <= now /\ now <= Latest(msg[d])
    BY <1>2, StoreFacts DEF Arrive, ClockOk, Earliest, Latest
  <2> QED
    BY <1>2, <2>1 DEF Arrive
<1>3. ASSUME NEW d \in Deliveries, Accept(d) \/ StoreFault(d)
      PROVE  CheckedInv'
  BY <1>3 DEF Accept, StoreFault, Verified, Burn, Finish
<1>4. ASSUME NEW s \in Stores, Evict(s)
      PROVE  CheckedInv'
  BY <1>4 DEF Evict
<1>5. ASSUME NEW n \in Nodes, Restart(n)
      PROVE  CheckedInv'
  BY <1>5 DEF Restart
<1>6. ASSUME Tick
      PROVE  CheckedInv'
  BY <1>6 DEF Tick
<1>7. CASE UNCHANGED vars
  BY <1>7 DEF vars
<1> QED
  BY <1>1, <1>2, <1>3, <1>4, <1>5, <1>6, <1>7 DEF Next

LEMMA SpentStep ==
    ASSUME TypeOK, CheckedInv, SpentInv, AcceptedInv, PastInv, [Next]_vars
    PROVE  SpentInv' /\ AcceptedInv' /\ PastInv'
<1> USE DEF SpentInv, AcceptedInv, PastInv, TypeOK
<1>1. ASSUME NEW d \in Deliveries, Reject(d) \/ BadBody(d) \/ Replayed(d)
      PROVE  SpentInv' /\ AcceptedInv' /\ PastInv'
  BY <1>1 DEF Reject, BadBody, Replayed, Finish
<1>2. ASSUME NEW d \in Deliveries, Arrive(d)
      PROVE  SpentInv' /\ AcceptedInv' /\ PastInv'
  BY <1>2 DEF Arrive
<1>3. ASSUME NEW d \in Deliveries, Verified(d), Burn(d), UNCHANGED <<now, arrived>>,
             pc' = [pc EXCEPT ![d] = "done"]
      PROVE  SpentInv' /\ PastInv'
  <2>1. arrived[d] <= now
    BY <1>3 DEF CheckedInv, Verified
  <2>2. SpentInv'
    BY <1>3, <2>1, BurnType
  <2>3. ASSUME NEW s \in Stores, NEW x \in Nonces
        PROVE  at'[s][x] <= now
    <3>1. at'[s][x] = at[s][x] \/ at'[s][x] = now
      BY <1>3, BurnType
    <3> QED
      BY <3>1
  <2> QED
    BY <1>3, <2>2, <2>3
<1>4. ASSUME NEW d \in Deliveries, Accept(d)
      PROVE  SpentInv' /\ AcceptedInv' /\ PastInv'
  <2>1. SpentInv' /\ PastInv'
    BY <1>3, <1>4 DEF Accept, Finish
  <2>2. StoreAt(d) \in Stores /\ Burn(d)
    BY <1>4, StoreFacts DEF Accept
  <2>3. \A e \in Deliveries : spent[e] # Absent => spent'[e] # Absent
    BY <2>2, BurnType DEF Absent
  <2>4. spent'[d] # Absent
    BY <2>2, BurnType DEF Absent
  <2>5. AcceptedInv'
    BY <1>4, <2>2, <2>3, <2>4 DEF Accept
  <2> QED
    BY <2>1, <2>5
<1>5. ASSUME NEW d \in Deliveries, StoreFault(d)
      PROVE  SpentInv' /\ AcceptedInv' /\ PastInv'
  <2>1. CASE Burn(d)
    <3>1. SpentInv' /\ PastInv'
      BY <1>3, <1>5, <2>1 DEF StoreFault, Finish
    <3>2. \A e \in Deliveries : spent[e] # Absent => spent'[e] # Absent
      BY <2>1, BurnType DEF Absent
    <3>3. AcceptedInv'
      BY <1>5, <3>2 DEF StoreFault
    <3> QED
      BY <3>1, <3>3
  <2>2. CASE UNCHANGED <<at, spent>>
    BY <1>5, <2>2 DEF StoreFault, Finish
  <2> QED
    BY <1>5, <2>1, <2>2 DEF StoreFault
<1>6. ASSUME NEW s \in Stores, Evict(s)
      PROVE  SpentInv' /\ AcceptedInv' /\ PastInv'
  BY <1>6 DEF Evict, Absent
<1>7. ASSUME NEW n \in Nodes, Restart(n)
      PROVE  SpentInv' /\ AcceptedInv' /\ PastInv'
  BY <1>7, GuardAssumption DEF Restart, Stores, Absent
<1>8. ASSUME Tick
      PROVE  SpentInv' /\ AcceptedInv' /\ PastInv'
  BY <1>8 DEF Tick, Absent
<1>9. CASE UNCHANGED vars
  BY <1>9 DEF vars
<1> QED
  BY <1>1, <1>2, <1>4, <1>5, <1>6, <1>7, <1>8, <1>9 DEF Next

\* Storing a nonce again only renews the entry of accepted messages.
LEMMA BurnKeepsHeld ==
    ASSUME TypeOK, SpentInv, AcceptedInv, PastInv, HeldInv,
           NEW d \in Deliveries, Verified(d), Burn(d),
           NEW s \in Stores, NEW e \in accepted[s]
    PROVE  /\ spent'[e] = spent[e]
           /\ \/ at'[s][NonceOf(e)] # Absent /\ at'[s][NonceOf(e)] >= spent[e]
              \/ now - spent[e] >= Window
<1>1. e \in Deliveries
  BY DEF TypeOK
<1>2. NonceOf(e) \in Nonces /\ spent[e] \in Nat /\ spent[e] <= now /\ pc[e] = "done"
  BY <1>1, StoreFacts DEF SpentInv, AcceptedInv, TypeOK
<1>3. spent'[e] = spent[e]
  BY <1>1, <1>2, BurnType DEF Verified
<1>4. CASE at'[s][NonceOf(e)] = at[s][NonceOf(e)]
  BY <1>3, <1>4 DEF HeldInv
<1>5. CASE at'[s][NonceOf(e)] # at[s][NonceOf(e)]
  <2>1. at'[s][NonceOf(e)] = now /\ now \in Nat
    BY <1>2, <1>5, BurnType
  <2> QED
    BY <1>2, <1>3, <2>1 DEF Absent
<1> QED
  BY <1>4, <1>5

LEMMA HeldStep ==
    ASSUME TypeOK, SpentInv, AcceptedInv, PastInv, HeldInv, [Next]_vars
    PROVE  HeldInv'
<1>1. ASSUME NEW d \in Deliveries,
             Reject(d) \/ BadBody(d) \/ Replayed(d) \/ Arrive(d)
      PROVE  HeldInv'
  BY <1>1 DEF HeldInv, Reject, BadBody, Replayed, Arrive, Finish, NonceOf
<1>2. ASSUME NEW d \in Deliveries, Accept(d)
      PROVE  HeldInv'
  <2> SUFFICES ASSUME NEW s \in Stores, NEW e \in accepted'[s]
               PROVE  \/ /\ at'[s][NonceOf(e)] # Absent
                         /\ at'[s][NonceOf(e)] >= spent'[e]
                      \/ now - spent'[e] >= Window
    BY <1>2 DEF HeldInv, Accept, NonceOf
  <2>1. Burn(d) /\ Verified(d)
    BY <1>2 DEF Accept
  <2>2. CASE e \in accepted[s]
    BY <2>1, <2>2, BurnKeepsHeld
  <2>3. CASE e \notin accepted[s]
    <3>1. e = d /\ s = StoreAt(d)
      BY <1>2, <2>3, StoreFacts DEF Accept, TypeOK
    <3>2. at'[s][NonceOf(d)] = now /\ spent'[d] = now /\ now \in Nat
      BY <2>1, <3>1, BurnType
    <3> QED
      BY <3>1, <3>2 DEF Absent
  <2> QED
    BY <2>2, <2>3
<1>3. ASSUME NEW d \in Deliveries, StoreFault(d)
      PROVE  HeldInv'
  <2>1. CASE Burn(d)
    <3>1. msg' = msg /\ now' = now /\ accepted' = accepted /\ Verified(d)
      BY <1>3 DEF StoreFault
    <3> QED
      BY <2>1, <3>1, BurnKeepsHeld DEF HeldInv, NonceOf
  <2>2. CASE UNCHANGED <<at, spent>>
    BY <1>3, <2>2 DEF StoreFault, HeldInv, NonceOf
  <2> QED
    BY <1>3, <2>1, <2>2 DEF StoreFault
<1>4. ASSUME NEW s \in Stores, Evict(s)
      PROVE  HeldInv'
  <2> SUFFICES ASSUME NEW t \in Stores, NEW e \in accepted[t]
               PROVE  \/ /\ at'[t][NonceOf(e)] # Absent
                         /\ at'[t][NonceOf(e)] >= spent[e]
                      \/ now - spent[e] >= Window
    BY <1>4 DEF HeldInv, Evict, NonceOf
  <2>1. e \in Deliveries /\ spent[e] \in Nat /\ now \in Nat
    BY DEF TypeOK, AcceptedInv
  <2>2. NonceOf(e) \in Nonces
    BY <2>1, StoreFacts
  <2>3. CASE at'[t][NonceOf(e)] = at[t][NonceOf(e)]
    BY <2>3 DEF HeldInv
  <2>4. CASE at'[t][NonceOf(e)] # at[t][NonceOf(e)]
    <3>1. t = s /\ Expired(s, NonceOf(e))
      BY <1>4, <2>2, <2>4 DEF Evict, TypeOK
    <3>2. at[t][NonceOf(e)] \in Nat /\ now - at[t][NonceOf(e)] >= Window
      BY <2>2, <3>1 DEF Expired, TypeOK
    <3> QED
      BY <2>1, <3>2, GuardAssumption DEF HeldInv
  <2> QED
    BY <2>3, <2>4
<1>5. ASSUME NEW n \in Nodes, Restart(n)
      PROVE  HeldInv'
  BY <1>5, GuardAssumption DEF Restart, HeldInv, NonceOf, Stores, TypeOK
<1>6. ASSUME Tick
      PROVE  HeldInv'
  <2> SUFFICES ASSUME NEW s \in Stores, NEW e \in accepted[s]
               PROVE  \/ /\ at[s][NonceOf(e)] # Absent
                         /\ at[s][NonceOf(e)] >= spent[e]
                      \/ now' - spent[e] >= Window
    BY <1>6 DEF HeldInv, Tick, NonceOf
  <2>1. spent[e] \in Nat /\ now \in Nat /\ now' = now + 1
    BY <1>6 DEF TypeOK, AcceptedInv, Tick
  <2> QED
    BY <2>1, GuardAssumption DEF HeldInv
<1>7. CASE UNCHANGED vars
  BY <1>7 DEF vars, HeldInv, NonceOf
<1> QED
  BY <1>1, <1>2, <1>3, <1>4, <1>5, <1>6, <1>7 DEF Next

\* check_and_set lets a message through again only when the window since every
\* earlier copy is over.
LEMMA AcceptedAWindowLater ==
    ASSUME GuardInv, NEW d \in Deliveries, Accept(d),
           NEW e \in accepted[StoreAt(d)], msg[e] = msg[d]
    PROVE  now - spent[e] >= Window
<1>1. e \in Deliveries /\ NonceOf(e) = NonceOf(d)
  BY StoreFacts DEF GuardInv, TypeOK, NonceOf
<1>2. StoreAt(d) \in Stores /\ NonceOf(d) \in Nonces
  BY StoreFacts DEF GuardInv
<1>3. spent[e] \in Nat /\ now \in Nat
  BY <1>1, <1>2 DEF GuardInv, AcceptedInv, TypeOK
<1>4. CASE /\ at[StoreAt(d)][NonceOf(d)] # Absent
           /\ at[StoreAt(d)][NonceOf(d)] >= spent[e]
  <2>1. at[StoreAt(d)][NonceOf(d)] \in Nat
    BY <1>2, <1>4 DEF GuardInv, TypeOK
  <2>2. ~(now - at[StoreAt(d)][NonceOf(d)] < Window)
    BY <1>4 DEF Accept, Stored
  <2> QED
    BY <1>3, <1>4, <2>1, <2>2, GuardAssumption
<1> QED
  BY <1>1, <1>2, <1>4 DEF GuardInv, HeldInv

LEMMA ApartStep ==
    ASSUME GuardInv, [Next]_vars
    PROVE  ApartInv'
<1> USE DEF GuardInv
<1>1. ASSUME NEW d \in Deliveries, Accept(d)
      PROVE  ApartInv'
  <2>1. Burn(d) /\ Verified(d) /\ msg' = msg
    BY <1>1 DEF Accept
  <2>2. \A s \in Stores : \A e \in accepted[s] : spent'[e] = spent[e]
    BY <2>1, BurnKeepsHeld
  <2>3. \A s \in Stores : \A e \in accepted'[s] :
          e \in accepted[s] \/ (e = d /\ s = StoreAt(d))
    BY <1>1, StoreFacts DEF Accept, TypeOK
  <2>4. spent'[d] = now
    BY <2>1, BurnType
  <2> SUFFICES ASSUME NEW s \in Stores, NEW e \in accepted'[s],
                      NEW f \in accepted'[s], e # f, msg[e] = msg[f]
               PROVE  \/ spent'[e] - spent'[f] >= Window
                      \/ spent'[f] - spent'[e] >= Window
    BY <2>1 DEF ApartInv
  <2>5. CASE e \in accepted[s] /\ f \in accepted[s]
    BY <2>2, <2>5 DEF ApartInv
  <2>6. CASE e = d /\ s = StoreAt(d) /\ f \in accepted[s]
    BY <1>1, <2>2, <2>4, <2>6, AcceptedAWindowLater
  <2>7. CASE f = d /\ s = StoreAt(d) /\ e \in accepted[s]
    BY <1>1, <2>2, <2>4, <2>7, AcceptedAWindowLater
  <2> QED
    BY <2>3, <2>5, <2>6, <2>7
<1>2. ASSUME NEW d \in Deliveries, StoreFault(d)
      PROVE  ApartInv'
  <2>1. CASE Burn(d)
    <3>1. Verified(d) /\ msg' = msg /\ accepted' = accepted
      BY <1>2 DEF StoreFault
    <3>2. \A s \in Stores : \A e \in accepted[s] : spent'[e] = spent[e]
      BY <2>1, <3>1, BurnKeepsHeld
    <3> QED
      BY <3>1, <3>2 DEF ApartInv
  <2>2. CASE UNCHANGED <<at, spent>>
    BY <1>2, <2>2 DEF StoreFault, ApartInv
  <2> QED
    BY <1>2, <2>1, <2>2 DEF StoreFault
<1>3. ASSUME NEW n \in Nodes, Restart(n)
      PROVE  ApartInv'
  BY <1>3, GuardAssumption DEF Restart, ApartInv, Stores, TypeOK
<1>4. CASE UNCHANGED <<accepted, msg, spent>>
  BY <1>4 DEF ApartInv
<1> QED
  BY <1>1, <1>2, <1>3, <1>4
  DEF Next, vars, Reject, Arrive, BadBody, Replayed, Evict, Tick

LEMMA GuardStep == GuardInv /\ [Next]_vars => GuardInv'
  BY TypeStep, CheckedStep, SpentStep, HeldStep, ApartStep DEF GuardInv

\* The inductive invariant itself: what a delivery in progress and an accepted
\* one imply about the clock and the store's entry, in every reachable state
\* of require_scope and check_and_set, for every window, skew and delay.
THEOREM GuardInvariance == Spec => []GuardInv
  BY GuardInit, GuardStep, PTL DEF Spec

\* A store of require_scope lets a signed message through twice only if one of
\* the copies waited for its body for all that the window leaves beyond twice
\* the skew and the drift, whatever window, skew, expiry and interleaving.
THEOREM ReplaysAreLate == Spec => []ReplayNeedsLateBody
<1>1. ASSUME GuardInv
      PROVE  ReplayNeedsLateBody
  <2> SUFFICES ASSUME NEW s \in Stores, NEW d \in accepted[s],
                      NEW e \in accepted[s], d # e, msg[d] = msg[e]
               PROVE  \/ Held(d) >= Window - 2 * Skew - MaxDrift
                      \/ Held(e) >= Window - 2 * Skew - MaxDrift
    BY DEF ReplayNeedsLateBody
  <2>1. d \in Deliveries /\ e \in Deliveries
    BY <1>1 DEF GuardInv, TypeOK
  <2>2. /\ spent[d] \in Nat /\ spent[e] \in Nat
        /\ arrived[d] \in Nat /\ arrived[e] \in Nat /\ Stamp[msg[d]] \in Nat
    BY <1>1, <2>1, StoreFacts DEF GuardInv, AcceptedInv, TypeOK
  <2>3. /\ spent[d] - spent[e] >= Window \/ spent[e] - spent[d] >= Window
        /\ arrived[d] <= spent[d] /\ arrived[e] <= spent[e]
    BY <1>1, <2>1 DEF GuardInv, ApartInv, SpentInv, AcceptedInv
  <2>4. /\ Earliest(msg[d]) <= arrived[d] /\ arrived[d] <= Latest(msg[d])
        /\ Earliest(msg[d]) <= arrived[e] /\ arrived[e] <= Latest(msg[d])
    BY <1>1, <2>1 DEF GuardInv, CheckedInv, AcceptedInv
  <2> QED
    BY <2>2, <2>3, <2>4, GuardAssumption DEF Held, Earliest, Latest
<1> QED
  BY <1>1, GuardInvariance, PTL
-----------------------------------------------------------------------------
\* Whoever spent a nonce has finished with a valid signature, and every entry
\* of a store was put there by one of them.
BurnedInv ==
    /\ \A d \in Deliveries : pc[d] = "body" => msg[d] \notin Malformed
    /\ \A e \in Burned : pc[e] = "done" /\ msg[e] \notin Malformed \cup Forged
    /\ \A s \in Stores, x \in Nonces :
          at[s][x] # Absent => \E e \in Burned : NonceOf(e) = x

LEMMA BurnedStep ==
    ASSUME TypeOK, BurnedInv, [Next]_vars
    PROVE  BurnedInv'
<1> USE DEF BurnedInv, Burned, TypeOK, Absent
<1>1. ASSUME NEW d \in Deliveries, Reject(d) \/ BadBody(d) \/ Replayed(d) \/ Arrive(d)
      PROVE  BurnedInv'
  BY <1>1 DEF Reject, BadBody, Replayed, Arrive, Verified, Finish, NonceOf
<1>2. ASSUME NEW d \in Deliveries, Verified(d), Burn(d), msg' = msg,
             pc' = [pc EXCEPT ![d] = "done"]
      PROVE  BurnedInv'
  <2>1. d \in Burned' /\ Burned \subseteq Burned' /\ NonceOf(d)' = NonceOf(d)
    BY <1>2 DEF Burn, NonceOf
  <2>2. \A s \in Stores, x \in Nonces : at'[s][x] = at[s][x] \/ x = NonceOf(d)
    BY <1>2, BurnType
  <2>3. \A s \in Stores, x \in Nonces :
          at'[s][x] # Absent => \E e \in Burned' : NonceOf(e)' = x
    BY <1>2, <2>1, <2>2 DEF NonceOf
  <2>4. \A e \in Burned' : pc'[e] = "done" /\ msg'[e] \notin Malformed \cup Forged
    BY <1>2 DEF Burn, Verified
  <2> QED
    BY <1>2, <2>3, <2>4
<1>3. ASSUME NEW d \in Deliveries, Accept(d)
      PROVE  BurnedInv'
  BY <1>2, <1>3 DEF Accept, Finish
<1>4. ASSUME NEW d \in Deliveries, StoreFault(d)
      PROVE  BurnedInv'
  <2>1. CASE Burn(d)
    BY <1>2, <1>4, <2>1 DEF StoreFault, Finish
  <2>2. CASE UNCHANGED <<at, spent>>
    BY <1>4, <2>2 DEF StoreFault, Finish, NonceOf
  <2> QED
    BY <1>4, <2>1, <2>2 DEF StoreFault
<1>5. ASSUME NEW s \in Stores, Evict(s)
      PROVE  BurnedInv'
  BY <1>5 DEF Evict, NonceOf
<1>6. ASSUME NEW n \in Nodes, Restart(n)
      PROVE  BurnedInv'
  BY <1>6, GuardAssumption DEF Restart, Stores, NonceOf
<1>7. ASSUME Tick
      PROVE  BurnedInv'
  BY <1>7 DEF Tick, NonceOf
<1>8. CASE UNCHANGED vars
  BY <1>8 DEF vars, NonceOf
<1> QED
  BY <1>1, <1>3, <1>4, <1>5, <1>6, <1>7, <1>8 DEF Next

LEMMA JustifiedStep ==
    ASSUME TypeOK, BurnedInv, ReplayJustified, [Next]_vars
    PROVE  ReplayJustified'
<1> USE DEF ReplayJustified, TypeOK
<1>1. Burned \subseteq Burned' /\ msg' = msg
  <2>1. msg' = msg
    BY DEF Next, vars, Reject, Arrive, BadBody, Accept, Replayed, StoreFault,
           Evict, Restart, Tick
  <2>2. ASSUME NEW d \in Deliveries, Burn(d)
        PROVE  Burned \subseteq Burned'
    BY <2>2, BurnType DEF Burned, Absent
  <2>3. CASE UNCHANGED spent
    BY <2>1, <2>3 DEF Burned
  <2> QED
    BY <2>1, <2>2, <2>3
    DEF Next, vars, Reject, Arrive, BadBody, Accept, Replayed, StoreFault,
        Evict, Restart, Tick
<1>2. ASSUME NEW d \in Deliveries, Replayed(d)
      PROVE  ReplayJustified'
  <2>1. PICK e \in Burned : NonceOf(e) = NonceOf(d)
    BY <1>2, StoreFacts DEF Replayed, Stored, BurnedInv
  <2>2. e # d /\ msg[e] \notin Malformed \cup Forged
    BY <1>2, <2>1 DEF Replayed, Verified, BurnedInv
  <2> QED
    BY <1>1, <1>2, <2>1, <2>2 DEF Replayed, Finish, NonceOf
<1>3. ASSUME \A d \in Deliveries : result'[d] = "replayed" => result[d] = "replayed"
      PROVE  ReplayJustified'
  BY <1>1, <1>3 DEF NonceOf
<1> QED
  BY <1>2, <1>3
  DEF Next, vars, Reject, Arrive, BadBody, Accept, StoreFault, Finish,
      Evict, Restart, Tick

\* A caller is told that its nonce was replayed only if another delivery, well
\* formed and with a valid signature, spent that nonce: garbage sent ahead of
\* a request cannot burn its nonce, and no request trips over itself.
THEOREM ReplaysAreReal == Spec => []ReplayJustified
<1>1. Init => TypeOK /\ BurnedInv /\ ReplayJustified
  BY GuardInit DEF GuardInv, Init, BurnedInv, Burned, ReplayJustified
<1>2. TypeOK /\ BurnedInv /\ ReplayJustified /\ [Next]_vars
        => (TypeOK /\ BurnedInv /\ ReplayJustified)'
  BY TypeStep, BurnedStep, JustifiedStep
<1> QED
  BY <1>1, <1>2, PTL DEF Spec
=============================================================================
